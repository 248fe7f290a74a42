----------------------------- MODULE BruteForce -----------------------------
(***************************************************************************)
(* The brute-force pass: photorec_bf begins a file at the start of each    *)
(* extent, from the last to the first.  When its format finds an error in  *)
(* it photorec_bf_aux cuts the file there and tries to go on with blocks   *)
(* that lie further on, as often as the file may have fragments.           *)
(*                                                                         *)
(* The disk holds the blocks of whole files in any arrangement.  A format  *)
(* sees how many blocks of a file are right; it may notice the first wrong *)
(* one late.                                                               *)
(***************************************************************************)
EXTENDS CarveOps, FiniteSets

CONSTANTS
    BS,            \* params->blocksize
    NBlocks,       \* blocks of the disk
    Arrangements,  \* what the disk may hold
    Formats,       \* how the format of the files answers
    Skips,         \* 5000, the blocks skipped at most
    Tries,         \* << 16, 100 >>, the blocks skipped in any case, by phase
    PadBlocks,     \* 1000, the blocks added at once with a data_check
    PadBlind,      \* 100, without one
    Window,        \* 6 * 512, how far before an error the cut is tried
    MaxFrag,       \* 5, the cuts of one file
    MayStop,       \* BOOLEAN: need_to_stop may be set
    MayFail        \* BOOLEAN: the destination may fail

ASSUME BruteAssumption ==
    /\ BS \in Nat /\ BS > 1
    /\ { NBlocks, Skips, PadBlocks, PadBlind } \subseteq Nat \ {0}
    /\ { Window, MaxFrag } \subseteq Nat /\ Tries \in [ 1 .. 2 -> Nat ]
    /\ { MayStop, MayFail } \subseteq BOOLEAN
    /\ Formats \subseteq [ locates : BOOLEAN, late : Nat, marker : BOOLEAN, data_check : BOOLEAN ]

VARIABLES
    disk,     \* disk[a]: the block at address a, its file and its number in it
    format,
    phase,
    walker,   \* the start of the extent of search_walker, Nobody for the list head
    prev,     \* p, the extent before it
    pos,      \* the search space, current_search_space, offset
    file_recovery,
    next_file_at,    \* offset_next_file
    stack,    \* the calls of photorec_bf_frag and photorec_bf_frag_fast, last first
    result,   \* what the last call of them returned
    pc,
    need_to_stop,
    ind_stop,
    destination      \* the files kept, their number, the announcements and
                     \* free_list_allocation_end; whether it is full

brute_vars == << disk, format, phase, walker, prev, pos, file_recovery, next_file_at,
                 stack, result, pc, need_to_stop, ind_stop, destination >>

Nobody == -1
Blocks == { n * BS : n \in 0 .. NBlocks - 1 }

\* reset_file_recovery.  written are the blocks on the destination; a file that
\* is cut keeps there what was behind the cut until it is overwritten.
NoFile == [ on |-> FALSE, handle |-> FALSE, size |-> 0, location |-> << >>, written |-> << >>,
            offset_error |-> 0, offset_ok |-> 0, extra |-> 0 ]

IsHeader(a) == disk[a].file \notin { "-", "used" } /\ disk[a].k = 0

\* The number of blocks of a file; all of them are on the disk.
Length(f) == Cardinality({ a \in Blocks : disk[a].file = f })

\* The list the carve leaves: the free blocks in their order, a new extent at
\* each header.
AddBlock(l, a, d) ==
    LET begins == d[a].k = 0 /\ d[a].file # "-"
    IN  IF d[a].file = "used" THEN l
        ELSE IF l # << >> /\ ~ begins /\ Last(l).end + 1 = a
          THEN [ l EXCEPT ![Len(l)].end = a + BS - 1 ]
        ELSE Append(l, [ extent(a, a + BS - 1) EXCEPT !.file_stat = begins ])

SpaceOf(d) == FoldLeft(LAMBDA l, n : AddBlock(l, (n - 1) * BS, d), << >>, [ n \in 1 .. NBlocks |-> n ])

IndexOf(l, a) == SelectInSeq(l, LAMBDA x : x.start = a)
NoExtent == extent(Nobody, Nobody)
StartOf(l, i) == IF i \in DOMAIN l THEN l[i].start ELSE Nobody

Init ==
    /\ disk \in Arrangements
    /\ format \in Formats
    /\ phase = 0
    /\ pos = Position(SpaceOf(disk), 0, 0)
    /\ walker = StartOf(pos.list, Len(pos.list))
    /\ prev = NoExtent
    /\ file_recovery = NoFile
    /\ next_file_at = 0
    /\ stack = << >> /\ result = "ENOENT"
    /\ pc = "extent"
    /\ need_to_stop = FALSE /\ ind_stop = "OK"
    /\ destination = [ kept |-> {}, file_nbr |-> 0, allocation_end |-> 0, before |-> 0, full |-> FALSE ]

-----------------------------------------------------------------------------
(* The checks of a format *)

\* The blocks from the first on that are the right ones for the file.
RightBlocks(w) ==
    LET right == { n \in 0 .. Len(w) :
                     \A i \in 1 .. n : disk[w[i]] = [ file |-> disk[w[1]].file, k |-> i - 1 ] }
    IN  CHOOSE n \in right : \A m \in right : m <= n

\* file_check: the size of the file, or an error in the first wrong block or
\* the one after it, the place up to which all is well, and, for a JPEG, how
\* far behind the error the block is that belongs there.
file_check(f) ==
    LET right == RightBlocks(f.written)
        name  == disk[f.written[1]].file
        seen  == IF right + format.late < Len(f.written) THEN right + format.late
                 ELSE IF right < Len(f.written) THEN Len(f.written) - 1 ELSE right
        there == { q \in seen + 2 .. Len(f.written) : disk[f.written[q]] = [ file |-> name, k |-> seen ] }
    IN  IF right = 0 \/ name = "-" THEN [ f EXCEPT !.size = 0, !.offset_error = 0 ]
        ELSE IF right = Length(name)
          THEN [ f EXCEPT !.size = right * BS, !.offset_error = 0 ]
        ELSE IF ~ format.locates THEN [ f EXCEPT !.size = 0, !.offset_error = 0 ]
        ELSE [ f EXCEPT !.size = 0, !.offset_error = seen * BS + 1,
                        !.offset_ok = (right - 1) * BS + 1,
                        !.extra = IF format.marker /\ there # {}
                                    THEN ((CHOOSE q \in there : \A x \in there : q <= x) - 1 - seen) * BS
                                    ELSE 0 ]

\* data_check stops at the last block of a file.
data_check_stops(a) ==
    format.data_check /\ disk[a].file \notin { "-", "used" } /\ disk[a].k = Length(disk[a].file) - 1

-----------------------------------------------------------------------------
(* The end of a file *)

FinishUncut(f, paranoid) ==
    LET c == file_check(f)
    IN  IF c.size = 0 /\ paranoid = 2 THEN c
        ELSE [ c EXCEPT !.handle = FALSE, !.written = IF c.size = 0 THEN << >> ELSE @ ]

\* file_finish_aux: an error found with paranoid 2 leaves the file open.
file_finish_aux(f, paranoid) ==
    LET c == file_check(f)
    IN  IF c.size = 0 /\ paranoid = 2 THEN c
        ELSE IF c.size = 0 THEN [ c EXCEPT !.handle = FALSE, !.written = << >> ]
        ELSE [ c EXCEPT !.handle = FALSE, !.written = SubSeq(@, 1, c.size \div BS) ]

\* The file is kept and announced; what it does not need is given back.
Keep(f, closed, d, l) ==
    LET t == file_block_truncate(l, f.location, f.size, BS)
    IN  [ list |-> t.list, file |-> [ f EXCEPT !.location = << >> ],
          destination |->
            [ d EXCEPT !.kept = IF t.loc = << >> THEN @
                                ELSE @ \cup { [ location |-> t.loc, written |-> f.written ] },
                       !.file_nbr = @ + (IF closed THEN 1 ELSE 0),
                       !.allocation_end = IF t.loc = << >> THEN @ ELSE Last(t.loc).end ] ]

RejectForgets(f, d, l) == [ list |-> l, file |-> NoFile, destination |-> d ]

Reject(f, d, l) ==
    [ list |-> file_block_truncate_zero(l, f.location), file |-> NoFile, destination |-> d ]

\* file_finish_bf; -1 is the answer "broken".
Answer(r, broken) ==
    [ list |-> r.list, file |-> r.file, destination |-> r.destination, broken |-> broken ]

file_finish_bf(f, d, l) ==
    LET c == IF f.handle THEN file_finish_aux(f, 2) ELSE f
    IN  IF ~ f.on THEN [ list |-> l, file |-> f, destination |-> d, broken |-> FALSE ]
        ELSE IF c.size = 0 /\ c.offset_error # 0
          THEN [ list |-> l, file |-> c, destination |-> d, broken |-> TRUE ]
        ELSE IF c.size = 0 THEN Answer(Reject(c, d, l), FALSE)
        ELSE Answer(Keep(c, f.handle, d, l), FALSE)

\* file_finish2 with paranoid 1.
file_finish2(f, d, l) ==
    LET c == IF f.handle THEN file_finish_aux(f, 1) ELSE f
    IN  IF ~ f.on THEN [ list |-> l, file |-> f, destination |-> d ]
        ELSE IF c.size = 0 THEN Reject(c, d, l)
        ELSE [ Keep(c, f.handle, d, l) EXCEPT !.file = NoFile ]

Finished(r) ==
    /\ pos' = [ pos EXCEPT !.list = r.list ]
    /\ file_recovery' = r.file
    /\ destination' = r.destination

-----------------------------------------------------------------------------
(***************************************************************************)
(* Steps of the search.  A state s of it is the position with the file in  *)
(* progress, the blocks added and whether data_check stopped; lost when a  *)
(* block is to be taken that the search space does not have.               *)
(***************************************************************************)
Search(p, f) ==
    [ list |-> p.list, cur |-> p.cur, offset |-> p.offset, file |-> f,
      nbr |-> 0, stop |-> FALSE, lost |-> FALSE ]

Move(s, p) == [ s EXCEPT !.list = p.list, !.cur = p.cur, !.offset = p.offset ]

\* A write at the size of the file; what lies before it was written earlier.
WriteAt(w, n, a) == IF n > Len(w) THEN Append(w, a) ELSE [ w EXCEPT ![n] = a ]

\* pread, fwrite, file_block_append.
Append1(s) ==
    IF ExtentOf(s.list, s.cur, s.offset, BS) = 0 THEN [ s EXCEPT !.lost = TRUE ]
    ELSE [ Move(s, file_block_remove_from_sp(s.list, s.cur, s.offset, BS))
             EXCEPT !.file.location = file_block_add_to_file(@, s.offset, BS, 1),
                    !.file.written = WriteAt(@, s.file.size \div BS + 1, s.offset),
                    !.file.size = @ + BS,
                    !.nbr = @ + 1,
                    !.stop = data_check_stops(s.offset) ]

Times(n, Step(_), s) == FoldLeft(LAMBDA t, k : Step(t), s, [ k \in 1 .. n |-> k ])

NextSector(s) == Move(s, get_next_sector(s.list, s.cur, s.offset, BS))
get_next_header(s) == IF s.cur = 0 THEN s ELSE Move(s, At_start(s.list, next_entry(s.list, s.cur)))

\* file_block_truncate_and_move: the search goes on in the first extent behind
\* the last block the file keeps.
file_block_truncate_and_move(s, size) ==
    LET t    == file_block_truncate(s.list, s.file.location, size, BS)
        end  == IF t.loc = << >> THEN 0 ELSE Last(t.loc).end
        next == SelectInSeq(t.list, LAMBDA x : x.start > end)
    IN  [ s EXCEPT !.list = t.list, !.cur = next,
                   !.offset = IF next = 0 THEN @ ELSE t.list[next].start,
                   !.file.location = t.loc, !.file.size = size,
                   !.file.offset_ok = IF @ > size THEN size ELSE @,
                   !.file.offset_error = IF @ > size THEN 0 ELSE @ ]

\* Blocks are added up to the end of the list; one at which a header was found
\* is passed over, in phase 1 all its extent is.
PadBlock(s, limit) ==
    IF s.cur = 0 \/ s.stop \/ s.file.size >= limit THEN s
    ELSE IF \/ s.list[s.cur].start # s.offset /\ (phase # 1 \/ ~ format.data_check)
            \/ ~ s.list[s.cur].file_stat
      THEN Append1(s)
    ELSE NextSector(s)

\* One turn of the outer loop of photorec_bf_pad, while the error moves on.
PadRound(r) ==
    LET before == r.s.file.offset_error
        limit  == before + (IF format.data_check THEN PadBlocks ELSE PadBlind) * BS
        s      == Times(NBlocks + 1, LAMBDA t : PadBlock(t, limit), [ r.s EXCEPT !.nbr = 0, !.stop = FALSE ])
        f      == file_check([ s.file EXCEPT !.offset_ok = 0 ])
    IN  IF ~ r.again THEN r
        ELSE [ s     |-> [ s EXCEPT !.file = [ f EXCEPT !.size = s.file.size ] ],
               again |-> f.offset_error > before + (s.nbr \div 2) * BS ]

photorec_bf_pad(s) == Times(NBlocks + 1, PadRound, [ s |-> s, again |-> TRUE ]).s

\* BF_FRAG_FOUND: the error is two blocks on at least.
FragFound(s, file_offset) ==
    (s.file.offset_error \div BS) * BS >= (file_offset \div BS) * BS + 2 * BS

-----------------------------------------------------------------------------
(* photorec_bf: one extent after the other, backwards *)

extent_vars == << phase, walker, prev, next_file_at >>
search_vars == << stack, result >>
fixed == << disk, format >>

StartExtent ==
    /\ pc = "extent" /\ ind_stop = "OK" /\ walker # Nobody
    /\ LET i == IndexOf(pos.list, walker)
       IN  /\ pos' = At_start(pos.list, i)
           /\ prev' = IF i = 1 THEN NoExtent ELSE pos.list[i - 1]
    /\ file_recovery' = NoFile
    /\ pc' = "block"
    /\ UNCHANGED << fixed, phase, walker, next_file_at, search_vars, need_to_stop, ind_stop, destination >>

EndPhase ==
    /\ pc = "extent" /\ (ind_stop # "OK" \/ walker = Nobody)
    /\ pc' = IF phase = 1 THEN "done" ELSE "extent"
    /\ phase' = IF phase = 1 THEN 1 ELSE phase + 1
    /\ walker' = StartOf(pos.list, Len(pos.list))
    /\ UNCHANGED << fixed, prev, pos, file_recovery, next_file_at, search_vars,
                    need_to_stop, ind_stop, destination >>

AtStart == pos.list[pos.cur].start = pos.offset
HeaderHere == AtStart /\ IsHeader(pos.offset)

\* One turn of the loop over blocks; a block that cannot be written is missing on
\* the destination and counted in the file.
ReadBlock(created) ==
    LET begins == HeaderHere /\ ~ file_recovery.on
        f      == IF begins THEN [ NoFile EXCEPT !.on = TRUE ] ELSE file_recovery
        ends   == AtStart /\ (IF HeaderHere THEN file_recovery.on ELSE ~ file_recovery.on)
        g      == IF f.on /\ ~ f.handle THEN [ f EXCEPT !.handle = created ] ELSE f
        s      == Search(pos, g)
        adds   == ~ ends /\ g.handle
        t      == IF adds THEN Append1(s) ELSE NextSector(s)
    IN  /\ pc = "block"
        /\ pos' = Position(t.list, t.cur, t.offset)
        /\ file_recovery' = [ t.file EXCEPT !.written = IF adds /\ destination.full THEN f.written ELSE @ ]
        /\ ind_stop' = IF f.on /\ ~ f.handle /\ ~ created THEN "EACCES"
                       ELSE IF adds /\ destination.full THEN "ENOSPC" ELSE ind_stop
        /\ pc' = IF t.lost THEN "exit"
                 ELSE IF ends \/ t.stop \/ t.cur = 0 THEN "check" ELSE "block"
        /\ UNCHANGED << fixed, extent_vars, search_vars, need_to_stop, destination >>

ReadBlocks == \E created \in { ~ destination.full, TRUE } : ReadBlock(created)

\* get_offset_next_file, next_file: the next extent with a header.
NextMarked(l, i) ==
    LET after == { j \in DOMAIN l : j > i /\ l[j].file_stat }
    IN  IF after = {} THEN 0 ELSE CHOOSE j \in after : \A k \in after : j <= k

CheckFile ==
    LET r == file_finish_bf(file_recovery, destination, pos.list)
    IN  /\ pc = "check"
        /\ next_file_at' = At(pos.list, NextMarked(pos.list, pos.cur)).start
        /\ pos' = [ pos EXCEPT !.list = r.list ]
        /\ file_recovery' = r.file
        /\ destination' = [ r.destination EXCEPT !.before = destination.file_nbr ]
        /\ pc' = IF r.broken THEN "aux" ELSE "leave"
        /\ UNCHANGED << fixed, phase, walker, prev, search_vars, need_to_stop, ind_stop >>

-----------------------------------------------------------------------------
(***************************************************************************)
(* photorec_bf_frag and photorec_bf_frag_fast.  A call of the first is a   *)
(* frame "slow" that stays while it tries cut after cut; when the format   *)
(* said where the file goes on a frame "fast" is on top of it first.       *)
(***************************************************************************)
SlowFrame(f, frag) ==
    [ kind |-> "slow", frag |-> frag, err |-> f.offset_error, at |-> (f.offset_error \div BS) * BS,
      n |-> 0, i |-> 0 ]

FastFrame(f, frag) ==
    [ kind |-> "fast", frag |-> frag, err |-> f.offset_error, at |-> f.offset_ok,
      n |-> f.extra \div BS, i |-> 0 ]

\* The call: the stack, the label and the file it goes on with.
photorec_bf_frag(f, frag, callers) ==
    IF f.extra > 0 /\ f.offset_error \div BS > f.offset_ok \div BS /\ f.offset_ok > 0
      THEN [ stack |-> << FastFrame(f, frag), SlowFrame(f, frag) >> \o callers, pc |-> "try",
             file |-> [ f EXCEPT !.extra = 0 ] ]
    ELSE [ stack |-> << SlowFrame(f, frag) >> \o callers, pc |-> "cut", file |-> f ]

Top == Head(stack)
search_unchanged == << fixed, extent_vars, ind_stop >>
At_s(s) == Position(s.list, s.cur, s.offset)

Returns(rest, r) == stack' = rest /\ result' = r /\ pc' = "back"

Aux ==
    LET size == (file_recovery.offset_error \div BS) * BS
        s    == file_block_truncate_and_move(
                  Search(pos, [ file_recovery EXCEPT !.offset_error = size ]), size)
        c    == photorec_bf_frag(s.file, 0, << >>)
    IN  /\ pc = "aux"
        /\ pos' = At_s(s)
        /\ stack' = c.stack /\ pc' = c.pc /\ file_recovery' = c.file
        /\ UNCHANGED << search_unchanged, result, need_to_stop, destination >>

\* photorec_bf_pad is called with the error of the file as its file_offset, and
\* its caller goes on with its top frame at i + 1.
CallsPad(s) ==
    /\ pos' = At_s(s) /\ file_recovery' = s.file
    /\ stack' = << [ Top EXCEPT !.i = @ + 1 ] >> \o Tail(stack)
    /\ pc' = "pad"

BackToLoop == IF Top.kind = "fast" THEN "try" ELSE "skip"

\* photorec_bf_pad and what its caller does with the answer; with a cut too many
\* that is "ENOENT".
Pad ==
    LET t == photorec_bf_pad(Search(pos, file_recovery))
        r == file_finish_bf(t.file, destination, t.list)
        c == photorec_bf_frag(t.file, Top.frag + 1, stack)
    IN  /\ pc = "pad"
        /\ IF t.lost THEN pc' = "exit" /\ UNCHANGED << pos, file_recovery, destination, stack, result >>
           ELSE IF t.file.offset_error = 0
             THEN /\ pos' = [ At_s(t) EXCEPT !.list = r.list ]
                  /\ file_recovery' = r.file /\ destination' = r.destination
                  /\ Returns(Tail(stack), "OK")
           ELSE /\ pos' = At_s(t)
                /\ UNCHANGED destination
                /\ IF ~ FragFound(t, file_recovery.offset_error)
                     THEN /\ file_recovery' = t.file
                          /\ pc' = BackToLoop /\ UNCHANGED << stack, result >>
                   ELSE IF Top.frag > MaxFrag
                     THEN /\ file_recovery' = t.file /\ stack' = Tail(stack) /\ result' = "ENOENT"
                          /\ pc' = IF Top.kind = "fast" THEN "cut" ELSE "back"
                   ELSE /\ file_recovery' = c.file
                        /\ stack' = c.stack /\ pc' = c.pc /\ UNCHANGED result
        /\ UNCHANGED << search_unchanged, need_to_stop >>

\* A block cannot be written, in photorec_bf_pad or before it.
PadFails ==
    /\ pc = "pad" /\ destination.full
    /\ file_recovery' = [ file_recovery EXCEPT !.handle = FALSE ]
    /\ Returns(Tail(stack), "ENOSPC")
    /\ UNCHANGED << search_unchanged, pos, need_to_stop, destination >>

\* One turn of photorec_bf_frag_fast: i blocks are passed over, then those of
\* the error are added, then the rest is passed over.
Try ==
    LET ok == Top.at \div BS
        s  == file_block_truncate_and_move(Search(pos, file_recovery), ok * BS)
        a  == Times(Top.i, NextSector, s)
        b  == Times((Top.err \div BS) - ok - 1, LAMBDA t : IF t.lost THEN t ELSE Append1(t), a)
    IN  /\ pc = "try" /\ Top.i < Top.n
        /\ IF b.lost THEN pc' = "exit" /\ UNCHANGED << pos, file_recovery, stack >>
           ELSE CallsPad(Times(Top.n - Top.i, NextSector, b))
        /\ UNCHANGED << search_unchanged, result, need_to_stop, destination >>

TryEnds ==
    /\ pc = "try" /\ Top.i = Top.n
    /\ stack' = Tail(stack) /\ pc' = "cut"
    /\ UNCHANGED << search_unchanged, pos, file_recovery, result, need_to_stop, destination >>

CutHereNotFirst == Top.at > BS /\ (Top.err <= Top.at + Window \/ Top.err < Top.at + 2 * BS)

\* The head of the loop over the cuts.
CutHere == Top.at >= BS /\ (Top.err <= Top.at + Window \/ Top.err < Top.at + 2 * BS)

Cut ==
    LET s == file_block_truncate_and_move(Search(pos, file_recovery), Top.at)
    IN  /\ pc = "cut" /\ CutHere
        /\ pos' = At_s(s)
        /\ file_recovery' = [ s.file EXCEPT !.offset_error = 0 ]
        /\ stack' = << [ Top EXCEPT !.i = 0 ] >> \o Tail(stack)
        /\ pc' = "skip"
        /\ UNCHANGED << search_unchanged, result, need_to_stop, destination >>

CutsEnd ==
    /\ pc = "cut" /\ ~ CutHere
    /\ Returns(Tail(stack), "ENOENT")
    /\ UNCHANGED << search_unchanged, pos, file_recovery, need_to_stop, destination >>

\* The loop over the blocks to skip; i counts from 0 for -2.
Skipped == Top.i - 2
SkipMore ==
    /\ Skipped < Skips
    /\ \/ file_recovery.offset_error = 0
       \/ phase = 0 /\ (file_recovery.offset_error >= Top.at \/ Skipped < Tries[1])
       \/ phase = 1 /\ (file_recovery.offset_error + BS >= Top.at \/ Skipped < Tries[2])

RestoredUncut == Search(pos, [ file_recovery EXCEPT !.size = Top.at, !.offset_error = 0, !.extra = 0 ])

\* The file is again what it was at the cut.
Restored ==
    file_block_truncate_and_move(
      Search(pos, [ file_recovery EXCEPT !.size = Top.at, !.offset_error = 0, !.extra = 0 ]), Top.at)

Skip ==
    LET s == Restored
        t == IF Skipped < 0 THEN Times(2 + Skipped, get_next_header, s) ELSE Times(Skipped, NextSector, s)
    IN  /\ pc = "skip" /\ SkipMore
        /\ IF Skipped > 0 /\ t.cur = 0
             THEN /\ pos' = At_s(t) /\ file_recovery' = t.file
                  /\ Returns(Tail(stack), "ENOENT")
           ELSE CallsPad([ t EXCEPT !.file.offset_error = Top.at ]) /\ UNCHANGED result
        /\ UNCHANGED << search_unchanged, need_to_stop, destination >>

\* need_to_stop is looked at once a second at most, and only here.
SkipStops ==
    LET s == Restored
        r == file_finish_bf(s.file, destination, s.list)
    IN  /\ pc = "skip" /\ SkipMore /\ need_to_stop
        /\ pos' = [ At_s(s) EXCEPT !.list = r.list ]
        /\ file_recovery' = r.file /\ destination' = r.destination
        /\ Returns(Tail(stack), "STOP")
        /\ UNCHANGED << search_unchanged, need_to_stop >>

SkipsEnd ==
    /\ pc = "skip" /\ ~ SkipMore
    /\ IF 0 < file_recovery.offset_error /\ file_recovery.offset_error < Top.at
         THEN Returns(Tail(stack), "ERANGE")
       ELSE /\ stack' = << [ Top EXCEPT !.at = @ - BS ] >> \o Tail(stack)
            /\ pc' = "cut" /\ UNCHANGED result
    /\ UNCHANGED << search_unchanged, pos, file_recovery, need_to_stop, destination >>

Final == { "OK", "STOP", "EACCES", "ENOSPC" }

\* What a caller does with the answer of the call it made.
Return ==
    /\ pc = "back" /\ stack # << >>
    /\ IF Top.kind = "fast" /\ result = "ENOENT" THEN pc' = "try" /\ UNCHANGED << stack, result >>
       ELSE IF Top.kind = "fast" /\ result = "ERANGE"
         THEN stack' = Tail(stack) /\ result' = "ENOENT" /\ pc' = "cut"
       ELSE /\ stack' = IF Top.kind = "fast" THEN Tail(Tail(stack)) ELSE Tail(stack)
            /\ result' = IF result \in Final THEN result ELSE "ENOENT"
            /\ pc' = "back"
    /\ UNCHANGED << search_unchanged, pos, file_recovery, need_to_stop, destination >>

AuxEnds ==
    /\ pc = "back" /\ stack = << >>
    /\ Finished(file_finish2(file_recovery, destination, pos.list))
    /\ ind_stop' = IF result \in Final THEN result ELSE "OK"
    /\ pc' = "leave"
    /\ UNCHANGED << fixed, extent_vars, search_vars, need_to_stop >>

-----------------------------------------------------------------------------
\* The extent p points to, whatever was taken from it or given back to it.
PrevIndex == SelectInSeq(pos.list, LAMBDA x : x.start <= prev.end /\ prev.start <= x.end)

\* go_backward=0
GoesForwardAlways == destination.allocation_end > next_file_at
GoesForward ==
    destination.before < destination.file_nbr /\ destination.allocation_end > next_file_at

\* The extent before is next, unless the file went on behind the next header.
Leave ==
    LET p      == IF prev = NoExtent THEN 0 ELSE PrevIndex
        marked == NextMarked(pos.list, p)
    IN  /\ pc = "leave"
        /\ walker' = StartOf(pos.list, IF GoesForward /\ marked # 0 THEN marked ELSE p)
        /\ pc' = IF prev # NoExtent /\ p = 0 THEN "freed" ELSE "extent"
        /\ UNCHANGED << fixed, phase, prev, pos, file_recovery, next_file_at, search_vars,
                        need_to_stop, ind_stop, destination >>

kaifuku_stop ==
    /\ MayStop /\ ~ need_to_stop /\ ~ destination.full /\ pc # "done"
    /\ need_to_stop' = TRUE
    /\ UNCHANGED << fixed, extent_vars, pos, file_recovery, search_vars, pc, ind_stop, destination >>

\* The destination takes no more blocks from here on.
FillUp ==
    /\ MayFail /\ ~ destination.full /\ ~ need_to_stop /\ pc # "done"
    /\ destination' = [ destination EXCEPT !.full = TRUE ]
    /\ UNCHANGED << fixed, extent_vars, pos, file_recovery, search_vars, pc, need_to_stop, ind_stop >>

Pass ==
    \/ StartExtent \/ EndPhase \/ ReadBlocks \/ CheckFile \/ Aux
    \/ Try \/ TryEnds \/ Cut \/ CutsEnd \/ Skip \/ Pad \/ PadFails \/ SkipStops \/ SkipsEnd
    \/ Return \/ AuxEnds \/ Leave

Ended == pc \in { "done", "exit", "freed" }

\* photorec_bf returns, or the program ends.
End == Ended /\ UNCHANGED brute_vars

Next == Pass \/ kaifuku_stop \/ FillUp \/ End

\* The pass runs in one thread; short of its end a step of it is always enabled,
\* which the check for deadlock shows, so this is weak fairness of Pass.
Spec == Init /\ [][Next]_brute_vars /\ ([]<>Ended \/ []<><<Pass>>_brute_vars)

-----------------------------------------------------------------------------
(* Properties *)

BlocksOf(w) == UNION { a .. a + BS - 1 : a \in Range(w) }
KeptBytes   == UNION { Bytes(f.location) : f \in destination.kept }
Held        == Bytes(file_recovery.location)

\* However often a file is cut, put together and given up, each byte of the
\* disk is in the search space, in the file in progress or in one kept file
\* (file_block_append, file_block_truncate_and_move, file_finish_bf).
BytesAccounted ==
    /\ WellFormed(pos.list)
    /\ Bytes(pos.list) \cap (Held \cup KeptBytes) = {} /\ Held \cap KeptBytes = {}
    /\ \A f, g \in destination.kept : f # g => Bytes(f.location) \cap Bytes(g.location) = {}
    /\ Bytes(pos.list) \cup Held \cup KeptBytes = Bytes(SpaceOf(disk))

\* The blocks w are those of one file of the disk from its first to its last.
OneFile(w) ==
    \E n \in { disk[a].file : a \in Blocks } :
        /\ Len(w) = Length(n)
        /\ \A i \in DOMAIN w : disk[w[i]] = [ file |-> n, k |-> i - 1 ]

\* A file the format accepted is one file from its first block to its last, though
\* blocks of earlier tries may still be on the destination behind the cut
\* (phbf.c:622).  When a block cannot be written the pass goes on without it.
KeptWhole == ~ destination.full => \A f \in destination.kept : OneFile(f.written)

\* A kept file takes only its own blocks out of the search space.  A format that
\* tells where the file goes on may take others' too: photorec_bf_frag_fast can
\* cut at the header's own block, and the end of the file is then set past the
\* blocks that are left to it (phbf.c:470, 573).
KeptTakesOwn ==
    ~ destination.full /\ ~ format.marker =>
        \A f \in destination.kept : Bytes(f.location) \subseteq BlocksOf(f.written)

\* The end of the pass finds every file that lies on the disk in order, in two
\* pieces less than Skips blocks apart, when its format tells where the first
\* wrong block is (photorec_bf_frag); a stop or a full destination may end it
\* before.  A format that also tells where the file goes on spoils this:
\* photorec_bf_frag_fast may lose blocks the later search needs.
AddressOf(n, k) == CHOOSE a \in Blocks : disk[a] = [ file |-> n, k |-> k ]
Gap(n, k)       == AddressOf(n, k) - AddressOf(n, k - 1)
InTwoPieces(n)  ==
    LET joints == 1 .. Length(n) - 1
    IN  /\ \A k \in joints : 0 < Gap(n, k) /\ Gap(n, k) <= Skips * BS
        /\ \A j, k \in joints : Gap(n, j) > BS /\ Gap(n, k) > BS => j = k

FragmentsFound ==
    pc = "done" /\ ~ need_to_stop /\ ~ destination.full
      /\ format.locates /\ format.late = 0 /\ ~ format.marker =>
        \A n \in { disk[a].file : a \in Blocks } \ { "-", "used" } :
            InTwoPieces(n) => \E f \in destination.kept : f.written[1] = AddressOf(n, 0)

\* The pass ends, with every extent looked at in both phases, although it goes
\* forward again after a file it put together; and it never asks for a block
\* that is not there nor returns to an extent that is gone, unless a format told
\* where the file goes on (phbf.c:481, 297-303).
BruteEnds == <>(pc = "done" \/ (format.marker /\ Ended))
=============================================================================
