------------------------------ MODULE Carving ------------------------------
(***************************************************************************)
(* One carving pass: photorec_aux reads the search space block by block,   *)
(* begins a file at each header it knows, adds the blocks that follow to   *)
(* it, and on the end of the file keeps it or gives its blocks back; then  *)
(* it may move back to look again at what it passed over.                  *)
(*                                                                         *)
(* What the blocks hold is chosen once, at the start; what the checks of a *)
(* format answer about them is chosen when they are asked.                 *)
(***************************************************************************)
EXTENDS CarveOps, FiniteSets

CONSTANTS
    BS,             \* params->blocksize
    NBlocks,        \* blocks of the disk
    Ext2,           \* status is STATUS_EXT2_ON: skip indirect blocks
    IndirectAfter,  \* the 12 data blocks before the first indirect block, scaled
    MayFail         \* BOOLEAN: files that cannot be created or written, and stops

ASSUME CarvingAssumption ==
    /\ BS \in Nat /\ BS > 1
    /\ { NBlocks, IndirectAfter } \subseteq Nat \ {0}
    /\ { Ext2, MayFail } \subseteq BOOLEAN

VARIABLES
    list_search_space,
    cur,                    \* current_search_space
    offset,
    content,                \* content[a]: what begins at block address a
    file_recovery,
    file_recovered, file_recovered_old,
    data_check_status,
    back, offset_before_back,
    offset_skipped_header,
    pc,
    kept,                   \* the files recovered so far
    announced,              \* the calls of file_found_cb: start and size
    examined                \* the blocks photorec_check_header has looked at

place == << list_search_space, cur, offset >>
retry == << back, offset_before_back, offset_skipped_header >>
results == << kept, announced >>
vars == << place, content, file_recovery, file_recovered, file_recovered_old,
           data_check_status, retry, pc, results, examined >>

Blocks  == { n * BS : n \in 0 .. NBlocks - 1 }
Content == { "data", "header", "index", "indirect" }
Pfstatus == { "BAD", "OK", "OK_TRUNCATED" }
PC == { "header", "data", "finish", "move", "end", "next", "abort", "done", "stopped" }
DataCheck == { "SCAN", "CONTINUE", "STOP", "ERROR" }

\* reset_file_recovery leaves location.start as it was.
NoFile(start) == [ on |-> FALSE, handle |-> FALSE, start |-> start, size |-> 0,
                   location |-> << >> ]

Held == Bytes(file_recovery.location)

\* The lists update_blocksize leaves: one extent for each run of free blocks.
Runs == { extent(a, b + BS - 1) : a, b \in Blocks }

FreeLists ==
    { l \in SeqOf({ x \in Runs : x.start <= x.end }, NBlocks) :
        \A i, j \in DOMAIN l : i < j => l[i].end + 1 < l[j].start }

Init ==
    /\ list_search_space \in FreeLists
    /\ cur = IF list_search_space = << >> THEN 0 ELSE 1
    /\ offset = At(list_search_space, cur).start
    /\ content \in [ Blocks -> IF Ext2 THEN Content ELSE Content \ { "indirect" } ]
    /\ \A a \in Blocks \ Bytes(list_search_space) : content[a] = "data"
    /\ file_recovery = NoFile(0)
    /\ file_recovered = "BAD" /\ file_recovered_old = "BAD"
    /\ data_check_status = "SCAN"
    /\ back = 0 /\ offset_before_back = 0 /\ offset_skipped_header = 0
    /\ pc = IF cur = 0 THEN "done" ELSE "header"
    /\ kept = {} /\ announced = {} /\ examined = {}

-----------------------------------------------------------------------------
(***************************************************************************)
(* file_finish2: the end of the file in progress, for a final size.  With  *)
(* no file in progress nothing changes and the answer is PFSTATUS_BAD.     *)
(***************************************************************************)

\* The sizes file_finish_aux may leave: file_check shortens or rejects, and a
\* file under the minimum of its format is rejected.  (Without paranoid and in
\* the SAVE_EVERYTHING passes file_check is not asked: size or 0.)  A file
\* without a handle is not checked.
FinalSizes(size) == IF file_recovery.handle THEN 0 .. size ELSE { size }

\* file_block_free: a header among the blocks of a recovered file is no longer
\* of interest.
header_ignored_cond_keep(loc) == offset_skipped_header

header_ignored_cond_reset(loc) ==
    IF offset_skipped_header \in Bytes(loc) THEN 0 ELSE offset_skipped_header

file_finish2(size) ==
    LET t == IF size = 0
               THEN [ list |-> file_block_truncate_zero(list_search_space, file_recovery.location),
                      truncated |-> FALSE, loc |-> << >> ]
               ELSE file_block_truncate(list_search_space, file_recovery.location, size, BS)
        file == [ start |-> file_recovery.start, size |-> size,
                  location |-> t.loc, on_disk |-> file_recovery.handle ]
    IN  [ list      |-> t.list,
          cur       |-> Follow(list_search_space, t.list, cur),
          status    |-> IF size = 0 THEN "BAD" ELSE IF t.truncated THEN "OK_TRUNCATED" ELSE "OK",
          kept      |-> IF size = 0 THEN kept ELSE kept \cup { file },
          announced |-> IF size = 0 THEN announced ELSE announced \cup { << file.start, size >> },
          skipped   |-> header_ignored_cond_reset(t.loc) ]

-----------------------------------------------------------------------------
(* photorec_check_header *)

HeaderHere == content[offset] \in { "header", "index" }

Look ==
    /\ pc = "header"
    /\ data_check_status' = "SCAN"
    /\ examined' = examined \cup { offset }

\* No header, or one that the file in progress says is part of it.
NoHeader ==
    /\ Look
    /\ HeaderHere => file_recovery.on
    /\ file_recovered' = "BAD"
    /\ pc' = IF file_recovery.on THEN "data" ELSE "move"
    /\ UNCHANGED << place, content, file_recovery, file_recovered_old, retry, results >>

\* header_ignored, header_ignored_adv: a header inside a file in progress is
\* left for later, the first one of them remembered.
header_ignored ==
    /\ Look
    /\ HeaderHere /\ file_recovery.on
    /\ offset_skipped_header' = IF offset < offset_skipped_header \/ offset_skipped_header = 0
                                  THEN offset ELSE offset_skipped_header
    /\ file_recovered' = "BAD"
    /\ pc' = "data"
    /\ UNCHANGED << place, content, file_recovery, file_recovered_old, back,
                    offset_before_back, results >>

\* photorec_header_found: the file in progress ends, and a new one begins
\* unless fragments of the old one were cut off.
photorec_header_found(size, created) ==
    LET f == file_finish2(size)
    IN  /\ Look
        /\ HeaderHere
        /\ list_search_space' = f.list /\ cur' = f.cur
        /\ file_recovered' = f.status
        /\ offset_skipped_header' = f.skipped
        /\ kept' = f.kept
        /\ IF f.status = "OK_TRUNCATED"
             THEN /\ file_recovery' = NoFile(file_recovery.start)
                  /\ announced' = f.announced
                  /\ pc' = "move"
             ELSE /\ file_recovery' = [ NoFile(offset) EXCEPT !.on = TRUE, !.handle = created ]
                  /\ announced' = f.announced \cup (IF created THEN { << offset, 0 >> } ELSE {})
                  /\ pc' = IF created \/ content[offset] = "index" THEN "data" ELSE "abort"
        /\ UNCHANGED << offset, content, file_recovered_old, back, offset_before_back >>

\* Formats with recover=0 never get a file; fopen may fail for the others.
Created == IF content[offset] = "index" THEN { FALSE }
           ELSE IF MayFail THEN BOOLEAN ELSE { TRUE }

CheckHeader ==
    \/ NoHeader
    \/ header_ignored
    \/ \E size \in FinalSizes(file_recovery.size), created \in Created :
          photorec_header_found(size, created)

-----------------------------------------------------------------------------
(* The block is added to the file in progress *)

Taken == file_block_remove_from_sp(list_search_space, cur, offset, BS)

file_block_append(data) ==
    /\ list_search_space' = Taken.list /\ cur' = Taken.cur /\ offset' = Taken.offset
    /\ file_recovery' = [ file_recovery EXCEPT
           !.location = file_block_add_to_file(@, offset, BS, data),
           !.size = @ + data * BS ]

IndirectHere ==
    Ext2 /\ content[offset] = "indirect" /\ file_recovery.size >= IndirectAfter * BS

SkipIndirect ==
    /\ pc = "data" /\ IndirectHere
    /\ file_block_append(0)
    /\ data_check_status' = "CONTINUE"
    /\ pc' = "move"
    /\ UNCHANGED << content, file_recovered, file_recovered_old, retry, results, examined >>

\* data_check answers, or the size limits do; a write that failed with EFBIG
\* has already set DC_STOP, which the answer replaces.
AddBlock(answer) ==
    /\ pc = "data" /\ ~ IndirectHere
    /\ file_block_append(1)
    /\ data_check_status' = answer
    /\ pc' = IF answer = "CONTINUE" THEN "move" ELSE "finish"
    /\ UNCHANGED << content, file_recovered, file_recovered_old, retry, results, examined >>

\* No space is left on the destination.
WriteFails ==
    /\ pc = "data" /\ MayFail /\ file_recovery.handle /\ ~ IndirectHere
    /\ pc' = "abort"
    /\ UNCHANGED << place, content, file_recovery, file_recovered, file_recovered_old,
                    data_check_status, retry, results, examined >>

AddData ==
    \/ SkipIndirect
    \/ \E answer \in { "CONTINUE", "STOP", "ERROR" } : AddBlock(answer)
    \/ WriteFails

\* The format found the end of its file, or an error in it.
FinishFile ==
    /\ pc = "finish"
    /\ \E size \in FinalSizes(IF data_check_status = "ERROR" THEN 0 ELSE file_recovery.size) :
          LET f == file_finish2(size)
          IN  /\ list_search_space' = f.list /\ cur' = f.cur
              /\ file_recovered' = f.status
              /\ offset_skipped_header' = f.skipped
              /\ kept' = f.kept /\ announced' = f.announced
    /\ file_recovery' = NoFile(file_recovery.start)
    /\ pc' = "move"
    /\ UNCHANGED << offset, content, file_recovered_old, data_check_status, back,
                    offset_before_back, examined >>

-----------------------------------------------------------------------------
(* Where to read next *)

Here == Position(list_search_space, cur, offset)

GoTo(p) ==
    /\ cur' = p.cur /\ offset' = p.offset
    /\ pc' = IF p.cur = 0 THEN "end" ELSE "next"
    /\ UNCHANGED << list_search_space, content, file_recovery, file_recovered,
                    file_recovered_old, data_check_status, results, examined >>

LooksBack ==
    \/ file_recovered = "OK_TRUNCATED"
    \/ file_recovered = "BAD" /\ data_check_status = "SCAN" /\ file_recovered_old = "OK"

PrevHeader == get_prev_file_header(list_search_space, cur)

MoveToRejected ==
    /\ pc = "move" /\ LooksBack
    /\ back < 5 /\ PrevHeader # 0
    /\ GoTo(At_start(list_search_space, PrevHeader))
    /\ back' = back + 1
    /\ offset_before_back' = offset
    /\ UNCHANGED offset_skipped_header

MoveToSkipped ==
    /\ pc = "move" /\ LooksBack
    /\ ~ (back < 5 /\ PrevHeader # 0)
    /\ GoTo(get_prev_location_smart(Here, offset_skipped_header, file_recovery.start))
    /\ offset_skipped_header' = 0
    /\ back' = 0
    /\ offset_before_back' = offset

MoveOn ==
    /\ pc = "move" /\ file_recovered = "BAD" /\ data_check_status = "SCAN"
    /\ file_recovered_old # "OK"
    /\ GoTo(get_next_sector(list_search_space, cur, offset, BS))
    /\ back' = IF offset' > offset_before_back THEN 0 ELSE back
    /\ UNCHANGED << offset_before_back, offset_skipped_header >>

\* The block was added to a file, or the file is finished: the position is
\* behind the block already.
Stay ==
    /\ pc = "move" /\ ~ LooksBack
    /\ file_recovered = "OK" \/ data_check_status # "SCAN"
    /\ GoTo(Here)
    /\ UNCHANGED retry

\* The end of the media ends the file in progress as well.
EndOfMedia ==
    /\ pc = "end"
    /\ \E size \in FinalSizes(file_recovery.size) :
          LET f == file_finish2(size)
              p == Position(f.list, 0, offset)
              q == IF f.status = "BAD" THEN p
                   ELSE get_prev_location_smart(p, f.skipped, file_recovery.start)
          IN  /\ list_search_space' = f.list
              /\ cur' = q.cur /\ offset' = q.offset
              /\ file_recovered' = f.status
              /\ offset_skipped_header' = IF f.status = "BAD" THEN f.skipped ELSE 0
              /\ kept' = f.kept /\ announced' = f.announced
    /\ file_recovery' = NoFile(file_recovery.start)
    /\ pc' = "next"
    /\ UNCHANGED << content, file_recovered_old, data_check_status, back,
                    offset_before_back, examined >>

NextBlock ==
    /\ pc = "next"
    /\ file_recovered_old' = file_recovered
    /\ pc' = IF cur = 0 THEN "done" ELSE "header"
    /\ UNCHANGED << place, content, file_recovery, file_recovered, data_check_status,
                    retry, results, examined >>

\* need_to_stop is polled when the read buffer is filled again.
NeedToStop ==
    /\ pc = "next" /\ MayFail
    /\ pc' = "abort"
    /\ UNCHANGED << place, content, file_recovery, file_recovered, file_recovered_old,
                    data_check_status, retry, results, examined >>

file_recovery_aborted ==
    LET l == file_block_truncate_zero(list_search_space, file_recovery.location)
    IN  /\ pc = "abort"
        /\ list_search_space' = l
        /\ cur' = Follow(list_search_space, l, cur)
        /\ file_recovery' = NoFile(file_recovery.start)
        /\ pc' = "stopped"
        /\ UNCHANGED << offset, content, file_recovered, file_recovered_old,
                        data_check_status, retry, results, examined >>

Next ==
    \/ CheckHeader
    \/ AddData
    \/ FinishFile
    \/ MoveToRejected \/ MoveToSkipped \/ MoveOn \/ Stay
    \/ EndOfMedia
    \/ NextBlock \/ NeedToStop \/ file_recovery_aborted

\* One thread runs the pass and nothing it calls blocks for ever.  Every step
\* changes pc, so this is WF_vars(Next) with an enabling condition TLC need not
\* search for.
Proceeds == pc \notin { "done", "stopped" } /\ pc' \in PC \ { pc }

Spec == Init /\ [][Next]_vars /\ WF_pc(Proceeds)

-----------------------------------------------------------------------------
(* Properties *)

KeptBytes == UNION { Bytes(f.location) : f \in kept }

\* The list stays sorted and free of overlaps under every cut and return, and
\* file_block_remove_from_sp never finds its block missing from it, which would
\* end the whole program with exit(1).
BlockAvailable ==
    /\ WellFormed(list_search_space)
    /\ pc = "data" => ExtentOf(list_search_space, cur, offset, BS) # 0

\* The header remembered as skipped is still there to be looked at.
SkippedIsThere ==
    offset_skipped_header # 0 =>
        offset_skipped_header \in Bytes(list_search_space) \cup Held

\* A recovered file is listed in the end with the size it has on disk, and its
\* blocks are just those its bytes need.
KeptAsListed ==
    \A f \in kept :
        /\ << f.start, f.size >> \in announced
        /\ LET data == { a \in Bytes(f.location) : \E i \in DOMAIN f.location :
                            f.location[i].data = 1 /\ a \in f.location[i].start .. f.location[i].end }
           IN  Cardinality(data) = RoundUp(f.size, BS, 0)

\* A pass that reaches its end has looked for a header in every block that it
\* leaves in the search space or began with.
AllExamined ==
    pc = "done" => \A a \in Blocks : a \in Bytes(list_search_space) \cup KeptBytes => a \in examined

\* The pass comes to an end whatever the formats answer.
PassEnds == <>(pc \in { "done", "stopped" })

\* The carve implements the ledger of CarveLedger.
Ledger == INSTANCE CarveLedger
            WITH Disk  <- 0 .. NBlocks * BS - 1,
                 free  <- Bytes(list_search_space),
                 held  <- Held,
                 files <- { Bytes(f.location) : f \in kept }

ImplementsLedger == Ledger!LedgerSpec
=============================================================================
