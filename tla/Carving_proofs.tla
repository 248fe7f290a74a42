--------------------------- MODULE Carving_proofs ---------------------------
(***************************************************************************)
(* The invariants of the carving pass and that it implements the ledger of *)
(* CarveLedger, for every block size, disk and answer of the formats.      *)
(***************************************************************************)
EXTENDS Carving, CarveOps_proofs

File == [ on : BOOLEAN, handle : BOOLEAN, start : Nat, size : Nat, location : Seq(Element) ]

\* The file in progress: its blocks are whole, apart from each other and from
\* those of the list l, and its size counts those that hold data.
FileOK(l, file) ==
    /\ file \in File
    /\ LocationOK(file.location, BS)
    /\ \A a \in Int : ~ (InList(a, l) /\ InList(a, file.location))
    /\ IsFiniteSet(DataBytes(file.location))
    /\ file.size = Cardinality(DataBytes(file.location))
    /\ ~ file.on => file.location = << >>

\* A kept file has the blocks its size needs and was announced with that size.
KeptOK(f, calls) ==
    /\ f.location \in Seq(Element)
    /\ << f.start, f.size >> \in calls
    /\ Cardinality(DataBytes(f.location)) = RoundUp(f.size, BS, 0)

ListInv == ListOK(list_search_space, BS)

FileInv == FileOK(list_search_space, file_recovery)

PlaceInv ==
    /\ PlaceOK(list_search_space, cur, offset, BS)
    /\ pc \in { "header", "data" } => cur # 0
    /\ pc \in { "end", "done" } => cur = 0

ControlInv ==
    /\ pc = "data" => file_recovery.on /\ file_recovered # "OK_TRUNCATED"
    /\ pc = "finish" => data_check_status # "SCAN"
    /\ pc = "move" /\ file_recovery.on =>
          data_check_status = "CONTINUE" /\ file_recovered # "OK_TRUNCATED"

SkippedInv ==
    /\ offset_skipped_header \in Nat
    /\ offset_skipped_header # 0 =>
          /\ offset_skipped_header % BS = 0
          /\ \/ InList(offset_skipped_header, list_search_space)
             \/ InList(offset_skipped_header, file_recovery.location)

\* What has been looked at: the current block where the pass goes on behind it,
\* all blocks of files, and each block of the list that is not ahead.  Up to the
\* skipped header all of the list has been looked at.
ExaminedInv ==
    /\ pc = "data" \/ (pc = "move" /\ data_check_status = "SCAN") => offset \in examined
    /\ \A a \in Int : a % BS = 0 /\ InList(a, file_recovery.location) => a \in examined
    /\ \A f \in kept : \A a \in Int : a % BS = 0 /\ InList(a, f.location) => a \in examined
    /\ \A a \in Int : a % BS = 0 /\ InList(a, list_search_space) =>
                        a \in examined \/ Ahead(cur, offset, a)
    /\ offset_skipped_header # 0 =>
          \A a \in Int : a % BS = 0 /\ InList(a, list_search_space) /\ a <= offset_skipped_header =>
                           a \in examined

KeptInv == \A f \in kept : KeptOK(f, announced)

IInv ==
    /\ ListInv /\ FileInv /\ PlaceInv /\ ControlInv /\ SkippedInv /\ ExaminedInv /\ KeptInv

-----------------------------------------------------------------------------
\* The block size is that of a disk.
LEMMA BlockSize == BS \in Nat /\ BS > 1
  BY CarvingAssumption

\* A file that was just begun, or none, holds nothing.
LEMMA NoFileOK ==
    ASSUME NEW l,
           NEW file \in [ on : BOOLEAN, handle : BOOLEAN, start : Nat, size : {0}, location : {<< >>} ]
    PROVE  FileOK(l, file) /\ \A a : ~ InList(a, file.location)
<1>1. file.size = 0 /\ file.location = << >>
  OBVIOUS
<1>2. file \in File
  <2>1. << >> \in Seq(Element) /\ 0 \in Nat
    OBVIOUS
  <2> QED
    BY <1>1, <2>1 DEF File
<1>3. \A a : ~ InList(a, << >>)
  BY DEF InList
<1>4. LocationOK(<< >>, BS)
  BY DEF LocationOK, Apart, WholeBlocks
<1>5. DataBytes(<< >>) = {}
  BY DEF DataBytes
<1>6. IsFiniteSet({}) /\ Cardinality({}) = 0
  BY FS_EmptySet
<1> QED
  BY <1>1, <1>2, <1>3, <1>4, <1>5, <1>6 DEF FileOK

-----------------------------------------------------------------------------
(***************************************************************************)
(* The end of a file.                                                      *)
(***************************************************************************)

\* f is what becomes of the file in progress when loc of its blocks are kept.
Settled(f, size, loc) ==
    /\ ListOK(f.list, BS) /\ LocationOK(loc, BS)
    /\ \A a \in Int : InList(a, loc) => InList(a, file_recovery.location)
    /\ \A a \in Int : InList(a, f.list) <=>
                        \/ InList(a, list_search_space)
                        \/ InList(a, file_recovery.location) /\ ~ InList(a, loc)
    /\ PlaceOK(f.list, f.cur, offset, BS) /\ (f.cur = 0 <=> cur = 0)
    /\ f.status = "BAD" <=> size = 0
    /\ f.skipped = 0 \/ (f.skipped = offset_skipped_header /\ InList(f.skipped, f.list))

\* What is recorded of the file.
Recorded(f, size, loc) ==
    /\ size = 0 => f.kept = kept /\ f.announced = announced /\ loc = << >>
    /\ size # 0 =>
          \E file : /\ f.kept = kept \cup { file }
                    /\ file.location = loc /\ file.size = size
                    /\ f.announced = announced \cup { << file.start, file.size >> }
                    /\ Cardinality(DataBytes(loc)) = RoundUp(size, BS, 0)

\* file_finish2: the blocks the file needs are kept, the others are in the list
\* again; the read position and the skipped header stay in it.
LEMMA FinishOK ==
    ASSUME ListInv, FileInv, PlaceOK(list_search_space, cur, offset, BS), SkippedInv,
           NEW size \in 0 .. file_recovery.size, NEW f, f = file_finish2(size)
    PROVE  \E loc : Settled(f, size, loc) /\ Recorded(f, size, loc)
<1> DEFINE t == IF size = 0
                  THEN [ list |-> file_block_truncate_zero(list_search_space, file_recovery.location),
                         truncated |-> FALSE, loc |-> << >> ]
                  ELSE file_block_truncate(list_search_space, file_recovery.location, size, BS)
           file == [ start |-> file_recovery.start, size |-> size,
                     location |-> t.loc, on_disk |-> file_recovery.handle ]
<1>1. /\ f.list = t.list
      /\ f.cur = Follow(list_search_space, t.list, cur)
      /\ f.status = IF size = 0 THEN "BAD" ELSE IF t.truncated THEN "OK_TRUNCATED" ELSE "OK"
      /\ f.kept = IF size = 0 THEN kept ELSE kept \cup { file }
      /\ f.announced = IF size = 0 THEN announced
                       ELSE announced \cup { << file_recovery.start, size >> }
      /\ f.skipped = header_ignored_cond_reset(t.loc)
  BY Zenon DEF file_finish2
<1>2. file.start = file_recovery.start /\ file.size = size /\ file.location = t.loc
  BY Zenon
<1>3. /\ BS \in Nat /\ BS > 1
      /\ ListOK(list_search_space, BS) /\ LocationOK(file_recovery.location, BS)
      /\ file_recovery.size \in Nat
      /\ \A a \in Int : ~ (InList(a, list_search_space) /\ InList(a, file_recovery.location))
      /\ IsFiniteSet(DataBytes(file_recovery.location))
      /\ file_recovery.size = Cardinality(DataBytes(file_recovery.location))
  BY BlockSize DEF ListInv, FileInv, FileOK, File
<1>4. /\ ListOK(t.list, BS) /\ LocationOK(t.loc, BS)
      /\ \A a \in Int : InList(a, t.loc) => InList(a, file_recovery.location)
      /\ \A a \in Int : InList(a, t.list) <=>
                          \/ InList(a, list_search_space)
                          \/ InList(a, file_recovery.location) /\ ~ InList(a, t.loc)
      /\ size # 0 => Cardinality(DataBytes(t.loc)) = RoundUp(size, BS, 0)
      /\ size = 0 => t.loc = << >>
  <2>1. CASE size = 0
    <3>1. t.list = file_block_truncate_zero(list_search_space, file_recovery.location) /\ t.loc = << >>
      BY <2>1, Zenon
    <3>2. LocationOK(<< >>, BS) /\ \A a : ~ InList(a, << >>)
      BY DEF LocationOK, Apart, WholeBlocks, InList
    <3>3. /\ ListOK(file_block_truncate_zero(list_search_space, file_recovery.location), BS)
          /\ \A a \in Int :
                InList(a, file_block_truncate_zero(list_search_space, file_recovery.location)) <=>
                  InList(a, list_search_space) \/ InList(a, file_recovery.location)
      BY <1>3, TruncateZeroOK
    <3> HIDE DEF t
    <3> QED
      BY <2>1, <3>1, <3>2, <3>3
  <2>2. CASE size # 0
    <3>1. t = file_block_truncate(list_search_space, file_recovery.location, size, BS)
      BY <2>2
    <3>2. size \in Nat /\ size <= Cardinality(DataBytes(file_recovery.location))
      BY <1>3
    <3>3. /\ ListOK(t.list, BS) /\ LocationOK(t.loc, BS)
          /\ \A a \in Int : InList(a, t.loc) => InList(a, file_recovery.location)
          /\ \A a \in Int : InList(a, t.list) <=>
                              \/ InList(a, list_search_space)
                              \/ InList(a, file_recovery.location) /\ ~ InList(a, t.loc)
          /\ Cardinality(DataBytes(t.loc)) = RoundUp(size, BS, 0)
      <4> HIDE DEF t
      <4> QED
        BY <1>3, <3>1, <3>2, TruncateOK
    <3> HIDE DEF t
    <3> QED
      BY <2>2, <3>3
  <2> QED
    BY <2>1, <2>2
<1> HIDE DEF t, file
<1>5. PlaceOK(f.list, f.cur, offset, BS) /\ (f.cur = 0 <=> cur = 0)
  <2>1. \A a \in Int : InList(a, list_search_space) => InList(a, t.list)
    BY <1>4
  <2>2. /\ PlaceOK(t.list, Follow(list_search_space, t.list, cur), offset, BS)
        /\ (Follow(list_search_space, t.list, cur) = 0 <=> cur = 0)
    BY <1>3, <1>4, <2>1, FollowOK
  <2> QED
    BY <1>1, <2>2
<1>6. f.skipped = 0 \/ (f.skipped = offset_skipped_header /\ InList(f.skipped, t.list))
  <2>1. t.loc \in Seq(Element)
    BY <1>4 DEF LocationOK
  <2>2. offset_skipped_header \in Bytes(t.loc) <=> InList(offset_skipped_header, t.loc)
    BY <2>1, LocationBytes DEF SkippedInv
  <2>3. f.skipped = IF InList(offset_skipped_header, t.loc) THEN 0 ELSE offset_skipped_header
    BY <1>1, <2>2 DEF header_ignored_cond_reset
  <2>4. CASE offset_skipped_header # 0
    BY <1>4, <2>3, <2>4 DEF SkippedInv
  <2>5. CASE offset_skipped_header = 0
    BY <2>3, <2>5
  <2> QED
    BY <2>4, <2>5
<1>7. f.status = "BAD" <=> size = 0
  BY <1>1
<1>8. Settled(f, size, t.loc)
  BY <1>1, <1>4, <1>5, <1>6, <1>7 DEF Settled
<1>9. Recorded(f, size, t.loc)
  <2>1. CASE size = 0
    BY <1>1, <1>4, <2>1 DEF Recorded
  <2>2. CASE size # 0
    <3>1. f.kept = kept \cup { file } /\ f.announced = announced \cup { << file.start, file.size >> }
      BY <1>1, <1>2, <2>2
    <3> QED
      BY <1>2, <1>4, <2>2, <3>1 DEF Recorded
  <2> QED
    BY <2>1, <2>2
<1> QED
  BY <1>8, <1>9

\* A step that ends the file in progress so keeps what is known of the list, the
\* kept files and the skipped header.
LEMMA Ended ==
    ASSUME IInv, NEW size \in 0 .. file_recovery.size, NEW f, NEW loc,
           Settled(f, size, loc), Recorded(f, size, loc),
           list_search_space' = f.list, kept' = f.kept, f.announced \subseteq announced',
           examined \subseteq examined'
    PROVE  /\ ListInv' /\ KeptInv'
           /\ PlaceOK(list_search_space', f.cur, offset, BS) /\ (f.cur = 0 <=> cur = 0)
           /\ f.status = "BAD" => f.skipped = 0 \/ f.skipped = offset_skipped_header
           /\ f.skipped \in Nat
           /\ f.skipped # 0 => /\ f.skipped % BS = 0 /\ InList(f.skipped, list_search_space')
                               /\ \A a \in Int :
                                    a % BS = 0 /\ InList(a, list_search_space') /\ a <= f.skipped =>
                                      a \in examined'
           /\ \A g \in kept' : \A a \in Int : a % BS = 0 /\ InList(a, g.location) => a \in examined'
           /\ \A a \in Int : a % BS = 0 /\ InList(a, list_search_space') =>
                               a \in examined' \/ Ahead(f.cur, offset, a)
<1>1. ListInv'
  BY DEF Settled, ListInv
<1>2. PlaceOK(list_search_space', f.cur, offset, BS) /\ (f.cur = 0 <=> cur = 0)
  BY DEF Settled
<1>3. announced \subseteq announced'
  BY DEF Recorded
<1>4. loc \in Seq(Element)
  BY DEF Settled, LocationOK
<1>5. \A g \in kept' : g \in kept \/ (/\ g.location = loc /\ << g.start, g.size >> \in announced'
                                      /\ Cardinality(DataBytes(loc)) = RoundUp(g.size, BS, 0))
  BY DEF Recorded
<1>6. KeptInv'
  <2>1. \A g \in kept : KeptOK(g, announced)
    BY DEF IInv, KeptInv
  <2>2. ASSUME NEW g \in kept' PROVE KeptOK(g, announced')
    BY <1>3, <1>4, <1>5, <2>1, <2>2 DEF KeptOK
  <2> QED
    BY <2>2 DEF KeptInv
<1>7. \A a \in Int : a % BS = 0 /\ InList(a, file_recovery.location) => a \in examined'
  BY DEF IInv, ExaminedInv
<1>8. \A g \in kept' : \A a \in Int : a % BS = 0 /\ InList(a, g.location) => a \in examined'
  <2>1. \A a \in Int : InList(a, loc) => InList(a, file_recovery.location)
    BY DEF Settled
  <2>2. \A g \in kept : \A a \in Int : a % BS = 0 /\ InList(a, g.location) => a \in examined'
    BY DEF IInv, ExaminedInv
  <2> QED
    BY <1>5, <1>7, <2>1, <2>2
<1>9. \A a \in Int : InList(a, list_search_space') =>
                       InList(a, list_search_space) \/ InList(a, file_recovery.location)
  BY DEF Settled
<1>10. \A a \in Int : a % BS = 0 /\ InList(a, list_search_space') =>
                       a \in examined' \/ Ahead(f.cur, offset, a)
  <2>1. \A a \in Int : a % BS = 0 /\ InList(a, list_search_space) =>
                         a \in examined' \/ Ahead(cur, offset, a)
    BY DEF IInv, ExaminedInv
  <2> QED
    BY <1>2, <1>7, <1>9, <2>1 DEF Ahead
<1>11. f.skipped = 0 \/ (f.skipped = offset_skipped_header /\ InList(f.skipped, list_search_space'))
  BY DEF Settled
<1>12. f.skipped \in Nat
  BY <1>11 DEF IInv, SkippedInv
<1>13. ASSUME f.skipped # 0
       PROVE  /\ f.skipped % BS = 0 /\ InList(f.skipped, list_search_space')
              /\ \A a \in Int :
                   a % BS = 0 /\ InList(a, list_search_space') /\ a <= f.skipped => a \in examined'
  <2>1. f.skipped = offset_skipped_header
    BY <1>11, <1>13
  <2>2. f.skipped % BS = 0
    BY <1>13, <2>1 DEF IInv, SkippedInv
  <2>3. \A a \in Int : a % BS = 0 /\ InList(a, list_search_space) /\ a <= f.skipped => a \in examined'
    BY <1>13, <2>1 DEF IInv, ExaminedInv
  <2> QED
    BY <1>7, <1>9, <1>11, <1>13, <2>2, <2>3
<1> QED
  BY <1>1, <1>2, <1>6, <1>8, <1>10, <1>11, <1>12, <1>13

\* A final size is at most that of the file in progress.
LEMMA FinalSize ==
    ASSUME NEW size \in Nat, NEW s \in FinalSizes(size)
    PROVE  s \in 0 .. size
  BY DEF FinalSizes

\* When no file is in progress there is nothing of it.
LEMMA Emptied ==
    ASSUME NEW start \in Nat, file_recovery' = NoFile(start)
    PROVE  /\ FileInv' /\ file_recovery'.on = FALSE
           /\ \A a : ~ InList(a, file_recovery'.location)
<1> DEFINE file == NoFile(start)
<1>1. /\ file.on = FALSE
      /\ file \in [ on : BOOLEAN, handle : BOOLEAN, start : Nat, size : {0}, location : {<< >>} ]
  BY DEF NoFile
<1> HIDE DEF file
<1>2. FileOK(list_search_space', file) /\ \A a : ~ InList(a, file.location)
  BY <1>1, NoFileOK
<1>3. file_recovery' = file
  BY DEF file
<1> QED
  BY <1>1, <1>2, <1>3 DEF FileInv

-----------------------------------------------------------------------------
(* Every step keeps the invariant. *)

\* The format's end of a file: what it does not need is in the list, and all of it
\* had been looked at.
LEMMA FinishFileKeeps == ASSUME IInv, FinishFile PROVE IInv'
<1>0. ListInv /\ FileInv /\ SkippedInv /\ PlaceOK(list_search_space, cur, offset, BS)
  BY DEF IInv, PlaceInv
<1>1. file_recovery.size \in Nat /\ file_recovery.start \in Nat
  BY <1>0 DEF FileInv, FileOK, File
<1>2. PICK size \in FinalSizes(IF data_check_status = "ERROR" THEN 0 ELSE file_recovery.size) :
         LET f == file_finish2(size)
         IN  /\ list_search_space' = f.list /\ cur' = f.cur
             /\ file_recovered' = f.status
             /\ offset_skipped_header' = f.skipped
             /\ kept' = f.kept /\ announced' = f.announced
  BY DEF FinishFile
<1>3. size \in 0 .. file_recovery.size
  <2>1. PICK limit \in Nat : /\ limit = IF data_check_status = "ERROR" THEN 0 ELSE file_recovery.size
                             /\ limit <= file_recovery.size
    BY <1>1
  <2>2. size \in 0 .. limit
    BY <1>2, <2>1, FinalSize
  <2> QED
    BY <1>1, <2>1, <2>2
<1>4. PICK f : f = file_finish2(size)
  OBVIOUS
<1>5. PICK loc : Settled(f, size, loc) /\ Recorded(f, size, loc)
  BY <1>0, <1>3, <1>4, FinishOK
<1>6. /\ list_search_space' = f.list /\ cur' = f.cur
      /\ file_recovered' = f.status
      /\ offset_skipped_header' = f.skipped
      /\ kept' = f.kept /\ announced' = f.announced
  BY <1>2, <1>4
<1>7. /\ file_recovery' = NoFile(file_recovery.start) /\ pc' = "move" /\ offset' = offset
      /\ data_check_status' = data_check_status /\ examined' = examined /\ pc = "finish"
  BY DEF FinishFile
<1>8. FileInv' /\ file_recovery'.on = FALSE /\ \A a : ~ InList(a, file_recovery'.location)
  BY <1>1, <1>7, Emptied
<1>9. f.announced \subseteq announced' /\ examined \subseteq examined'
  BY <1>6, <1>7
<1>10. /\ ListInv' /\ KeptInv'
       /\ PlaceOK(list_search_space', f.cur, offset, BS)
       /\ f.skipped \in Nat
       /\ f.skipped # 0 => /\ f.skipped % BS = 0 /\ InList(f.skipped, list_search_space')
                           /\ \A a \in Int :
                                a % BS = 0 /\ InList(a, list_search_space') /\ a <= f.skipped =>
                                  a \in examined'
       /\ \A g \in kept' : \A a \in Int : a % BS = 0 /\ InList(a, g.location) => a \in examined'
       /\ \A a \in Int : a % BS = 0 /\ InList(a, list_search_space') =>
                           a \in examined' \/ Ahead(f.cur, offset, a)
  BY <1>3, <1>5, <1>6, <1>9, Ended
<1>11. PlaceInv'
  BY <1>6, <1>7, <1>10 DEF PlaceInv
<1>12. data_check_status # "SCAN"
  BY <1>7 DEF IInv, ControlInv
<1>13. ControlInv'
  BY <1>7, <1>8, <1>12 DEF ControlInv
<1>14. SkippedInv'
  BY <1>6, <1>10 DEF SkippedInv
<1>15. ExaminedInv'
  BY <1>6, <1>7, <1>8, <1>10, <1>12 DEF ExaminedInv
<1> QED
  BY <1>8, <1>10, <1>11, <1>13, <1>14, <1>15 DEF IInv

\* An aborted file gives its blocks back.
LEMMA AbortedKeeps == ASSUME IInv, file_recovery_aborted PROVE IInv'
<1> DEFINE l == list_search_space
           loc == file_recovery.location
           m == file_block_truncate_zero(l, loc)
<1>1. /\ BS \in Nat /\ BS > 1 /\ ListOK(l, BS) /\ LocationOK(loc, BS)
      /\ \A a \in Int : ~ (InList(a, l) /\ InList(a, loc))
      /\ file_recovery.start \in Nat
      /\ PlaceOK(l, cur, offset, BS)
  BY BlockSize DEF IInv, ListInv, FileInv, FileOK, File, PlaceInv
<1>2. ListOK(m, BS) /\ \A a \in Int : InList(a, m) <=> InList(a, l) \/ InList(a, loc)
  <2> HIDE DEF l, loc
  <2> QED
    BY <1>1, TruncateZeroOK
<1>3. /\ list_search_space' = m /\ cur' = Follow(l, m, cur)
      /\ file_recovery' = NoFile(file_recovery.start)
      /\ pc' = "stopped" /\ offset' = offset /\ kept' = kept /\ announced' = announced
      /\ offset_skipped_header' = offset_skipped_header /\ examined' = examined
  BY DEF file_recovery_aborted, retry, results
<1>4. /\ PlaceOK(m, Follow(l, m, cur), offset, BS)
      /\ (Follow(l, m, cur) = 0 <=> cur = 0)
  <2>1. \A a \in Int : InList(a, l) => InList(a, m)
    BY <1>2
  <2> HIDE DEF l, m
  <2> QED
    BY <1>1, <1>2, <2>1, FollowOK
<1>5. FileInv' /\ file_recovery'.on = FALSE /\ \A a : ~ InList(a, file_recovery'.location)
  BY <1>1, <1>3, Emptied
<1> HIDE DEF m
<1>6. ListInv'
  BY <1>2, <1>3 DEF ListInv
<1>7. PlaceInv'
  BY <1>3, <1>4 DEF PlaceInv
<1>8. ControlInv'
  BY <1>3 DEF ControlInv
<1>9. SkippedInv'
  BY <1>2, <1>3 DEF IInv, SkippedInv
<1>10. KeptInv'
  BY <1>3 DEF IInv, KeptInv
<1>11. /\ \A a \in Int : a % BS = 0 /\ InList(a, loc) => a \in examined
       /\ \A f \in kept : \A a \in Int : a % BS = 0 /\ InList(a, f.location) => a \in examined
       /\ \A a \in Int : a % BS = 0 /\ InList(a, l) => a \in examined \/ Ahead(cur, offset, a)
       /\ offset_skipped_header # 0 =>
             \A a \in Int : a % BS = 0 /\ InList(a, l) /\ a <= offset_skipped_header => a \in examined
  BY DEF IInv, ExaminedInv
<1> HIDE DEF l, loc
<1>12. \A a \in Int : Ahead(cur, offset, a) => Ahead(cur', offset', a)
  BY <1>3, <1>4 DEF Ahead
<1>13. ExaminedInv'
  BY <1>2, <1>3, <1>5, <1>11, <1>12 DEF ExaminedInv
<1> QED
  BY <1>5, <1>6, <1>7, <1>8, <1>9, <1>10, <1>13 DEF IInv

\* A header ends the file in progress and begins one, unless fragments were cut off.
LEMMA HeaderFoundKeeps ==
    ASSUME IInv, NEW size \in FinalSizes(file_recovery.size), NEW created \in Created,
           photorec_header_found(size, created)
    PROVE  IInv'
<1>0. ListInv /\ FileInv /\ SkippedInv /\ PlaceOK(list_search_space, cur, offset, BS)
  BY DEF IInv, PlaceInv
<1>1. /\ file_recovery.size \in Nat /\ file_recovery.start \in Nat /\ offset \in Nat
      /\ created \in BOOLEAN
  BY <1>0 DEF FileInv, FileOK, File, PlaceOK, Created
<1>2. size \in 0 .. file_recovery.size
  BY <1>1, FinalSize
<1>3. PICK f : f = file_finish2(size)
  OBVIOUS
<1>4. PICK loc : Settled(f, size, loc) /\ Recorded(f, size, loc)
  BY <1>0, <1>2, <1>3, FinishOK
<1>5. /\ list_search_space' = f.list /\ cur' = f.cur
      /\ file_recovered' = f.status
      /\ offset_skipped_header' = f.skipped
      /\ kept' = f.kept /\ offset' = offset /\ pc = "header"
      /\ data_check_status' = "SCAN" /\ examined' = examined \cup { offset }
  BY <1>3 DEF photorec_header_found, Look
<1>6. /\ f.status = "OK_TRUNCATED" =>
            /\ file_recovery' = NoFile(file_recovery.start)
            /\ announced' = f.announced
            /\ pc' = "move"
      /\ f.status # "OK_TRUNCATED" =>
            /\ file_recovery' = [ NoFile(offset) EXCEPT !.on = TRUE, !.handle = created ]
            /\ announced' = f.announced \cup (IF created THEN { << offset, 0 >> } ELSE {})
            /\ pc' = IF created \/ content[offset] = "index" THEN "data" ELSE "abort"
  BY <1>3, Zenon DEF photorec_header_found
<1>7. /\ f.status # "OK_TRUNCATED" => pc' \in { "data", "abort" }
      /\ f.announced \subseteq announced' /\ examined \subseteq examined'
  BY <1>5, <1>6
<1>8. /\ FileInv' /\ \A a : ~ InList(a, file_recovery'.location)
      /\ f.status = "OK_TRUNCATED" => file_recovery'.on = FALSE
      /\ f.status # "OK_TRUNCATED" => file_recovery'.on = TRUE
  <2>1. CASE f.status = "OK_TRUNCATED"
    BY <1>1, <1>6, <2>1, Emptied
  <2>2. CASE f.status # "OK_TRUNCATED"
    <3>1. PICK file : file = [ on |-> TRUE, handle |-> created, start |-> offset, size |-> 0,
                               location |-> << >> ]
      OBVIOUS
    <3>2. file_recovery' = file
      BY <1>6, <2>2, <3>1 DEF NoFile
    <3>3. /\ file.on = TRUE
          /\ file \in [ on : BOOLEAN, handle : BOOLEAN, start : Nat, size : {0}, location : {<< >>} ]
      BY <1>1, <3>1
    <3>4. FileOK(list_search_space', file) /\ \A a : ~ InList(a, file.location)
      BY <3>3, NoFileOK
    <3> QED
      BY <2>2, <3>2, <3>3, <3>4 DEF FileInv
  <2> QED
    BY <2>1, <2>2
<1>9. /\ ListInv' /\ KeptInv'
      /\ PlaceOK(list_search_space', f.cur, offset, BS) /\ (f.cur = 0 <=> cur = 0)
      /\ f.skipped \in Nat
      /\ f.skipped # 0 => /\ f.skipped % BS = 0 /\ InList(f.skipped, list_search_space')
                          /\ \A a \in Int :
                               a % BS = 0 /\ InList(a, list_search_space') /\ a <= f.skipped =>
                                 a \in examined'
      /\ \A g \in kept' : \A a \in Int : a % BS = 0 /\ InList(a, g.location) => a \in examined'
      /\ \A a \in Int : a % BS = 0 /\ InList(a, list_search_space') =>
                          a \in examined' \/ Ahead(f.cur, offset, a)
  BY <1>2, <1>4, <1>5, <1>7, Ended
<1>10. PlaceInv'
  <2>1. cur # 0
    BY <1>5 DEF IInv, PlaceInv
  <2>2. pc' \in { "data", "abort", "move" }
    BY <1>6, <1>7
  <2> QED
    BY <1>5, <1>9, <2>1, <2>2 DEF PlaceInv
<1>11. ControlInv'
  <2>1. CASE f.status = "OK_TRUNCATED"
    BY <1>6, <1>8, <2>1 DEF ControlInv
  <2>2. CASE f.status # "OK_TRUNCATED"
    BY <1>5, <1>7, <1>8, <2>2 DEF ControlInv
  <2> QED
    BY <2>1, <2>2
<1>12. SkippedInv'
  BY <1>5, <1>9 DEF SkippedInv
<1>13. ExaminedInv'
  <2>1. offset \in examined'
    BY <1>5
  <2> QED
    BY <1>5, <1>8, <1>9, <2>1 DEF ExaminedInv
<1> QED
  BY <1>8, <1>9, <1>10, <1>11, <1>12, <1>13 DEF IInv

\* A block without a header counts as looked at.
LEMMA NoHeaderKeeps == ASSUME IInv, NoHeader PROVE IInv'
<1>1. /\ list_search_space' = list_search_space /\ cur' = cur /\ offset' = offset
      /\ file_recovery' = file_recovery /\ offset_skipped_header' = offset_skipped_header
      /\ kept' = kept /\ announced' = announced
      /\ examined' = examined \cup { offset } /\ data_check_status' = "SCAN"
      /\ file_recovered' = "BAD" /\ pc' = (IF file_recovery.on THEN "data" ELSE "move")
      /\ pc = "header"
  BY DEF NoHeader, Look, place, retry, results
<1>2. ListInv' /\ FileInv' /\ SkippedInv' /\ KeptInv'
  BY <1>1 DEF IInv, ListInv, FileInv, SkippedInv, KeptInv
<1>3. PlaceInv'
  BY <1>1 DEF IInv, PlaceInv
<1>4. ControlInv'
  BY <1>1 DEF ControlInv
<1>5. ExaminedInv'
  BY <1>1 DEF IInv, ExaminedInv
<1> QED
  BY <1>2, <1>3, <1>4, <1>5 DEF IInv

\* The first header ignored inside a file is in the list, at the position up to
\* which all of the list has been looked at.
LEMMA HeaderIgnoredKeeps == ASSUME IInv, header_ignored PROVE IInv'
<1>1. /\ list_search_space' = list_search_space /\ cur' = cur /\ offset' = offset
      /\ file_recovery' = file_recovery /\ kept' = kept /\ announced' = announced
      /\ examined' = examined \cup { offset } /\ data_check_status' = "SCAN"
      /\ file_recovered' = "BAD" /\ pc' = "data" /\ pc = "header"
      /\ file_recovery.on
      /\ offset_skipped_header' = offset \/ offset_skipped_header' = offset_skipped_header
  BY DEF header_ignored, Look, place, results
<1>2. ListInv' /\ FileInv' /\ KeptInv'
  BY <1>1 DEF IInv, ListInv, FileInv, KeptInv
<1>3. cur # 0 /\ offset \in Nat /\ offset % BS = 0 /\ InList(offset, list_search_space)
  BY <1>1 DEF IInv, PlaceInv, PlaceOK
<1>4. PlaceInv'
  BY <1>1, <1>3 DEF IInv, PlaceInv
<1>5. ControlInv'
  BY <1>1 DEF ControlInv
<1>6. SkippedInv'
  BY <1>1, <1>3 DEF IInv, SkippedInv
<1>7. \A a \in Int : a % BS = 0 /\ InList(a, list_search_space) /\ a <= offset => a \in examined'
  <2>1. \A a \in Int : a % BS = 0 /\ InList(a, list_search_space) =>
                         a \in examined \/ Ahead(cur, offset, a)
    BY DEF IInv, ExaminedInv
  <2>2. \A a \in Int : Ahead(cur, offset, a) /\ a <= offset => a = offset
    BY <1>3 DEF Ahead
  <2> QED
    BY <1>1, <2>1, <2>2
<1>8. ExaminedInv'
  BY <1>1, <1>7 DEF IInv, ExaminedInv
<1> QED
  BY <1>2, <1>4, <1>5, <1>6, <1>8 DEF IInv

\* A file with another location and size.
Grown(x, loc, size) == [ x EXCEPT !.location = loc, !.size = size ]

\* What is another of it and what is not.
LEMMA GrownIs ==
    ASSUME NEW x \in File, NEW loc \in Seq(Element), NEW size \in Nat,
           NEW y, y = Grown(x, loc, size)
    PROVE  y \in File /\ y.on = x.on /\ y.location = loc /\ y.size = size
<1>1. /\ DOMAIN x = { "on", "handle", "start", "size", "location" }
      /\ x.on \in BOOLEAN /\ x.handle \in BOOLEAN /\ x.start \in Nat
  BY DEF File
<1>2. y.on = x.on /\ y.handle = x.handle /\ y.start = x.start /\ y.location = loc /\ y.size = size
  BY <1>1, Zenon DEF Grown
<1>3. y = [ on |-> x.on, handle |-> x.handle, start |-> x.start, size |-> size, location |-> loc ]
  BY <1>1, Zenon DEF File, Grown
<1> QED
  BY <1>1, <1>2, <1>3 DEF File

\* file_block_append moves the block at the read position from the list to the
\* file; what was ahead of the block is still ahead.
LEMMA Appended ==
    ASSUME IInv, pc = "data", NEW data \in { 0, 1 }, file_block_append(data)
    PROVE  /\ ListInv' /\ FileInv' /\ file_recovery'.on = file_recovery.on
           /\ PlaceOK(list_search_space', cur', offset', BS)
           /\ \A a \in Int : InList(a, list_search_space') <=>
                               InList(a, list_search_space) /\ a \notin offset .. offset + BS - 1
           /\ \A a \in Int : InList(a, file_recovery'.location) <=>
                               InList(a, file_recovery.location) \/ a \in offset .. offset + BS - 1
           /\ \A a \in offset .. offset + BS - 1 : InList(a, list_search_space)
           /\ \A a \in Int : InList(a, list_search_space') /\ offset < a => Ahead(cur', offset', a)
<1> DEFINE l == list_search_space
           loc == file_recovery.location
           m == file_block_add_to_file(loc, offset, BS, data)
           p == file_block_remove_from_sp(l, cur, offset, BS)
<1>1. /\ BS \in Nat /\ BS > 1 /\ ListOK(l, BS) /\ LocationOK(loc, BS)
      /\ \A a \in Int : ~ (InList(a, l) /\ InList(a, loc))
      /\ IsFiniteSet(DataBytes(loc)) /\ file_recovery.size = Cardinality(DataBytes(loc))
      /\ file_recovery \in File /\ file_recovery.size \in Nat /\ file_recovery.on = TRUE
      /\ PlaceOK(l, cur, offset, BS) /\ cur # 0
  BY BlockSize DEF IInv, ListInv, FileInv, FileOK, File, PlaceInv, ControlInv
<1>2. offset \in Nat /\ offset % BS = 0
  BY <1>1 DEF PlaceOK
<1>3. /\ TakenAt(l, p, offset, BS)
      /\ \A b \in offset .. offset + BS - 1 : InList(b, l)
  <2> HIDE DEF l
  <2> QED
    BY <1>1, RemoveBlockOK
<1>4. \A b \in offset .. offset + BS - 1 : ~ InList(b, loc)
  BY <1>1, <1>2, <1>3
<1>5. /\ LocationOK(m, BS)
      /\ \A b \in Int : InList(b, m) <=> InList(b, loc) \/ b \in offset .. offset + BS - 1
      /\ data = 0 => DataBytes(m) = DataBytes(loc)
      /\ data = 1 => DataBytes(m) = DataBytes(loc) \cup (offset .. offset + BS - 1)
  <2> HIDE DEF loc
  <2> QED
    BY <1>1, <1>2, <1>4, AddToFileOK
<1>6. list_search_space' = p.list /\ cur' = p.cur /\ offset' = p.offset
  BY DEF file_block_append, Taken
<1>7. PICK size \in Nat : size = file_recovery.size + data * BS
  BY <1>1
<1>8. file_recovery' = Grown(file_recovery, m, size)
  BY <1>7, Zenon DEF file_block_append, Grown
<1>9. /\ file_recovery' \in File /\ file_recovery'.on = file_recovery.on
      /\ file_recovery'.location = m /\ file_recovery'.size = size
  <2>1. m \in Seq(Element)
    BY <1>5 DEF LocationOK
  <2> HIDE DEF m
  <2> QED
    <3>1. PICK x \in File : x = file_recovery
      BY <1>1
    <3>2. PICK k \in Seq(Element) : k = m
      BY <2>1
    <3>3. PICK y : y = file_recovery'
      OBVIOUS
    <3>4. y = Grown(x, k, size)
      BY <1>8, <3>1, <3>2, <3>3
    <3>5. y \in File /\ y.on = x.on /\ y.location = k /\ y.size = size
      BY <3>4, GrownIs
    <3> QED
      BY <3>1, <3>2, <3>3, <3>5
<1> HIDE DEF m, p
<1>10. IsFiniteSet(DataBytes(m)) /\ size = Cardinality(DataBytes(m))
  <2>1. CASE data = 0
    BY <1>1, <1>5, <1>7, <2>1
  <2>2. CASE data = 1
    <3>1. PICK e \in Int : e = offset + BS - 1
      BY <1>1, <1>2
    <3>2. \A a \in offset .. e : a \notin DataBytes(loc)
      <4>1. loc \in Seq(Element)
        BY <1>1 DEF LocationOK
      <4>2. \A a : a \in DataBytes(loc) => a \in Bytes(loc)
        BY DEF DataBytes
      <4>3. \A a : a \in DataBytes(loc) => InList(a, loc)
        BY <4>1, <4>2, LocationBytes
      <4> QED
        BY <1>4, <3>1, <4>3
    <3>3. offset \in Int /\ offset <= e + 1 /\ e - offset + 1 = BS
      BY <1>1, <1>2, <3>1
    <3>4. /\ IsFiniteSet(DataBytes(loc) \cup (offset .. e))
          /\ Cardinality(DataBytes(loc) \cup (offset .. e)) = Cardinality(DataBytes(loc)) + (e - offset + 1)
      <4>1. PICK D : D = DataBytes(loc)
        OBVIOUS
      <4>2. PICK s \in Int : s = offset
        BY <3>3
      <4>3. IsFiniteSet(D) /\ s <= e + 1 /\ \A a \in s .. e : a \notin D
        BY <1>1, <3>2, <3>3, <4>1, <4>2
      <4>4. IsFiniteSet(D \cup (s .. e)) /\ Cardinality(D \cup (s .. e)) = Cardinality(D) + (e - s + 1)
        BY <4>3, CountAdd
      <4> QED
        BY <4>1, <4>2, <4>4
    <3>5. size = file_recovery.size + BS
      BY <1>1, <1>7, <2>2
    <3> QED
      BY <1>1, <1>5, <2>2, <3>1, <3>3, <3>4, <3>5
  <2> QED
    BY <2>1, <2>2
<1>11. /\ ListOK(list_search_space', BS)
       /\ PlaceOK(list_search_space', cur', offset', BS)
       /\ \A a \in Int : InList(a, list_search_space') <=> InList(a, l) /\ a \notin offset .. offset + BS - 1
       /\ \A a \in Int : InList(a, list_search_space') /\ offset < a => Ahead(cur', offset', a)
  BY <1>3, <1>6 DEF TakenAt, Ahead
<1>12. \A a \in Int : ~ (InList(a, list_search_space') /\ InList(a, m))
  BY <1>1, <1>5, <1>11
<1>13. FileInv'
  BY <1>1, <1>5, <1>9, <1>10, <1>12 DEF FileInv, FileOK
<1>14. ListInv'
  BY <1>11 DEF ListInv
<1> QED
  BY <1>3, <1>5, <1>9, <1>11, <1>13, <1>14

\* The block that joins the file had been looked at, and no other block of the list
\* is passed over.
LEMMA AppendKeeps ==
    ASSUME IInv, pc = "data", NEW data \in { 0, 1 }, file_block_append(data),
           pc' \in { "move", "finish" }, data_check_status' # "SCAN",
           pc' = "move" => data_check_status' = "CONTINUE",
           UNCHANGED << file_recovered, offset_skipped_header, kept, announced, examined >>
    PROVE  IInv'
<1>1. /\ ListInv' /\ FileInv' /\ file_recovery'.on = file_recovery.on
      /\ PlaceOK(list_search_space', cur', offset', BS)
      /\ \A a \in Int : InList(a, list_search_space') <=>
                          InList(a, list_search_space) /\ a \notin offset .. offset + BS - 1
      /\ \A a \in Int : InList(a, file_recovery'.location) <=>
                          InList(a, file_recovery.location) \/ a \in offset .. offset + BS - 1
      /\ \A a \in offset .. offset + BS - 1 : InList(a, list_search_space)
      /\ \A a \in Int : InList(a, list_search_space') /\ offset < a => Ahead(cur', offset', a)
  BY Appended
<1>2. PlaceInv'
  BY <1>1 DEF PlaceInv
<1>3. ControlInv'
  BY <1>1 DEF IInv, ControlInv
<1>4. SkippedInv'
  BY <1>1 DEF IInv, SkippedInv
<1>5. KeptInv'
  BY DEF IInv, KeptInv
<1>6. BS \in Nat /\ BS > 0 /\ offset \in Nat /\ offset % BS = 0 /\ offset \in examined
  BY BlockSize DEF IInv, PlaceInv, PlaceOK, ExaminedInv
<1>7. \A a \in offset .. offset + BS - 1 : a % BS = 0 => a = offset
  <2> SUFFICES ASSUME NEW a \in offset .. offset + BS - 1, a % BS = 0, a # offset
               PROVE  FALSE
    OBVIOUS
  <2>1. offset \in Int /\ a \in Int /\ offset < a
    BY <1>6
  <2>2. offset + BS <= a
    BY <1>6, <2>1, AlignedGap
  <2> QED
    BY <1>6, <2>2
<1>8. \A a \in Int : a % BS = 0 /\ InList(a, file_recovery'.location) => a \in examined'
  <2>1. \A a \in Int : a % BS = 0 /\ InList(a, file_recovery.location) => a \in examined
    BY DEF IInv, ExaminedInv
  <2> QED
    BY <1>1, <1>6, <1>7, <2>1
<1>9. \A f \in kept' : \A a \in Int : a % BS = 0 /\ InList(a, f.location) => a \in examined'
  BY DEF IInv, ExaminedInv
<1>10. \A a \in Int : a % BS = 0 /\ InList(a, list_search_space') =>
                        a \in examined' \/ Ahead(cur', offset', a)
  <2>1. \A a \in Int : a % BS = 0 /\ InList(a, list_search_space) =>
                         a \in examined \/ Ahead(cur, offset, a)
    BY DEF IInv, ExaminedInv
  <2>2. \A a \in Int : Ahead(cur, offset, a) /\ a \notin offset .. offset + BS - 1 => offset < a
    BY <1>6 DEF Ahead
  <2> QED
    BY <1>1, <2>1, <2>2
<1>11. offset_skipped_header' # 0 =>
         \A a \in Int : a % BS = 0 /\ InList(a, list_search_space') /\ a <= offset_skipped_header' =>
                          a \in examined'
  BY <1>1 DEF IInv, ExaminedInv
<1>12. ExaminedInv'
  BY <1>8, <1>9, <1>10, <1>11 DEF ExaminedInv
<1> QED
  BY <1>1, <1>2, <1>3, <1>4, <1>5, <1>12 DEF IInv

\* The same for each way a block is added to the file.
LEMMA AddDataKeeps == ASSUME IInv, AddData PROVE IInv'
<1>1. CASE SkipIndirect
  <2>1. /\ pc = "data" /\ file_block_append(0) /\ data_check_status' = "CONTINUE" /\ pc' = "move"
        /\ UNCHANGED << file_recovered, offset_skipped_header, kept, announced, examined >>
    BY <1>1 DEF SkipIndirect, retry, results
  <2> QED
    BY <2>1, AppendKeeps
<1>2. ASSUME NEW answer \in { "CONTINUE", "STOP", "ERROR" }, AddBlock(answer) PROVE IInv'
  <2>1. /\ pc = "data" /\ file_block_append(1) /\ data_check_status' # "SCAN"
        /\ pc' \in { "move", "finish" } /\ (pc' = "move" => data_check_status' = "CONTINUE")
        /\ UNCHANGED << file_recovered, offset_skipped_header, kept, announced, examined >>
    BY <1>2 DEF AddBlock, retry, results
  <2> QED
    BY <2>1, AppendKeeps
<1>3. CASE WriteFails
  <2>1. /\ pc' = "abort"
        /\ UNCHANGED << list_search_space, cur, offset, file_recovery, file_recovered,
                        data_check_status, offset_skipped_header, kept, announced, examined >>
    BY <1>3 DEF WriteFails, place, retry, results
  <2>2. ListInv' /\ FileInv' /\ PlaceInv' /\ ControlInv' /\ SkippedInv' /\ KeptInv'
    BY <2>1 DEF IInv, ListInv, FileInv, PlaceInv, ControlInv, SkippedInv, KeptInv
  <2>3. ExaminedInv'
    BY <2>1 DEF IInv, ExaminedInv
  <2> QED
    BY <2>2, <2>3 DEF IInv
<1> QED
  BY <1>1, <1>2, <1>3 DEF AddData

\* A move to another block of the list keeps the invariant when all it leaves
\* behind has been looked at.
LEMMA MoveKeeps ==
    ASSUME IInv, PlaceOK(list_search_space, cur', offset', BS),
           pc' = IF cur' = 0 THEN "end" ELSE "next",
           offset_skipped_header' = offset_skipped_header \/ offset_skipped_header' = 0,
           UNCHANGED << list_search_space, file_recovery, kept, announced, examined >>,
           \A a \in Int : a % BS = 0 /\ InList(a, list_search_space) /\ Ahead(cur, offset, a) =>
                            a \in examined \/ Ahead(cur', offset', a)
    PROVE  IInv'
<1>1. ListInv' /\ FileInv' /\ KeptInv'
  BY DEF IInv, ListInv, FileInv, KeptInv
<1>2. PlaceInv'
  BY DEF PlaceInv
<1>3. ControlInv'
  BY DEF ControlInv
<1>4. SkippedInv'
  BY DEF IInv, SkippedInv
<1>5. \A a \in Int : a % BS = 0 /\ InList(a, list_search_space) => a \in examined \/ Ahead(cur, offset, a)
  BY DEF IInv, ExaminedInv
<1>6. ExaminedInv'
  BY <1>5 DEF IInv, ExaminedInv
<1> QED
  BY <1>1, <1>2, <1>3, <1>4, <1>6 DEF IInv

\* The position stays where the step before left it.
LEMMA StayKeeps == ASSUME IInv, Stay PROVE IInv'
<1>1. Here.cur = cur /\ Here.offset = offset
  BY PositionIs DEF Here
<1>2. /\ cur' = cur /\ offset' = offset /\ pc' = IF cur' = 0 THEN "end" ELSE "next"
      /\ UNCHANGED << list_search_space, file_recovery, kept, announced, examined,
                      offset_skipped_header >>
  BY <1>1 DEF Stay, GoTo, retry, results
<1>3. PlaceOK(list_search_space, cur', offset', BS)
  BY <1>2 DEF IInv, PlaceInv
<1> QED
  BY <1>2, <1>3, MoveKeeps

\* The next block follows the one just looked at.
LEMMA MoveOnKeeps == ASSUME IInv, MoveOn PROVE IInv'
<1> DEFINE l == list_search_space
           p == get_next_sector(l, cur, offset, BS)
<1>1. /\ BS \in Nat /\ BS > 1 /\ ListOK(l, BS) /\ PlaceOK(l, cur, offset, BS)
  BY BlockSize DEF IInv, ListInv, PlaceInv
<1>2. /\ PlaceOK(l, p.cur, p.offset, BS)
      /\ \A b \in Int : InList(b, l) /\ b % BS = 0 /\ Ahead(cur, offset, b) /\ b # offset =>
                          Ahead(p.cur, p.offset, b)
  <2> HIDE DEF l
  <2> QED
    BY <1>1, NextSectorOK
<1> HIDE DEF p
<1>3. GoTo(p)
  BY DEF MoveOn, p
<1>4. /\ cur' = p.cur /\ offset' = p.offset /\ pc' = IF cur' = 0 THEN "end" ELSE "next"
      /\ UNCHANGED << list_search_space, file_recovery, kept, announced, examined >>
  BY <1>3 DEF GoTo, results
<1>5. offset_skipped_header' = offset_skipped_header /\ pc = "move" /\ data_check_status = "SCAN"
  BY DEF MoveOn
<1>6. offset \in examined
  BY <1>5 DEF IInv, ExaminedInv
<1>7. PlaceOK(l, cur', offset', BS)
  BY <1>2, <1>4
<1>8. \A a \in Int : a % BS = 0 /\ InList(a, l) /\ Ahead(cur, offset, a) =>
                       a \in examined \/ Ahead(cur', offset', a)
  BY <1>2, <1>4, <1>6
<1> QED
  BY <1>4, <1>5, <1>7, <1>8, MoveKeeps

\* Going back to a rejected header leaves nothing behind.
LEMMA MoveToRejectedKeeps == ASSUME IInv, MoveToRejected PROVE IInv'
<1> DEFINE l == list_search_space
           p == At_start(l, get_prev_file_header(l, cur))
<1>1. /\ BS \in Nat /\ ListOK(l, BS) /\ PlaceOK(l, cur, offset, BS)
      /\ get_prev_file_header(l, cur) # 0
  BY BlockSize DEF IInv, ListInv, PlaceInv, MoveToRejected, PrevHeader
<1>2. /\ PlaceOK(l, p.cur, p.offset, BS)
      /\ \A b \in Int : Ahead(cur, offset, b) => Ahead(p.cur, p.offset, b)
  <2> HIDE DEF l
  <2> QED
    BY <1>1, PrevHeaderOK
<1> HIDE DEF p
<1>3. GoTo(p)
  BY DEF MoveToRejected, PrevHeader, p
<1>4. /\ cur' = p.cur /\ offset' = p.offset /\ pc' = IF cur' = 0 THEN "end" ELSE "next"
      /\ UNCHANGED << list_search_space, file_recovery, kept, announced, examined >>
  BY <1>3 DEF GoTo, results
<1>5. offset_skipped_header' = offset_skipped_header
  BY DEF MoveToRejected
<1>7. PlaceOK(l, cur', offset', BS)
  BY <1>2, <1>4
<1>8. \A a \in Int : a % BS = 0 /\ InList(a, l) /\ Ahead(cur, offset, a) =>
                       a \in examined \/ Ahead(cur', offset', a)
  BY <1>2, <1>4
<1> QED
  BY <1>4, <1>5, <1>7, <1>8, MoveKeeps

\* The pass looks back only between files.
LEMMA LooksBackAlone ==
    ASSUME IInv, pc = "move", LooksBack
    PROVE  \A a : ~ InList(a, file_recovery.location)
<1>1. ~ file_recovery.on
  BY DEF IInv, ControlInv, LooksBack
<1>2. file_recovery.location = << >>
  BY <1>1 DEF IInv, FileInv, FileOK
<1> QED
  BY <1>2 DEF InList

\* Going back to the skipped header may leave blocks before it behind, which had
\* been looked at.
LEMMA MoveToSkippedKeeps == ASSUME IInv, MoveToSkipped PROVE IInv'
<1> DEFINE l == list_search_space
           p == get_prev_location_smart(Here, offset_skipped_header, file_recovery.start)
<1>1. /\ BS \in Nat /\ BS > 1 /\ ListOK(l, BS) /\ PlaceOK(l, cur, offset, BS)
      /\ offset_skipped_header \in Nat
      /\ offset_skipped_header # 0 =>
            offset_skipped_header % BS = 0 /\ InList(offset_skipped_header, l)
  <2>1. \A a : ~ InList(a, file_recovery.location)
    BY LooksBackAlone DEF MoveToSkipped
  <2> QED
    BY <2>1, BlockSize DEF IInv, ListInv, PlaceInv, SkippedInv
<1>2. /\ PlaceOK(l, p.cur, p.offset, BS)
      /\ \A b \in Int : InList(b, l) /\ Ahead(cur, offset, b)
                        /\ (offset_skipped_header # 0 => offset_skipped_header < b) =>
                          Ahead(p.cur, p.offset, b)
  <2>1. Here = Position(l, cur, offset)
    BY DEF Here
  <2>2. PICK prev : prev = file_recovery.start
    OBVIOUS
  <2>3. PICK s \in Nat : s = offset_skipped_header
    BY <1>1
  <2>4. p = get_prev_location_smart(Here, s, prev)
    BY <2>2, <2>3
  <2>5. s # 0 => s % BS = 0 /\ InList(s, l)
    BY <1>1, <2>3
  <2>6. /\ PlaceOK(l, p.cur, p.offset, BS)
        /\ \A b \in Int : InList(b, l) /\ Ahead(cur, offset, b) /\ (s # 0 => s < b) =>
                            Ahead(p.cur, p.offset, b)
    <3> HIDE DEF l, p
    <3> QED
      BY <1>1, <2>1, <2>4, <2>5, PrevLocationOK
  <2> HIDE DEF p
  <2> QED
    BY <2>3, <2>6
<1> HIDE DEF p
<1>3. GoTo(p)
  BY DEF MoveToSkipped, p
<1>4. /\ cur' = p.cur /\ offset' = p.offset /\ pc' = IF cur' = 0 THEN "end" ELSE "next"
      /\ UNCHANGED << list_search_space, file_recovery, kept, announced, examined >>
  BY <1>3 DEF GoTo, results
<1>5. offset_skipped_header' = 0
  BY DEF MoveToSkipped
<1>6. offset_skipped_header # 0 =>
         \A a \in Int : a % BS = 0 /\ InList(a, l) /\ a <= offset_skipped_header => a \in examined
  BY DEF IInv, ExaminedInv
<1>7. PlaceOK(l, cur', offset', BS)
  BY <1>2, <1>4
<1>8. \A a \in Int : a % BS = 0 /\ InList(a, l) /\ Ahead(cur, offset, a) =>
                       a \in examined \/ Ahead(cur', offset', a)
  <2> TAKE a \in Int
  <2>1. offset_skipped_header < a \/ a <= offset_skipped_header
    BY <1>1
  <2> QED
    BY <1>2, <1>4, <1>6, <2>1
<1> QED
  BY <1>4, <1>5, <1>7, <1>8, MoveKeeps

\* The next turn of the loop.
LEMMA NextBlockKeeps == ASSUME IInv, NextBlock PROVE IInv'
<1>1. /\ UNCHANGED << list_search_space, cur, offset, file_recovery, offset_skipped_header,
                      kept, announced, examined >>
      /\ pc' = IF cur = 0 THEN "done" ELSE "header"
  BY DEF NextBlock, place, retry, results
<1>2. ListInv' /\ FileInv' /\ PlaceInv' /\ SkippedInv' /\ KeptInv'
  BY <1>1 DEF IInv, ListInv, FileInv, PlaceInv, SkippedInv, KeptInv
<1>3. ControlInv'
  BY <1>1 DEF ControlInv
<1>4. ExaminedInv'
  BY <1>1 DEF IInv, ExaminedInv
<1> QED
  BY <1>2, <1>3, <1>4 DEF IInv

\* A stop between two blocks.
LEMMA NeedToStopKeeps == ASSUME IInv, NeedToStop PROVE IInv'
<1>1. /\ UNCHANGED << list_search_space, cur, offset, file_recovery, offset_skipped_header,
                      kept, announced, examined >>
      /\ pc' = "abort"
  BY DEF NeedToStop, place, retry, results
<1>2. ListInv' /\ FileInv' /\ PlaceInv' /\ SkippedInv' /\ KeptInv'
  BY <1>1 DEF IInv, ListInv, FileInv, PlaceInv, SkippedInv, KeptInv
<1>3. ControlInv'
  BY <1>1 DEF ControlInv
<1>4. ExaminedInv'
  BY <1>1 DEF IInv, ExaminedInv
<1> QED
  BY <1>2, <1>3, <1>4 DEF IInv

\* At the end of the media nothing is ahead, so the blocks that come back had been
\* looked at too, and the position may go anywhere in the list.
LEMMA EndOfMediaKeeps == ASSUME IInv, EndOfMedia PROVE IInv'
<1>0. ListInv /\ FileInv /\ SkippedInv /\ PlaceOK(list_search_space, cur, offset, BS)
  BY DEF IInv, PlaceInv
<1>1. /\ file_recovery.size \in Nat /\ file_recovery.start \in Nat /\ offset \in Nat
      /\ BS \in Nat /\ BS > 1
  BY <1>0, BlockSize DEF FileInv, FileOK, File, PlaceOK
<1>2. PICK size \in FinalSizes(file_recovery.size) :
         LET f == file_finish2(size)
             p == Position(f.list, 0, offset)
             q == IF f.status = "BAD" THEN p
                  ELSE get_prev_location_smart(p, f.skipped, file_recovery.start)
         IN  /\ list_search_space' = f.list
             /\ cur' = q.cur /\ offset' = q.offset
             /\ file_recovered' = f.status
             /\ offset_skipped_header' = IF f.status = "BAD" THEN f.skipped ELSE 0
             /\ kept' = f.kept /\ announced' = f.announced
  BY Zenon DEF EndOfMedia
<1>3. size \in 0 .. file_recovery.size
  BY <1>1, FinalSize
<1>4. PICK f : f = file_finish2(size)
  OBVIOUS
<1>5. PICK loc : Settled(f, size, loc) /\ Recorded(f, size, loc)
  BY <1>0, <1>3, <1>4, FinishOK
<1>6. PICK p : p = Position(f.list, 0, offset)
  OBVIOUS
<1>7. PICK q : q = IF f.status = "BAD" THEN p
                   ELSE get_prev_location_smart(p, f.skipped, file_recovery.start)
  OBVIOUS
<1>8. /\ list_search_space' = f.list
      /\ cur' = q.cur /\ offset' = q.offset
      /\ offset_skipped_header' = IF f.status = "BAD" THEN f.skipped ELSE 0
      /\ kept' = f.kept /\ announced' = f.announced
  BY <1>2, <1>4, <1>6, <1>7, Zenon
<1>9. /\ pc = "end" /\ pc' = "next" /\ file_recovery' = NoFile(file_recovery.start)
      /\ examined' = examined
  BY DEF EndOfMedia
<1>10. FileInv' /\ file_recovery'.on = FALSE /\ \A a : ~ InList(a, file_recovery'.location)
  BY <1>1, <1>9, Emptied
<1>11. f.announced \subseteq announced' /\ examined \subseteq examined' /\ cur = 0
  BY <1>8, <1>9 DEF IInv, PlaceInv
<1>12. /\ ListInv' /\ KeptInv'
       /\ PlaceOK(list_search_space', f.cur, offset, BS) /\ (f.cur = 0 <=> cur = 0)
       /\ f.skipped \in Nat
       /\ f.skipped # 0 => /\ f.skipped % BS = 0 /\ InList(f.skipped, list_search_space')
                           /\ \A a \in Int :
                                a % BS = 0 /\ InList(a, list_search_space') /\ a <= f.skipped =>
                                  a \in examined'
       /\ \A g \in kept' : \A a \in Int : a % BS = 0 /\ InList(a, g.location) => a \in examined'
       /\ \A a \in Int : a % BS = 0 /\ InList(a, list_search_space') =>
                           a \in examined' \/ Ahead(f.cur, offset, a)
  BY <1>3, <1>5, <1>8, <1>11, Ended
<1>13. /\ PlaceOK(list_search_space', 0, offset, BS)
       /\ \A a \in Int : a % BS = 0 /\ InList(a, list_search_space') => a \in examined'
  BY <1>11, <1>12 DEF Ahead
<1>14. PlaceOK(list_search_space', q.cur, q.offset, BS)
  <2>1. CASE f.status = "BAD"
    BY <1>6, <1>7, <1>13, <2>1, PositionIs
  <2>2. CASE f.status # "BAD"
    <3>1. PICK prev : prev = file_recovery.start
      OBVIOUS
    <3>2. PICK s \in Nat : s = f.skipped
      BY <1>12
    <3>3. q = get_prev_location_smart(p, s, prev)
      BY <1>7, <2>2, <3>1, <3>2
    <3>4. PICK m : m = f.list
      OBVIOUS
    <3>5. /\ ListOK(m, BS) /\ PlaceOK(m, 0, offset, BS) /\ p = Position(m, 0, offset)
          /\ s # 0 => s % BS = 0 /\ InList(s, m)
      BY <1>6, <1>8, <1>12, <1>13, <3>2, <3>4 DEF ListInv
    <3>6. PlaceOK(m, q.cur, q.offset, BS)
      BY <1>1, <3>3, <3>5, PrevLocationOK
    <3> QED
      BY <1>8, <3>4, <3>6
  <2> QED
    BY <2>1, <2>2
<1>15. PlaceInv'
  BY <1>8, <1>9, <1>14 DEF PlaceInv
<1>16. ControlInv'
  BY <1>9 DEF ControlInv
<1>17. SkippedInv'
  BY <1>8, <1>12 DEF SkippedInv
<1>18. ExaminedInv'
  BY <1>9, <1>10, <1>12, <1>13 DEF ExaminedInv
<1> QED
  BY <1>10, <1>12, <1>15, <1>16, <1>17, <1>18 DEF IInv

-----------------------------------------------------------------------------
(***************************************************************************)
(* The lists a pass begins with.                                           *)
(***************************************************************************)

\* A block address is on the grid, and so is the end of a block.
LEMMA BlockIs ==
    ASSUME NEW a \in Blocks
    PROVE  a \in Nat /\ a % BS = 0 /\ a + BS - 1 \in Nat /\ (a + BS - 1 + 1) % BS = 0
           /\ a + BS - 1 < NBlocks * BS
<1>1. PICK n \in 0 .. NBlocks - 1 : a = n * BS
  BY DEF Blocks
<1>2. BS \in Nat /\ BS > 1 /\ NBlocks \in Nat /\ n \in Nat
  BY <1>1, CarvingAssumption
<1>3. a \in Nat
  BY <1>1, <1>2
<1>4. a % BS = 0
  BY <1>1, <1>2, <1>3, AlignedIs
<1>5. (a + BS) % BS = 0
  <2>1. a \in Int /\ BS > 0
    BY <1>2, <1>3
  <2> QED
    BY <1>2, <1>4, <2>1, AlignedNext
<1>6. a + BS - 1 \in Nat /\ a + BS - 1 + 1 = a + BS
  BY <1>2, <1>3
<1>7. a + BS - 1 < NBlocks * BS
  <2>1. n + 1 <= NBlocks
    BY <1>1, <1>2
  <2>2. (n + 1) * BS <= NBlocks * BS
    BY <1>2, <2>1
  <2>3. (n + 1) * BS = a + BS
    BY <1>1, <1>2
  <2> QED
    BY <1>2, <1>3, <2>2, <2>3
<1> QED
  BY <1>3, <1>4, <1>5, <1>6, <1>7

\* A list a pass begins with is sorted, of whole blocks and on the disk.
LEMMA FreeListOK ==
    ASSUME NEW l \in FreeLists
    PROVE  ListOK(l, BS) /\ \A a \in Int : InList(a, l) => a \in 0 .. NBlocks * BS - 1
<1>1. PICK n \in 0 .. NBlocks : l \in [ 1 .. n -> { x \in Runs : x.start <= x.end } ]
  BY DEF FreeLists, SeqOf
<1>2. \A i, j \in 1 .. n : i < j => l[i].end + 1 < l[j].start
  BY <1>1 DEF FreeLists
<1>3. n \in Nat /\ BS \in Nat /\ NBlocks \in Nat
  BY CarvingAssumption
<1>4. ASSUME NEW i \in 1 .. n
      PROVE  IsBlocks(l[i], BS) /\ l[i].start \in Nat /\ l[i].end < NBlocks * BS /\ l[i].end \in Nat
  <2>1. l[i] \in Runs /\ l[i].start <= l[i].end
    BY <1>1
  <2>2. PICK a \in Blocks, b \in Blocks : l[i] = extent(a, b + BS - 1)
    BY <2>1 DEF Runs
  <2>3. /\ a \in Nat /\ a % BS = 0
        /\ b + BS - 1 \in Nat /\ (b + BS - 1 + 1) % BS = 0 /\ b + BS - 1 < NBlocks * BS
    BY BlockIs
  <2>4. l[i] \in Extent /\ l[i].start = a /\ l[i].end = b + BS - 1
    BY <2>2, <2>3, NewExtent
  <2> QED
    BY <2>1, <2>3, <2>4 DEF IsBlocks
<1>5. l \in Seq(Extent) /\ Len(l) = n
  <2>1. \A i \in 1 .. n : l[i] \in Extent
    BY <1>4 DEF IsBlocks
  <2> QED
    BY <1>1, <1>3, <2>1
<1>6. \A i, j \in 1 .. n : i < j => l[i].end < l[j].start
  BY <1>2, <1>4
<1>7. ListOK(l, BS)
  <2>1. \A i \in 1 .. Len(l) : IsBlocks(l[i], BS)
    BY <1>4, <1>5
  <2>2. \A i, j \in 1 .. Len(l) : i < j => l[i].end < l[j].start
    BY <1>5, <1>6
  <2> QED
    BY <1>5, <2>1, <2>2, ListIf
<1>8. ASSUME NEW a \in Int, InList(a, l) PROVE a \in 0 .. NBlocks * BS - 1
  <2>1. PICK i \in 1 .. n : l[i].start <= a /\ a <= l[i].end
    BY <1>5, <1>8 DEF InList, In
  <2>2. l[i].start \in Nat /\ l[i].end \in Nat /\ l[i].end < NBlocks * BS /\ NBlocks * BS \in Nat
    BY <1>3, <1>4
  <2> QED
    BY <2>1, <2>2
<1> QED
  BY <1>7, <1>8

\* The first extent begins where the list does.
LEMMA FirstIs ==
    ASSUME NEW bs, NEW l, ListOK(l, bs), NEW b \in Int, InList(b, l)
    PROVE  l # << >> /\ 1 \in 1 .. Len(l) /\ l[1].start <= b
<1>1. /\ Len(l) \in Nat
      /\ \A j \in 1 .. Len(l) : l[j].start \in Nat /\ l[j].end \in Nat /\ l[j].start <= l[j].end
      /\ \A j, h \in 1 .. Len(l) : j < h => l[j].end < l[h].start
  BY ListFacts
<1>2. PICK j \in 1 .. Len(l) : l[j].start <= b /\ b <= l[j].end
  BY DEF InList, In
<1>3. 1 \in 1 .. Len(l) /\ (j = 1 \/ 1 < j)
  BY <1>1
<1>4. CASE j = 1
  BY <1>2, <1>3, <1>4
<1>5. CASE 1 < j
  <2>1. l[1].end < l[j].start
    BY <1>1, <1>3, <1>5
  <2> QED
    BY <1>1, <1>2, <1>3, <2>1
<1> QED
  BY <1>3, <1>4, <1>5

\* The invariant holds at the start, where every block is ahead.
LEMMA CarveInit == Init => IInv
<1> SUFFICES ASSUME Init PROVE IInv
  OBVIOUS
<1> DEFINE l == list_search_space
<1>1. ListOK(l, BS)
  BY FreeListOK DEF Init
<1>2. /\ cur = (IF l = << >> THEN 0 ELSE 1) /\ offset = At(l, cur).start
      /\ file_recovery = NoFile(0)
      /\ offset_skipped_header = 0 /\ kept = {}
      /\ pc = IF cur = 0 THEN "done" ELSE "header"
  BY DEF Init
<1>3. FileInv /\ \A a : ~ InList(a, file_recovery.location)
  <2>1. NoFile(0) \in [ on : BOOLEAN, handle : BOOLEAN, start : Nat, size : {0}, location : {<< >>} ]
    BY DEF NoFile
  <2>2. FileOK(l, NoFile(0)) /\ \A a : ~ InList(a, NoFile(0).location)
    BY <2>1, NoFileOK
  <2> QED
    BY <1>2, <2>2 DEF FileInv
<1>4. cur \in 0 .. Len(l)
  <2>1. l \in Seq(Extent) /\ Len(l) \in Nat
    BY <1>1, ListFacts
  <2> QED
    BY <1>2, <2>1
<1>5. PlaceOK(l, cur, offset, BS) /\ (cur # 0 => offset = l[cur].start)
  <2>1. At_start(l, cur).offset = offset
    BY <1>2, PositionIs DEF At_start
  <2>2. /\ PlaceOK(l, cur, At_start(l, cur).offset, BS)
        /\ (cur # 0 => At_start(l, cur).offset = l[cur].start)
    <3> HIDE DEF l
    <3> QED
      BY <1>1, <1>4, StartPlace
  <2> QED
    BY <2>1, <2>2
<1> HIDE DEF l
<1>6. \A a \in Int : InList(a, l) => Ahead(cur, offset, a)
  BY <1>1, <1>2, <1>5, FirstIs DEF Ahead
<1>7. PlaceInv /\ ControlInv /\ SkippedInv /\ KeptInv /\ ListInv
  BY <1>1, <1>2, <1>5 DEF PlaceInv, ControlInv, SkippedInv, KeptInv, ListInv, l
<1>8. ExaminedInv
  BY <1>2, <1>3, <1>6 DEF ExaminedInv, l
<1> QED
  BY <1>3, <1>7, <1>8 DEF IInv

\* Every step keeps it.
LEMMA CarveNext == IInv /\ [Next]_vars => IInv'
<1> SUFFICES ASSUME IInv, [Next]_vars PROVE IInv'
  OBVIOUS
<1>1. CASE CheckHeader
  BY <1>1, NoHeaderKeeps, HeaderIgnoredKeeps, HeaderFoundKeeps DEF CheckHeader
<1>2. CASE UNCHANGED vars
  <2>1. UNCHANGED << list_search_space, cur, offset, file_recovery, file_recovered,
                     data_check_status, offset_skipped_header, kept, announced, examined, pc >>
    BY <1>2 DEF vars, place, retry, results
  <2>2. ListInv' /\ FileInv' /\ PlaceInv' /\ ControlInv' /\ SkippedInv' /\ KeptInv'
    BY <2>1 DEF IInv, ListInv, FileInv, PlaceInv, ControlInv, SkippedInv, KeptInv
  <2>3. ExaminedInv'
    BY <2>1 DEF IInv, ExaminedInv
  <2> QED
    BY <2>2, <2>3 DEF IInv
<1> QED
  BY <1>1, <1>2, AddDataKeeps, FinishFileKeeps, MoveToRejectedKeeps, MoveToSkippedKeeps,
     MoveOnKeeps, StayKeeps, EndOfMediaKeeps, NextBlockKeeps, NeedToStopKeeps, AbortedKeeps
     DEF Next

\* The inductive invariant of the pass.
THEOREM CarveInvariance == Spec => []IInv
  BY CarveInit, CarveNext, PTL DEF Spec

-----------------------------------------------------------------------------
(***************************************************************************)
(* The invariants of the pass.                                             *)
(***************************************************************************)

\* However files are begun, cut off, rejected and gone back over, the search
\* space stays a sorted list without overlaps, and a block to be added to a file
\* is always found in it, so file_block_remove_from_sp never ends the program.
THEOREM CarveBlockAvailable == Spec => []BlockAvailable
<1>1. IInv => BlockAvailable
  <2> SUFFICES ASSUME IInv
               PROVE  /\ WellFormed(list_search_space)
                      /\ pc = "data" => ExtentOf(list_search_space, cur, offset, BS) # 0
    BY DEF BlockAvailable
  <2>1. ListOK(list_search_space, BS)
    BY DEF IInv, ListInv
  <2>2. ASSUME pc = "data"
        PROVE  ExtentOf(list_search_space, cur, offset, BS) # 0
    <3>1. /\ BS \in Nat /\ BS > 1
          /\ PlaceOK(list_search_space, cur, offset, BS) /\ cur # 0
      BY <2>2, BlockSize DEF IInv, PlaceInv
    <3> QED
      BY <2>1, <3>1, RemoveBlockOK
  <2> QED
    BY <2>1, <2>2 DEF ListOK
<1> QED
  BY <1>1, CarveInvariance, PTL

\* The header the pass means to go back to is in the search space or in the
\* file in progress, never lost in a file that was kept.
THEOREM CarveSkippedIsThere == Spec => []SkippedIsThere
<1>1. IInv => SkippedIsThere
  <2> SUFFICES ASSUME IInv, offset_skipped_header # 0
               PROVE  offset_skipped_header \in Bytes(list_search_space) \cup Held
    BY DEF SkippedIsThere
  <2>1. list_search_space \in Seq(Extent) /\ file_recovery.location \in Seq(Element)
    BY DEF IInv, ListInv, ListOK, FileInv, FileOK, LocationOK
  <2>2. /\ offset_skipped_header \in Int
        /\ \/ InList(offset_skipped_header, list_search_space)
           \/ InList(offset_skipped_header, file_recovery.location)
    BY DEF IInv, SkippedInv
  <2> QED
    BY <2>1, <2>2, ListBytes, LocationBytes DEF Held
<1> QED
  BY <1>1, CarveInvariance, PTL

\* Every recovered file was announced with the size it has in the end and keeps
\* just the blocks that size needs.
THEOREM CarveKeptAsListed == Spec => []KeptAsListed
<1>1. IInv => KeptAsListed
  BY DEF IInv, KeptInv, KeptOK, KeptAsListed, DataBytes
<1> QED
  BY <1>1, CarveInvariance, PTL

\* No block is passed over: a pass that reaches its end has looked for a header
\* in every block that is in the search space or in a recovered file.
THEOREM CarveAllExamined == Spec => []AllExamined
<1>1. IInv => AllExamined
  <2> SUFFICES ASSUME IInv, pc = "done", NEW a \in Blocks,
                      a \in Bytes(list_search_space) \cup KeptBytes
               PROVE  a \in examined
    BY DEF AllExamined
  <2>1. a \in Int /\ a % BS = 0
    BY BlockIs
  <2>2. CASE a \in Bytes(list_search_space)
    <3>1. list_search_space \in Seq(Extent)
      BY DEF IInv, ListInv, ListOK
    <3>2. InList(a, list_search_space)
      BY <2>2, <3>1, ListBytes
    <3>3. cur = 0
      BY DEF IInv, PlaceInv
    <3> QED
      BY <2>1, <3>2, <3>3 DEF IInv, ExaminedInv, Ahead
  <2>3. CASE a \in KeptBytes
    <3>1. PICK f \in kept : a \in Bytes(f.location)
      BY <2>3 DEF KeptBytes
    <3>2. f.location \in Seq(Element)
      BY DEF IInv, KeptInv, KeptOK
    <3>3. InList(a, f.location)
      BY <3>1, <3>2, LocationBytes
    <3> QED
      BY <2>1, <3>3 DEF IInv, ExaminedInv
  <2> QED
    BY <2>2, <2>3
<1> QED
  BY <1>1, CarveInvariance, PTL

-----------------------------------------------------------------------------
(***************************************************************************)
(* The pass implements the ledger.                                         *)
(***************************************************************************)
\* The bytes of the list and of the file in progress, in every state.
LEMMA BytesInList ==
    ASSUME IInv
    PROVE  /\ \A a : a \in Bytes(list_search_space) <=> a \in Int /\ InList(a, list_search_space)
           /\ \A a : a \in Held <=> a \in Int /\ InList(a, file_recovery.location)
<1>1. list_search_space \in Seq(Extent) /\ file_recovery.location \in Seq(Element)
  BY DEF IInv, ListInv, ListOK, FileInv, FileOK, LocationOK
<1> QED
  BY <1>1, ListBytes, LocationBytes DEF Held

\* A pass begins as the ledger does.
LEMMA LedgerInitially == Init => Ledger!LedgerInit
<1> SUFFICES ASSUME Init PROVE Ledger!LedgerInit
  OBVIOUS
<1>1. IInv
  BY CarveInit
<1>2. \A a \in Int : InList(a, list_search_space) => a \in 0 .. NBlocks * BS - 1
  BY FreeListOK DEF Init
<1>3. Bytes(list_search_space) \in SUBSET (0 .. NBlocks * BS - 1)
  BY <1>1, <1>2, BytesInList
<1>4. Held = {}
  <2>1. file_recovery.location = << >>
    BY DEF Init, NoFile
  <2> QED
    BY <2>1 DEF Held, Bytes
<1>5. { Bytes(f.location) : f \in kept } = {}
  BY DEF Init
<1> QED
  BY <1>3, <1>4, <1>5 DEF Ledger!LedgerInit

\* The end of a file settles all it held.
LEMMA EndStep ==
    ASSUME IInv, IInv', NEW size \in Nat, NEW f, NEW loc,
           Settled(f, size, loc), Recorded(f, size, loc),
           list_search_space' = f.list, kept' = f.kept,
           \A a : ~ InList(a, file_recovery'.location)
    PROVE  Ledger!LedgerNext \/ UNCHANGED Ledger!ledger
<1> DEFINE S == Bytes(loc)
<1>1. loc \in Seq(Element)
  BY DEF Settled, LocationOK
<1>2. \A a : a \in S <=> a \in Int /\ InList(a, loc)
  BY <1>1, LocationBytes
<1>3. /\ \A a : a \in Bytes(list_search_space) <=> a \in Int /\ InList(a, list_search_space)
      /\ \A a : a \in Held <=> a \in Int /\ InList(a, file_recovery.location)
  BY BytesInList
<1>4. /\ \A a : a \in Bytes(list_search_space') <=> a \in Int /\ InList(a, list_search_space')
      /\ Held' = {}
  <2>1. list_search_space' \in Seq(Extent) /\ file_recovery'.location \in Seq(Element)
    BY DEF IInv, ListInv, ListOK, FileInv, FileOK, LocationOK
  <2> QED
    BY <2>1, ListBytes, LocationBytes DEF Held
<1>5. S \in SUBSET Held
  BY <1>2, <1>3 DEF Settled
<1>6. Bytes(list_search_space') = Bytes(list_search_space) \cup (Held \ S)
  <2>1. \A a : a \in Bytes(list_search_space') <=> a \in Bytes(list_search_space) \cup (Held \ S)
    <3>1. \A a \in Int : InList(a, list_search_space') <=>
                           \/ InList(a, list_search_space)
                           \/ InList(a, file_recovery.location) /\ ~ InList(a, loc)
      BY DEF Settled
    <3> HIDE DEF S
    <3> QED
      BY <1>2, <1>3, <1>4, <3>1
  <2> QED
    BY <2>1
<1>7. CASE size = 0
  <2>1. kept' = kept /\ loc = << >>
    BY <1>7 DEF Recorded
  <2>2. S = {}
    BY <2>1 DEF Bytes
  <2>3. Bytes(list_search_space') = Bytes(list_search_space) \cup Held
    BY <1>6, <2>2
  <2>4. CASE Held = {}
    <3>1. Bytes(list_search_space') = Bytes(list_search_space) /\ Held' = Held /\ kept' = kept
      BY <1>4, <2>1, <2>3, <2>4
    <3> QED
      BY <3>1 DEF Ledger!ledger
  <2>5. CASE Held # {}
    BY <1>4, <2>1, <2>3, <2>5 DEF Ledger!LedgerNext, Ledger!Release
  <2> QED
    BY <2>4, <2>5
<1>8. CASE size # 0
  <2>1. PICK file : /\ kept' = kept \cup { file } /\ file.location = loc
                    /\ Cardinality(DataBytes(loc)) = RoundUp(size, BS, 0)
    BY <1>8 DEF Recorded
  <2>2. { Bytes(g.location) : g \in kept' } = { Bytes(g.location) : g \in kept } \cup { S }
    BY <2>1
  <2>3. S # {}
    <3>1. BS \in Nat /\ BS > 0 /\ size \in Int
      BY BlockSize
    <3>2. RoundUp(size, BS, 0) \in Int /\ size <= RoundUp(size, BS, 0)
      BY <3>1, RoundUpIs
    <3>3. Cardinality(DataBytes(loc)) # 0
      BY <1>8, <2>1, <3>2
    <3>4. DataBytes(loc) # {}
      BY <3>3, FS_EmptySet
    <3> QED
      BY <3>4 DEF DataBytes
  <2>4. Ledger!Finish(S)
    BY <1>4, <1>6, <2>2, <2>3 DEF Ledger!Finish
  <2> QED
    BY <1>5, <2>4 DEF Ledger!LedgerNext
<1> QED
  BY <1>7, <1>8

\* A block for the file is taken from what is free.
LEMMA AppendStep ==
    ASSUME IInv, IInv', pc = "data", NEW data \in { 0, 1 }, file_block_append(data), kept' = kept
    PROVE  Ledger!LedgerNext
<1> DEFINE S == offset .. offset + BS - 1
<1>1. /\ \A a \in Int : InList(a, list_search_space') <=> InList(a, list_search_space) /\ a \notin S
      /\ \A a \in Int : InList(a, file_recovery'.location) <=>
                          InList(a, file_recovery.location) \/ a \in S
      /\ \A a \in S : InList(a, list_search_space)
  BY Appended
<1>2. /\ \A a : a \in Bytes(list_search_space) <=> a \in Int /\ InList(a, list_search_space)
      /\ \A a : a \in Held <=> a \in Int /\ InList(a, file_recovery.location)
  BY BytesInList
<1>3. /\ \A a : a \in Bytes(list_search_space') <=> a \in Int /\ InList(a, list_search_space')
      /\ \A a : a \in Held' <=> a \in Int /\ InList(a, file_recovery'.location)
  <2>1. list_search_space' \in Seq(Extent) /\ file_recovery'.location \in Seq(Element)
    BY DEF IInv, ListInv, ListOK, FileInv, FileOK, LocationOK
  <2> QED
    BY <2>1, ListBytes, LocationBytes DEF Held
<1>4. offset \in Nat /\ BS \in Nat /\ BS > 1
  BY BlockSize DEF IInv, PlaceInv, PlaceOK
<1>5. offset \in S /\ \A a : a \in S => a \in Int
  BY <1>4
<1> HIDE DEF S
<1>6. S \in SUBSET Bytes(list_search_space) /\ S # {}
  BY <1>1, <1>2, <1>5
<1>7. Bytes(list_search_space') = Bytes(list_search_space) \ S
  <2>1. \A a : a \in Bytes(list_search_space') <=> a \in Bytes(list_search_space) \ S
    BY <1>1, <1>2, <1>3
  <2> QED
    BY <2>1
<1>8. Held' = Held \cup S
  <2>1. \A a : a \in Held' <=> a \in Held \cup S
    BY <1>1, <1>2, <1>3, <1>5
  <2> QED
    BY <2>1
<1>9. Ledger!Take(S)
  BY <1>6, <1>7, <1>8 DEF Ledger!Take
<1> QED
  BY <1>6, <1>9 DEF Ledger!LedgerNext

\* file_recovery_aborted gives all the blocks back.
LEMMA AbortedStep ==
    ASSUME IInv, IInv', file_recovery_aborted
    PROVE  Ledger!LedgerNext \/ UNCHANGED Ledger!ledger
<1> DEFINE l == list_search_space
           loc == file_recovery.location
           m == file_block_truncate_zero(l, loc)
<1>1. /\ BS \in Nat /\ BS > 1 /\ ListOK(l, BS) /\ LocationOK(loc, BS)
      /\ \A a \in Int : ~ (InList(a, l) /\ InList(a, loc))
      /\ file_recovery.start \in Nat
  BY BlockSize DEF IInv, ListInv, FileInv, FileOK, File
<1>2. \A a \in Int : InList(a, m) <=> InList(a, l) \/ InList(a, loc)
  <2> HIDE DEF l, loc
  <2> QED
    BY <1>1, TruncateZeroOK
<1>3. /\ list_search_space' = m /\ kept' = kept /\ file_recovery' = NoFile(file_recovery.start)
  BY DEF file_recovery_aborted, results
<1>4. Held' = {}
  BY <1>3 DEF Held, NoFile, Bytes
<1>5. /\ \A a : a \in Bytes(list_search_space) <=> a \in Int /\ InList(a, list_search_space)
      /\ \A a : a \in Held <=> a \in Int /\ InList(a, file_recovery.location)
  BY BytesInList
<1>6. \A a : a \in Bytes(list_search_space') <=> a \in Int /\ InList(a, list_search_space')
  <2>1. list_search_space' \in Seq(Extent)
    BY DEF IInv, ListInv, ListOK
  <2> QED
    BY <2>1, ListBytes
<1>7. Bytes(list_search_space') = Bytes(list_search_space) \cup Held
  <2>1. \A a \in Int : InList(a, list_search_space') <=>
                         InList(a, list_search_space) \/ InList(a, file_recovery.location)
    BY <1>2, <1>3
  <2>2. \A a : a \in Bytes(list_search_space') <=> a \in Bytes(list_search_space) \cup Held
    BY <1>5, <1>6, <2>1
  <2> QED
    BY <2>2
<1>8. CASE Held = {}
  <2>1. Bytes(list_search_space') = Bytes(list_search_space) /\ Held' = Held /\ kept' = kept
    BY <1>3, <1>4, <1>7, <1>8
  <2> QED
    BY <2>1 DEF Ledger!ledger
<1>9. CASE Held # {}
  BY <1>3, <1>4, <1>7, <1>9 DEF Ledger!LedgerNext, Ledger!Release
<1> QED
  BY <1>8, <1>9

\* A step that changes neither the list nor a file's blocks.
LEMMA QuietStep ==
    ASSUME UNCHANGED << list_search_space, file_recovery, kept >>
    PROVE  UNCHANGED Ledger!ledger
  BY DEF Ledger!ledger, Held

\* Every step of the pass is one of the ledger or changes nothing in it.
LEMMA LedgerStep ==
    ASSUME IInv, [Next]_vars
    PROVE  [Ledger!LedgerNext]_(Ledger!ledger)
<1>0. IInv'
  BY CarveNext
<1>a. ListInv /\ FileInv /\ SkippedInv /\ PlaceOK(list_search_space, cur, offset, BS)
  BY DEF IInv, PlaceInv
<1>b. file_recovery.size \in Nat /\ file_recovery.start \in Nat
  BY <1>a DEF FileInv, FileOK, File
<1>1. ASSUME NEW size \in FinalSizes(file_recovery.size), NEW created \in Created,
             photorec_header_found(size, created)
      PROVE  Ledger!LedgerNext \/ UNCHANGED Ledger!ledger
  <2>1. size \in 0 .. file_recovery.size
    BY <1>b, <1>1, FinalSize
  <2>2. PICK f : f = file_finish2(size)
    OBVIOUS
  <2>3. PICK loc : Settled(f, size, loc) /\ Recorded(f, size, loc)
    BY <1>a, <2>1, <2>2, FinishOK
  <2>4. list_search_space' = f.list /\ kept' = f.kept
    BY <1>1, <2>2 DEF photorec_header_found
  <2>5. file_recovery'.location = << >>
    <3>1. CASE f.status = "OK_TRUNCATED"
      <4>1. file_recovery' = NoFile(file_recovery.start)
        BY <1>1, <2>2, <3>1, Zenon DEF photorec_header_found
      <4> QED
        BY <4>1 DEF NoFile
    <3>2. CASE f.status # "OK_TRUNCATED"
      <4>1. file_recovery' = [ NoFile(offset) EXCEPT !.on = TRUE, !.handle = created ]
        BY <1>1, <2>2, <3>2, Zenon DEF photorec_header_found
      <4> QED
        BY <4>1 DEF NoFile
    <3> QED
      BY <3>1, <3>2
  <2>6. \A a : ~ InList(a, file_recovery'.location)
    BY <2>5 DEF InList
  <2>7. size \in Nat
    BY <1>b, <2>1
  <2> QED
    BY <1>0, <2>3, <2>4, <2>6, <2>7, EndStep
<1>2. CASE CheckHeader
  <2>1. NoHeader \/ header_ignored => UNCHANGED << list_search_space, file_recovery, kept >>
    BY DEF NoHeader, header_ignored, place, results
  <2> QED
    BY <1>1, <1>2, <2>1, QuietStep DEF CheckHeader
<1>3. CASE AddData
  <2>1. CASE SkipIndirect
    <3>1. pc = "data" /\ file_block_append(0) /\ kept' = kept
      BY <2>1 DEF SkipIndirect, results
    <3> QED
      BY <1>0, <3>1, AppendStep
  <2>2. ASSUME NEW answer \in { "CONTINUE", "STOP", "ERROR" }, AddBlock(answer)
        PROVE  Ledger!LedgerNext
    <3>1. pc = "data" /\ file_block_append(1) /\ kept' = kept
      BY <2>2 DEF AddBlock, results
    <3> QED
      BY <1>0, <3>1, AppendStep
  <2>3. CASE WriteFails
    BY <2>3, QuietStep DEF WriteFails, place, results
  <2> QED
    BY <1>3, <2>1, <2>2, <2>3 DEF AddData
<1>4. CASE FinishFile
  <2>1. PICK size \in FinalSizes(IF data_check_status = "ERROR" THEN 0 ELSE file_recovery.size) :
            list_search_space' = file_finish2(size).list /\ kept' = file_finish2(size).kept
    BY <1>4 DEF FinishFile
  <2>2. size \in 0 .. file_recovery.size /\ size \in Nat
    <3>1. PICK limit \in Nat : /\ limit = IF data_check_status = "ERROR" THEN 0 ELSE file_recovery.size
                               /\ limit <= file_recovery.size
      BY <1>b
    <3>2. size \in 0 .. limit
      BY <2>1, <3>1, FinalSize
    <3> QED
      BY <1>b, <3>1, <3>2
  <2>3. PICK f : f = file_finish2(size)
    OBVIOUS
  <2>4. PICK loc : Settled(f, size, loc) /\ Recorded(f, size, loc)
    BY <1>a, <2>2, <2>3, FinishOK
  <2>5. list_search_space' = f.list /\ kept' = f.kept
    BY <2>1, <2>3
  <2>6. \A a : ~ InList(a, file_recovery'.location)
    BY <1>4, <1>b, Emptied DEF FinishFile
  <2> QED
    BY <1>0, <2>2, <2>4, <2>5, <2>6, EndStep
<1>5. CASE EndOfMedia
  <2>1. PICK size \in FinalSizes(file_recovery.size) :
            list_search_space' = file_finish2(size).list /\ kept' = file_finish2(size).kept
    BY <1>5 DEF EndOfMedia
  <2>2. size \in 0 .. file_recovery.size /\ size \in Nat
    BY <1>b, <2>1, FinalSize
  <2>3. PICK f : f = file_finish2(size)
    OBVIOUS
  <2>4. PICK loc : Settled(f, size, loc) /\ Recorded(f, size, loc)
    BY <1>a, <2>2, <2>3, FinishOK
  <2>5. list_search_space' = f.list /\ kept' = f.kept
    BY <2>1, <2>3
  <2>6. \A a : ~ InList(a, file_recovery'.location)
    BY <1>5, <1>b, Emptied DEF EndOfMedia
  <2> QED
    BY <1>0, <2>2, <2>4, <2>5, <2>6, EndStep
<1>6. CASE MoveToRejected \/ MoveToSkipped \/ MoveOn \/ Stay
  BY <1>6, QuietStep DEF MoveToRejected, MoveToSkipped, MoveOn, Stay, GoTo, results
<1>7. CASE NextBlock \/ NeedToStop
  BY <1>7, QuietStep DEF NextBlock, NeedToStop, place, results
<1>8. CASE file_recovery_aborted
  BY <1>0, <1>8, AbortedStep
<1>9. CASE UNCHANGED vars
  BY <1>9, QuietStep DEF vars, place, results
<1> QED
  BY <1>2, <1>3, <1>4, <1>5, <1>6, <1>7, <1>8, <1>9 DEF Next

\* Every behaviour of the carve is one of the ledger: each byte of the search
\* space it began with is free, held by the file in progress or part of one
\* recovered file, and a file's end settles all it held.
THEOREM CarveImplementsLedger == Spec => ImplementsLedger
  BY CarveInit, CarveNext, LedgerInitially, LedgerStep, PTL
     DEF Spec, ImplementsLedger, Ledger!LedgerSpec

-----------------------------------------------------------------------------
(* What the ledger itself promises, of the state of the pass: each of its    *)
(* steps keeps its three parts apart and accounts for the same bytes.        *)
Free == Bytes(list_search_space)
KeptSets == { Bytes(f.location) : f \in kept }

PartsApart(free, held, files) ==
    /\ free \cap held = {}
    /\ (free \cup held) \cap UNION files = {}
    /\ \A f, g \in files : f # g => f \cap g = {}

\* What a step of the ledger does to its parts.
PartsSettled(free, held, files, free2, held2, files2) ==
    /\ PartsApart(free2, held2, files2)
    /\ files \subseteq files2
    /\ free2 \cup held2 \cup UNION files2 = free \cup held \cup UNION files

\* Bytes taken out of the search space are in no file yet.
LEMMA TakeSettles ==
    ASSUME NEW free, NEW held, NEW files, NEW S \in SUBSET free, PartsApart(free, held, files)
    PROVE  PartsSettled(free, held, files, free \ S, held \cup S, files)
  BY DEF PartsSettled, PartsApart

\* What the file in progress holds goes back to the search space.
LEMMA ReleaseSettles ==
    ASSUME NEW free, NEW held, NEW files, PartsApart(free, held, files)
    PROVE  PartsSettled(free, held, files, free \cup held, {}, files)
  BY DEF PartsSettled, PartsApart

\* The bytes of a file that is kept were held, so they are in no other file.
LEMMA FinishSettles ==
    ASSUME NEW free, NEW held, NEW files, NEW S \in SUBSET held, PartsApart(free, held, files)
    PROVE  PartsSettled(free, held, files, free \cup (held \ S), {}, files \cup { S })
<1>1. UNION (files \cup { S }) = (UNION files) \cup S
  OBVIOUS
<1>2. S \cap UNION files = {}
  BY DEF PartsApart
<1>3. ASSUME NEW f \in files \cup { S }, NEW g \in files \cup { S }, f # g
      PROVE  f \cap g = {}
  <2>1. CASE f \in files /\ g \in files
    BY <1>3, <2>1 DEF PartsApart
  <2>2. CASE f = S \/ g = S
    BY <1>2, <1>3, <2>2
  <2> QED
    BY <2>1, <2>2
<1>4. PartsApart(free \cup (held \ S), {}, files \cup { S })
  BY <1>1, <1>2, <1>3 DEF PartsApart
<1> QED
  BY <1>1, <1>4 DEF PartsSettled

\* Every step of the ledger, of the pass.
LEMMA LedgerSettles ==
    ASSUME PartsApart(Free, Held, KeptSets), [Ledger!LedgerNext]_(Ledger!ledger)
    PROVE  PartsSettled(Free, Held, KeptSets, Free', Held', KeptSets')
<1>1. CASE \E S \in SUBSET Free : Ledger!Take(S)
  <2>1. PICK S \in SUBSET Free : Ledger!Take(S)
    BY <1>1
  <2>2. Held' = Held \cup S /\ Free' = Free \ S /\ KeptSets' = KeptSets
    BY <2>1 DEF Ledger!Take, Free, KeptSets
  <2> QED
    BY <2>2, TakeSettles
<1>2. CASE \E S \in SUBSET Held : Ledger!Finish(S)
  <2>1. PICK S \in SUBSET Held : Ledger!Finish(S)
    BY <1>2
  <2>2. Held' = {} /\ Free' = Free \cup (Held \ S) /\ KeptSets' = KeptSets \cup { S }
    BY <2>1 DEF Ledger!Finish, Free, KeptSets
  <2> QED
    BY <2>2, FinishSettles
<1>3. CASE Ledger!Release
  <2>1. Held' = {} /\ Free' = Free \cup Held /\ KeptSets' = KeptSets
    BY <1>3 DEF Ledger!Release, Free, KeptSets
  <2> QED
    BY <2>1, ReleaseSettles
<1>4. CASE UNCHANGED Ledger!ledger
  <2>1. Held' = Held /\ Free' = Free /\ KeptSets' = KeptSets
    BY <1>4 DEF Ledger!ledger, Free, KeptSets
  <2> QED
    BY <2>1 DEF PartsSettled
<1> QED
  BY <1>1, <1>2, <1>3, <1>4 DEF Ledger!LedgerNext, Free

\* Through a whole pass no byte of the disk is in two recovered files, nor in one
\* and still in the search space; a recovered file is never given up, and no byte
\* the pass began with is lost.
THEOREM CarveAccounts == Spec => []Ledger!NoByteShared /\ Ledger!LedgerKeeps
<1>1. Init => PartsApart(Free, Held, KeptSets)
  BY LedgerInitially DEF Ledger!LedgerInit, PartsApart, Free, KeptSets
<1>2. IInv /\ [Next]_vars /\ PartsApart(Free, Held, KeptSets)
        => PartsSettled(Free, Held, KeptSets, Free', Held', KeptSets')
  BY LedgerStep, LedgerSettles
<1>3. IInv /\ [Next]_vars /\ PartsApart(Free, Held, KeptSets)
        => PartsApart(Free, Held, KeptSets)'
  BY <1>2 DEF PartsSettled, PartsApart
<1>4. IInv /\ [Next]_vars /\ PartsApart(Free, Held, KeptSets)
        => [ /\ { Bytes(f.location) : f \in kept } \subseteq { Bytes(f.location) : f \in kept }'
             /\ Ledger!Accounted' = Ledger!Accounted ]_(Ledger!ledger)
  BY <1>2 DEF PartsSettled, Ledger!Accounted, Free, KeptSets
<1>5. PartsApart(Free, Held, KeptSets) => Ledger!NoByteShared
  BY DEF PartsApart, Ledger!NoByteShared, Free, KeptSets
<1> QED
  BY <1>1, <1>3, <1>4, <1>5, CarveInit, CarveNext, PTL DEF Spec, Ledger!LedgerKeeps
=============================================================================
