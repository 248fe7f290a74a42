----------------------------- MODULE ByteRanges -----------------------------
(***************************************************************************)
(* merge_ranges of ntfs.rs: the ranges of bytes that the NTFS pass hands   *)
(* to kaifuku_mark_used_ranges are sorted and merged.  A range has the     *)
(* fields offset and size.                                                 *)
(***************************************************************************)
EXTENDS Integers, SequencesExt

\* One more range, which begins no earlier than the last.  First a mutated form: the
\* merged range ends where the new one does.
MergeTakesEnd(merged, r) ==
    IF merged # << >> /\ r.offset <= Last(merged).offset + Last(merged).size
      THEN [ merged EXCEPT ![Len(merged)].size = r.offset + r.size - Last(merged).offset ]
      ELSE Append(merged, r)

Merge(merged, r) ==
    IF merged # << >> /\ r.offset <= Last(merged).offset + Last(merged).size
      THEN LET end == r.offset + r.size
               old == Last(merged).offset + Last(merged).size
           IN  [ merged EXCEPT ![Len(merged)].size =
                   (IF end > old THEN end ELSE old) - Last(merged).offset ]
      ELSE Append(merged, r)

\* The sort; of ranges with one offset any may come first.
Insert(sorted, r) ==
    LET i == SelectInSeq(sorted, LAMBDA x : r.offset < x.offset)
    IN  IF i = 0 THEN Append(sorted, r) ELSE InsertAt(sorted, i, r)

sort_by_offset(v) == FoldLeft(Insert, << >>, v)

merge_ranges(v) == FoldLeft(Merge, << >>, sort_by_offset(v))
=============================================================================
