--------------------------- MODULE SearchSpaceOps ---------------------------
(***************************************************************************)
(* The search space of photorec.c: the bytes of the disk that no recovered *)
(* file accounts for, kept as a list of extents, and the operations of     *)
(* photorec.c, pnext.h and filegen.c on it.                                *)
(*                                                                         *)
(* The doubly linked list is a sequence.  A pointer into it is an index,   *)
(* with 0 for the list head itself, which has the two roles the head has   *)
(* in a circular list: before the first extent and after the last one.     *)
(* An operation that moves a pointer returns the list with the new index.  *)
(***************************************************************************)
EXTENDS Integers, SequencesExt

\* file_stat stands for file_stat # NULL: a file was begun here and failed.
Extent == [ start : Nat, end : Nat, file_stat : BOOLEAN ]

extent(s, e) == [ start |-> s, end |-> e, file_stat |-> FALSE ]

Bytes(l) == UNION { l[i].start .. l[i].end : i \in DOMAIN l }

\* The extents are in order, apart from each other and not empty.
WellFormed(l) ==
    /\ \A i \in DOMAIN l : l[i].start <= l[i].end
    /\ \A i, j \in DOMAIN l : i < j => l[i].end < l[j].start

\* The list head is an extent of zeros.
At(l, i) == IF i = 0 THEN extent(0, 0) ELSE l[i]

next_entry_wraps(l, i) == IF i = Len(l) THEN 1 ELSE i + 1

next_entry(l, i) == IF i = Len(l) THEN 0 ELSE i + 1
prev_entry(l, i) == IF i = 0 THEN Len(l) ELSE i - 1

\* The extents a walk towards the head meets when it begins before i.
Before(l, i) == 1 .. (IF i = 0 THEN Len(l) ELSE i - 1)

Highest(S) == CHOOSE i \in S : \A j \in S : j <= i

-----------------------------------------------------------------------------
(***************************************************************************)
(* del_search_space: the recursion of update_search_space_aux, called      *)
(* without a position to keep.  It looks for the last extent that [s, e]   *)
(* touches, cuts it or removes it, and starts over with what is left.      *)
(***************************************************************************)
Touches(x, s, e) ==
    \/ x.start = s
    \/ x.end = e
    \/ s < x.start /\ x.start <= e
    \/ s <= x.end /\ x.end < e
    \/ x.start < s /\ e < x.end

\* The lists the recursion ends on.
Ordered == { l \in Seq(Extent) : WellFormed(l) }

\* The extent is cut in two at s, the new one behind it.
Split(l, i, s) == InsertAt([l EXCEPT ![i].end = s - 1], i + 1, extent(s, l[i].end))

del[q \in Ordered \X Nat \X Int] ==
    LET l == q[1]
        s == q[2]
        e == q[3]
        i == SelectLastInSeq(l, LAMBDA y : Touches(y, s, e))
        x == l[i]
    IN  IF s > e \/ i = 0 THEN l
        ELSE IF x.start = s THEN
            IF e < x.end THEN ReplaceAt(l, i, extent(e + 1, x.end))
            ELSE del[<< RemoveAt(l, i), x.end + 1, e >>]
        ELSE IF x.end = e THEN
            IF x.start < s THEN [l EXCEPT ![i].end = s - 1]
            ELSE del[<< RemoveAt(l, i), s, x.start - 1 >>]
        ELSE IF s < x.start THEN
            del[<< del[<< l, s, x.start - 1 >>], x.start, e >>]
        ELSE IF x.end < e THEN
            del[<< del[<< l, s, x.end >>], x.end + 1, e >>]
        ELSE del[<< Split(l, i, s), s, e >>]

del_search_space_short(l, s, e) == del[<< l, s, e - 1 >>]

del_search_space(l, s, e) == del[<< l, s, e >>]

init_search_space(part_offset, part_size, disk_size) ==
    LET end == part_offset + part_size - 1
    IN  << extent(part_offset, IF end > disk_size - 1 THEN disk_size - 1 ELSE end) >>

-----------------------------------------------------------------------------
(***************************************************************************)
(* find_blocksize: from the largest block size down to the one that all    *)
(* the headers seen so far are aligned to, and the offset they share.      *)
(***************************************************************************)
Halve(r, x, default) ==
    IF x.file_stat /\ x.start % r.blocksize # r.offset /\ r.blocksize > default
      THEN [ blocksize |-> r.blocksize \div 2, offset |-> x.start % (r.blocksize \div 2) ]
      ELSE r

find_blocksize(l, default, max) ==
    LET again[r \in [blocksize : 0 .. max, offset : 0 .. max]] ==
          LET w == FoldLeft(LAMBDA q, x : Halve(q, x, default), r, l)
          IN  IF w = r THEN r ELSE again[w]
    IN  IF l = << >> THEN [ blocksize |-> default, offset |-> 0 ]
        ELSE again[[ blocksize |-> max, offset |-> l[1].start % max ]]

(***************************************************************************)
(* update_blocksize: the end of the list is rounded up, each start is      *)
(* rounded up or, when the extent before is adjacent, merged with it, and  *)
(* each end is rounded down.  Extents left with nothing are dropped.       *)
(***************************************************************************)
RoundUpStrict(a, bs, off) == ((a - off + bs) \div bs) * bs + off

RoundUp(a, bs, off)   == ((a - off + bs - 1) \div bs) * bs + off
RoundDown(a, bs, off) == ((a - off) \div bs) * bs + off

AlignStart(l, i, bs, off) ==
    LET a == RoundUp(l[i].start, bs, off)
    IN  IF a = l[i].start THEN l
        ELSE IF i > 1 /\ l[i - 1].end + 1 = l[i].start
          THEN RemoveAt([l EXCEPT ![i - 1].end = l[i].end], i)
        ELSE IF a >= l[i].end THEN RemoveAt(l, i)
        ELSE ReplaceAt(l, i, extent(a, l[i].end))

AlignEndKept(x, bs, off) == x

AlignEnd(x, bs, off) == [x EXCEPT !.end = RoundDown(x.end + 1, bs, off) - 1]

KeepAligned(m, x, bs, off) ==
    LET y == AlignEnd(x, bs, off)
    IN  IF y.start < y.end THEN Append(m, y) ELSE m

update_blocksize(l, bs, offset) ==
    IF l = << >> THEN l ELSE
    LET off    == offset % bs
        ended  == [l EXCEPT ![Len(l)].end = RoundUp(@ + 1, bs, off) - 1]
        starts == FoldLeft(LAMBDA m, i : AlignStart(m, i, bs, off), ended,
                           Reverse([i \in 1 .. Len(l) |-> i]))
    IN  FoldLeft(LAMBDA m, x : KeepAligned(m, x, bs, off), << >>, starts)
=============================================================================
