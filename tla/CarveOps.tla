------------------------------ MODULE CarveOps ------------------------------
(***************************************************************************)
(* What the carve does to the search space: blocks taken for the file in   *)
(* progress, blocks given back, and the moves of the read position.        *)
(*                                                                         *)
(* A position << l, i >> is the list and a pointer into it; a pointer is   *)
(* the index of an extent, 0 for the list head.                            *)
(***************************************************************************)
EXTENDS SearchSpaceOps

Position(l, i, a) == [ list |-> l, cur |-> i, offset |-> a ]

At_start(l, i) == Position(l, i, At(l, i).start)

\* get_next_sector: the next block of the extent or the next extent.
get_next_sector_far(l, i, a, bs) ==
    IF i = 0 THEN Position(l, i, a)
    ELSE IF a + 2 * bs <= l[i].end THEN Position(l, i, a + 2 * bs)
    ELSE At_start(l, next_entry(l, i))

get_next_sector(l, i, a, bs) ==
    IF i = 0 THEN Position(l, i, a)
    ELSE IF a + bs <= l[i].end THEN Position(l, i, a + bs)
    ELSE At_start(l, next_entry(l, i))

-----------------------------------------------------------------------------
\* file_block_remove_from_sp_aux: one block leaves the front, the back or the
\* middle of extent i.  The pointer cur moves unless extent i keeps its end.
RemoveFrontStays(l, i, cur, a, bs) ==
    IF a + bs <= l[i].end THEN Position(ReplaceAt(l, i, extent(a + bs, l[i].end)), cur, a)
    ELSE LET m == RemoveAt(l, i)
         IN  At_start(m, IF i > Len(m) THEN 0 ELSE i)

RemoveFront(l, i, cur, a, bs) ==
    IF a + bs <= l[i].end THEN Position(ReplaceAt(l, i, extent(a + bs, l[i].end)), cur, a + bs)
    ELSE LET m == RemoveAt(l, i)
         IN  At_start(m, IF i > Len(m) THEN 0 ELSE i)

RemoveBack(l, i, bs) == At_start([l EXCEPT ![i].end = @ - bs], next_entry(l, i))

RemoveMiddle(l, i, a, bs) ==
    Position(InsertAt([l EXCEPT ![i].end = a - 1], i + 1, extent(a + bs, l[i].end)), i + 1, a + bs)

RemoveBlock(l, i, cur, a, bs) ==
    IF l[i].start = a THEN RemoveFront(l, i, cur, a, bs)
    ELSE IF a + bs = l[i].end + 1 THEN RemoveBack(l, i, bs)
    ELSE RemoveMiddle(l, i, a, bs)

\* file_block_remove_from_sp looks in the current extent first, then in all;
\* it ends the program when the block is in none.
HasBlock(x, a, bs) == x.start <= a /\ a + bs <= x.end + 1

ExtentOf(l, i, a, bs) ==
    IF i # 0 /\ HasBlock(At(l, i), a, bs) THEN i
    ELSE SelectInSeq(l, LAMBDA x : HasBlock(x, a, bs))

file_block_remove_from_sp(l, cur, a, bs) == RemoveBlock(l, ExtentOf(l, cur, a, bs), cur, a, bs)

\* file_block_add_to_file: the last element of the location grows or a new one
\* is added; data is 0 for an indirect block.
file_block_add_to_file(loc, a, bs, data) ==
    IF loc # << >> /\ Last(loc).end + 1 = a /\ Last(loc).data = data
      THEN [loc EXCEPT ![Len(loc)].end = a + bs - 1]
      ELSE Append(loc, [ start |-> a, end |-> a + bs - 1, data |-> data ])

-----------------------------------------------------------------------------
\* file_block_truncate_aux: the range joins the extent behind it or the one
\* before it, or becomes an extent at its place in the order.
GiveBack(l, s, e) ==
    LET Joins(x)   == x.start = e + 1 /\ ~ x.file_stat
        Extends(x) == x.end + 1 = s
        i == SelectInSeq(l, LAMBDA x : Joins(x) \/ Extends(x) \/ e < x.start)
    IN  IF s >= e THEN l
        ELSE IF i = 0 THEN Append(l, extent(s, e))
        ELSE IF Joins(l[i]) THEN [l EXCEPT ![i].start = s]
        ELSE IF Extends(l[i]) THEN [l EXCEPT ![i].end = e]
        ELSE InsertAt(l, i, extent(s, e))

\* file_block_truncate_zero_aux: the same for the first range of a rejected
\* file, whose header stays marked with its file_stat.
GiveBackHeader(l, s, e) ==
    LET Joins(x) == x.start = e + 1 /\ ~ x.file_stat
        marked   == [ extent(s, e) EXCEPT !.file_stat = TRUE ]
        i == SelectInSeq(l, LAMBDA x : Joins(x) \/ e < x.start)
    IN  IF s >= e THEN l
        ELSE IF i = 0 THEN Append(l, marked)
        ELSE IF Joins(l[i]) THEN ReplaceAt(l, i, [ marked EXCEPT !.end = l[i].end ])
        ELSE InsertAt(l, i, marked)

\* Extents only grow while ranges are given back, so the one the pointer i of l
\* is at is the one of m that has its first byte.
Follow(l, m, i) ==
    IF i = 0 THEN 0
    ELSE SelectInSeq(m, LAMBDA x : x.start <= l[i].start /\ l[i].start <= x.end)

GiveBackAll(l, locs) == FoldLeft(LAMBDA m, r : GiveBack(m, r.start, r.end), l, locs)

\* file_block_truncate_zero
truncate_zero_first(l, loc) ==
    IF loc = << >> THEN l ELSE GiveBackHeader(l, loc[1].start, loc[1].end)

file_block_truncate_zero(l, loc) ==
    IF loc = << >> THEN l
    ELSE GiveBackAll(GiveBackHeader(l, loc[1].start, loc[1].end), Tail(loc))

\* file_block_truncate, element by element: the file keeps the blocks that
\* hold its first size bytes, and any indirect block among them.
TruncateShort(t, x, size, bs) ==
    LET diff == ((size - t.sum) \div bs) * bs
    IN  IF t.sum >= size
          THEN [ t EXCEPT !.list = GiveBack(@, x.start, x.end), !.truncated = TRUE ]
        ELSE IF x.data = 0 THEN [ t EXCEPT !.loc = Append(@, x) ]
        ELSE IF t.sum + x.end - x.start + 1 > size
          THEN [ t EXCEPT !.list = GiveBack(@, x.start + diff, x.end), !.sum = size,
                          !.loc = Append(@, [ x EXCEPT !.end = x.start + diff - 1 ]) ]
        ELSE [ t EXCEPT !.sum = @ + x.end - x.start + 1, !.loc = Append(@, x) ]

TruncateElement(t, x, size, bs) ==
    LET diff == ((size - t.sum + bs - 1) \div bs) * bs
    IN  IF t.sum >= size
          THEN [ t EXCEPT !.list = GiveBack(@, x.start, x.end), !.truncated = TRUE ]
        ELSE IF x.data = 0 THEN [ t EXCEPT !.loc = Append(@, x) ]
        ELSE IF t.sum + x.end - x.start + 1 > size
          THEN [ t EXCEPT !.list = GiveBack(@, x.start + diff, x.end), !.sum = size,
                          !.loc = Append(@, [ x EXCEPT !.end = x.start + diff - 1 ]) ]
        ELSE [ t EXCEPT !.sum = @ + x.end - x.start + 1, !.loc = Append(@, x) ]

file_block_truncate(l, loc, size, bs) ==
    FoldLeft(LAMBDA t, x : TruncateElement(t, x, size, bs),
             [ list |-> l, loc |-> << >>, sum |-> 0, truncated |-> FALSE ], loc)

-----------------------------------------------------------------------------
\* get_prev_file_header: the nearest of the three extents before the position
\* that begins with a rejected header, 0 when there is none.
Reach == 3

get_prev_file_header(l, i) ==
    LET near == { j \in Before(l, i) :
                    j >= (IF i = 0 THEN Len(l) + 1 ELSE i) - Reach /\ l[j].file_stat }
    IN  IF near = {} THEN 0 ELSE Highest(near)

\* get_prev_location_smart, first loop: the extent before the position that
\* holds the skipped header, not looking further back than prev_location.
Holding(l, i, skipped) ==
    { j \in Before(l, i) : l[j].start <= skipped /\ skipped < l[j].end }
Stopping(l, i, prev) == { j \in Before(l, i) : l[j].start < prev }

FirstLoopFinds(l, i, skipped, prev) ==
    /\ Holding(l, i, skipped) # {}
    /\ \A j \in Stopping(l, i, prev) : j <= Highest(Holding(l, i, skipped))

\* The second loop goes on from where the first one stopped, from the end of
\* the list when that was the list head.
SecondLoop(p, from, skipped) ==
    LET lower == { j \in Before(p.list, from) : p.list[j].start < skipped }
    IN  IF lower # {} THEN [ p EXCEPT !.cur = Highest(lower), !.offset = skipped ]
        ELSE IF Before(p.list, from) = {} THEN p
        ELSE At_start(p.list, 1)

get_prev_location_smart(p, skipped, prev) ==
    LET hits  == Holding(p.list, p.cur, skipped)
        stops == Stopping(p.list, p.cur, prev)
    IN  IF skipped = 0 THEN p
        ELSE IF FirstLoopFinds(p.list, p.cur, skipped, prev)
          THEN [ p EXCEPT !.cur = Highest(hits), !.offset = skipped ]
        ELSE SecondLoop(p, IF stops = {} THEN 0 ELSE Highest(stops), skipped)
=============================================================================
