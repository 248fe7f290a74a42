-------------------------- MODULE BruteForce_proofs --------------------------
(***************************************************************************)
(* No byte is lost or in two places through the brute-force pass, however  *)
(* a file is cut, put together and given up, and a file it keeps is whole, *)
(* for every disk, block size, bound of the search and answer of the       *)
(* formats.                                                                *)
(***************************************************************************)
EXTENDS BruteForce, CarveOps_proofs

-----------------------------------------------------------------------------
(* Iterations *)

\* g is the iteration of F from base.
IterationEquation(g, n, base, F) ==
    g = [ w \in SUBSET (1 .. n) |-> IF w = {} THEN base ELSE F[g[w \ { Max(w) }]] ]

\* A step that is a function has an iteration.
LEMMA IterationExists ==
    ASSUME NEW n \in Nat, NEW X, NEW base \in X, NEW F \in [X -> X]
    PROVE  \E g \in [SUBSET (1 .. n) -> X] : IterationEquation(g, n, base, F)
<1> DEFINE G == [ p \in (1 .. n) \X X |-> F[p[2]] ]
<1>1. G \in [(1 .. n) \X X -> X]
  OBVIOUS
<1>2. PICK g \in [SUBSET (1 .. n) -> X] : FoldEquation(g, n, base, G)
  <2> HIDE DEF G
  <2> QED
    BY <1>1, FoldExists
<1>3. ASSUME NEW w \in SUBSET (1 .. n)
      PROVE  g[w] = IF w = {} THEN base ELSE F[g[w \ { Max(w) }]]
  <2>1. g[w] = IF w = {} THEN base ELSE G[<< Max(w), g[w \ { Max(w) }] >>]
    BY <1>2 DEF FoldEquation
  <2>2. CASE w # {}
    <3>1. Max(w) \in 1 .. n
      BY <2>2, MaxProperty
    <3>2. g[w \ { Max(w) }] \in X
      OBVIOUS
    <3> QED
      BY <2>1, <2>2, <3>1, <3>2
  <2> QED
    BY <2>1, <2>2
<1>4. DOMAIN g = SUBSET (1 .. n) /\ g = [ w \in SUBSET (1 .. n) |-> g[w] ]
  OBVIOUS
<1>5. IterationEquation(g, n, base, F)
  BY <1>3, <1>4 DEF IterationEquation
<1> WITNESS g \in [SUBSET (1 .. n) -> X]
<1> QED
  BY <1>5

\* What each step of an iteration keeps, its result has.
LEMMA IterationStays ==
    ASSUME NEW n \in Nat, NEW X, NEW c, c[{}] \in X,
           \A w \in SUBSET (1 .. n) : w # {} /\ c[w \ { Max(w) }] \in X => c[w] \in X
    PROVE  c[1 .. n] \in X
<1> DEFINE S == { k \in 0 .. n : c[1 .. k] \in X }
<1>1. 0 \in S
  <2>1. 1 .. 0 = {}
    OBVIOUS
  <2> QED
    BY <2>1
<1>2. ASSUME NEW k \in 1 .. n, k - 1 \in S
      PROVE  k \in S
  <2>1. /\ 1 .. k # {} /\ (1 .. k) \ { k } = 1 .. (k - 1) /\ Max(1 .. k) = k
        /\ 1 .. k \in SUBSET (1 .. n) /\ k \in 0 .. n
    BY UpTo
  <2>2. c[1 .. (k - 1)] \in X
    BY <1>2
  <2> QED
    BY <2>1, <2>2
<1>3. 0 .. n \subseteq S
  <2> HIDE DEF S
  <2> QED
    BY <1>1, <1>2, SetInduction
<1> QED
  BY <1>3

\* An interval up to an integer is one up to a natural number.
LEMMA Interval ==
    ASSUME NEW k \in Int
    PROVE  \E n \in Nat : 1 .. k = 1 .. n
<1>1. CASE k >= 0
  BY <1>1
<1>2. CASE k < 0
  <2>1. 1 .. k = 1 .. 0
    BY <1>2
  <2> QED
    BY <2>1
<1> QED
  BY <1>1, <1>2

-----------------------------------------------------------------------------
(* The blocks of a search *)

FileRec ==
    [ on : BOOLEAN, handle : BOOLEAN, size : Nat, location : Seq(Element), written : Seq(Nat),
      offset_error : Nat, offset_ok : Nat, extra : Nat ]

SearchRec ==
    [ list : Seq(Extent), cur : Nat, offset : Nat, file : FileRec, nbr : Nat,
      stop : BOOLEAN, lost : BOOLEAN ]

\* The list and the location have no byte in common.
Disjoint(l, loc) == \A a \in Int : ~ (InList(a, l) /\ InList(a, loc))

\* The list m and the location n have the bytes of l and k between them.
SameBytes(m, n, l, k) ==
    \A a \in Int : InList(a, m) \/ InList(a, n) <=> InList(a, l) \/ InList(a, k)

\* The states of a search that began with the list l and the file f: no byte of
\* either is lost or in both, and the file is as open as it was.
Partings(l, f) ==
    { s \in SearchRec :
        /\ ListOK(s.list, BS) /\ LocationOK(s.file.location, BS)
        /\ Disjoint(s.list, s.file.location)
        /\ SameBytes(s.list, s.file.location, l, f.location)
        /\ s.offset % BS = 0
        /\ s.file.on = f.on /\ s.file.handle = f.handle }

\* Those whose position is in the list.
Searches(l, f) == { s \in Partings(l, f) : s.cur \in 0 .. Len(s.list) }

\* Blocks of more than one byte.
LEMMA BlockSize == BS \in Nat /\ BS > 1 /\ BS > 0
  BY BruteAssumption

\* The search begins in one of them.
LEMMA SearchParts ==
    ASSUME NEW p, NEW f \in FileRec, ListOK(p.list, BS), LocationOK(f.location, BS),
           Disjoint(p.list, f.location), p.cur \in Nat, p.offset \in Nat, p.offset % BS = 0
    PROVE  Search(p, f) \in Partings(p.list, f) /\ Search(p, f).cur = p.cur
           /\ Search(p, f).list = p.list
<1>1. p.list \in Seq(Extent)
  BY DEF ListOK
<1>2. PICK s : s = Search(p, f)
  OBVIOUS
<1>3. /\ s = [ list |-> p.list, cur |-> p.cur, offset |-> p.offset, file |-> f,
               nbr |-> 0, stop |-> FALSE, lost |-> FALSE ]
  BY <1>2 DEF Search
<1>4. s \in SearchRec
  BY <1>1, <1>3 DEF SearchRec
<1>5. s.list = p.list /\ s.file = f /\ s.cur = p.cur /\ s.offset = p.offset
  BY <1>3
<1>6. SameBytes(s.list, s.file.location, p.list, f.location)
  BY <1>5 DEF SameBytes
<1> QED
  BY <1>2, <1>4, <1>5, <1>6 DEF Partings

\* A search of a place in a list of the right form begins well.
LEMMA SearchStarts ==
    ASSUME NEW p, NEW f \in FileRec, ListOK(p.list, BS), LocationOK(f.location, BS),
           Disjoint(p.list, f.location), p.cur \in 0 .. Len(p.list),
           p.offset \in Nat, p.offset % BS = 0
    PROVE  Search(p, f) \in Searches(p.list, f)
<1>1. Len(p.list) \in Nat /\ p.cur \in Nat
  BY DEF ListOK
<1>2. Search(p, f) \in Partings(p.list, f) /\ Search(p, f).cur = p.cur /\ Search(p, f).list = p.list
  BY <1>1, SearchParts
<1> QED
  BY <1>2 DEF Searches

\* Moving the position inside the same list keeps the search a search.
LEMMA MoveStays ==
    ASSUME NEW l, NEW f, NEW s \in Searches(l, f), NEW p,
           p.list = s.list, p.cur \in 0 .. Len(s.list), p.offset \in Nat, p.offset % BS = 0
    PROVE  Move(s, p) \in Searches(l, f)
<1>1. s \in SearchRec
  BY DEF Searches, Partings
<1>2. p.list \in Seq(Extent) /\ p.cur \in Nat
  BY <1>1 DEF SearchRec
<1>3. PICK m : m = Move(s, p)
  OBVIOUS
<1>4. m = [ s EXCEPT !.list = p.list, !.cur = p.cur, !.offset = p.offset ]
  BY <1>3 DEF Move
<1>5. m \in SearchRec /\ m.list = s.list /\ m.cur = p.cur /\ m.offset = p.offset /\ m.file = s.file
  BY <1>1, <1>2, <1>4 DEF SearchRec
<1> QED
  BY <1>3, <1>5 DEF Searches, Partings

\* The start of an extent, or of the list head, is a place to be.
LEMMA StartStays ==
    ASSUME NEW m, ListOK(m, BS), NEW i \in 0 .. Len(m), NEW p, p = At_start(m, i)
    PROVE  p.list = m /\ p.cur = i /\ p.offset \in Nat /\ p.offset % BS = 0
<1>1. p.list = m /\ p.cur = i /\ p.offset = At(m, i).start
  BY DEF At_start, Position
<1>2. CASE i = 0
  <2>1. At(m, i).start = 0
    BY <1>2 DEF At, extent
  <2>2. 0 % BS = 0
    <3>1. 0 = 0 * BS
      BY BlockSize
    <3> QED
      BY <3>1, BlockSize, AlignedIs
  <2> QED
    BY <1>1, <2>1, <2>2
<1>3. CASE i # 0
  <2>1. i \in 1 .. Len(m) /\ At(m, i) = m[i]
    BY <1>3 DEF At, ListOK
  <2>2. m[i].start \in Nat /\ IsBlocks(m[i], BS)
    BY <2>1, ListFacts
  <2> QED
    BY <1>1, <2>1, <2>2 DEF IsBlocks
<1> QED
  BY <1>2, <1>3

\* next_entry is an extent of the list or its head.
LEMMA NextEntryIs ==
    ASSUME NEW m \in Seq(Extent), NEW i \in 0 .. Len(m)
    PROVE  next_entry(m, i) \in 0 .. Len(m)
  BY DEF next_entry

\* get_next_sector takes nothing.
LEMMA NextSectorStays ==
    ASSUME NEW l, NEW f, NEW s \in Searches(l, f)
    PROVE  NextSector(s) \in Searches(l, f)
<1>1. /\ s \in SearchRec /\ ListOK(s.list, BS) /\ s.cur \in 0 .. Len(s.list) /\ s.offset % BS = 0
      /\ s.offset \in Nat /\ s.list \in Seq(Extent)
  BY DEF Searches, Partings, SearchRec
<1>2. PICK p : p = get_next_sector(s.list, s.cur, s.offset, BS)
  OBVIOUS
<1>3. p.list = s.list /\ p.cur \in 0 .. Len(s.list) /\ p.offset \in Nat /\ p.offset % BS = 0
  <2>1. CASE s.cur = 0
    <3>1. p = Position(s.list, s.cur, s.offset)
      BY <1>2, <2>1 DEF get_next_sector
    <3> QED
      BY <1>1, <3>1, PositionIs
  <2>2. CASE s.cur # 0 /\ s.offset + BS <= s.list[s.cur].end
    <3>1. p = Position(s.list, s.cur, s.offset + BS)
      BY <1>2, <2>2 DEF get_next_sector
    <3>2. (s.offset + BS) % BS = 0
      <4>1. s.offset \in Int
        BY <1>1
      <4> QED
        BY <1>1, <4>1, BlockSize, AlignedNext
    <3>3. s.offset + BS \in Nat
      BY <1>1, BlockSize
    <3> QED
      BY <1>1, <3>1, <3>2, <3>3, PositionIs
  <2>3. CASE s.cur # 0 /\ ~ (s.offset + BS <= s.list[s.cur].end)
    <3>1. p = At_start(s.list, next_entry(s.list, s.cur))
      BY <1>2, <2>3 DEF get_next_sector
    <3>2. next_entry(s.list, s.cur) \in 0 .. Len(s.list)
      BY <1>1, NextEntryIs
    <3> QED
      BY <1>1, <3>1, <3>2, StartStays
  <2> QED
    BY <2>1, <2>2, <2>3
<1> QED
  BY <1>2, <1>3, MoveStays DEF NextSector

\* Nor does the way to the next extent.
LEMMA NextHeaderStays ==
    ASSUME NEW l, NEW f, NEW s \in Searches(l, f)
    PROVE  get_next_header(s) \in Searches(l, f)
<1>1. s \in SearchRec /\ ListOK(s.list, BS) /\ s.cur \in 0 .. Len(s.list) /\ s.list \in Seq(Extent)
  BY DEF Searches, Partings, SearchRec
<1>2. PICK p : p = At_start(s.list, next_entry(s.list, s.cur))
  OBVIOUS
<1>3. p.list = s.list /\ p.cur \in 0 .. Len(s.list) /\ p.offset \in Nat /\ p.offset % BS = 0
  BY <1>1, <1>2, NextEntryIs, StartStays
<1>4. Move(s, p) \in Searches(l, f)
  BY <1>3, MoveStays
<1> QED
  BY <1>2, <1>4 DEF get_next_header

-----------------------------------------------------------------------------
(* Taking a block *)

\* The block at a was taken from the list m; p is the position after it.
Taken(m, p, a) ==
    /\ ListOK(p.list, BS)
    /\ p.cur \in 0 .. Len(p.list) /\ p.offset \in Nat /\ p.offset % BS = 0
    /\ \A b \in Int : InList(b, p.list) <=> InList(b, m) /\ b \notin a .. a + BS - 1
    /\ \A b \in a .. a + BS - 1 : InList(b, m)

\* A place whose offset is on the grid or that is the start of an extent.
LEMMA TakenFrom ==
    ASSUME NEW m, NEW p, NEW a \in Nat, TakenAt(m, p, a, BS),
           \A b \in a .. a + BS - 1 : InList(b, m), p.cur = 0 => p.offset % BS = 0
    PROVE  Taken(m, p, a)
  BY DEF Taken, TakenAt, PlaceOK

\* ExtentOf answers with an extent that has the block, if with any.
LEMMA ExtentFound ==
    ASSUME NEW m, ListOK(m, BS), NEW cur \in 0 .. Len(m), NEW a \in Nat,
           ExtentOf(m, cur, a, BS) # 0
    PROVE  \E i \in 1 .. Len(m) : /\ i = ExtentOf(m, cur, a, BS)
                                  /\ m[i].start <= a /\ a + BS <= m[i].end + 1
<1>1. Len(m) \in Nat /\ DOMAIN m = 1 .. Len(m)
  BY ListFacts
<1>2. CASE cur # 0 /\ HasBlock(At(m, cur), a, BS)
  <2>1. ExtentOf(m, cur, a, BS) = cur
    BY <1>2 DEF ExtentOf
  <2>2. cur \in 1 .. Len(m) /\ At(m, cur) = m[cur]
    BY <1>1, <1>2 DEF At
  <2> QED
    BY <1>2, <2>1, <2>2 DEF HasBlock
<1>3. CASE ~ (cur # 0 /\ HasBlock(At(m, cur), a, BS))
  <2> DEFINE I == { j \in 1 .. Len(m) : HasBlock(m[j], a, BS) }
             first == IF I # {} THEN Min(I) ELSE 0
  <2>1. ExtentOf(m, cur, a, BS) = SelectInSeq(m, LAMBDA x : HasBlock(x, a, BS))
    BY <1>3, Zenon DEF ExtentOf
  <2>2. SelectInSeq(m, LAMBDA x : HasBlock(x, a, BS)) = first
    BY <1>1, Zenon DEF SelectInSeq
  <2>3. I \in SUBSET (1 .. Len(m))
    OBVIOUS
  <2>4. \A j \in I : j \in 1 .. Len(m) /\ HasBlock(m[j], a, BS)
    OBVIOUS
  <2> HIDE DEF I
  <2>5. PICK i \in 0 .. Len(m) : i = first /\ (i # 0 => i \in I)
    BY <1>1, <2>3, MinIndex, Zenon
  <2>6. i # 0 /\ i \in I /\ i = ExtentOf(m, cur, a, BS)
    BY <2>1, <2>2, <2>5
  <2> QED
    BY <2>4, <2>6 DEF HasBlock
<1> QED
  BY <1>2, <1>3

\* file_block_remove_from_sp takes just the block it is asked for, wherever the
\* position is.
LEMMA RemoveTakes ==
    ASSUME NEW m, ListOK(m, BS), NEW cur \in 0 .. Len(m), NEW a \in Nat, a % BS = 0,
           ExtentOf(m, cur, a, BS) # 0
    PROVE  Taken(m, file_block_remove_from_sp(m, cur, a, BS), a)
<1>1. PICK i \in 1 .. Len(m) : /\ i = ExtentOf(m, cur, a, BS)
                               /\ m[i].start <= a /\ a + BS <= m[i].end + 1
  BY ExtentFound
<1>2. m[i].start \in Nat /\ m[i].end \in Nat /\ Len(m) \in Nat
  BY ListFacts
<1>3. file_block_remove_from_sp(m, cur, a, BS) = RemoveBlock(m, i, cur, a, BS)
  BY <1>1 DEF file_block_remove_from_sp
<1>4. \A b \in a .. a + BS - 1 : InList(b, m)
  BY <1>1, <1>2, BlockSize DEF InList, In
<1>5. ASSUME m[i].start = a, a + BS <= m[i].end
      PROVE  Taken(m, file_block_remove_from_sp(m, cur, a, BS), a)
  <2> DEFINE r == ReplaceAt(m, i, extent(a + BS, m[i].end))
  <2>1. RemoveBlock(m, i, cur, a, BS) = Position(r, cur, a + BS)
    BY <1>5, Zenon DEF RemoveBlock, RemoveFront
  <2>2. TakenAt(m, Position(r, i, a + BS), a, BS)
    <3>1. m[i].start <= a
      BY <1>1
    <3> QED
      BY <1>2, <1>5, <3>1, BlockSize, RemoveFrontOK
  <2>3. Len(r) = Len(m)
    BY <1>2 DEF ReplaceAt, ListOK
  <2>4. (a + BS) % BS = 0 /\ a + BS \in Nat
    BY BlockSize, AlignedNext
  <2> HIDE DEF r
  <2>5. ListOK(r, BS) /\ \A b \in Int : InList(b, r) <=> InList(b, m) /\ b \notin a .. a + BS - 1
    BY <2>2, PositionIs DEF TakenAt
  <2> QED
    BY <1>3, <1>4, <2>1, <2>3, <2>4, <2>5, PositionIs DEF Taken
<1>6. ASSUME m[i].start = a, ~ (a + BS <= m[i].end)
      PROVE  Taken(m, file_block_remove_from_sp(m, cur, a, BS), a)
  <2> DEFINE r == RemoveAt(m, i)
             k == IF i > Len(r) THEN 0 ELSE i
  <2>1. RemoveBlock(m, i, cur, a, BS) = At_start(r, k)
    BY <1>6, Zenon DEF RemoveBlock, RemoveFront
  <2>2. a + BS = m[i].end + 1
    BY <1>1, <1>2, <1>6, BlockSize
  <2>3. TakenAt(m, At_start(r, k), a, BS)
    BY <1>6, <2>2, BlockSize, RemoveWholeOK
  <2>4. ListOK(r, BS)
    BY BlockSize, RemoveOK
  <2>5. k \in 0 .. Len(r)
    BY <2>4, ListFacts
  <2> HIDE DEF r, k
  <2>6. At_start(r, k).offset % BS = 0
    BY <2>4, <2>5, StartStays
  <2> QED
    BY <1>3, <1>4, <2>1, <2>3, <2>6, TakenFrom
<1>7. ASSUME m[i].start # a, a + BS = m[i].end + 1
      PROVE  Taken(m, file_block_remove_from_sp(m, cur, a, BS), a)
  <2>1. RemoveBlock(m, i, cur, a, BS) = RemoveBack(m, i, BS) /\ m[i].start < a
    BY <1>1, <1>2, <1>7 DEF RemoveBlock
  <2>2. PICK p : p = RemoveBack(m, i, BS)
    OBVIOUS
  <2>3. TakenAt(m, p, a, BS)
    BY <1>7, <2>1, <2>2, BlockSize, RemoveBackOK
  <2>4. p.cur = 0 => p.offset % BS = 0
    <3> DEFINE r == [ m EXCEPT ![i].end = @ - BS ]
    <3>1. p = At_start(r, next_entry(m, i))
      BY <2>2 DEF RemoveBack
    <3> HIDE DEF r
    <3>2. p.list = r /\ p.cur = next_entry(m, i)
      BY <3>1 DEF At_start, Position
    <3>3. ListOK(r, BS) /\ p.cur \in 0 .. Len(r)
      BY <2>3, <3>2 DEF TakenAt, PlaceOK
    <3> QED
      BY <3>1, <3>2, <3>3, StartStays
  <2> QED
    BY <1>3, <1>4, <2>1, <2>2, <2>3, <2>4, TakenFrom
<1>8. ASSUME m[i].start # a, a + BS # m[i].end + 1
      PROVE  Taken(m, file_block_remove_from_sp(m, cur, a, BS), a)
  <2>1. RemoveBlock(m, i, cur, a, BS) = RemoveMiddle(m, i, a, BS)
    BY <1>8, Zenon DEF RemoveBlock
  <2>2. m[i].start < a /\ a + BS <= m[i].end
    BY <1>1, <1>2, <1>8, BlockSize
  <2>3. PICK p : p = RemoveMiddle(m, i, a, BS)
    OBVIOUS
  <2>4. TakenAt(m, p, a, BS)
    BY <2>2, <2>3, BlockSize, RemoveMiddleOK
  <2>5. p.cur # 0
    BY <2>3, PositionIs DEF RemoveMiddle
  <2> QED
    BY <1>3, <1>4, <2>1, <2>3, <2>4, <2>5, TakenFrom
<1> QED
  BY <1>5, <1>6, <1>7, <1>8

\* The written blocks with one more.
LEMMA WriteType ==
    ASSUME NEW w \in Seq(Nat), NEW n \in Int, NEW a \in Nat
    PROVE  WriteAt(w, n, a) \in Seq(Nat)
<1>1. CASE n > Len(w)
  <2>1. WriteAt(w, n, a) = Append(w, a)
    BY <1>1 DEF WriteAt
  <2> QED
    BY <2>1
<1>2. CASE ~ (n > Len(w))
  <2>1. PICK x : x = [ w EXCEPT ![n] = a ]
    OBVIOUS
  <2>2. WriteAt(w, n, a) = x
    BY <1>2, <2>1 DEF WriteAt
  <2>3. w \in [1 .. Len(w) -> Nat] /\ Len(w) \in Nat
    OBVIOUS
  <2>4. x \in [1 .. Len(w) -> Nat]
    BY <2>1, <2>3
  <2> QED
    BY <2>2, <2>3, <2>4
<1> QED
  BY <1>1, <1>2

\* pread, fwrite, file_block_append: the block goes from the list to the file.
LEMMA AppendStays ==
    ASSUME NEW l, NEW f, NEW s \in Searches(l, f)
    PROVE  Append1(s) \in Searches(l, f)
<1>1. /\ s \in SearchRec /\ ListOK(s.list, BS) /\ LocationOK(s.file.location, BS)
      /\ Disjoint(s.list, s.file.location)
      /\ SameBytes(s.list, s.file.location, l, f.location)
      /\ s.cur \in 0 .. Len(s.list) /\ s.offset % BS = 0
      /\ s.file.on = f.on /\ s.file.handle = f.handle
  BY DEF Searches, Partings
<1>2. /\ s.offset \in Nat /\ s.file \in FileRec /\ s.nbr \in Nat
      /\ s.file.written \in Seq(Nat) /\ s.file.size \in Nat
  BY <1>1 DEF SearchRec, FileRec
<1>3. CASE ExtentOf(s.list, s.cur, s.offset, BS) = 0
  <2>1. PICK t : t = [ s EXCEPT !.lost = TRUE ]
    OBVIOUS
  <2>2. t \in SearchRec /\ t.list = s.list /\ t.file = s.file /\ t.cur = s.cur /\ t.offset = s.offset
    BY <1>1, <2>1 DEF SearchRec
  <2>3. Append1(s) = t
    BY <1>3, <2>1 DEF Append1
  <2> QED
    BY <1>1, <2>2, <2>3 DEF Searches, Partings
<1>4. CASE ExtentOf(s.list, s.cur, s.offset, BS) # 0
  <2>1. PICK p : p = file_block_remove_from_sp(s.list, s.cur, s.offset, BS)
    OBVIOUS
  <2>2. Taken(s.list, p, s.offset)
    BY <1>1, <1>2, <1>4, <2>1, RemoveTakes
  <2>3. PICK n : n = file_block_add_to_file(s.file.location, s.offset, BS, 1)
    OBVIOUS
  <2>4. \A b \in s.offset .. s.offset + BS - 1 : ~ InList(b, s.file.location)
    BY <1>1, <2>2 DEF Taken, Disjoint
  <2>5. /\ LocationOK(n, BS)
        /\ \A b \in Int : InList(b, n) <=>
                            InList(b, s.file.location) \/ b \in s.offset .. s.offset + BS - 1
    <3>1. PICK one \in { 0, 1 } : one = 1
      OBVIOUS
    <3>2. PICK loc : loc = s.file.location
      OBVIOUS
    <3>3. PICK a \in Nat : a = s.offset
      BY <1>2
    <3>4. LocationOK(loc, BS) /\ a % BS = 0 /\ n = file_block_add_to_file(loc, a, BS, one)
      BY <1>1, <2>3, <3>1, <3>2, <3>3
    <3>5. \A b \in a .. a + BS - 1 : ~ InList(b, loc)
      BY <2>4, <3>2, <3>3
    <3>6. /\ LocationOK(n, BS)
          /\ \A b \in Int : InList(b, n) <=> InList(b, loc) \/ b \in a .. a + BS - 1
      BY ONLY <3>4, <3>5, BlockSize, AddToFileOK
    <3> QED
      BY <3>2, <3>3, <3>6
  <2>6. PICK w \in Seq(Nat) : w = WriteAt(s.file.written, s.file.size \div BS + 1, s.offset)
    <3>1. s.file.size \div BS + 1 \in Int
      BY <1>2, BlockSize, DivMod
    <3> QED
      BY <1>2, <3>1, WriteType
  <2>7. PICK z \in Nat : z = s.file.size + BS
    BY <1>2, BlockSize
  <2>8. PICK stops \in BOOLEAN : stops = data_check_stops(s.offset)
    BY Zenon DEF data_check_stops
  <2>9. PICK t : t = Append1(s)
    OBVIOUS
  <2>10. t = [ Move(s, p) EXCEPT !.file.location = n, !.file.written = w, !.file.size = z,
                                 !.nbr = @ + 1, !.stop = stops ]
    <3>1. Move(s, p).file = s.file
      BY <1>1 DEF Move, SearchRec
    <3> QED
      BY <1>4, <2>1, <2>3, <2>6, <2>7, <2>8, <2>9, <3>1, Zenon DEF Append1
  <2>11. PICK g : g = [ s.file EXCEPT !.location = n, !.written = w, !.size = z ]
    OBVIOUS
  <2>12. /\ g \in FileRec /\ g.location = n /\ g.on = s.file.on /\ g.handle = s.file.handle
    BY <1>2, <2>5, <2>11 DEF FileRec, LocationOK
  <2>13. t = [ list |-> p.list, cur |-> p.cur, offset |-> p.offset, file |-> g,
               nbr |-> s.nbr + 1, stop |-> stops, lost |-> s.lost ]
    BY <1>1, <1>2, <2>10, <2>11 DEF Move, SearchRec, FileRec
  <2>14. t \in SearchRec
    BY <1>1, <1>2, <2>2, <2>12, <2>13 DEF SearchRec, Taken, ListOK
  <2>15. t.list = p.list /\ t.cur = p.cur /\ t.offset = p.offset /\ t.file = g
    BY <2>13
  <2>16. Disjoint(p.list, n) /\ SameBytes(p.list, n, l, f.location)
    BY <1>1, <1>2, <2>2, <2>5, BlockSize DEF Taken, Disjoint, SameBytes
  <2> QED
    BY <1>1, <2>2, <2>5, <2>9, <2>12, <2>14, <2>15, <2>16 DEF Searches, Partings, Taken
<1> QED
  BY <1>3, <1>4
-----------------------------------------------------------------------------
(* The answers of a format *)

\* The number of right blocks is one of those there are, and they are right.
LEMMA RightBlocksIs ==
    ASSUME NEW w \in Seq(Nat)
    PROVE  /\ RightBlocks(w) \in 0 .. Len(w)
           /\ \A i \in 1 .. RightBlocks(w) :
                disk[w[i]] = [ file |-> disk[w[1]].file, k |-> i - 1 ]
<1> DEFINE right == { n \in 0 .. Len(w) :
                        \A i \in 1 .. n : disk[w[i]] = [ file |-> disk[w[1]].file, k |-> i - 1 ] }
<1>1. PICK L \in Nat : L = Len(w)
  OBVIOUS
<1>2. 0 \in right
  <2>1. 1 .. 0 = {}
    OBVIOUS
  <2> QED
    BY <1>1, <2>1
<1>3. RightBlocks(w) = CHOOSE n \in right : \A m \in right : m <= n
  BY Zenon DEF RightBlocks
<1>4. right \subseteq 0 .. L
  BY <1>1
<1> HIDE DEF right
<1> DEFINE below == { L - m : m \in right }
<1>5. below \in SUBSET Nat /\ below # {}
  <2>1. \A m \in right : L - m \in Nat
    BY <1>1, <1>4
  <2>2. below \subseteq Nat
    BY <2>1
  <2>3. L - 0 \in below
    BY <1>2
  <2> QED
    BY <2>2, <2>3
<1>6. PICK b \in below : \A c \in below : b <= c
  <2> HIDE DEF below
  <2> QED
    BY <1>5, NatMin
<1>7. PICK n \in right : b = L - n
  OBVIOUS
<1>8. \A m \in right : m <= n
  <2> TAKE m \in right
  <2>1. L - m \in below
    OBVIOUS
  <2>2. L - n <= L - m
    BY <1>6, <1>7, <2>1
  <2> QED
    BY <1>4, <2>2
<1>9. RightBlocks(w) \in right
  <2>1. PICK r : r = CHOOSE x \in right : \A m \in right : m <= x
    OBVIOUS
  <2>2. r \in right
    BY <1>8, <2>1
  <2> QED
    BY <1>3, <2>1, <2>2
<1>10. \A i \in 1 .. RightBlocks(w) : disk[w[i]] = [ file |-> disk[w[1]].file, k |-> i - 1 ]
  BY <1>9 DEF right
<1> QED
  BY <1>1, <1>4, <1>9, <1>10

\* A file with other answers of its format.
SameFile(c, f) ==
    /\ c \in FileRec
    /\ c.on = f.on /\ c.handle = f.handle
    /\ c.location = f.location /\ c.written = f.written

\* A file whose sizes and offsets change keeps its blocks and what was written,
LEMMA FileWith ==
    ASSUME NEW f \in FileRec, NEW z \in Nat, NEW e \in Nat, NEW k \in Nat, NEW x \in Nat
    PROVE  SameFile([ f EXCEPT !.size = z, !.offset_error = e, !.offset_ok = k, !.extra = x ], f)
<1>1. PICK c : c = [ f EXCEPT !.size = z, !.offset_error = e, !.offset_ok = k, !.extra = x ]
  OBVIOUS
<1>2. c = [ on |-> f.on, handle |-> f.handle, size |-> z, location |-> f.location,
            written |-> f.written, offset_error |-> e, offset_ok |-> k, extra |-> x ]
  BY <1>1 DEF FileRec
<1>3. SameFile(c, f)
  BY <1>2 DEF FileRec, SameFile
<1> QED
  BY <1>1, <1>3

\* and so does one whose size and error are set anew.
LEMMA FileWithSize ==
    ASSUME NEW f \in FileRec, NEW z \in Nat, NEW e \in Nat
    PROVE  SameFile([ f EXCEPT !.size = z, !.offset_error = e ], f)
<1>1. PICK c : c = [ f EXCEPT !.size = z, !.offset_error = e ]
  OBVIOUS
<1>2. c = [ on |-> f.on, handle |-> f.handle, size |-> z, location |-> f.location,
            written |-> f.written, offset_error |-> e, offset_ok |-> f.offset_ok, extra |-> f.extra ]
  BY <1>1 DEF FileRec
<1>3. SameFile(c, f)
  BY <1>2 DEF FileRec, SameFile
<1> QED
  BY <1>1, <1>3

\* The format says of a file what it says of its blocks; it closes nothing.
LEMMA FileCheckIs ==
    ASSUME format \in Formats, NEW f \in FileRec, NEW c, c = file_check(f)
    PROVE  SameFile(c, f) /\ \E r \in 0 .. Len(f.written) : c.size = r * BS
<1> DEFINE right == RightBlocks(f.written)
           L     == Len(f.written)
           name  == disk[f.written[1]].file
           seen  == IF right + format.late < L THEN right + format.late
                    ELSE IF right < L THEN L - 1 ELSE right
           there == { q \in seen + 2 .. L : disk[f.written[q]] = [ file |-> name, k |-> seen ] }
           x     == IF format.marker /\ there # {}
                      THEN ((CHOOSE q \in there : \A y \in there : q <= y) - 1 - seen) * BS
                    ELSE 0
<1>1. c = IF right = 0 \/ name = "-" THEN [ f EXCEPT !.size = 0, !.offset_error = 0 ]
          ELSE IF right = Length(name)
            THEN [ f EXCEPT !.size = right * BS, !.offset_error = 0 ]
          ELSE IF ~ format.locates THEN [ f EXCEPT !.size = 0, !.offset_error = 0 ]
          ELSE [ f EXCEPT !.size = 0, !.offset_error = seen * BS + 1,
                          !.offset_ok = (right - 1) * BS + 1, !.extra = x ]
  BY Zenon DEF file_check
<1>2. L \in Nat
  BY DEF FileRec
<1>3. right \in 0 .. L
  BY RightBlocksIs DEF FileRec
<1>4. format.late \in Nat
  BY BruteAssumption
<1> HIDE DEF right, L, name
<1>5. seen \in Nat
  BY <1>2, <1>3, <1>4
<1> HIDE DEF seen
<1>8. x \in Nat
  <2>1. CASE there # {}
    <3>1. there \in SUBSET Nat /\ \A q \in there : q >= seen + 2
      <4>1. seen + 2 .. L \subseteq Nat /\ \A q \in seen + 2 .. L : q >= seen + 2
        BY <1>2, <1>5
      <4>2. there \subseteq seen + 2 .. L
        OBVIOUS
      <4> QED
        BY <4>1, <4>2
    <3>2. PICK q : q = CHOOSE z \in there : \A y \in there : z <= y
      OBVIOUS
    <3>3. x = IF format.marker THEN (q - 1 - seen) * BS ELSE 0
      BY <2>1, <3>2
    <3> HIDE DEF there, x
    <3>4. PICK m \in there : \A y \in there : m <= y
      BY <2>1, <3>1, NatMin
    <3>5. q \in there
      BY <3>2, <3>4
    <3>6. q - 1 - seen \in Nat
      BY <1>5, <3>1, <3>5
    <3>7. (q - 1 - seen) * BS \in Nat
      BY <3>6, BlockSize
    <3> QED
      BY <3>3, <3>7
  <2>2. CASE there = {}
    BY <2>2
  <2> QED
    BY <2>1, <2>2
<1> HIDE DEF there, x
<1>9. /\ right * BS \in Nat /\ seen * BS + 1 \in Nat
      /\ right # 0 => (right - 1) * BS + 1 \in Nat
  BY <1>2, <1>3, <1>5, BlockSize
<1>10. PICK z \in Nat : z = x
  BY <1>8
<1>11. PICK k \in Nat : right # 0 => k = (right - 1) * BS + 1
  BY <1>9
<1>12. PICK e \in Nat : e = seen * BS + 1
  BY <1>9
<1>13. PICK s \in Nat : s = right * BS
  BY <1>9
<1>14. \/ c = [ f EXCEPT !.size = 0, !.offset_error = 0 ]
       \/ c = [ f EXCEPT !.size = s, !.offset_error = 0 ]
       \/ c = [ f EXCEPT !.size = 0, !.offset_error = e, !.offset_ok = k, !.extra = z ]
  BY <1>1, <1>10, <1>11, <1>12, <1>13, Zenon
<1>15. 0 \in Nat
  OBVIOUS
<1>16. SameFile([ f EXCEPT !.size = 0, !.offset_error = 0 ], f)
  BY <1>15, FileWithSize
<1>17. SameFile([ f EXCEPT !.size = s, !.offset_error = 0 ], f)
  BY <1>15, FileWithSize
<1>18. SameFile([ f EXCEPT !.size = 0, !.offset_error = e, !.offset_ok = k, !.extra = z ], f)
  BY <1>15, FileWith
<1>19. SameFile(c, f)
  BY <1>14, <1>16, <1>17, <1>18, Zenon
<1>20. c.size = 0 \/ c.size = s
  BY <1>14 DEF FileRec
<1>21. \E r \in 0 .. L : c.size = r * BS
  <2>1. 0 = 0 * BS /\ 0 \in 0 .. L
    BY <1>2, BlockSize
  <2> QED
    BY <1>3, <1>13, <1>20, <2>1
<1> QED
  BY <1>19, <1>21 DEF L

-----------------------------------------------------------------------------
(* Cutting a file *)

\* file_block_truncate_and_move gives blocks of the file back and leaves the
\* position in the list.
LEMMA TruncateMoves ==
    ASSUME NEW l, NEW f, NEW s \in Partings(l, f), NEW size \in Nat
    PROVE  file_block_truncate_and_move(s, size) \in Searches(l, f)
<1>1. /\ s \in SearchRec /\ ListOK(s.list, BS) /\ LocationOK(s.file.location, BS)
      /\ Disjoint(s.list, s.file.location)
      /\ SameBytes(s.list, s.file.location, l, f.location)
      /\ s.offset % BS = 0
      /\ s.file.on = f.on /\ s.file.handle = f.handle
  BY DEF Partings
<1>2. s.offset \in Nat /\ s.file \in FileRec
  BY <1>1 DEF SearchRec
<1> DEFINE t    == file_block_truncate(s.list, s.file.location, size, BS)
           last == IF t.loc = << >> THEN 0 ELSE Last(t.loc).end
<1>3. t = file_block_truncate(s.list, s.file.location, size, BS)
  OBVIOUS
<1>a. PICK r : r = file_block_truncate_and_move(s, size)
  OBVIOUS
<1>b. PICK found : found = SelectInSeq(t.list, LAMBDA x : x.start > last)
  OBVIOUS
<1>c. r = [ s EXCEPT !.list = t.list, !.cur = found,
                     !.offset = IF found = 0 THEN @ ELSE t.list[found].start,
                     !.file.location = t.loc, !.file.size = size,
                     !.file.offset_ok = IF @ > size THEN size ELSE @,
                     !.file.offset_error = IF @ > size THEN 0 ELSE @ ]
  BY <1>a, <1>b, Zenon DEF file_block_truncate_and_move
<1> HIDE DEF t
<1>4. /\ t \in Progress
      /\ ListOK(t.list, BS) /\ LocationOK(t.loc, BS)
      /\ \A a \in Int : InList(a, t.loc) => InList(a, s.file.location)
      /\ \A a \in Int : InList(a, t.list) <=>
                          InList(a, s.list) \/ (InList(a, s.file.location) /\ ~ InList(a, t.loc))
  <2>1. PICK m : m = s.list
    OBVIOUS
  <2>2. PICK loc : loc = s.file.location
    OBVIOUS
  <2>3. /\ ListOK(m, BS) /\ LocationOK(loc, BS) /\ t = file_block_truncate(m, loc, size, BS)
        /\ \A a \in Int : ~ (InList(a, m) /\ InList(a, loc))
    BY <1>1, <1>3, <2>1, <2>2 DEF Disjoint
  <2>4. /\ t \in Progress
        /\ ListOK(t.list, BS) /\ LocationOK(t.loc, BS)
        /\ \A a \in Int : InList(a, t.loc) => InList(a, loc)
        /\ \A a \in Int : InList(a, t.list) <=> InList(a, m) \/ (InList(a, loc) /\ ~ InList(a, t.loc))
    BY <2>3, BlockSize, TruncateParts
  <2> QED
    BY <2>1, <2>2, <2>4
<1>5. Disjoint(t.list, t.loc) /\ SameBytes(t.list, t.loc, l, f.location)
  BY <1>1, <1>4 DEF Disjoint, SameBytes
<1> DEFINE I    == { j \in 1 .. Len(t.list) : t.list[j].start > last }
           next == IF I # {} THEN Min(I) ELSE 0
<1>6. next \in 0 .. Len(t.list)
  <2>1. I \in SUBSET (1 .. Len(t.list)) /\ Len(t.list) \in Nat
    BY <1>4 DEF ListOK
  <2> HIDE DEF I
  <2>2. \E i \in 0 .. Len(t.list) : i = next
    BY <2>1, MinIndex, Zenon
  <2> QED
    BY <2>2, Zenon
<1>7. SelectInSeq(t.list, LAMBDA x : x.start > last) = next
  BY Zenon DEF SelectInSeq
<1> DEFINE place == IF next = 0 THEN s.offset ELSE t.list[next].start
           k     == IF s.file.offset_ok > size THEN size ELSE s.file.offset_ok
           e     == IF s.file.offset_error > size THEN 0 ELSE s.file.offset_error
<1>8. place \in Nat /\ place % BS = 0
  <2>1. CASE next = 0
    BY <1>1, <1>2, <2>1
  <2>2. CASE next # 0
    <3>1. next \in 1 .. Len(t.list) /\ place = t.list[next].start
      BY <1>6, <2>2
    <3> HIDE DEF next, place
    <3>2. t.list[next].start \in Nat /\ IsBlocks(t.list[next], BS)
      BY <1>4, <3>1, ListFacts
    <3> QED
      BY <3>1, <3>2 DEF IsBlocks
  <2> QED
    BY <2>1, <2>2
<1>9. k \in Nat /\ e \in Nat
  BY <1>2 DEF FileRec
<1>11. r = [ s EXCEPT !.list = t.list, !.cur = next, !.offset = place,
                      !.file.location = t.loc, !.file.size = size,
                      !.file.offset_ok = k, !.file.offset_error = e ]
  <2>1. found = next
    BY <1>7, <1>b, Zenon
  <2> HIDE DEF next, last
  <2> QED
    BY <1>1, <1>2, <1>c, <2>1 DEF SearchRec, FileRec
<1> HIDE DEF I, next, last, place, k, e
<1>12. PICK g : g = [ s.file EXCEPT !.location = t.loc, !.size = size, !.offset_ok = k, !.offset_error = e ]
  OBVIOUS
<1>13. t.list \in Seq(Extent) /\ t.loc \in Seq(Element) /\ next \in Nat
  BY <1>4, <1>6 DEF Progress, ListOK
<1>14. g \in FileRec /\ g.location = t.loc /\ g.on = f.on /\ g.handle = f.handle
  <2>1. g = [ on |-> s.file.on, handle |-> s.file.handle, size |-> size, location |-> t.loc,
              written |-> s.file.written, offset_error |-> e, offset_ok |-> k,
              extra |-> s.file.extra ]
    BY <1>2, <1>12 DEF FileRec
  <2> QED
    BY <1>1, <1>2, <1>9, <1>13, <2>1 DEF FileRec
<1>15. r = [ list |-> t.list, cur |-> next, offset |-> place, file |-> g,
             nbr |-> s.nbr, stop |-> s.stop, lost |-> s.lost ]
  BY <1>1, <1>2, <1>11, <1>12 DEF SearchRec, FileRec
<1>16. r \in SearchRec
  BY <1>1, <1>8, <1>13, <1>14, <1>15 DEF SearchRec
<1> QED
  BY <1>4, <1>5, <1>6, <1>8, <1>a, <1>14, <1>15, <1>16 DEF Searches, Partings
-----------------------------------------------------------------------------
(* Steps that are repeated *)

\* The guarded step of the blocks between a cut and an error.
LEMMA AppendOrLost ==
    ASSUME NEW l, NEW f, NEW s \in Searches(l, f)
    PROVE  (IF s.lost THEN s ELSE Append1(s)) \in Searches(l, f)
  BY AppendStays

\* One turn of the loop of photorec_bf_pad.
LEMMA PadBlockStays ==
    ASSUME NEW l, NEW f, NEW s \in Searches(l, f), NEW limit
    PROVE  PadBlock(s, limit) \in Searches(l, f)
<1>1. PadBlock(s, limit) \in { s, Append1(s), NextSector(s) }
  BY Zenon DEF PadBlock
<1> QED
  BY <1>1, AppendStays, NextSectorStays

\* Blocks are passed over.
LEMMA SectorsStay ==
    ASSUME NEW l, NEW f, NEW s \in Searches(l, f), NEW n \in Int
    PROVE  Times(n, NextSector, s) \in Searches(l, f)
<1> DEFINE X    == Searches(l, f)
           F    == [ t \in X |-> NextSector(t) ]
           ids  == [ j \in 1 .. n |-> j ]
           Eq(g) == g = [ w \in SUBSET (DOMAIN ids) |->
                           IF w = {} THEN s ELSE NextSector(g[w \ { Max(w) }]) ]
           c    == CHOOSE g : Eq(g)
<1>1. PICK m \in Nat : 1 .. n = 1 .. m
  BY Interval
<1>2. Times(n, NextSector, s) = c[DOMAIN ids]
  BY DEF Times, FoldLeft, MapThenFoldSet
<1>3. DOMAIN ids = 1 .. m
  BY <1>1
<1> HIDE DEF ids
<1>4. \A t \in X : F[t] = NextSector(t)
  OBVIOUS
<1>5. F \in [X -> X]
  BY NextSectorStays
<1>a. s \in X
  OBVIOUS
<1> HIDE DEF X, F
<1>6. PICK g \in [SUBSET (1 .. m) -> X] : IterationEquation(g, m, s, F)
  BY <1>5, <1>a, IterationExists
<1>7. ASSUME NEW w \in SUBSET (1 .. m)
      PROVE  g[w] = IF w = {} THEN s ELSE NextSector(g[w \ { Max(w) }])
  <2>1. g[w] = IF w = {} THEN s ELSE F[g[w \ { Max(w) }]]
    BY <1>6 DEF IterationEquation
  <2>2. g[w \ { Max(w) }] \in X
    BY <1>6
  <2> QED
    BY <1>4, <2>1, <2>2, Zenon
<1>8. Eq(g)
  <2>1. g = [ w \in SUBSET (1 .. m) |-> g[w] ]
    BY <1>6
  <2> QED
    BY <1>3, <1>7, <2>1, Zenon
<1>9. Eq(c)
  BY <1>8
<1> HIDE DEF c
<1>10. \A w \in SUBSET (1 .. m) :
         c[w] = IF w = {} THEN s ELSE NextSector(c[w \ { Max(w) }])
  BY <1>3, <1>9, Zenon
<1>11. c[{}] \in X
  BY <1>10 DEF X
<1>12. ASSUME NEW w \in SUBSET (1 .. m), w # {}, c[w \ { Max(w) }] \in X
       PROVE  c[w] \in X
  <2>1. PICK t \in X : t = c[w \ { Max(w) }]
    BY <1>12
  <2>2. c[w] = NextSector(t)
    BY <1>10, <1>12, <2>1, Zenon
  <2> QED
    BY <1>4, <1>5, <2>1, <2>2
<1>13. c[1 .. m] \in X
  BY <1>11, <1>12, IterationStays
<1> QED
  BY <1>2, <1>3, <1>13, Zenon DEF X

\* Extents are passed over.
LEMMA HeadersStay ==
    ASSUME NEW l, NEW f, NEW s \in Searches(l, f), NEW n \in Int
    PROVE  Times(n, get_next_header, s) \in Searches(l, f)
<1> DEFINE X    == Searches(l, f)
           F    == [ t \in X |-> get_next_header(t) ]
           ids  == [ j \in 1 .. n |-> j ]
           Eq(g) == g = [ w \in SUBSET (DOMAIN ids) |->
                           IF w = {} THEN s ELSE get_next_header(g[w \ { Max(w) }]) ]
           c    == CHOOSE g : Eq(g)
<1>1. PICK m \in Nat : 1 .. n = 1 .. m
  BY Interval
<1>2. Times(n, get_next_header, s) = c[DOMAIN ids]
  BY DEF Times, FoldLeft, MapThenFoldSet
<1>3. DOMAIN ids = 1 .. m
  BY <1>1
<1> HIDE DEF ids
<1>4. \A t \in X : F[t] = get_next_header(t)
  OBVIOUS
<1>5. F \in [X -> X]
  BY NextHeaderStays
<1>a. s \in X
  OBVIOUS
<1> HIDE DEF X, F
<1>6. PICK g \in [SUBSET (1 .. m) -> X] : IterationEquation(g, m, s, F)
  BY <1>5, <1>a, IterationExists
<1>7. ASSUME NEW w \in SUBSET (1 .. m)
      PROVE  g[w] = IF w = {} THEN s ELSE get_next_header(g[w \ { Max(w) }])
  <2>1. g[w] = IF w = {} THEN s ELSE F[g[w \ { Max(w) }]]
    BY <1>6 DEF IterationEquation
  <2>2. g[w \ { Max(w) }] \in X
    BY <1>6
  <2> QED
    BY <1>4, <2>1, <2>2, Zenon
<1>8. Eq(g)
  <2>1. g = [ w \in SUBSET (1 .. m) |-> g[w] ]
    BY <1>6
  <2> QED
    BY <1>3, <1>7, <2>1, Zenon
<1>9. Eq(c)
  BY <1>8
<1> HIDE DEF c
<1>10. \A w \in SUBSET (1 .. m) :
         c[w] = IF w = {} THEN s ELSE get_next_header(c[w \ { Max(w) }])
  BY <1>3, <1>9, Zenon
<1>11. c[{}] \in X
  BY <1>10 DEF X
<1>12. ASSUME NEW w \in SUBSET (1 .. m), w # {}, c[w \ { Max(w) }] \in X
       PROVE  c[w] \in X
  <2>1. PICK t \in X : t = c[w \ { Max(w) }]
    BY <1>12
  <2>2. c[w] = get_next_header(t)
    BY <1>10, <1>12, <2>1, Zenon
  <2> QED
    BY <1>4, <1>5, <2>1, <2>2
<1>13. c[1 .. m] \in X
  BY <1>11, <1>12, IterationStays
<1> QED
  BY <1>2, <1>3, <1>13, Zenon DEF X

\* Blocks are added.
LEMMA AppendsStay ==
    ASSUME NEW l, NEW f, NEW s \in Searches(l, f), NEW n \in Int
    PROVE  Times(n, LAMBDA t : IF t.lost THEN t ELSE Append1(t), s) \in Searches(l, f)
<1> DEFINE X    == Searches(l, f)
           F    == [ t \in X |-> IF t.lost THEN t ELSE Append1(t) ]
           ids  == [ j \in 1 .. n |-> j ]
           Eq(g) == g = [ w \in SUBSET (DOMAIN ids) |->
                           IF w = {} THEN s ELSE IF g[w \ { Max(w) }].lost THEN g[w \ { Max(w) }] ELSE Append1(g[w \ { Max(w) }]) ]
           c    == CHOOSE g : Eq(g)
<1>1. PICK m \in Nat : 1 .. n = 1 .. m
  BY Interval
<1>2. Times(n, LAMBDA t : IF t.lost THEN t ELSE Append1(t), s) = c[DOMAIN ids]
  BY DEF Times, FoldLeft, MapThenFoldSet
<1>3. DOMAIN ids = 1 .. m
  BY <1>1
<1> HIDE DEF ids
<1>4. \A t \in X : F[t] = IF t.lost THEN t ELSE Append1(t)
  OBVIOUS
<1>5. F \in [X -> X]
  BY AppendOrLost
<1>a. s \in X
  OBVIOUS
<1> HIDE DEF X, F
<1>6. PICK g \in [SUBSET (1 .. m) -> X] : IterationEquation(g, m, s, F)
  BY <1>5, <1>a, IterationExists
<1>7. ASSUME NEW w \in SUBSET (1 .. m)
      PROVE  g[w] = IF w = {} THEN s ELSE IF g[w \ { Max(w) }].lost THEN g[w \ { Max(w) }] ELSE Append1(g[w \ { Max(w) }])
  <2>1. g[w] = IF w = {} THEN s ELSE F[g[w \ { Max(w) }]]
    BY <1>6 DEF IterationEquation
  <2>2. g[w \ { Max(w) }] \in X
    BY <1>6
  <2> QED
    BY <1>4, <2>1, <2>2, Zenon
<1>8. Eq(g)
  <2>1. g = [ w \in SUBSET (1 .. m) |-> g[w] ]
    BY <1>6
  <2> QED
    BY <1>3, <1>7, <2>1, Zenon
<1>9. Eq(c)
  BY <1>8
<1> HIDE DEF c
<1>10. \A w \in SUBSET (1 .. m) :
         c[w] = IF w = {} THEN s ELSE IF c[w \ { Max(w) }].lost THEN c[w \ { Max(w) }] ELSE Append1(c[w \ { Max(w) }])
  BY <1>3, <1>9, Zenon
<1>11. c[{}] \in X
  BY <1>10 DEF X
<1>12. ASSUME NEW w \in SUBSET (1 .. m), w # {}, c[w \ { Max(w) }] \in X
       PROVE  c[w] \in X
  <2>1. PICK t \in X : t = c[w \ { Max(w) }]
    BY <1>12
  <2>2. c[w] = IF t.lost THEN t ELSE Append1(t)
    BY <1>10, <1>12, <2>1, Zenon
  <2> QED
    BY <1>4, <1>5, <2>1, <2>2
<1>13. c[1 .. m] \in X
  BY <1>11, <1>12, IterationStays
<1> QED
  BY <1>2, <1>3, <1>13, Zenon DEF X

\* Blocks are added up to the end of the list, a number of turns at most.
Padded(n, s, limit) == Times(n, LAMBDA t : PadBlock(t, limit), s)

\* The turns of that loop.
LEMMA PadBlocksStay ==
    ASSUME NEW l, NEW f, NEW s \in Searches(l, f), NEW n \in Int, NEW limit
    PROVE  Padded(n, s, limit) \in Searches(l, f)
<1> DEFINE X    == Searches(l, f)
           F    == [ t \in X |-> PadBlock(t, limit) ]
           ids  == [ j \in 1 .. n |-> j ]
           Eq(g) == g = [ w \in SUBSET (DOMAIN ids) |->
                           IF w = {} THEN s ELSE PadBlock(g[w \ { Max(w) }], limit) ]
           c    == CHOOSE g : Eq(g)
<1>1. PICK m \in Nat : 1 .. n = 1 .. m
  BY Interval
<1>2. Padded(n, s, limit) = c[DOMAIN ids]
  BY DEF Padded, Times, FoldLeft, MapThenFoldSet
<1>3. DOMAIN ids = 1 .. m
  BY <1>1
<1> HIDE DEF ids
<1>4. \A t \in X : F[t] = PadBlock(t, limit)
  OBVIOUS
<1>5. F \in [X -> X]
  BY PadBlockStays
<1>a. s \in X
  OBVIOUS
<1> HIDE DEF X, F
<1>6. PICK g \in [SUBSET (1 .. m) -> X] : IterationEquation(g, m, s, F)
  BY <1>5, <1>a, IterationExists
<1>7. ASSUME NEW w \in SUBSET (1 .. m)
      PROVE  g[w] = IF w = {} THEN s ELSE PadBlock(g[w \ { Max(w) }], limit)
  <2>1. g[w] = IF w = {} THEN s ELSE F[g[w \ { Max(w) }]]
    BY <1>6 DEF IterationEquation
  <2>2. g[w \ { Max(w) }] \in X
    BY <1>6
  <2> QED
    BY <1>4, <2>1, <2>2, Zenon
<1>8. Eq(g)
  <2>1. g = [ w \in SUBSET (1 .. m) |-> g[w] ]
    BY <1>6
  <2> QED
    BY <1>3, <1>7, <2>1, Zenon
<1>9. Eq(c)
  BY <1>8
<1> HIDE DEF c
<1>10. \A w \in SUBSET (1 .. m) :
         c[w] = IF w = {} THEN s ELSE PadBlock(c[w \ { Max(w) }], limit)
  BY <1>3, <1>9, Zenon
<1>11. c[{}] \in X
  BY <1>10 DEF X
<1>12. ASSUME NEW w \in SUBSET (1 .. m), w # {}, c[w \ { Max(w) }] \in X
       PROVE  c[w] \in X
  <2>1. PICK t \in X : t = c[w \ { Max(w) }]
    BY <1>12
  <2>2. c[w] = PadBlock(t, limit)
    BY <1>10, <1>12, <2>1, Zenon
  <2> QED
    BY <1>4, <1>5, <2>1, <2>2
<1>13. c[1 .. m] \in X
  BY <1>11, <1>12, IterationStays
<1> QED
  BY <1>2, <1>3, <1>13, Zenon DEF X

\* A search with the turns of the outer loop of photorec_bf_pad.
Padding(l, f) == [ s : Searches(l, f), again : BOOLEAN ]

\* One round of photorec_bf_pad keeps the list and the file well formed and their bytes.
LEMMA PadRoundStays ==
    ASSUME format \in Formats, NEW l, NEW f, NEW r \in Padding(l, f)
    PROVE  PadRound(r) \in Padding(l, f)
<1> DEFINE start == [ r.s EXCEPT !.nbr = 0, !.stop = FALSE ]
           limit == r.s.file.offset_error + (IF format.data_check THEN PadBlocks ELSE PadBlind) * BS
           s     == Times(NBlocks + 1, LAMBDA t : PadBlock(t, limit), start)
           g     == file_check([ s.file EXCEPT !.offset_ok = 0 ])
           v     == [ s EXCEPT !.file = [ g EXCEPT !.size = s.file.size ] ]
           again == g.offset_error > r.s.file.offset_error + (s.nbr \div 2) * BS
<1>1. PadRound(r) = IF ~ r.again THEN r ELSE [ s |-> v, again |-> again ]
  BY Zenon DEF PadRound
<1>2. r.s \in Searches(l, f) /\ r.again \in BOOLEAN
  BY DEF Padding
<1>3. start \in Searches(l, f)
  <2>1. r.s \in SearchRec
    BY <1>2 DEF Searches, Partings
  <2>2. PICK b : b = start
    OBVIOUS
  <2>3. b \in SearchRec /\ b.list = r.s.list /\ b.cur = r.s.cur /\ b.offset = r.s.offset /\ b.file = r.s.file
    BY <2>1, <2>2 DEF SearchRec
  <2> HIDE DEF start
  <2> QED
    BY <1>2, <2>2, <2>3 DEF Searches, Partings
<1> HIDE DEF start, limit
<1>4. s \in Searches(l, f)
  <2>1. NBlocks + 1 \in Int
    BY BruteAssumption
  <2>2. s = Padded(NBlocks + 1, start, limit)
    BY Zenon DEF Padded
  <2> HIDE DEF s
  <2> QED
    BY <1>3, <2>1, <2>2, PadBlocksStay
<1> HIDE DEF s
<1>5. s \in SearchRec /\ s.file \in FileRec
  BY <1>4 DEF Searches, Partings, SearchRec
<1>6. PICK h : h = [ s.file EXCEPT !.offset_ok = 0 ]
  OBVIOUS
<1>7. h \in FileRec /\ h.on = s.file.on /\ h.handle = s.file.handle /\ h.location = s.file.location
  BY <1>5, <1>6 DEF FileRec
<1>8. SameFile(g, h)
  BY <1>6, <1>7, FileCheckIs
<1> HIDE DEF g
<1>9. PICK z : z = [ g EXCEPT !.size = s.file.size ]
  OBVIOUS
<1>10. z \in FileRec /\ z.on = g.on /\ z.handle = g.handle /\ z.location = g.location
  BY <1>5, <1>8, <1>9 DEF FileRec, SameFile
<1>11. v \in SearchRec /\ v.list = s.list /\ v.cur = s.cur /\ v.offset = s.offset /\ v.file = z
  BY <1>5, <1>9, <1>10 DEF SearchRec
<1>12. v \in Searches(l, f)
  <2> HIDE DEF v
  <2> QED
    BY <1>4, <1>7, <1>8, <1>10, <1>11 DEF Searches, Partings, SameFile
<1>13. again \in BOOLEAN
  OBVIOUS
<1> HIDE DEF v, again
<1> QED
  BY <1>1, <1>12, <1>13 DEF Padding

\* The turns of it.
LEMMA PadRoundsStay ==
    ASSUME format \in Formats, NEW l, NEW f, NEW s \in Padding(l, f), NEW n \in Int
    PROVE  Times(n, PadRound, s) \in Padding(l, f)
<1> DEFINE X    == Padding(l, f)
           F    == [ t \in X |-> PadRound(t) ]
           ids  == [ j \in 1 .. n |-> j ]
           Eq(g) == g = [ w \in SUBSET (DOMAIN ids) |->
                           IF w = {} THEN s ELSE PadRound(g[w \ { Max(w) }]) ]
           c    == CHOOSE g : Eq(g)
<1>1. PICK m \in Nat : 1 .. n = 1 .. m
  BY Interval
<1>2. Times(n, PadRound, s) = c[DOMAIN ids]
  BY DEF Times, FoldLeft, MapThenFoldSet
<1>3. DOMAIN ids = 1 .. m
  BY <1>1
<1> HIDE DEF ids
<1>4. \A t \in X : F[t] = PadRound(t)
  OBVIOUS
<1>5. F \in [X -> X]
  BY PadRoundStays
<1>a. s \in X
  OBVIOUS
<1> HIDE DEF X, F
<1>6. PICK g \in [SUBSET (1 .. m) -> X] : IterationEquation(g, m, s, F)
  BY <1>5, <1>a, IterationExists
<1>7. ASSUME NEW w \in SUBSET (1 .. m)
      PROVE  g[w] = IF w = {} THEN s ELSE PadRound(g[w \ { Max(w) }])
  <2>1. g[w] = IF w = {} THEN s ELSE F[g[w \ { Max(w) }]]
    BY <1>6 DEF IterationEquation
  <2>2. g[w \ { Max(w) }] \in X
    BY <1>6
  <2> QED
    BY <1>4, <2>1, <2>2, Zenon
<1>8. Eq(g)
  <2>1. g = [ w \in SUBSET (1 .. m) |-> g[w] ]
    BY <1>6
  <2> QED
    BY <1>3, <1>7, <2>1, Zenon
<1>9. Eq(c)
  BY <1>8
<1> HIDE DEF c
<1>10. \A w \in SUBSET (1 .. m) :
         c[w] = IF w = {} THEN s ELSE PadRound(c[w \ { Max(w) }])
  BY <1>3, <1>9, Zenon
<1>11. c[{}] \in X
  BY <1>10 DEF X
<1>12. ASSUME NEW w \in SUBSET (1 .. m), w # {}, c[w \ { Max(w) }] \in X
       PROVE  c[w] \in X
  <2>1. PICK t \in X : t = c[w \ { Max(w) }]
    BY <1>12
  <2>2. c[w] = PadRound(t)
    BY <1>10, <1>12, <2>1, Zenon
  <2> QED
    BY <1>4, <1>5, <2>1, <2>2
<1>13. c[1 .. m] \in X
  BY <1>11, <1>12, IterationStays
<1> QED
  BY <1>2, <1>3, <1>13, Zenon DEF X

\* photorec_bf_pad moves blocks from the list to the file only.
LEMMA PadStays ==
    ASSUME format \in Formats, NEW l, NEW f, NEW s \in Searches(l, f)
    PROVE  photorec_bf_pad(s) \in Searches(l, f)
<1>1. PICK r : r = [ s |-> s, again |-> TRUE ]
  OBVIOUS
<1>2. r \in Padding(l, f)
  BY <1>1 DEF Padding
<1>3. NBlocks + 1 \in Int
  BY BruteAssumption
<1>4. Times(NBlocks + 1, PadRound, r) \in Padding(l, f)
  BY <1>2, <1>3, PadRoundsStay
<1>5. photorec_bf_pad(s) = Times(NBlocks + 1, PadRound, r).s
  BY <1>1, Zenon DEF photorec_bf_pad
<1> QED
  BY <1>4, <1>5 DEF Padding
-----------------------------------------------------------------------------
(* The bytes of the disk *)

KeptRec == [ location : Seq(Element), written : Seq(Nat) ]

Destinations ==
    [ kept : SUBSET KeptRec, file_nbr : Nat, allocation_end : Nat, before : Nat, full : BOOLEAN ]

InKept(a, K) == \E k \in K : InList(a, k.location)

\* The list l, the location of the file in progress and the files kept have
\* the bytes of m between them, each in one place.
Whole(l, loc, K, m) ==
    /\ ListOK(l, BS) /\ LocationOK(loc, BS) /\ Disjoint(l, loc)
    /\ \A k \in K : LocationOK(k.location, BS) /\ Disjoint(l, k.location) /\ Disjoint(loc, k.location)
    /\ \A j, k \in K : j # k => Disjoint(j.location, k.location)
    /\ \A a \in Int : InList(a, l) \/ InList(a, loc) \/ InKept(a, K) <=> InList(a, m)

\* Blocks that move between the list and the location stay accounted for.
LEMMA WholeMoved ==
    ASSUME NEW l, NEW loc, NEW K, NEW m, Whole(l, loc, K, m), NEW l2, NEW loc2,
           ListOK(l2, BS), LocationOK(loc2, BS), Disjoint(l2, loc2), SameBytes(l2, loc2, l, loc)
    PROVE  Whole(l2, loc2, K, m)
<1>1. \A k \in K : Disjoint(l2, k.location) /\ Disjoint(loc2, k.location)
  BY DEF Whole, Disjoint, SameBytes
<1>2. \A a \in Int : InList(a, l2) \/ InList(a, loc2) \/ InKept(a, K) <=> InList(a, m)
  BY DEF Whole, SameBytes
<1> QED
  BY <1>1, <1>2 DEF Whole

\* An empty location.
LEMMA EmptyLocation == LocationOK(<< >>, BS) /\ \A a \in Int : ~ InList(a, << >>)
<1>1. << >> \in Seq(Element) /\ Len(<< >>) = 0
  OBVIOUS
<1> QED
  BY <1>1 DEF LocationOK, Apart, WholeBlocks, InList

\* A kept file has the blocks that are not given back.
LEMMA WholeKept ==
    ASSUME NEW l, NEW loc, NEW K, NEW m, Whole(l, loc, K, m), NEW size \in Nat, NEW w \in Seq(Nat),
           NEW t, t = file_block_truncate(l, loc, size, BS)
    PROVE  /\ t \in Progress /\ LocationOK(t.loc, BS)
           /\ Whole(t.list, << >>,
                    IF t.loc = << >> THEN K ELSE K \cup { [ location |-> t.loc, written |-> w ] }, m)
<1>1. /\ ListOK(l, BS) /\ LocationOK(loc, BS) /\ \A a \in Int : ~ (InList(a, l) /\ InList(a, loc))
  BY DEF Whole, Disjoint
<1>2. /\ t \in Progress /\ ListOK(t.list, BS) /\ LocationOK(t.loc, BS)
      /\ \A a \in Int : InList(a, t.loc) => InList(a, loc)
      /\ \A a \in Int : InList(a, t.list) <=> InList(a, l) \/ (InList(a, loc) /\ ~ InList(a, t.loc))
  BY ONLY <1>1, BlockSize, TruncateParts, size \in Nat, t = file_block_truncate(l, loc, size, BS)
<1>3. Whole(t.list, t.loc, K, m)
  <2>1. Disjoint(t.list, t.loc) /\ SameBytes(t.list, t.loc, l, loc)
    BY <1>1, <1>2 DEF Disjoint, SameBytes
  <2> QED
    BY <1>2, <2>1, WholeMoved
<1>4. CASE t.loc = << >>
  BY <1>2, <1>3, <1>4
<1>5. CASE t.loc # << >>
  <2>1. PICK g : g = [ location |-> t.loc, written |-> w ]
    OBVIOUS
  <2>2. PICK J : J = K \cup { g }
    OBVIOUS
  <2>3. g.location = t.loc
    BY <2>1
  <2>4. \A k \in J : /\ LocationOK(k.location, BS) /\ Disjoint(t.list, k.location)
                     /\ Disjoint(<< >>, k.location)
    BY <1>3, <2>2, <2>3, EmptyLocation DEF Whole, Disjoint
  <2>5. \A j, k \in J : j # k => Disjoint(j.location, k.location)
    BY <1>3, <2>2, <2>3 DEF Whole, Disjoint
  <2>6. \A a \in Int : InKept(a, J) <=> InList(a, t.loc) \/ InKept(a, K)
    BY <2>2, <2>3 DEF InKept
  <2>7. \A a \in Int : InList(a, t.list) \/ InList(a, << >>) \/ InKept(a, J) <=> InList(a, m)
    BY <1>3, <2>6, EmptyLocation DEF Whole
  <2>8. Whole(t.list, << >>, J, m)
    BY <1>2, <2>4, <2>5, <2>7, EmptyLocation DEF Whole, Disjoint
  <2> QED
    BY <1>2, <1>5, <2>1, <2>2, <2>8
<1> QED
  BY <1>4, <1>5

\* A rejected file gives back all.
LEMMA WholeRejected ==
    ASSUME NEW l, NEW loc, NEW K, NEW m, Whole(l, loc, K, m)
    PROVE  Whole(file_block_truncate_zero(l, loc), << >>, K, m)
<1>1. /\ ListOK(l, BS) /\ LocationOK(loc, BS) /\ \A a \in Int : ~ (InList(a, l) /\ InList(a, loc))
  BY DEF Whole, Disjoint
<1>2. PICK t : t = file_block_truncate_zero(l, loc)
  OBVIOUS
<1>3. /\ ListOK(t, BS)
      /\ \A a \in Int : InList(a, t) <=> InList(a, l) \/ InList(a, loc)
  BY ONLY <1>1, <1>2, BlockSize, TruncateZeroOK
<1>4. Disjoint(t, << >>) /\ SameBytes(t, << >>, l, loc)
  BY <1>3, EmptyLocation DEF Disjoint, SameBytes
<1> QED
  BY <1>2, <1>3, <1>4, EmptyLocation, WholeMoved
-----------------------------------------------------------------------------
(* The end of a file *)

\* The division of whole blocks.
LEMMA BlocksDivided ==
    ASSUME NEW r \in Nat
    PROVE  (r * BS) \div BS = r
<1>1. PICK a \in Nat : a = r * BS
  BY BlockSize
<1>2. PICK q \in Int : q = a \div BS
  BY <1>1, BlockSize, DivMod
<1>3. a % BS = 0
  BY <1>1, BlockSize, AlignedIs
<1>4. a = BS * q
  BY <1>2, <1>3, BlockSize, DivMod
<1>5. BS * q = r * BS
  BY <1>1, <1>4
<1>6. CASE q < r
  <2>1. BS * (q + 1) <= BS * r
    BY <1>6, BlockSize
  <2> QED
    BY <1>5, <2>1, BlockSize
<1>7. CASE r < q
  <2>1. BS * (r + 1) <= BS * q
    BY <1>7, BlockSize
  <2> QED
    BY <1>5, <2>1, BlockSize
<1> QED
  BY <1>1, <1>2, <1>6, <1>7

\* A file that is closed has the blocks the format wants.
LEMMA FinishAuxIs ==
    ASSUME format \in Formats, NEW f \in FileRec, NEW paranoid, NEW c, c = file_finish_aux(f, paranoid)
    PROVE  /\ c \in FileRec
           /\ c.on = f.on /\ c.location = f.location
           /\ c.handle => f.handle
<1>1. PICK g : g = file_check(f)
  OBVIOUS
<1>2. SameFile(g, f) /\ \E r \in 0 .. Len(f.written) : g.size = r * BS
  BY <1>1, FileCheckIs
<1>3. c = IF g.size = 0 /\ paranoid = 2 THEN g
          ELSE IF g.size = 0 THEN [ g EXCEPT !.handle = FALSE, !.written = << >> ]
          ELSE [ g EXCEPT !.handle = FALSE, !.written = SubSeq(@, 1, g.size \div BS) ]
  BY <1>1, Zenon DEF file_finish_aux
<1>4. g \in FileRec /\ g.written \in Seq(Nat)
  BY <1>2 DEF SameFile, FileRec
<1>5. SubSeq(g.written, 1, g.size \div BS) \in Seq(Nat)
  <2>1. PICK r \in 0 .. Len(f.written) : g.size = r * BS
    BY <1>2
  <2>2. Len(f.written) \in Nat
    BY DEF FileRec
  <2>3. g.size \div BS = r
    BY <2>1, <2>2, BlocksDivided
  <2>4. r \in 0 .. Len(g.written)
    BY <1>2, <2>1 DEF SameFile
  <2> QED
    BY <1>4, <2>3, <2>4
<1>6. ASSUME NEW w \in Seq(Nat), NEW h, h = [ g EXCEPT !.handle = FALSE, !.written = w ]
      PROVE  h \in FileRec /\ h.on = g.on /\ h.location = g.location /\ h.handle = FALSE
  <2>1. h = [ on |-> g.on, handle |-> FALSE, size |-> g.size, location |-> g.location,
              written |-> w, offset_error |-> g.offset_error, offset_ok |-> g.offset_ok,
              extra |-> g.extra ]
    BY <1>4, <1>6 DEF FileRec
  <2> QED
    BY <1>4, <2>1 DEF FileRec
<1>7. CASE g.size = 0 /\ paranoid = 2
  BY <1>2, <1>3, <1>4, <1>7 DEF SameFile
<1>8. CASE g.size = 0 /\ paranoid # 2
  <2>1. << >> \in Seq(Nat)
    OBVIOUS
  <2>2. c = [ g EXCEPT !.handle = FALSE, !.written = << >> ]
    BY <1>3, <1>8
  <2>3. c \in FileRec /\ c.on = g.on /\ c.location = g.location /\ c.handle = FALSE
    BY <1>6, <2>1, <2>2
  <2> QED
    BY <1>2, <2>3 DEF SameFile
<1>9. CASE g.size # 0
  <2>1. PICK w \in Seq(Nat) : w = SubSeq(g.written, 1, g.size \div BS)
    BY <1>5
  <2>2. c = [ g EXCEPT !.handle = FALSE, !.written = w ]
    BY <1>3, <1>4, <1>9, <2>1 DEF FileRec
  <2>3. c \in FileRec /\ c.on = g.on /\ c.location = g.location /\ c.handle = FALSE
    BY <1>6, <2>2
  <2> QED
    BY <1>2, <2>3 DEF SameFile
<1> QED
  BY <1>7, <1>8, <1>9

\* The file in progress, the list and the destination make up the disk m; a
\* file with blocks is one that was begun.
Accounted(l, f, d, m) ==
    /\ f \in FileRec /\ d \in Destinations
    /\ Whole(l, f.location, d.kept, m)
    /\ f.location # << >> \/ f.handle => f.on

\* The parts of what ends a file.
LEMMA KeepIs ==
    ASSUME NEW f \in FileRec, NEW closed, NEW d \in Destinations, NEW l, NEW m,
           Whole(l, f.location, d.kept, m), f.on, NEW r, r = Keep(f, closed, d, l)
    PROVE  /\ Accounted(r.list, r.file, r.destination, m)
           /\ r.file.location = << >> /\ DOMAIN r = { "list", "file", "destination" }
<1> DEFINE t == file_block_truncate(l, f.location, f.size, BS)
           g == [ location |-> t.loc, written |-> f.written ]
           J == IF t.loc = << >> THEN d.kept ELSE d.kept \cup { g }
<1>1. f.size \in Nat /\ f.written \in Seq(Nat) /\ d.kept \in SUBSET KeptRec
  BY DEF FileRec, Destinations
<1>2. t \in Progress /\ LocationOK(t.loc, BS) /\ Whole(t.list, << >>, J, m)
  <2>1. PICK loc : loc = f.location
    OBVIOUS
  <2>2. PICK z \in Nat : z = f.size
    BY <1>1
  <2>3. PICK w \in Seq(Nat) : w = f.written
    BY <1>1
  <2>4. PICK u : u = file_block_truncate(l, loc, z, BS)
    OBVIOUS
  <2>5. /\ u \in Progress /\ LocationOK(u.loc, BS)
        /\ Whole(u.list, << >>,
                 IF u.loc = << >> THEN d.kept
                 ELSE d.kept \cup { [ location |-> u.loc, written |-> w ] }, m)
    BY <2>1, <2>4, WholeKept
  <2>6. u = t
    BY <2>1, <2>2, <2>4
  <2> HIDE DEF t
  <2> QED
    BY <2>3, <2>5, <2>6
<1>3. r = [ list |-> t.list, file |-> [ f EXCEPT !.location = << >> ],
            destination |->
              [ d EXCEPT !.kept = IF t.loc = << >> THEN @ ELSE @ \cup { g },
                         !.file_nbr = @ + (IF closed THEN 1 ELSE 0),
                         !.allocation_end = IF t.loc = << >> THEN @ ELSE Last(t.loc).end ] ]
  BY Zenon DEF Keep
<1> HIDE DEF t
<1>4. J \in SUBSET KeptRec
  <2>1. g \in KeptRec
    BY <1>1, <1>2 DEF KeptRec, Progress
  <2> HIDE DEF g
  <2> QED
    BY <1>1, <2>1
<1>5. PICK n \in Nat : n = d.file_nbr + (IF closed THEN 1 ELSE 0)
  BY DEF Destinations
<1>6. PICK e \in Nat : e = IF t.loc = << >> THEN d.allocation_end ELSE Last(t.loc).end
  <2>1. CASE t.loc # << >>
    <3>1. t.loc \in Seq(Element) /\ Len(t.loc) \in 1 .. Len(t.loc)
      BY <1>2, <2>1 DEF LocationOK
    <3>2. Last(t.loc) = t.loc[Len(t.loc)]
      BY DEF Last
    <3>3. t.loc[Len(t.loc)] \in Element
      BY <3>1
    <3> QED
      BY <2>1, <3>2, <3>3 DEF Element
  <2>2. CASE t.loc = << >>
    BY <2>2 DEF Destinations
  <2> QED
    BY <2>1, <2>2
<1>7. PICK h : h = [ f EXCEPT !.location = << >> ]
  OBVIOUS
<1>8. h \in FileRec /\ h.location = << >> /\ h.on
  <2>1. h = [ on |-> f.on, handle |-> f.handle, size |-> f.size, location |-> << >>,
              written |-> f.written, offset_error |-> f.offset_error, offset_ok |-> f.offset_ok,
              extra |-> f.extra ]
    BY <1>7 DEF FileRec
  <2>2. << >> \in Seq(Element)
    OBVIOUS
  <2> QED
    BY <2>1, <2>2 DEF FileRec
<1>9. PICK b : b = [ d EXCEPT !.kept = J, !.file_nbr = n, !.allocation_end = e ]
  OBVIOUS
<1> HIDE DEF g
<1>10. b \in Destinations /\ b.kept = J
  <2> HIDE DEF J
  <2>1. b = [ kept |-> J, file_nbr |-> n, allocation_end |-> e, before |-> d.before, full |-> d.full ]
    BY <1>9 DEF Destinations
  <2> QED
    BY <1>4, <2>1 DEF Destinations
<1>11. r = [ list |-> t.list, file |-> h, destination |-> b ]
  <2>1. b = [ d EXCEPT !.kept = IF t.loc = << >> THEN @ ELSE @ \cup { g },
                       !.file_nbr = @ + (IF closed THEN 1 ELSE 0),
                       !.allocation_end = IF t.loc = << >> THEN @ ELSE Last(t.loc).end ]
    BY <1>5, <1>6, <1>9 DEF Destinations
  <2> QED
    BY <1>3, <1>7, <2>1, Zenon
<1> HIDE DEF J
<1> QED
  BY <1>2, <1>8, <1>10, <1>11 DEF Accounted

\* A rejected file gives all its blocks back to the list.
LEMMA RejectIs ==
    ASSUME NEW f \in FileRec, NEW d \in Destinations, NEW l, NEW m,
           Whole(l, f.location, d.kept, m), NEW r, r = Reject(f, d, l)
    PROVE  /\ Accounted(r.list, r.file, r.destination, m)
           /\ r.file.location = << >> /\ DOMAIN r = { "list", "file", "destination" }
<1>1. r = [ list |-> file_block_truncate_zero(l, f.location), file |-> NoFile, destination |-> d ]
  BY Zenon DEF Reject
<1>2. NoFile \in FileRec /\ NoFile.location = << >> /\ ~ NoFile.handle
  <2>1. << >> \in Seq(Element) /\ << >> \in Seq(Nat)
    OBVIOUS
  <2> QED
    BY <2>1 DEF NoFile, FileRec
<1>3. Whole(file_block_truncate_zero(l, f.location), << >>, d.kept, m)
  BY WholeRejected
<1> HIDE DEF NoFile
<1> QED
  BY <1>1, <1>2, <1>3 DEF Accounted
\* What was closed, if it was open.
LEMMA ClosedIs ==
    ASSUME format \in Formats, NEW f \in FileRec, NEW paranoid, NEW c,
           c = IF f.handle THEN file_finish_aux(f, paranoid) ELSE f
    PROVE  /\ c \in FileRec
           /\ c.on = f.on /\ c.location = f.location
           /\ c.handle => f.handle
<1>1. CASE f.handle
  <2>1. c = file_finish_aux(f, paranoid)
    BY <1>1
  <2> QED
    BY <2>1, FinishAuxIs
<1>2. CASE ~ f.handle
  BY <1>2
<1> QED
  BY <1>1, <1>2

\* file_finish_bf keeps a file, rejects it or leaves it in progress, broken.
LEMMA FinishBfIs ==
    ASSUME format \in Formats, NEW f, NEW d, NEW l, NEW m, Accounted(l, f, d, m),
           NEW r, r = file_finish_bf(f, d, l)
    PROVE  /\ Accounted(r.list, r.file, r.destination, m)
           /\ r.broken \in BOOLEAN
           /\ ~ r.broken => r.file.location = << >>
           /\ r.broken => r.file.on
<1>1. PICK c : c = IF f.handle THEN file_finish_aux(f, 2) ELSE f
  OBVIOUS
<1>2. /\ f \in FileRec /\ d \in Destinations /\ Whole(l, f.location, d.kept, m)
      /\ f.location # << >> \/ f.handle => f.on
  BY DEF Accounted
<1>3. c \in FileRec /\ c.on = f.on /\ c.location = f.location /\ (c.handle => f.handle)
  BY <1>1, <1>2, ClosedIs
<1>4. r = IF ~ f.on THEN [ list |-> l, file |-> f, destination |-> d, broken |-> FALSE ]
          ELSE IF c.size = 0 /\ c.offset_error # 0
            THEN [ list |-> l, file |-> c, destination |-> d, broken |-> TRUE ]
          ELSE IF c.size = 0 THEN Answer(Reject(c, d, l), FALSE)
          ELSE Answer(Keep(c, f.handle, d, l), FALSE)
  BY <1>1, Zenon DEF file_finish_bf
<1>5. CASE ~ f.on
  <2>1. r = [ list |-> l, file |-> f, destination |-> d, broken |-> FALSE ]
    BY <1>4, <1>5
  <2> QED
    BY <1>2, <1>5, <2>1 DEF Accounted
<1>6. CASE f.on /\ c.size = 0 /\ c.offset_error # 0
  <2>1. r = [ list |-> l, file |-> c, destination |-> d, broken |-> TRUE ]
    BY <1>4, <1>6
  <2>2. Whole(l, c.location, d.kept, m) /\ c.on
    BY <1>2, <1>3, <1>6
  <2>3. Accounted(l, c, d, m)
    BY <1>2, <1>3, <2>2 DEF Accounted
  <2> QED
    BY <2>1, <2>2, <2>3
<1>7. CASE f.on /\ c.size = 0 /\ ~ (c.offset_error # 0)
  <2>1. PICK x : x = Reject(c, d, l)
    OBVIOUS
  <2>2. r = Answer(x, FALSE)
    BY <1>4, <1>7, <2>1, Zenon
  <2>3. /\ Accounted(x.list, x.file, x.destination, m)
        /\ x.file.location = << >> /\ DOMAIN x = { "list", "file", "destination" }
    BY <1>2, <1>3, <2>1, RejectIs
  <2> QED
    BY <2>2, <2>3 DEF Answer
<1>8. CASE f.on /\ c.size # 0
  <2>1. PICK x : x = Keep(c, f.handle, d, l)
    OBVIOUS
  <2>2. r = Answer(x, FALSE)
    BY <1>4, <1>8, <2>1, Zenon
  <2>3. /\ Accounted(x.list, x.file, x.destination, m)
        /\ x.file.location = << >> /\ DOMAIN x = { "list", "file", "destination" }
    <3>1. c.on /\ Whole(l, c.location, d.kept, m)
      BY <1>2, <1>3, <1>8
    <3>2. PICK q : q = f.handle
      OBVIOUS
    <3>3. x = Keep(c, q, d, l) /\ c \in FileRec /\ d \in Destinations
      BY <1>2, <1>3, <2>1, <3>2
    <3> QED
      BY ONLY <3>1, <3>3, KeepIs
  <2> QED
    BY <2>2, <2>3 DEF Answer
<1> QED
  BY <1>5, <1>6, <1>7, <1>8

\* file_finish2 leaves none in progress.
LEMMA Finish2Is ==
    ASSUME format \in Formats, NEW f, NEW d, NEW l, NEW m, Accounted(l, f, d, m),
           NEW r, r = file_finish2(f, d, l)
    PROVE  Accounted(r.list, r.file, r.destination, m) /\ r.file.location = << >>
<1>1. PICK c : c = IF f.handle THEN file_finish_aux(f, 1) ELSE f
  OBVIOUS
<1>2. /\ f \in FileRec /\ d \in Destinations /\ Whole(l, f.location, d.kept, m)
      /\ f.location # << >> \/ f.handle => f.on
  BY DEF Accounted
<1>3. c \in FileRec /\ c.on = f.on /\ c.location = f.location /\ (c.handle => f.handle)
  BY <1>1, <1>2, ClosedIs
<1>4. r = IF ~ f.on THEN [ list |-> l, file |-> f, destination |-> d ]
          ELSE IF c.size = 0 THEN Reject(c, d, l)
          ELSE [ Keep(c, f.handle, d, l) EXCEPT !.file = NoFile ]
  BY <1>1, Zenon DEF file_finish2
<1>5. CASE ~ f.on
  <2>1. r = [ list |-> l, file |-> f, destination |-> d ]
    BY <1>4, <1>5
  <2> QED
    BY <1>2, <1>5, <2>1 DEF Accounted
<1>6. CASE f.on /\ c.size = 0
  <2>1. r = Reject(c, d, l)
    BY <1>4, <1>6
  <2> QED
    BY <1>2, <1>3, <2>1, RejectIs
<1>7. CASE f.on /\ c.size # 0
  <2>1. PICK x : x = Keep(c, f.handle, d, l)
    OBVIOUS
  <2>2. r = [ x EXCEPT !.file = NoFile ]
    BY <1>4, <1>7, <2>1, Zenon
  <2>3. /\ Accounted(x.list, x.file, x.destination, m)
        /\ x.file.location = << >> /\ DOMAIN x = { "list", "file", "destination" }
    <3>1. c.on /\ Whole(l, c.location, d.kept, m)
      BY <1>2, <1>3, <1>7
    <3>2. PICK q : q = f.handle
      OBVIOUS
    <3>3. x = Keep(c, q, d, l) /\ c \in FileRec /\ d \in Destinations
      BY <1>2, <1>3, <2>1, <3>2
    <3> QED
      BY ONLY <3>1, <3>3, KeepIs
  <2>4. NoFile \in FileRec /\ NoFile.location = << >> /\ ~ NoFile.handle
    <3>1. << >> \in Seq(Element) /\ << >> \in Seq(Nat)
      OBVIOUS
    <3> QED
      BY <3>1 DEF NoFile, FileRec
  <2>5. r.list = x.list /\ r.file = NoFile /\ r.destination = x.destination
    BY <2>2, <2>3
  <2> QED
    BY <2>3, <2>4, <2>5 DEF Accounted
<1> QED
  BY <1>5, <1>6, <1>7
-----------------------------------------------------------------------------
(* The list the carve leaves *)

\* The list of the blocks before the address a.
ListTo(l, a) == ListOK(l, BS) /\ \A j \in 1 .. Len(l) : l[j].end < a

\* AddBlock makes a list of extents of a list of extents.
LEMMA AddBlockType ==
    ASSUME NEW l \in Seq(Extent), NEW a \in Nat, NEW d
    PROVE  AddBlock(l, a, d) \in Seq(Extent)
<1>1. PICK begins \in BOOLEAN : begins = (d[a].k = 0 /\ d[a].file # "-")
  OBVIOUS
<1>2. PICK e \in Nat : e = a + BS - 1
  BY BlockSize
<1>3. PICK x \in Extent : x = [ extent(a, e) EXCEPT !.file_stat = begins ]
  BY <1>1 DEF extent, Extent
<1>4. AddBlock(l, a, d) = IF d[a].file = "used" THEN l
                          ELSE IF l # << >> /\ ~ begins /\ Last(l).end + 1 = a
                            THEN [ l EXCEPT ![Len(l)].end = e ]
                          ELSE Append(l, x)
  BY <1>1, <1>2, <1>3, Zenon DEF AddBlock
<1>5. l # << >> => [ l EXCEPT ![Len(l)].end = e ] \in Seq(Extent)
  <2> SUFFICES ASSUME l # << >>
               PROVE  [ l EXCEPT ![Len(l)].end = e ] \in Seq(Extent)
    OBVIOUS
  <2>1. Len(l) \in 1 .. Len(l) /\ l[Len(l)] \in Extent
    OBVIOUS
  <2>2. PICK y \in Extent : y = [ l[Len(l)] EXCEPT !.end = e ]
    BY <2>1, WithEnd
  <2>3. [ l EXCEPT ![Len(l)].end = e ] = [ l EXCEPT ![Len(l)] = y ]
    BY <2>2, Zenon
  <2> QED
    BY <2>1, <2>3
<1>6. Append(l, x) \in Seq(Extent)
  OBVIOUS
<1> QED
  BY <1>4, <1>5, <1>6

\* AddBlock adds just the block at a to a list that lies below it.
LEMMA AddBlockOK ==
    ASSUME NEW l, NEW a \in Nat, a % BS = 0, ListTo(l, a), NEW d
    PROVE  ListTo(AddBlock(l, a, d), a + BS)
<1>1. PICK begins \in BOOLEAN : begins = (d[a].k = 0 /\ d[a].file # "-")
  OBVIOUS
<1>2. PICK e \in Nat : e = a + BS - 1
  BY BlockSize
<1>3. PICK x \in Extent : x = [ extent(a, e) EXCEPT !.file_stat = begins ]
  BY <1>1 DEF extent, Extent
<1>4. AddBlock(l, a, d) = IF d[a].file = "used" THEN l
                          ELSE IF l # << >> /\ ~ begins /\ Last(l).end + 1 = a
                            THEN [ l EXCEPT ![Len(l)].end = e ]
                          ELSE Append(l, x)
  BY <1>1, <1>2, <1>3, Zenon DEF AddBlock
<1>5. /\ ListOK(l, BS) /\ Len(l) \in Nat /\ l \in Seq(Extent)
      /\ \A j \in 1 .. Len(l) : l[j].end < a /\ l[j].end \in Nat
  BY ListFacts DEF ListTo
<1>6. (e + 1) % BS = 0
  <2>1. e + 1 = a + BS
    BY <1>2, BlockSize
  <2> QED
    BY <2>1, BlockSize, AlignedNext
<1>7. CASE d[a].file = "used"
  <2>1. \A j \in 1 .. Len(l) : l[j].end < a + BS
    BY <1>5, BlockSize
  <2> QED
    BY <1>4, <1>5, <1>7, <2>1 DEF ListTo
<1>8. CASE d[a].file # "used" /\ l # << >> /\ ~ begins /\ Last(l).end + 1 = a
  <2> DEFINE n == Len(l)
  <2>1. n \in 1 .. n /\ l[n] \in Extent /\ IsBlocks(l[n], BS) /\ l[n].end + 1 = a
    BY <1>5, <1>8, ListFacts DEF Last
  <2>2. PICK y \in Extent : /\ y = [ l[n] EXCEPT !.end = e ]
                            /\ y.start = l[n].start /\ y.end = e
    BY <2>1, WithEnd
  <2>3. [ l EXCEPT ![n].end = e ] = [ l EXCEPT ![n] = y ]
    BY <2>2, Zenon
  <2>4. l[n].start \in Nat /\ l[n].end \in Nat /\ l[n].start <= l[n].end
    BY <2>1, BlockFacts
  <2>5. IsBlocks(y, BS)
    <3>1. y.start <= y.end
      BY <1>2, <2>1, <2>2, <2>4, BlockSize
    <3>2. y.start % BS = 0 /\ (y.end + 1) % BS = 0
      <4>1. l[n].start % BS = 0
        BY <2>1 DEF IsBlocks
      <4> QED
        BY <1>6, <2>2, <4>1, Zenon
    <3> QED
      BY <2>2, <3>1, <3>2, Zenon DEF IsBlocks
  <2>6. Fits(l, n - 1, n + 1, y)
    <3>1. \A k \in 1 .. Len(l) : k <= n - 1 => l[k].end < l[n].start
      BY <1>5, <2>1, ListFacts
    <3> QED
      BY <1>5, <2>2, <3>1 DEF Fits
  <2>7. PICK m : m = [ l EXCEPT ![n] = y ]
    OBVIOUS
  <2>8. ListOK(m, BS) /\ Len(m) = Len(l)
    <3>1. PICK i \in 1 .. Len(l) : i = n
      BY <2>1
    <3>2. ListOK(l, BS) /\ Fits(l, i - 1, i + 1, y) /\ m = [ l EXCEPT ![i] = y ]
      BY <1>5, <2>6, <2>7, <3>1
    <3> QED
      BY ONLY <2>5, <3>2, BlockSize, ReplaceOK
  <2>9. \A j \in 1 .. Len(m) : m[j].end < a + BS
    <3>1. \A j \in 1 .. Len(l) : m[j] = IF j = n THEN y ELSE l[j]
      BY <1>5, <2>7
    <3> TAKE j \in 1 .. Len(m)
    <3>3. CASE j = n
      <4>1. m[j] = y
        BY <2>8, <3>1, <3>3
      <4> QED
        BY <1>2, <2>2, <4>1, BlockSize
    <3>4. CASE j # n
      <4>1. j \in 1 .. Len(l) /\ m[j] = l[j]
        BY <2>8, <3>1, <3>4
      <4>2. l[j].end < a /\ l[j].end \in Nat
        BY <1>5, <4>1
      <4> QED
        BY <4>1, <4>2, BlockSize
    <3> QED
      BY <3>3, <3>4
  <2>10. AddBlock(l, a, d) = m
    BY <1>4, <1>8, <2>3, <2>7, Zenon
  <2> QED
    BY <2>8, <2>9, <2>10 DEF ListTo
<1>9. CASE d[a].file # "used" /\ ~ (l # << >> /\ ~ begins /\ Last(l).end + 1 = a)
  <2>1. AddBlock(l, a, d) = Append(l, x)
    BY <1>4, <1>9, Zenon
  <2>2. x.start = a /\ x.end = e
    BY <1>3 DEF extent
  <2>3. IsBlocks(x, BS)
    BY <1>2, <1>6, <2>2, BlockSize DEF IsBlocks
  <2>4. PICK m : m = Append(l, x)
    OBVIOUS
  <2>5. ListOK(m, BS)
    BY <1>5, <2>2, <2>3, <2>4, BlockSize, AppendOK
  <2>6. Len(m) = Len(l) + 1 /\ \A j \in 1 .. Len(l) + 1 : m[j] = IF j = Len(l) + 1 THEN x ELSE l[j]
    BY <1>5, <2>4
  <2>7. \A j \in 1 .. Len(m) : m[j].end < a + BS
    BY <1>2, <1>5, <2>2, <2>6, BlockSize
  <2> QED
    BY <2>1, <2>4, <2>5, <2>7 DEF ListTo
<1> QED
  BY <1>7, <1>8, <1>9

\* The list is one of whole blocks in order.
LEMMA SpaceIs ==
    ASSUME NEW d
    PROVE  ListOK(SpaceOf(d), BS)
<1> DEFINE X    == Seq(Extent)
           F    == [ p \in (1 .. NBlocks) \X X |-> AddBlock(p[2], (p[1] - 1) * BS, d) ]
           ids  == [ n \in 1 .. NBlocks |-> n ]
           Eq(g) == g = [ w \in SUBSET (DOMAIN ids) |->
                           IF w = {} THEN << >>
                           ELSE AddBlock(g[w \ { Max(w) }], (ids[Max(w)] - 1) * BS, d) ]
           c    == CHOOSE g : Eq(g)
<1>1. NBlocks \in Nat /\ << >> \in X
  BY BruteAssumption
<1>2. SpaceOf(d) = c[DOMAIN ids]
  BY DEF SpaceOf, FoldLeft, MapThenFoldSet
<1>3. DOMAIN ids = 1 .. NBlocks /\ \A n \in 1 .. NBlocks : ids[n] = n
  OBVIOUS
<1> HIDE DEF ids
<1>4. \A n \in 1 .. NBlocks : (n - 1) * BS \in Nat
  BY <1>1, BlockSize
<1>5. \A n \in 1 .. NBlocks : \A t \in X : F[<< n, t >>] = AddBlock(t, (n - 1) * BS, d)
  OBVIOUS
<1>6. F \in [(1 .. NBlocks) \X X -> X]
  BY <1>4, AddBlockType
<1> HIDE DEF X, F
<1>7. PICK g \in [SUBSET (1 .. NBlocks) -> X] : FoldEquation(g, NBlocks, << >>, F)
  BY <1>1, <1>6, FoldExists
<1>8. ASSUME NEW w \in SUBSET (1 .. NBlocks)
      PROVE  g[w] = IF w = {} THEN << >> ELSE AddBlock(g[w \ { Max(w) }], (ids[Max(w)] - 1) * BS, d)
  <2>1. g[w] = IF w = {} THEN << >> ELSE F[<< Max(w), g[w \ { Max(w) }] >>]
    BY <1>7 DEF FoldEquation
  <2>2. CASE w # {}
    <3>1. Max(w) \in 1 .. NBlocks
      BY <1>1, <2>2, MaxProperty
    <3>2. g[w \ { Max(w) }] \in X
      BY <1>7
    <3> QED
      BY <1>3, <1>5, <2>1, <2>2, <3>1, <3>2
  <2> QED
    BY <2>1, <2>2
<1>9. Eq(g)
  <2>1. g = [ w \in SUBSET (1 .. NBlocks) |-> g[w] ]
    BY <1>7
  <2> QED
    BY <1>3, <1>8, <2>1, Zenon
<1>10. Eq(c)
  BY <1>9
<1> HIDE DEF c
<1> DEFINE S == { k \in 0 .. NBlocks : ListTo(c[1 .. k], k * BS) }
<1>11. 0 \in S
  <2>1. 1 .. 0 = {} /\ {} \in SUBSET (DOMAIN ids) /\ 0 \in 0 .. NBlocks
    BY <1>1
  <2>2. c[1 .. 0] = << >>
    BY <1>10, <2>1
  <2>3. ListTo(<< >>, 0 * BS)
    <3>1. << >> \in Seq(Extent) /\ Len(<< >>) = 0
      OBVIOUS
    <3> QED
      BY <3>1 DEF ListTo, ListOK, WellFormed, WholeBlocks
  <2> QED
    BY <2>1, <2>2, <2>3
<1>12. ASSUME NEW k \in 1 .. NBlocks, k - 1 \in S
       PROVE  k \in S
  <2>1. k \in Nat /\ k >= 1 /\ k <= NBlocks
    BY <1>1
  <2>2. Max(1 .. k) = k /\ 1 .. k # {} /\ (1 .. k) \ { k } = 1 .. (k - 1)
    BY <2>1, UpTo
  <2>3. 1 .. k \in SUBSET (DOMAIN ids) /\ k \in 0 .. NBlocks /\ ids[k] = k
    BY <1>1, <1>3, <2>1
  <2>4. c[1 .. k] = AddBlock(c[1 .. (k - 1)], (k - 1) * BS, d)
    <3>1. PICK w \in SUBSET (DOMAIN ids) : w = 1 .. k
      BY <2>3
    <3>2. c[w] = IF w = {} THEN << >>
                 ELSE AddBlock(c[w \ { Max(w) }], (ids[Max(w)] - 1) * BS, d)
      BY <1>10, Zenon
    <3>3. w # {} /\ Max(w) = k /\ ids[Max(w)] = k /\ w \ { Max(w) } = 1 .. (k - 1)
      BY <2>2, <2>3, <3>1
    <3> QED
      BY <3>1, <3>2, <3>3, Zenon
  <2>5. PICK a \in Nat : a = (k - 1) * BS
    BY <1>4
  <2>6. a % BS = 0 /\ a + BS = k * BS
    <3>1. k - 1 \in Int
      BY <2>1
    <3> QED
      BY <2>1, <2>5, <3>1, BlockSize, AlignedIs
  <2>7. ListTo(c[1 .. (k - 1)], a)
    BY <1>12, <2>5
  <2> QED
    BY <2>3, <2>4, <2>5, <2>6, <2>7, AddBlockOK
<1>13. 0 .. NBlocks \subseteq S
  <2> HIDE DEF S
  <2> QED
    BY <1>1, <1>11, <1>12, SetInduction
<1>14. ListTo(c[1 .. NBlocks], NBlocks * BS)
  BY <1>1, <1>13
<1> QED
  BY <1>2, <1>3, <1>14 DEF ListTo
-----------------------------------------------------------------------------
(* The calls *)

\* The number of the block of an address.
LEMMA BlocksBelow ==
    ASSUME NEW a \in Nat
    PROVE  a \div BS \in Int /\ a \div BS >= 0
<1>1. PICK q \in Int : q = a \div BS
  BY BlockSize, DivMod
<1>2. a = BS * q + (a % BS) /\ a % BS \in 0 .. BS - 1
  BY <1>1, BlockSize, DivMod
<1>3. q >= 0
  <2> SUFFICES ASSUME q < 0 PROVE FALSE
    BY <1>1
  <2>1. BS * q <= - BS
    <3>1. q <= - 1
      BY <1>1
    <3> QED
      BY <3>1, BlockSize
  <2> QED
    BY <1>2, <2>1, BlockSize
<1> QED
  BY <1>1, <1>3

Frame == [ kind : { "slow", "fast" }, frag : Nat, err : Nat, at : Nat, n : Nat, i : Nat ]

\* A call of photorec_bf_frag_fast is one of photorec_bf_frag.
FramesOK(calls) ==
    /\ calls \in Seq(Frame)
    /\ \A j \in 1 .. Len(calls) :
         calls[j].kind = "fast" => j + 1 \in 1 .. Len(calls) /\ calls[j + 1].kind = "slow"

\* The calls without the last one.
LEMMA TailFrames ==
    ASSUME NEW calls, FramesOK(calls), calls # << >>
    PROVE  /\ FramesOK(Tail(calls))
           /\ Head(calls) \in Frame
           /\ Head(calls).kind = "fast" => Tail(calls) # << >> /\ Head(Tail(calls)).kind = "slow"
<1>1. calls \in Seq(Frame) /\ Len(calls) \in Nat /\ Len(calls) >= 1
  BY DEF FramesOK
<1>2. PICK c : c = Tail(calls)
  OBVIOUS
<1>3. /\ c \in Seq(Frame) /\ Len(c) = Len(calls) - 1
      /\ \A j \in 1 .. Len(c) : c[j] = calls[j + 1]
  BY <1>1, <1>2
<1>4. \A j \in 1 .. Len(c) : c[j].kind = "fast" => j + 1 \in 1 .. Len(c) /\ c[j + 1].kind = "slow"
  <2> TAKE j \in 1 .. Len(c)
  <2> HAVE c[j].kind = "fast"
  <2>1. j + 1 \in 1 .. Len(calls) /\ calls[j + 1].kind = "fast"
    BY <1>1, <1>3
  <2>2. j + 2 \in 1 .. Len(calls) /\ calls[j + 2].kind = "slow"
    <3>1. (j + 1) + 1 \in 1 .. Len(calls) /\ calls[(j + 1) + 1].kind = "slow"
      BY <2>1 DEF FramesOK
    <3>2. (j + 1) + 1 = j + 2
      OBVIOUS
    <3> QED
      BY <3>1, <3>2
  <2>3. j + 1 \in 1 .. Len(c)
    BY <1>1, <1>3, <2>2
  <2>4. c[j + 1] = calls[(j + 1) + 1] /\ (j + 1) + 1 = j + 2
    BY <1>3, <2>3
  <2> QED
    BY <2>2, <2>3, <2>4
<1>5. Head(calls) = calls[1] /\ 1 \in 1 .. Len(calls)
  BY <1>1
<1>6. ASSUME Head(calls).kind = "fast"
      PROVE  c # << >> /\ Head(c).kind = "slow"
  <2>1. 1 + 1 \in 1 .. Len(calls) /\ calls[1 + 1].kind = "slow"
    BY <1>5, <1>6 DEF FramesOK
  <2>2. 1 \in 1 .. Len(c) /\ c[1] = calls[1 + 1]
    BY <1>1, <1>3, <2>1
  <2> QED
    BY <1>3, <2>1, <2>2
<1>7. Head(calls) \in Frame
  BY <1>1, <1>5
<1> QED
  BY <1>2, <1>3, <1>4, <1>6, <1>7 DEF FramesOK

\* The last call goes on.
LEMMA TopFrames ==
    ASSUME NEW calls, FramesOK(calls), calls # << >>, NEW e \in Frame, e.kind = Head(calls).kind,
           NEW c, c = << e >> \o Tail(calls)
    PROVE  FramesOK(c) /\ c # << >> /\ Head(c) = e
<1>1. calls \in Seq(Frame) /\ Len(calls) \in Nat /\ Len(calls) >= 1 /\ Head(calls) = calls[1]
  BY DEF FramesOK
<1>2. /\ c \in Seq(Frame) /\ Len(c) = Len(calls)
      /\ \A j \in 1 .. Len(c) : c[j] = IF j = 1 THEN e ELSE calls[j]
  BY <1>1
<1>3. Head(c) = e /\ c # << >>
  BY <1>1, <1>2
<1>4. \A j \in 1 .. Len(c) : c[j].kind = "fast" => j + 1 \in 1 .. Len(c) /\ c[j + 1].kind = "slow"
  <2> TAKE j \in 1 .. Len(c)
  <2> HAVE c[j].kind = "fast"
  <2>1. calls[j].kind = "fast" /\ j \in 1 .. Len(calls)
    BY <1>1, <1>2
  <2>2. j + 1 \in 1 .. Len(calls) /\ calls[j + 1].kind = "slow"
    BY <2>1 DEF FramesOK
  <2>3. c[j + 1] = calls[j + 1]
    BY <1>2, <2>2
  <2> QED
    BY <1>2, <2>2, <2>3
<1> QED
  BY <1>2, <1>3, <1>4 DEF FramesOK

\* A new call of photorec_bf_frag, with or without one of photorec_bf_frag_fast.
LEMMA CallFrames ==
    ASSUME NEW calls, FramesOK(calls), NEW e \in Frame, e.kind = "slow"
    PROVE  FramesOK(<< e >> \o calls) /\ << e >> \o calls # << >> /\ Head(<< e >> \o calls) = e
<1>1. calls \in Seq(Frame) /\ Len(calls) \in Nat
  BY DEF FramesOK
<1>2. PICK c : c = << e >> \o calls
  OBVIOUS
<1>3. /\ c \in Seq(Frame) /\ Len(c) = Len(calls) + 1
      /\ \A j \in 1 .. Len(c) : c[j] = IF j = 1 THEN e ELSE calls[j - 1]
  BY <1>1, <1>2
<1>4. Head(c) = e /\ c # << >>
  BY <1>1, <1>3
<1>5. \A j \in 1 .. Len(c) : c[j].kind = "fast" => j + 1 \in 1 .. Len(c) /\ c[j + 1].kind = "slow"
  <2> TAKE j \in 1 .. Len(c)
  <2> HAVE c[j].kind = "fast"
  <2>1. j # 1 /\ j - 1 \in 1 .. Len(calls) /\ calls[j - 1].kind = "fast"
    <3>1. j # 1
      BY <1>3
    <3> QED
      BY <1>1, <1>3, <3>1
  <2>2. (j - 1) + 1 \in 1 .. Len(calls) /\ calls[(j - 1) + 1].kind = "slow"
    BY <2>1 DEF FramesOK
  <2>3. (j - 1) + 1 = j /\ (j + 1) - 1 = j /\ j + 1 # 1
    OBVIOUS
  <2>4. j + 1 \in 1 .. Len(c)
    BY <1>1, <1>3, <2>2, <2>3
  <2>5. c[j + 1] = calls[j]
    BY <1>3, <2>3, <2>4
  <2> QED
    BY <2>2, <2>3, <2>4, <2>5
<1> QED
  BY <1>2, <1>3, <1>4, <1>5 DEF FramesOK

\* The frames photorec_bf_frag_fast leaves to its caller are frames.
LEMMA FastFrames ==
    ASSUME NEW calls, FramesOK(calls), NEW q \in Frame, q.kind = "fast", NEW e \in Frame, e.kind = "slow"
    PROVE  /\ FramesOK(<< q, e >> \o calls) /\ << q, e >> \o calls # << >>
           /\ Head(<< q, e >> \o calls) = q
<1>1. calls \in Seq(Frame) /\ Len(calls) \in Nat
  BY DEF FramesOK
<1>2. PICK b : b = << e >> \o calls
  OBVIOUS
<1>3. FramesOK(b) /\ b # << >> /\ Head(b) = e /\ b \in Seq(Frame) /\ Len(b) \in Nat
  <2>1. FramesOK(b) /\ b # << >> /\ Head(b) = e
    BY <1>2, CallFrames
  <2> QED
    BY <2>1 DEF FramesOK
<1>4. PICK c : c = << q >> \o b
  OBVIOUS
<1>5. c = << q, e >> \o calls
  BY <1>1, <1>2, <1>4
<1>6. /\ c \in Seq(Frame) /\ Len(c) = Len(b) + 1
      /\ \A j \in 1 .. Len(c) : c[j] = IF j = 1 THEN q ELSE b[j - 1]
  BY <1>3, <1>4
<1>7. Head(c) = q /\ c # << >>
  BY <1>3, <1>6
<1>8. \A j \in 1 .. Len(c) : c[j].kind = "fast" => j + 1 \in 1 .. Len(c) /\ c[j + 1].kind = "slow"
  <2> TAKE j \in 1 .. Len(c)
  <2> HAVE c[j].kind = "fast"
  <2>1. CASE j = 1
    <3>1. 2 \in 1 .. Len(c) /\ c[2] = b[2 - 1] /\ 2 - 1 = 1
      BY <1>3, <1>6
    <3>2. b[1] = e
      BY <1>3
    <3> QED
      BY <2>1, <3>1, <3>2
  <2>2. CASE j # 1
    <3>1. j - 1 \in 1 .. Len(b) /\ b[j - 1].kind = "fast"
      BY <1>3, <1>6, <2>2
    <3>2. (j - 1) + 1 \in 1 .. Len(b) /\ b[(j - 1) + 1].kind = "slow"
      BY <1>3, <3>1 DEF FramesOK
    <3>3. (j - 1) + 1 = j /\ (j + 1) - 1 = j /\ j + 1 # 1
      OBVIOUS
    <3>4. j + 1 \in 1 .. Len(c)
      BY <1>3, <1>6, <3>2, <3>3
    <3>5. c[j + 1] = b[j]
      BY <1>6, <3>3, <3>4
    <3> QED
      BY <3>2, <3>3, <3>4, <3>5
  <2> QED
    BY <2>1, <2>2
<1> QED
  BY <1>5, <1>6, <1>7, <1>8 DEF FramesOK

-----------------------------------------------------------------------------
(* Files that differ in what their format said *)

FileLike(h, f) ==
    h \in FileRec /\ h.on = f.on /\ h.location = f.location /\ (h.handle => f.handle)

\* A file changed in its sizes, offsets or handle has the same blocks.
LEMMA FileChanged ==
    ASSUME NEW f \in FileRec, NEW z \in Nat, NEW e \in Nat, NEW x \in Nat, NEW w \in Seq(Nat)
    PROVE  /\ FileLike([ f EXCEPT !.size = z, !.offset_error = e, !.extra = x ], f)
           /\ FileLike([ f EXCEPT !.offset_error = e ], f)
           /\ FileLike([ f EXCEPT !.extra = x ], f)
           /\ FileLike([ f EXCEPT !.handle = FALSE ], f)
           /\ FileLike([ f EXCEPT !.written = w ], f)
<1>1. ASSUME NEW h, NEW q \in BOOLEAN, q => f.handle, NEW u \in Seq(Nat),
             NEW a \in Nat, NEW b \in Nat, NEW c \in Nat,
             h = [ on |-> f.on, handle |-> q, size |-> a, location |-> f.location,
                   written |-> u, offset_error |-> b, offset_ok |-> f.offset_ok, extra |-> c ]
      PROVE  FileLike(h, f)
  BY <1>1 DEF FileLike, FileRec
<1>2. /\ f.handle \in BOOLEAN /\ f.size \in Nat /\ f.written \in Seq(Nat)
      /\ f.offset_error \in Nat /\ f.extra \in Nat
  BY DEF FileRec
<1>3. PICK h1 : h1 = [ f EXCEPT !.size = z, !.offset_error = e, !.extra = x ]
  OBVIOUS
<1>4. h1 = [ on |-> f.on, handle |-> f.handle, size |-> z, location |-> f.location,
             written |-> f.written, offset_error |-> e, offset_ok |-> f.offset_ok, extra |-> x ]
  BY <1>3 DEF FileRec
<1>5. FileLike(h1, f)
  BY <1>1, <1>2, <1>4
<1>6. PICK h2 : h2 = [ f EXCEPT !.offset_error = e ]
  OBVIOUS
<1>7. h2 = [ on |-> f.on, handle |-> f.handle, size |-> f.size, location |-> f.location,
             written |-> f.written, offset_error |-> e, offset_ok |-> f.offset_ok, extra |-> f.extra ]
  BY <1>6 DEF FileRec
<1>8. FileLike(h2, f)
  BY <1>1, <1>2, <1>7
<1>9. PICK h3 : h3 = [ f EXCEPT !.extra = x ]
  OBVIOUS
<1>10. h3 = [ on |-> f.on, handle |-> f.handle, size |-> f.size, location |-> f.location,
              written |-> f.written, offset_error |-> f.offset_error, offset_ok |-> f.offset_ok, extra |-> x ]
  BY <1>9 DEF FileRec
<1>11. FileLike(h3, f)
  BY <1>1, <1>2, <1>10
<1>12. PICK h4 : h4 = [ f EXCEPT !.handle = FALSE ]
  OBVIOUS
<1>13. h4 = [ on |-> f.on, handle |-> FALSE, size |-> f.size, location |-> f.location,
              written |-> f.written, offset_error |-> f.offset_error, offset_ok |-> f.offset_ok,
              extra |-> f.extra ]
  BY <1>12 DEF FileRec
<1>14. FileLike(h4, f)
  BY <1>1, <1>2, <1>13
<1>15. PICK h5 : h5 = [ f EXCEPT !.written = w ]
  OBVIOUS
<1>16. h5 = [ on |-> f.on, handle |-> f.handle, size |-> f.size, location |-> f.location,
              written |-> w, offset_error |-> f.offset_error, offset_ok |-> f.offset_ok,
              extra |-> f.extra ]
  BY <1>15 DEF FileRec
<1>17. FileLike(h5, f)
  BY <1>1, <1>2, <1>16
<1> QED
  BY <1>3, <1>5, <1>6, <1>8, <1>9, <1>11, <1>12, <1>14, <1>15, <1>17

\* photorec_bf_frag begins with one call or two.
LEMMA FragIs ==
    ASSUME NEW f \in FileRec, NEW frag \in Nat, NEW calls, FramesOK(calls),
           NEW c, c = photorec_bf_frag(f, frag, calls)
    PROVE  /\ FramesOK(c.stack) /\ c.stack # << >>
           /\ \/ c.pc = "try" /\ Head(c.stack).kind = "fast"
              \/ c.pc = "cut" /\ Head(c.stack).kind = "slow"
           /\ FileLike(c.file, f)
<1>1. /\ f.offset_error \in Nat /\ f.offset_ok \in Nat /\ f.extra \in Nat /\ f.written \in Seq(Nat)
      /\ f.size \in Nat /\ 0 \in Nat
  BY DEF FileRec
<1>2. (f.offset_error \div BS) * BS \in Nat /\ f.extra \div BS \in Nat
  <2>1. /\ f.offset_error \div BS \in Int /\ f.extra \div BS \in Int
        /\ f.offset_error \div BS >= 0 /\ f.extra \div BS >= 0
    <3>1. \A a \in Nat : a \div BS \in Int /\ a \div BS >= 0
      BY BlocksBelow
    <3> QED
      BY <1>1, <3>1
  <2> QED
    BY <2>1, BlockSize
<1>3. PICK a \in Nat : a = (f.offset_error \div BS) * BS
  BY <1>2
<1>4. PICK n \in Nat : n = f.extra \div BS
  BY <1>2
<1>5. PICK e : e = SlowFrame(f, frag)
  OBVIOUS
<1>6. e \in Frame /\ e.kind = "slow"
  <2>1. e = [ kind |-> "slow", frag |-> frag, err |-> f.offset_error, at |-> a, n |-> 0, i |-> 0 ]
    BY <1>3, <1>5 DEF SlowFrame
  <2> QED
    BY <1>1, <2>1 DEF Frame
<1>7. PICK q : q = FastFrame(f, frag)
  OBVIOUS
<1>8. q \in Frame /\ q.kind = "fast"
  <2>1. q = [ kind |-> "fast", frag |-> frag, err |-> f.offset_error, at |-> f.offset_ok, n |-> n, i |-> 0 ]
    BY <1>4, <1>7 DEF FastFrame
  <2> QED
    BY <1>1, <2>1 DEF Frame
<1>9. PICK h : h = [ f EXCEPT !.extra = 0 ]
  OBVIOUS
<1>10. FileLike(h, f) /\ FileLike(f, f)
  <2>1. FileLike(f, f)
    BY DEF FileLike
  <2>2. FileLike([ f EXCEPT !.extra = 0 ], f)
    BY <1>1, FileChanged
  <2> QED
    BY <1>9, <2>1, <2>2
<1>11. PICK g \in BOOLEAN : g = (f.extra > 0 /\ f.offset_error \div BS > f.offset_ok \div BS /\ f.offset_ok > 0)
  OBVIOUS
<1>12. c = IF g THEN [ stack |-> << q, e >> \o calls, pc |-> "try", file |-> h ]
           ELSE [ stack |-> << e >> \o calls, pc |-> "cut", file |-> f ]
  BY <1>5, <1>7, <1>9, <1>11, Zenon DEF photorec_bf_frag
<1>13. CASE g
  <2>1. c = [ stack |-> << q, e >> \o calls, pc |-> "try", file |-> h ]
    BY <1>12, <1>13
  <2>2. PICK z : z = << q, e >> \o calls
    OBVIOUS
  <2>3. FramesOK(z) /\ z # << >> /\ Head(z) = q
    BY <1>6, <1>8, <2>2, FastFrames
  <2>4. c.stack = z /\ c.pc = "try" /\ c.file = h
    BY <2>1, <2>2
  <2> QED
    BY <1>8, <1>10, <2>3, <2>4
<1>14. CASE ~ g
  <2>1. c = [ stack |-> << e >> \o calls, pc |-> "cut", file |-> f ]
    BY <1>12, <1>14
  <2>2. PICK z : z = << e >> \o calls
    OBVIOUS
  <2>3. FramesOK(z) /\ z # << >> /\ Head(z) = e
    BY <1>6, <2>2, CallFrames
  <2>4. c.stack = z /\ c.pc = "cut" /\ c.file = f
    BY <2>1, <2>2
  <2> QED
    BY <1>6, <1>10, <2>3, <2>4
<1> QED
  BY <1>13, <1>14
-----------------------------------------------------------------------------
(* The invariant *)

Positions == [ list : Seq(Extent), cur : Nat, offset : Nat ]

\* The position is on the grid, and in the list where the code uses it.
PlaceInv(p, label) ==
    /\ p \in Positions /\ p.offset % BS = 0
    /\ label \in { "block", "pad" } => p.cur \in 0 .. Len(p.list)

\* Where a file is put together one is in progress; none is between two extents.
FileInv(p, f, d, label, answer, m) ==
    /\ Accounted(p.list, f, d, m)
    /\ label \in { "extent", "leave" } => f.location = << >>
    /\ label \in { "aux", "cut", "skip", "try", "pad" } => f.on
    /\ label = "back" /\ answer \notin Final => f.on

\* The labels of a call are those of its last frame, and no cut is below the
\* first block.
CallsInv(calls, label) ==
    /\ FramesOK(calls)
    /\ label \in { "cut", "skip", "try", "pad" } => calls # << >>
    /\ label \in { "cut", "skip" } => Head(calls).kind = "slow"
    /\ label = "try" => Head(calls).kind = "fast"
    /\ label = "skip" => Head(calls).at >= BS
    /\ label = "pad" /\ Head(calls).kind = "slow" => Head(calls).at >= BS

BruteInv ==
    /\ format \in Formats
    /\ PlaceInv(pos, pc)
    /\ FileInv(pos, file_recovery, destination, pc, result, SpaceOf(disk))
    /\ CallsInv(stack, pc)

\* The parts of the invariant.
LEMMA InvFacts ==
    ASSUME BruteInv
    PROVE  /\ format \in Formats
           /\ pos \in Positions /\ pos.offset \in Nat /\ pos.offset % BS = 0
           /\ pos.cur \in Nat /\ pos.list \in Seq(Extent) /\ ListOK(pos.list, BS)
           /\ Accounted(pos.list, file_recovery, destination, SpaceOf(disk))
           /\ LocationOK(file_recovery.location, BS) /\ Disjoint(pos.list, file_recovery.location)
           /\ file_recovery \in FileRec /\ destination \in Destinations
           /\ FramesOK(stack)
  BY DEF BruteInv, PlaceInv, FileInv, CallsInv, Accounted, Whole, Positions

\* Blocks that move in a search stay accounted for.
LEMMA SearchAccounted ==
    ASSUME NEW l, NEW f, NEW d, NEW m, Accounted(l, f, d, m), f.on, NEW s \in Partings(l, f)
    PROVE  /\ Accounted(s.list, s.file, d, m) /\ s.file.on /\ s.file \in FileRec
           /\ PlaceInv(At_s(s), "check") /\ At_s(s) \in Positions
           /\ At_s(s).list = s.list /\ At_s(s).cur = s.cur /\ At_s(s).offset = s.offset
           /\ s.offset \in Nat /\ s.offset % BS = 0
<1>1. /\ s \in SearchRec /\ ListOK(s.list, BS) /\ LocationOK(s.file.location, BS)
      /\ Disjoint(s.list, s.file.location)
      /\ SameBytes(s.list, s.file.location, l, f.location)
      /\ s.offset % BS = 0 /\ s.file.on = f.on /\ s.file.handle = f.handle
  BY DEF Partings
<1>2. s.file \in FileRec /\ s.list \in Seq(Extent) /\ s.cur \in Nat /\ s.offset \in Nat
  BY <1>1 DEF SearchRec
<1>3. Whole(s.list, s.file.location, d.kept, m)
  BY <1>1, WholeMoved DEF Accounted
<1>4. PICK p : p = At_s(s)
  OBVIOUS
<1>5. p = [ list |-> s.list, cur |-> s.cur, offset |-> s.offset ]
  BY <1>4 DEF At_s, Position
<1>6. p \in Positions /\ p.list = s.list /\ p.cur = s.cur /\ p.offset = s.offset
  BY <1>2, <1>5 DEF Positions
<1>7. PlaceInv(p, "check")
  BY <1>1, <1>6 DEF PlaceInv
<1>8. Accounted(s.list, s.file, d, m)
  BY <1>1, <1>2, <1>3 DEF Accounted
<1> QED
  BY <1>1, <1>2, <1>4, <1>6, <1>7, <1>8

\* Bytes stay accounted for when a file is changed in its sizes and offsets.
LEMMA LikeAccounted ==
    ASSUME NEW l, NEW f, NEW d, NEW m, Accounted(l, f, d, m), NEW h, FileLike(h, f)
    PROVE  Accounted(l, h, d, m) /\ h \in FileRec
  BY DEF Accounted, FileLike

\* A list that is replaced at the same position.
LEMMA PlaceWith ==
    ASSUME NEW p, PlaceInv(p, "check"), NEW l \in Seq(Extent)
    PROVE  PlaceInv([ p EXCEPT !.list = l ], "check") /\ [ p EXCEPT !.list = l ].list = l
<1>1. PICK q : q = [ p EXCEPT !.list = l ]
  OBVIOUS
<1>2. q = [ list |-> l, cur |-> p.cur, offset |-> p.offset ]
  BY <1>1 DEF PlaceInv, Positions
<1>3. PlaceInv(q, "check") /\ q.list = l
  BY <1>2 DEF PlaceInv, Positions
<1> QED
  BY <1>1, <1>3

\* The list of what is accounted for is well formed.
LEMMA AccountedList ==
    ASSUME NEW l, NEW f, NEW d, NEW m, Accounted(l, f, d, m)
    PROVE  ListOK(l, BS) /\ l \in Seq(Extent)
  BY DEF Accounted, Whole, ListOK

\* Labels that ask nothing of the position, the file or the calls.
LEMMA PlaceElsewhere ==
    ASSUME NEW p, NEW label, PlaceInv(p, label), NEW other, other \notin { "block", "pad" }
    PROVE  PlaceInv(p, other)
  BY DEF PlaceInv

\* Labels that ask nothing but that the calls be well formed.
LEMMA CallsElsewhere ==
    ASSUME NEW calls, FramesOK(calls), NEW other, other \notin { "cut", "skip", "try", "pad" }
    PROVE  CallsInv(calls, other)
  BY DEF CallsInv

\* The beginning.
LEMMA BruteInvInit == Init => BruteInv
<1> SUFFICES ASSUME Init
             PROVE  BruteInv
  OBVIOUS
<1>1. PICK m : m = SpaceOf(disk)
  OBVIOUS
<1>2. ListOK(m, BS) /\ m \in Seq(Extent)
  BY <1>1, SpaceIs DEF ListOK
<1>3. /\ pos = [ list |-> m, cur |-> 0, offset |-> 0 ] /\ pc = "extent" /\ result = "ENOENT"
      /\ stack = << >> /\ format \in Formats /\ file_recovery = NoFile
      /\ destination = [ kept |-> {}, file_nbr |-> 0, allocation_end |-> 0, before |-> 0, full |-> FALSE ]
  BY <1>1 DEF Init, Position
<1>4. PlaceInv(pos, pc)
  <2>1. 0 % BS = 0
    <3>1. 0 = 0 * BS
      BY BlockSize
    <3> QED
      BY <3>1, BlockSize, AlignedIs
  <2> QED
    BY <1>2, <1>3, <2>1 DEF PlaceInv, Positions
<1>5. NoFile \in FileRec /\ NoFile.location = << >> /\ ~ NoFile.handle
  <2>1. << >> \in Seq(Element) /\ << >> \in Seq(Nat)
    OBVIOUS
  <2> QED
    BY <2>1 DEF NoFile, FileRec
<1>6. destination \in Destinations /\ destination.kept = {}
  BY <1>3 DEF Destinations
<1>7. Whole(m, << >>, {}, m)
  BY <1>2, EmptyLocation DEF Whole, Disjoint, InKept
<1>8. Accounted(m, NoFile, destination, m)
  BY <1>5, <1>6, <1>7 DEF Accounted
<1>9. FileInv(pos, file_recovery, destination, pc, result, m)
  <2>1. pos.list = m
    BY <1>3
  <2> HIDE DEF NoFile
  <2> QED
    BY <1>3, <1>5, <1>8, <2>1 DEF FileInv
<1>10. CallsInv(stack, pc)
  BY <1>3 DEF CallsInv, FramesOK
<1> QED
  BY <1>1, <1>3, <1>4, <1>9, <1>10 DEF BruteInv
-----------------------------------------------------------------------------
(* One extent after the other *)

\* No file at all is one without blocks.
LEMMA NoFileIs == NoFile \in FileRec /\ NoFile.location = << >> /\ ~ NoFile.handle /\ ~ NoFile.on
<1>1. << >> \in Seq(Element) /\ << >> \in Seq(Nat)
  OBVIOUS
<1> QED
  BY <1>1 DEF NoFile, FileRec

\* A new file may begin when none has a block.
LEMMA FileBegins ==
    ASSUME NEW l, NEW f, NEW d, NEW m, Accounted(l, f, d, m), f.location = << >>,
           NEW g \in FileRec, g.location = << >>, g.handle => g.on
    PROVE  Accounted(l, g, d, m)
  BY DEF Accounted

\* The places in the list of an address.
LEMMA IndexOfIs ==
    ASSUME NEW l \in Seq(Extent), NEW a
    PROVE  IndexOf(l, a) \in 0 .. Len(l)
<1> DEFINE I     == { j \in 1 .. Len(l) : l[j].start = a }
           first == IF I # {} THEN Min(I) ELSE 0
<1>1. IndexOf(l, a) = first
  BY Zenon DEF IndexOf, SelectInSeq
<1>2. I \in SUBSET (1 .. Len(l)) /\ Len(l) \in Nat
  OBVIOUS
<1> HIDE DEF I
<1> QED
  <2>1. \E i \in 0 .. Len(l) : i = first
    BY <1>2, MinIndex, Zenon
  <2> QED
    BY <1>1, <2>1, Zenon

\* The next extent is taken up, and a pass of the phase may end there.
LEMMA StartExtentOK ==
    ASSUME BruteInv, StartExtent
    PROVE  BruteInv'
<1>1. /\ pos' = At_start(pos.list, IndexOf(pos.list, walker))
      /\ file_recovery' = NoFile /\ pc' = "block" /\ pc = "extent"
      /\ destination' = destination /\ disk' = disk /\ format' = format
      /\ stack' = stack /\ result' = result
  BY Zenon DEF StartExtent, fixed, search_vars
<1>2. PICK i \in 0 .. Len(pos.list) : i = IndexOf(pos.list, walker)
  BY InvFacts, IndexOfIs
<1>3. /\ pos'.list = pos.list /\ pos'.cur = i /\ pos'.offset \in Nat /\ pos'.offset % BS = 0
  BY <1>1, <1>2, InvFacts, StartStays
<1>4. PlaceInv(pos', "block")
  <2>1. PICK e : e = At(pos.list, i).start
    OBVIOUS
  <2>2. pos' = [ list |-> pos.list, cur |-> i, offset |-> e ]
    BY <1>1, <1>2, <2>1 DEF At_start, Position
  <2>3. pos.list \in Seq(Extent) /\ Len(pos.list) \in Nat
    BY InvFacts
  <2> QED
    BY <1>3, <2>2, <2>3 DEF PlaceInv, Positions
<1>5. Accounted(pos.list, NoFile, destination, SpaceOf(disk))
  <2>1. file_recovery.location = << >>
    BY <1>1 DEF BruteInv, FileInv
  <2> QED
    BY <2>1, InvFacts, NoFileIs, FileBegins
<1>6. FileInv(pos', file_recovery', destination', pc', result', SpaceOf(disk'))
  BY <1>1, <1>3, <1>5 DEF FileInv
<1>7. CallsInv(stack', pc')
  BY <1>1, InvFacts, CallsElsewhere
<1> QED
  BY <1>1, <1>4, <1>6, <1>7, InvFacts DEF BruteInv

\* The end of a phase of the pass.
LEMMA EndPhaseOK ==
    ASSUME BruteInv, EndPhase
    PROVE  BruteInv'
<1>1. /\ pos' = pos /\ file_recovery' = file_recovery /\ pc' \in { "done", "extent" } /\ pc = "extent"
      /\ destination' = destination /\ disk' = disk /\ format' = format
      /\ stack' = stack /\ result' = result
  BY Zenon DEF EndPhase, fixed, search_vars
<1>2. PlaceInv(pos', pc')
  BY <1>1 DEF BruteInv, PlaceInv
<1>3. FileInv(pos', file_recovery', destination', pc', result', SpaceOf(disk'))
  BY <1>1 DEF BruteInv, FileInv
<1>4. CallsInv(stack', pc')
  BY <1>1, InvFacts, CallsElsewhere
<1> QED
  BY <1>1, <1>2, <1>3, <1>4, InvFacts DEF BruteInv

\* Passing over a block leaves the file alone.
LEMMA NextSectorFile ==
    ASSUME NEW l, NEW f, NEW s \in Searches(l, f)
    PROVE  NextSector(s).file = s.file
<1>1. s \in SearchRec
  BY DEF Searches, Partings
<1>2. PICK p : p = get_next_sector(s.list, s.cur, s.offset, BS)
  OBVIOUS
<1>3. NextSector(s) = [ s EXCEPT !.list = p.list, !.cur = p.cur, !.offset = p.offset ]
  BY <1>2, Zenon DEF NextSector, Move
<1> QED
  BY <1>1, <1>3 DEF SearchRec

\* The blocks are read to the end of the extent or to an error in the file.
LEMMA ReadBlocksOK ==
    ASSUME BruteInv, ReadBlocks
    PROVE  BruteInv'
<1>1. PICK created \in { ~ destination.full, TRUE } : ReadBlock(created)
  BY DEF ReadBlocks
<1>2. created \in BOOLEAN
  OBVIOUS
<1> DEFINE begins == HeaderHere /\ ~ file_recovery.on
           f      == IF begins THEN [ NoFile EXCEPT !.on = TRUE ] ELSE file_recovery
           ends   == AtStart /\ (IF HeaderHere THEN file_recovery.on ELSE ~ file_recovery.on)
           g      == IF f.on /\ ~ f.handle THEN [ f EXCEPT !.handle = created ] ELSE f
           s      == Search(pos, g)
           adds   == ~ ends /\ g.handle
           t      == IF adds THEN Append1(s) ELSE NextSector(s)
<1>3. /\ pc = "block"
      /\ pos' = Position(t.list, t.cur, t.offset)
      /\ file_recovery' = [ t.file EXCEPT !.written = IF adds /\ destination.full THEN f.written ELSE @ ]
      /\ pc' = IF t.lost THEN "exit"
               ELSE IF ends \/ t.stop \/ t.cur = 0 THEN "check" ELSE "block"
      /\ destination' = destination /\ disk' = disk /\ format' = format
      /\ stack' = stack /\ result' = result
  BY <1>1, Zenon DEF ReadBlock, fixed, search_vars
<1>4. pos.cur \in 0 .. Len(pos.list)
  BY <1>3 DEF BruteInv, PlaceInv
<1>5. /\ Accounted(pos.list, f, destination, SpaceOf(disk)) /\ f \in FileRec
  <2>1. CASE begins
    <3>1. PICK n : n = [ NoFile EXCEPT !.on = TRUE ]
      OBVIOUS
    <3>2. n \in FileRec /\ n.location = << >> /\ n.on
      <4>1. << >> \in Seq(Element) /\ << >> \in Seq(Nat)
        OBVIOUS
      <4> QED
        BY <3>1, <4>1 DEF NoFile, FileRec
    <3>3. f = n
      BY <2>1, <3>1, Zenon
    <3>4. file_recovery.location = << >>
      BY <2>1, InvFacts DEF Accounted
    <3> HIDE DEF f
    <3> QED
      BY <3>2, <3>3, <3>4, InvFacts, FileBegins
  <2>2. CASE ~ begins
    BY <2>2, InvFacts
  <2> QED
    BY <2>1, <2>2
<1> HIDE DEF begins, f
<1>6. /\ Accounted(pos.list, g, destination, SpaceOf(disk)) /\ g \in FileRec /\ (g.handle => g.on)
  <2>1. CASE f.on /\ ~ f.handle
    <3>1. PICK n : n = [ f EXCEPT !.handle = created ]
      OBVIOUS
    <3>2. n = [ on |-> f.on, handle |-> created, size |-> f.size, location |-> f.location,
                written |-> f.written, offset_error |-> f.offset_error, offset_ok |-> f.offset_ok,
                extra |-> f.extra ]
      BY <1>5, <3>1 DEF FileRec
    <3>3. n \in FileRec /\ n.on /\ n.location = f.location
      BY <1>2, <1>5, <2>1, <3>2 DEF FileRec
    <3>4. Accounted(pos.list, n, destination, SpaceOf(disk))
      BY <1>5, <3>3 DEF Accounted
    <3>5. g = n
      BY <2>1, <3>1
    <3> HIDE DEF g
    <3> QED
      BY <3>3, <3>4, <3>5
  <2>2. CASE ~ (f.on /\ ~ f.handle)
    BY <1>5, <2>2 DEF Accounted
  <2> QED
    BY <2>1, <2>2
<1> HIDE DEF g, ends
<1>7. s \in Searches(pos.list, g)
  <2>1. ListOK(pos.list, BS) /\ LocationOK(g.location, BS) /\ Disjoint(pos.list, g.location)
    BY <1>6 DEF Accounted, Whole
  <2> QED
    BY <1>4, <1>6, <2>1, InvFacts, SearchStarts
<1> HIDE DEF s
<1>8. /\ t \in Searches(pos.list, g) /\ t \in Partings(pos.list, g)
      /\ Accounted(t.list, t.file, destination, SpaceOf(disk)) /\ t.file \in FileRec
  <2>1. CASE adds
    <3>1. t = Append1(s) /\ g.on
      BY <1>6, <2>1
    <3>2. Append1(s) \in Searches(pos.list, g)
      BY <1>7, AppendStays
    <3> HIDE DEF t, adds
    <3>3. t \in Partings(pos.list, g)
      BY <3>1, <3>2 DEF Searches
    <3> QED
      BY <1>6, <3>1, <3>2, <3>3, SearchAccounted
  <2>2. CASE ~ adds
    <3>1. t = NextSector(s)
      BY <2>2
    <3>2. NextSector(s) \in Searches(pos.list, g) /\ NextSector(s).file = s.file
      BY <1>7, NextSectorStays, NextSectorFile
    <3> HIDE DEF t, adds
    <3>3. t \in Partings(pos.list, g) /\ t \in Searches(pos.list, g)
      BY <3>1, <3>2 DEF Searches
    <3>4. s.file = g
      BY DEF s, Search
    <3>5. t.file = g
      BY <3>1, <3>2, <3>4
    <3>6. Whole(t.list, t.file.location, destination.kept, SpaceOf(disk))
      <4>1. Whole(pos.list, g.location, destination.kept, SpaceOf(disk))
        BY <1>6 DEF Accounted
      <4>2. /\ ListOK(t.list, BS) /\ LocationOK(t.file.location, BS)
            /\ Disjoint(t.list, t.file.location)
            /\ SameBytes(t.list, t.file.location, pos.list, g.location)
        BY <3>3 DEF Partings
      <4> QED
        BY <4>1, <4>2, WholeMoved
    <3>7. Accounted(t.list, t.file, destination, SpaceOf(disk))
      BY <1>6, <3>5, <3>6 DEF Accounted
    <3> QED
      BY <1>6, <3>3, <3>5, <3>7
  <2> QED
    BY <2>1, <2>2
<1> HIDE DEF t
<1>9. PICK w \in Seq(Nat) : w = IF adds /\ destination.full THEN f.written ELSE t.file.written
  BY <1>5, <1>8 DEF FileRec
<1>10. file_recovery' = [ t.file EXCEPT !.written = w ]
  BY <1>3, <1>8, <1>9 DEF FileRec
<1>11. Accounted(t.list, file_recovery', destination, SpaceOf(disk))
  <2>1. PICK h : h = [ t.file EXCEPT !.written = w ]
    OBVIOUS
  <2>2. 0 \in Nat
    OBVIOUS
  <2>3. FileLike(h, t.file)
    BY ONLY <1>8, <2>1, <2>2, FileChanged, w \in Seq(Nat)
  <2> QED
    BY <1>8, <1>10, <2>1, <2>3, LikeAccounted
<1>12. /\ pos' \in Positions /\ pos'.list = t.list /\ pos'.cur \in 0 .. Len(t.list) /\ pos'.offset % BS = 0
  <2>1. /\ t.list \in Seq(Extent) /\ t.cur \in Nat /\ t.offset \in Nat
        /\ t.cur \in 0 .. Len(t.list) /\ t.offset % BS = 0
    BY <1>8 DEF Searches, Partings, SearchRec
  <2>2. pos' = [ list |-> t.list, cur |-> t.cur, offset |-> t.offset ]
    BY <1>3 DEF Position
  <2> QED
    BY <2>1, <2>2 DEF Positions
<1>13. pc' \in { "exit", "check", "block" }
  BY <1>3
<1>14. PlaceInv(pos', pc')
  BY <1>12 DEF PlaceInv
<1>15. FileInv(pos', file_recovery', destination', pc', result', SpaceOf(disk'))
  BY <1>3, <1>11, <1>12, <1>13 DEF FileInv
<1>16. CallsInv(stack', pc')
  BY <1>3, <1>13, InvFacts, CallsElsewhere
<1> QED
  BY <1>3, <1>14, <1>15, <1>16, InvFacts DEF BruteInv

\* The file that was read is checked: kept, rejected or gone on with.
LEMMA CheckFileOK ==
    ASSUME BruteInv, CheckFile
    PROVE  BruteInv'
<1> DEFINE r == file_finish_bf(file_recovery, destination, pos.list)
<1>1. /\ pos' = [ pos EXCEPT !.list = r.list ]
      /\ file_recovery' = r.file
      /\ destination' = [ r.destination EXCEPT !.before = destination.file_nbr ]
      /\ pc' = IF r.broken THEN "aux" ELSE "leave"
      /\ disk' = disk /\ format' = format /\ stack' = stack /\ result' = result
  BY Zenon DEF CheckFile, fixed, search_vars
<1>2. /\ Accounted(r.list, r.file, r.destination, SpaceOf(disk))
      /\ r.broken \in BOOLEAN
      /\ ~ r.broken => r.file.location = << >>
      /\ r.broken => r.file.on
  BY InvFacts, FinishBfIs
<1> HIDE DEF r
<1>3. Accounted(r.list, r.file, destination', SpaceOf(disk))
  <2>1. PICK n \in Nat : n = destination.file_nbr
    BY InvFacts DEF Destinations
  <2>2. PICK d : d = r.destination
    OBVIOUS
  <2>3. d \in Destinations
    BY <1>2, <2>2 DEF Accounted
  <2>4. destination' = [ kept |-> d.kept, file_nbr |-> d.file_nbr, allocation_end |-> d.allocation_end,
                         before |-> n, full |-> d.full ]
    BY <1>1, <2>1, <2>2, <2>3 DEF Destinations
  <2>5. destination' \in Destinations /\ destination'.kept = d.kept
    BY <2>3, <2>4 DEF Destinations
  <2> QED
    BY <1>2, <2>2, <2>5 DEF Accounted
<1>4. PlaceInv(pos', "check") /\ pos'.list = r.list
  <2>1. PlaceInv(pos, "check")
    BY DEF BruteInv, PlaceInv
  <2>2. r.list \in Seq(Extent)
    BY <1>2, AccountedList
  <2> QED
    BY <1>1, <2>1, <2>2, PlaceWith
<1>5. pc' \in { "aux", "leave" } /\ (pc' = "aux" <=> r.broken)
  BY <1>1, <1>2
<1>6. PlaceInv(pos', pc')
  BY <1>4, <1>5, PlaceElsewhere
<1>7. FileInv(pos', file_recovery', destination', pc', result', SpaceOf(disk'))
  BY <1>1, <1>2, <1>3, <1>4, <1>5 DEF FileInv
<1>8. CallsInv(stack', pc')
  BY <1>1, <1>5, InvFacts, CallsElsewhere
<1> QED
  BY <1>1, <1>6, <1>7, <1>8, InvFacts DEF BruteInv
-----------------------------------------------------------------------------
(* Putting a file together *)

\* Frames that go on.
LEMMA FrameGoesOn ==
    ASSUME NEW e \in Frame
    PROVE  /\ [ e EXCEPT !.i = @ + 1 ] \in Frame /\ [ e EXCEPT !.i = @ + 1 ].kind = e.kind
           /\ [ e EXCEPT !.i = @ + 1 ].at = e.at
           /\ [ e EXCEPT !.i = 0 ] \in Frame /\ [ e EXCEPT !.i = 0 ].kind = e.kind
           /\ [ e EXCEPT !.i = 0 ].at = e.at
           /\ e.at >= BS => [ e EXCEPT !.at = @ - BS ] \in Frame /\ [ e EXCEPT !.at = @ - BS ].kind = e.kind
<1>1. PICK a : a = [ e EXCEPT !.i = @ + 1 ]
  OBVIOUS
<1>2. a \in Frame /\ a.kind = e.kind /\ a.at = e.at
  BY <1>1 DEF Frame
<1>3. PICK b : b = [ e EXCEPT !.i = 0 ]
  OBVIOUS
<1>4. b \in Frame /\ b.kind = e.kind /\ b.at = e.at
  BY <1>3 DEF Frame
<1>5. PICK c : c = [ e EXCEPT !.at = @ - BS ]
  OBVIOUS
<1>6. e.at >= BS => c \in Frame /\ c.kind = e.kind
  BY <1>5, BlockSize DEF Frame
<1> QED
  BY <1>1, <1>2, <1>3, <1>4, <1>5, <1>6

\* A search at the position of the pass.
LEMMA SearchHere ==
    ASSUME BruteInv, NEW h, FileLike(h, file_recovery)
    PROVE  /\ Search(pos, h) \in Partings(pos.list, h)
           /\ Accounted(pos.list, h, destination, SpaceOf(disk))
           /\ h.on = file_recovery.on
<1>1. Accounted(pos.list, h, destination, SpaceOf(disk)) /\ h \in FileRec
  BY InvFacts, LikeAccounted
<1>2. ListOK(pos.list, BS) /\ LocationOK(h.location, BS) /\ Disjoint(pos.list, h.location)
  BY <1>1 DEF Accounted, Whole
<1>3. pos.cur \in Nat /\ pos.offset \in Nat /\ pos.offset % BS = 0
  BY InvFacts
<1>4. Search(pos, h) \in Partings(pos.list, h)
  BY ONLY <1>1, <1>2, <1>3, SearchParts
<1> QED
  BY <1>1, <1>4 DEF FileLike

\* A cut at the position of the pass.
LEMMA CutMoves ==
    ASSUME BruteInv, file_recovery.on, NEW h, FileLike(h, file_recovery), NEW size \in Nat,
           NEW s, s = file_block_truncate_and_move(Search(pos, h), size)
    PROVE  /\ s \in Searches(pos.list, h) /\ s \in Partings(pos.list, h)
           /\ Accounted(pos.list, h, destination, SpaceOf(disk)) /\ h.on
           /\ Accounted(s.list, s.file, destination, SpaceOf(disk)) /\ s.file.on /\ s.file \in FileRec
           /\ PlaceInv(At_s(s), "check") /\ At_s(s).list = s.list
<1>1. /\ Search(pos, h) \in Partings(pos.list, h)
      /\ Accounted(pos.list, h, destination, SpaceOf(disk)) /\ h.on
  BY SearchHere
<1>2. s \in Searches(pos.list, h)
  BY <1>1, TruncateMoves
<1>3. s \in Partings(pos.list, h)
  BY <1>2 DEF Searches
<1> QED
  BY <1>1, <1>2, <1>3, SearchAccounted

\* photorec_bf_aux cuts the file at the first error and begins the search.
LEMMA AuxOK ==
    ASSUME BruteInv, Aux
    PROVE  BruteInv'
<1> DEFINE size == (file_recovery.offset_error \div BS) * BS
           h    == [ file_recovery EXCEPT !.offset_error = size ]
           s    == file_block_truncate_and_move(Search(pos, h), size)
           c    == photorec_bf_frag(s.file, 0, << >>)
<1>1. /\ pc = "aux" /\ pos' = At_s(s)
      /\ stack' = c.stack /\ pc' = c.pc /\ file_recovery' = c.file
      /\ destination' = destination /\ disk' = disk /\ format' = format /\ result' = result
  BY Zenon DEF Aux, search_unchanged, fixed
<1>2. file_recovery.on /\ file_recovery \in FileRec
  BY <1>1, InvFacts DEF BruteInv, FileInv
<1>3. size \in Nat
  <2>1. PICK e \in Nat : e = file_recovery.offset_error
    BY <1>2 DEF FileRec
  <2>2. e \div BS \in Int /\ e \div BS >= 0
    BY BlocksBelow
  <2> QED
    BY <2>1, <2>2, BlockSize
<1> HIDE DEF size
<1>4. FileLike(h, file_recovery)
  <2>1. << >> \in Seq(Nat)
    OBVIOUS
  <2> QED
    BY <1>2, <1>3, <2>1, FileChanged
<1> HIDE DEF h
<1>5. /\ Accounted(s.list, s.file, destination, SpaceOf(disk)) /\ s.file.on /\ s.file \in FileRec
      /\ PlaceInv(At_s(s), "check") /\ At_s(s).list = s.list
  BY <1>2, <1>3, <1>4, CutMoves
<1> HIDE DEF s
<1>6. /\ FramesOK(c.stack) /\ c.stack # << >>
      /\ \/ c.pc = "try" /\ Head(c.stack).kind = "fast"
         \/ c.pc = "cut" /\ Head(c.stack).kind = "slow"
      /\ FileLike(c.file, s.file)
  <2>1. FramesOK(<< >>) /\ 0 \in Nat
    BY DEF FramesOK
  <2> QED
    BY <1>5, <2>1, FragIs
<1> HIDE DEF c
<1>7. PlaceInv(pos', pc')
  BY <1>1, <1>5, <1>6, PlaceElsewhere
<1>8. Accounted(s.list, c.file, destination, SpaceOf(disk)) /\ c.file.on
  BY <1>5, <1>6, LikeAccounted DEF FileLike
<1>9. FileInv(pos', file_recovery', destination', pc', result', SpaceOf(disk'))
  BY <1>1, <1>5, <1>6, <1>8 DEF FileInv
<1>10. CallsInv(stack', pc')
  BY <1>1, <1>6 DEF CallsInv
<1> QED
  BY <1>1, <1>7, <1>9, <1>10, InvFacts DEF BruteInv

\* photorec_bf_pad is called with a search that has its position in the list.
LEMMA CallsPadOK ==
    ASSUME BruteInv, stack # << >>, Top.kind = "slow" => Top.at >= BS, NEW f, NEW s \in Searches(pos.list, f),
           Accounted(pos.list, f, destination, SpaceOf(disk)), f.on, CallsPad(s),
           destination' = destination, disk' = disk, format' = format
    PROVE  BruteInv'
<1>1. /\ pos' = At_s(s) /\ file_recovery' = s.file
      /\ stack' = << [ Top EXCEPT !.i = @ + 1 ] >> \o Tail(stack)
      /\ pc' = "pad"
  BY DEF CallsPad
<1>2. s \in Partings(pos.list, f) /\ s.cur \in 0 .. Len(s.list)
  BY DEF Searches
<1>3. /\ Accounted(s.list, s.file, destination, SpaceOf(disk)) /\ s.file.on
      /\ PlaceInv(At_s(s), "check")
      /\ At_s(s).list = s.list /\ At_s(s).cur = s.cur
  BY <1>2, SearchAccounted
<1>4. Top \in Frame
  BY InvFacts, TailFrames DEF Top
<1>5. PICK e \in Frame : e = [ Top EXCEPT !.i = @ + 1 ] /\ e.kind = Top.kind /\ e.at = Top.at
  BY <1>4, FrameGoesOn
<1>6. PICK calls : calls = << e >> \o Tail(stack)
  OBVIOUS
<1>7. FramesOK(calls) /\ calls # << >> /\ Head(calls) = e
  BY <1>5, <1>6, InvFacts, TopFrames DEF Top
<1>8. PlaceInv(pos', pc')
  BY <1>1, <1>2, <1>3 DEF PlaceInv
<1>9. FileInv(pos', file_recovery', destination', pc', result', SpaceOf(disk'))
  BY <1>1, <1>3 DEF FileInv
<1>10. CallsInv(stack', pc')
  <2>1. stack' = calls
    BY <1>1, <1>5, <1>6
  <2> QED
    BY <1>1, <1>5, <1>7, <2>1 DEF CallsInv
<1> QED
  BY <1>8, <1>9, <1>10, InvFacts DEF BruteInv

\* The program ends.
LEMMA ExitOK ==
    ASSUME BruteInv, pc' = "exit", UNCHANGED << pos, file_recovery, stack >>,
           destination' = destination, disk' = disk, format' = format
    PROVE  BruteInv'
<1>1. PlaceInv(pos', pc')
  BY PlaceElsewhere DEF BruteInv
<1>2. FileInv(pos', file_recovery', destination', pc', result', SpaceOf(disk'))
  BY InvFacts DEF FileInv
<1>3. CallsInv(stack', pc')
  BY InvFacts, CallsElsewhere
<1> QED
  BY <1>1, <1>2, <1>3, InvFacts DEF BruteInv

\* A try of photorec_bf_frag_fast cuts the file, goes on and pads it.
LEMMA TryOK ==
    ASSUME BruteInv, Try
    PROVE  BruteInv'
<1> DEFINE ok == Top.at \div BS
           s  == file_block_truncate_and_move(Search(pos, file_recovery), ok * BS)
           a  == Times(Top.i, NextSector, s)
           n  == (Top.err \div BS) - ok - 1
           b  == Times(n, LAMBDA t : IF t.lost THEN t ELSE Append1(t), a)
           z  == Times(Top.n - Top.i, NextSector, b)
<1>1. /\ pc = "try"
      /\ IF b.lost THEN pc' = "exit" /\ UNCHANGED << pos, file_recovery, stack >>
         ELSE CallsPad(z)
      /\ destination' = destination /\ disk' = disk /\ format' = format
  BY Zenon DEF Try, search_unchanged, fixed
<1>2. file_recovery.on /\ file_recovery \in FileRec /\ stack # << >> /\ Top.kind = "fast"
  BY <1>1, InvFacts DEF BruteInv, FileInv, CallsInv, Top
<1>3. Top \in Frame
  BY <1>2, InvFacts, TailFrames DEF Top
<1>4. Top.at \in Nat /\ Top.err \in Nat /\ Top.i \in Int /\ Top.n - Top.i \in Int
  BY <1>3 DEF Frame
<1>5. ok * BS \in Nat /\ n \in Int
  <2>1. PICK p \in Nat : p = Top.at
    BY <1>4
  <2>2. PICK q \in Nat : q = Top.err
    BY <1>4
  <2>3. p \div BS \in Int /\ p \div BS >= 0 /\ q \div BS \in Int
    BY BlocksBelow
  <2>4. ok = p \div BS /\ Top.err \div BS = q \div BS
    BY <2>1, <2>2
  <2> HIDE DEF ok
  <2> QED
    BY <2>3, <2>4, BlockSize
<1> HIDE DEF ok
<1>6. /\ s \in Searches(pos.list, file_recovery)
      /\ Accounted(pos.list, file_recovery, destination, SpaceOf(disk))
  <2>1. FileLike(file_recovery, file_recovery)
    BY <1>2 DEF FileLike
  <2> QED
    BY <1>2, <1>5, <2>1, CutMoves
<1> HIDE DEF s, n
<1>7. a \in Searches(pos.list, file_recovery)
  BY <1>4, <1>6, SectorsStay
<1> HIDE DEF a
<1>8. b \in Searches(pos.list, file_recovery)
  BY <1>5, <1>7, AppendsStay
<1> HIDE DEF b
<1>9. z \in Searches(pos.list, file_recovery)
  BY <1>4, <1>8, SectorsStay
<1> HIDE DEF z
<1> QED
  BY <1>1, <1>2, <1>6, <1>9, ExitOK, CallsPadOK

\* The tries of photorec_bf_frag_fast are used up.
LEMMA TryEndsOK ==
    ASSUME BruteInv, TryEnds
    PROVE  BruteInv'
<1>1. /\ pc = "try" /\ stack' = Tail(stack) /\ pc' = "cut" /\ pos' = pos
      /\ file_recovery' = file_recovery /\ destination' = destination
      /\ disk' = disk /\ format' = format /\ result' = result
  BY DEF TryEnds, search_unchanged, fixed
<1>2. stack # << >> /\ Head(stack).kind = "fast" /\ file_recovery.on
  BY <1>1 DEF BruteInv, CallsInv, FileInv
<1>3. FramesOK(Tail(stack)) /\ Tail(stack) # << >> /\ Head(Tail(stack)).kind = "slow"
  BY <1>2, InvFacts, TailFrames
<1>4. PlaceInv(pos', pc')
  BY <1>1, PlaceElsewhere DEF BruteInv
<1>5. FileInv(pos', file_recovery', destination', pc', result', SpaceOf(disk'))
  BY <1>1, <1>2, InvFacts DEF FileInv
<1>6. CallsInv(stack', pc')
  BY <1>1, <1>3 DEF CallsInv
<1> QED
  BY <1>1, <1>4, <1>5, <1>6, InvFacts DEF BruteInv

\* photorec_bf_frag cuts the file one block earlier.
LEMMA CutOK ==
    ASSUME BruteInv, Cut
    PROVE  BruteInv'
<1> DEFINE s == file_block_truncate_and_move(Search(pos, file_recovery), Top.at)
<1>1. /\ pc = "cut" /\ CutHere /\ pos' = At_s(s)
      /\ file_recovery' = [ s.file EXCEPT !.offset_error = 0 ]
      /\ stack' = << [ Top EXCEPT !.i = 0 ] >> \o Tail(stack)
      /\ pc' = "skip" /\ destination' = destination
      /\ disk' = disk /\ format' = format /\ result' = result
  BY Zenon DEF Cut, search_unchanged, fixed
<1>2. file_recovery.on /\ file_recovery \in FileRec /\ stack # << >> /\ Head(stack).kind = "slow"
  BY <1>1, InvFacts DEF BruteInv, FileInv, CallsInv
<1>3. Top \in Frame /\ Top.at \in Nat /\ Top.at >= BS
  <2>1. Top \in Frame
    BY <1>2, InvFacts, TailFrames DEF Top
  <2> QED
    BY <1>1, <2>1 DEF CutHere, Frame
<1>4. /\ Accounted(s.list, s.file, destination, SpaceOf(disk)) /\ s.file.on /\ s.file \in FileRec
      /\ PlaceInv(At_s(s), "check") /\ At_s(s).list = s.list
  <2>1. FileLike(file_recovery, file_recovery)
    BY <1>2 DEF FileLike
  <2> QED
    BY <1>2, <1>3, <2>1, CutMoves
<1> HIDE DEF s
<1>5. FileLike(file_recovery', s.file)
  <2>1. << >> \in Seq(Nat) /\ 0 \in Nat
    OBVIOUS
  <2>2. FileLike([ s.file EXCEPT !.offset_error = 0 ], s.file)
    BY ONLY <1>4, <2>1, FileChanged
  <2> QED
    BY <1>1, <2>2
<1>6. PICK e \in Frame : e = [ Top EXCEPT !.i = 0 ] /\ e.kind = Top.kind /\ e.at = Top.at
  BY <1>3, FrameGoesOn
<1>7. PICK calls : calls = << e >> \o Tail(stack)
  OBVIOUS
<1>8. FramesOK(calls) /\ calls # << >> /\ Head(calls) = e
  BY <1>2, <1>6, <1>7, InvFacts, TopFrames DEF Top
<1>9. PlaceInv(pos', pc')
  BY <1>1, <1>4, PlaceElsewhere
<1>10. FileInv(pos', file_recovery', destination', pc', result', SpaceOf(disk'))
  <2>1. Accounted(s.list, file_recovery', destination, SpaceOf(disk)) /\ file_recovery'.on
    BY <1>4, <1>5, LikeAccounted DEF FileLike
  <2> QED
    BY <1>1, <1>4, <2>1 DEF FileInv
<1>11. CallsInv(stack', pc')
  <2>1. stack' = calls /\ e.kind = "slow"
    BY <1>1, <1>2, <1>6, <1>7 DEF Top
  <2> QED
    BY <1>1, <1>3, <1>6, <1>8, <2>1 DEF CallsInv
<1> QED
  BY <1>1, <1>9, <1>10, <1>11, InvFacts DEF BruteInv
\* A call returns.
LEMMA ReturnsOK ==
    ASSUME BruteInv, PlaceInv(pos', "check"), NEW calls, FramesOK(calls), NEW r, Returns(calls, r),
           Accounted(pos'.list, file_recovery', destination', SpaceOf(disk)),
           r \notin Final => file_recovery'.on, disk' = disk, format' = format
    PROVE  BruteInv'
<1>1. stack' = calls /\ result' = r /\ pc' = "back"
  BY DEF Returns
<1>2. PlaceInv(pos', pc')
  BY <1>1, PlaceElsewhere
<1>3. FileInv(pos', file_recovery', destination', pc', result', SpaceOf(disk'))
  BY <1>1 DEF FileInv
<1>4. CallsInv(stack', pc')
  BY <1>1, CallsElsewhere
<1> QED
  BY <1>2, <1>3, <1>4, InvFacts DEF BruteInv

\* A place in the list is one wherever the pass goes on.
LEMMA PlaceHere ==
    ASSUME BruteInv
    PROVE  PlaceInv(pos, "check")
  BY PlaceElsewhere DEF BruteInv

\* photorec_bf_frag has no block left to cut at.
LEMMA CutsEndOK ==
    ASSUME BruteInv, CutsEnd
    PROVE  BruteInv'
<1>1. /\ pc = "cut" /\ Returns(Tail(stack), "ENOENT") /\ pos' = pos
      /\ file_recovery' = file_recovery /\ destination' = destination
      /\ disk' = disk /\ format' = format
  BY DEF CutsEnd, search_unchanged, fixed
<1>2. file_recovery.on /\ FramesOK(Tail(stack))
  BY <1>1, InvFacts, TailFrames DEF BruteInv, FileInv, CallsInv
<1> QED
  BY <1>1, <1>2, InvFacts, PlaceHere, ReturnsOK

\* photorec_bf_frag restores the file, skips blocks and pads it.
LEMMA SkipOK ==
    ASSUME BruteInv, Skip
    PROVE  BruteInv'
<1> DEFINE h == [ file_recovery EXCEPT !.size = Top.at, !.offset_error = 0, !.extra = 0 ]
           s == file_block_truncate_and_move(Search(pos, h), Top.at)
           t == IF Skipped < 0 THEN Times(2 + Skipped, get_next_header, s)
                ELSE Times(Skipped, NextSector, s)
           z == [ t EXCEPT !.file.offset_error = Top.at ]
<1>1. /\ pc = "skip"
      /\ IF Skipped > 0 /\ t.cur = 0
           THEN /\ pos' = At_s(t) /\ file_recovery' = t.file
                /\ Returns(Tail(stack), "ENOENT")
         ELSE CallsPad(z) /\ UNCHANGED result
      /\ destination' = destination /\ disk' = disk /\ format' = format
  BY Zenon DEF Skip, Restored, search_unchanged, fixed
<1>2. /\ file_recovery.on /\ file_recovery \in FileRec /\ stack # << >>
      /\ Top.kind = "slow" /\ Top.at >= BS
  BY <1>1, InvFacts DEF BruteInv, FileInv, CallsInv, Top
<1>3. Top \in Frame /\ FramesOK(Tail(stack))
  BY <1>2, InvFacts, TailFrames DEF Top
<1>4. Top.at \in Nat /\ Skipped \in Int /\ 2 + Skipped \in Int
  BY <1>3 DEF Frame, Skipped
<1>5. FileLike(h, file_recovery)
  <2>1. << >> \in Seq(Nat) /\ 0 \in Nat
    OBVIOUS
  <2> QED
    BY ONLY <1>2, <1>4, <2>1, FileChanged
<1> HIDE DEF h
<1>6. s \in Searches(pos.list, h) /\ Accounted(pos.list, h, destination, SpaceOf(disk)) /\ h.on
  BY <1>2, <1>4, <1>5, CutMoves
<1> HIDE DEF s
<1>7. t \in Searches(pos.list, h)
  <2>1. Times(2 + Skipped, get_next_header, s) \in Searches(pos.list, h)
    BY <1>4, <1>6, HeadersStay
  <2>2. Times(Skipped, NextSector, s) \in Searches(pos.list, h)
    BY <1>4, <1>6, SectorsStay
  <2> QED
    BY <2>1, <2>2
<1> HIDE DEF t
<1>8. /\ t \in Partings(pos.list, h) /\ t \in SearchRec
  BY <1>7 DEF Searches, Partings
<1>9. z \in Searches(pos.list, h)
  <2>1. PICK g : g = [ t.file EXCEPT !.offset_error = Top.at ]
    OBVIOUS
  <2>2. t.file \in FileRec
    BY <1>8 DEF SearchRec
  <2>3. FileLike(g, t.file) /\ g.handle = t.file.handle
    <3>1. << >> \in Seq(Nat) /\ 0 \in Nat
      OBVIOUS
    <3>2. FileLike([ t.file EXCEPT !.offset_error = Top.at ], t.file)
      BY ONLY <1>4, <2>2, <3>1, FileChanged
    <3> QED
      BY <2>1, <2>2, <3>2 DEF FileRec
  <2>4. z = [ list |-> t.list, cur |-> t.cur, offset |-> t.offset, file |-> g,
              nbr |-> t.nbr, stop |-> t.stop, lost |-> t.lost ]
    BY <1>8, <2>1 DEF SearchRec
  <2>5. z \in SearchRec /\ z.list = t.list /\ z.cur = t.cur /\ z.offset = t.offset /\ z.file = g
    BY <1>8, <2>3, <2>4 DEF SearchRec, FileLike
  <2> HIDE DEF z
  <2> QED
    BY <1>7, <2>3, <2>5 DEF Searches, Partings, FileLike
<1> HIDE DEF z
<1>10. CASE Skipped > 0 /\ t.cur = 0
  <2>1. /\ Accounted(t.list, t.file, destination, SpaceOf(disk)) /\ t.file.on
        /\ PlaceInv(At_s(t), "check") /\ At_s(t).list = t.list
    BY <1>6, <1>8, SearchAccounted
  <2> QED
    BY <1>1, <1>3, <1>10, <2>1, ReturnsOK
<1>11. CASE ~ (Skipped > 0 /\ t.cur = 0)
  BY <1>1, <1>2, <1>6, <1>9, <1>11, CallsPadOK
<1> QED
  BY <1>10, <1>11

\* A stop that was asked for ends the file in progress.
LEMMA SkipStopsOK ==
    ASSUME BruteInv, SkipStops
    PROVE  BruteInv'
<1> DEFINE h == [ file_recovery EXCEPT !.size = Top.at, !.offset_error = 0, !.extra = 0 ]
           s == file_block_truncate_and_move(Search(pos, h), Top.at)
           r == file_finish_bf(s.file, destination, s.list)
<1>1. /\ pc = "skip"
      /\ pos' = [ At_s(s) EXCEPT !.list = r.list ]
      /\ file_recovery' = r.file /\ destination' = r.destination
      /\ Returns(Tail(stack), "STOP")
      /\ disk' = disk /\ format' = format
  BY Zenon DEF SkipStops, Restored, search_unchanged, fixed
<1>2. /\ file_recovery.on /\ file_recovery \in FileRec /\ stack # << >>
  BY <1>1, InvFacts DEF BruteInv, FileInv, CallsInv
<1>3. Top \in Frame /\ FramesOK(Tail(stack))
  BY <1>2, InvFacts, TailFrames DEF Top
<1>4. Top.at \in Nat
  BY <1>3 DEF Frame
<1>5. FileLike(h, file_recovery)
  <2>1. << >> \in Seq(Nat) /\ 0 \in Nat
    OBVIOUS
  <2> QED
    BY ONLY <1>2, <1>4, <2>1, FileChanged
<1> HIDE DEF h
<1>6. /\ Accounted(s.list, s.file, destination, SpaceOf(disk))
      /\ PlaceInv(At_s(s), "check")
  BY <1>2, <1>4, <1>5, CutMoves
<1> HIDE DEF s
<1>7. Accounted(r.list, r.file, r.destination, SpaceOf(disk))
  BY <1>6, InvFacts, FinishBfIs
<1> HIDE DEF r
<1>8. PlaceInv(pos', "check") /\ pos'.list = r.list
  BY <1>1, <1>6, <1>7, AccountedList, PlaceWith
<1>9. "STOP" \in Final
  BY DEF Final
<1> QED
  BY <1>1, <1>3, <1>7, <1>8, <1>9, ReturnsOK

\* The blocks to skip are used up.
LEMMA SkipsEndOK ==
    ASSUME BruteInv, SkipsEnd
    PROVE  BruteInv'
<1>1. /\ pc = "skip" /\ pos' = pos
      /\ file_recovery' = file_recovery /\ destination' = destination
      /\ disk' = disk /\ format' = format
      /\ \/ Returns(Tail(stack), "ERANGE")
         \/ /\ stack' = << [ Top EXCEPT !.at = @ - BS ] >> \o Tail(stack)
            /\ pc' = "cut" /\ result' = result
  BY DEF SkipsEnd, search_unchanged, fixed
<1>2. /\ file_recovery.on /\ stack # << >> /\ Top.kind = "slow" /\ Top.at >= BS
  BY <1>1 DEF BruteInv, FileInv, CallsInv, Top
<1>3. Top \in Frame /\ FramesOK(Tail(stack))
  BY <1>2, InvFacts, TailFrames DEF Top
<1>4. CASE Returns(Tail(stack), "ERANGE")
  BY <1>1, <1>2, <1>3, <1>4, InvFacts, PlaceHere, ReturnsOK
<1>5. CASE /\ stack' = << [ Top EXCEPT !.at = @ - BS ] >> \o Tail(stack)
           /\ pc' = "cut" /\ result' = result
  <2>1. PICK e \in Frame : e = [ Top EXCEPT !.at = @ - BS ] /\ e.kind = Top.kind
    BY <1>2, <1>3, FrameGoesOn
  <2>2. PICK calls : calls = << e >> \o Tail(stack)
    OBVIOUS
  <2>3. FramesOK(calls) /\ calls # << >> /\ Head(calls) = e
    <3>1. FramesOK(stack) /\ stack # << >>
      BY <1>2, InvFacts
    <3>2. e.kind = Head(stack).kind
      BY <2>1 DEF Top
    <3> QED
      BY <2>1, <2>2, <3>1, <3>2, TopFrames
  <2>4. stack' = calls
    BY <1>5, <2>1, <2>2
  <2>5. CallsInv(stack', pc')
    BY <1>2, <1>5, <2>1, <2>3, <2>4 DEF CallsInv
  <2>6. PlaceInv(pos', pc')
    BY <1>1, <1>5, PlaceElsewhere DEF BruteInv
  <2>7. FileInv(pos', file_recovery', destination', pc', result', SpaceOf(disk'))
    BY <1>1, <1>2, <1>5, InvFacts DEF FileInv
  <2> QED
    BY <1>1, <2>5, <2>6, <2>7, InvFacts DEF BruteInv
<1> QED
  BY <1>1, <1>4, <1>5

\* A block cannot be written while the file is padded.
LEMMA PadFailsOK ==
    ASSUME BruteInv, PadFails
    PROVE  BruteInv'
<1>1. /\ pc = "pad" /\ file_recovery' = [ file_recovery EXCEPT !.handle = FALSE ]
      /\ Returns(Tail(stack), "ENOSPC") /\ pos' = pos /\ destination' = destination
      /\ disk' = disk /\ format' = format
  BY DEF PadFails, search_unchanged, fixed
<1>2. /\ file_recovery \in FileRec /\ FramesOK(Tail(stack))
  BY <1>1, InvFacts, TailFrames DEF BruteInv, CallsInv
<1>3. FileLike(file_recovery', file_recovery)
  <2>1. << >> \in Seq(Nat) /\ 0 \in Nat
    OBVIOUS
  <2>2. FileLike([ file_recovery EXCEPT !.handle = FALSE ], file_recovery)
    BY ONLY <1>2, <2>1, FileChanged
  <2> QED
    BY <1>1, <2>2
<1>4. Accounted(pos.list, file_recovery', destination, SpaceOf(disk))
  BY <1>3, InvFacts, LikeAccounted
<1>5. "ENOSPC" \in Final
  BY DEF Final
<1> QED
  BY <1>1, <1>2, <1>4, <1>5, PlaceHere, ReturnsOK

\* The padded file is checked: kept, or its error answers the call.
LEMMA PadOK ==
    ASSUME BruteInv, Pad
    PROVE  BruteInv'
<1> DEFINE t == photorec_bf_pad(Search(pos, file_recovery))
           r == file_finish_bf(t.file, destination, t.list)
           c == photorec_bf_frag(t.file, Top.frag + 1, stack)
<1>1. /\ pc = "pad" /\ disk' = disk /\ format' = format
      /\ \/ pc' = "exit" /\ UNCHANGED << pos, file_recovery, destination, stack, result >>
         \/ /\ pos' = [ At_s(t) EXCEPT !.list = r.list ]
            /\ file_recovery' = r.file /\ destination' = r.destination
            /\ Returns(Tail(stack), "OK")
         \/ /\ pos' = At_s(t) /\ destination' = destination /\ file_recovery' = t.file
            /\ pc' = BackToLoop /\ UNCHANGED << stack, result >>
         \/ /\ pos' = At_s(t) /\ destination' = destination /\ file_recovery' = t.file
            /\ stack' = Tail(stack) /\ result' = "ENOENT"
            /\ pc' = IF Top.kind = "fast" THEN "cut" ELSE "back"
         \/ /\ pos' = At_s(t) /\ destination' = destination /\ file_recovery' = c.file
            /\ stack' = c.stack /\ pc' = c.pc /\ UNCHANGED result
  BY Zenon DEF Pad, search_unchanged, fixed
<1>2. /\ file_recovery.on /\ file_recovery \in FileRec /\ stack # << >>
      /\ pos.cur \in 0 .. Len(pos.list)
      /\ Top.kind = "slow" => Top.at >= BS
  BY <1>1, InvFacts DEF BruteInv, FileInv, CallsInv, PlaceInv, Top
<1>3. /\ Top \in Frame /\ FramesOK(Tail(stack))
      /\ Top.kind = "fast" => Tail(stack) # << >> /\ Head(Tail(stack)).kind = "slow"
  BY <1>2, InvFacts, TailFrames DEF Top
<1>4. Search(pos, file_recovery) \in Searches(pos.list, file_recovery)
  <2>1. ListOK(pos.list, BS) /\ LocationOK(file_recovery.location, BS)
        /\ Disjoint(pos.list, file_recovery.location) /\ pos.offset \in Nat /\ pos.offset % BS = 0
    BY InvFacts
  <2> QED
    BY ONLY <1>2, <2>1, SearchStarts
<1>5. t \in Searches(pos.list, file_recovery)
  BY <1>4, InvFacts, PadStays
<1> HIDE DEF t
<1>6. /\ Accounted(t.list, t.file, destination, SpaceOf(disk)) /\ t.file.on /\ t.file \in FileRec
      /\ PlaceInv(At_s(t), "check") /\ At_s(t).list = t.list
  <2>1. t \in Partings(pos.list, file_recovery)
    BY <1>5 DEF Searches
  <2> QED
    BY <1>2, <2>1, InvFacts, SearchAccounted
<1>7. Accounted(r.list, r.file, r.destination, SpaceOf(disk))
  BY <1>6, InvFacts, FinishBfIs
<1> HIDE DEF r
<1>8. /\ FramesOK(c.stack) /\ c.stack # << >>
      /\ \/ c.pc = "try" /\ Head(c.stack).kind = "fast"
         \/ c.pc = "cut" /\ Head(c.stack).kind = "slow"
      /\ FileLike(c.file, t.file)
  <2>1. Top.frag + 1 \in Nat
    BY <1>3 DEF Frame
  <2> QED
    BY <1>6, <2>1, InvFacts, FragIs
<1> HIDE DEF c
<1>9. CASE pc' = "exit" /\ UNCHANGED << pos, file_recovery, destination, stack, result >>
  BY <1>1, <1>9, ExitOK
<1>10. CASE /\ pos' = [ At_s(t) EXCEPT !.list = r.list ]
            /\ file_recovery' = r.file /\ destination' = r.destination
            /\ Returns(Tail(stack), "OK")
  <2>1. PlaceInv(pos', "check") /\ pos'.list = r.list
    BY <1>6, <1>7, <1>10, AccountedList, PlaceWith
  <2>2. "OK" \in Final
    BY DEF Final
  <2> QED
    BY <1>1, <1>3, <1>7, <1>10, <2>1, <2>2, ReturnsOK
<1>11. CASE /\ pos' = At_s(t) /\ destination' = destination /\ file_recovery' = t.file
            /\ pc' = BackToLoop /\ UNCHANGED << stack, result >>
  <2>1. pc' = IF Top.kind = "fast" THEN "try" ELSE "skip"
    BY <1>11 DEF BackToLoop
  <2>2. Top.kind \in { "slow", "fast" }
    BY <1>3 DEF Frame
  <2>3. PlaceInv(pos', pc')
    BY <1>6, <1>11, <2>1, PlaceElsewhere
  <2>4. FileInv(pos', file_recovery', destination', pc', result', SpaceOf(disk'))
    BY <1>1, <1>6, <1>11, <2>1 DEF FileInv
  <2>5. CallsInv(stack', pc')
    BY <1>2, <1>11, <2>1, <2>2, InvFacts DEF CallsInv, Top
  <2> QED
    BY <1>1, <2>3, <2>4, <2>5, InvFacts DEF BruteInv
<1>12. CASE /\ pos' = At_s(t) /\ destination' = destination /\ file_recovery' = t.file
            /\ stack' = Tail(stack) /\ result' = "ENOENT"
            /\ pc' = IF Top.kind = "fast" THEN "cut" ELSE "back"
  <2>1. PlaceInv(pos', pc')
    BY <1>6, <1>12, PlaceElsewhere
  <2>2. FileInv(pos', file_recovery', destination', pc', result', SpaceOf(disk'))
    BY <1>1, <1>6, <1>12 DEF FileInv
  <2>3. CallsInv(stack', pc')
    BY <1>3, <1>12 DEF CallsInv
  <2> QED
    BY <1>1, <2>1, <2>2, <2>3, InvFacts DEF BruteInv
<1>13. CASE /\ pos' = At_s(t) /\ destination' = destination /\ file_recovery' = c.file
            /\ stack' = c.stack /\ pc' = c.pc /\ UNCHANGED result
  <2>1. PlaceInv(pos', pc')
    BY <1>6, <1>8, <1>13, PlaceElsewhere
  <2>2. Accounted(t.list, c.file, destination, SpaceOf(disk)) /\ c.file.on
    BY <1>6, <1>8, LikeAccounted DEF FileLike
  <2>3. FileInv(pos', file_recovery', destination', pc', result', SpaceOf(disk'))
    BY <1>1, <1>6, <1>8, <1>13, <2>2 DEF FileInv
  <2>4. CallsInv(stack', pc')
    BY <1>8, <1>13 DEF CallsInv
  <2> QED
    BY <1>1, <2>1, <2>3, <2>4, InvFacts DEF BruteInv
<1> QED
  BY <1>1, <1>9, <1>10, <1>11, <1>12, <1>13

\* A caller takes the answer of the call it made.
LEMMA ReturnOK ==
    ASSUME BruteInv, Return
    PROVE  BruteInv'
<1>1. /\ pc = "back" /\ stack # << >> /\ pos' = pos
      /\ file_recovery' = file_recovery /\ destination' = destination
      /\ disk' = disk /\ format' = format
      /\ \/ Top.kind = "fast" /\ result = "ENOENT" /\ pc' = "try" /\ UNCHANGED << stack, result >>
         \/ /\ Top.kind = "fast" /\ result = "ERANGE"
            /\ stack' = Tail(stack) /\ result' = "ENOENT" /\ pc' = "cut"
         \/ Returns(IF Top.kind = "fast" THEN Tail(Tail(stack)) ELSE Tail(stack),
                    IF result \in Final THEN result ELSE "ENOENT")
  BY DEF Return, Returns, search_unchanged, fixed
<1>2. result \notin Final => file_recovery.on
  BY <1>1 DEF BruteInv, FileInv
<1>3. /\ FramesOK(Tail(stack))
      /\ Top.kind = "fast" => Tail(stack) # << >> /\ Head(Tail(stack)).kind = "slow"
  BY <1>1, InvFacts, TailFrames DEF Top
<1>4. CASE Top.kind = "fast" /\ result = "ENOENT" /\ pc' = "try" /\ UNCHANGED << stack, result >>
  <2>1. file_recovery.on
    BY <1>2, <1>4 DEF Final
  <2>2. PlaceInv(pos', pc')
    BY <1>1, <1>4, PlaceElsewhere DEF BruteInv
  <2>3. FileInv(pos', file_recovery', destination', pc', result', SpaceOf(disk'))
    BY <1>1, <1>4, <2>1, InvFacts DEF FileInv
  <2>4. CallsInv(stack', pc')
    BY <1>1, <1>4, InvFacts DEF CallsInv, Top
  <2> QED
    BY <1>1, <2>2, <2>3, <2>4, InvFacts DEF BruteInv
<1>5. CASE /\ Top.kind = "fast" /\ result = "ERANGE"
           /\ stack' = Tail(stack) /\ result' = "ENOENT" /\ pc' = "cut"
  <2>1. file_recovery.on
    BY <1>2, <1>5 DEF Final
  <2>2. PlaceInv(pos', pc')
    BY <1>1, <1>5, PlaceElsewhere DEF BruteInv
  <2>3. FileInv(pos', file_recovery', destination', pc', result', SpaceOf(disk'))
    BY <1>1, <1>5, <2>1, InvFacts DEF FileInv
  <2>4. CallsInv(stack', pc')
    BY <1>3, <1>5 DEF CallsInv
  <2> QED
    BY <1>1, <2>2, <2>3, <2>4, InvFacts DEF BruteInv
<1>6. CASE Returns(IF Top.kind = "fast" THEN Tail(Tail(stack)) ELSE Tail(stack),
                   IF result \in Final THEN result ELSE "ENOENT")
  <2>1. PICK calls : calls = IF Top.kind = "fast" THEN Tail(Tail(stack)) ELSE Tail(stack)
    OBVIOUS
  <2>2. FramesOK(calls)
    <3>1. CASE Top.kind = "fast"
      <4>1. FramesOK(Tail(stack)) /\ Tail(stack) # << >>
        BY <1>3, <3>1
      <4>2. FramesOK(Tail(Tail(stack)))
        BY <4>1, TailFrames
      <4> QED
        BY <2>1, <3>1, <4>2
    <3>2. CASE Top.kind # "fast"
      BY <1>3, <2>1, <3>2
    <3> QED
      BY <3>1, <3>2
  <2>3. PICK r : r = IF result \in Final THEN result ELSE "ENOENT"
    OBVIOUS
  <2>4. r \notin Final => file_recovery'.on
    BY <1>1, <1>2, <2>3
  <2>5. Returns(calls, r)
    BY <1>6, <2>1, <2>3
  <2> QED
    BY <1>1, <2>2, <2>4, <2>5, InvFacts, PlaceHere, ReturnsOK
<1> QED
  BY <1>1, <1>4, <1>5, <1>6

\* photorec_bf_aux ends and the file with it.
LEMMA AuxEndsOK ==
    ASSUME BruteInv, AuxEnds
    PROVE  BruteInv'
<1> DEFINE r == file_finish2(file_recovery, destination, pos.list)
<1>1. /\ pc = "back" /\ pc' = "leave"
      /\ pos' = [ pos EXCEPT !.list = r.list ]
      /\ file_recovery' = r.file /\ destination' = r.destination
      /\ disk' = disk /\ format' = format /\ stack' = stack /\ result' = result
  BY Zenon DEF AuxEnds, Finished, fixed, search_vars
<1>2. Accounted(r.list, r.file, r.destination, SpaceOf(disk)) /\ r.file.location = << >>
  BY InvFacts, Finish2Is
<1> HIDE DEF r
<1>3. PlaceInv(pos', "check") /\ pos'.list = r.list
  BY <1>1, <1>2, AccountedList, PlaceHere, PlaceWith
<1>4. PlaceInv(pos', pc')
  BY <1>1, <1>3, PlaceElsewhere
<1>5. FileInv(pos', file_recovery', destination', pc', result', SpaceOf(disk'))
  BY <1>1, <1>2, <1>3 DEF FileInv
<1>6. CallsInv(stack', pc')
  BY <1>1, InvFacts, CallsElsewhere
<1> QED
  BY <1>1, <1>4, <1>5, <1>6, InvFacts DEF BruteInv

\* The pass leaves the extent.
LEMMA LeaveOK ==
    ASSUME BruteInv, Leave
    PROVE  BruteInv'
<1>1. /\ pc = "leave" /\ pc' \in { "freed", "extent" } /\ pos' = pos
      /\ file_recovery' = file_recovery /\ destination' = destination
      /\ disk' = disk /\ format' = format /\ stack' = stack /\ result' = result
  BY Zenon DEF Leave, fixed, search_vars
<1>2. PlaceInv(pos', pc')
  BY <1>1, PlaceElsewhere DEF BruteInv
<1>3. FileInv(pos', file_recovery', destination', pc', result', SpaceOf(disk'))
  BY <1>1 DEF BruteInv, FileInv
<1>4. CallsInv(stack', pc')
  BY <1>1, InvFacts, CallsElsewhere
<1> QED
  BY <1>1, <1>2, <1>3, <1>4, InvFacts DEF BruteInv

\* A stop, or nothing at all, changes nothing of the invariant.
LEMMA StopOK ==
    ASSUME BruteInv,
           UNCHANGED << disk, format, pos, file_recovery, stack, result, pc, destination >>
    PROVE  BruteInv'
  BY DEF BruteInv

\* The destination fills up.
LEMMA FillUpOK ==
    ASSUME BruteInv, FillUp
    PROVE  BruteInv'
<1>1. /\ destination' = [ destination EXCEPT !.full = TRUE ]
      /\ UNCHANGED << disk, format, pos, file_recovery, stack, result, pc >>
  BY DEF FillUp, fixed, search_vars
<1>2. destination' \in Destinations /\ destination'.kept = destination.kept
  <2>1. PICK d \in Destinations : d = destination
    BY InvFacts
  <2>2. destination' = [ kept |-> d.kept, file_nbr |-> d.file_nbr,
                         allocation_end |-> d.allocation_end, before |-> d.before, full |-> TRUE ]
    BY <1>1, <2>1 DEF Destinations
  <2> QED
    BY <2>1, <2>2 DEF Destinations
<1>3. Accounted(pos.list, file_recovery, destination', SpaceOf(disk))
  BY <1>2, InvFacts DEF Accounted
<1>4. FileInv(pos', file_recovery', destination', pc', result', SpaceOf(disk'))
  BY <1>1, <1>3 DEF BruteInv, FileInv
<1> QED
  BY <1>1, <1>4 DEF BruteInv

\* Every step of the pass keeps the invariant,
LEMMA BruteInvNext ==
    ASSUME BruteInv, [Next]_brute_vars
    PROVE  BruteInv'
<1>1. CASE StartExtent
  BY <1>1, StartExtentOK
<1>2. CASE EndPhase
  BY <1>2, EndPhaseOK
<1>3. CASE ReadBlocks
  BY <1>3, ReadBlocksOK
<1>4. CASE CheckFile
  BY <1>4, CheckFileOK
<1>5. CASE Aux
  BY <1>5, AuxOK
<1>6. CASE Try
  BY <1>6, TryOK
<1>7. CASE TryEnds
  BY <1>7, TryEndsOK
<1>8. CASE Cut
  BY <1>8, CutOK
<1>9. CASE CutsEnd
  BY <1>9, CutsEndOK
<1>10. CASE Skip
  BY <1>10, SkipOK
<1>11. CASE Pad
  BY <1>11, PadOK
<1>12. CASE PadFails
  BY <1>12, PadFailsOK
<1>13. CASE SkipStops
  BY <1>13, SkipStopsOK
<1>14. CASE SkipsEnd
  BY <1>14, SkipsEndOK
<1>15. CASE Return
  BY <1>15, ReturnOK
<1>16. CASE AuxEnds
  BY <1>16, AuxEndsOK
<1>17. CASE Leave
  BY <1>17, LeaveOK
<1>18. CASE kaifuku_stop
  BY <1>18, StopOK DEF kaifuku_stop, fixed, search_vars
<1>19. CASE FillUp
  BY <1>19, FillUpOK
<1>20. CASE End \/ UNCHANGED brute_vars
  BY <1>20, StopOK DEF End, brute_vars
<1> QED
  BY <1>1, <1>2, <1>3, <1>4, <1>5, <1>6, <1>7, <1>8, <1>9, <1>10, <1>11, <1>12, <1>13, <1>14,
     <1>15, <1>16, <1>17, <1>18, <1>19, <1>20 DEF Next, Pass

-----------------------------------------------------------------------------
(* What it gives *)

\* and the invariant accounts for every byte.
LEMMA BruteInvGives == BruteInv => BytesAccounted
<1> SUFFICES ASSUME BruteInv
             PROVE  BytesAccounted
  OBVIOUS
<1>1. /\ ListOK(pos.list, BS) /\ LocationOK(file_recovery.location, BS)
      /\ Disjoint(pos.list, file_recovery.location)
      /\ \A k \in destination.kept :
            /\ LocationOK(k.location, BS)
            /\ Disjoint(pos.list, k.location) /\ Disjoint(file_recovery.location, k.location)
      /\ \A j, k \in destination.kept : j # k => Disjoint(j.location, k.location)
      /\ \A a \in Int : InList(a, pos.list) \/ InList(a, file_recovery.location)
                          \/ InKept(a, destination.kept) <=> InList(a, SpaceOf(disk))
  BY InvFacts DEF Accounted, Whole
<1>2. WellFormed(pos.list) /\ pos.list \in Seq(Extent)
  BY <1>1 DEF ListOK
<1>3. \A a : a \in Bytes(pos.list) <=> a \in Int /\ InList(a, pos.list)
  BY <1>2, ListBytes
<1>4. \A a : a \in Held <=> a \in Int /\ InList(a, file_recovery.location)
  <2>1. file_recovery.location \in Seq(Element)
    BY <1>1 DEF LocationOK
  <2> QED
    BY <2>1, LocationBytes DEF Held
<1>5. \A k \in destination.kept : \A a : a \in Bytes(k.location) <=> a \in Int /\ InList(a, k.location)
  <2> TAKE k \in destination.kept
  <2>1. k.location \in Seq(Element)
    BY <1>1 DEF LocationOK
  <2> QED
    BY <2>1, LocationBytes
<1>6. \A a : a \in KeptBytes <=> a \in Int /\ InKept(a, destination.kept)
  BY <1>5 DEF KeptBytes, InKept
<1>7. \A a : a \in Bytes(SpaceOf(disk)) <=> a \in Int /\ InList(a, SpaceOf(disk))
  <2>1. SpaceOf(disk) \in Seq(Extent)
    BY SpaceIs DEF ListOK
  <2> QED
    BY <2>1, ListBytes
<1>8. Bytes(pos.list) \cap (Held \cup KeptBytes) = {} /\ Held \cap KeptBytes = {}
  BY <1>1, <1>3, <1>4, <1>6 DEF Disjoint, InKept
<1>9. \A j, k \in destination.kept : j # k => Bytes(j.location) \cap Bytes(k.location) = {}
  BY <1>1, <1>5 DEF Disjoint
<1>10. Bytes(pos.list) \cup Held \cup KeptBytes = Bytes(SpaceOf(disk))
  BY <1>1, <1>3, <1>4, <1>6, <1>7
<1> QED
  BY <1>2, <1>8, <1>9, <1>10 DEF BytesAccounted

\* However often a file is cut, put together from pieces and given up, and
\* whatever its format says of it, each byte of the disk is in the search space,
\* in the file in progress or in one kept file (file_block_append,
\* file_block_truncate_and_move, file_finish_bf), for every disk, block size and
\* bound of the search.
THEOREM BruteAccounts == Spec => []BytesAccounted
<1>1. BruteInv /\ [Next]_brute_vars => BruteInv'
  BY BruteInvNext
<1> QED
  BY BruteInvInit, <1>1, BruteInvGives, PTL DEF Spec

-----------------------------------------------------------------------------
(* The files kept are whole *)

\* A file whose format gives it a size begins with all the blocks of one file.
LEMMA CheckedIs ==
    ASSUME NEW f \in FileRec, NEW c, c = file_check(f), c.size # 0
    PROVE  /\ c.size = RightBlocks(f.written) * BS
           /\ RightBlocks(f.written) = Length(disk[f.written[1]].file)
           /\ RightBlocks(f.written) # 0 /\ c.written = f.written
<1> DEFINE right == RightBlocks(f.written)
           L     == Len(f.written)
           name  == disk[f.written[1]].file
           seen  == IF right + format.late < L THEN right + format.late
                    ELSE IF right < L THEN L - 1 ELSE right
           there == { q \in seen + 2 .. L : disk[f.written[q]] = [ file |-> name, k |-> seen ] }
           x     == IF format.marker /\ there # {}
                      THEN ((CHOOSE q \in there : \A y \in there : q <= y) - 1 - seen) * BS
                    ELSE 0
<1>1. c = IF right = 0 \/ name = "-" THEN [ f EXCEPT !.size = 0, !.offset_error = 0 ]
          ELSE IF right = Length(name)
            THEN [ f EXCEPT !.size = right * BS, !.offset_error = 0 ]
          ELSE IF ~ format.locates THEN [ f EXCEPT !.size = 0, !.offset_error = 0 ]
          ELSE [ f EXCEPT !.size = 0, !.offset_error = seen * BS + 1,
                          !.offset_ok = (right - 1) * BS + 1, !.extra = x ]
  BY Zenon DEF file_check
<1> HIDE DEF right, L, name, seen, there, x
<1>2. PICK none : none = [ f EXCEPT !.size = 0, !.offset_error = 0 ]
  OBVIOUS
<1>3. PICK wrong : wrong = [ f EXCEPT !.size = 0, !.offset_error = seen * BS + 1,
                                      !.offset_ok = (right - 1) * BS + 1, !.extra = x ]
  OBVIOUS
<1>4. none.size = 0 /\ wrong.size = 0
  BY <1>2, <1>3 DEF FileRec
<1>5. PICK good : good = [ f EXCEPT !.size = right * BS, !.offset_error = 0 ]
  OBVIOUS
<1>6. c = IF right = 0 \/ name = "-" THEN none
          ELSE IF right = Length(name) THEN good
          ELSE IF ~ format.locates THEN none ELSE wrong
  BY <1>1, <1>2, <1>3, <1>5, Zenon
<1>7. c # none /\ c # wrong
  BY <1>4
<1>8. right # 0 /\ right = Length(name) /\ c = [ f EXCEPT !.size = right * BS, !.offset_error = 0 ]
  BY <1>5, <1>6, <1>7, Zenon
<1>9. c.size = right * BS /\ c.written = f.written
  BY <1>8 DEF FileRec
<1> QED
  BY <1>8, <1>9 DEF right, name

\* What file_finish_aux closes with a size is one file.
LEMMA ClosedIsOne ==
    ASSUME format \in Formats, NEW f \in FileRec, NEW paranoid, NEW c,
           c = file_finish_aux(f, paranoid), c.size # 0
    PROVE  OneFile(c.written)
<1>1. PICK g : g = file_check(f)
  OBVIOUS
<1>2. SameFile(g, f) /\ \E r \in 0 .. Len(f.written) : g.size = r * BS
  BY <1>1, FileCheckIs
<1>3. c = IF g.size = 0 /\ paranoid = 2 THEN g
          ELSE IF g.size = 0 THEN [ g EXCEPT !.handle = FALSE, !.written = << >> ]
          ELSE [ g EXCEPT !.handle = FALSE, !.written = SubSeq(@, 1, g.size \div BS) ]
  BY <1>1, Zenon DEF file_finish_aux
<1>4. g \in FileRec
  BY <1>2 DEF SameFile
<1>5. [ g EXCEPT !.handle = FALSE, !.written = << >> ].size = g.size
  BY <1>4 DEF FileRec
<1>6. g.size # 0
  BY <1>3, <1>5
<1>7. c.written = SubSeq(g.written, 1, g.size \div BS)
  BY <1>3, <1>4, <1>6 DEF FileRec
<1>8. PICK w \in Seq(Nat) : w = f.written
  BY DEF FileRec
<1>9. PICK r \in 0 .. Len(w) : r = RightBlocks(w)
  BY RightBlocksIs
<1>10. PICK n : n = disk[w[1]].file
  OBVIOUS
<1>11. g.size = r * BS /\ r = Length(n) /\ r # 0 /\ g.written = w
  BY <1>1, <1>6, <1>8, <1>9, <1>10, CheckedIs
<1>12. \A i \in 1 .. r : disk[w[i]] = [ file |-> n, k |-> i - 1 ]
  BY <1>9, <1>10, RightBlocksIs
<1>13. PICK u : u = SubSeq(w, 1, r)
  OBVIOUS
<1>14. u = c.written
  <2>1. r \in Nat
    OBVIOUS
  <2>2. (r * BS) \div BS = r
    BY <2>1, BlocksDivided
  <2> QED
    BY <1>7, <1>11, <1>13, <2>2
<1>15. Len(u) = r /\ DOMAIN u = 1 .. r /\ \A i \in 1 .. r : u[i] = w[i]
  BY <1>13
<1>16. n \in { disk[a].file : a \in Blocks }
  <2>1. CASE { a \in Blocks : disk[a].file = n } = {}
    BY <1>11, <2>1, FS_EmptySet DEF Length
  <2> QED
    BY <2>1
<1>17. Len(u) = Length(n) /\ \A i \in DOMAIN u : disk[u[i]] = [ file |-> n, k |-> i - 1 ]
  BY <1>11, <1>12, <1>15
<1>18. OneFile(u)
  BY <1>16, <1>17, Zenon DEF OneFile
<1> QED
  BY <1>14, <1>18, Zenon

AllWhole(K) == \A k \in K : OneFile(k.written)

\* While the destination takes blocks, a file that is not open has none, and the
\* search that puts a file together has it open.
Open(f, label, answer) ==
    /\ ~ f.handle => f.location = << >>
    /\ label \in { "aux", "cut", "skip", "try", "pad" } => f.handle
    /\ label \in { "block", "check" } /\ f.on => f.handle
    /\ label = "back" /\ answer \notin Final => f.handle

WholeInv ==
    ~ destination.full => AllWhole(destination.kept) /\ Open(file_recovery, pc, result)

\* An open file is one wherever the pass goes on.
LEMMA OpenStays ==
    ASSUME NEW f, f.handle, NEW label, NEW answer
    PROVE  Open(f, label, answer)
  BY Zenon DEF Open

\* Files of the disk stay ones of it.
LEMMA StillWhole ==
    ASSUME disk' = disk, NEW K, AllWhole(K)
    PROVE  \A k \in K : OneFile(k.written)'
<1>1. \A n : Length(n)' = Length(n)
  BY DEF Length
<1>2. \A w : OneFile(w) => OneFile(w)'
  BY <1>1 DEF OneFile
<1> QED
  BY <1>2 DEF AllWhole

\* A step that leaves the destination alone and the file open.
LEMMA StillOpen ==
    ASSUME WholeInv, destination' = destination, disk' = disk,
           ~ destination.full /\ file_recovery.handle => file_recovery'.handle,
           pc \in { "aux", "cut", "skip", "try", "pad" } \/ (pc = "back" /\ result \notin Final)
    PROVE  WholeInv'
<1> SUFFICES ASSUME ~ destination'.full
             PROVE  AllWhole(destination.kept)' /\ Open(file_recovery, pc, result)'
  BY DEF WholeInv
<1>1. AllWhole(destination.kept) /\ Open(file_recovery, pc, result)
  BY DEF WholeInv
<1>2. file_recovery.handle
  BY <1>1 DEF Open
<1>3. Open(file_recovery', pc', result')
  BY <1>2, OpenStays
<1>4. AllWhole(destination.kept)'
  BY <1>1, StillWhole DEF AllWhole
<1> QED
  BY <1>3, <1>4

\* A step that leaves the file and the destination alone, between two extents.
LEMMA StillEmpty ==
    ASSUME WholeInv, destination' = destination, disk' = disk, file_recovery' = file_recovery,
           pc' \notin { "aux", "cut", "skip", "try", "pad", "block", "check", "back" }
    PROVE  WholeInv'
<1> SUFFICES ASSUME ~ destination'.full
             PROVE  AllWhole(destination.kept)' /\ Open(file_recovery, pc, result)'
  BY DEF WholeInv
<1>1. AllWhole(destination.kept) /\ Open(file_recovery, pc, result)
  BY DEF WholeInv
<1>2. Open(file_recovery', pc', result')
  BY <1>1 DEF Open
<1>3. AllWhole(destination.kept)'
  BY <1>1, StillWhole DEF AllWhole
<1> QED
  BY <1>2, <1>3

\* An empty location is cut to an empty one.
LEMMA EmptyStays ==
    ASSUME NEW l, ListOK(l, BS), NEW size \in Nat,
           NEW t, t = file_block_truncate(l, << >>, size, BS)
    PROVE  t.loc = << >>
<1>1. \A a \in Int : ~ (InList(a, l) /\ InList(a, << >>))
  BY EmptyLocation
<1>2. /\ t \in Progress /\ LocationOK(t.loc, BS)
      /\ \A a \in Int : InList(a, t.loc) => InList(a, << >>)
  <2>1. PICK loc : loc = << >>
    OBVIOUS
  <2>2. LocationOK(loc, BS) /\ \A a \in Int : ~ (InList(a, l) /\ InList(a, loc))
    BY <1>1, <2>1, EmptyLocation
  <2>3. t = file_block_truncate(l, loc, size, BS)
    BY <2>1
  <2>4. /\ t \in Progress /\ LocationOK(t.loc, BS)
        /\ \A a \in Int : InList(a, t.loc) => InList(a, loc)
    BY ONLY <2>2, <2>3, BlockSize, TruncateParts, size \in Nat, ListOK(l, BS)
  <2> QED
    BY <2>1, <2>4
<1>3. CASE t.loc # << >>
  <2>1. t.loc \in Seq(Element) /\ 1 \in 1 .. Len(t.loc)
    BY <1>2, <1>3 DEF LocationOK
  <2>2. t.loc[1] \in Element /\ t.loc[1].start <= t.loc[1].end
    BY <1>2, <2>1 DEF LocationOK, Apart
  <2>3. PICK a \in Int : a = t.loc[1].start
    BY <2>2 DEF Element
  <2>4. InList(a, t.loc)
    BY <2>1, <2>2, <2>3 DEF InList, In
  <2> QED
    BY <1>2, <2>4, EmptyLocation
<1> QED
  BY <1>3

\* What is kept of a file.
LEMMA KeepWhole ==
    ASSUME NEW f \in FileRec, NEW closed, NEW d \in Destinations, NEW l, ListOK(l, BS),
           NEW r, r = Keep(f, closed, d, l)
    PROVE  /\ AllWhole(d.kept) /\ (f.location = << >> \/ OneFile(f.written)) =>
                AllWhole(r.destination.kept)
           /\ r.destination.full = d.full /\ r.file.location = << >>
<1> DEFINE t == file_block_truncate(l, f.location, f.size, BS)
           g == [ location |-> t.loc, written |-> f.written ]
<1>1. r = [ list |-> t.list, file |-> [ f EXCEPT !.location = << >> ],
            destination |->
              [ d EXCEPT !.kept = IF t.loc = << >> THEN @ ELSE @ \cup { g },
                         !.file_nbr = @ + (IF closed THEN 1 ELSE 0),
                         !.allocation_end = IF t.loc = << >> THEN @ ELSE Last(t.loc).end ] ]
  BY Zenon DEF Keep
<1>2. f.location = << >> => t.loc = << >>
  <2>1. ASSUME f.location = << >>
        PROVE  t.loc = << >>
    <3>1. PICK z \in Nat : z = f.size
      BY DEF FileRec
    <3>2. PICK u : u = file_block_truncate(l, << >>, z, BS)
      OBVIOUS
    <3>3. u.loc = << >>
      BY <3>2, EmptyStays
    <3>4. u = t
      BY <2>1, <3>1, <3>2
    <3> HIDE DEF t
    <3> QED
      BY <3>3, <3>4
  <2> QED
    BY <2>1
<1> HIDE DEF t
<1>3. g.written = f.written
  OBVIOUS
<1> HIDE DEF g
<1>4. PICK J : J = IF t.loc = << >> THEN d.kept ELSE d.kept \cup { g }
  OBVIOUS
<1>5. AllWhole(d.kept) /\ (f.location = << >> \/ OneFile(f.written)) => AllWhole(J)
  BY <1>2, <1>3, <1>4 DEF AllWhole
<1>6. PICK n : n = d.file_nbr + (IF closed THEN 1 ELSE 0)
  OBVIOUS
<1>7. PICK e : e = IF t.loc = << >> THEN d.allocation_end ELSE Last(t.loc).end
  OBVIOUS
<1>8. PICK b : b = [ d EXCEPT !.kept = J, !.file_nbr = n, !.allocation_end = e ]
  OBVIOUS
<1>10. b.kept = J /\ b.full = d.full
  BY <1>8 DEF Destinations
<1>11. r.destination = b
  <2>1. b = [ d EXCEPT !.kept = IF t.loc = << >> THEN @ ELSE @ \cup { g },
                       !.file_nbr = @ + (IF closed THEN 1 ELSE 0),
                       !.allocation_end = IF t.loc = << >> THEN @ ELSE Last(t.loc).end ]
    BY <1>4, <1>6, <1>7, <1>8 DEF Destinations
  <2>2. PICK h : h = [ f EXCEPT !.location = << >> ]
    OBVIOUS
  <2>3. r = [ list |-> t.list, file |-> h, destination |-> b ]
    BY <1>1, <2>1, <2>2, Zenon
  <2> QED
    BY <2>3
<1>9. r.file.location = << >>
  BY <1>1 DEF FileRec
<1> QED
  BY <1>5, <1>9, <1>10, <1>11

\* What is closed with a size, if it was open, is one file.
LEMMA ClosedWhole ==
    ASSUME format \in Formats, NEW f \in FileRec, NEW paranoid,
           NEW c, c = IF f.handle THEN file_finish_aux(f, paranoid) ELSE f
    PROVE  /\ c \in FileRec /\ c.location = f.location
           /\ c.size # 0 /\ f.handle => OneFile(c.written)
           /\ c.size = 0 /\ paranoid = 2 => c.handle = f.handle
<1>1. c \in FileRec /\ c.location = f.location
  BY ClosedIs
<1>2. CASE f.handle
  <2>1. c = file_finish_aux(f, paranoid)
    BY <1>2
  <2>2. c.size # 0 => OneFile(c.written)
    BY <2>1, ClosedIsOne
  <2>3. ASSUME c.size = 0, paranoid = 2
        PROVE  c.handle = f.handle
    <3>1. PICK g : g = file_check(f)
      OBVIOUS
    <3>2. SameFile(g, f)
      BY <3>1, FileCheckIs
    <3>3. c = IF g.size = 0 /\ paranoid = 2 THEN g
              ELSE IF g.size = 0 THEN [ g EXCEPT !.handle = FALSE, !.written = << >> ]
              ELSE [ g EXCEPT !.handle = FALSE, !.written = SubSeq(@, 1, g.size \div BS) ]
      BY <2>1, <3>1, Zenon DEF file_finish_aux
    <3>4. PICK w : w = SubSeq(g.written, 1, g.size \div BS)
      OBVIOUS
    <3>5. g.size # 0 => c = [ g EXCEPT !.handle = FALSE, !.written = w ]
      BY <3>2, <3>3, <3>4 DEF SameFile, FileRec
    <3>6. g.size = 0
      BY <2>3, <3>2, <3>5 DEF SameFile, FileRec
    <3> QED
      BY <2>3, <3>2, <3>3, <3>6 DEF SameFile
  <2> QED
    BY <1>1, <2>2, <2>3
<1>3. CASE ~ f.handle
  BY <1>1, <1>3
<1> QED
  BY <1>2, <1>3

\* file_finish_bf keeps one file or none; it leaves an open file open, or with no block.
LEMMA FinishBfWhole ==
    ASSUME format \in Formats, NEW f, NEW d, NEW l, NEW m, Accounted(l, f, d, m),
           NEW r, r = file_finish_bf(f, d, l)
    PROVE  /\ AllWhole(d.kept) /\ (~ f.handle => f.location = << >>) =>
                /\ AllWhole(r.destination.kept)
                /\ ~ r.file.handle => r.file.location = << >>
           /\ r.destination.full = d.full
           /\ r.broken => f.on /\ (f.handle => r.file.handle)
<1>1. PICK c : c = IF f.handle THEN file_finish_aux(f, 2) ELSE f
  OBVIOUS
<1>2. /\ f \in FileRec /\ d \in Destinations /\ ListOK(l, BS)
  BY DEF Accounted, Whole
<1>3. /\ c \in FileRec /\ c.location = f.location
      /\ c.size # 0 /\ f.handle => OneFile(c.written)
      /\ c.size = 0 => c.handle = f.handle
  BY <1>1, <1>2, ClosedWhole
<1>4. r = IF ~ f.on THEN [ list |-> l, file |-> f, destination |-> d, broken |-> FALSE ]
          ELSE IF c.size = 0 /\ c.offset_error # 0
            THEN [ list |-> l, file |-> c, destination |-> d, broken |-> TRUE ]
          ELSE IF c.size = 0 THEN Answer(Reject(c, d, l), FALSE)
          ELSE Answer(Keep(c, f.handle, d, l), FALSE)
  BY <1>1, Zenon DEF file_finish_bf
<1>5. CASE ~ f.on
  <2>1. r = [ list |-> l, file |-> f, destination |-> d, broken |-> FALSE ]
    BY <1>4, <1>5
  <2> QED
    BY <2>1
<1>6. CASE f.on /\ c.size = 0 /\ c.offset_error # 0
  <2>1. r = [ list |-> l, file |-> c, destination |-> d, broken |-> TRUE ]
    BY <1>4, <1>6
  <2> QED
    BY <1>3, <1>6, <2>1
<1>7. CASE f.on /\ c.size = 0 /\ ~ (c.offset_error # 0)
  <2>1. PICK x : x = Reject(c, d, l)
    OBVIOUS
  <2>2. r = Answer(x, FALSE)
    BY <1>4, <1>7, <2>1, Zenon
  <2>3. x.file = NoFile /\ x.destination = d
    BY <2>1 DEF Reject
  <2> QED
    BY <2>2, <2>3, NoFileIs DEF Answer
<1>8. CASE f.on /\ c.size # 0
  <2>1. PICK x : x = Keep(c, f.handle, d, l)
    OBVIOUS
  <2>2. r = Answer(x, FALSE)
    BY <1>4, <1>8, <2>1, Zenon
  <2>3. /\ AllWhole(d.kept) /\ (c.location = << >> \/ OneFile(c.written)) =>
             AllWhole(x.destination.kept)
        /\ x.destination.full = d.full
        /\ x.file.location = << >>
    BY <1>2, <1>3, <1>8, <2>1, KeepWhole
  <2> QED
    BY <1>3, <1>8, <2>2, <2>3 DEF Answer
<1> QED
  BY <1>5, <1>6, <1>7, <1>8

\* file_finish2 keeps one file or none and leaves none with a block.
LEMMA Finish2Whole ==
    ASSUME format \in Formats, NEW f, NEW d, NEW l, NEW m, Accounted(l, f, d, m),
           NEW r, r = file_finish2(f, d, l)
    PROVE  /\ AllWhole(d.kept) /\ (~ f.handle => f.location = << >>) => AllWhole(r.destination.kept)
           /\ r.destination.full = d.full
<1>1. PICK c : c = IF f.handle THEN file_finish_aux(f, 1) ELSE f
  OBVIOUS
<1>2. /\ f \in FileRec /\ d \in Destinations /\ ListOK(l, BS)
  BY DEF Accounted, Whole
<1>3. /\ c \in FileRec /\ c.location = f.location
      /\ c.size # 0 /\ f.handle => OneFile(c.written)
  BY <1>1, <1>2, ClosedWhole
<1>4. r = IF ~ f.on THEN [ list |-> l, file |-> f, destination |-> d ]
          ELSE IF c.size = 0 THEN Reject(c, d, l)
          ELSE [ Keep(c, f.handle, d, l) EXCEPT !.file = NoFile ]
  BY <1>1, Zenon DEF file_finish2
<1>5. CASE ~ f.on
  <2>1. r = [ list |-> l, file |-> f, destination |-> d ]
    BY <1>4, <1>5
  <2> QED
    BY <2>1
<1>6. CASE f.on /\ c.size = 0
  <2>1. r = Reject(c, d, l)
    BY <1>4, <1>6
  <2> QED
    BY <2>1 DEF Reject
<1>7. CASE f.on /\ c.size # 0
  <2>1. PICK x : x = Keep(c, f.handle, d, l)
    OBVIOUS
  <2>2. r = [ x EXCEPT !.file = NoFile ]
    BY <1>4, <1>7, <2>1, Zenon
  <2>3. /\ AllWhole(d.kept) /\ (c.location = << >> \/ OneFile(c.written)) =>
             AllWhole(x.destination.kept)
        /\ x.destination.full = d.full
    BY <1>2, <1>3, <1>7, <2>1, KeepWhole
  <2>4. DOMAIN x = { "list", "file", "destination" }
    BY <2>1 DEF Keep
  <2>5. r.destination = x.destination
    BY <2>2, <2>4
  <2> QED
    BY <1>3, <1>7, <2>3, <2>5
<1> QED
  BY <1>5, <1>6, <1>7

\* A file changed in its sizes and offsets is as open as it was,
LEMMA OpenChanged ==
    ASSUME NEW f \in FileRec, NEW z, NEW e, NEW x
    PROVE  /\ [ f EXCEPT !.size = z, !.offset_error = e, !.extra = x ].handle = f.handle
           /\ [ f EXCEPT !.offset_error = e ].handle = f.handle
           /\ [ f EXCEPT !.extra = x ].handle = f.handle
  BY DEF FileRec

\* also when photorec_bf_frag begins,
LEMMA FragOpen ==
    ASSUME NEW f \in FileRec, NEW frag, NEW calls
    PROVE  photorec_bf_frag(f, frag, calls).file.handle = f.handle
<1>1. PICK h : h = [ f EXCEPT !.extra = 0 ]
  OBVIOUS
<1>2. h.handle = f.handle
  BY <1>1, OpenChanged
<1>3. PICK c : c = photorec_bf_frag(f, frag, calls)
  OBVIOUS
<1>4. c.file = h \/ c.file = f
  BY <1>1, <1>3 DEF photorec_bf_frag
<1> QED
  BY <1>2, <1>3, <1>4

\* and where it is cut.
LEMMA CutOpen ==
    ASSUME BruteInv, file_recovery.on, NEW h, FileLike(h, file_recovery), NEW size \in Nat,
           NEW s, s = file_block_truncate_and_move(Search(pos, h), size)
    PROVE  s \in Searches(pos.list, h) /\ s.file.handle = h.handle /\ s.file \in FileRec
<1>1. s \in Searches(pos.list, h) /\ s \in Partings(pos.list, h) /\ s.file \in FileRec
  BY CutMoves
<1> QED
  BY <1>1 DEF Partings

\* A new extent begins with no file.
LEMMA StartExtentWhole ==
    ASSUME WholeInv, StartExtent
    PROVE  WholeInv'
<1>1. /\ file_recovery' = NoFile /\ pc' = "block" /\ destination' = destination /\ disk' = disk
  BY Zenon DEF StartExtent, fixed
<1> SUFFICES ASSUME ~ destination'.full
             PROVE  AllWhole(destination.kept)' /\ Open(file_recovery, pc, result)'
  BY DEF WholeInv
<1>2. AllWhole(destination.kept)
  BY <1>1 DEF WholeInv
<1>3. AllWhole(destination.kept)'
  BY <1>1, <1>2, StillWhole DEF AllWhole
<1>4. Open(file_recovery', pc', result')
  BY <1>1, NoFileIs DEF Open
<1> QED
  BY <1>3, <1>4

\* The blocks of an extent go to an open file.
LEMMA ReadBlocksWhole ==
    ASSUME BruteInv, WholeInv, ReadBlocks
    PROVE  WholeInv'
<1>1. PICK created \in { ~ destination.full, TRUE } : ReadBlock(created)
  BY DEF ReadBlocks
<1> DEFINE begins == HeaderHere /\ ~ file_recovery.on
           f      == IF begins THEN [ NoFile EXCEPT !.on = TRUE ] ELSE file_recovery
           ends   == AtStart /\ (IF HeaderHere THEN file_recovery.on ELSE ~ file_recovery.on)
           g      == IF f.on /\ ~ f.handle THEN [ f EXCEPT !.handle = created ] ELSE f
           s      == Search(pos, g)
           adds   == ~ ends /\ g.handle
           t      == IF adds THEN Append1(s) ELSE NextSector(s)
<1>2. /\ pc = "block"
      /\ file_recovery' = [ t.file EXCEPT !.written = IF adds /\ destination.full THEN f.written ELSE @ ]
      /\ pc' \in { "exit", "check", "block" }
      /\ destination' = destination /\ disk' = disk
  <2>1. pc' = IF t.lost THEN "exit"
              ELSE IF ends \/ t.stop \/ t.cur = 0 THEN "check" ELSE "block"
    BY <1>1, Zenon DEF ReadBlock
  <2>2. pc' \in { "exit", "check", "block" }
    BY <2>1
  <2> QED
    BY <1>1, <2>2, Zenon DEF ReadBlock, fixed
<1> SUFFICES ASSUME ~ destination'.full
             PROVE  AllWhole(destination.kept)' /\ Open(file_recovery, pc, result)'
  BY DEF WholeInv
<1>3. /\ AllWhole(destination.kept) /\ Open(file_recovery, pc, result)
      /\ ~ destination.full /\ created = TRUE
  BY <1>2 DEF WholeInv
<1>4. AllWhole(destination.kept)'
  BY <1>2, <1>3, StillWhole DEF AllWhole
<1>5. f \in FileRec /\ (~ f.handle => f.location = << >>)
      /\ Accounted(pos.list, f, destination, SpaceOf(disk))
  <2>1. CASE begins
    <3>1. PICK n : n = [ NoFile EXCEPT !.on = TRUE ]
      OBVIOUS
    <3>2. n \in FileRec /\ n.location = << >> /\ n.on
      <4>1. << >> \in Seq(Element) /\ << >> \in Seq(Nat)
        OBVIOUS
      <4> QED
        BY <3>1, <4>1 DEF NoFile, FileRec
    <3>3. f = n
      BY <2>1, <3>1, Zenon
    <3>4. file_recovery.location = << >>
      BY <2>1, InvFacts DEF Accounted
    <3> HIDE DEF f
    <3> QED
      BY <3>2, <3>3, <3>4, InvFacts, FileBegins
  <2>2. CASE ~ begins
    BY <1>3, <2>2, InvFacts DEF Open
  <2> QED
    BY <2>1, <2>2
<1> HIDE DEF begins, f
<1>6. /\ g \in FileRec /\ (~ g.handle => g.location = << >>) /\ (g.on => g.handle)
      /\ Accounted(pos.list, g, destination, SpaceOf(disk)) 
  <2>1. CASE f.on /\ ~ f.handle
    <3>1. PICK n : n = [ f EXCEPT !.handle = created ]
      OBVIOUS
    <3>2. n = [ on |-> f.on, handle |-> TRUE, size |-> f.size, location |-> f.location,
                written |-> f.written, offset_error |-> f.offset_error, offset_ok |-> f.offset_ok,
                extra |-> f.extra ]
      BY <1>3, <1>5, <3>1 DEF FileRec
    <3>3. n \in FileRec /\ n.handle /\ n.on /\ n.location = f.location
      BY <1>5, <2>1, <3>2 DEF FileRec
    <3>4. g = n
      BY <2>1, <3>1
    <3>5. Accounted(pos.list, n, destination, SpaceOf(disk))
      BY <1>5, <3>3 DEF Accounted
    <3> HIDE DEF g
    <3> QED
      BY <3>3, <3>4, <3>5
  <2>2. CASE ~ (f.on /\ ~ f.handle)
    BY <1>5, <2>2
  <2> QED
    BY <2>1, <2>2
<1> HIDE DEF g, ends
<1>7. s \in Searches(pos.list, g) /\ s.file = g
  <2>1. ListOK(pos.list, BS) /\ LocationOK(g.location, BS) /\ Disjoint(pos.list, g.location)
    BY <1>6 DEF Accounted, Whole
  <2>2. pos.cur \in 0 .. Len(pos.list)
    BY <1>2 DEF BruteInv, PlaceInv
  <2>3. s \in Searches(pos.list, g)
    BY <1>6, <2>1, <2>2, InvFacts, SearchStarts
  <2>4. s.file = g
    BY DEF Search
  <2> HIDE DEF s
  <2> QED
    BY <2>3, <2>4
<1> HIDE DEF s
<1>8. /\ t.file \in FileRec /\ t.file.on = g.on /\ t.file.handle = g.handle
      /\ ~ t.file.handle => t.file.location = << >>
  <2>1. CASE adds
    <3>1. t = Append1(s) /\ g.handle
      BY <2>1
    <3>2. Append1(s) \in Searches(pos.list, g)
      BY <1>7, AppendStays
    <3> HIDE DEF t, adds
    <3> QED
      BY <3>1, <3>2 DEF Searches, Partings, SearchRec
  <2>2. CASE ~ adds
    <3>1. t = NextSector(s)
      BY <2>2
    <3>2. NextSector(s).file = g
      BY <1>7, NextSectorFile
    <3> HIDE DEF t, adds
    <3> QED
      BY <1>6, <3>1, <3>2
  <2> QED
    BY <2>1, <2>2
<1> HIDE DEF t
<1>9. /\ file_recovery'.handle = t.file.handle /\ file_recovery'.on = t.file.on
      /\ file_recovery'.location = t.file.location
  BY <1>2, <1>8 DEF FileRec
<1>10. Open(file_recovery', pc', result')
  <2>1. ~ file_recovery'.handle => file_recovery'.location = << >>
    BY <1>8, <1>9
  <2>2. file_recovery'.on => file_recovery'.handle
    BY <1>6, <1>8, <1>9
  <2> QED
    BY <1>2, <2>1, <2>2 DEF Open
<1> QED
  BY <1>4, <1>10

\* What ends a file leaves whole files and no block with one that is closed.
LEMMA FinishedWhole ==
    ASSUME disk' = disk, NEW K, destination'.kept = K, destination'.full = destination.full,
           ~ destination.full => AllWhole(K) /\ Open(file_recovery', pc', result')
    PROVE  WholeInv'
<1> SUFFICES ASSUME ~ destination'.full
             PROVE  AllWhole(destination.kept)' /\ Open(file_recovery, pc, result)'
  BY DEF WholeInv
<1>1. AllWhole(K) /\ Open(file_recovery', pc', result')
  OBVIOUS
<1>2. AllWhole(destination.kept)'
  BY <1>1, StillWhole DEF AllWhole
<1> QED
  BY <1>1, <1>2

\* The file that was read is kept when it is whole.
LEMMA CheckFileWhole ==
    ASSUME BruteInv, WholeInv, CheckFile
    PROVE  WholeInv'
<1> DEFINE r == file_finish_bf(file_recovery, destination, pos.list)
<1>1. /\ pc = "check" /\ file_recovery' = r.file
      /\ destination' = [ r.destination EXCEPT !.before = destination.file_nbr ]
      /\ pc' = IF r.broken THEN "aux" ELSE "leave"
      /\ disk' = disk
  BY Zenon DEF CheckFile, fixed
<1>2. /\ r.destination \in Destinations /\ r.destination.full = destination.full
      /\ AllWhole(destination.kept) /\ (~ file_recovery.handle => file_recovery.location = << >>) =>
           /\ AllWhole(r.destination.kept)
           /\ ~ r.file.handle => r.file.location = << >>
      /\ r.broken => file_recovery.on /\ (file_recovery.handle => r.file.handle)
  <2>1. r.destination \in Destinations
    BY InvFacts, FinishBfIs DEF Accounted
  <2> QED
    BY <2>1, InvFacts, FinishBfWhole
<1> HIDE DEF r
<1>3. ASSUME ~ destination.full
      PROVE  /\ AllWhole(r.destination.kept)
             /\ ~ r.file.handle => r.file.location = << >>
             /\ r.broken => r.file.handle
  BY <1>1, <1>2, <1>3 DEF WholeInv, Open
<1>4. destination'.kept = r.destination.kept /\ destination'.full = destination.full
  BY <1>1, <1>2 DEF Destinations
<1>5. ~ destination.full => Open(file_recovery', pc', result')
  BY <1>1, <1>3 DEF Open
<1> QED
  BY <1>1, <1>3, <1>4, <1>5, FinishedWhole

\* The file is open from its first cut to the answer of the search.
LEMMA AuxWhole ==
    ASSUME BruteInv, WholeInv, Aux
    PROVE  WholeInv'
<1> DEFINE size == (file_recovery.offset_error \div BS) * BS
           h    == [ file_recovery EXCEPT !.offset_error = size ]
           s    == file_block_truncate_and_move(Search(pos, h), size)
           c    == photorec_bf_frag(s.file, 0, << >>)
<1>1. /\ pc = "aux" /\ file_recovery' = c.file /\ destination' = destination /\ disk' = disk
  BY Zenon DEF Aux, search_unchanged, fixed
<1>2. file_recovery.on /\ file_recovery \in FileRec
  BY <1>1, InvFacts DEF BruteInv, FileInv
<1>3. size \in Nat
  <2>1. PICK e \in Nat : e = file_recovery.offset_error
    BY <1>2 DEF FileRec
  <2>2. e \div BS \in Int /\ e \div BS >= 0
    BY BlocksBelow
  <2> QED
    BY <2>1, <2>2, BlockSize
<1> HIDE DEF size
<1>4. FileLike(h, file_recovery) /\ h.handle = file_recovery.handle
  <2>1. << >> \in Seq(Nat)
    OBVIOUS
  <2> QED
    BY <1>2, <1>3, <2>1, FileChanged, OpenChanged
<1> HIDE DEF h
<1>5. s.file.handle = h.handle /\ s.file \in FileRec
  BY <1>2, <1>3, <1>4, CutOpen
<1> HIDE DEF s
<1>6. c.file.handle = s.file.handle
  BY <1>5, FragOpen
<1> HIDE DEF c
<1> QED
  BY <1>1, <1>4, <1>5, <1>6, StillOpen

\* A cut leaves the file open.
LEMMA CutWhole ==
    ASSUME BruteInv, WholeInv, Cut
    PROVE  WholeInv'
<1> DEFINE s == file_block_truncate_and_move(Search(pos, file_recovery), Top.at)
<1>1. /\ pc = "cut" /\ file_recovery' = [ s.file EXCEPT !.offset_error = 0 ]
      /\ destination' = destination /\ disk' = disk
  BY Zenon DEF Cut, search_unchanged, fixed
<1>2. file_recovery.on /\ file_recovery \in FileRec /\ stack # << >>
  BY <1>1, InvFacts DEF BruteInv, FileInv, CallsInv
<1>3. Top \in Frame /\ Top.at \in Nat
  <2>1. Top \in Frame
    BY <1>2, InvFacts, TailFrames DEF Top
  <2> QED
    BY <2>1 DEF Frame
<1>4. s.file.handle = file_recovery.handle /\ s.file \in FileRec
  <2>1. FileLike(file_recovery, file_recovery)
    BY <1>2 DEF FileLike
  <2> QED
    BY <1>2, <1>3, <2>1, CutOpen
<1> HIDE DEF s
<1>5. file_recovery'.handle = s.file.handle
  BY <1>1, <1>4, OpenChanged
<1> QED
  BY <1>1, <1>4, <1>5, StillOpen

\* So does a try of photorec_bf_frag_fast.
LEMMA TryWhole ==
    ASSUME BruteInv, WholeInv, Try
    PROVE  WholeInv'
<1> DEFINE ok == Top.at \div BS
           s  == file_block_truncate_and_move(Search(pos, file_recovery), ok * BS)
           a  == Times(Top.i, NextSector, s)
           n  == (Top.err \div BS) - ok - 1
           b  == Times(n, LAMBDA t : IF t.lost THEN t ELSE Append1(t), a)
           z  == Times(Top.n - Top.i, NextSector, b)
<1>1. /\ pc = "try"
      /\ file_recovery' = file_recovery \/ file_recovery' = z.file
      /\ destination' = destination /\ disk' = disk
  BY Zenon DEF Try, CallsPad, search_unchanged, fixed
<1>2. file_recovery.on /\ file_recovery \in FileRec /\ stack # << >>
  BY <1>1, InvFacts DEF BruteInv, FileInv, CallsInv
<1>3. Top \in Frame
  BY <1>2, InvFacts, TailFrames DEF Top
<1>4. Top.at \in Nat /\ Top.err \in Nat /\ Top.i \in Int /\ Top.n - Top.i \in Int
  BY <1>3 DEF Frame
<1>5. ok * BS \in Nat /\ n \in Int
  <2>1. PICK p \in Nat : p = Top.at
    BY <1>4
  <2>2. PICK q \in Nat : q = Top.err
    BY <1>4
  <2>3. p \div BS \in Int /\ p \div BS >= 0 /\ q \div BS \in Int
    BY BlocksBelow
  <2>4. ok = p \div BS /\ Top.err \div BS = q \div BS
    BY <2>1, <2>2
  <2> HIDE DEF ok
  <2> QED
    BY <2>3, <2>4, BlockSize
<1> HIDE DEF ok
<1>6. s \in Searches(pos.list, file_recovery)
  <2>1. FileLike(file_recovery, file_recovery)
    BY <1>2 DEF FileLike
  <2> QED
    BY <1>2, <1>5, <2>1, CutOpen
<1> HIDE DEF s, n
<1>7. a \in Searches(pos.list, file_recovery)
  BY <1>4, <1>6, SectorsStay
<1> HIDE DEF a
<1>8. b \in Searches(pos.list, file_recovery)
  BY <1>5, <1>7, AppendsStay
<1> HIDE DEF b
<1>9. z \in Searches(pos.list, file_recovery)
  BY <1>4, <1>8, SectorsStay
<1> HIDE DEF z
<1>10. z.file.handle = file_recovery.handle
  BY <1>9 DEF Searches, Partings
<1> QED
  BY <1>1, <1>10, StillOpen

\* The blocks skipped before a file is padded leave it open.
LEMMA SkipWhole ==
    ASSUME BruteInv, WholeInv, Skip
    PROVE  WholeInv'
<1> DEFINE h == [ file_recovery EXCEPT !.size = Top.at, !.offset_error = 0, !.extra = 0 ]
           s == file_block_truncate_and_move(Search(pos, h), Top.at)
           t == IF Skipped < 0 THEN Times(2 + Skipped, get_next_header, s)
                ELSE Times(Skipped, NextSector, s)
           z == [ t EXCEPT !.file.offset_error = Top.at ]
<1>1. /\ pc = "skip"
      /\ file_recovery' = t.file \/ file_recovery' = z.file
      /\ destination' = destination /\ disk' = disk
  BY Zenon DEF Skip, Restored, CallsPad, search_unchanged, fixed
<1>2. file_recovery.on /\ file_recovery \in FileRec /\ stack # << >>
  BY <1>1, InvFacts DEF BruteInv, FileInv, CallsInv
<1>3. Top \in Frame
  BY <1>2, InvFacts, TailFrames DEF Top
<1>4. Top.at \in Nat /\ Skipped \in Int /\ 2 + Skipped \in Int
  BY <1>3 DEF Frame, Skipped
<1>5. FileLike(h, file_recovery) /\ h.handle = file_recovery.handle
  <2>1. << >> \in Seq(Nat) /\ 0 \in Nat
    OBVIOUS
  <2>2. FileLike(h, file_recovery)
    BY ONLY <1>2, <1>4, <2>1, FileChanged
  <2>3. h.handle = file_recovery.handle
    BY <1>2, OpenChanged
  <2> QED
    BY <2>2, <2>3
<1> HIDE DEF h
<1>6. s \in Searches(pos.list, h)
  BY <1>2, <1>4, <1>5, CutOpen
<1> HIDE DEF s
<1>7. t \in Searches(pos.list, h)
  <2>1. Times(2 + Skipped, get_next_header, s) \in Searches(pos.list, h)
    BY <1>4, <1>6, HeadersStay
  <2>2. Times(Skipped, NextSector, s) \in Searches(pos.list, h)
    BY <1>4, <1>6, SectorsStay
  <2> QED
    BY <2>1, <2>2
<1> HIDE DEF t
<1>8. t \in SearchRec /\ t.file \in FileRec /\ t.file.handle = h.handle
  BY <1>7 DEF Searches, Partings, SearchRec
<1>9. z.file.handle = t.file.handle
  <2>1. z.file = [ t.file EXCEPT !.offset_error = Top.at ]
    BY <1>8 DEF SearchRec
  <2> HIDE DEF z
  <2> QED
    BY <1>8, <2>1, OpenChanged
<1> HIDE DEF z
<1> QED
  BY <1>1, <1>5, <1>8, <1>9, StillOpen

\* A stop keeps the file in progress when what it has is whole.
LEMMA SkipStopsWhole ==
    ASSUME BruteInv, WholeInv, SkipStops
    PROVE  WholeInv'
<1> DEFINE h == [ file_recovery EXCEPT !.size = Top.at, !.offset_error = 0, !.extra = 0 ]
           s == file_block_truncate_and_move(Search(pos, h), Top.at)
           r == file_finish_bf(s.file, destination, s.list)
<1>1. /\ pc = "skip" /\ file_recovery' = r.file /\ destination' = r.destination
      /\ pc' = "back" /\ result' = "STOP" /\ disk' = disk
  BY Zenon DEF SkipStops, Restored, Returns, search_unchanged, fixed
<1>2. file_recovery.on /\ file_recovery \in FileRec /\ stack # << >>
  BY <1>1, InvFacts DEF BruteInv, FileInv, CallsInv
<1>3. Top \in Frame /\ Top.at \in Nat
  <2>1. Top \in Frame
    BY <1>2, InvFacts, TailFrames DEF Top
  <2> QED
    BY <2>1 DEF Frame
<1>4. FileLike(h, file_recovery) /\ h.handle = file_recovery.handle
  <2>1. << >> \in Seq(Nat) /\ 0 \in Nat
    OBVIOUS
  <2>2. FileLike(h, file_recovery)
    BY ONLY <1>2, <1>3, <2>1, FileChanged
  <2>3. h.handle = file_recovery.handle
    BY <1>2, OpenChanged
  <2> QED
    BY <2>2, <2>3
<1> HIDE DEF h
<1>5. s.file.handle = h.handle /\ Accounted(s.list, s.file, destination, SpaceOf(disk))
  BY <1>2, <1>3, <1>4, CutOpen, CutMoves
<1> HIDE DEF s
<1>6. /\ r.destination.full = destination.full
      /\ AllWhole(destination.kept) /\ (~ s.file.handle => s.file.location = << >>) =>
           /\ AllWhole(r.destination.kept)
           /\ ~ r.file.handle => r.file.location = << >>
  BY <1>5, InvFacts, FinishBfWhole
<1> HIDE DEF r
<1>7. ~ destination.full => AllWhole(r.destination.kept) /\ Open(file_recovery', pc', result')
  <2>1. ASSUME ~ destination.full
        PROVE  /\ AllWhole(r.destination.kept)
               /\ ~ r.file.handle => r.file.location = << >>
    BY <1>1, <1>4, <1>5, <1>6, <2>1 DEF WholeInv, Open
  <2> QED
    BY <1>1, <2>1 DEF Open, Final
<1> QED
  BY <1>1, <1>6, <1>7, FinishedWhole

\* The padded file is kept when it is whole, or goes on open.
LEMMA PadWhole ==
    ASSUME BruteInv, WholeInv, Pad
    PROVE  WholeInv'
<1> DEFINE t == photorec_bf_pad(Search(pos, file_recovery))
           r == file_finish_bf(t.file, destination, t.list)
           c == photorec_bf_frag(t.file, Top.frag + 1, stack)
<1>1. /\ pc = "pad" /\ disk' = disk
      /\ \/ /\ file_recovery' = r.file /\ destination' = r.destination
            /\ pc' = "back" /\ result' = "OK"
         \/ /\ destination' = destination
            /\ file_recovery' \in { file_recovery, t.file, c.file }
  BY Zenon DEF Pad, Returns, search_unchanged, fixed
<1>2. file_recovery \in FileRec /\ pos.cur \in 0 .. Len(pos.list)
  BY <1>1, InvFacts DEF BruteInv, PlaceInv
<1>3. t \in Searches(pos.list, file_recovery)
  <2>1. ListOK(pos.list, BS) /\ LocationOK(file_recovery.location, BS)
        /\ Disjoint(pos.list, file_recovery.location) /\ pos.offset \in Nat /\ pos.offset % BS = 0
    BY InvFacts
  <2>2. Search(pos, file_recovery) \in Searches(pos.list, file_recovery)
    BY ONLY <1>2, <2>1, SearchStarts
  <2> QED
    BY <2>2, InvFacts, PadStays
<1> HIDE DEF t
<1>4. /\ Accounted(t.list, t.file, destination, SpaceOf(disk)) /\ t.file \in FileRec
      /\ t.file.handle = file_recovery.handle
  <2>1. t \in Partings(pos.list, file_recovery) /\ file_recovery.on
    BY <1>1, <1>3 DEF Searches, BruteInv, FileInv
  <2>2. t.file.handle = file_recovery.handle
    BY <2>1 DEF Partings
  <2> QED
    BY <2>1, <2>2, InvFacts, SearchAccounted
<1>5. /\ r.destination.full = destination.full
      /\ AllWhole(destination.kept) /\ (~ t.file.handle => t.file.location = << >>) =>
           /\ AllWhole(r.destination.kept)
           /\ ~ r.file.handle => r.file.location = << >>
  BY <1>4, InvFacts, FinishBfWhole
<1> HIDE DEF r
<1>6. c.file.handle = t.file.handle
  BY <1>4, FragOpen
<1> HIDE DEF c
<1>7. CASE /\ file_recovery' = r.file /\ destination' = r.destination
           /\ pc' = "back" /\ result' = "OK"
  <2>1. ASSUME ~ destination.full
        PROVE  /\ AllWhole(r.destination.kept)
               /\ ~ r.file.handle => r.file.location = << >>
    BY <1>1, <1>4, <1>5, <2>1 DEF WholeInv, Open
  <2>2. ~ destination.full => AllWhole(r.destination.kept) /\ Open(file_recovery', pc', result')
    BY <1>7, <2>1 DEF Open, Final
  <2> QED
    BY <1>1, <1>5, <1>7, <2>2, FinishedWhole
<1>8. CASE /\ destination' = destination
           /\ file_recovery' \in { file_recovery, t.file, c.file }
  BY <1>1, <1>4, <1>6, <1>8, StillOpen
<1> QED
  BY <1>1, <1>7, <1>8

\* A caller goes on with an open file, or with what the search ended with.
LEMMA ReturnWhole ==
    ASSUME WholeInv, Return
    PROVE  WholeInv'
<1>1. /\ pc = "back" /\ file_recovery' = file_recovery /\ destination' = destination
      /\ disk' = disk
      /\ \/ result \notin Final
         \/ pc' = "back" /\ result' = result
  BY DEF Return, Final, search_unchanged, fixed
<1>2. CASE result \notin Final
  BY <1>1, <1>2, StillOpen
<1>3. CASE pc' = "back" /\ result' = result
  <2>1. ~ destination.full => AllWhole(destination.kept) /\ Open(file_recovery', pc', result')
    BY <1>1, <1>3 DEF WholeInv
  <2> QED
    BY <1>1, <2>1, FinishedWhole
<1> QED
  BY <1>1, <1>2, <1>3

\* What is left of the file when the search ends is kept when it is whole.
LEMMA AuxEndsWhole ==
    ASSUME BruteInv, WholeInv, AuxEnds
    PROVE  WholeInv'
<1> DEFINE r == file_finish2(file_recovery, destination, pos.list)
<1>1. /\ pc = "back" /\ pc' = "leave"
      /\ file_recovery' = r.file /\ destination' = r.destination /\ disk' = disk
  BY Zenon DEF AuxEnds, Finished, fixed
<1>2. /\ r.destination.full = destination.full /\ r.file.location = << >>
      /\ AllWhole(destination.kept) /\ (~ file_recovery.handle => file_recovery.location = << >>) =>
           AllWhole(r.destination.kept)
  BY InvFacts, Finish2Is, Finish2Whole
<1> HIDE DEF r
<1>3. ~ destination.full => AllWhole(r.destination.kept) /\ Open(file_recovery', pc', result')
  <2>1. ASSUME ~ destination.full
        PROVE  AllWhole(r.destination.kept)
    BY <1>2, <2>1 DEF WholeInv, Open
  <2> QED
    BY <1>1, <1>2, <2>1 DEF Open
<1> QED
  BY <1>1, <1>2, <1>3, FinishedWhole

\* Every step of the pass keeps whole files,
LEMMA WholeInvNext ==
    ASSUME BruteInv, WholeInv, [Next]_brute_vars
    PROVE  WholeInv'
<1>1. CASE StartExtent
  BY <1>1, StartExtentWhole
<1>2. CASE EndPhase
  <2>1. /\ pc' \in { "done", "extent" } /\ file_recovery' = file_recovery
        /\ destination' = destination /\ disk' = disk
    BY <1>2, Zenon DEF EndPhase, fixed
  <2> QED
    BY <2>1, StillEmpty
<1>3. CASE ReadBlocks
  BY <1>3, ReadBlocksWhole
<1>4. CASE CheckFile
  BY <1>4, CheckFileWhole
<1>5. CASE Aux
  BY <1>5, AuxWhole
<1>6. CASE Try
  BY <1>6, TryWhole
<1>7. CASE TryEnds
  BY <1>7, StillOpen DEF TryEnds, search_unchanged, fixed
<1>8. CASE Cut
  BY <1>8, CutWhole
<1>9. CASE CutsEnd
  BY <1>9, StillOpen DEF CutsEnd, search_unchanged, fixed
<1>10. CASE Skip
  BY <1>10, SkipWhole
<1>11. CASE Pad
  BY <1>11, PadWhole
<1>12. CASE PadFails
  BY <1>12 DEF PadFails, WholeInv
<1>13. CASE SkipStops
  BY <1>13, SkipStopsWhole
<1>14. CASE SkipsEnd
  BY <1>14, StillOpen DEF SkipsEnd, search_unchanged, fixed
<1>15. CASE Return
  BY <1>15, ReturnWhole
<1>16. CASE AuxEnds
  BY <1>16, AuxEndsWhole
<1>17. CASE Leave
  <2>1. /\ pc' \in { "freed", "extent" } /\ file_recovery' = file_recovery
        /\ destination' = destination /\ disk' = disk
    BY <1>17, Zenon DEF Leave, fixed
  <2> QED
    BY <2>1, StillEmpty
<1>18. CASE kaifuku_stop \/ End \/ UNCHANGED brute_vars
  <2>1. UNCHANGED << disk, destination, file_recovery, pc, result >>
    BY <1>18 DEF kaifuku_stop, End, brute_vars, fixed, search_vars
  <2>2. ~ destination.full => AllWhole(destination.kept) /\ Open(file_recovery', pc', result')
    BY <2>1 DEF WholeInv
  <2> QED
    BY <2>1, <2>2, FinishedWhole
<1>19. CASE FillUp
  <2>1. destination'.full
    BY <1>19, InvFacts DEF FillUp, Destinations
  <2> QED
    BY <2>1 DEF WholeInv
<1> QED
  BY <1>1, <1>2, <1>3, <1>4, <1>5, <1>6, <1>7, <1>8, <1>9, <1>10, <1>11, <1>12, <1>13, <1>14,
     <1>15, <1>16, <1>17, <1>18, <1>19 DEF Next, Pass

\* and it begins with none.
LEMMA WholeInvInit == Init => WholeInv
  BY NoFileIs DEF Init, WholeInv, AllWhole, Open

\* A file the format accepted is one file of the disk from its first block to its
\* last, whatever earlier tries left on the destination behind the cut
\* (phbf.c:622), for every disk, block size, bound of the search and answer of the
\* formats, as long as the destination takes blocks.
THEOREM BruteKeepsWhole == Spec => []KeptWhole
<1>1. BruteInv /\ [Next]_brute_vars => BruteInv'
  BY BruteInvNext
<1>2. BruteInv /\ WholeInv /\ [Next]_brute_vars => WholeInv'
  BY WholeInvNext
<1>3. WholeInv => KeptWhole
  BY DEF WholeInv, AllWhole, KeptWhole
<1> QED
  BY BruteInvInit, WholeInvInit, <1>1, <1>2, <1>3, PTL DEF Spec
=============================================================================
