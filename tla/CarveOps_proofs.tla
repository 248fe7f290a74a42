--------------------------- MODULE CarveOps_proofs ---------------------------
(***************************************************************************)
(* What the operations on the search space do, for lists of any length and *)
(* blocks of any size.                                                     *)
(*                                                                         *)
(* Those of the carve: the list stays sorted, free of overlaps and of      *)
(* whole blocks; every byte of a file is in the list again or in the file  *)
(* that is kept; the read position stays at a block of the list and passes *)
(* over no block it has not come to.                                       *)
(*                                                                         *)
(* Those before the carve, in the second half: the recursion of            *)
(* del_search_space is a function on all lists, so first it is shown that  *)
(* one exists: the lists a call asks about weigh less than its own.  The   *)
(* folds of update_blocksize and find_blocksize are taken apart step by    *)
(* step.                                                                   *)
(*                                                                         *)
(* At the end, what the proofs about the structure passes need to know of  *)
(* sequences, of multiples of a size and of sorting and merging ranges of  *)
(* bytes before they are taken out.                                        *)
(***************************************************************************)
EXTENDS CarveOps, ByteRanges, TLAPS, WellFoundedInduction, FiniteSetTheorems, SequenceTheorems

\* A set of naturals that is not empty has a least member.
LEMMA NatMin ==
    ASSUME NEW T \in SUBSET Nat, T # {}
    PROVE  \E m \in T : \A n \in T : m <= n
<1> DEFINE R == { p \in Nat \X Nat : p[1] < p[2] }
<1>1. IsWellFoundedOn(R, Nat)
  BY NatLessThanWellFounded DEF OpToRel
<1> HIDE DEF R
<1>2. PICK x \in T : \A y \in T : ~ (<<y, x>> \in R)
  BY <1>1, WFMin
<1>3. \A y \in T : ~ (y < x)
  BY <1>2 DEF R
<1> QED
  BY <1>3

\* Induction over an interval: a set with 0 and, for each k with k - 1 in it, k
\* has all of 0..n.
LEMMA SetInduction ==
    ASSUME NEW n \in Nat, NEW S, 0 \in S, \A k \in 1 .. n : k - 1 \in S => k \in S
    PROVE  0 .. n \subseteq S
<1> DEFINE T == (0 .. n) \ S
<1> SUFFICES ASSUME T # {} PROVE FALSE
  OBVIOUS
<1>1. T \in SUBSET Nat
  OBVIOUS
<1>2. PICK m \in T : \A k \in T : m <= k
  BY <1>1, NatMin
<1>3. m \in 1 .. n /\ m - 1 \in 0 .. n
  OBVIOUS
<1>4. m - 1 \in S
  BY <1>2, <1>3
<1> QED
  BY <1>3, <1>4

\* Max, by which the folds of the community modules take a set apart, is the
\* greatest member of a set of indices.
LEMMA MaxProperty ==
    ASSUME NEW n \in Nat, NEW s \in SUBSET (1 .. n), s # {}
    PROVE  /\ Max(s) \in s /\ \A k \in s : k <= Max(s)
<1> DEFINE T == { n - k : k \in s }
<1>1. PICK m \in T : \A k \in T : m <= k
  <2>1. \A k \in s : n - k \in Nat
    OBVIOUS
  <2>2. T \in SUBSET Nat
    BY <2>1
  <2>3. T # {}
    OBVIOUS
  <2> HIDE DEF T
  <2> QED
    BY <2>2, <2>3, NatMin
<1>2. PICK x \in s : m = n - x
  OBVIOUS
<1>3. \A y \in s : x >= y
  <2> TAKE y \in s
  <2>1. n - y \in T
    OBVIOUS
  <2>2. m <= n - y
    BY <1>1, <2>1
  <2> QED
    BY <1>2, <2>2
<1> QED
  BY <1>3 DEF Max

\* The recursive function a fold over the indices 1..n is.
FoldEquation(g, n, base, F) ==
    g = [ s \in SUBSET (1 .. n) |->
            IF s = {} THEN base ELSE F[<< Max(s), g[s \ { Max(s) }] >>] ]

\* What SelectInSeq answers for the set I of the indices that match: the first of
\* them, 0 when there is none.
LEMMA MinIndex ==
    ASSUME NEW n \in Nat, NEW I \in SUBSET (1 .. n)
    PROVE  \E i \in 0 .. n : /\ i = (IF I # {} THEN Min(I) ELSE 0)
                             /\ i = 0 => I = {}
                             /\ i # 0 => i \in I /\ \A j \in I : i <= j
<1>1. CASE I = {}
  <2>1. 0 \in 0 .. n
    OBVIOUS
  <2> QED
    BY <1>1, <2>1
<1>2. CASE I # {}
  <2>1. I \in SUBSET Nat
    OBVIOUS
  <2>2. PICK m \in I : \A j \in I : m <= j
    BY <1>2, <2>1, NatMin
  <2>3. Min(I) \in I /\ \A j \in I : Min(I) <= j
    BY <2>2 DEF Min
  <2>4. PICK i \in I : i = Min(I) /\ \A j \in I : i <= j
    BY <2>3
  <2>5. i \in 0 .. n /\ i # 0
    OBVIOUS
  <2> QED
    BY <1>2, <2>4, <2>5
<1> QED
  BY <1>1, <1>2

\* The recursion of a fold has a solution, so CHOOSE finds one.
LEMMA FoldExists ==
    ASSUME NEW n \in Nat, NEW X, NEW base \in X, NEW F \in [(1 .. n) \X X -> X]
    PROVE  \E g \in [SUBSET (1 .. n) -> X] : FoldEquation(g, n, base, F)
<1> DEFINE S == { k \in 0 .. n : \E g \in [SUBSET (1 .. k) -> X] : FoldEquation(g, k, base, F) }
<1>1. 0 \in S
  <2>1. SUBSET (1 .. 0) = { {} }
    OBVIOUS
  <2> DEFINE g == [ s \in SUBSET (1 .. 0) |-> base ]
  <2>2. FoldEquation(g, 0, base, F)
    BY <2>1 DEF FoldEquation
  <2>3. g \in [SUBSET (1 .. 0) -> X]
    OBVIOUS
  <2> QED
    BY <2>2, <2>3
<1>2. ASSUME NEW k \in 1 .. n, k - 1 \in S
      PROVE  k \in S
  <2>1. PICK g \in [SUBSET (1 .. (k - 1)) -> X] : FoldEquation(g, k - 1, base, F)
    BY <1>2
  <2> DEFINE h == [ s \in SUBSET (1 .. k) |->
                      IF k \in s THEN F[<< k, g[s \ { k }] >>] ELSE g[s] ]
  <2>2. \A s \in SUBSET (1 .. k) : s \ { k } \in SUBSET (1 .. (k - 1))
    OBVIOUS
  <2>3. \A s \in SUBSET (1 .. k) : k \notin s => s \in SUBSET (1 .. (k - 1))
    OBVIOUS
  <2>4. h \in [SUBSET (1 .. k) -> X]
    BY <2>2, <2>3
  <2>5. ASSUME NEW s \in SUBSET (1 .. k)
        PROVE  h[s] = IF s = {} THEN base ELSE F[<< Max(s), h[s \ { Max(s) }] >>]
    <3>1. CASE s = {}
      <4>1. k \notin s /\ s \in SUBSET (1 .. (k - 1))
        BY <3>1
      <4>2. h[s] = g[s]
        BY <4>1
      <4> QED
        BY <2>1, <3>1, <4>1, <4>2 DEF FoldEquation
    <3>2. CASE k \in s
      <4>1. k \in Nat /\ s # {} /\ Max(s) \in s /\ \A j \in s : j <= Max(s)
        <5>1. k \in Nat /\ s # {}
          BY <3>2
        <5> QED
          BY <5>1, MaxProperty
      <4>2. Max(s) = k
        <5>1. Max(s) \in 1 .. k /\ k <= Max(s)
          BY <3>2, <4>1
        <5> QED
          BY <5>1
      <4>3. s \ { k } \in SUBSET (1 .. (k - 1)) /\ s \ { k } \in SUBSET (1 .. k) /\ k \notin s \ { k }
        OBVIOUS
      <4>4. h[s \ { k }] = g[s \ { k }]
        BY <4>3
      <4> QED
        BY <3>2, <4>2, <4>4
    <3>3. CASE k \notin s /\ s # {}
      <4>1. s \in SUBSET (1 .. (k - 1))
        BY <3>3, <2>3
      <4>2. Max(s) \in s
        <5>1. k - 1 \in Nat
          OBVIOUS
        <5> QED
          BY <3>3, <4>1, <5>1, MaxProperty
      <4>3. s \ { Max(s) } \in SUBSET (1 .. k) /\ k \notin s \ { Max(s) }
        BY <3>3
      <4>4. h[s \ { Max(s) }] = g[s \ { Max(s) }] /\ h[s] = g[s]
        BY <4>3, <3>3
      <4>5. g[s] = F[<< Max(s), g[s \ { Max(s) }] >>]
        BY <2>1, <3>3, <4>1 DEF FoldEquation
      <4> QED
        BY <3>3, <4>4, <4>5
    <3> QED
      BY <3>1, <3>2, <3>3
  <2>6. FoldEquation(h, k, base, F)
    <3> HIDE DEF h
    <3>1. DOMAIN h = SUBSET (1 .. k)
      BY <2>4
    <3> QED
      BY <2>4, <2>5 DEF FoldEquation
  <2> HIDE DEF h
  <2> QED
    BY <2>4, <2>6
<1> HIDE DEF S
<1>3. 0 .. n \subseteq S
  BY <1>1, <1>2, SetInduction
<1>4. n \in S
  BY <1>3
<1> QED
  BY <1>4 DEF S

\* Quotient and rest of a division.
LEMMA DivMod ==
    ASSUME NEW bs \in Nat, bs > 0, NEW a \in Int
    PROVE  a \div bs \in Int /\ a % bs \in 0 .. bs - 1 /\ a = bs * (a \div bs) + (a % bs)
  OBVIOUS
\* On the grid of the block size means a multiple of it.
LEMMA AlignedIs ==
    ASSUME NEW bs \in Nat, bs > 0, NEW a \in Int
    PROVE  a % bs = 0 <=> \E k \in Int : a = k * bs
<1>1. a = bs * (a \div bs) + (a % bs) /\ a \div bs \in Int
  BY DivMod
<1>2. ASSUME NEW k \in Int, a = k * bs PROVE a % bs = 0
  BY <1>2
<1>3. a % bs = 0 => a = (a \div bs) * bs
  BY <1>1
<1> QED
  BY <1>1, <1>2, <1>3

\* A number of blocks further is on the grid again.
LEMMA AlignedAdd ==
    ASSUME NEW bs \in Nat, bs > 0, NEW a \in Int, NEW k \in Int, a % bs = 0
    PROVE  (a + k * bs) % bs = 0
<1>1. PICK m \in Int : a = m * bs
  BY AlignedIs
<1>2. a + k * bs = (m + k) * bs /\ m + k \in Int /\ a + k * bs \in Int
  BY <1>1
<1> QED
  BY <1>2, AlignedIs
\* So are the next and the last block.
LEMMA AlignedNext ==
    ASSUME NEW bs \in Nat, bs > 0, NEW a \in Int, a % bs = 0
    PROVE  (a + bs) % bs = 0 /\ (a - bs) % bs = 0
<1>1. PICK m \in Int : a = m * bs
  BY AlignedIs
<1>2. a + bs = (m + 1) * bs /\ a - bs = (m - 1) * bs
  BY <1>1
<1>3. m + 1 \in Int /\ m - 1 \in Int /\ a + bs \in Int /\ a - bs \in Int
  OBVIOUS
<1> QED
  BY <1>2, <1>3, AlignedIs

\* Two addresses on the grid are at least a block apart.
LEMMA AlignedGap ==
    ASSUME NEW bs \in Nat, bs > 0, NEW a \in Int, NEW b \in Int, a % bs = 0, b % bs = 0, a < b
    PROVE  a + bs <= b
<1>1. PICK k \in Int : a = k * bs
  BY AlignedIs
<1>2. PICK m \in Int : b = m * bs
  BY AlignedIs
<1>3. k < m
  BY <1>1, <1>2
<1> QED
  BY <1>1, <1>2, <1>3

\* RoundUp is the first block boundary from an address on.
LEMMA RoundUpIs ==
    ASSUME NEW bs \in Nat, bs > 0, NEW a \in Int
    PROVE  /\ RoundUp(a, bs, 0) \in Int
           /\ RoundUp(a, bs, 0) % bs = 0
           /\ a <= RoundUp(a, bs, 0) /\ RoundUp(a, bs, 0) < a + bs
<1> DEFINE q == (a + bs - 1) \div bs
           r == (a + bs - 1) % bs
<1>1. RoundUp(a, bs, 0) = q * bs + 0
  BY DEF RoundUp
<1>2. a + bs - 1 = bs * q + r /\ r \in 0 .. bs - 1 /\ q \in Int
  <2>1. a + bs - 1 \in Int
    OBVIOUS
  <2> QED
    BY <2>1, DivMod
<1> HIDE DEF q, r
<1>3. (q * bs) % bs = 0 /\ q * bs \in Int /\ q * bs + 0 = q * bs
  <2>1. q * bs \in Int /\ q * bs + 0 = q * bs
    BY <1>2
  <2> QED
    BY <1>2, <2>1, AlignedIs
<1>4. bs * q = q * bs
  BY <1>2
<1> QED
  BY <1>1, <1>2, <1>3, <1>4

\* and the only one less than a block away.
LEMMA RoundUpUnique ==
    ASSUME NEW bs \in Nat, bs > 0, NEW a \in Int, NEW b \in Int, b % bs = 0,
           a <= b, b < a + bs
    PROVE  b = RoundUp(a, bs, 0)
<1> DEFINE c == RoundUp(a, bs, 0)
<1>1. c \in Int /\ c % bs = 0 /\ a <= c /\ c < a + bs
  BY RoundUpIs
<1> HIDE DEF c
<1>2. ~ (b < c) /\ ~ (c < b)
  BY <1>1, AlignedGap
<1> QED
  BY <1>1, <1>2 DEF c

\* The ranges of the list begin and end on the grid.
WholeBlocks(l, bs) ==
    \A i \in DOMAIN l : l[i].start % bs = 0 /\ (l[i].end + 1) % bs = 0

\* What the search space always is: sorted, free of overlaps, of whole blocks.
ListOK(l, bs) == l \in Seq(Extent) /\ WellFormed(l) /\ WholeBlocks(l, bs)

\* An extent of whole blocks.
IsBlocks(x, bs) == x \in Extent /\ x.start <= x.end /\ x.start % bs = 0 /\ (x.end + 1) % bs = 0

\* The byte a is in the range x.
In(a, x) == x.start <= a /\ a <= x.end

\* The byte a is in one of the ranges of l.
InList(a, l) == \E i \in 1 .. Len(l) : In(a, l[i])

\* The range x lies behind the first i extents of l and before those from j on.
Fits(l, i, j, x) ==
    /\ \A k \in 1 .. Len(l) : k <= i => l[k].end < x.start
    /\ \A k \in 1 .. Len(l) : j <= k => x.end < l[k].start

\* InsertAt, element by element.
LEMMA InsertAtIs ==
    ASSUME NEW S, NEW l \in Seq(S), NEW i \in 1 .. Len(l) + 1, NEW x \in S
    PROVE  /\ InsertAt(l, i, x) \in Seq(S)
           /\ Len(InsertAt(l, i, x)) = Len(l) + 1
           /\ \A j \in 1 .. Len(l) + 1 :
                InsertAt(l, i, x)[j] = IF j < i THEN l[j] ELSE IF j = i THEN x ELSE l[j - 1]
<1> DEFINE a == SubSeq(l, 1, i - 1)
           b == SubSeq(l, i, Len(l))
<1>1. a \in Seq(S) /\ Len(a) = i - 1 /\ \A j \in 1 .. i - 1 : a[j] = l[j]
  <2>1. i - 1 \in Int /\ \A j \in 1 .. i - 1 : l[j] \in S
    OBVIOUS
  <2> QED
    BY <2>1, SubSeqProperties
<1>2. b \in Seq(S) /\ Len(b) = Len(l) + 1 - i /\ \A j \in 1 .. Len(l) - i + 1 : b[j] = l[i + j - 1]
  <2>1. i \in Int /\ Len(l) \in Int /\ \A j \in i .. Len(l) : l[j] \in S
    OBVIOUS
  <2> QED
    BY <2>1, SubSeqProperties
<1>3. InsertAt(l, i, x) = (a \o << x >>) \o b
  BY DEF InsertAt
<1>4. << x >> \in Seq(S) /\ Len(<< x >>) = 1 /\ << x >>[1] = x
  OBVIOUS
<1> HIDE DEF a, b
<1>5. a \o << x >> \in Seq(S) /\ Len(a \o << x >>) = i
        /\ \A j \in 1 .. i : (a \o << x >>)[j] = IF j < i THEN l[j] ELSE x
  BY <1>1, <1>4, ConcatProperties
<1> DEFINE c == a \o << x >>
<1>6. c \o b \in Seq(S) /\ Len(c \o b) = Len(l) + 1
        /\ \A j \in 1 .. Len(l) + 1 : (c \o b)[j] = IF j <= i THEN c[j] ELSE b[j - i]
  <2>1. c \in Seq(S) /\ Len(c) = i
    BY <1>5
  <2> HIDE DEF c
  <2>2. c \o b \in Seq(S) /\ Len(c \o b) = Len(c) + Len(b)
        /\ \A j \in 1 .. Len(c) + Len(b) : (c \o b)[j] = IF j <= Len(c) THEN c[j] ELSE b[j - Len(c)]
    BY <1>2, <2>1, ConcatProperties
  <2>3. Len(c) + Len(b) = Len(l) + 1
    BY <1>2, <2>1
  <2> QED
    BY <2>1, <2>2, <2>3
<1> QED
  BY <1>2, <1>3, <1>5, <1>6

\* RemoveAt, element by element.
LEMMA RemoveAtIs ==
    ASSUME NEW S, NEW l \in Seq(S), NEW i \in 1 .. Len(l)
    PROVE  /\ RemoveAt(l, i) \in Seq(S)
           /\ Len(RemoveAt(l, i)) = Len(l) - 1
           /\ \A j \in 1 .. Len(l) - 1 : RemoveAt(l, i)[j] = IF j < i THEN l[j] ELSE l[j + 1]
<1> DEFINE a == SubSeq(l, 1, i - 1)
           b == SubSeq(l, i + 1, Len(l))
<1>1. a \in Seq(S) /\ Len(a) = i - 1 /\ \A j \in 1 .. i - 1 : a[j] = l[j]
  <2>1. i - 1 \in Int /\ \A j \in 1 .. i - 1 : l[j] \in S
    OBVIOUS
  <2> QED
    BY <2>1, SubSeqProperties
<1>2. b \in Seq(S) /\ Len(b) = Len(l) - i /\ \A j \in 1 .. Len(l) - i : b[j] = l[i + j]
  <2>1. i + 1 \in Int /\ Len(l) \in Int /\ \A j \in i + 1 .. Len(l) : l[j] \in S
    OBVIOUS
  <2> QED
    BY <2>1, SubSeqProperties
<1>3. RemoveAt(l, i) = a \o b
  BY DEF RemoveAt
<1> HIDE DEF a, b
<1>4. a \o b \in Seq(S) /\ Len(a \o b) = Len(a) + Len(b)
        /\ \A j \in 1 .. Len(a) + Len(b) : (a \o b)[j] = IF j <= Len(a) THEN a[j] ELSE b[j - Len(a)]
  BY <1>1, <1>2, ConcatProperties
<1>5. Len(a) + Len(b) = Len(l) - 1
  BY <1>1, <1>2
<1>6. ASSUME NEW j \in 1 .. Len(l) - 1
      PROVE  (a \o b)[j] = IF j < i THEN l[j] ELSE l[j + 1]
  <2>1. CASE j < i
    BY <1>1, <1>4, <1>5, <2>1
  <2>2. CASE i <= j
    <3>1. j - Len(a) = j - (i - 1) /\ j - (i - 1) \in 1 .. Len(l) - i
      BY <1>1, <2>2
    <3>2. (a \o b)[j] = b[j - (i - 1)]
      BY <1>1, <1>4, <1>5, <2>2, <3>1
    <3>3. b[j - (i - 1)] = l[i + (j - (i - 1))] /\ i + (j - (i - 1)) = j + 1
      BY <1>2, <3>1
    <3> QED
      BY <3>2, <3>3, <2>2
  <2>3. j < i \/ i <= j
    OBVIOUS
  <2> QED
    BY <2>1, <2>2, <2>3
<1> QED
  BY <1>3, <1>4, <1>5, <1>6

\* What ListOK says of the extents and their order.
LEMMA ListFacts ==
    ASSUME NEW bs, NEW l, ListOK(l, bs)
    PROVE  /\ l \in Seq(Extent) /\ Len(l) \in Nat /\ DOMAIN l = 1 .. Len(l)
           /\ \A i \in 1 .. Len(l) :
                 /\ IsBlocks(l[i], bs)
                 /\ l[i].start \in Nat /\ l[i].end \in Nat /\ l[i].start <= l[i].end
           /\ \A i, j \in 1 .. Len(l) : i < j => l[i].end < l[j].start
<1>1. l \in Seq(Extent) /\ Len(l) \in Nat /\ DOMAIN l = 1 .. Len(l)
  BY DEF ListOK
<1>2. \A i \in 1 .. Len(l) : l[i] \in Extent
  BY <1>1
<1>3. \A i \in 1 .. Len(l) : l[i].start <= l[i].end
  BY <1>1 DEF ListOK, WellFormed
<1>4. \A i \in 1 .. Len(l) : l[i].start % bs = 0 /\ (l[i].end + 1) % bs = 0
  BY <1>1 DEF ListOK, WholeBlocks
<1>5. \A i \in 1 .. Len(l) : l[i].start \in Nat /\ l[i].end \in Nat
  BY <1>2 DEF Extent
<1>6. \A i, j \in 1 .. Len(l) : i < j => l[i].end < l[j].start
  BY <1>1 DEF ListOK, WellFormed
<1> QED
  BY <1>1, <1>2, <1>3, <1>4, <1>5, <1>6 DEF IsBlocks

\* Extents of whole blocks in their order make a search space.
LEMMA ListIf ==
    ASSUME NEW bs, NEW l \in Seq(Extent),
           \A i \in 1 .. Len(l) : IsBlocks(l[i], bs),
           \A i, j \in 1 .. Len(l) : i < j => l[i].end < l[j].start
    PROVE  ListOK(l, bs)
<1>1. DOMAIN l = 1 .. Len(l)
  OBVIOUS
<1> QED
  BY <1>1 DEF ListOK, WellFormed, WholeBlocks, IsBlocks

\* The types of an extent's ends.
LEMMA BlockFacts ==
    ASSUME NEW bs, NEW x, IsBlocks(x, bs)
    PROVE  x \in Extent /\ x.start \in Nat /\ x.end \in Nat /\ x.start <= x.end
  BY DEF IsBlocks, Extent

\* An extent put where it belongs keeps the list well formed and adds its bytes.
LEMMA InsertOK ==
    ASSUME NEW bs \in Nat, NEW l, ListOK(l, bs), NEW i \in 1 .. Len(l) + 1,
           NEW x, IsBlocks(x, bs), Fits(l, i - 1, i, x)
    PROVE  /\ ListOK(InsertAt(l, i, x), bs)
           /\ \A a \in Int : InList(a, InsertAt(l, i, x)) <=> InList(a, l) \/ In(a, x)
<1> DEFINE m == InsertAt(l, i, x)
           n == Len(l)
<1>1. /\ n \in Nat /\ l \in Seq(Extent)
      /\ \A j \in 1 .. n : IsBlocks(l[j], bs) /\ l[j].start \in Nat /\ l[j].end \in Nat
                            /\ l[j].start <= l[j].end
      /\ \A j, k \in 1 .. n : j < k => l[j].end < l[k].start
      /\ x \in Extent /\ x.start \in Nat /\ x.end \in Nat /\ x.start <= x.end
  BY ListFacts, BlockFacts
<1>2. /\ m \in Seq(Extent) /\ Len(m) = n + 1
      /\ \A j \in 1 .. n + 1 : m[j] = IF j < i THEN l[j] ELSE IF j = i THEN x ELSE l[j - 1]
  BY <1>1, InsertAtIs
<1> HIDE DEF m
<1> DEFINE from(j) == IF j < i THEN j ELSE j - 1
<1>a. \A j \in 1 .. n + 1 : j # i => from(j) \in 1 .. n /\ m[j] = l[from(j)]
  BY <1>1, <1>2
<1>b. m[i] = x
  BY <1>1, <1>2
<1>3. ASSUME NEW j \in 1 .. n + 1 PROVE IsBlocks(m[j], bs)
  <2>1. \A k \in 1 .. n : IsBlocks(l[k], bs)
    BY <1>1
  <2> HIDE DEF from
  <2> QED
    BY <1>a, <1>b, <2>1
<1>4. ASSUME NEW j \in 1 .. n + 1, NEW k \in 1 .. n + 1, j < k
      PROVE  m[j].end < m[k].start
  <2>1. CASE j # i /\ k # i
    <3>1. from(j) \in 1 .. n /\ from(k) \in 1 .. n /\ from(j) < from(k)
      BY <1>1, <1>4, <2>1
    <3> QED
      BY <1>1, <1>a, <2>1, <3>1
  <2>2. CASE j = i
    <3>1. from(k) \in 1 .. n /\ i <= from(k) /\ m[k] = l[from(k)]
      BY <1>1, <1>4, <1>a, <2>2
    <3> QED
      BY <1>1, <1>b, <2>2, <3>1 DEF Fits
  <2>3. CASE k = i
    <3>1. from(j) \in 1 .. n /\ from(j) <= i - 1 /\ m[j] = l[from(j)]
      BY <1>1, <1>4, <1>a, <2>3
    <3> QED
      BY <1>1, <1>b, <2>3, <3>1 DEF Fits
  <2> QED
    BY <2>1, <2>2, <2>3
<1>5. ListOK(m, bs)
  BY <1>2, <1>3, <1>4, ListIf
<1>6. ASSUME NEW a \in Int
      PROVE  InList(a, m) <=> InList(a, l) \/ In(a, x)
  <2>1. ASSUME NEW j \in 1 .. n + 1, In(a, m[j]) PROVE InList(a, l) \/ In(a, x)
    <3>1. CASE j = i
      BY <1>b, <2>1, <3>1
    <3>2. CASE j # i
      BY <1>a, <2>1, <3>2 DEF InList
    <3> QED
      BY <3>1, <3>2
  <2>2. In(a, x) => InList(a, m)
    BY <1>1, <1>2 DEF InList
  <2>3. ASSUME NEW j \in 1 .. n, In(a, l[j]) PROVE InList(a, m)
    <3>1. CASE j < i
      <4>1. j \in 1 .. n + 1 /\ m[j] = l[j]
        BY <1>1, <1>2, <3>1
      <4> QED
        BY <1>2, <2>3, <4>1 DEF InList
    <3>2. CASE i <= j
      <4>1. j + 1 \in 1 .. n + 1 /\ j + 1 # i /\ from(j + 1) = j
        BY <1>1, <3>2
      <4>2. m[j + 1] = l[j]
        BY <1>a, <4>1
      <4> QED
        BY <1>2, <2>3, <4>1, <4>2 DEF InList
    <3> QED
      BY <3>1, <3>2, <1>1
  <2> QED
    BY <1>2, <2>1, <2>2, <2>3 DEF InList
<1> QED
  BY <1>5, <1>6 DEF m

\* So does one that takes the place of another.
LEMMA ReplaceOK ==
    ASSUME NEW bs \in Nat, NEW l, ListOK(l, bs), NEW i \in 1 .. Len(l),
           NEW x, IsBlocks(x, bs), Fits(l, i - 1, i + 1, x)
    PROVE  /\ ListOK([l EXCEPT ![i] = x], bs)
           /\ Len([l EXCEPT ![i] = x]) = Len(l)
           /\ \A a \in Int : InList(a, [l EXCEPT ![i] = x]) <=>
                               (InList(a, l) /\ ~ In(a, l[i])) \/ In(a, x)
<1> DEFINE m == [l EXCEPT ![i] = x]
           n == Len(l)
<1>1. /\ n \in Nat /\ l \in Seq(Extent)
      /\ \A j \in 1 .. n : IsBlocks(l[j], bs) /\ l[j].start \in Nat /\ l[j].end \in Nat
                            /\ l[j].start <= l[j].end
      /\ \A j, k \in 1 .. n : j < k => l[j].end < l[k].start
      /\ x \in Extent /\ x.start \in Nat /\ x.end \in Nat /\ x.start <= x.end
  BY ListFacts, BlockFacts
<1>2. /\ m \in Seq(Extent)
      /\ Len(m) = n
      /\ \A j \in 1 .. n : m[j] = IF j = i THEN x ELSE l[j]
  BY <1>1, ExceptSeq
<1> HIDE DEF m
<1>3. \A j \in 1 .. n : IsBlocks(m[j], bs)
  BY <1>1, <1>2
<1>4. \A j, k \in 1 .. n : j < k => m[j].end < m[k].start
  BY <1>1, <1>2 DEF Fits
<1>5. ListOK(m, bs)
  BY <1>2, <1>3, <1>4, ListIf
<1>6. ASSUME NEW a \in Int, NEW j \in 1 .. n, j # i, In(a, l[j])
      PROVE  ~ In(a, l[i])
  BY <1>1, <1>6, SMTT(60) DEF In
<1>7. ASSUME NEW a \in Int
      PROVE  InList(a, m) <=> (InList(a, l) /\ ~ In(a, l[i])) \/ In(a, x)
  BY <1>2, <1>6 DEF InList
<1> QED
  BY <1>2, <1>5, <1>7 DEF m

\* Removing an extent keeps the list well formed and takes its bytes away.
LEMMA RemoveOK ==
    ASSUME NEW bs \in Nat, NEW l, ListOK(l, bs), NEW i \in 1 .. Len(l)
    PROVE  /\ ListOK(RemoveAt(l, i), bs)
           /\ \A a \in Int : InList(a, RemoveAt(l, i)) <=> InList(a, l) /\ ~ In(a, l[i])
<1> DEFINE m == RemoveAt(l, i)
           n == Len(l)
<1>1. /\ n \in Nat /\ l \in Seq(Extent)
      /\ \A j \in 1 .. n : IsBlocks(l[j], bs) /\ l[j].start \in Nat /\ l[j].end \in Nat
                            /\ l[j].start <= l[j].end
      /\ \A j, k \in 1 .. n : j < k => l[j].end < l[k].start
  BY ListFacts
<1>2. /\ m \in Seq(Extent)
      /\ Len(m) = n - 1
      /\ \A j \in 1 .. n - 1 : m[j] = IF j < i THEN l[j] ELSE l[j + 1]
  BY <1>1, RemoveAtIs, ZenonT(60)
<1> HIDE DEF m
<1>3. \A j \in 1 .. n - 1 : IsBlocks(m[j], bs)
  BY <1>1, <1>2
<1> DEFINE from(j) == IF j < i THEN j ELSE j + 1
<1>a. \A j \in 1 .. n - 1 : from(j) \in 1 .. n /\ from(j) # i /\ m[j] = l[from(j)]
  BY <1>1, <1>2
<1>4. ASSUME NEW j \in 1 .. n - 1, NEW k \in 1 .. n - 1, j < k
      PROVE  m[j].end < m[k].start
  <2>1. from(j) < from(k)
    BY <1>1, <1>4
  <2> QED
    BY <1>1, <1>a, <2>1
<1>5. ListOK(m, bs)
  BY <1>2, <1>3, <1>4, ListIf
<1>6. ASSUME NEW a \in Int
      PROVE  InList(a, m) <=> InList(a, l) /\ ~ In(a, l[i])
  <2>1. ASSUME NEW j \in 1 .. n - 1, In(a, m[j]) PROVE InList(a, l) /\ ~ In(a, l[i])
    <3>1. PICK k \in 1 .. n : k # i /\ m[j] = l[k]
      BY <1>a
    <3> QED
      BY <1>1, <2>1, <3>1 DEF In, InList
  <2>2. ASSUME NEW j \in 1 .. n, In(a, l[j]), j # i PROVE InList(a, m)
    <3>1. CASE j < i
      <4>1. j \in 1 .. n - 1 /\ m[j] = l[j]
        BY <1>1, <1>2, <3>1
      <4> QED
        BY <1>2, <2>2, <4>1 DEF InList
    <3>2. CASE i < j
      <4>1. j - 1 \in 1 .. n - 1 /\ m[j - 1] = l[j]
        BY <1>1, <1>2, <3>2
      <4> QED
        BY <1>2, <2>2, <4>1 DEF InList
    <3> QED
      BY <3>1, <3>2, <2>2, <1>1
  <2> QED
    BY <1>2, <2>1, <2>2 DEF InList
<1> QED
  BY <1>5, <1>6 DEF m

\* An extent behind all others can be appended.
LEMMA AppendOK ==
    ASSUME NEW bs \in Nat, NEW l, ListOK(l, bs), NEW x, IsBlocks(x, bs),
           \A k \in 1 .. Len(l) : l[k].end < x.start
    PROVE  /\ ListOK(Append(l, x), bs)
           /\ \A a \in Int : InList(a, Append(l, x)) <=> InList(a, l) \/ In(a, x)
<1> DEFINE m == Append(l, x)
           n == Len(l)
<1>1. /\ n \in Nat /\ l \in Seq(Extent)
      /\ \A j \in 1 .. n : IsBlocks(l[j], bs)
      /\ \A j, k \in 1 .. n : j < k => l[j].end < l[k].start
      /\ x \in Extent
  BY ListFacts, BlockFacts
<1>2. /\ m \in Seq(Extent) /\ Len(m) = n + 1
      /\ \A j \in 1 .. n : m[j] = l[j]
      /\ m[n + 1] = x
  BY <1>1
<1> HIDE DEF m
<1>3. \A j \in 1 .. n + 1 : j \in 1 .. n \/ j = n + 1
  BY <1>1
<1>4. \A j \in 1 .. n + 1 : IsBlocks(m[j], bs)
  BY <1>1, <1>2, <1>3
<1>5. \A j, k \in 1 .. n + 1 : j < k => m[j].end < m[k].start
  BY <1>1, <1>2, <1>3
<1>6. ListOK(m, bs)
  BY <1>2, <1>4, <1>5, ListIf
<1>7. ASSUME NEW a \in Int
      PROVE  InList(a, m) <=> InList(a, l) \/ In(a, x)
  <2>1. 1 .. n \subseteq 1 .. n + 1 /\ n + 1 \in 1 .. n + 1
    BY <1>1
  <2> QED
    BY <1>2, <1>3, <2>1 DEF InList
<1> QED
  BY <1>6, <1>7 DEF m

\* What extent(s, e) makes.
LEMMA NewExtent ==
    ASSUME NEW s \in Nat, NEW e \in Nat
    PROVE  /\ extent(s, e) \in Extent
           /\ extent(s, e).start = s /\ extent(s, e).end = e
  BY DEF extent, Extent

\* A range none of whose bytes is in the list lies before or behind every extent.
LEMMA Between ==
    ASSUME NEW bs, NEW l, ListOK(l, bs), NEW s \in Nat, NEW e \in Nat, s <= e,
           \A a \in s .. e : ~ InList(a, l)
    PROVE  \A j \in 1 .. Len(l) : l[j].end < s \/ e < l[j].start
<1> SUFFICES ASSUME NEW j \in 1 .. Len(l), s <= l[j].end, l[j].start <= e
             PROVE  FALSE
  BY ListFacts
<1>1. l[j].start \in Nat /\ l[j].end \in Nat /\ l[j].start <= l[j].end
  BY ListFacts
<1>2. CASE s <= l[j].start
  <2>1. l[j].start \in s .. e /\ In(l[j].start, l[j])
    BY <1>1, <1>2 DEF In
  <2> QED
    BY <2>1 DEF InList
<1>3. CASE l[j].start < s
  <2>1. s \in s .. e /\ In(s, l[j])
    BY <1>1, <1>3 DEF In
  <2> QED
    BY <2>1 DEF InList
<1> QED
  BY <1>1, <1>2, <1>3

\* An extent with another end.
LEMMA WithEnd ==
    ASSUME NEW x \in Extent, NEW v \in Nat
    PROVE  /\ [x EXCEPT !.end = v] \in Extent
           /\ [x EXCEPT !.end = v].start = x.start
           /\ [x EXCEPT !.end = v].end = v
  BY DEF Extent

\* An extent with another start.
LEMMA WithStart ==
    ASSUME NEW x \in Extent, NEW v \in Nat
    PROVE  /\ [x EXCEPT !.start = v] \in Extent
           /\ [x EXCEPT !.start = v].start = v
           /\ [x EXCEPT !.start = v].end = x.end
  BY DEF Extent

\* file_block_truncate_aux: a range that is given back joins the list, which stays
\* well formed, and nothing else joins or leaves it.
LEMMA GiveBackOK ==
    ASSUME NEW bs \in Nat, bs > 1, NEW l, ListOK(l, bs),
           NEW s \in Nat, NEW e \in Nat, s <= e, s % bs = 0, (e + 1) % bs = 0,
           \A a \in s .. e : ~ InList(a, l)
    PROVE  /\ ListOK(GiveBack(l, s, e), bs)
           /\ \A a \in Int : InList(a, GiveBack(l, s, e)) <=> InList(a, l) \/ a \in s .. e
<1> DEFINE n == Len(l)
           Joins(x) == x.start = e + 1 /\ ~ x.file_stat
           Extends(x) == x.end + 1 = s
           I == { j \in 1 .. n : Joins(l[j]) \/ Extends(l[j]) \/ e < l[j].start }
           first == IF I # {} THEN Min(I) ELSE 0
           m == GiveBack(l, s, e)
           x == extent(s, e)
<1>1. ~ (s >= e) /\ e + 1 \in Nat
  BY AlignedGap
<1>2. first = SelectInSeq(l, LAMBDA y : Joins(y) \/ Extends(y) \/ e < y.start)
  BY Zenon DEF SelectInSeq
<1>3. m = IF first = 0 THEN Append(l, x)
          ELSE IF Joins(l[first]) THEN [l EXCEPT ![first].start = s]
          ELSE IF Extends(l[first]) THEN [l EXCEPT ![first].end = e]
          ELSE InsertAt(l, first, x)
  <2> HIDE DEF first
  <2> QED
    BY <1>1, <1>2, Zenon DEF GiveBack
<1> HIDE DEF m
<1>4. /\ n \in Nat /\ l \in Seq(Extent)
      /\ \A j \in 1 .. n : IsBlocks(l[j], bs) /\ l[j].start \in Nat /\ l[j].end \in Nat
                            /\ l[j].start <= l[j].end
      /\ \A j, k \in 1 .. n : j < k => l[j].end < l[k].start
  BY ListFacts
<1>5. \A j \in 1 .. n : l[j].end < s \/ e < l[j].start
  BY Between
<1>6. PICK i \in 0 .. n : /\ i = first
                          /\ i = 0 => I = {}
                          /\ i # 0 => i \in I /\ \A j \in I : i <= j
  <2>1. I \in SUBSET (1 .. n)
    OBVIOUS
  <2>2. n \in Nat
    BY <1>4
  <2> HIDE DEF I
  <2> QED
    BY <2>1, <2>2, MinIndex, Zenon
<1> HIDE DEF first
<1>a. m = IF i = 0 THEN Append(l, x)
          ELSE IF Joins(l[i]) THEN [l EXCEPT ![i].start = s]
          ELSE IF Extends(l[i]) THEN [l EXCEPT ![i].end = e]
          ELSE InsertAt(l, i, x)
  BY <1>3, <1>6, Zenon
<1>7. i = 0 => \A j \in 1 .. n : l[j].end < s
  BY <1>5, <1>6
<1>8. i # 0 => i \in 1 .. n /\ \A j \in 1 .. n : j <= i - 1 => l[j].end < s
  <2>1. ASSUME i # 0, NEW j \in 1 .. n, j <= i - 1 PROVE l[j].end < s
    <3>1. j \notin I
      BY <1>6, <2>1
    <3> HIDE DEF I
    <3> QED
      BY <1>5, <3>1 DEF I
  <2> QED
    BY <1>6, <2>1
<1>9. IsBlocks(x, bs) /\ x.start = s /\ x.end = e
  BY NewExtent DEF IsBlocks
<1>10. \A a \in Int : In(a, x) <=> a \in s .. e
  BY <1>9 DEF In
<1> HIDE DEF x
<1>11. CASE i = 0
  <2>1. m = Append(l, x) /\ \A k \in 1 .. n : l[k].end < x.start
    BY <1>a, <1>7, <1>9, <1>11
  <2> QED
    BY <1>9, <1>10, <2>1, AppendOK DEF m
<1>12. CASE i # 0 /\ Joins(l[i])
  <2> DEFINE y == [l[i] EXCEPT !.start = s]
  <2>a. m = [l EXCEPT ![i] = y]
    BY <1>a, <1>12, Zenon
  <2>b. l[i] \in Extent
    BY <1>4, <1>8, <1>12
  <2>c. y \in Extent /\ y.start = s /\ y.end = l[i].end
    BY <2>b, WithStart, Zenon
  <2> HIDE DEF y
  <2>1. y \in Extent /\ m = [l EXCEPT ![i] = y] /\ y.start = s /\ y.end = l[i].end
    BY <2>a, <2>c, Zenon
  <2>2. IsBlocks(y, bs)
    BY <1>4, <1>8, <1>12, <2>1 DEF IsBlocks
  <2>3. Fits(l, i - 1, i + 1, y)
    BY <1>4, <1>8, <1>12, <2>1 DEF Fits
  <2>5. \A a \in Int : In(a, y) <=> a \in s .. e \/ In(a, l[i])
    BY <1>4, <1>8, <1>12, <2>1 DEF In
  <2>6. \A a \in Int : In(a, l[i]) => InList(a, l)
    BY <1>8, <1>12 DEF InList
  <2>7. i \in 1 .. Len(l)
    BY <1>8, <1>12
  <2>8. /\ ListOK([l EXCEPT ![i] = y], bs)
        /\ \A a \in Int : InList(a, [l EXCEPT ![i] = y]) <=>
                            (InList(a, l) /\ ~ In(a, l[i])) \/ In(a, y)
    BY <2>2, <2>3, <2>7, ReplaceOK
  <2>9. ListOK(m, bs) /\ \A a \in Int : InList(a, m) <=> (InList(a, l) /\ ~ In(a, l[i])) \/ In(a, y)
    BY <2>1, <2>8, Zenon
  <2> QED
    BY <2>5, <2>6, <2>9 DEF m
<1>13. CASE i # 0 /\ ~ Joins(l[i]) /\ Extends(l[i])
  <2> DEFINE y == [l[i] EXCEPT !.end = e]
  <2>a. m = [l EXCEPT ![i] = y]
    BY <1>a, <1>13, Zenon
  <2>b. l[i] \in Extent
    BY <1>4, <1>8, <1>13
  <2>c. y \in Extent /\ y.start = l[i].start /\ y.end = e
    BY <2>b, WithEnd, Zenon
  <2> HIDE DEF y
  <2>1. y \in Extent /\ m = [l EXCEPT ![i] = y] /\ y.start = l[i].start /\ y.end = e
    BY <2>a, <2>c, Zenon
  <2>2. IsBlocks(y, bs)
    BY <1>4, <1>8, <1>13, <2>1 DEF IsBlocks
  <2>3. Fits(l, i - 1, i + 1, y)
    <3>1. \A k \in 1 .. n : i + 1 <= k => l[i].end < l[k].start
      BY <1>4, <1>8, <1>13
    <3>2. ASSUME NEW k \in 1 .. n, i + 1 <= k PROVE e < l[k].start
      <4>1. s <= l[k].end
        BY <1>4, <1>8, <1>13, <3>1, <3>2
      <4> QED
        BY <1>4, <1>5, <4>1
    <3>3. \A k \in 1 .. n : k <= i - 1 => l[k].end < l[i].start
      BY <1>4, <1>8, <1>13
    <3> QED
      BY <2>1, <3>2, <3>3 DEF Fits
  <2>5. \A a \in Int : In(a, y) <=> a \in s .. e \/ In(a, l[i])
    BY <1>4, <1>8, <1>13, <2>1 DEF In
  <2>6. \A a \in Int : In(a, l[i]) => InList(a, l)
    BY <1>8, <1>13 DEF InList
  <2>7. i \in 1 .. Len(l)
    BY <1>8, <1>13
  <2>8. /\ ListOK([l EXCEPT ![i] = y], bs)
        /\ \A a \in Int : InList(a, [l EXCEPT ![i] = y]) <=>
                            (InList(a, l) /\ ~ In(a, l[i])) \/ In(a, y)
    BY <2>2, <2>3, <2>7, ReplaceOK
  <2>9. ListOK(m, bs) /\ \A a \in Int : InList(a, m) <=> (InList(a, l) /\ ~ In(a, l[i])) \/ In(a, y)
    BY <2>1, <2>8, Zenon
  <2> QED
    BY <2>5, <2>6, <2>9 DEF m
<1>14. CASE i # 0 /\ ~ Joins(l[i]) /\ ~ Extends(l[i])
  <2>1. m = InsertAt(l, i, x)
    BY <1>a, <1>14, Zenon
  <2>2. e < l[i].start
    BY <1>4, <1>6, <1>8, <1>14
  <2>3. Fits(l, i - 1, i, x)
    <3>1. \A k \in 1 .. n : i <= k => l[i].start <= l[k].start
      BY <1>4, <1>8, <1>14
    <3> QED
      BY <1>4, <1>8, <1>9, <1>14, <2>2, <3>1 DEF Fits
  <2>4. i \in 1 .. n + 1
    BY <1>4, <1>8, <1>14
  <2> QED
    BY <1>9, <1>10, <2>1, <2>3, <2>4, InsertOK DEF m
<1> QED
  BY <1>11, <1>12, <1>13, <1>14

\* file_block_truncate_zero_aux does the same for the first range of a rejected
\* file.
LEMMA GiveBackHeaderOK ==
    ASSUME NEW bs \in Nat, bs > 1, NEW l, ListOK(l, bs),
           NEW s \in Nat, NEW e \in Nat, s <= e, s % bs = 0, (e + 1) % bs = 0,
           \A a \in s .. e : ~ InList(a, l)
    PROVE  /\ ListOK(GiveBackHeader(l, s, e), bs)
           /\ \A a \in Int : InList(a, GiveBackHeader(l, s, e)) <=> InList(a, l) \/ a \in s .. e
<1> DEFINE n == Len(l)
           Joins(x) == x.start = e + 1 /\ ~ x.file_stat
           I == { j \in 1 .. n : Joins(l[j]) \/ e < l[j].start }
           first == IF I # {} THEN Min(I) ELSE 0
           m == GiveBackHeader(l, s, e)
           x == [ extent(s, e) EXCEPT !.file_stat = TRUE ]
<1>1. ~ (s >= e) /\ e + 1 \in Nat
  BY AlignedGap
<1>2. first = SelectInSeq(l, LAMBDA y : Joins(y) \/ e < y.start)
  BY Zenon DEF SelectInSeq
<1>3. m = IF first = 0 THEN Append(l, x)
          ELSE IF Joins(l[first]) THEN ReplaceAt(l, first, [ x EXCEPT !.end = l[first].end ])
          ELSE InsertAt(l, first, x)
  <2> HIDE DEF first
  <2> QED
    BY <1>1, <1>2, Zenon DEF GiveBackHeader
<1> HIDE DEF m
<1>4. /\ n \in Nat /\ l \in Seq(Extent)
      /\ \A j \in 1 .. n : IsBlocks(l[j], bs) /\ l[j].start \in Nat /\ l[j].end \in Nat
                            /\ l[j].start <= l[j].end
      /\ \A j, k \in 1 .. n : j < k => l[j].end < l[k].start
  BY ListFacts
<1>5. \A j \in 1 .. n : l[j].end < s \/ e < l[j].start
  <2> HIDE DEF x
  <2> QED
    BY Between
<1>6. PICK i \in 0 .. n : /\ i = first
                          /\ i = 0 => I = {}
                          /\ i # 0 => i \in I /\ \A j \in I : i <= j
  <2>1. I \in SUBSET (1 .. n)
    OBVIOUS
  <2>2. n \in Nat
    BY <1>4
  <2> HIDE DEF I
  <2> QED
    BY <2>1, <2>2, MinIndex, Zenon
<1> HIDE DEF first
<1>7. m = IF i = 0 THEN Append(l, x)
          ELSE IF Joins(l[i]) THEN ReplaceAt(l, i, [ x EXCEPT !.end = l[i].end ])
          ELSE InsertAt(l, i, x)
  BY <1>3, <1>6, Zenon
<1>8. i = 0 => \A j \in 1 .. n : l[j].end < s
  BY <1>5, <1>6
<1>9. i # 0 => i \in 1 .. n /\ \A j \in 1 .. n : j <= i - 1 => l[j].end < s
  <2>1. ASSUME i # 0, NEW j \in 1 .. n, j <= i - 1 PROVE l[j].end < s
    <3>1. j \notin I
      BY <1>6, <2>1
    <3> HIDE DEF I
    <3> QED
      BY <1>5, <3>1 DEF I
  <2> QED
    BY <1>6, <2>1
<1>10. x \in Extent /\ x.start = s /\ x.end = e
  <2>1. extent(s, e) \in Extent /\ extent(s, e).start = s /\ extent(s, e).end = e
    BY NewExtent
  <2> QED
    BY <2>1, Zenon DEF Extent
<1> HIDE DEF x
<1>11. IsBlocks(x, bs) /\ \A a \in Int : In(a, x) <=> a \in s .. e
  BY <1>10 DEF IsBlocks, In
<1>12. CASE i = 0
  <2>1. m = Append(l, x) /\ \A k \in 1 .. n : l[k].end < x.start
    BY <1>7, <1>8, <1>10, <1>12
  <2> QED
    BY <1>11, <2>1, AppendOK DEF m
<1>13. CASE i # 0 /\ Joins(l[i])
  <2> DEFINE y == [ x EXCEPT !.end = l[i].end ]
  <2>a. m = [ l EXCEPT ![i] = y ]
    BY <1>7, <1>13, Zenon DEF ReplaceAt
  <2>b. l[i].end \in Nat
    BY <1>4, <1>9, <1>13
  <2>c. y \in Extent /\ y.start = s /\ y.end = l[i].end
    BY <1>10, <2>b, WithEnd, Zenon
  <2> HIDE DEF y
  <2>1. y \in Extent /\ m = [l EXCEPT ![i] = y] /\ y.start = s /\ y.end = l[i].end
    BY <2>a, <2>c, Zenon
  <2>2. IsBlocks(y, bs)
    BY <1>4, <1>9, <1>13, <2>1 DEF IsBlocks
  <2>3. Fits(l, i - 1, i + 1, y)
    BY <1>4, <1>9, <1>13, <2>1 DEF Fits
  <2>5. \A a \in Int : In(a, y) <=> a \in s .. e \/ In(a, l[i])
    BY <1>4, <1>9, <1>13, <2>1 DEF In
  <2>6. \A a \in Int : In(a, l[i]) => InList(a, l)
    BY <1>9, <1>13 DEF InList
  <2>7. i \in 1 .. Len(l)
    BY <1>9, <1>13
  <2>8. /\ ListOK([l EXCEPT ![i] = y], bs)
        /\ \A a \in Int : InList(a, [l EXCEPT ![i] = y]) <=>
                            (InList(a, l) /\ ~ In(a, l[i])) \/ In(a, y)
    BY <2>2, <2>3, <2>7, ReplaceOK
  <2>9. ListOK(m, bs) /\ \A a \in Int : InList(a, m) <=> (InList(a, l) /\ ~ In(a, l[i])) \/ In(a, y)
    BY <2>1, <2>8, Zenon
  <2> QED
    BY <2>5, <2>6, <2>9 DEF m
<1>14. CASE i # 0 /\ ~ Joins(l[i])
  <2>1. m = InsertAt(l, i, x)
    BY <1>7, <1>14, Zenon
  <2>2. e < l[i].start
    BY <1>4, <1>6, <1>9, <1>14
  <2>3. Fits(l, i - 1, i, x)
    <3>1. \A k \in 1 .. n : i <= k => l[i].start <= l[k].start
      BY <1>4, <1>9, <1>14
    <3>2. \A k \in 1 .. n : i <= k => e < l[k].start
      BY <1>4, <1>9, <1>14, <2>2, <3>1
    <3> QED
      BY <1>9, <1>10, <1>14, <3>2 DEF Fits
  <2>4. i \in 1 .. n + 1
    BY <1>4, <1>9, <1>14
  <2> QED
    BY <1>11, <2>1, <2>3, <2>4, InsertOK DEF m
<1> QED
  BY <1>12, <1>13, <1>14

\* Taking the greatest index from 1..k leaves 1..k-1.
LEMMA UpTo ==
    ASSUME NEW k \in Nat, k >= 1
    PROVE  1 .. k # {} /\ k \in 1 .. k /\ (1 .. k) \ { k } = 1 .. (k - 1) /\ Max(1 .. k) = k
<1>1. k \in 1 .. k
  OBVIOUS
<1>2. 1 .. k # {}
  BY <1>1
<1>3. (1 .. k) \ { k } = 1 .. (k - 1)
  OBVIOUS
<1>4. Max(1 .. k) \in 1 .. k /\ k <= Max(1 .. k)
  <2>1. 1 .. k \in SUBSET (1 .. k)
    OBVIOUS
  <2> QED
    BY <1>1, <1>2, <2>1, MaxProperty
<1>5. Max(1 .. k) = k
  BY <1>4
<1> QED
  BY <1>1, <1>2, <1>3, <1>5

\* Giving back yields a list of extents.
LEMMA GiveBackType ==
    ASSUME NEW l \in Seq(Extent), NEW s \in Nat, NEW e \in Nat
    PROVE  GiveBack(l, s, e) \in Seq(Extent)
<1> DEFINE n == Len(l)
           Joins(x) == x.start = e + 1 /\ ~ x.file_stat
           Extends(x) == x.end + 1 = s
           I == { j \in 1 .. n : Joins(l[j]) \/ Extends(l[j]) \/ e < l[j].start }
           first == IF I # {} THEN Min(I) ELSE 0
           m == GiveBack(l, s, e)
           x == extent(s, e)
<1>1. first = SelectInSeq(l, LAMBDA y : Joins(y) \/ Extends(y) \/ e < y.start)
  BY Zenon DEF SelectInSeq
<1>2. m = IF s >= e THEN l
          ELSE IF first = 0 THEN Append(l, x)
          ELSE IF Joins(l[first]) THEN [l EXCEPT ![first].start = s]
          ELSE IF Extends(l[first]) THEN [l EXCEPT ![first].end = e]
          ELSE InsertAt(l, first, x)
  <2> HIDE DEF first
  <2> QED
    BY <1>1, Zenon DEF GiveBack
<1>3. PICK i \in 0 .. n : i = first
  <2>1. I \in SUBSET (1 .. n) /\ n \in Nat
    OBVIOUS
  <2> HIDE DEF I
  <2> QED
    BY <2>1, MinIndex, Zenon
<1> HIDE DEF m, first
<1>4. x \in Extent
  BY NewExtent
<1> HIDE DEF x
<1>5. CASE i = 0 \/ s >= e
  <2>1. m = l \/ m = Append(l, x)
    BY <1>2, <1>3, <1>5, Zenon
  <2> QED
    BY <1>4, <2>1 DEF m
<1>6. CASE i # 0 /\ ~ (s >= e)
  <2> DEFINE y == [l[i] EXCEPT !.start = s]
             z == [l[i] EXCEPT !.end = e]
  <2>1. m = [l EXCEPT ![i] = y] \/ m = [l EXCEPT ![i] = z] \/ m = InsertAt(l, i, x)
    BY <1>2, <1>3, <1>6, Zenon
  <2>2. l[i] \in Extent /\ i \in 1 .. Len(l) /\ i \in 1 .. Len(l) + 1
    BY <1>6
  <2>3. y \in Extent /\ z \in Extent
    BY <2>2, WithStart, WithEnd, Zenon
  <2> HIDE DEF y, z
  <2>4. [l EXCEPT ![i] = y] \in Seq(Extent) /\ [l EXCEPT ![i] = z] \in Seq(Extent)
    BY <2>2, <2>3
  <2>5. InsertAt(l, i, x) \in Seq(Extent)
    BY <1>4, <2>2, InsertAtIs
  <2> QED
    BY <2>1, <2>4, <2>5 DEF m
<1> QED
  BY <1>5, <1>6

\* An element of a file's location.
Element == [ start : Nat, end : Nat, data : { 0, 1 } ]

\* The fold of GiveBackAll, as the lists it passes through.
LEMMA GiveBackAllSteps ==
    ASSUME NEW l \in Seq(Extent), NEW locs \in Seq(Element)
    PROVE  \E v \in [0 .. Len(locs) -> Seq(Extent)] :
                  /\ v[0] = l
                  /\ \A i \in 1 .. Len(locs) : v[i] = GiveBack(v[i - 1], locs[i].start, locs[i].end)
                  /\ GiveBackAll(l, locs) = v[Len(locs)]
<1> DEFINE n == Len(locs)
<1>a. n \in Nat /\ DOMAIN locs = 1 .. n
  OBVIOUS
<1>b. \A i \in 1 .. n : locs[i].start \in Nat /\ locs[i].end \in Nat
  <2>1. \A i \in 1 .. n : locs[i] \in Element
    OBVIOUS
  <2> QED
    BY <2>1 DEF Element
<1> HIDE DEF n
<1> DEFINE X == Seq(Extent)
           F == [ p \in (1 .. n) \X X |-> GiveBack(p[2], locs[p[1]].start, locs[p[1]].end) ]
           Eq(g) == g = [ s \in SUBSET (DOMAIN locs) |->
                           IF s = {} THEN l
                           ELSE GiveBack(g[s \ { Max(s) }], locs[Max(s)].start, locs[Max(s)].end) ]
           c == CHOOSE g : Eq(g)
<1>1. GiveBackAll(l, locs) = c[DOMAIN locs]
  BY DEF GiveBackAll, FoldLeft, MapThenFoldSet
<1>2. \A i \in 1 .. n : \A m \in X : F[<< i, m >>] = GiveBack(m, locs[i].start, locs[i].end)
  OBVIOUS
<1>3. F \in [(1 .. n) \X X -> X]
  BY <1>b, GiveBackType
<1> HIDE DEF F, X
<1>4. PICK g \in [SUBSET (1 .. n) -> X] : FoldEquation(g, n, l, F)
  BY <1>3, <1>a, FoldExists DEF X
<1>5. ASSUME NEW s \in SUBSET (1 .. n)
      PROVE  g[s] = IF s = {} THEN l
                    ELSE GiveBack(g[s \ { Max(s) }], locs[Max(s)].start, locs[Max(s)].end)
  <2>1. g[s] = IF s = {} THEN l ELSE F[<< Max(s), g[s \ { Max(s) }] >>]
    BY <1>4 DEF FoldEquation
  <2>2. CASE s # {}
    <3>1. Max(s) \in s
      BY <1>a, <2>2, MaxProperty
    <3>2. g[s \ { Max(s) }] \in X
      BY <1>4
    <3> QED
      BY <1>2, <2>1, <2>2, <3>1, <3>2
  <2> QED
    BY <2>1, <2>2
<1>6. Eq(g)
  BY <1>4, <1>5, <1>a
<1>7. Eq(c)
  BY <1>6
<1> HIDE DEF c
<1> DEFINE v == [ k \in 0 .. n |-> c[1 .. k] ]
<1>8. v[0] = l
  <2>1. 1 .. 0 = {} /\ {} \in SUBSET (DOMAIN locs) /\ 0 \in 0 .. n
    BY <1>a
  <2> QED
    BY <1>7, <2>1
<1>9. ASSUME NEW k \in 1 .. n
      PROVE  v[k] = GiveBack(v[k - 1], locs[k].start, locs[k].end)
  <2>a. k \in Nat /\ k >= 1 /\ k <= n
    BY <1>a
  <2>1. Max(1 .. k) = k /\ 1 .. k # {} /\ (1 .. k) \ { k } = 1 .. (k - 1)
    BY <2>a, UpTo
  <2>c. 1 .. k \subseteq 1 .. n
    BY <2>a, <1>a
  <2>2. (1 .. k) \ { k } = 1 .. k - 1 /\ 1 .. k # {} /\ 1 .. k \in SUBSET (DOMAIN locs)
    BY <2>1, <2>c, <1>a
  <2>3. k - 1 \in 0 .. n /\ k \in 0 .. n
    BY <1>a
  <2> QED
    BY <1>7, <2>1, <2>2, <2>3
<1>10. v[n] = c[DOMAIN locs]
  BY <1>a
<1>11. v = [ k \in 0 .. n |-> v[k] ]
  OBVIOUS
<1> HIDE DEF v
<1> DEFINE T == { k \in 0 .. n : v[k] \in Seq(Extent) }
<1>12. 0 \in T
  BY <1>8, <1>a
<1>13. ASSUME NEW k \in 1 .. n, k - 1 \in T PROVE k \in T
  <2>1. v[k - 1] \in Seq(Extent) /\ k \in 0 .. n
    BY <1>13
  <2>2. GiveBack(v[k - 1], locs[k].start, locs[k].end) \in Seq(Extent)
    BY <1>b, <2>1, GiveBackType
  <2> QED
    BY <1>9, <2>1, <2>2
<1>14. 0 .. n \subseteq T
  <2> HIDE DEF T
  <2> QED
    BY <1>a, <1>12, <1>13, SetInduction
<1>15. v \in [0 .. n -> Seq(Extent)]
  BY <1>11, <1>14
<1> QED
  BY <1>1, <1>8, <1>9, <1>10, <1>15 DEF n

\* No two ranges of a location share a byte; their order is free, as a file may go
\* on before where it began.
Apart(l) ==
    /\ \A i \in DOMAIN l : l[i].start <= l[i].end
    /\ \A i, j \in DOMAIN l : i # j => l[i].end < l[j].start \/ l[j].end < l[i].start

\* What the location of a file always is.
LocationOK(loc, bs) == loc \in Seq(Element) /\ Apart(loc) /\ WholeBlocks(loc, bs)

\* What LocationOK says of the elements.
LEMMA LocationFacts ==
    ASSUME NEW bs, NEW l, LocationOK(l, bs)
    PROVE  /\ l \in Seq(Element) /\ Len(l) \in Nat /\ DOMAIN l = 1 .. Len(l)
           /\ \A i \in 1 .. Len(l) :
                 /\ l[i] \in Element
                 /\ l[i].start \in Nat /\ l[i].end \in Nat /\ l[i].start <= l[i].end
                 /\ l[i].start % bs = 0 /\ (l[i].end + 1) % bs = 0
                 /\ l[i].data \in { 0, 1 }
           /\ \A i, j \in 1 .. Len(l) : i # j => l[i].end < l[j].start \/ l[j].end < l[i].start
<1>1. l \in Seq(Element) /\ Len(l) \in Nat /\ DOMAIN l = 1 .. Len(l)
  BY DEF LocationOK
<1>2. \A i \in 1 .. Len(l) : l[i] \in Element
  BY <1>1
<1>3. \A i \in 1 .. Len(l) : l[i].start <= l[i].end
  BY <1>1 DEF LocationOK, Apart
<1>4. \A i \in 1 .. Len(l) : l[i].start % bs = 0 /\ (l[i].end + 1) % bs = 0
  BY <1>1 DEF LocationOK, WholeBlocks
<1>5. \A i \in 1 .. Len(l) : l[i].start \in Nat /\ l[i].end \in Nat /\ l[i].data \in { 0, 1 }
  BY <1>2 DEF Element
<1>6. \A i, j \in 1 .. Len(l) : i # j => l[i].end < l[j].start \/ l[j].end < l[i].start
  BY <1>1 DEF LocationOK, Apart
<1> QED
  BY <1>1, <1>2, <1>3, <1>4, <1>5, <1>6

\* All the ranges of a location come back to the list.
LEMMA GiveBackAllOK ==
    ASSUME NEW bs \in Nat, bs > 1, NEW l, ListOK(l, bs), NEW locs, LocationOK(locs, bs),
           \A a \in Int : ~ (InList(a, l) /\ InList(a, locs))
    PROVE  /\ ListOK(GiveBackAll(l, locs), bs)
           /\ \A a \in Int : InList(a, GiveBackAll(l, locs)) <=> InList(a, l) \/ InList(a, locs)
<1> DEFINE n == Len(locs)
<1>1. /\ n \in Nat /\ DOMAIN locs = 1 .. n
      /\ \A i \in 1 .. n : /\ locs[i].start \in Nat /\ locs[i].end \in Nat
                           /\ locs[i].start <= locs[i].end
                           /\ locs[i].start % bs = 0 /\ (locs[i].end + 1) % bs = 0
      /\ \A i, j \in 1 .. n : i # j => locs[i].end < locs[j].start \/ locs[j].end < locs[i].start
  BY LocationFacts
<1>2. l \in Seq(Extent)
  BY DEF ListOK
<1>3. PICK v \in [0 .. n -> Seq(Extent)] :
               /\ v[0] = l
               /\ \A i \in 1 .. n : v[i] = GiveBack(v[i - 1], locs[i].start, locs[i].end)
               /\ GiveBackAll(l, locs) = v[n]
  <2>1. locs \in Seq(Element)
    BY DEF LocationOK
  <2> QED
    BY <1>2, <2>1, GiveBackAllSteps
<1> HIDE DEF n
<1> DEFINE Back(k, a) == \E i \in 1 .. n : i <= k /\ In(a, locs[i])
           S == { k \in 0 .. n : /\ ListOK(v[k], bs)
                                 /\ \A a \in Int : InList(a, v[k]) <=> InList(a, l) \/ Back(k, a) }
<1>4. 0 \in S
  <2>1. \A a : ~ Back(0, a)
    BY <1>1
  <2> HIDE DEF Back
  <2> QED
    BY <1>1, <1>3, <2>1
<1>5. ASSUME NEW k \in 1 .. n, k - 1 \in S
      PROVE  k \in S
  <2> DEFINE s == locs[k].start
             e == locs[k].end
             m == v[k - 1]
  <2>1. ListOK(m, bs) /\ \A a \in Int : InList(a, m) <=> InList(a, l) \/ Back(k - 1, a)
    BY <1>5
  <2>2. s \in Nat /\ e \in Nat /\ s <= e /\ s % bs = 0 /\ (e + 1) % bs = 0
    BY <1>1
  <2>3. \A a \in Int : In(a, locs[k]) <=> a \in s .. e
    BY <2>2 DEF In
  <2>4. ASSUME NEW a \in s .. e PROVE ~ InList(a, m)
    <3>1. a \in Int /\ In(a, locs[k])
      BY <2>2, <2>3
    <3>2. InList(a, locs)
      BY <3>1 DEF InList, n
    <3>3. ~ InList(a, l)
      BY <3>1, <3>2
    <3>4. ASSUME NEW i \in 1 .. n, i <= k - 1, In(a, locs[i]) PROVE FALSE
      <4>1. i # k
        BY <1>1, <3>4
      <4>2. locs[i].end < locs[k].start \/ locs[k].end < locs[i].start
        BY <1>1, <4>1
      <4> QED
        <5>1. locs[i].start \in Nat /\ locs[i].end \in Nat /\ locs[k].start \in Nat /\ locs[k].end \in Nat
          BY <1>1
        <5> QED
          BY <3>1, <3>4, <4>2, <5>1 DEF In
    <3> QED
      BY <2>1, <3>1, <3>3, <3>4
  <2>5. v[k] = GiveBack(m, s, e)
    BY <1>3
  <2> HIDE DEF m, s, e
  <2>b. \A a \in s .. e : ~ InList(a, m)
    BY <2>4
  <2>c. ListOK(m, bs)
    BY <2>1
  <2>d. /\ ListOK(GiveBack(m, s, e), bs)
        /\ \A a \in Int : InList(a, GiveBack(m, s, e)) <=> InList(a, m) \/ a \in s .. e
    BY <2>2, <2>b, <2>c, GiveBackOK
  <2>6. /\ ListOK(v[k], bs)
        /\ \A a \in Int : InList(a, v[k]) <=> InList(a, m) \/ a \in s .. e
    BY <2>5, <2>d, Zenon
  <2>7. ASSUME NEW a PROVE Back(k, a) <=> Back(k - 1, a) \/ In(a, locs[k])
    <3>1. \A i \in 1 .. n : i <= k <=> i <= k - 1 \/ i = k
      BY <1>1
    <3> QED
      BY <3>1
  <2> HIDE DEF Back
  <2>8. \A a \in Int : InList(a, v[k]) <=> InList(a, l) \/ Back(k, a)
    BY <2>1, <2>3, <2>6, <2>7
  <2>9. k \in 0 .. n
    OBVIOUS
  <2> QED
    BY <2>6, <2>8, <2>9
<1>6. n \in S
  <2> HIDE DEF S
  <2>1. 0 .. n \subseteq S
    BY <1>1, <1>4, <1>5, SetInduction
  <2> QED
    BY <1>1, <2>1
<1>7. \A a : Back(n, a) <=> InList(a, locs)
  BY <1>1 DEF InList, n
<1> HIDE DEF Back
<1> QED
  BY <1>3, <1>6, <1>7

\* A location without its first element.
LEMMA TailOK ==
    ASSUME NEW bs, NEW l, LocationOK(l, bs), l # << >>
    PROVE  /\ LocationOK(Tail(l), bs)
           /\ 1 \in 1 .. Len(l)
           /\ \A a \in Int : /\ InList(a, l) <=> In(a, l[1]) \/ InList(a, Tail(l))
                             /\ ~ (In(a, l[1]) /\ InList(a, Tail(l)))
<1> DEFINE n == Len(l)
           m == Tail(l)
<1>1. /\ n \in Nat /\ l \in Seq(Element)
      /\ \A i \in 1 .. n : /\ l[i] \in Element
                           /\ l[i].start \in Nat /\ l[i].end \in Nat /\ l[i].start <= l[i].end
                           /\ l[i].start % bs = 0 /\ (l[i].end + 1) % bs = 0
      /\ \A i, j \in 1 .. n : i # j => l[i].end < l[j].start \/ l[j].end < l[i].start
  BY LocationFacts
<1>2. m \in Seq(Element) /\ Len(m) = n - 1 /\ \A i \in 1 .. n - 1 : m[i] = l[i + 1]
  <2>1. m \in Seq(Element) /\ Len(m) = n - 1 /\ \A i \in 1 .. Len(m) : m[i] = l[i + 1]
    BY <1>1, HeadTailProperties
  <2> HIDE DEF m
  <2> QED
    BY <2>1
<1>3. n >= 1
  BY <1>1, EmptySeq
<1> HIDE DEF m
<1>4. DOMAIN m = 1 .. n - 1 /\ \A i \in 1 .. n - 1 : i + 1 \in 1 .. n /\ m[i] = l[i + 1]
  BY <1>1, <1>2
<1>5. \A i \in 1 .. n - 1 : /\ m[i].start <= m[i].end
                            /\ m[i].start % bs = 0 /\ (m[i].end + 1) % bs = 0
  BY <1>1, <1>4
<1>6. \A i, j \in 1 .. n - 1 : i # j => m[i].end < m[j].start \/ m[j].end < m[i].start
  <2> TAKE i, j \in 1 .. n - 1
  <2>1. i + 1 \in 1 .. n /\ j + 1 \in 1 .. n /\ (i # j => i + 1 # j + 1)
    BY <1>4
  <2> QED
    BY <1>1, <1>4, <2>1
<1>7. LocationOK(m, bs)
  BY <1>2, <1>4, <1>5, <1>6 DEF LocationOK, Apart, WholeBlocks
<1>8. \A i \in 1 .. n : i = 1 \/ (i - 1 \in 1 .. n - 1 /\ m[i - 1] = l[i])
  <2> TAKE i \in 1 .. n
  <2>1. i = 1 \/ i - 1 \in 1 .. n - 1
    BY <1>1
  <2>2. i - 1 \in 1 .. n - 1 => m[i - 1] = l[i]
    BY <1>4
  <2> QED
    BY <2>1, <2>2
<1>9. 1 \in 1 .. n
  BY <1>1, <1>3
<1>10. ASSUME NEW a \in Int
       PROVE  /\ InList(a, l) <=> In(a, l[1]) \/ InList(a, m)
              /\ ~ (In(a, l[1]) /\ InList(a, m))
  <2>1. InList(a, m) <=> \E i \in 1 .. n - 1 : In(a, m[i])
    BY <1>2 DEF InList
  <2>2. InList(a, l) <=> \E i \in 1 .. n : In(a, l[i])
    BY DEF InList
  <2>3. ASSUME NEW i \in 1 .. n - 1, In(a, m[i]) PROVE ~ In(a, l[1])
    <3>1. i + 1 \in 1 .. n /\ i + 1 # 1 /\ m[i] = l[i + 1]
      BY <1>4
    <3> QED
      BY <1>1, <1>9, <2>3, <3>1 DEF In
  <2> QED
    BY <1>4, <1>8, <1>9, <2>1, <2>2, <2>3
<1> QED
  BY <1>7, <1>9, <1>10 DEF m

\* file_block_truncate_zero gives back all the blocks of a rejected file, keeps the
\* list well formed and invents no byte.
LEMMA TruncateZeroOK ==
    ASSUME NEW bs \in Nat, bs > 1, NEW l, ListOK(l, bs), NEW locs, LocationOK(locs, bs),
           \A a \in Int : ~ (InList(a, l) /\ InList(a, locs))
    PROVE  /\ ListOK(file_block_truncate_zero(l, locs), bs)
           /\ \A a \in Int : InList(a, file_block_truncate_zero(l, locs)) <=>
                               InList(a, l) \/ InList(a, locs)
<1>1. CASE locs = << >>
  <2>1. \A a : ~ InList(a, locs)
    BY <1>1 DEF InList
  <2> QED
    BY <1>1, <2>1 DEF file_block_truncate_zero
<1>2. CASE locs # << >>
  <2> DEFINE s == locs[1].start
             e == locs[1].end
             m == GiveBackHeader(l, s, e)
  <2>1. /\ LocationOK(Tail(locs), bs) /\ 1 \in 1 .. Len(locs)
        /\ \A a \in Int : /\ InList(a, locs) <=> In(a, locs[1]) \/ InList(a, Tail(locs))
                          /\ ~ (In(a, locs[1]) /\ InList(a, Tail(locs)))
    BY <1>2, TailOK
  <2>2. s \in Nat /\ e \in Nat /\ s <= e /\ s % bs = 0 /\ (e + 1) % bs = 0
    BY <2>1, LocationFacts
  <2>3. \A a \in Int : In(a, locs[1]) <=> a \in s .. e
    BY <2>2 DEF In
  <2>4. file_block_truncate_zero(l, locs) = GiveBackAll(m, Tail(locs))
    BY <1>2 DEF file_block_truncate_zero
  <2> HIDE DEF s, e
  <2>5. /\ ListOK(m, bs)
        /\ \A a \in Int : InList(a, m) <=> InList(a, l) \/ a \in s .. e
    BY <2>1, <2>2, <2>3, GiveBackHeaderOK
  <2> HIDE DEF m
  <2>6. \A a \in Int : ~ (InList(a, m) /\ InList(a, Tail(locs)))
    BY <2>1, <2>3, <2>5
  <2>7. /\ ListOK(GiveBackAll(m, Tail(locs)), bs)
        /\ \A a \in Int : InList(a, GiveBackAll(m, Tail(locs))) <=>
                            InList(a, m) \/ InList(a, Tail(locs))
    BY <2>1, <2>5, <2>6, GiveBackAllOK
  <2> QED
    BY <2>1, <2>3, <2>4, <2>5, <2>7
<1> QED
  BY <1>1, <1>2

\* What file_block_truncate has done so far.
Progress == [ list : Seq(Extent), loc : Seq(Element), sum : Int, truncated : BOOLEAN ]

\* The bytes the file keeps of the element in which it ends: whole blocks.
CutAt(size, sum, bs) == ((size - sum + bs - 1) \div bs) * bs

\* They cover what is left of the size with less than a block to spare.
LEMMA CutIs ==
    ASSUME NEW bs \in Nat, bs > 0, NEW size \in Nat, NEW sum \in Int, sum < size
    PROVE  /\ CutAt(size, sum, bs) \in Nat
           /\ CutAt(size, sum, bs) % bs = 0
           /\ size - sum <= CutAt(size, sum, bs) /\ CutAt(size, sum, bs) < size - sum + bs
<1> DEFINE d == size - sum
           c == RoundUp(d, bs, 0)
<1>1. d \in Int /\ d > 0
  OBVIOUS
<1> HIDE DEF d
<1>2. c \in Int /\ c % bs = 0 /\ d <= c /\ c < d + bs
  BY <1>1, RoundUpIs
<1>3. CutAt(size, sum, bs) = c
  <2>1. (d + bs - 1) \div bs \in Int
    <3>1. d + bs - 1 \in Int
      BY <1>1
    <3> QED
      BY <3>1, DivMod
  <2>2. d - 0 + bs - 1 = d + bs - 1
    BY <1>1
  <2>3. CutAt(size, sum, bs) = ((d + bs - 1) \div bs) * bs
    BY DEF CutAt, d
  <2>4. c = ((d - 0 + bs - 1) \div bs) * bs + 0
    BY DEF RoundUp
  <2> QED
    BY <2>1, <2>2, <2>3, <2>4
<1> QED
  BY <1>1, <1>2, <1>3 DEF d

\* An element with another end.
LEMMA WithElementEnd ==
    ASSUME NEW x \in Element, NEW v \in Nat
    PROVE  /\ [x EXCEPT !.end = v] \in Element
           /\ [x EXCEPT !.end = v].start = x.start
           /\ [x EXCEPT !.end = v].data = x.data
           /\ [x EXCEPT !.end = v].end = v
  BY DEF Element

\* r is what becomes of t at the element x: y is the part of x that is kept and c
\* its length.
Outcome(t, x, size, r, c, y) ==
    /\ t.sum >= size =>
          /\ r.list = GiveBack(t.list, x.start, x.end)
          /\ r.loc = t.loc /\ r.sum = t.sum /\ r.truncated = TRUE
    /\ ~ (t.sum >= size) /\ x.data = 0 =>
          /\ r.list = t.list /\ r.loc = Append(t.loc, x)
          /\ r.sum = t.sum /\ r.truncated = t.truncated
    /\ ~ (t.sum >= size) /\ x.data # 0 /\ t.sum + x.end - x.start + 1 > size =>
          /\ r.list = GiveBack(t.list, x.start + c, x.end)
          /\ r.loc = Append(t.loc, y)
          /\ r.sum = size /\ r.truncated = t.truncated
    /\ ~ (t.sum >= size) /\ x.data # 0 /\ ~ (t.sum + x.end - x.start + 1 > size) =>
          /\ r.list = t.list /\ r.loc = Append(t.loc, x)
          /\ r.sum = t.sum + x.end - x.start + 1 /\ r.truncated = t.truncated
    /\ r = [ list |-> r.list, loc |-> r.loc, sum |-> r.sum, truncated |-> r.truncated ]

\* How the element in which the file ends is cut.
CutTo(t, x, size, bs, c, y) ==
    t.sum < size =>
        /\ c \in Nat /\ c % bs = 0
        /\ size - t.sum <= c /\ c < size - t.sum + bs
        /\ y \in Element
        /\ y.start = x.start /\ y.end = x.start + c - 1 /\ y.data = x.data

\* TruncateElement has that outcome.
LEMMA OutcomeIs ==
    ASSUME NEW t \in Progress, NEW x \in Element, NEW size \in Nat, NEW bs \in Nat,
           NEW c, c = CutAt(size, t.sum, bs),
           NEW y, y = [ x EXCEPT !.end = x.start + c - 1 ]
    PROVE  Outcome(t, x, size, TruncateElement(t, x, size, bs), c, y)
<1> DEFINE r == TruncateElement(t, x, size, bs)
<1>1. CASE t.sum >= size
  <2>1. r = [ t EXCEPT !.list = GiveBack(@, x.start, x.end), !.truncated = TRUE ]
    BY <1>1, Zenon DEF TruncateElement
  <2>2. Outcome(t, x, size, r, c, y)
    BY <1>1, <2>1, Zenon DEF Progress, Outcome
  <2> QED
    BY <2>2
<1>2. CASE ~ (t.sum >= size) /\ x.data = 0
  <2>1. r = [ t EXCEPT !.loc = Append(@, x) ]
    BY <1>2, Zenon DEF TruncateElement
  <2>2. Outcome(t, x, size, r, c, y)
    BY <1>2, <2>1, Zenon DEF Progress, Outcome
  <2> QED
    BY <2>2
<1>3. CASE ~ (t.sum >= size) /\ x.data # 0 /\ t.sum + x.end - x.start + 1 > size
  <2>1. r = [ t EXCEPT !.list = GiveBack(@, x.start + c, x.end), !.sum = size,
                       !.loc = Append(@, [ x EXCEPT !.end = x.start + c - 1 ]) ]
    BY <1>3, Zenon DEF TruncateElement, CutAt
  <2>2. Outcome(t, x, size, r, c, y)
    BY <1>3, <2>1, Zenon DEF Progress, Outcome
  <2> QED
    BY <2>2
<1>4. CASE ~ (t.sum >= size) /\ x.data # 0 /\ ~ (t.sum + x.end - x.start + 1 > size)
  <2>1. r = [ t EXCEPT !.sum = @ + x.end - x.start + 1, !.loc = Append(@, x) ]
    BY <1>4, Zenon DEF TruncateElement
  <2>2. Outcome(t, x, size, r, c, y)
    BY <1>4, <2>1, Zenon DEF Progress, Outcome
  <2> QED
    BY <2>2
<1> QED
  BY <1>1, <1>2, <1>3, <1>4, Zenon

\* and cuts at a block boundary.
LEMMA TruncateElementIs ==
    ASSUME NEW t \in Progress, NEW x \in Element, NEW size \in Nat, NEW bs \in Nat, bs > 0
    PROVE  \E c, y : /\ CutTo(t, x, size, bs, c, y)
                     /\ Outcome(t, x, size, TruncateElement(t, x, size, bs), c, y)
<1> DEFINE c == CutAt(size, t.sum, bs)
           v == x.start + c - 1
           y == [ x EXCEPT !.end = v ]
<1>1. t.sum \in Int /\ x.start \in Nat
  BY DEF Progress, Element
<1>2. Outcome(t, x, size, TruncateElement(t, x, size, bs), c, y)
  BY OutcomeIs, Zenon
<1>3. ASSUME t.sum < size
      PROVE  /\ c \in Nat /\ c % bs = 0
             /\ size - t.sum <= c /\ c < size - t.sum + bs
  <2> DEFINE sum == t.sum
  <2>1. sum \in Int /\ sum < size
    BY <1>1, <1>3
  <2> HIDE DEF sum
  <2>2. /\ CutAt(size, sum, bs) \in Nat /\ CutAt(size, sum, bs) % bs = 0
        /\ size - sum <= CutAt(size, sum, bs) /\ CutAt(size, sum, bs) < size - sum + bs
    BY <2>1, CutIs
  <2> QED
    BY <2>2, Zenon DEF sum
<1> HIDE DEF c
<1>4. ASSUME t.sum < size
      PROVE  y \in Element /\ y.start = x.start /\ y.end = v /\ y.data = x.data
  <2>1. v \in Nat
    BY <1>1, <1>3, <1>4
  <2> HIDE DEF v
  <2> QED
    BY <2>1, WithElementEnd, Zenon
<1> HIDE DEF y
<1>5. CutTo(t, x, size, bs, c, y)
  BY <1>3, <1>4 DEF CutTo
<1> QED
  BY <1>2, <1>5, Zenon

\* A step of file_block_truncate keeps its types.
LEMMA TruncateType ==
    ASSUME NEW t \in Progress, NEW x \in Element, NEW size \in Nat, NEW bs \in Nat, bs > 0
    PROVE  TruncateElement(t, x, size, bs) \in Progress
<1>a. PICK r : r = TruncateElement(t, x, size, bs)
  OBVIOUS
<1>b. PICK c, y : CutTo(t, x, size, bs, c, y) /\ Outcome(t, x, size, r, c, y)
  BY <1>a, TruncateElementIs
<1>1. t.list \in Seq(Extent) /\ t.loc \in Seq(Element) /\ t.sum \in Int /\ t.truncated \in BOOLEAN
  BY DEF Progress
<1>2. x.start \in Nat /\ x.end \in Nat
  BY DEF Element
<1>4. ~ (t.sum >= size) => c \in Nat /\ c > 0 /\ y \in Element
  BY <1>1, <1>b DEF CutTo
<1>5. x.data = 0 \/ x.data # 0
  OBVIOUS
<1>6. r.list \in Seq(Extent)
  <2>1. GiveBack(t.list, x.start, x.end) \in Seq(Extent)
    BY <1>1, <1>2, GiveBackType
  <2>2. ~ (t.sum >= size) => GiveBack(t.list, x.start + c, x.end) \in Seq(Extent)
    <3>1. ~ (t.sum >= size) => x.start + c \in Nat
      BY <1>2, <1>4
    <3> QED
      BY <1>1, <1>2, <3>1, GiveBackType
  <2> QED
    BY <1>1, <1>b, <2>1, <2>2 DEF Outcome
<1>7. r.loc \in Seq(Element)
  <2>1. Append(t.loc, x) \in Seq(Element)
    BY <1>1
  <2>2. ~ (t.sum >= size) => Append(t.loc, y) \in Seq(Element)
    BY <1>1, <1>4
  <2> QED
    BY <1>1, <1>b, <2>1, <2>2 DEF Outcome
<1>8. r.sum \in Int /\ r.truncated \in BOOLEAN
  <2>1. r.sum \in Int
    BY <1>1, <1>2, <1>b DEF Outcome
  <2>2. r.truncated = TRUE \/ r.truncated = t.truncated
    BY <1>5, <1>b, Zenon DEF Outcome
  <2> QED
    BY <1>1, <2>1, <2>2, Zenon
<1>9. r \in Progress
  <2>1. r = [ list |-> r.list, loc |-> r.loc, sum |-> r.sum, truncated |-> r.truncated ]
    BY <1>b, Zenon DEF Outcome
  <2> QED
    BY <1>6, <1>7, <1>8, <2>1, Zenon DEF Progress
<1> QED
  BY <1>a, <1>9, Zenon

\* The fold of file_block_truncate, as the states it passes through.
LEMMA TruncateSteps ==
    ASSUME NEW l \in Seq(Extent), NEW locs \in Seq(Element), NEW size \in Nat,
           NEW bs \in Nat, bs > 0
    PROVE  \E v \in [0 .. Len(locs) -> Progress] :
                  /\ v[0] = [ list |-> l, loc |-> << >>, sum |-> 0, truncated |-> FALSE ]
                  /\ \A i \in 1 .. Len(locs) : v[i] = TruncateElement(v[i - 1], locs[i], size, bs)
                  /\ file_block_truncate(l, locs, size, bs) = v[Len(locs)]
<1> DEFINE n == Len(locs)
<1>a. n \in Nat /\ DOMAIN locs = 1 .. n
  OBVIOUS
<1>b. \A i \in 1 .. n : locs[i] \in Element
  OBVIOUS
<1> HIDE DEF n
<1> DEFINE X == Progress
           t0 == [ list |-> l, loc |-> << >>, sum |-> 0, truncated |-> FALSE ]
           F == [ p \in (1 .. n) \X X |-> TruncateElement(p[2], locs[p[1]], size, bs) ]
           Eq(g) == g = [ s \in SUBSET (DOMAIN locs) |->
                           IF s = {} THEN t0
                           ELSE TruncateElement(g[s \ { Max(s) }], locs[Max(s)], size, bs) ]
           c == CHOOSE g : Eq(g)
<1>1. file_block_truncate(l, locs, size, bs) = c[DOMAIN locs]
  BY DEF file_block_truncate, FoldLeft, MapThenFoldSet
<1>0. t0 \in X
  BY DEF Progress
<1>2. \A i \in 1 .. n : \A m \in X : F[<< i, m >>] = TruncateElement(m, locs[i], size, bs)
  OBVIOUS
<1>3. F \in [(1 .. n) \X X -> X]
  BY <1>b, TruncateType
<1> HIDE DEF F, X, t0
<1>4. PICK g \in [SUBSET (1 .. n) -> X] : FoldEquation(g, n, t0, F)
  BY <1>3, <1>0, <1>a, FoldExists
<1>5. ASSUME NEW s \in SUBSET (1 .. n)
      PROVE  g[s] = IF s = {} THEN t0
                    ELSE TruncateElement(g[s \ { Max(s) }], locs[Max(s)], size, bs)
  <2>1. g[s] = IF s = {} THEN t0 ELSE F[<< Max(s), g[s \ { Max(s) }] >>]
    BY <1>4 DEF FoldEquation
  <2>2. CASE s # {}
    <3>1. Max(s) \in s
      BY <1>a, <2>2, MaxProperty
    <3>2. g[s \ { Max(s) }] \in X
      BY <1>4
    <3> QED
      BY <1>2, <2>1, <2>2, <3>1, <3>2
  <2> QED
    BY <2>1, <2>2
<1>6. Eq(g)
  BY <1>4, <1>5, <1>a
<1>7. Eq(c)
  BY <1>6
<1> HIDE DEF c
<1> DEFINE v == [ k \in 0 .. n |-> c[1 .. k] ]
<1>8. v[0] = t0
  <2>1. 1 .. 0 = {} /\ {} \in SUBSET (DOMAIN locs) /\ 0 \in 0 .. n
    BY <1>a
  <2> QED
    BY <1>7, <2>1
<1>9. ASSUME NEW k \in 1 .. n
      PROVE  v[k] = TruncateElement(v[k - 1], locs[k], size, bs)
  <2>a. k \in Nat /\ k >= 1 /\ k <= n
    BY <1>a
  <2>1. Max(1 .. k) = k /\ 1 .. k # {} /\ (1 .. k) \ { k } = 1 .. (k - 1)
    BY <2>a, UpTo
  <2>c. 1 .. k \subseteq 1 .. n
    BY <2>a, <1>a
  <2>2. (1 .. k) \ { k } = 1 .. k - 1 /\ 1 .. k # {} /\ 1 .. k \in SUBSET (DOMAIN locs)
    BY <2>1, <2>c, <1>a
  <2>3. k - 1 \in 0 .. n /\ k \in 0 .. n
    BY <1>a
  <2> QED
    BY <1>7, <2>1, <2>2, <2>3
<1>10. v[n] = c[DOMAIN locs]
  BY <1>a
<1>11. v = [ k \in 0 .. n |-> v[k] ]
  OBVIOUS
<1> HIDE DEF v
<1> DEFINE T == { k \in 0 .. n : v[k] \in X }
<1>12. 0 \in T
  BY <1>0, <1>8, <1>a
<1>13. ASSUME NEW k \in 1 .. n, k - 1 \in T PROVE k \in T
  <2>1. v[k - 1] \in X /\ k \in 0 .. n
    BY <1>13
  <2>2. TruncateElement(v[k - 1], locs[k], size, bs) \in X
    BY <1>b, <2>1, TruncateType DEF X
  <2> QED
    BY <1>9, <2>1, <2>2
<1>14. 0 .. n \subseteq T
  <2> HIDE DEF T
  <2> QED
    BY <1>a, <1>12, <1>13, SetInduction
<1>15. v \in [0 .. n -> X]
  BY <1>11, <1>14
<1> QED
  BY <1>1, <1>8, <1>9, <1>10, <1>15 DEF n, X, t0

\* The bytes of a location that hold the file's data: not its indirect blocks.
DataBytes(l) ==
    { a \in Bytes(l) : \E i \in DOMAIN l : l[i].data = 1 /\ a \in l[i].start .. l[i].end }

\* Bytes, member by member.
LEMMA BytesIs ==
    ASSUME NEW S, NEW l \in Seq(S), \A x \in S : x.start \in Nat /\ x.end \in Nat, NEW a
    PROVE  a \in Bytes(l) <=> a \in Int /\ InList(a, l)
<1>1. Len(l) \in Nat /\ DOMAIN l = 1 .. Len(l)
  OBVIOUS
<1>2. \A i \in 1 .. Len(l) : l[i].start \in Nat /\ l[i].end \in Nat
  <2>1. \A i \in 1 .. Len(l) : l[i] \in S
    OBVIOUS
  <2> QED
    BY <2>1
<1>3. a \in Bytes(l) <=> \E i \in 1 .. Len(l) : a \in l[i].start .. l[i].end
  BY <1>1 DEF Bytes
<1>4. \A i \in 1 .. Len(l) : a \in l[i].start .. l[i].end <=> a \in Int /\ In(a, l[i])
  BY <1>2 DEF In
<1> QED
  BY <1>3, <1>4 DEF InList

\* Bytes of a search space.
LEMMA ListBytes ==
    ASSUME NEW l \in Seq(Extent), NEW a
    PROVE  a \in Bytes(l) <=> a \in Int /\ InList(a, l)
<1>1. \A x \in Extent : x.start \in Nat /\ x.end \in Nat
  BY DEF Extent
<1> QED
  BY <1>1, BytesIs

\* Bytes of a location.
LEMMA LocationBytes ==
    ASSUME NEW l \in Seq(Element), NEW a
    PROVE  a \in Bytes(l) <=> a \in Int /\ InList(a, l)
<1>1. \A x \in Element : x.start \in Nat /\ x.end \in Nat
  BY DEF Element
<1> QED
  BY <1>1, BytesIs

\* The byte a is data in the element x.
DataHere(a, x) == x.data = 1 /\ In(a, x)

\* DataBytes, member by member.
LEMMA DataBytesIs ==
    ASSUME NEW l \in Seq(Element), NEW a
    PROVE  a \in DataBytes(l) <=> a \in Int /\ \E i \in 1 .. Len(l) : DataHere(a, l[i])
<1>1. Len(l) \in Nat /\ DOMAIN l = 1 .. Len(l)
  OBVIOUS
<1>2. \A i \in 1 .. Len(l) : l[i].start \in Nat /\ l[i].end \in Nat
  <2>1. \A i \in 1 .. Len(l) : l[i] \in Element
    OBVIOUS
  <2> QED
    BY <2>1 DEF Element
<1>3. a \in Bytes(l) <=> a \in Int /\ InList(a, l)
  BY LocationBytes
<1>4. \A i \in 1 .. Len(l) : a \in l[i].start .. l[i].end <=> a \in Int /\ In(a, l[i])
  BY <1>2 DEF In
<1> QED
  BY <1>1, <1>3, <1>4 DEF DataBytes, InList, DataHere

\* A range that is apart from a finite set adds its length to the set's size.
LEMMA CountAdd ==
    ASSUME NEW S, IsFiniteSet(S), NEW s \in Int, NEW e \in Int, s <= e + 1,
           \A a \in s .. e : a \notin S
    PROVE  /\ IsFiniteSet(S \cup (s .. e))
           /\ Cardinality(S \cup (s .. e)) = Cardinality(S) + (e - s + 1)
<1>1. IsFiniteSet(s .. e) /\ Cardinality(s .. e) = e - s + 1
  <2>1. IsFiniteSet(s .. e) /\ Cardinality(s .. e) = IF s > e THEN 0 ELSE e - s + 1
    BY FS_Interval
  <2> QED
    BY <2>1
<1>2. S \cap (s .. e) = {}
  OBVIOUS
<1>3. Cardinality({}) = 0
  BY FS_EmptySet
<1>4. Cardinality(S) \in Nat
  BY FS_CardinalityType
<1>5. /\ IsFiniteSet(S \cup (s .. e))
      /\ Cardinality(S \cup (s .. e)) = Cardinality(S) + Cardinality(s .. e) - Cardinality(S \cap (s .. e))
  BY <1>1, FS_Union
<1>6. Cardinality(S \cap (s .. e)) = 0
  BY <1>2, <1>3, Zenon
<1> DEFINE x == Cardinality(S \cup (s .. e))
           y == Cardinality(S \cap (s .. e))
           z == Cardinality(s .. e)
<1>7. x = Cardinality(S) + z - y /\ y = 0 /\ z = e - s + 1
  BY <1>1, <1>5, <1>6
<1> HIDE DEF x, y, z
<1>8. x = Cardinality(S) + (e - s + 1)
  BY <1>4, <1>7
<1> QED
  BY <1>5, <1>8 DEF x

\* What an element more adds to a location.
LEMMA AppendLocation ==
    ASSUME NEW bs, NEW l, LocationOK(l, bs), NEW x \in Element,
           x.start <= x.end, x.start % bs = 0, (x.end + 1) % bs = 0,
           \A a \in x.start .. x.end : ~ InList(a, l)
    PROVE  /\ LocationOK(Append(l, x), bs)
           /\ \A a \in Int : InList(a, Append(l, x)) <=> InList(a, l) \/ In(a, x)
           /\ x.data = 0 => DataBytes(Append(l, x)) = DataBytes(l)
           /\ x.data = 1 => DataBytes(Append(l, x)) = DataBytes(l) \cup (x.start .. x.end)
<1> DEFINE n == Len(l)
           m == Append(l, x)
<1>1. /\ n \in Nat /\ l \in Seq(Element) /\ DOMAIN l = 1 .. n
      /\ \A i \in 1 .. n : /\ l[i].start \in Nat /\ l[i].end \in Nat /\ l[i].start <= l[i].end
                           /\ l[i].start % bs = 0 /\ (l[i].end + 1) % bs = 0
      /\ \A i, j \in 1 .. n : i # j => l[i].end < l[j].start \/ l[j].end < l[i].start
  BY LocationFacts
<1>2. x.start \in Nat /\ x.end \in Nat /\ x.data \in { 0, 1 }
  BY DEF Element
<1>3. /\ m \in Seq(Element) /\ Len(m) = n + 1 /\ m[n + 1] = x
      /\ \A i \in 1 .. n : m[i] = l[i]
  BY <1>1
<1> HIDE DEF m
<1>4. DOMAIN m = 1 .. n + 1 /\ \A i \in 1 .. n + 1 : i \in 1 .. n \/ i = n + 1
  BY <1>1, <1>3
<1>5. 1 .. n \subseteq 1 .. n + 1 /\ n + 1 \in 1 .. n + 1
  BY <1>1
<1>6. \A i \in 1 .. n : l[i].end < x.start \/ x.end < l[i].start
  <2> SUFFICES ASSUME NEW i \in 1 .. n, x.start <= l[i].end, l[i].start <= x.end PROVE FALSE
    BY <1>1, <1>2
  <2>1. CASE x.start <= l[i].start
    <3>1. l[i].start \in x.start .. x.end /\ In(l[i].start, l[i])
      BY <1>1, <1>2, <2>1 DEF In
    <3> QED
      BY <3>1 DEF InList
  <2>2. CASE l[i].start < x.start
    <3>1. x.start \in x.start .. x.end /\ In(x.start, l[i])
      BY <1>1, <1>2, <2>2 DEF In
    <3> QED
      BY <3>1 DEF InList
  <2> QED
    BY <1>1, <1>2, <2>1, <2>2
<1>7. \A i \in 1 .. n + 1 : /\ m[i].start <= m[i].end
                            /\ m[i].start % bs = 0 /\ (m[i].end + 1) % bs = 0
  BY <1>1, <1>3, <1>4
<1>8. \A i, j \in 1 .. n + 1 : i # j => m[i].end < m[j].start \/ m[j].end < m[i].start
  <2> TAKE i, j \in 1 .. n + 1
  <2>1. CASE i \in 1 .. n /\ j \in 1 .. n
    BY <1>1, <1>3, <2>1
  <2>2. CASE i \in 1 .. n /\ j = n + 1
    BY <1>3, <1>6, <2>2
  <2>3. CASE i = n + 1 /\ j \in 1 .. n
    BY <1>3, <1>6, <2>3
  <2> QED
    BY <1>4, <2>1, <2>2, <2>3
<1>9. LocationOK(m, bs)
  BY <1>3, <1>4, <1>7, <1>8 DEF LocationOK, Apart, WholeBlocks
<1>10. ASSUME NEW a
       PROVE  InList(a, m) <=> InList(a, l) \/ In(a, x)
  BY <1>3, <1>4, <1>5 DEF InList
<1>11. ASSUME NEW a
       PROVE  a \in DataBytes(m) <=> a \in DataBytes(l) \/ (a \in Int /\ DataHere(a, x))
  <2>1. a \in DataBytes(m) <=> a \in Int /\ \E i \in 1 .. n + 1 : DataHere(a, m[i])
    BY <1>3, DataBytesIs
  <2>2. a \in DataBytes(l) <=> a \in Int /\ \E i \in 1 .. n : DataHere(a, l[i])
    BY <1>1, DataBytesIs
  <2> QED
    BY <1>3, <1>4, <1>5, <2>1, <2>2
<1>12. x.data = 0 => DataBytes(m) = DataBytes(l)
  <2>1. ASSUME x.data = 0, NEW a PROVE a \in DataBytes(m) <=> a \in DataBytes(l)
    <3>1. ~ DataHere(a, x)
      BY <2>1 DEF DataHere
    <3> QED
      BY <1>11, <3>1
  <2> QED
    BY <2>1
<1>13. x.data = 1 => DataBytes(m) = DataBytes(l) \cup (x.start .. x.end)
  <2>1. \A a : a \in x.start .. x.end <=> a \in Int /\ In(a, x)
    BY <1>2 DEF In
  <2> QED
    BY <1>11, <2>1 DEF DataHere
<1> QED
  BY <1>9, <1>10, <1>12, <1>13 DEF m

\* The byte a is in one of the first k elements.
Upto(k, a, locs) == \E i \in 1 .. Len(locs) : i <= k /\ In(a, locs[i])

\* What holds of file_block_truncate after the first k elements: each of their
\* bytes is kept or given back, and what is kept so far is the sum it counts, or,
\* when the size is reached, that size in whole blocks.
Truncating(t, k, l, locs, size, bs) ==
    /\ t \in Progress
    /\ ListOK(t.list, bs) /\ LocationOK(t.loc, bs)
    /\ \A a \in Int : InList(a, t.loc) => Upto(k, a, locs)
    /\ \A a \in Int : InList(a, t.list) <=> InList(a, l) \/ (Upto(k, a, locs) /\ ~ InList(a, t.loc))
    /\ IsFiniteSet(DataBytes(t.loc)) /\ DataBytes(t.loc) \subseteq DataBytes(locs)
    /\ t.sum < size =>
          /\ t.sum = Cardinality(DataBytes(t.loc)) /\ t.sum % bs = 0
          /\ \A a \in DataBytes(locs) : Upto(k, a, locs) => a \in DataBytes(t.loc)
    /\ t.sum >= size => Cardinality(DataBytes(t.loc)) = RoundUp(size, bs, 0)

\* Sums and differences of addresses on the grid are on it.
LEMMA AlignedSum ==
    ASSUME NEW bs \in Nat, bs > 0, NEW a \in Int, NEW b \in Int, a % bs = 0, b % bs = 0
    PROVE  (a + b) % bs = 0 /\ (a - b) % bs = 0
<1>1. PICK k \in Int : b = k * bs
  BY AlignedIs
<1>2. (a + k * bs) % bs = 0 /\ (a + (- k) * bs) % bs = 0
  <2>1. - k \in Int
    OBVIOUS
  <2> QED
    BY <2>1, AlignedAdd
<1>3. a + k * bs = a + b /\ a + (- k) * bs = a - b
  BY <1>1
<1> QED
  BY <1>2, <1>3

\* One element more.
LEMMA UptoIs ==
    ASSUME NEW bs, NEW locs, LocationOK(locs, bs), NEW k \in 1 .. Len(locs)
    PROVE  /\ \A a \in Int : Upto(k, a, locs) <=> Upto(k - 1, a, locs) \/ In(a, locs[k])
           /\ \A a \in Int : In(a, locs[k]) => ~ Upto(k - 1, a, locs)
           /\ \A a \in Int : In(a, locs[k]) => InList(a, locs)
<1> DEFINE n == Len(locs)
<1>1. /\ n \in Nat
      /\ \A i \in 1 .. n : locs[i].start \in Nat /\ locs[i].end \in Nat
      /\ \A i, j \in 1 .. n : i # j => locs[i].end < locs[j].start \/ locs[j].end < locs[i].start
  BY LocationFacts
<1>2. \A i \in 1 .. n : i <= k <=> i <= k - 1 \/ i = k
  BY <1>1
<1>3. \A a \in Int : Upto(k, a, locs) <=> Upto(k - 1, a, locs) \/ In(a, locs[k])
  BY <1>2 DEF Upto
<1>4. ASSUME NEW a \in Int, In(a, locs[k]), NEW i \in 1 .. n, i <= k - 1, In(a, locs[i]) PROVE FALSE
  <2>1. i # k
    BY <1>1, <1>4
  <2>2. locs[i].end < locs[k].start \/ locs[k].end < locs[i].start
    BY <1>1, <2>1
  <2>3. locs[i].start \in Nat /\ locs[i].end \in Nat /\ locs[k].start \in Nat /\ locs[k].end \in Nat
    BY <1>1
  <2> QED
    BY <1>4, <2>2, <2>3 DEF In
<1>5. \A a \in Int : In(a, locs[k]) => ~ Upto(k - 1, a, locs)
  BY <1>4 DEF Upto
<1>6. \A a \in Int : In(a, locs[k]) => InList(a, locs)
  BY DEF InList
<1> QED
  BY <1>3, <1>5, <1>6

\* The next element keeps that.
LEMMA TruncateStep ==
    ASSUME NEW bs \in Nat, bs > 1, NEW l, NEW locs, LocationOK(locs, bs),
           \A a \in Int : ~ (InList(a, l) /\ InList(a, locs)),
           NEW size \in Nat, NEW k \in 1 .. Len(locs),
           NEW t, Truncating(t, k - 1, l, locs, size, bs),
           NEW r, r = TruncateElement(t, locs[k], size, bs), r \in Progress
    PROVE  Truncating(r, k, l, locs, size, bs)
<1>a. PICK x : x = locs[k]
  OBVIOUS
<1>b. PICK s : s = x.start
  OBVIOUS
<1>c. PICK e : e = x.end
  OBVIOUS
<1>w. PICK w : w = t.sum
  OBVIOUS
<1>1. x \in Element
  BY <1>a, LocationFacts
<1>2. /\ s \in Nat /\ e \in Nat /\ s <= e /\ s % bs = 0 /\ (e + 1) % bs = 0
      /\ x.data \in { 0, 1 }
  BY <1>a, <1>b, <1>c, LocationFacts
<1>3. /\ t \in Progress /\ ListOK(t.list, bs) /\ LocationOK(t.loc, bs)
      /\ \A a \in Int : InList(a, t.loc) => Upto(k - 1, a, locs)
      /\ \A a \in Int : InList(a, t.list) <=> InList(a, l) \/ (Upto(k - 1, a, locs) /\ ~ InList(a, t.loc))
      /\ IsFiniteSet(DataBytes(t.loc)) /\ DataBytes(t.loc) \subseteq DataBytes(locs)
  BY DEF Truncating
<1>4. w < size =>
          /\ w = Cardinality(DataBytes(t.loc)) /\ w % bs = 0
          /\ \A a \in DataBytes(locs) : Upto(k - 1, a, locs) => a \in DataBytes(t.loc)
  BY <1>w DEF Truncating
<1>5. w >= size => Cardinality(DataBytes(t.loc)) = RoundUp(size, bs, 0)
  BY <1>w DEF Truncating
<1>6. w \in Int /\ t.loc \in Seq(Element)
  BY <1>3, <1>w DEF Progress, LocationOK
<1>7. PICK c, y : CutTo(t, x, size, bs, c, y) /\ Outcome(t, x, size, r, c, y)
  <2>1. bs > 0
    OBVIOUS
  <2> QED
    BY <1>a, <1>1, <1>3, <2>1, TruncateElementIs
<1>8. /\ \A a \in Int : Upto(k, a, locs) <=> Upto(k - 1, a, locs) \/ In(a, x)
      /\ \A a \in Int : In(a, x) => ~ Upto(k - 1, a, locs)
      /\ \A a \in Int : In(a, x) => InList(a, locs)
  BY <1>a, UptoIs
<1>9. \A a \in Int : In(a, x) <=> a \in s .. e
  BY <1>2, <1>b, <1>c DEF In
<1>10. \A a \in Int : In(a, x) => ~ InList(a, t.loc) /\ ~ InList(a, t.list)
  BY <1>3, <1>8
<1>11. ASSUME NEW a \in Int, In(a, x)
       PROVE  a \in DataBytes(locs) <=> x.data = 1
  <2> DEFINE n == Len(locs)
  <2>1. /\ locs \in Seq(Element)
        /\ \A i \in 1 .. n : locs[i].start \in Nat /\ locs[i].end \in Nat
        /\ \A i, j \in 1 .. n : i # j => locs[i].end < locs[j].start \/ locs[j].end < locs[i].start
    BY LocationFacts
  <2>2. \A i \in 1 .. n : In(a, locs[i]) => i = k
    BY <1>11, <1>a, <2>1, SMTT(60) DEF In
  <2>3. a \in DataBytes(locs) <=> \E i \in 1 .. n : DataHere(a, locs[i])
    BY <2>1, DataBytesIs
  <2> QED
    BY <1>11, <1>a, <2>2, <2>3 DEF DataHere
<1>12. CASE w >= size
  <2>1. r.list = GiveBack(t.list, s, e) /\ r.loc = t.loc /\ r.sum = w
    BY <1>7, <1>12, <1>b, <1>c, <1>w DEF Outcome
  <2>a. \A a \in s .. e : ~ InList(a, t.list)
    BY <1>9, <1>10
  <2>2. /\ ListOK(r.list, bs)
        /\ \A a \in Int : InList(a, r.list) <=> InList(a, t.list) \/ a \in s .. e
    <3>1. /\ ListOK(GiveBack(t.list, s, e), bs)
          /\ \A a \in Int : InList(a, GiveBack(t.list, s, e)) <=> InList(a, t.list) \/ a \in s .. e
      BY <1>2, <1>3, <2>a, GiveBackOK
    <3> QED
      BY <2>1, <3>1, Zenon
  <2>3. \A a \in Int : InList(a, r.list) <=> InList(a, l) \/ (Upto(k, a, locs) /\ ~ InList(a, t.loc))
    BY <1>3, <1>8, <1>9, <1>10, <2>2
  <2>4. \A a \in Int : InList(a, t.loc) => Upto(k, a, locs)
    BY <1>3, <1>8
  <2>5. ~ (r.sum < size) /\ Cardinality(DataBytes(r.loc)) = RoundUp(size, bs, 0)
    BY <1>5, <1>6, <1>12, <2>1
  <2> QED
    BY <1>3, <2>1, <2>2, <2>3, <2>4, <2>5 DEF Truncating
<1>13. ASSUME w < size, x.data = 0 PROVE Truncating(r, k, l, locs, size, bs)
  <2>1. r.list = t.list /\ r.loc = Append(t.loc, x) /\ r.sum = w
    BY <1>6, <1>7, <1>13, <1>b, <1>c, <1>w DEF Outcome
  <2>a. \A a \in s .. e : ~ InList(a, t.loc)
    BY <1>9, <1>10
  <2>2. /\ LocationOK(r.loc, bs)
        /\ \A a \in Int : InList(a, r.loc) <=> InList(a, t.loc) \/ In(a, x)
        /\ DataBytes(r.loc) = DataBytes(t.loc)
    BY <1>1, <1>2, <1>3, <1>13, <2>1, <2>a, <1>b, <1>c, AppendLocation
  <2>3. \A a \in Int : InList(a, r.loc) => Upto(k, a, locs)
    BY <1>3, <1>8, <2>2
  <2>4. \A a \in Int : InList(a, r.list) <=> InList(a, l) \/ (Upto(k, a, locs) /\ ~ InList(a, r.loc))
    BY <1>3, <1>8, <2>1, <2>2
  <2>5. \A a \in DataBytes(locs) : Upto(k, a, locs) => a \in DataBytes(r.loc)
    <3>1. \A a \in DataBytes(locs) : a \in Int /\ ~ In(a, x)
      <4>1. \A a \in DataBytes(locs) : a \in Int
        BY DataBytesIs DEF LocationOK
      <4> QED
        BY <1>11, <1>13, <4>1
    <3> QED
      BY <1>4, <1>8, <1>13, <2>2, <3>1
  <2>6. r.sum < size /\ ~ (r.sum >= size)
    BY <1>6, <1>13, <2>1
  <2>7. r.sum = Cardinality(DataBytes(r.loc)) /\ r.sum % bs = 0
    BY <1>4, <1>13, <2>1, <2>2
  <2> QED
    BY <1>3, <2>1, <2>2, <2>3, <2>4, <2>5, <2>6, <2>7 DEF Truncating
<1>14. ASSUME w < size, x.data # 0, ~ (w + e - s + 1 > size)
       PROVE  Truncating(r, k, l, locs, size, bs)
  <2>1. r.list = t.list /\ r.loc = Append(t.loc, x) /\ r.sum = w + e - s + 1 /\ x.data = 1
    BY <1>2, <1>6, <1>7, <1>14, <1>b, <1>c, <1>w DEF Outcome
  <2>a. \A a \in s .. e : ~ InList(a, t.loc)
    BY <1>9, <1>10
  <2>2. /\ LocationOK(r.loc, bs)
        /\ \A a \in Int : InList(a, r.loc) <=> InList(a, t.loc) \/ In(a, x)
        /\ DataBytes(r.loc) = DataBytes(t.loc) \cup (s .. e)
    BY <1>1, <1>2, <1>3, <2>1, <2>a, <1>b, <1>c, AppendLocation
  <2>3. \A a \in Int : InList(a, r.loc) => Upto(k, a, locs)
    BY <1>3, <1>8, <2>2
  <2>4. \A a \in Int : InList(a, r.list) <=> InList(a, l) \/ (Upto(k, a, locs) /\ ~ InList(a, r.loc))
    BY <1>3, <1>8, <2>1, <2>2
  <2>b. \A a \in DataBytes(locs) : a \in Int
    BY DataBytesIs DEF LocationOK
  <2>5. \A a \in DataBytes(locs) : Upto(k, a, locs) => a \in DataBytes(r.loc)
    BY <1>4, <1>8, <1>9, <1>14, <2>2, <2>b
  <2>6. \A a \in s .. e : a \notin DataBytes(t.loc) /\ a \in DataBytes(locs)
    <3>1. \A a \in s .. e : a \in Int /\ In(a, x)
      BY <1>2, <1>9
    <3>2. \A a \in DataBytes(t.loc) : InList(a, t.loc)
      BY <1>6, LocationBytes DEF DataBytes
    <3> QED
      BY <1>10, <1>11, <2>1, <3>1, <3>2
  <2>7. /\ IsFiniteSet(DataBytes(r.loc))
        /\ Cardinality(DataBytes(r.loc)) = Cardinality(DataBytes(t.loc)) + (e - s + 1)
    <3> DEFINE S == DataBytes(t.loc)
    <3>1. IsFiniteSet(S) /\ s \in Int /\ e \in Int /\ s <= e + 1 /\ \A a \in s .. e : a \notin S
      BY <1>2, <1>3, <2>6
    <3> HIDE DEF S
    <3>2. IsFiniteSet(S \cup (s .. e)) /\ Cardinality(S \cup (s .. e)) = Cardinality(S) + (e - s + 1)
      BY <3>1, CountAdd
    <3> QED
      BY <2>2, <3>2 DEF S
  <2>8. r.sum = Cardinality(DataBytes(r.loc)) /\ r.sum % bs = 0 /\ r.sum \in Int
    <3>1. r.sum = Cardinality(DataBytes(r.loc)) /\ r.sum \in Int
      <4>1. w = Cardinality(DataBytes(t.loc))
        BY <1>4, <1>14
      <4> QED
        BY <1>2, <1>6, <2>1, <2>7, <4>1
    <3>2. r.sum % bs = 0
      <4>1. w % bs = 0 /\ e + 1 \in Int /\ s \in Int /\ bs > 0
        BY <1>2, <1>4, <1>14
      <4>2. (w + (e + 1)) % bs = 0 /\ w + (e + 1) \in Int
        <5>1. w \in Int /\ (e + 1) % bs = 0
          BY <1>2, <1>6
        <5>2. w + (e + 1) \in Int
          BY <4>1, <5>1
        <5>3. PICK g \in Int : g = e + 1
          BY <4>1
        <5>4. (w + g) % bs = 0
          BY <4>1, <5>1, <5>3, AlignedSum
        <5> QED
          BY <5>2, <5>3, <5>4
      <4>3. ((w + (e + 1)) - s) % bs = 0
        BY <1>2, <4>1, <4>2, AlignedSum
      <4>4. (w + (e + 1)) - s = r.sum
        BY <1>2, <1>6, <2>1
      <4> QED
        BY <4>3, <4>4
    <3> QED
      BY <3>1, <3>2
  <2>9. r.sum >= size => Cardinality(DataBytes(r.loc)) = RoundUp(size, bs, 0)
    <3>1. ASSUME r.sum >= size PROVE r.sum = RoundUp(size, bs, 0)
      <4>1. r.sum = size
        BY <1>2, <1>6, <1>14, <2>1, <3>1
      <4> QED
        BY <2>8, <4>1, RoundUpUnique
    <3> QED
      BY <2>8, <3>1
  <2>10. DataBytes(r.loc) \subseteq DataBytes(locs)
    BY <1>3, <2>2, <2>6
  <2> QED
    BY <1>3, <2>1, <2>2, <2>3, <2>4, <2>5, <2>7, <2>8, <2>9, <2>10 DEF Truncating
<1>15. ASSUME w < size, x.data # 0, w + e - s + 1 > size
       PROVE  Truncating(r, k, l, locs, size, bs)
  <2>f. PICK f : f = s + c
    OBVIOUS
  <2>1. r.list = GiveBack(t.list, f, e) /\ r.loc = Append(t.loc, y) /\ r.sum = size /\ x.data = 1
    BY <2>f, <1>2, <1>6, <1>7, <1>15, <1>b, <1>c, <1>w DEF Outcome
  <2>c. /\ c \in Nat /\ c % bs = 0 /\ size - t.sum <= c /\ c < size - t.sum + bs
        /\ y \in Element /\ y.start = x.start /\ y.end = x.start + c - 1 /\ y.data = x.data
    BY <1>7, <1>15, <1>w DEF CutTo
  <2>2. /\ c \in Nat /\ c % bs = 0 /\ size - w <= c /\ c < size - w + bs
        /\ y \in Element /\ y.start = s /\ y.end = f - 1 /\ y.data = 1
    <3>1. c \in Nat /\ c % bs = 0 /\ size - w <= c /\ c < size - w + bs
      BY <2>c, <1>w
    <3>2. y \in Element /\ y.start = s /\ y.data = 1
      BY <2>c, <2>1, <1>b
    <3>3. y.end = s + c - 1
      BY <2>c, <1>b
    <3> QED
      BY <1>2, <3>1, <3>2, <3>3, <2>f
  <2>7. f % bs = 0 /\ (w + c) % bs = 0 /\ f \in Nat /\ w + c \in Int /\ (f - 1 + 1) % bs = 0
    <3>1. s \in Int /\ c \in Int /\ w \in Int /\ w % bs = 0 /\ bs > 0
      BY <1>2, <1>4, <1>6, <1>15, <2>2
    <3>2. (s + c) % bs = 0
      BY <1>2, <2>2, <3>1, AlignedSum
    <3>3. (w + c) % bs = 0
      BY <2>2, <3>1, AlignedSum
    <3>4. f \in Nat /\ w + c \in Int /\ f - 1 + 1 = f
      BY <1>2, <2>2, <2>f, <3>1
    <3> QED
      BY <2>f, <3>2, <3>3, <3>4
  <2>8. f <= e + 1
    <3>1. SUFFICES ASSUME e + 1 < f PROVE FALSE
      BY <1>2, <2>7
    <3>2. e + 1 + bs <= f
      <4>1. e + 1 \in Int /\ f \in Int
        BY <1>2, <2>7
      <4>2. (e + 1) % bs = 0 /\ f % bs = 0 /\ bs > 0
        BY <1>2, <2>7
      <4> QED
        BY <3>1, <4>1, <4>2, AlignedGap
    <3> QED
      BY <2>f, <1>2, <1>6, <1>15, <2>2, <3>2
  <2>9. c > 0 /\ s <= f - 1 /\ f - 1 <= e
    BY <1>2, <1>6, <1>15, <2>2, <2>8, <2>f
  <2>10. \A a \in Int : In(a, y) <=> a \in s .. f - 1
    BY <1>2, <2>2, <2>7 DEF In
  <2>11. \A a \in Int : In(a, x) <=> In(a, y) \/ a \in f .. e
    BY <1>2, <1>9, <2>7, <2>9, <2>10
  <2>12. \A a \in Int : ~ (In(a, y) /\ a \in f .. e)
    BY <1>2, <2>7, <2>10
  <2>13. /\ ListOK(r.list, bs)
         /\ \A a \in Int : InList(a, r.list) <=> InList(a, t.list) \/ a \in f .. e
    <3>1. CASE f = e + 1
      <4>1. f >= e /\ \A a : a \notin f .. e
        BY <1>2, <2>7, <3>1
      <4>2. r.list = t.list
        BY <2>1, <4>1 DEF GiveBack
      <4> QED
        BY <1>3, <4>1, <4>2
    <3>2. CASE f <= e
      <4>1. \A a \in f .. e : ~ InList(a, t.list)
        BY <1>10, <2>11
      <4>2. /\ ListOK(GiveBack(t.list, f, e), bs)
            /\ \A a \in Int : InList(a, GiveBack(t.list, f, e)) <=> InList(a, t.list) \/ a \in f .. e
        BY <1>2, <1>3, <2>7, <3>2, <4>1, GiveBackOK
      <4> QED
        BY <2>1, <4>2, Zenon
    <3> QED
      BY <1>2, <2>7, <2>8, <3>1, <3>2
  <2>14. /\ LocationOK(r.loc, bs)
         /\ \A a \in Int : InList(a, r.loc) <=> InList(a, t.loc) \/ In(a, y)
         /\ DataBytes(r.loc) = DataBytes(t.loc) \cup (s .. f - 1)
    <3>1. y.start <= y.end /\ y.start % bs = 0 /\ (y.end + 1) % bs = 0 /\ y.end = f - 1
      BY <1>2, <2>2, <2>7, <2>9
    <3>2. \A a \in y.start .. y.end : ~ InList(a, t.loc)
      <4>1. \A a \in y.start .. y.end : a \in Int /\ In(a, x)
        BY <1>2, <2>2, <2>7, <2>10, <2>11, <3>1
      <4> QED
        BY <1>10, <4>1
    <3>3. /\ LocationOK(Append(t.loc, y), bs)
          /\ \A a \in Int : InList(a, Append(t.loc, y)) <=> InList(a, t.loc) \/ In(a, y)
          /\ DataBytes(Append(t.loc, y)) = DataBytes(t.loc) \cup (y.start .. y.end)
      BY <1>3, <2>2, <3>1, <3>2, <1>b, <1>c, AppendLocation
    <3> QED
      BY <2>1, <2>2, <3>1, <3>3
  <2>15. \A a \in Int : InList(a, r.loc) => Upto(k, a, locs)
    BY <1>3, <1>8, <2>11, <2>14
  <2>16. \A a \in Int : InList(a, r.list) <=> InList(a, l) \/ (Upto(k, a, locs) /\ ~ InList(a, r.loc))
    BY <1>3, <1>8, <1>10, <2>11, <2>12, <2>13, <2>14
  <2>17. \A a \in s .. f - 1 : a \notin DataBytes(t.loc) /\ a \in DataBytes(locs)
    <3>1. \A a \in s .. f - 1 : a \in Int /\ In(a, x)
      BY <1>2, <2>10, <2>11
    <3>2. \A a \in DataBytes(t.loc) : InList(a, t.loc)
      BY <1>6, LocationBytes DEF DataBytes
    <3> QED
      BY <1>10, <1>11, <2>1, <3>1, <3>2
  <2>18. /\ IsFiniteSet(DataBytes(r.loc))
         /\ Cardinality(DataBytes(r.loc)) = Cardinality(DataBytes(t.loc)) + (f - 1 - s + 1)
    <3> DEFINE S == DataBytes(t.loc)
               z == f - 1
    <3>1. IsFiniteSet(S) /\ s \in Int /\ z \in Int /\ s <= z + 1 /\ \A a \in s .. z : a \notin S
      BY <1>2, <1>3, <2>7, <2>9, <2>17
    <3> HIDE DEF S, z
    <3>2. IsFiniteSet(S \cup (s .. z)) /\ Cardinality(S \cup (s .. z)) = Cardinality(S) + (z - s + 1)
      BY <3>1, CountAdd
    <3> QED
      BY <2>14, <3>2 DEF S, z
  <2>19. Cardinality(DataBytes(r.loc)) = RoundUp(size, bs, 0)
    <3>1. w = Cardinality(DataBytes(t.loc)) /\ f = s + c
      BY <1>4, <1>15, <2>f
    <3>2. Cardinality(DataBytes(r.loc)) = w + c
      BY <1>2, <1>6, <2>2, <2>18, <3>1
    <3>3. size <= w + c /\ w + c < size + bs
      BY <1>6, <2>2
    <3> QED
      BY <2>7, <3>2, <3>3, RoundUpUnique
  <2>20. DataBytes(r.loc) \subseteq DataBytes(locs)
    BY <1>3, <2>14, <2>17
  <2>21. ~ (r.sum < size)
    BY <2>1
  <2> QED
    BY <1>3, <2>13, <2>14, <2>15, <2>16, <2>18, <2>19, <2>20, <2>21 DEF Truncating
<1> QED
  <2>1. w >= size \/ w < size
    BY <1>6
  <2>2. w + e - s + 1 > size \/ ~ (w + e - s + 1 > size)
    OBVIOUS
  <2> QED
    BY <1>12, <1>13, <1>14, <1>15, <2>1, <2>2

\* After its last element file_block_truncate has done with all of the location
\* what Truncating says, however large the size.
LEMMA TruncateEnds ==
    ASSUME NEW bs \in Nat, bs > 1, NEW l, ListOK(l, bs), NEW locs, LocationOK(locs, bs),
           \A a \in Int : ~ (InList(a, l) /\ InList(a, locs)),
           NEW size \in Nat,
           NEW t, t = file_block_truncate(l, locs, size, bs)
    PROVE  Truncating(t, Len(locs), l, locs, size, bs)
<1> DEFINE n == Len(locs)
<1>1. l \in Seq(Extent) /\ locs \in Seq(Element) /\ n \in Nat /\ bs > 0
  BY DEF ListOK, LocationOK
<1>2. PICK v \in [0 .. n -> Progress] :
        /\ v[0] = [ list |-> l, loc |-> << >>, sum |-> 0, truncated |-> FALSE ]
        /\ \A i \in 1 .. n : v[i] = TruncateElement(v[i - 1], locs[i], size, bs)
        /\ t = v[n]
  BY <1>1, TruncateSteps, SMTT(60)
<1> DEFINE S == { k \in 0 .. n : Truncating(v[k], k, l, locs, size, bs) }
<1>3. 0 \in S
  <2>0. PICK t0 : t0 = v[0]
    OBVIOUS
  <2>1. t0 \in Progress /\ t0.list = l /\ t0.loc = << >> /\ t0.sum = 0
    <3>0. 0 \in 0 .. n
      BY <1>1
    <3>1. t0 \in Progress
      BY <1>2, <2>0, <3>0, Zenon
    <3>2. t0 = [ list |-> l, loc |-> << >>, sum |-> 0, truncated |-> FALSE ]
      BY <1>2, <2>0, Zenon
    <3> QED
      BY <3>1, <3>2
  <2>2. LocationOK(<< >>, bs)
    BY DEF LocationOK, Apart, WholeBlocks
  <2>3. \A a : ~ InList(a, << >>)
    BY DEF InList
  <2>4. \A a : ~ Upto(0, a, locs)
    BY <1>1 DEF Upto
  <2>5. DataBytes(<< >>) = {}
    BY DEF DataBytes
  <2>6. IsFiniteSet({}) /\ Cardinality({}) = 0
    BY FS_EmptySet
  <2>7. 0 % bs = 0
    <3>1. 0 = 0 * bs /\ 0 \in Int
      OBVIOUS
    <3> QED
      BY <1>1, <3>1, AlignedIs
  <2>8. 0 >= size => RoundUp(size, bs, 0) = 0
    <3>1. ASSUME 0 >= size PROVE RoundUp(size, bs, 0) = 0
      <4>1. size = 0 /\ 0 < size + bs /\ size <= 0
        BY <3>1
      <4> QED
        BY <1>1, <2>7, <4>1, RoundUpUnique
    <3> QED
      BY <3>1
  <2>9. Truncating(t0, 0, l, locs, size, bs)
    BY <1>1, <2>1, <2>2, <2>3, <2>4, <2>5, <2>6, <2>7, <2>8 DEF Truncating
  <2> QED
    BY <1>1, <2>0, <2>9
<1>4. ASSUME NEW k \in 1 .. n, k - 1 \in S PROVE k \in S
  <2>1. Truncating(v[k - 1], k - 1, l, locs, size, bs)
    BY <1>4
  <2>2. v[k] = TruncateElement(v[k - 1], locs[k], size, bs) /\ v[k] \in Progress /\ k \in 0 .. n
    BY <1>1, <1>2
  <2>3. Truncating(v[k], k, l, locs, size, bs)
    BY <2>1, <2>2, TruncateStep
  <2> QED
    BY <2>2, <2>3
<1> HIDE DEF S
<1>5. n \in S
  <2>1. 0 .. n \subseteq S
    <3> HIDE DEF n
    <3> QED
      BY <1>1, <1>3, <1>4, SetInduction
  <2> QED
    BY <1>1, <2>1
<1> QED
  BY <1>2, <1>5 DEF S

\* Each block of the file stays with it or comes back to the list.
LEMMA TruncateParts ==
    ASSUME NEW bs \in Nat, bs > 1, NEW l, ListOK(l, bs), NEW locs, LocationOK(locs, bs),
           \A a \in Int : ~ (InList(a, l) /\ InList(a, locs)),
           NEW size \in Nat,
           NEW t, t = file_block_truncate(l, locs, size, bs)
    PROVE  /\ t \in Progress
           /\ ListOK(t.list, bs) /\ LocationOK(t.loc, bs)
           /\ \A a \in Int : InList(a, t.loc) => InList(a, locs)
           /\ \A a \in Int : InList(a, t.list) <=>
                               InList(a, l) \/ (InList(a, locs) /\ ~ InList(a, t.loc))
<1> DEFINE n == Len(locs)
<1>1. n \in Nat
  BY DEF LocationOK
<1>2. Truncating(t, n, l, locs, size, bs)
  BY TruncateEnds
<1>3. \A a : Upto(n, a, locs) <=> InList(a, locs)
  BY <1>1 DEF Upto, InList
<1> QED
  BY <1>2, <1>3 DEF Truncating

\* file_block_truncate: the file keeps just the blocks its size needs, the rest
\* comes back to the list, no byte is lost or in both.
LEMMA TruncateOK ==
    ASSUME NEW bs \in Nat, bs > 1, NEW l, ListOK(l, bs), NEW locs, LocationOK(locs, bs),
           \A a \in Int : ~ (InList(a, l) /\ InList(a, locs)),
           IsFiniteSet(DataBytes(locs)),
           NEW size \in Nat, size <= Cardinality(DataBytes(locs)),
           NEW t, t = file_block_truncate(l, locs, size, bs)
    PROVE  /\ t \in Progress
           /\ ListOK(t.list, bs) /\ LocationOK(t.loc, bs)
           /\ \A a \in Int : InList(a, t.loc) => InList(a, locs)
           /\ \A a \in Int : InList(a, t.list) <=>
                               InList(a, l) \/ (InList(a, locs) /\ ~ InList(a, t.loc))
           /\ Cardinality(DataBytes(t.loc)) = RoundUp(size, bs, 0)
<1> DEFINE n == Len(locs)
<1>1. l \in Seq(Extent) /\ locs \in Seq(Element) /\ n \in Nat /\ bs > 0
  BY DEF ListOK, LocationOK
<1>6. Truncating(t, n, l, locs, size, bs)
  BY TruncateEnds
<1>7. \A a : Upto(n, a, locs) <=> InList(a, locs)
  BY <1>1 DEF Upto, InList
<1>8. Cardinality(DataBytes(t.loc)) = RoundUp(size, bs, 0)
  <2>1. t.sum \in Int
    BY <1>6 DEF Truncating, Progress
  <2>2. CASE t.sum >= size
    BY <1>6, <2>2 DEF Truncating
  <2>3. CASE t.sum < size
    <3>1. \A a \in DataBytes(locs) : InList(a, locs)
      BY <1>1, LocationBytes DEF DataBytes
    <3>2. DataBytes(t.loc) = DataBytes(locs)
      BY <1>6, <1>7, <2>3, <3>1 DEF Truncating
    <3>3. t.sum = Cardinality(DataBytes(locs))
      BY <1>6, <2>3, <3>2 DEF Truncating
    <3> QED
      BY <2>1, <2>3, <3>3
  <2> QED
    BY <2>1, <2>2, <2>3
<1> QED
  BY <1>6, <1>7, <1>8 DEF Truncating

\* A read position: the list head, or a block of the list at or behind the start
\* of the extent it points at.
PlaceOK(l, i, a, bs) ==
    /\ i \in 0 .. Len(l) /\ a \in Nat
    /\ i # 0 => l[i].start <= a /\ a % bs = 0 /\ InList(a, l)

\* The read position is still one after ranges were given back to the list.
LEMMA FollowOK ==
    ASSUME NEW bs \in Nat, NEW l, ListOK(l, bs), NEW m, ListOK(m, bs),
           \A b \in Int : InList(b, l) => InList(b, m),
           NEW i, NEW a, PlaceOK(l, i, a, bs)
    PROVE  PlaceOK(m, Follow(l, m, i), a, bs) /\ (Follow(l, m, i) = 0 <=> i = 0)
<1> DEFINE n == Len(m)
<1>1. /\ n \in Nat /\ \A j \in 1 .. n : m[j].start \in Nat /\ m[j].end \in Nat
      /\ Len(l) \in Nat
  BY ListFacts
<1>2. CASE i = 0
  <2>1. Follow(l, m, i) = 0 /\ 0 \in 0 .. n
    BY <1>1, <1>2 DEF Follow
  <2> QED
    BY <1>2, <2>1 DEF PlaceOK
<1>3. CASE i # 0
  <2>1. i \in 1 .. Len(l) /\ a \in Nat /\ l[i].start <= a /\ a % bs = 0 /\ InList(a, l)
    BY <1>1, <1>3 DEF PlaceOK
  <2>a. PICK s : s = l[i].start
    OBVIOUS
  <2>2. s \in Nat /\ s <= a /\ InList(s, l)
    <3>1. l[i].start \in Nat /\ In(l[i].start, l[i])
      BY <2>1, ListFacts DEF In
    <3> QED
      BY <2>1, <2>a, <3>1 DEF InList
  <2> DEFINE I == { j \in 1 .. n : m[j].start <= l[i].start /\ l[i].start <= m[j].end }
             first == IF I # {} THEN Min(I) ELSE 0
  <2>3. first = SelectInSeq(m, LAMBDA x : x.start <= l[i].start /\ l[i].start <= x.end)
    BY Zenon DEF SelectInSeq
  <2>4. Follow(l, m, i) = first
    <3> HIDE DEF first
    <3> QED
      BY <1>3, <2>3, Zenon DEF Follow
  <2>5. PICK j \in 0 .. n : j = first /\ (j = 0 => I = {}) /\ (j # 0 => j \in I)
    <3>1. I \in SUBSET (1 .. n)
      OBVIOUS
    <3> HIDE DEF I
    <3> QED
      BY <1>1, <3>1, MinIndex, Zenon
  <2> HIDE DEF first
  <2>6. I # {}
    <3>1. InList(s, m) /\ s \in Int
      BY <2>2
    <3>2. PICK k \in 1 .. n : m[k].start <= s /\ s <= m[k].end
      BY <3>1 DEF InList, In
    <3> QED
      BY <2>a, <3>2
  <2>7. j # 0 /\ m[j].start <= a
    BY <1>1, <2>1, <2>2, <2>5, <2>6, <2>a, SMTT(60)
  <2>8. InList(a, m)
    BY <2>1
  <2>9. PlaceOK(m, j, a, bs)
    BY <2>1, <2>5, <2>7, <2>8 DEF PlaceOK
  <2> QED
    BY <1>3, <2>4, <2>5, <2>7, <2>9
<1> QED
  BY <1>2, <1>3

\* file_block_remove_from_sp finds the block at the read position.
LEMMA ExtentOfIs ==
    ASSUME NEW bs \in Nat, bs > 1, NEW l, ListOK(l, bs), NEW cur,
           NEW a, PlaceOK(l, cur, a, bs), cur # 0
    PROVE  \E i \in 1 .. Len(l) : /\ i = ExtentOf(l, cur, a, bs)
                                  /\ l[i].start <= a /\ a + bs <= l[i].end + 1
<1> DEFINE n == Len(l)
           Has(x) == HasBlock(x, a, bs)
           I == { j \in 1 .. n : Has(l[j]) }
           first == IF I # {} THEN Min(I) ELSE 0
<1>1. /\ n \in Nat /\ \A j \in 1 .. n : /\ l[j].start \in Nat /\ l[j].end \in Nat
                                        /\ (l[j].end + 1) % bs = 0
  BY ListFacts DEF IsBlocks
<1>2. a \in Nat /\ a % bs = 0 /\ InList(a, l) /\ cur \in 1 .. n
  BY <1>1 DEF PlaceOK
<1>3. first = SelectInSeq(l, LAMBDA x : HasBlock(x, a, bs))
  BY Zenon DEF SelectInSeq
<1>4. PICK j \in 0 .. n : j = first /\ (j = 0 => I = {}) /\ (j # 0 => j \in I)
  <2>1. I \in SUBSET (1 .. n)
    OBVIOUS
  <2> HIDE DEF I
  <2> QED
    BY <1>1, <2>1, MinIndex, Zenon
<1>5. I # {}
  <2>1. PICK k \in 1 .. n : l[k].start <= a /\ a <= l[k].end
    BY <1>2 DEF InList, In
  <2>2. PICK e \in Int : e = l[k].end + 1
    BY <1>1
  <2>3. a \in Int /\ a < e /\ e % bs = 0 /\ bs > 0
    BY <1>1, <1>2, <2>1, <2>2
  <2>4. a + bs <= e
    BY <1>2, <2>3, AlignedGap
  <2> QED
    BY <2>1, <2>2, <2>4 DEF HasBlock
<1>6. CASE HasBlock(At(l, cur), a, bs)
  <2>1. At(l, cur) = l[cur] /\ ExtentOf(l, cur, a, bs) = cur
    BY <1>2, <1>6 DEF At, ExtentOf
  <2>2. l[cur].start <= a /\ a + bs <= l[cur].end + 1
    BY <1>6, <2>1 DEF HasBlock
  <2> QED
    BY <1>2, <2>1, <2>2
<1>7. CASE ~ HasBlock(At(l, cur), a, bs)
  <2>1. ExtentOf(l, cur, a, bs) = first
    <3> HIDE DEF first
    <3> QED
      BY <1>3, <1>7, Zenon DEF ExtentOf
  <2> HIDE DEF first
  <2>2. j \in 1 .. n /\ HasBlock(l[j], a, bs)
    BY <1>1, <1>4, <1>5
  <2> QED
    BY <1>4, <2>1, <2>2 DEF HasBlock
<1> QED
  BY <1>6, <1>7

\* The position p of list m comes after the block at a was taken from l.
TakenAt(l, p, a, bs) ==
    /\ ListOK(p.list, bs) /\ PlaceOK(p.list, p.cur, p.offset, bs)
    /\ \A b \in Int : InList(b, p.list) <=> InList(b, l) /\ b \notin a .. a + bs - 1
    /\ \A b \in Int : InList(b, p.list) /\ a < b => p.cur # 0 /\ p.offset <= b

\* The parts of a position.
LEMMA PositionIs ==
    ASSUME NEW l, NEW i, NEW a
    PROVE  Position(l, i, a).list = l /\ Position(l, i, a).cur = i /\ Position(l, i, a).offset = a
  BY DEF Position

\* The start of an extent, or the list head, is a read position.
LEMMA StartPlace ==
    ASSUME NEW bs, NEW l, ListOK(l, bs), NEW i \in 0 .. Len(l)
    PROVE  LET p == At_start(l, i)
           IN  /\ p.list = l /\ p.cur = i /\ PlaceOK(l, i, p.offset, bs)
               /\ i # 0 => p.offset = l[i].start
<1>1. At_start(l, i).list = l /\ At_start(l, i).cur = i /\ At_start(l, i).offset = At(l, i).start
  BY PositionIs DEF At_start
<1>2. CASE i = 0
  <2>1. At(l, i).start = 0
    BY <1>2 DEF At, extent
  <2> QED
    BY <1>1, <1>2, <2>1 DEF PlaceOK
<1>3. CASE i # 0
  <2>1. i \in 1 .. Len(l) /\ At(l, i) = l[i]
    BY <1>3, ListFacts DEF At
  <2>2. l[i].start \in Nat /\ l[i].start % bs = 0 /\ In(l[i].start, l[i])
    BY <2>1, ListFacts DEF IsBlocks, In
  <2>3. InList(l[i].start, l)
    BY <2>1, <2>2 DEF InList
  <2> QED
    BY <1>1, <1>3, <2>1, <2>2, <2>3 DEF PlaceOK
<1> QED
  BY <1>2, <1>3

\* file_block_remove_from_sp_aux where the block is a whole extent.
LEMMA RemoveWholeOK ==
    ASSUME NEW bs \in Nat, bs > 1, NEW l, ListOK(l, bs), NEW i \in 1 .. Len(l),
           NEW a \in Nat, l[i].start = a, a + bs = l[i].end + 1,
           NEW m, m = RemoveAt(l, i),
           NEW k, k = IF i > Len(m) THEN 0 ELSE i
    PROVE  TakenAt(l, At_start(m, k), a, bs)
<1> DEFINE n == Len(l)
<1>1. /\ n \in Nat /\ l \in Seq(Extent)
      /\ \A j \in 1 .. n : l[j].start \in Nat /\ l[j].end \in Nat /\ l[j].start <= l[j].end
      /\ \A j, h \in 1 .. n : j < h => l[j].end < l[h].start
  BY ListFacts
<1>2. ListOK(m, bs) /\ \A b \in Int : InList(b, m) <=> InList(b, l) /\ ~ In(b, l[i])
  BY RemoveOK
<1>3. Len(m) = n - 1 /\ \A j \in 1 .. n - 1 : m[j] = IF j < i THEN l[j] ELSE l[j + 1]
  <2>1. /\ RemoveAt(l, i) \in Seq(Extent)
        /\ Len(RemoveAt(l, i)) = n - 1
        /\ \A j \in 1 .. n - 1 : RemoveAt(l, i)[j] = IF j < i THEN l[j] ELSE l[j + 1]
    <3>1. l \in Seq(Extent)
      BY <1>1
    <3> QED
      BY <3>1, RemoveAtIs
  <2> QED
    BY <2>1, Zenon
<1>4. k \in 0 .. Len(m)
  BY <1>1, <1>3
<1>5. At_start(m, k).list = m /\ At_start(m, k).cur = k /\ PlaceOK(m, k, At_start(m, k).offset, bs)
        /\ (k # 0 => At_start(m, k).offset = m[k].start)
  BY <1>2, <1>4, StartPlace
<1>6. \A b \in Int : In(b, l[i]) <=> b \in a .. a + bs - 1
  BY <1>1 DEF In
<1>7. ASSUME NEW b \in Int, InList(b, m), a < b PROVE k # 0 /\ m[k].start <= b
  <2>1. PICK j \in 1 .. n - 1 : m[j].start <= b /\ b <= m[j].end
    BY <1>3, <1>7 DEF InList, In
  <2>2. i <= j
    <3>1. CASE j < i
      <4>1. m[j] = l[j] /\ j \in 1 .. n
        BY <1>1, <1>3, <3>1
      <4> QED
        BY <1>1, <1>7, <2>1, <3>1, <4>1
    <3> QED
      BY <3>1
  <2>3. k = i /\ k \in 1 .. n - 1
    BY <1>1, <1>3, <2>2
  <2>4. m[k].start <= m[j].start
    <3>1. m[k] = l[k + 1] /\ m[j] = l[j + 1] /\ k + 1 \in 1 .. n /\ j + 1 \in 1 .. n
      BY <1>1, <1>3, <2>2, <2>3
    <3>2. k + 1 < j + 1 \/ k = j
      BY <2>2, <2>3
    <3>3. l[k + 1].end < l[j + 1].start \/ k = j
      BY <1>1, <3>1, <3>2
    <3>4. /\ l[k + 1].start \in Nat /\ l[k + 1].end \in Nat /\ l[j + 1].start \in Nat
          /\ l[k + 1].start <= l[k + 1].end
      BY <1>1, <3>1
    <3> QED
      BY <3>1, <3>3, <3>4
  <2>5. m[k].start \in Nat /\ m[j].start \in Nat
    BY <1>2, <1>3, <2>3, ListFacts
  <2> QED
    BY <2>1, <2>3, <2>4, <2>5
<1> QED
  BY <1>2, <1>5, <1>6, <1>7 DEF TakenAt

\* and where it is the first block of one,
LEMMA RemoveFrontOK ==
    ASSUME NEW bs \in Nat, bs > 1, NEW l, ListOK(l, bs), NEW i \in 1 .. Len(l),
           NEW a \in Nat, a % bs = 0, l[i].start = a, a + bs <= l[i].end,
           NEW cur \in 1 .. Len(l), l[cur].start <= a
    PROVE  TakenAt(l, Position(ReplaceAt(l, i, extent(a + bs, l[i].end)), cur, a + bs), a, bs)
<1> DEFINE n == Len(l)
           x == extent(a + bs, l[i].end)
           m == [ l EXCEPT ![i] = x ]
<1>1. /\ n \in Nat /\ l \in Seq(Extent)
      /\ \A j \in 1 .. n : /\ l[j].start \in Nat /\ l[j].end \in Nat /\ l[j].start <= l[j].end
                           /\ l[j].start % bs = 0 /\ (l[j].end + 1) % bs = 0
      /\ \A j, h \in 1 .. n : j < h => l[j].end < l[h].start
  BY ListFacts DEF IsBlocks
<1>2. x \in Extent /\ x.start = a + bs /\ x.end = l[i].end
  <2>1. a + bs \in Nat /\ l[i].end \in Nat
    BY <1>1
  <2> QED
    BY <2>1, NewExtent
<1> HIDE DEF x
<1>3. (a + bs) % bs = 0
  <2>1. a \in Int /\ bs > 0
    OBVIOUS
  <2> QED
    BY <2>1, AlignedNext
<1>4. IsBlocks(x, bs) /\ Fits(l, i - 1, i + 1, x)
  <2>1. IsBlocks(x, bs)
    BY <1>1, <1>2, <1>3 DEF IsBlocks
  <2>2. \A k \in 1 .. n : k <= i - 1 => l[k].end < x.start
    <3>1. \A k \in 1 .. n : k < i => l[k].end < a
      BY <1>1
    <3>2. \A k \in 1 .. n : l[k].end \in Nat
      BY <1>1
    <3>3. \A k \in 1 .. n : k <= i - 1 => k < i
      BY <1>1
    <3> QED
      BY <1>2, <3>1, <3>2, <3>3
  <2>3. \A k \in 1 .. n : i + 1 <= k => x.end < l[k].start
    BY <1>1, <1>2
  <2>4. Fits(l, i - 1, i + 1, x)
    BY <2>2, <2>3 DEF Fits
  <2> QED
    BY <2>1, <2>4
<1>5. /\ ListOK(m, bs) /\ Len(m) = n
      /\ \A b \in Int : InList(b, m) <=> (InList(b, l) /\ ~ In(b, l[i])) \/ In(b, x)
  BY <1>4, ReplaceOK, ZenonT(60)
<1>6. m[cur].start <= a + bs /\ m = ReplaceAt(l, i, x)
  <2>1. m[cur] = IF cur = i THEN x ELSE l[cur]
    BY <1>1
  <2>2. l[cur].start \in Nat
    BY <1>1
  <2> QED
    BY <1>2, <2>1, <2>2 DEF ReplaceAt
<1> HIDE DEF m
<1>7. /\ In(a + bs, x)
      /\ \A b \in Int : In(b, l[i]) <=> b \in a .. a + bs - 1 \/ In(b, x)
      /\ \A b \in Int : In(b, x) => b \notin a .. a + bs - 1
      /\ \A b \in Int : In(b, l[i]) => InList(b, l)
  <2>1. \A b \in Int : In(b, l[i]) => InList(b, l)
    BY DEF InList
  <2> QED
    BY <1>1, <1>2, <2>1 DEF In
<1>8. PlaceOK(m, cur, a + bs, bs)
  BY <1>3, <1>5, <1>6, <1>7 DEF PlaceOK
<1>9. \A b \in Int : InList(b, m) <=> InList(b, l) /\ b \notin a .. a + bs - 1
  BY <1>5, <1>7
<1>10. \A b \in Int : InList(b, m) /\ a < b => cur # 0 /\ a + bs <= b
  BY <1>9
<1> QED
  BY <1>5, <1>6, <1>8, <1>9, <1>10, PositionIs DEF TakenAt, x

\* the last block,
LEMMA RemoveBackOK ==
    ASSUME NEW bs \in Nat, bs > 1, NEW l, ListOK(l, bs), NEW i \in 1 .. Len(l),
           NEW a \in Nat, a % bs = 0, l[i].start < a, a + bs = l[i].end + 1
    PROVE  TakenAt(l, RemoveBack(l, i, bs), a, bs)
<1> DEFINE n == Len(l)
           v == l[i].end - bs
           X == [ l[i] EXCEPT !.end = v ]
           m == [ l EXCEPT ![i].end = @ - bs ]
           k == next_entry(l, i)
<1>1. /\ n \in Nat /\ l \in Seq(Extent)
      /\ \A j \in 1 .. n : /\ l[j].start \in Nat /\ l[j].end \in Nat /\ l[j].start <= l[j].end
                           /\ l[j].start % bs = 0 /\ (l[j].end + 1) % bs = 0
                           /\ l[j] \in Extent
      /\ \A j, h \in 1 .. n : j < h => l[j].end < l[h].start
  BY ListFacts DEF IsBlocks
<1>2. v = a - 1 /\ v \in Nat
  BY <1>1
<1>3. X \in Extent /\ X.start = l[i].start /\ X.end = v
  <2> HIDE DEF v
  <2>1. l[i] \in Extent
    BY <1>1
  <2> QED
    BY <1>2, <2>1, WithEnd, Zenon
<1>4. m = [ l EXCEPT ![i] = X ]
  BY Zenon
<1> HIDE DEF m, X, v
<1>a. PICK x : x = X
  OBVIOUS
<1>5. x \in Extent /\ x.start = l[i].start /\ x.end = a - 1 /\ m = [ l EXCEPT ![i] = x ]
  <2>1. x \in Extent
    BY <1>a, <1>3, Zenon
  <2>2. x.start = l[i].start
    BY <1>a, <1>3, Zenon
  <2>3. x.end = a - 1
    BY <1>a, <1>2, <1>3, Zenon
  <2>4. m = [ l EXCEPT ![i] = x ]
    BY <1>a, <1>4, Zenon
  <2> QED
    BY <2>1, <2>2, <2>3, <2>4, Zenon
<1>6. IsBlocks(x, bs)
  <2>1. x.start <= x.end
    BY <1>1, <1>5
  <2>2. x.start % bs = 0
    <3>1. l[i].start % bs = 0
      BY <1>1
    <3> QED
      BY <1>5, <3>1, Zenon
  <2>3. x.end + 1 = a
    BY <1>5
  <2>4. (x.end + 1) % bs = 0
    BY <2>3, Zenon
  <2> QED
    BY <1>5, <2>1, <2>2, <2>4, Zenon DEF IsBlocks
<1>7. Fits(l, i - 1, i + 1, x)
  <2>1. \A j \in 1 .. n : j <= i - 1 => l[j].end < l[i].start
    BY <1>1
  <2>2. a - 1 <= l[i].end
    BY <1>1
  <2>3. \A j \in 1 .. n : i + 1 <= j => l[i].end < l[j].start
    BY <1>1
  <2>4. \A j \in 1 .. n : i + 1 <= j => a - 1 < l[j].start
    BY <1>1, <2>2, <2>3
  <2> QED
    BY <1>5, <2>1, <2>4 DEF Fits
<1>8. /\ ListOK(m, bs) /\ Len(m) = n
      /\ \A b \in Int : InList(b, m) <=> (InList(b, l) /\ ~ In(b, l[i])) \/ In(b, x)
  <2>1. i \in 1 .. Len(l)
    OBVIOUS
  <2>2. /\ ListOK([ l EXCEPT ![i] = x ], bs)
        /\ Len([ l EXCEPT ![i] = x ]) = Len(l)
        /\ \A b \in Int : InList(b, [ l EXCEPT ![i] = x ]) <=>
                            (InList(b, l) /\ ~ In(b, l[i])) \/ In(b, x)
    BY <1>6, <1>7, <2>1, ReplaceOK
  <2> QED
    BY <1>5, <2>2, Zenon
<1>9. \A j \in 1 .. n : m[j] = IF j = i THEN x ELSE l[j]
  <2>1. \A j \in 1 .. n : [ l EXCEPT ![i] = x ][j] = IF j = i THEN x ELSE l[j]
    BY <1>1
  <2> QED
    BY <1>5, <2>1, Zenon
<1>10. k \in 0 .. n /\ (k # 0 => k = i + 1) /\ (k = 0 => i = n)
  BY <1>1 DEF next_entry
<1>11. RemoveBack(l, i, bs) = At_start(m, k)
  BY Zenon DEF RemoveBack, m
<1> HIDE DEF k
<1>12. At_start(m, k).list = m /\ At_start(m, k).cur = k /\ PlaceOK(m, k, At_start(m, k).offset, bs)
         /\ (k # 0 => At_start(m, k).offset = m[k].start)
  BY <1>8, <1>10, StartPlace
<1>13. /\ \A b \in Int : In(b, l[i]) <=> b \in a .. a + bs - 1 \/ In(b, x)
       /\ \A b \in Int : In(b, x) => b < a
       /\ \A b \in Int : In(b, l[i]) => InList(b, l)
  <2>1. \A b \in Int : In(b, l[i]) => InList(b, l)
    BY DEF InList
  <2> QED
    BY <1>1, <1>5, <2>1, SMTT(60) DEF In
<1>14. \A b \in Int : InList(b, m) <=> InList(b, l) /\ b \notin a .. a + bs - 1
  <2>1. \A b \in Int : b \in a .. a + bs - 1 => ~ (b < a)
    OBVIOUS
  <2> QED
    BY <1>8, <1>13, <2>1
<1>15. ASSUME NEW b \in Int, InList(b, m), a < b PROVE k # 0 /\ m[k].start <= b
  <2>1. PICK j \in 1 .. n : In(b, m[j])
    BY <1>8, <1>15 DEF InList
  <2>2. j # i
    BY <1>9, <1>13, <1>15, <2>1
  <2>3. m[j] = l[j]
    BY <1>9, <2>2
  <2>4. i < j
    <3>1. CASE j < i
      BY <1>1, <1>15, <2>1, <2>3, <3>1 DEF In
    <3> QED
      BY <2>2, <3>1
  <2>5. k = i + 1 /\ k \in 1 .. n
    BY <1>1, <1>10, <2>4
  <2>6. m[k] = l[k] /\ l[k].start <= l[j].start
    <3>1. m[k] = l[k]
      BY <1>9, <2>5
    <3>2. k = j \/ l[k].end < l[j].start
      BY <1>1, <2>4, <2>5
    <3>3. l[k].start \in Nat /\ l[k].end \in Nat /\ l[j].start \in Nat /\ l[k].start <= l[k].end
      BY <1>1, <2>5
    <3> QED
      BY <3>1, <3>2, <3>3
  <2> QED
    BY <1>1, <2>1, <2>3, <2>5, <2>6, SMTT(60) DEF In
<1>16. \A b \in Int : InList(b, m) /\ a < b => k # 0 /\ At_start(m, k).offset <= b
  BY <1>12, <1>15
<1> QED
  BY <1>8, <1>11, <1>12, <1>14, <1>16 DEF TakenAt

\* or a block in the middle.
LEMMA RemoveMiddleOK ==
    ASSUME NEW bs \in Nat, bs > 1, NEW l, ListOK(l, bs), NEW i \in 1 .. Len(l),
           NEW a \in Nat, a % bs = 0, l[i].start < a, a + bs <= l[i].end
    PROVE  TakenAt(l, RemoveMiddle(l, i, a, bs), a, bs)
<1> DEFINE n == Len(l)
           X == [ l[i] EXCEPT !.end = a - 1 ]
           y == extent(a + bs, l[i].end)
           M == [ l EXCEPT ![i].end = a - 1 ]
<1>1. /\ n \in Nat /\ l \in Seq(Extent)
      /\ \A j \in 1 .. n : /\ l[j].start \in Nat /\ l[j].end \in Nat /\ l[j].start <= l[j].end
                           /\ l[j].start % bs = 0 /\ (l[j].end + 1) % bs = 0
                           /\ l[j] \in Extent
      /\ \A j, h \in 1 .. n : j < h => l[j].end < l[h].start
  BY ListFacts DEF IsBlocks
<1>2. a - 1 \in Nat /\ l[i] \in Extent
  BY <1>1
<1>3. X \in Extent /\ X.start = l[i].start /\ X.end = a - 1
  BY <1>2, WithEnd, Zenon
<1>4. M = [ l EXCEPT ![i] = X ]
  BY Zenon
<1> HIDE DEF M, X
<1>a. PICK x : x = X
  OBVIOUS
<1>b. PICK m : m = M
  OBVIOUS
<1>5. x \in Extent /\ x.start = l[i].start /\ x.end = a - 1 /\ m = [ l EXCEPT ![i] = x ]
  BY <1>a, <1>b, <1>2, <1>3, <1>4, Zenon
<1>6. IsBlocks(x, bs)
  BY <1>1, <1>5 DEF IsBlocks
<1>7. Fits(l, i - 1, i + 1, x)
  <2>1. \A j \in 1 .. n : j <= i - 1 => l[j].end < l[i].start
    BY <1>1
  <2>2. a - 1 <= l[i].end
    BY <1>1
  <2>3. \A j \in 1 .. n : i + 1 <= j => l[i].end < l[j].start
    BY <1>1
  <2>4. \A j \in 1 .. n : i + 1 <= j => a - 1 < l[j].start
    BY <1>1, <2>2, <2>3
  <2> QED
    BY <1>5, <2>1, <2>4 DEF Fits
<1>8. /\ ListOK(m, bs) /\ Len(m) = n
      /\ \A b \in Int : InList(b, m) <=> (InList(b, l) /\ ~ In(b, l[i])) \/ In(b, x)
  <2>1. i \in 1 .. Len(l)
    OBVIOUS
  <2>2. /\ ListOK([ l EXCEPT ![i] = x ], bs)
        /\ Len([ l EXCEPT ![i] = x ]) = Len(l)
        /\ \A b \in Int : InList(b, [ l EXCEPT ![i] = x ]) <=>
                            (InList(b, l) /\ ~ In(b, l[i])) \/ In(b, x)
    BY <1>6, <1>7, <2>1, ReplaceOK
  <2> QED
    BY <1>5, <2>2, Zenon
<1>9. \A j \in 1 .. n : m[j] = IF j = i THEN x ELSE l[j]
  <2>1. \A j \in 1 .. n : [ l EXCEPT ![i] = x ][j] = IF j = i THEN x ELSE l[j]
    BY <1>1
  <2> QED
    BY <1>5, <2>1, Zenon
<1>10. y \in Extent /\ y.start = a + bs /\ y.end = l[i].end
  <2>1. a + bs \in Nat /\ l[i].end \in Nat
    BY <1>1
  <2> QED
    BY <2>1, NewExtent
<1>11. (a + bs) % bs = 0
  <2>1. a \in Int /\ bs > 0
    OBVIOUS
  <2> QED
    BY <2>1, AlignedNext
<1>12. RemoveMiddle(l, i, a, bs) = Position(InsertAt(m, i + 1, y), i + 1, a + bs)
  BY <1>b, Zenon DEF RemoveMiddle, M
<1> HIDE DEF y
<1>13. IsBlocks(y, bs)
  BY <1>1, <1>10, <1>11 DEF IsBlocks
<1>14. Fits(m, i, i + 1, y)
  <2>1. \A j \in 1 .. n : j < i => l[j].end < l[i].start
    BY <1>1
  <2>2. \A j \in 1 .. n : j < i => l[j].end < a + bs
    BY <1>1, <2>1
  <2>3. \A j \in 1 .. n : j <= i => m[j].end < a + bs
    <3> TAKE j \in 1 .. n
    <3>1. CASE j = i
      BY <1>5, <1>9, <3>1
    <3>2. CASE j < i
      BY <1>9, <2>2, <3>2
    <3> QED
      BY <3>1, <3>2
  <2>4. \A j \in 1 .. n : i + 1 <= j => l[i].end < l[j].start
    BY <1>1
  <2>5. ASSUME NEW j \in 1 .. n, i + 1 <= j PROVE l[i].end < m[j].start
    <3>1. j # i
      BY <2>5
    <3>2. m[j] = l[j]
      BY <1>9, <3>1, Zenon
    <3>3. l[i].end < l[j].start
      BY <2>4, <2>5
    <3> QED
      BY <3>2, <3>3, Zenon
  <2> QED
    BY <1>8, <1>10, <2>3, <2>5 DEF Fits
<1>15. i + 1 \in 1 .. Len(m) + 1 /\ i + 1 - 1 = i
  BY <1>8
<1> DEFINE Q == InsertAt(m, i + 1, y)
<1>16. /\ ListOK(Q, bs)
       /\ \A b \in Int : InList(b, Q) <=> InList(b, m) \/ In(b, y)
  BY <1>8, <1>13, <1>14, <1>15, InsertOK
<1>17. Q[i + 1] = y /\ Len(Q) = n + 1
  <2>1. m \in Seq(Extent)
    BY <1>8 DEF ListOK
  <2>2. PICK g \in 1 .. Len(m) + 1 : g = i + 1
    BY <1>15
  <2>3. /\ Len(InsertAt(m, g, y)) = Len(m) + 1
        /\ \A j \in 1 .. Len(m) + 1 :
             InsertAt(m, g, y)[j] = IF j < g THEN m[j] ELSE IF j = g THEN y ELSE m[j - 1]
    BY <1>10, <2>1, InsertAtIs, SMTT(60)
  <2>4. Len(InsertAt(m, g, y)) = Len(m) + 1 /\ InsertAt(m, g, y)[g] = y
    BY <2>3
  <2>5. Q = InsertAt(m, g, y)
    BY <2>2
  <2> HIDE DEF Q
  <2> QED
    BY <1>8, <2>2, <2>4, <2>5
<1> HIDE DEF Q
<1>18. /\ \A b \in Int : In(b, l[i]) <=> b \in a .. a + bs - 1 \/ In(b, x) \/ In(b, y)
       /\ \A b \in Int : In(b, x) => b < a
       /\ \A b \in Int : In(b, y) => a + bs <= b
       /\ In(a + bs, y)
  BY <1>1, <1>5, <1>10 DEF In
<1>19. \A b \in Int : In(b, l[i]) => InList(b, l)
  BY DEF InList
<1>20. \A b \in Int : b \in a .. a + bs - 1 => ~ (b < a) /\ ~ (a + bs <= b)
  OBVIOUS
<1>21. \A b \in Int : InList(b, Q) <=> InList(b, l) /\ b \notin a .. a + bs - 1
  BY <1>8, <1>16, <1>18, <1>19, <1>20
<1>22. PlaceOK(Q, i + 1, a + bs, bs)
  <2>1. InList(a + bs, Q) /\ a + bs \in Nat
    BY <1>16, <1>18
  <2>2. i + 1 \in 0 .. Len(Q) /\ Q[i + 1].start <= a + bs
    BY <1>1, <1>10, <1>17
  <2> QED
    BY <1>11, <2>1, <2>2 DEF PlaceOK
<1>23. \A b \in Int : InList(b, Q) /\ a < b => i + 1 # 0 /\ a + bs <= b
  BY <1>21
<1> QED
  BY <1>12, <1>16, <1>21, <1>22, <1>23, PositionIs DEF TakenAt, Q

\* file_block_remove_from_sp takes the block at the read position and nothing
\* else, and the new read position is not behind anything that follows it.
LEMMA RemoveBlockOK ==
    ASSUME NEW bs \in Nat, bs > 1, NEW l, ListOK(l, bs), NEW cur,
           NEW a, PlaceOK(l, cur, a, bs), cur # 0
    PROVE  /\ TakenAt(l, file_block_remove_from_sp(l, cur, a, bs), a, bs)
           /\ \A b \in a .. a + bs - 1 : InList(b, l)
           /\ ExtentOf(l, cur, a, bs) # 0
<1>1. PICK i \in 1 .. Len(l) : /\ i = ExtentOf(l, cur, a, bs)
                               /\ l[i].start <= a /\ a + bs <= l[i].end + 1
  BY ExtentOfIs
<1>2. l[i].start \in Nat /\ l[i].end \in Nat /\ Len(l) \in Nat
  BY ListFacts
<1>3. a \in Nat /\ a % bs = 0 /\ cur \in 1 .. Len(l) /\ l[cur].start <= a
  BY <1>2 DEF PlaceOK
<1>4. file_block_remove_from_sp(l, cur, a, bs) = RemoveBlock(l, i, cur, a, bs)
  BY <1>1 DEF file_block_remove_from_sp
<1> DEFINE m == RemoveAt(l, i)
           k == IF i > Len(m) THEN 0 ELSE i
<1>5. ASSUME l[i].start = a, a + bs <= l[i].end
      PROVE  TakenAt(l, file_block_remove_from_sp(l, cur, a, bs), a, bs)
  <2>1. RemoveBlock(l, i, cur, a, bs) = Position(ReplaceAt(l, i, extent(a + bs, l[i].end)), cur, a + bs)
    BY <1>5, Zenon DEF RemoveBlock, RemoveFront
  <2> QED
    BY <1>3, <1>4, <1>5, <2>1, RemoveFrontOK
<1>6. ASSUME l[i].start = a, ~ (a + bs <= l[i].end)
      PROVE  TakenAt(l, file_block_remove_from_sp(l, cur, a, bs), a, bs)
  <2>1. RemoveBlock(l, i, cur, a, bs) = At_start(m, k)
    BY <1>6, Zenon DEF RemoveBlock, RemoveFront
  <2>2. a + bs = l[i].end + 1
    <3>1. l[i].end + 1 < a + bs + 1
      BY <1>2, <1>3, <1>6
    <3> QED
      BY <1>1, <1>2, <1>3, <3>1
  <2>3. TakenAt(l, At_start(m, k), a, bs)
    BY <1>3, <1>6, <2>2, RemoveWholeOK
  <2> QED
    BY <1>4, <2>1, <2>3, Zenon
<1>7. ASSUME l[i].start # a, a + bs = l[i].end + 1
      PROVE  TakenAt(l, file_block_remove_from_sp(l, cur, a, bs), a, bs)
  <2>1. RemoveBlock(l, i, cur, a, bs) = RemoveBack(l, i, bs) /\ l[i].start < a
    BY <1>1, <1>2, <1>3, <1>7 DEF RemoveBlock
  <2> QED
    BY <1>3, <1>4, <1>7, <2>1, RemoveBackOK
<1>8. ASSUME l[i].start # a, a + bs # l[i].end + 1
      PROVE  TakenAt(l, file_block_remove_from_sp(l, cur, a, bs), a, bs)
  <2>1. RemoveBlock(l, i, cur, a, bs) = RemoveMiddle(l, i, a, bs)
    BY <1>8, Zenon DEF RemoveBlock
  <2>2. l[i].start < a /\ a + bs <= l[i].end
    BY <1>1, <1>2, <1>3, <1>8
  <2> QED
    BY <1>3, <1>4, <2>1, <2>2, RemoveMiddleOK
<1>9. \A b \in a .. a + bs - 1 : InList(b, l)
  BY <1>1, <1>2, <1>3 DEF InList, In
<1>10. ExtentOf(l, cur, a, bs) # 0
  BY <1>1
<1> QED
  BY <1>5, <1>6, <1>7, <1>8, <1>9, <1>10

\* The byte b is not behind the position << i, a >>.
Ahead(i, a, b) == i # 0 /\ a <= b

\* Highest is the greatest member of a set of indices.
LEMMA HighestIs ==
    ASSUME NEW n \in Nat, NEW s \in SUBSET (1 .. n), s # {}
    PROVE  Highest(s) \in s /\ \A k \in s : k <= Highest(s)
<1>1. Max(s) \in s /\ \A k \in s : k <= Max(s)
  BY MaxProperty
<1> QED
  BY <1>1 DEF Highest

\* get_next_sector goes to the next block of the list: the new position is a block
\* of it, and no block that was ahead is passed over.
LEMMA NextSectorOK ==
    ASSUME NEW bs \in Nat, bs > 1, NEW l, ListOK(l, bs), NEW i,
           NEW a, PlaceOK(l, i, a, bs),
           NEW p, p = get_next_sector(l, i, a, bs)
    PROVE  /\ PlaceOK(l, p.cur, p.offset, bs)
           /\ \A b \in Int : InList(b, l) /\ b % bs = 0 /\ Ahead(i, a, b) /\ b # a =>
                              Ahead(p.cur, p.offset, b)
<1> DEFINE n == Len(l)
<1>1. /\ n \in Nat
      /\ \A j \in 1 .. n : /\ l[j].start \in Nat /\ l[j].end \in Nat /\ l[j].start <= l[j].end
                           /\ l[j].start % bs = 0 /\ (l[j].end + 1) % bs = 0
      /\ \A j, h \in 1 .. n : j < h => l[j].end < l[h].start
  BY ListFacts DEF IsBlocks
<1>2. ASSUME NEW b \in Int, b % bs = 0, a < b, a % bs = 0, a \in Nat PROVE a + bs <= b
  <2>1. a \in Int /\ bs > 0
    BY <1>2
  <2> QED
    BY <1>2, <2>1, AlignedGap
<1>3. CASE i = 0
  <2>1. p = Position(l, i, a)
    BY <1>3 DEF get_next_sector
  <2>2. p.cur = i /\ p.offset = a
    BY <2>1, PositionIs
  <2> QED
    BY <1>3, <2>2 DEF Ahead
<1>4. ASSUME i # 0
      PROVE  i \in 1 .. n /\ a \in Nat /\ l[i].start <= a /\ a % bs = 0 /\ InList(a, l)
  BY <1>1, <1>4 DEF PlaceOK
<1>5. CASE i # 0 /\ a + bs <= l[i].end
  <2>1. p.cur = i /\ p.offset = a + bs
    BY <1>5, PositionIs DEF get_next_sector
  <2>2. In(a + bs, l[i]) /\ a + bs \in Nat /\ l[i].start <= a + bs
    BY <1>1, <1>4, <1>5 DEF In
  <2>3. InList(a + bs, l)
    BY <1>4, <1>5, <2>2 DEF InList
  <2>4. (a + bs) % bs = 0
    <3>1. a \in Int /\ bs > 0 /\ a % bs = 0
      BY <1>4, <1>5
    <3> QED
      BY <3>1, AlignedNext
  <2>5. PlaceOK(l, p.cur, p.offset, bs)
    BY <1>4, <1>5, <2>1, <2>2, <2>3, <2>4 DEF PlaceOK
  <2>6. ASSUME NEW b \in Int, InList(b, l), b % bs = 0, Ahead(i, a, b), b # a
        PROVE  Ahead(p.cur, p.offset, b)
    <3>1. a < b
      BY <1>4, <1>5, <2>6 DEF Ahead
    <3>2. a + bs <= b
      BY <1>2, <1>4, <1>5, <2>6, <3>1
    <3> QED
      BY <1>5, <2>1, <3>2 DEF Ahead
  <2> QED
    BY <2>5, <2>6
<1>6. CASE i # 0 /\ ~ (a + bs <= l[i].end)
  <2> DEFINE K == next_entry(l, i)
  <2>1. PICK k \in 0 .. n : k = K /\ (k # 0 => k = i + 1) /\ (k = 0 => i = n)
    BY <1>1, <1>4, <1>6 DEF next_entry
  <2>2. p = At_start(l, k)
    BY <1>6, <2>1, Zenon DEF get_next_sector
  <2>3. p.cur = k /\ PlaceOK(l, k, p.offset, bs) /\ (k # 0 => p.offset = l[k].start)
    BY <2>2, StartPlace
  <2>4. ASSUME NEW b \in Int, InList(b, l), b % bs = 0, Ahead(i, a, b), b # a
        PROVE  Ahead(p.cur, p.offset, b)
    <3>1. a < b
      BY <1>4, <1>6, <2>4 DEF Ahead
    <3>2. a + bs <= b
      BY <1>2, <1>4, <1>6, <2>4, <3>1
    <3>3. PICK j \in 1 .. n : l[j].start <= b /\ b <= l[j].end
      BY <2>4 DEF InList, In
    <3>4. i < j
      <4>1. l[i].start <= a /\ l[i].end < b /\ i \in 1 .. n
        BY <1>1, <1>4, <1>6, <3>2
      <4>2. CASE j < i
        <5>1. l[j].end < l[i].start
          BY <1>1, <4>1, <4>2
        <5> QED
          BY <1>1, <3>1, <3>3, <4>1, <5>1
      <4>3. CASE j = i
        BY <1>1, <3>3, <4>1, <4>3
      <4> QED
        BY <4>1, <4>2, <4>3
    <3>5. k = i + 1 /\ k \in 1 .. n
      BY <1>1, <2>1, <3>4
    <3>6. l[k].start <= l[j].start
      <4>0. k \in 1 .. n /\ j \in 1 .. n /\ (k = j \/ k < j)
        <5>1. i \in Int /\ j \in Int /\ k = i + 1
          BY <1>1, <1>4, <1>6, <3>5
        <5> QED
          BY <3>4, <3>5, <5>1
      <4>1. k = j \/ l[k].end < l[j].start
        BY <1>1, <4>0
      <4>2. l[k].start \in Nat /\ l[k].end \in Nat /\ l[j].start \in Nat /\ l[k].start <= l[k].end
        BY <1>1, <3>5
      <4> QED
        BY <4>1, <4>2
    <3> QED
      BY <1>1, <2>3, <3>3, <3>5, <3>6 DEF Ahead
  <2> QED
    BY <2>3, <2>4
<1> QED
  BY <1>3, <1>5, <1>6

\* The extents before a position.
LEMMA BeforeIs ==
    ASSUME NEW n \in Nat, NEW l, Len(l) = n, NEW i \in 0 .. n
    PROVE  /\ Before(l, i) \in SUBSET (1 .. n)
           /\ i # 0 => \A j \in Before(l, i) : j < i
  BY DEF Before

\* The start of an extent before the position is not behind what is ahead of it.
LEMMA BeforeStart ==
    ASSUME NEW bs, NEW l, ListOK(l, bs), NEW i, NEW a, PlaceOK(l, i, a, bs),
           NEW j \in Before(l, i), NEW b \in Int, Ahead(i, a, b)
    PROVE  l[j].start <= b
<1> DEFINE n == Len(l)
<1>1. n \in Nat /\ \A h \in 1 .. n : l[h].start \in Nat /\ l[h].end \in Nat /\ l[h].start <= l[h].end
  BY ListFacts
<1>2. i \in 1 .. n /\ a \in Nat /\ l[i].start <= a /\ a <= b
  BY <1>1 DEF PlaceOK, Ahead
<1>3. j \in 1 .. n /\ j < i
  BY <1>1, <1>2, BeforeIs
<1>4. l[j].end < l[i].start
  BY <1>2, <1>3, ListFacts
<1> QED
  BY <1>1, <1>2, <1>3, <1>4

\* The way back to a rejected header passes over nothing: all that was ahead is
\* still ahead.
LEMMA PrevHeaderOK ==
    ASSUME NEW bs \in Nat, NEW l, ListOK(l, bs), NEW i, NEW a, PlaceOK(l, i, a, bs),
           get_prev_file_header(l, i) # 0,
           NEW p, p = At_start(l, get_prev_file_header(l, i))
    PROVE  /\ PlaceOK(l, p.cur, p.offset, bs)
           /\ \A b \in Int : Ahead(i, a, b) => Ahead(p.cur, p.offset, b)
<1> DEFINE n == Len(l)
           near == { j \in Before(l, i) :
                       j >= (IF i = 0 THEN Len(l) + 1 ELSE i) - Reach /\ l[j].file_stat }
<1>1. get_prev_file_header(l, i) = IF near = {} THEN 0 ELSE Highest(near)
  BY Zenon DEF get_prev_file_header
<1>2. near # {} /\ get_prev_file_header(l, i) = Highest(near)
  <2> HIDE DEF near
  <2> QED
    BY <1>1
<1>3. n \in Nat /\ i \in 0 .. n
  BY ListFacts DEF PlaceOK
<1>4. Before(l, i) \in SUBSET (1 .. n)
  BY <1>3, BeforeIs
<1>5. near \in SUBSET (1 .. n)
  BY <1>4
<1>6. Highest(near) \in near
  <2> HIDE DEF near
  <2> QED
    BY <1>2, <1>3, <1>5, HighestIs
<1>7. PICK j \in 1 .. n : j = get_prev_file_header(l, i) /\ j \in Before(l, i)
  BY <1>2, <1>5, <1>6
<1>8. p.cur = j /\ PlaceOK(l, j, p.offset, bs) /\ p.offset = l[j].start /\ j # 0
  <2>1. j \in 0 .. n /\ j # 0
    BY <1>3
  <2> QED
    BY <1>7, <2>1, StartPlace
<1> QED
  BY <1>7, <1>8, BeforeStart DEF Ahead

\* The second loop of get_prev_location_smart leaves the read position at a
\* block of the list that is not behind anything it has to look at again.
LEMMA SecondLoopOK ==
    ASSUME NEW bs \in Nat, NEW l, ListOK(l, bs), NEW i, NEW a, PlaceOK(l, i, a, bs),
           NEW from \in 0 .. Len(l), NEW skipped \in Nat, skipped % bs = 0,
           InList(skipped, l),
           NEW p, p = Position(l, i, a), NEW q, q = SecondLoop(p, from, skipped)
    PROVE  /\ PlaceOK(l, q.cur, q.offset, bs)
           /\ \A b \in Int : InList(b, l) /\ Ahead(i, a, b) /\ skipped < b =>
                               Ahead(q.cur, q.offset, b)
<1> DEFINE n == Len(l)
           lower == { j \in Before(p.list, from) : p.list[j].start < skipped }
<1>0. p.list = l /\ p.cur = i /\ p.offset = a
  BY PositionIs
<1>1. /\ n \in Nat
      /\ \A j \in 1 .. n : l[j].start \in Nat /\ l[j].end \in Nat /\ l[j].start <= l[j].end
      /\ \A j, h \in 1 .. n : j < h => l[j].end < l[h].start
  BY ListFacts
<1>2. lower \in SUBSET (1 .. n)
  BY <1>0, <1>1, BeforeIs
<1>3. q = IF lower # {} THEN [ p EXCEPT !.cur = Highest(lower), !.offset = skipped ]
          ELSE IF Before(p.list, from) = {} THEN p
          ELSE At_start(p.list, 1)
  BY Zenon DEF SecondLoop
<1> HIDE DEF lower
<1>4. CASE lower # {}
  <2>1. PICK j \in 1 .. n : j = Highest(lower) /\ j \in lower
    BY <1>1, <1>2, <1>4, HighestIs
  <2>2. q.cur = j /\ q.offset = skipped
    <3>1. q = [ p EXCEPT !.cur = j, !.offset = skipped ]
      BY <1>3, <1>4, <2>1, Zenon
    <3> QED
      BY <3>1, Zenon DEF Position
  <2>3. l[j].start <= skipped
    <3>1. l[j].start < skipped
      BY <1>0, <2>1 DEF lower
    <3> QED
      BY <1>1, <3>1
  <2>4. PlaceOK(l, j, skipped, bs)
    BY <2>3 DEF PlaceOK
  <2>5. j # 0
    BY <2>1
  <2> QED
    BY <2>2, <2>4, <2>5 DEF Ahead
<1>5. CASE lower = {} /\ Before(l, from) = {}
  <2>1. q.cur = i /\ q.offset = a
    <3>1. q = p
      BY <1>0, <1>3, <1>5, Zenon
    <3> QED
      BY <1>0, <3>1
  <2> QED
    BY <2>1
<1>6. CASE lower = {} /\ Before(l, from) # {}
  <2>1. q = At_start(l, 1) /\ n >= 1
    <3>1. q = At_start(l, 1)
      BY <1>0, <1>3, <1>6, Zenon
    <3>2. Before(l, from) \in SUBSET (1 .. n)
      BY <1>1, BeforeIs
    <3>3. \E j \in 1 .. n : TRUE
      BY <1>6, <3>2
    <3> QED
      BY <1>1, <3>1, <3>3
  <2>2. 1 \in 0 .. n /\ 1 \in 1 .. n
    BY <1>1, <2>1
  <2>3. q.cur = 1 /\ PlaceOK(l, 1, q.offset, bs) /\ q.offset = l[1].start
    BY <2>1, <2>2, StartPlace
  <2>4. ASSUME NEW b \in Int, InList(b, l) PROVE l[1].start <= b
    <3>1. PICK j \in 1 .. n : l[j].start <= b /\ b <= l[j].end
      BY <2>4 DEF InList, In
    <3>2. j = 1 \/ 1 < j
      OBVIOUS
    <3>3. CASE j = 1
      BY <3>1, <3>3
    <3>4. CASE 1 < j
      <4>1. l[1].end < l[j].start
        BY <1>1, <2>2, <3>4
      <4> QED
        BY <1>1, <2>2, <3>1, <4>1
    <3> QED
      BY <3>2, <3>3, <3>4
  <2> QED
    BY <2>3, <2>4 DEF Ahead
<1> QED
  BY <1>4, <1>5, <1>6

\* get_prev_location_smart moves back to a block of the list that is not behind
\* anything from the skipped header on that was still ahead.
LEMMA PrevLocationOK ==
    ASSUME NEW bs \in Nat, NEW l, ListOK(l, bs), NEW i, NEW a, PlaceOK(l, i, a, bs),
           NEW skipped \in Nat, NEW prev,
           skipped # 0 => skipped % bs = 0 /\ InList(skipped, l),
           NEW p, p = Position(l, i, a), NEW q, q = get_prev_location_smart(p, skipped, prev)
    PROVE  /\ PlaceOK(l, q.cur, q.offset, bs)
           /\ \A b \in Int : InList(b, l) /\ Ahead(i, a, b) /\ (skipped # 0 => skipped < b) =>
                               Ahead(q.cur, q.offset, b)
<1> DEFINE n == Len(l)
           hits == Holding(p.list, p.cur, skipped)
           stops == Stopping(p.list, p.cur, prev)
           from == IF stops = {} THEN 0 ELSE Highest(stops)
<1>0. p.list = l /\ p.cur = i /\ p.offset = a
  BY PositionIs
<1>1. n \in Nat /\ i \in 0 .. n
  BY ListFacts DEF PlaceOK
<1>2. q = IF skipped = 0 THEN p
          ELSE IF FirstLoopFinds(p.list, p.cur, skipped, prev)
            THEN [ p EXCEPT !.cur = Highest(hits), !.offset = skipped ]
          ELSE SecondLoop(p, from, skipped)
  BY Zenon DEF get_prev_location_smart
<1>3. hits \in SUBSET (1 .. n) /\ stops \in SUBSET (1 .. n)
  BY <1>0, <1>1, BeforeIs DEF Holding, Stopping
<1>4. \A j \in hits : l[j].start <= skipped
  BY <1>0 DEF Holding
<1>5. from \in 0 .. n
  <2> HIDE DEF stops
  <2>1. stops # {} => Highest(stops) \in 1 .. n
    BY <1>1, <1>3, HighestIs
  <2> QED
    BY <1>1, <2>1
<1> HIDE DEF hits, stops, from
<1>6. CASE skipped = 0
  <2>1. q = p
    BY <1>2, <1>6, Zenon
  <2> QED
    BY <1>0, <1>6, <2>1
<1>7. CASE skipped # 0 /\ FirstLoopFinds(p.list, p.cur, skipped, prev)
  <2>1. hits # {}
    BY <1>7 DEF FirstLoopFinds, hits
  <2>2. PICK j \in 1 .. n : j = Highest(hits) /\ j \in hits
    BY <1>1, <1>3, <2>1, HighestIs
  <2>3. q.cur = j /\ q.offset = skipped
    <3>1. q = [ p EXCEPT !.cur = j, !.offset = skipped ]
      BY <1>2, <1>7, <2>2, Zenon
    <3> QED
      BY <3>1, Zenon DEF Position
  <2>4. PlaceOK(l, j, skipped, bs) /\ j # 0
    BY <1>1, <1>4, <1>7, <2>2 DEF PlaceOK
  <2> QED
    BY <1>7, <2>3, <2>4 DEF Ahead
<1>8. CASE skipped # 0 /\ ~ FirstLoopFinds(p.list, p.cur, skipped, prev)
  <2>1. q = SecondLoop(p, from, skipped)
    BY <1>2, <1>8, Zenon
  <2>2. /\ PlaceOK(l, q.cur, q.offset, bs)
        /\ \A b \in Int : InList(b, l) /\ Ahead(i, a, b) /\ skipped < b =>
                            Ahead(q.cur, q.offset, b)
    BY <1>5, <1>8, <2>1, SecondLoopOK
  <2> QED
    BY <1>8, <2>2
<1> QED
  BY <1>6, <1>7, <1>8

\* file_block_add_to_file adds just the block to the location.
LEMMA AddToFileOK ==
    ASSUME NEW bs \in Nat, bs > 1, NEW l, LocationOK(l, bs), NEW a \in Nat, a % bs = 0,
           \A b \in a .. a + bs - 1 : ~ InList(b, l),
           NEW data \in { 0, 1 },
           NEW m, m = file_block_add_to_file(l, a, bs, data)
    PROVE  /\ LocationOK(m, bs)
           /\ \A b \in Int : InList(b, m) <=> InList(b, l) \/ b \in a .. a + bs - 1
           /\ data = 0 => DataBytes(m) = DataBytes(l)
           /\ data = 1 => DataBytes(m) = DataBytes(l) \cup (a .. a + bs - 1)
<1> DEFINE n == Len(l)
           v == a + bs - 1
<1>1. /\ l \in Seq(Element) /\ n \in Nat
      /\ \A i \in 1 .. n :
            /\ l[i] \in Element
            /\ l[i].start \in Nat /\ l[i].end \in Nat /\ l[i].start <= l[i].end
            /\ l[i].start % bs = 0 /\ (l[i].end + 1) % bs = 0
            /\ l[i].data \in { 0, 1 }
      /\ \A i, j \in 1 .. n : i # j => l[i].end < l[j].start \/ l[j].end < l[i].start
  BY LocationFacts
<1>2. v \in Nat /\ a <= v /\ (v + 1) % bs = 0
  <2>1. a \in Int /\ bs > 0 /\ v + 1 = a + bs
    OBVIOUS
  <2>2. (a + bs) % bs = 0
    BY <2>1, AlignedNext
  <2> QED
    BY <2>1, <2>2
<1> HIDE DEF v
<1>3. CASE l # << >> /\ Last(l).end + 1 = a /\ Last(l).data = data
  <2> DEFINE X == [ l[n] EXCEPT !.end = v ]
  <2>1. n \in 1 .. n /\ Last(l) = l[n]
    BY <1>1, <1>3 DEF Last
  <2>2. m = [ l EXCEPT ![n].end = v ]
    BY <1>3, Zenon DEF file_block_add_to_file, v
  <2>3. m = [ l EXCEPT ![n] = X ]
    BY <2>2, Zenon
  <2>4. l[n] \in Element
    BY <1>1, <2>1
  <2>5. X \in Element /\ X.start = l[n].start /\ X.data = l[n].data /\ X.end = v
    BY <1>2, <2>4, WithElementEnd, Zenon
  <2> HIDE DEF X
  <2>6. PICK x : x = X
    OBVIOUS
  <2>7. x \in Element /\ x.start = l[n].start /\ x.data = data /\ x.end = v
    BY <1>3, <2>1, <2>5, <2>6, Zenon
  <2>8. m = [ l EXCEPT ![n] = x ]
    BY <2>3, <2>6, Zenon
  <2>9. l[n].end + 1 = a /\ l[n].start < a
    BY <1>1, <1>3, <2>1
  <2>10. m \in Seq(Element) /\ Len(m) = n /\ \A i \in 1 .. n : m[i] = IF i = n THEN x ELSE l[i]
    BY <1>1, <2>1, <2>7, <2>8
  <2>11. ASSUME NEW i \in 1 .. n, i # n PROVE l[i].end < x.start \/ v < l[i].start
    <3>1. l[i].end < l[n].start \/ l[n].end < l[i].start
      BY <1>1, <2>1, <2>11
    <3>2. ASSUME l[n].end < l[i].start PROVE v < l[i].start
      <4>1. InList(l[i].start, l)
        <5>1. In(l[i].start, l[i])
          BY <1>1 DEF In
        <5> QED
          BY <5>1 DEF InList
      <4>2. l[i].start \notin a .. a + bs - 1 /\ l[i].start \in Nat
        BY <1>1, <4>1
      <4>3. a <= l[i].start
        BY <1>1, <2>1, <2>9, <3>2
      <4> QED
        BY <4>2, <4>3 DEF v
    <3> QED
      BY <2>7, <3>1, <3>2
  <2>12. LocationOK(m, bs)
    <3>1. DOMAIN m = 1 .. n
      BY <2>10
    <3>2. \A i \in 1 .. n : m[i].start <= m[i].end
      BY <1>1, <1>2, <2>7, <2>9, <2>10, SMTT(60)
    <3>3. \A i \in 1 .. n : m[i].start % bs = 0 /\ (m[i].end + 1) % bs = 0
      BY <1>1, <1>2, <2>1, <2>7, <2>10, ZenonT(60)
    <3>4. \A i, j \in 1 .. n : i # j => m[i].end < m[j].start \/ m[j].end < m[i].start
      <4> TAKE i, j \in 1 .. n
      <4>1. CASE i # n /\ j # n
        BY <1>1, <2>10, <4>1
      <4>2. CASE i = n /\ j # n
        BY <2>7, <2>10, <2>11, <4>2
      <4>3. CASE i # n /\ j = n
        BY <2>7, <2>10, <2>11, <4>3
      <4> QED
        BY <4>1, <4>2, <4>3
    <3> QED
      BY <2>10, <3>1, <3>2, <3>3, <3>4 DEF LocationOK, Apart, WholeBlocks
  <2>13. \A b \in Int : In(b, x) <=> In(b, l[n]) \/ b \in a .. v
    BY <1>1, <1>2, <2>1, <2>7, <2>9 DEF In
  <2>14. \A b \in Int : InList(b, m) <=> InList(b, l) \/ b \in a .. v
    BY <2>1, <2>10, <2>13 DEF InList
  <2>15. \A b \in Int : (\E i \in 1 .. n : DataHere(b, m[i])) <=>
                          (\E i \in 1 .. n : DataHere(b, l[i])) \/ (data = 1 /\ b \in a .. v)
    <3>1. l[n].data = data
      BY <1>3, <2>1
    <3>2. \A b \in Int : DataHere(b, x) <=> DataHere(b, l[n]) \/ (data = 1 /\ b \in a .. v)
      BY <2>7, <2>13, <3>1 DEF DataHere
    <3> QED
      BY <2>1, <2>10, <3>2
  <2>16. \A b : b \in DataBytes(m) <=> b \in DataBytes(l) \/ (data = 1 /\ b \in a .. v)
    <3>1. \A b : b \in DataBytes(m) <=> b \in Int /\ \E i \in 1 .. n : DataHere(b, m[i])
      BY <2>10, DataBytesIs
    <3>2. \A b : b \in DataBytes(l) <=> b \in Int /\ \E i \in 1 .. n : DataHere(b, l[i])
      BY <1>1, DataBytesIs
    <3>3. \A b : b \in a .. v => b \in Int
      BY <1>2
    <3> QED
      BY <2>15, <3>1, <3>2, <3>3
  <2>17. data = 0 => DataBytes(m) = DataBytes(l)
    BY <2>16
  <2>18. data = 1 => DataBytes(m) = DataBytes(l) \cup (a .. v)
    BY <2>16
  <2> QED
    BY <2>12, <2>14, <2>17, <2>18 DEF v
<1>4. CASE ~ (l # << >> /\ Last(l).end + 1 = a /\ Last(l).data = data)
  <2>1. PICK x : x = [ start |-> a, end |-> v, data |-> data ]
    OBVIOUS
  <2>2. m = Append(l, x)
    BY <1>4, <2>1, Zenon DEF file_block_add_to_file, v
  <2>3. x \in Element /\ x.start = a /\ x.end = v /\ x.data = data
    BY <1>2, <2>1 DEF Element
  <2>4. \A b \in x.start .. x.end : ~ InList(b, l)
    BY <2>3 DEF v
  <2>5. /\ LocationOK(Append(l, x), bs)
        /\ \A b \in Int : InList(b, Append(l, x)) <=> InList(b, l) \/ In(b, x)
        /\ x.data = 0 => DataBytes(Append(l, x)) = DataBytes(l)
        /\ x.data = 1 => DataBytes(Append(l, x)) = DataBytes(l) \cup (x.start .. x.end)
    BY <1>2, <2>3, <2>4, AppendLocation
  <2>6. \A b \in Int : In(b, x) <=> b \in a .. v
    BY <1>2, <2>3 DEF In
  <2> QED
    BY <2>2, <2>3, <2>5, <2>6 DEF v
<1> QED
  BY <1>3, <1>4

-----------------------------------------------------------------------------
(* Lists and ranges *)

\* An ordered list is one of blocks of one byte.
LEMMA OrderedIs ==
    ASSUME NEW l
    PROVE  l \in Ordered <=> ListOK(l, 1)
<1>1. \A a \in Int : a % 1 = 0
  OBVIOUS
<1>2. ASSUME l \in Seq(Extent) PROVE WholeBlocks(l, 1)
  <2>1. \A i \in DOMAIN l : l[i] \in Extent
    BY <1>2
  <2>2. \A i \in DOMAIN l : l[i].start \in Int /\ l[i].end + 1 \in Int
    BY <2>1 DEF Extent
  <2> QED
    BY <1>1, <2>2 DEF WholeBlocks
<1> QED
  BY <1>2 DEF Ordered, ListOK

\* What an ordered list is made of.
LEMMA OrderedFacts ==
    ASSUME NEW l \in Ordered
    PROVE  /\ l \in Seq(Extent) /\ Len(l) \in Nat /\ DOMAIN l = 1 .. Len(l)
           /\ \A i \in 1 .. Len(l) :
                 /\ l[i] \in Extent
                 /\ l[i].start \in Nat /\ l[i].end \in Nat /\ l[i].start <= l[i].end
           /\ \A i, j \in 1 .. Len(l) : i < j => l[i].end < l[j].start
<1>1. ListOK(l, 1)
  BY OrderedIs
<1> QED
  BY <1>1, ListFacts DEF IsBlocks

\* An extent that is not empty is one of blocks of one byte.
LEMMA OneByteBlocks ==
    ASSUME NEW x \in Extent, x.start <= x.end
    PROVE  IsBlocks(x, 1)
<1>1. x.start \in Int /\ x.end + 1 \in Int
  BY DEF Extent
<1>2. \A a \in Int : a % 1 = 0
  OBVIOUS
<1> QED
  BY <1>1, <1>2 DEF IsBlocks

\* r is l without the bytes s to e.
Deleted(l, s, e, r) ==
    /\ r \in Ordered
    /\ \A a \in Int : InList(a, r) <=> InList(a, l) /\ ~ (s <= a /\ a <= e)

\* What no extent touches is not in the list.
LEMMA DelUntouched ==
    ASSUME NEW l \in Ordered, NEW s \in Nat, NEW e \in Int, s <= e,
           \A i \in 1 .. Len(l) : ~ Touches(l[i], s, e)
    PROVE  Deleted(l, s, e, l)
<1>1. ASSUME NEW a \in Int, InList(a, l), s <= a, a <= e PROVE FALSE
  <2>1. PICK i \in 1 .. Len(l) : l[i].start <= a /\ a <= l[i].end
    BY <1>1 DEF InList, In
  <2>2. l[i].start \in Nat /\ l[i].end \in Nat
    BY OrderedFacts
  <2> QED
    BY <1>1, <2>1, <2>2 DEF Touches
<1> QED
  BY <1>1 DEF Deleted

\* An empty range takes nothing out.
LEMMA DelEmpty ==
    ASSUME NEW l \in Ordered, NEW s \in Nat, NEW e \in Int, s > e
    PROVE  Deleted(l, s, e, l)
BY DEF Deleted

\* Extent i gets the bounds of x, inside its own.
LEMMA Shrunk ==
    ASSUME NEW l \in Ordered, NEW i \in 1 .. Len(l), NEW x \in Extent,
           l[i].start <= x.start, x.start <= x.end, x.end <= l[i].end
    PROVE  /\ [l EXCEPT ![i] = x] \in Ordered
           /\ Len([l EXCEPT ![i] = x]) = Len(l)
           /\ \A a \in Int : InList(a, [l EXCEPT ![i] = x]) <=>
                               InList(a, l) /\ ~ (In(a, l[i]) /\ ~ In(a, x))
<1>1. ListOK(l, 1) /\ IsBlocks(x, 1) /\ 1 \in Nat
  BY OrderedIs, OneByteBlocks
<1>2. Fits(l, i - 1, i + 1, x)
  <2>1. /\ \A j \in 1 .. Len(l) : j < i => l[j].end < l[i].start
        /\ \A j \in 1 .. Len(l) : i < j => l[i].end < l[j].start
        /\ \A j \in 1 .. Len(l) : l[j].start \in Nat /\ l[j].end \in Nat
    BY OrderedFacts
  <2>2. x.start \in Nat /\ x.end \in Nat
    BY DEF Extent
  <2>3. \A j \in 1 .. Len(l) : j <= i - 1 => l[j].end < x.start
    BY <2>1, <2>2
  <2>4. \A j \in 1 .. Len(l) : i + 1 <= j => x.end < l[j].start
    BY <2>1, <2>2
  <2> QED
    BY <2>3, <2>4 DEF Fits
<1>3. /\ ListOK([l EXCEPT ![i] = x], 1)
      /\ Len([l EXCEPT ![i] = x]) = Len(l)
      /\ \A a \in Int : InList(a, [l EXCEPT ![i] = x]) <=>
                               (InList(a, l) /\ ~ In(a, l[i])) \/ In(a, x)
  BY <1>1, <1>2, ReplaceOK, ZenonT(60)
<1>4. \A a \in Int : In(a, x) => In(a, l[i])
  BY OrderedFacts DEF In, Extent
<1>5. \A a \in Int : In(a, l[i]) => InList(a, l)
  BY DEF InList
<1> QED
  BY <1>3, <1>4, <1>5, OrderedIs, ZenonT(60)

\* The end of an extent set to v.
LEMMA SetEnd ==
    ASSUME NEW l \in Ordered, NEW i \in 1 .. Len(l), NEW v \in Nat
    PROVE  \E x \in Extent : /\ [l EXCEPT ![i].end = v] = [l EXCEPT ![i] = x]
                             /\ x.start = l[i].start /\ x.end = v
<1> DEFINE X == [ l[i] EXCEPT !.end = v ]
<1>1. l[i] \in Extent
  BY OrderedFacts
<1>2. X \in Extent /\ X.start = l[i].start /\ X.end = v
  BY <1>1, WithEnd, Zenon
<1>3. [l EXCEPT ![i].end = v] = [ l EXCEPT ![i] = X ]
  BY Zenon
<1> HIDE DEF X
<1> QED
  BY <1>2, <1>3, Zenon

\* The front of extent i goes.
LEMMA DelFront ==
    ASSUME NEW l \in Ordered, NEW s \in Nat, NEW e \in Int, s <= e, NEW i \in 1 .. Len(l),
           l[i].start = s, e < l[i].end
    PROVE  Deleted(l, s, e, ReplaceAt(l, i, extent(e + 1, l[i].end)))
<1>1. l[i].start \in Nat /\ l[i].end \in Nat /\ e + 1 \in Nat
  BY OrderedFacts
<1>2. PICK x : x = extent(e + 1, l[i].end)
  OBVIOUS
<1>3. x \in Extent /\ x.start = e + 1 /\ x.end = l[i].end
  BY <1>1, <1>2, NewExtent
<1>4. l[i].start <= x.start /\ x.start <= x.end /\ x.end <= l[i].end
  BY <1>1, <1>3
<1>5. /\ [l EXCEPT ![i] = x] \in Ordered
      /\ \A a \in Int : InList(a, [l EXCEPT ![i] = x]) <=>
                               InList(a, l) /\ ~ (In(a, l[i]) /\ ~ In(a, x))
  BY <1>3, <1>4, Shrunk
<1>6. \A a \in Int : In(a, l[i]) /\ ~ In(a, x) <=> s <= a /\ a <= e
  BY <1>1, <1>3 DEF In
<1>7. ReplaceAt(l, i, extent(e + 1, l[i].end)) = [l EXCEPT ![i] = x]
  BY <1>2 DEF ReplaceAt
<1> QED
  BY <1>5, <1>6, <1>7 DEF Deleted

\* The back of extent i goes.
LEMMA DelBack ==
    ASSUME NEW l \in Ordered, NEW s \in Nat, NEW e \in Int, s <= e, NEW i \in 1 .. Len(l),
           l[i].start < s, l[i].end = e
    PROVE  Deleted(l, s, e, [l EXCEPT ![i].end = s - 1])
<1>1. l[i].start \in Nat /\ l[i].end \in Nat
  BY OrderedFacts
<1>a. s - 1 \in Nat
  BY <1>1
<1>2. PICK x \in Extent : /\ [l EXCEPT ![i].end = s - 1] = [l EXCEPT ![i] = x]
                          /\ x.start = l[i].start /\ x.end = s - 1
  BY <1>a, SetEnd, ZenonT(60)
<1>4. l[i].start <= x.start /\ x.start <= x.end /\ x.end <= l[i].end
  BY <1>1, <1>2
<1>5. /\ [l EXCEPT ![i] = x] \in Ordered
      /\ \A a \in Int : InList(a, [l EXCEPT ![i] = x]) <=>
                               InList(a, l) /\ ~ (In(a, l[i]) /\ ~ In(a, x))
  BY <1>4, Shrunk
<1>6. \A a \in Int : In(a, l[i]) /\ ~ In(a, x) <=> s <= a /\ a <= e
  BY <1>1, <1>2 DEF In
<1> QED
  BY <1>2, <1>5, <1>6, Zenon DEF Deleted

\* Extent i goes.
LEMMA DelWhole ==
    ASSUME NEW l \in Ordered, NEW i \in 1 .. Len(l)
    PROVE  Deleted(l, l[i].start, l[i].end, RemoveAt(l, i))
<1>1. ListOK(l, 1) /\ 1 \in Nat
  BY OrderedIs
<1>2. /\ ListOK(RemoveAt(l, i), 1)
      /\ \A a \in Int : InList(a, RemoveAt(l, i)) <=> InList(a, l) /\ ~ In(a, l[i])
  BY <1>1, RemoveOK
<1> QED
  BY <1>2, OrderedIs DEF Deleted, In

\* A range is taken out in two parts, in either order.
LEMMA DelTwo ==
    ASSUME NEW l, NEW s \in Nat, NEW m \in Int, NEW e \in Int, NEW r, NEW t,
           s <= m + 1, m <= e,
           \/ Deleted(l, s, m, r) /\ Deleted(r, m + 1, e, t)
           \/ Deleted(l, m + 1, e, r) /\ Deleted(r, s, m, t)
    PROVE  Deleted(l, s, e, t)
<1>1. \A a \in Int : s <= a /\ a <= e <=> (s <= a /\ a <= m) \/ (m + 1 <= a /\ a <= e)
  OBVIOUS
<1>2. t \in Ordered
  BY DEF Deleted
<1>3. ASSUME NEW a \in Int
      PROVE  InList(a, t) <=> InList(a, l) /\ ~ (s <= a /\ a <= m) /\ ~ (m + 1 <= a /\ a <= e)
  BY DEF Deleted
<1> QED
  BY <1>1, <1>2, <1>3 DEF Deleted

\* InsertAt of an extent.
LEMMA InsertExtentIs ==
    ASSUME NEW l \in Seq(Extent), NEW i \in 1 .. Len(l) + 1, NEW x \in Extent, NEW w,
           w = InsertAt(l, i, x)
    PROVE  /\ Len(w) = Len(l) + 1
           /\ \A j \in 1 .. Len(l) + 1 : w[j] = IF j < i THEN l[j] ELSE IF j = i THEN x ELSE l[j - 1]
<1>1. /\ Len(InsertAt(l, i, x)) = Len(l) + 1
      /\ \A j \in 1 .. Len(l) + 1 :
           InsertAt(l, i, x)[j] = IF j < i THEN l[j] ELSE IF j = i THEN x ELSE l[j - 1]
  BY InsertAtIs
<1> QED
  BY <1>1, Zenon

\* A list cut in two at s has the same bytes, and an extent that begins at s.
LEMMA SplitIs ==
    ASSUME NEW l \in Ordered, NEW s \in Nat, NEW i \in 1 .. Len(l), l[i].start < s, s <= l[i].end
    PROVE  /\ Split(l, i, s) \in Ordered
           /\ \A a \in Int : InList(a, Split(l, i, s)) <=> InList(a, l)
           /\ \E j \in 1 .. Len(Split(l, i, s)) : Split(l, i, s)[j].start = s
           /\ \A j \in 1 .. Len(l) : l[j].start # s
<1>1. /\ Len(l) \in Nat
      /\ \A j \in 1 .. Len(l) : l[j].start \in Nat /\ l[j].end \in Nat /\ l[j].start <= l[j].end
      /\ \A j, k \in 1 .. Len(l) : j < k => l[j].end < l[k].start
  BY OrderedFacts
<1>a. s - 1 \in Nat
  BY <1>1
<1>2. PICK x \in Extent : /\ [l EXCEPT ![i].end = s - 1] = [l EXCEPT ![i] = x]
                          /\ x.start = l[i].start /\ x.end = s - 1
  BY <1>a, SetEnd, ZenonT(60)
<1>3. PICK m : m = [l EXCEPT ![i] = x]
  OBVIOUS
<1>4. l[i].start <= x.start /\ x.start <= x.end /\ x.end <= l[i].end
  BY <1>1, <1>2
<1>5. /\ m \in Ordered /\ Len(m) = Len(l)
      /\ \A a \in Int : InList(a, m) <=> InList(a, l) /\ ~ (In(a, l[i]) /\ ~ In(a, x))
  BY <1>3, <1>4, Shrunk
<1>6. \A j \in 1 .. Len(l) : m[j] = IF j = i THEN x ELSE l[j]
  <2>1. DOMAIN l = 1 .. Len(l)
    BY OrderedFacts
  <2> QED
    BY <1>3, <2>1
<1>7. PICK y : y = extent(s, l[i].end)
  OBVIOUS
<1>8. y \in Extent /\ y.start = s /\ y.end = l[i].end /\ y.start <= y.end
  BY <1>1, <1>7, NewExtent
<1>9. Split(l, i, s) = InsertAt(m, i + 1, y)
  BY <1>2, <1>3, <1>7 DEF Split
<1>10. i + 1 \in 1 .. Len(m) + 1 /\ (i + 1) - 1 = i
  BY <1>1, <1>5
<1>11. Fits(m, i, i + 1, y)
  <2>1. \A k \in 1 .. Len(m) : k <= i => m[k].end < y.start
    BY <1>1, <1>2, <1>5, <1>6, <1>8
  <2>2. \A k \in 1 .. Len(m) : i + 1 <= k => y.end < m[k].start
    BY <1>1, <1>5, <1>6, <1>8
  <2> QED
    BY <2>1, <2>2 DEF Fits
<1>12. PICK g \in 1 .. Len(m) + 1 : g = i + 1 /\ g - 1 = i
  BY <1>10
<1>13. ListOK(m, 1) /\ IsBlocks(y, 1) /\ 1 \in Nat /\ Fits(m, g - 1, g, y)
  BY <1>5, <1>8, <1>11, <1>12, OrderedIs, OneByteBlocks
<1>14. PICK w : w = InsertAt(m, g, y)
  OBVIOUS
<1>15. /\ ListOK(w, 1)
       /\ \A a \in Int : InList(a, w) <=> InList(a, m) \/ In(a, y)
  BY <1>13, <1>14, InsertOK, ZenonT(60)
<1>16. Len(w) = Len(m) + 1 /\ w[g] = y
  <2>1. m \in Seq(Extent)
    BY <1>5, OrderedFacts
  <2>2. Len(w) = Len(m) + 1 /\ \A j \in 1 .. Len(m) + 1 : j = g => w[j] = y
    BY <1>8, <1>14, <2>1, InsertExtentIs
  <2> QED
    BY <2>2
<1>17. \A a \in Int : InList(a, w) <=> InList(a, l)
  <2>1. \A a \in Int : In(a, l[i]) => InList(a, l)
    BY DEF InList
  <2>2. \A a \in Int : In(a, l[i]) /\ ~ In(a, x) <=> In(a, y)
    BY <1>1, <1>2, <1>8 DEF In
  <2> QED
    BY <1>5, <1>15, <2>1, <2>2
<1>18. ASSUME NEW j \in 1 .. Len(l) PROVE l[j].start # s
  <2>1. j < i => l[j].end < l[i].start
    BY <1>1
  <2>2. i < j => l[i].end < l[j].start
    BY <1>1
  <2> QED
    BY <1>1, <2>1, <2>2
<1>19. w \in Ordered /\ g \in 1 .. Len(w)
  BY <1>15, <1>16, <1>12, OrderedIs
<1> QED
  BY <1>8, <1>9, <1>12, <1>14, <1>16, <1>17, <1>18, <1>19

-----------------------------------------------------------------------------
(* del_search_space: a measure of what is left to do *)

\* The bytes still to be taken out, twice, and one more as long as no extent
\* begins where they do: each turn of the recursion makes it smaller.
Weight(l, s, e) ==
    IF s > e THEN 0
    ELSE 2 * (e - s + 1) + (IF \E j \in 1 .. Len(l) : l[j].start = s THEN 0 ELSE 1)

\* Weights are numbers.
LEMMA WeightType ==
    ASSUME NEW l, NEW s \in Nat, NEW e \in Int
    PROVE  Weight(l, s, e) \in Nat
<1>1. CASE s > e
  BY <1>1 DEF Weight
<1>2. CASE s <= e
  <2>1. PICK b \in { 0, 1 } : b = IF \E j \in 1 .. Len(l) : l[j].start = s THEN 0 ELSE 1
    OBVIOUS
  <2>2. Weight(l, s, e) = 2 * (e - s + 1) + b
    BY <1>2, <2>1 DEF Weight
  <2> QED
    BY <1>2, <2>1, <2>2
<1> QED
  BY <1>1, <1>2

\* A smaller range has less weight, in whatever list.
LEMMA WeightLess ==
    ASSUME NEW l, NEW s \in Nat, NEW e \in Int, NEW m, NEW t \in Nat, NEW u \in Int,
           s <= e, s <= t, u <= e, s < t \/ u < e
    PROVE  Weight(m, t, u) < Weight(l, s, e)
<1>1. PICK b \in { 0, 1 } : b = IF \E j \in 1 .. Len(l) : l[j].start = s THEN 0 ELSE 1
  OBVIOUS
<1>2. Weight(l, s, e) = 2 * (e - s + 1) + b
  BY <1>1 DEF Weight
<1>3. PICK c \in { 0, 1 } : c = IF \E j \in 1 .. Len(m) : m[j].start = t THEN 0 ELSE 1
  OBVIOUS
<1>4. CASE t > u
  <2>1. Weight(m, t, u) = 0
    BY <1>4 DEF Weight
  <2> QED
    BY <1>1, <1>2, <2>1
<1>5. CASE t <= u
  <2>1. Weight(m, t, u) = 2 * (u - t + 1) + c
    BY <1>3, <1>5 DEF Weight
  <2>2. u - t < e - s
    OBVIOUS
  <2> QED
    BY <1>1, <1>2, <1>3, <2>1, <2>2
<1> QED
  BY <1>4, <1>5

\* So has the range once an extent begins with it.
LEMMA WeightSplit ==
    ASSUME NEW l, NEW s \in Nat, NEW e \in Int, NEW m, s <= e,
           \A j \in 1 .. Len(l) : l[j].start # s,
           \E j \in 1 .. Len(m) : m[j].start = s
    PROVE  Weight(m, s, e) < Weight(l, s, e)
<1>1. Weight(l, s, e) = 2 * (e - s + 1) + 1 /\ Weight(m, s, e) = 2 * (e - s + 1) + 0
  BY DEF Weight
<1> QED
  BY <1>1

\* The extent the recursion turns to.
Turned(l, s, e) == SelectLastInSeq(l, LAMBDA y : Touches(y, s, e))

\* It is one the range touches, and 0 if there is none.
LEMMA LastTouched ==
    ASSUME NEW l \in Ordered, NEW s, NEW e
    PROVE  \E i \in 0 .. Len(l) :
              /\ i = Turned(l, s, e)
              /\ i = 0 => \A j \in 1 .. Len(l) : ~ Touches(l[j], s, e)
              /\ i # 0 => Touches(l[i], s, e)
<1> DEFINE I == { j \in 1 .. Len(l) : Touches(l[j], s, e) }
<1>1. Turned(l, s, e) = IF I # {} THEN Max(I) ELSE 0
  BY DEF Turned, SelectLastInSeq
<1>2. Len(l) \in Nat /\ I \in SUBSET (1 .. Len(l))
  BY OrderedFacts
<1>3. CASE I = {}
  <2>1. 0 \in 0 .. Len(l)
    BY <1>2
  <2> QED
    BY <1>1, <1>3, <2>1
<1>4. CASE I # {}
  <2>1. Max(I) \in I
    <3> HIDE DEF I
    <3> QED
      BY <1>2, <1>4, MaxProperty
  <2>2. PICK i \in I : i = Max(I)
    BY <2>1
  <2>3. i \in 0 .. Len(l) /\ i # 0 /\ Touches(l[i], s, e)
    BY <1>2
  <2> HIDE DEF I
  <2> QED
    BY <1>1, <1>4, <2>2, <2>3
<1> QED
  BY <1>3, <1>4

\* One turn of the recursion at extent i, with f for the turns that follow.
DelTurn(f, l, s, e, i) ==
    IF s > e \/ i = 0 THEN l
    ELSE IF l[i].start = s THEN
        IF e < l[i].end THEN ReplaceAt(l, i, extent(e + 1, l[i].end))
        ELSE f[<< RemoveAt(l, i), l[i].end + 1, e >>]
    ELSE IF l[i].end = e THEN
        IF l[i].start < s THEN [l EXCEPT ![i].end = s - 1]
        ELSE f[<< RemoveAt(l, i), s, l[i].start - 1 >>]
    ELSE IF s < l[i].start THEN
        f[<< f[<< l, s, l[i].start - 1 >>], l[i].start, e >>]
    ELSE IF l[i].end < e THEN
        f[<< f[<< l, s, l[i].end >>], l[i].end + 1, e >>]
    ELSE f[<< Split(l, i, s), s, e >>]

\* One call of del, f being what the calls in it answer.
DelStep(f, q) == DelTurn(f, q[1], q[2], q[3], Turned(q[1], q[2], q[3]))

\* f takes the range out of the list wherever that has less weight than w.
DeletesBelow(f, w) ==
    \A l \in Ordered : \A s \in Nat : \A e \in Int :
        Weight(l, s, e) < w => Deleted(l, s, e, f[<< l, s, e >>])

\* If the turns that follow take out what they are asked to, so does this one.
LEMMA TurnDeletes ==
    ASSUME NEW f, NEW l \in Ordered, NEW s \in Nat, NEW e \in Int,
           DeletesBelow(f, Weight(l, s, e)),
           NEW i \in 0 .. Len(l),
           i = 0 => \A j \in 1 .. Len(l) : ~ Touches(l[j], s, e),
           i # 0 => Touches(l[i], s, e)
    PROVE  Deleted(l, s, e, DelTurn(f, l, s, e, i))
<1>r. PICK r : r = DelTurn(f, l, s, e, i)
  OBVIOUS
<1> SUFFICES Deleted(l, s, e, r)
  BY <1>r
<1>1. CASE s > e
  <2>1. r = l
    BY <1>r, <1>1 DEF DelTurn
  <2> QED
    BY <1>1, <2>1, DelEmpty
<1>2. CASE s <= e /\ i = 0
  <2>1. r = l
    BY <1>r, <1>2 DEF DelTurn
  <2> QED
    BY <1>2, <2>1, DelUntouched
<1>3. CASE s <= e /\ i # 0
  <2>1. i \in 1 .. Len(l) /\ ~ (s > e \/ i = 0)
    BY <1>3, OrderedFacts
  <2>2. l[i].start \in Nat /\ l[i].end \in Nat /\ l[i].start <= l[i].end
    BY <2>1, OrderedFacts
  <2>3. Touches(l[i], s, e)
    BY <1>3
  <2>a. PICK a \in Nat : a = l[i].start
    BY <2>2
  <2>b. PICK b \in Nat : b = l[i].end
    BY <2>2
  <2>t. a = s \/ b = e \/ (s < a /\ a <= e) \/ (s <= b /\ b < e) \/ (a < s /\ e < b)
    BY <2>3, <2>a, <2>b DEF Touches
  <2>u. a <= b
    BY <2>2, <2>a, <2>b
  <2>4. CASE a = s /\ e < b
    <3>1. r = ReplaceAt(l, i, extent(e + 1, l[i].end))
      BY <1>r, <2>1, <2>a, <2>b, <2>4 DEF DelTurn
    <3> QED
      BY <1>3, <2>1, <2>a, <2>b, <2>4, <3>1, DelFront
  <2>5. CASE a = s /\ ~ (e < b)
    <3>1. r = f[<< RemoveAt(l, i), b + 1, e >>]
      BY <1>r, <2>1, <2>a, <2>b, <2>5 DEF DelTurn
    <3>2. Deleted(l, s, b, RemoveAt(l, i))
      BY <2>1, <2>a, <2>b, <2>5, DelWhole
    <3>3. s <= b + 1 /\ s < b + 1 /\ b <= e /\ b + 1 \in Nat
      BY <2>2, <2>a, <2>b, <2>5
    <3>4. Weight(RemoveAt(l, i), b + 1, e) < Weight(l, s, e)
      BY <1>3, <3>3, WeightLess
    <3>5. Deleted(RemoveAt(l, i), b + 1, e, r)
      BY <3>1, <3>2, <3>3, <3>4 DEF DeletesBelow, Deleted
    <3> QED
      BY <3>2, <3>3, <3>5, DelTwo
  <2>6. CASE a # s /\ b = e /\ a < s
    <3>1. r = [l EXCEPT ![i].end = s - 1]
      BY <1>r, <2>1, <2>a, <2>b, <2>6, Zenon DEF DelTurn
    <3>2. l[i].start < s /\ l[i].end = e /\ s <= e
      BY <1>3, <2>a, <2>b, <2>6
    <3>3. Deleted(l, s, e, [l EXCEPT ![i].end = s - 1])
      BY <2>1, <3>2, DelBack, Zenon
    <3> QED
      BY <3>1, <3>3, Zenon
  <2>7. CASE a # s /\ b = e /\ ~ (a < s)
    <3>1. r = f[<< RemoveAt(l, i), s, a - 1 >>]
      BY <1>r, <2>1, <2>a, <2>b, <2>7, Zenon DEF DelTurn
    <3>2. Deleted(l, a, e, RemoveAt(l, i))
      BY <2>1, <2>a, <2>b, <2>7, DelWhole
    <3>3. s <= a /\ a - 1 < e /\ a - 1 <= e /\ a - 1 \in Int /\ (a - 1) + 1 = a
      BY <2>2, <2>a, <2>b, <2>7
    <3>4. Weight(RemoveAt(l, i), s, a - 1) < Weight(l, s, e)
      BY <1>3, <3>3, WeightLess
    <3>5. Deleted(RemoveAt(l, i), s, a - 1, r)
      BY <3>1, <3>2, <3>3, <3>4 DEF DeletesBelow, Deleted
    <3>6. PICK m \in Int : m = a - 1
      BY <3>3
    <3>7. PICK y : y = RemoveAt(l, i)
      OBVIOUS
    <3>8. m + 1 = a /\ s <= m + 1 /\ m <= e
      BY <3>3, <3>6
    <3>9. Deleted(l, m + 1, e, y) /\ Deleted(y, s, m, r)
      BY <3>2, <3>5, <3>6, <3>7, <3>8
    <3> QED
      BY <3>8, <3>9, DelTwo
  <2>8. CASE a # s /\ b # e /\ s < a
    <3>1. r = f[<< f[<< l, s, a - 1 >>], a, e >>]
      BY <1>r, <2>1, <2>a, <2>b, <2>8, Zenon DEF DelTurn
    <3>2. s <= a /\ a <= e /\ a - 1 < e /\ a - 1 \in Int /\ (a - 1) + 1 = a /\ a - 1 <= e
      BY <2>t, <2>u, <2>8
    <3>3. PICK m : m = f[<< l, s, a - 1 >>]
      OBVIOUS
    <3>4. Weight(l, s, a - 1) < Weight(l, s, e)
      BY <1>3, <3>2, WeightLess
    <3>5. Deleted(l, s, a - 1, m)
      BY <3>2, <3>3, <3>4 DEF DeletesBelow
    <3>6. Weight(m, a, e) < Weight(l, s, e)
      BY <1>3, <2>8, <3>2, WeightLess
    <3>7. Deleted(m, a, e, r)
      BY <3>1, <3>3, <3>5, <3>6 DEF DeletesBelow, Deleted
    <3>8. Deleted(m, (a - 1) + 1, e, r)
      BY <3>2, <3>7
    <3> QED
      BY <3>2, <3>5, <3>8, DelTwo
  <2>9. CASE a # s /\ b # e /\ ~ (s < a) /\ b < e
    <3>1. r = f[<< f[<< l, s, b >>], b + 1, e >>]
      BY <1>r, <2>1, <2>a, <2>b, <2>9, Zenon DEF DelTurn
    <3>2. s <= b /\ b + 1 \in Nat /\ s < b + 1 /\ b < e /\ s <= b + 1 /\ b <= e
      BY <2>t, <2>u, <2>9
    <3>3. PICK m : m = f[<< l, s, b >>]
      OBVIOUS
    <3>4. Weight(l, s, b) < Weight(l, s, e)
      BY <1>3, <3>2, WeightLess
    <3>5. Deleted(l, s, b, m)
      BY <3>2, <3>3, <3>4 DEF DeletesBelow
    <3>6. Weight(m, b + 1, e) < Weight(l, s, e)
      BY <1>3, <3>2, WeightLess
    <3>7. Deleted(m, b + 1, e, r)
      BY <3>1, <3>2, <3>3, <3>5, <3>6 DEF DeletesBelow, Deleted
    <3> QED
      BY <3>2, <3>5, <3>7, DelTwo
  <2>10. CASE a # s /\ b # e /\ ~ (s < a) /\ ~ (b < e)
    <3>1. r = f[<< Split(l, i, s), s, e >>]
      BY <1>r, <2>1, <2>a, <2>b, <2>10, Zenon DEF DelTurn
    <3>2. a < s /\ s <= b
      BY <1>3, <2>2, <2>a, <2>b, <2>10
    <3>3. /\ Split(l, i, s) \in Ordered
          /\ \A c \in Int : InList(c, Split(l, i, s)) <=> InList(c, l)
          /\ \E j \in 1 .. Len(Split(l, i, s)) : Split(l, i, s)[j].start = s
          /\ \A j \in 1 .. Len(l) : l[j].start # s
      BY <2>1, <2>a, <2>b, <3>2, SplitIs
    <3>4. Weight(Split(l, i, s), s, e) < Weight(l, s, e)
      BY <1>3, <3>3, WeightSplit
    <3>5. Deleted(Split(l, i, s), s, e, r)
      BY <3>1, <3>3, <3>4 DEF DeletesBelow
    <3> QED
      BY <3>3, <3>5 DEF Deleted
  <2> QED
    BY <2>4, <2>5, <2>6, <2>7, <2>8, <2>9, <2>10, Zenon
<1> QED
  BY <1>1, <1>2, <1>3

\* The calls of del_search_space.
DelDomain == Ordered \X Nat \X Int

\* del is the recursion that DelStep is one call of.
LEMMA DelIsStep ==
    del = CHOOSE f : f = [q \in DelDomain |-> DelStep(f, q)]
BY DEF del, DelStep, DelTurn, Turned, DelDomain

\* f and g agree wherever there is less weight than w.
SameBelow(f, g, w) ==
    \A l \in Ordered : \A s \in Nat : \A e \in Int :
        Weight(l, s, e) < w => f[<< l, s, e >>] = g[<< l, s, e >>]

\* A turn asks the turns that follow only for what has less weight.
LEMMA TurnSame ==
    ASSUME NEW f, NEW g, NEW l \in Ordered, NEW s \in Nat, NEW e \in Int,
           DeletesBelow(f, Weight(l, s, e)), SameBelow(f, g, Weight(l, s, e)),
           NEW i \in 0 .. Len(l),
           i # 0 => Touches(l[i], s, e)
    PROVE  DelTurn(f, l, s, e, i) = DelTurn(g, l, s, e, i)
<1>1. CASE s > e \/ i = 0
  BY <1>1 DEF DelTurn
<1>3. CASE s <= e /\ i # 0
  <2>1. i \in 1 .. Len(l) /\ ~ (s > e \/ i = 0)
    BY <1>3, OrderedFacts
  <2>2. l[i].start \in Nat /\ l[i].end \in Nat /\ l[i].start <= l[i].end
    BY <2>1, OrderedFacts
  <2>3. Touches(l[i], s, e)
    BY <1>3
  <2>a. PICK a \in Nat : a = l[i].start
    BY <2>2
  <2>b. PICK b \in Nat : b = l[i].end
    BY <2>2
  <2>t. a = s \/ b = e \/ (s < a /\ a <= e) \/ (s <= b /\ b < e) \/ (a < s /\ e < b)
    BY <2>3, <2>a, <2>b DEF Touches
  <2>u. a <= b
    BY <2>2, <2>a, <2>b
  <2>4. CASE (a = s /\ e < b) \/ (a # s /\ b = e /\ a < s)
    BY <2>1, <2>a, <2>b, <2>4, Zenon DEF DelTurn
  <2>5. CASE a = s /\ ~ (e < b)
    <3>1. /\ DelTurn(f, l, s, e, i) = f[<< RemoveAt(l, i), b + 1, e >>]
          /\ DelTurn(g, l, s, e, i) = g[<< RemoveAt(l, i), b + 1, e >>]
      BY <2>1, <2>a, <2>b, <2>5, Zenon DEF DelTurn
    <3>2. RemoveAt(l, i) \in Ordered
      BY <2>1, DelWhole DEF Deleted
    <3>3. s <= b + 1 /\ s < b + 1 /\ b + 1 \in Nat
      BY <2>2, <2>a, <2>b, <2>5
    <3>4. Weight(RemoveAt(l, i), b + 1, e) < Weight(l, s, e)
      BY <1>3, <3>3, WeightLess
    <3> QED
      BY <3>1, <3>2, <3>3, <3>4 DEF SameBelow
  <2>7. CASE a # s /\ b = e /\ ~ (a < s)
    <3>1. /\ DelTurn(f, l, s, e, i) = f[<< RemoveAt(l, i), s, a - 1 >>]
          /\ DelTurn(g, l, s, e, i) = g[<< RemoveAt(l, i), s, a - 1 >>]
      BY <2>1, <2>a, <2>b, <2>7, Zenon DEF DelTurn
    <3>2. RemoveAt(l, i) \in Ordered
      BY <2>1, DelWhole DEF Deleted
    <3>3. a - 1 < e /\ a - 1 <= e /\ a - 1 \in Int
      BY <2>2, <2>a, <2>b, <2>7
    <3>4. Weight(RemoveAt(l, i), s, a - 1) < Weight(l, s, e)
      BY <1>3, <3>3, WeightLess
    <3> QED
      BY <3>1, <3>2, <3>3, <3>4 DEF SameBelow
  <2>8. CASE a # s /\ b # e /\ s < a
    <3>1. /\ DelTurn(f, l, s, e, i) = f[<< f[<< l, s, a - 1 >>], a, e >>]
          /\ DelTurn(g, l, s, e, i) = g[<< g[<< l, s, a - 1 >>], a, e >>]
      BY <2>1, <2>a, <2>b, <2>8, Zenon DEF DelTurn
    <3>2. s <= a /\ a <= e /\ a - 1 < e /\ a - 1 \in Int /\ a - 1 <= e
      BY <2>t, <2>u, <2>8
    <3>3. PICK m : m = f[<< l, s, a - 1 >>]
      OBVIOUS
    <3>4. Weight(l, s, a - 1) < Weight(l, s, e)
      BY <1>3, <3>2, WeightLess
    <3>5. m \in Ordered /\ m = g[<< l, s, a - 1 >>]
      BY <3>2, <3>3, <3>4 DEF DeletesBelow, SameBelow, Deleted
    <3>6. Weight(m, a, e) < Weight(l, s, e)
      BY <1>3, <2>8, <3>2, WeightLess
    <3>7. f[<< m, a, e >>] = g[<< m, a, e >>]
      BY <3>5, <3>6 DEF SameBelow
    <3> QED
      BY <3>1, <3>3, <3>5, <3>7
  <2>9. CASE a # s /\ b # e /\ ~ (s < a) /\ b < e
    <3>1. /\ DelTurn(f, l, s, e, i) = f[<< f[<< l, s, b >>], b + 1, e >>]
          /\ DelTurn(g, l, s, e, i) = g[<< g[<< l, s, b >>], b + 1, e >>]
      BY <2>1, <2>a, <2>b, <2>9, Zenon DEF DelTurn
    <3>2. s <= b /\ b + 1 \in Nat /\ s < b + 1 /\ b < e /\ s <= b + 1 /\ b <= e
      BY <2>t, <2>u, <2>9
    <3>3. PICK m : m = f[<< l, s, b >>]
      OBVIOUS
    <3>4. Weight(l, s, b) < Weight(l, s, e)
      BY <1>3, <3>2, WeightLess
    <3>5. m \in Ordered /\ m = g[<< l, s, b >>]
      BY <3>2, <3>3, <3>4 DEF DeletesBelow, SameBelow, Deleted
    <3>6. Weight(m, b + 1, e) < Weight(l, s, e)
      BY <1>3, <3>2, WeightLess
    <3>7. f[<< m, b + 1, e >>] = g[<< m, b + 1, e >>]
      BY <3>2, <3>5, <3>6 DEF SameBelow
    <3> QED
      BY <3>1, <3>3, <3>5, <3>7
  <2>10. CASE a # s /\ b # e /\ ~ (s < a) /\ ~ (b < e)
    <3>1. /\ DelTurn(f, l, s, e, i) = f[<< Split(l, i, s), s, e >>]
          /\ DelTurn(g, l, s, e, i) = g[<< Split(l, i, s), s, e >>]
      BY <2>1, <2>a, <2>b, <2>10, Zenon DEF DelTurn
    <3>2. a < s /\ s <= b
      BY <1>3, <2>2, <2>a, <2>b, <2>10
    <3>3. /\ Split(l, i, s) \in Ordered
          /\ \E j \in 1 .. Len(Split(l, i, s)) : Split(l, i, s)[j].start = s
          /\ \A j \in 1 .. Len(l) : l[j].start # s
      BY <2>1, <2>a, <2>b, <3>2, SplitIs
    <3>4. Weight(Split(l, i, s), s, e) < Weight(l, s, e)
      BY <1>3, <3>3, WeightSplit
    <3> QED
      BY <3>1, <3>3, <3>4 DEF SameBelow
  <2> QED
    BY <2>4, <2>5, <2>7, <2>8, <2>9, <2>10, Zenon
<1> QED
  BY <1>1, <1>3

\* g satisfies the recursion wherever there is less weight than w.
SolvesBelow(g, w) ==
    \A l \in Ordered : \A s \in Nat : \A e \in Int :
        Weight(l, s, e) < w => g[<< l, s, e >>] = DelStep(g, << l, s, e >>)

\* A turn of the recursion, from the extent it turns to.
LEMMA StepIsTurn ==
    ASSUME NEW l \in Ordered, NEW s, NEW e
    PROVE  \E i \in 0 .. Len(l) :
              /\ \A f : DelStep(f, << l, s, e >>) = DelTurn(f, l, s, e, i)
              /\ i = 0 => \A j \in 1 .. Len(l) : ~ Touches(l[j], s, e)
              /\ i # 0 => Touches(l[i], s, e)
<1>1. PICK i \in 0 .. Len(l) : /\ i = Turned(l, s, e)
                               /\ i = 0 => \A j \in 1 .. Len(l) : ~ Touches(l[j], s, e)
                               /\ i # 0 => Touches(l[i], s, e)
  BY LastTouched
<1>2. \A f : DelStep(f, << l, s, e >>) = DelTurn(f, l, s, e, i)
  BY <1>1 DEF DelStep
<1> QED
  BY <1>1, <1>2

\* What satisfies the recursion takes out what it is asked to.
LEMMA SolutionDeletes ==
    ASSUME NEW n \in Nat, NEW g, SolvesBelow(g, n)
    PROVE  DeletesBelow(g, n)
<1> DEFINE S == { k \in 0 .. n : DeletesBelow(g, k) }
<1>1. 0 \in S
  <2>1. DeletesBelow(g, 0)
    <3>1. ASSUME NEW l \in Ordered, NEW s \in Nat, NEW e \in Int PROVE ~ (Weight(l, s, e) < 0)
      BY WeightType
    <3> QED
      BY <3>1 DEF DeletesBelow
  <2> QED
    BY <2>1
<1>2. ASSUME NEW k \in 1 .. n, k - 1 \in S PROVE k \in S
  <2>1. ASSUME NEW l \in Ordered, NEW s \in Nat, NEW e \in Int, Weight(l, s, e) < k
        PROVE  Deleted(l, s, e, g[<< l, s, e >>])
    <3>1. Weight(l, s, e) \in Nat
      BY WeightType
    <3>2. DeletesBelow(g, k - 1)
      BY <1>2
    <3>3. CASE Weight(l, s, e) < k - 1
      BY <3>2, <3>3 DEF DeletesBelow
    <3>4. CASE Weight(l, s, e) = k - 1
      <4>1. DeletesBelow(g, Weight(l, s, e))
        BY <3>2, <3>4
      <4>2. PICK i \in 0 .. Len(l) :
                /\ \A f : DelStep(f, << l, s, e >>) = DelTurn(f, l, s, e, i)
                /\ i = 0 => \A j \in 1 .. Len(l) : ~ Touches(l[j], s, e)
                /\ i # 0 => Touches(l[i], s, e)
        BY StepIsTurn
      <4>3. Deleted(l, s, e, DelTurn(g, l, s, e, i))
        BY <4>1, <4>2, TurnDeletes
      <4>4. Weight(l, s, e) < n
        BY <3>1, <2>1
      <4>5. g[<< l, s, e >>] = DelStep(g, << l, s, e >>)
        BY <4>4 DEF SolvesBelow
      <4> QED
        BY <4>2, <4>3, <4>5
    <3> QED
      BY <2>1, <3>1, <3>3, <3>4
  <2>2. DeletesBelow(g, k)
    BY <2>1 DEF DeletesBelow
  <2> QED
    BY <2>2
<1> HIDE DEF S
<1>3. 0 .. n \subseteq S
  BY <1>1, <1>2, SetInduction
<1>4. n \in S
  BY <1>3
<1> QED
  BY <1>4 DEF S

-----------------------------------------------------------------------------
(* del_search_space: its recursion has one solution *)

\* One turn by what satisfies the recursion and by what agrees with it below.
LEMMA StepSame ==
    ASSUME NEW f, NEW g, NEW l \in Ordered, NEW s \in Nat, NEW e \in Int,
           SolvesBelow(f, Weight(l, s, e)), SameBelow(f, g, Weight(l, s, e))
    PROVE  DelStep(f, << l, s, e >>) = DelStep(g, << l, s, e >>)
<1>1. DeletesBelow(f, Weight(l, s, e))
  BY WeightType, SolutionDeletes
<1>2. PICK i \in 0 .. Len(l) :
          /\ \A h : DelStep(h, << l, s, e >>) = DelTurn(h, l, s, e, i)
          /\ i # 0 => Touches(l[i], s, e)
  BY StepIsTurn
<1>3. DelTurn(f, l, s, e, i) = DelTurn(g, l, s, e, i)
  BY <1>1, <1>2, TurnSame
<1> QED
  BY <1>2, <1>3

\* Two that satisfy the recursion agree.
LEMMA SolutionsAgree ==
    ASSUME NEW n \in Nat, NEW f, NEW g, SolvesBelow(f, n), SolvesBelow(g, n)
    PROVE  SameBelow(f, g, n)
<1> DEFINE S == { k \in 0 .. n : SameBelow(f, g, k) }
<1>1. 0 \in S
  <2>1. SameBelow(f, g, 0)
    <3>1. ASSUME NEW l \in Ordered, NEW s \in Nat, NEW e \in Int PROVE ~ (Weight(l, s, e) < 0)
      BY WeightType
    <3> QED
      BY <3>1 DEF SameBelow
  <2> QED
    BY <2>1
<1>2. ASSUME NEW k \in 1 .. n, k - 1 \in S PROVE k \in S
  <2>1. ASSUME NEW l \in Ordered, NEW s \in Nat, NEW e \in Int, Weight(l, s, e) < k
        PROVE  f[<< l, s, e >>] = g[<< l, s, e >>]
    <3>1. Weight(l, s, e) \in Nat
      BY WeightType
    <3>2. SameBelow(f, g, k - 1)
      BY <1>2
    <3>3. Weight(l, s, e) <= k - 1 /\ Weight(l, s, e) < n
      BY <2>1, <3>1
    <3>4. SolvesBelow(f, Weight(l, s, e))
      <4>1. ASSUME NEW m \in Ordered, NEW t \in Nat, NEW u \in Int,
                   Weight(m, t, u) < Weight(l, s, e)
            PROVE  Weight(m, t, u) < n
        BY <3>1, <3>3, <4>1, WeightType
      <4> QED
        BY <4>1 DEF SolvesBelow
    <3>5. SameBelow(f, g, Weight(l, s, e))
      <4>1. ASSUME NEW m \in Ordered, NEW t \in Nat, NEW u \in Int,
                   Weight(m, t, u) < Weight(l, s, e)
            PROVE  Weight(m, t, u) < k - 1
        BY <3>1, <3>3, <4>1, WeightType
      <4> QED
        BY <3>2, <4>1 DEF SameBelow
    <3>6. DelStep(f, << l, s, e >>) = DelStep(g, << l, s, e >>)
      BY <3>4, <3>5, StepSame
    <3> QED
      BY <3>3, <3>6 DEF SolvesBelow
  <2>2. SameBelow(f, g, k)
    BY <2>1 DEF SameBelow
  <2> QED
    BY <2>2
<1> HIDE DEF S
<1>3. 0 .. n \subseteq S
  BY <1>1, <1>2, SetInduction
<1>4. n \in S
  BY <1>3
<1> QED
  BY <1>4 DEF S

\* The recursion can be satisfied as far as one likes.
LEMMA SolutionExists ==
    ASSUME NEW n \in Nat
    PROVE  \E g : SolvesBelow(g, n)
<1> DEFINE S == { k \in 0 .. n : \E g : SolvesBelow(g, k) }
<1>1. 0 \in S
  <2>1. SolvesBelow(<< >>, 0)
    <3>1. ASSUME NEW l \in Ordered, NEW s \in Nat, NEW e \in Int PROVE ~ (Weight(l, s, e) < 0)
      BY WeightType
    <3> QED
      BY <3>1 DEF SolvesBelow
  <2> QED
    BY <2>1
<1>2. ASSUME NEW k \in 1 .. n, k - 1 \in S PROVE k \in S
  <2>1. PICK g : SolvesBelow(g, k - 1)
    BY <1>2
  <2>2. PICK h : h = [ q \in DelDomain |-> DelStep(g, q) ]
    OBVIOUS
  <2>3. \A l \in Ordered, s \in Nat, e \in Int : h[<< l, s, e >>] = DelStep(g, << l, s, e >>)
    BY <2>2 DEF DelDomain
  <2>4. ASSUME NEW l \in Ordered, NEW s \in Nat, NEW e \in Int, Weight(l, s, e) < k
        PROVE  h[<< l, s, e >>] = DelStep(h, << l, s, e >>)
    <3>1. Weight(l, s, e) \in Nat /\ Weight(l, s, e) <= k - 1
      BY <2>4, WeightType
    <3>4. SolvesBelow(g, Weight(l, s, e))
      <4>1. ASSUME NEW m \in Ordered, NEW t \in Nat, NEW u \in Int,
                   Weight(m, t, u) < Weight(l, s, e)
            PROVE  Weight(m, t, u) < k - 1
        BY <3>1, <4>1, WeightType
      <4> QED
        BY <2>1, <4>1 DEF SolvesBelow
    <3>5. SameBelow(g, h, Weight(l, s, e))
      BY <2>3, <3>4 DEF SameBelow, SolvesBelow
    <3>6. DelStep(g, << l, s, e >>) = DelStep(h, << l, s, e >>)
      BY <3>4, <3>5, StepSame
    <3> QED
      BY <2>3, <3>6
  <2>5. SolvesBelow(h, k)
    BY <2>4 DEF SolvesBelow
  <2> QED
    BY <2>5
<1> HIDE DEF S
<1>3. 0 .. n \subseteq S
  BY <1>1, <1>2, SetInduction
<1>4. n \in S
  BY <1>3
<1> QED
  BY <1>4 DEF S

\* One function satisfies it throughout, put together from those.
LEMMA SolutionOfAll ==
    \E f : f = [ q \in DelDomain |-> DelStep(f, q) ]
<1> DEFINE G(w) == CHOOSE g : SolvesBelow(g, w)
           F == [ q \in DelDomain |-> G(Weight(q[1], q[2], q[3]) + 1)[q] ]
<1>1. ASSUME NEW w \in Nat PROVE SolvesBelow(G(w), w)
  BY SolutionExists
<1>2. ASSUME NEW l \in Ordered, NEW s \in Nat, NEW e \in Int
      PROVE  F[<< l, s, e >>] = G(Weight(l, s, e) + 1)[<< l, s, e >>]
  BY DEF DelDomain
<1> HIDE DEF G
<1>3. DOMAIN F = DelDomain /\ F = [ q \in DelDomain |-> F[q] ]
  OBVIOUS
<1> HIDE DEF F
<1>4. ASSUME NEW l \in Ordered, NEW s \in Nat, NEW e \in Int
      PROVE  F[<< l, s, e >>] = DelStep(F, << l, s, e >>)
  <2>1. PICK w \in Nat : w = Weight(l, s, e)
    BY WeightType
  <2>2. PICK g : g = G(w + 1)
    OBVIOUS
  <2>3. SolvesBelow(g, w + 1)
    BY <1>1, <2>2
  <2>4. SolvesBelow(g, w)
    <3>1. ASSUME NEW m \in Ordered, NEW t \in Nat, NEW u \in Int, Weight(m, t, u) < w
          PROVE  Weight(m, t, u) < w + 1
      BY <3>1, WeightType
    <3> QED
      BY <2>3, <3>1 DEF SolvesBelow
  <2>5. SameBelow(g, F, w)
    <3>1. ASSUME NEW m \in Ordered, NEW t \in Nat, NEW u \in Int, Weight(m, t, u) < w
          PROVE  g[<< m, t, u >>] = F[<< m, t, u >>]
      <4>1. PICK v \in Nat : v = Weight(m, t, u)
        BY WeightType
      <4>2. PICK h : h = G(v + 1)
        OBVIOUS
      <4>3. SolvesBelow(h, v + 1) /\ v + 1 \in Nat /\ v < v + 1 /\ v < w
        BY <1>1, <3>1, <4>1, <4>2
      <4>4. SolvesBelow(g, v + 1)
        <5>1. ASSUME NEW o \in Ordered, NEW x \in Nat, NEW y \in Int, Weight(o, x, y) < v + 1
              PROVE  Weight(o, x, y) < w + 1
          BY <4>3, <5>1, WeightType
        <5> QED
          BY <2>3, <5>1 DEF SolvesBelow
      <4>5. SameBelow(g, h, v + 1)
        BY <4>3, <4>4, SolutionsAgree
      <4>6. g[<< m, t, u >>] = h[<< m, t, u >>]
        BY <4>1, <4>3, <4>5 DEF SameBelow
      <4> QED
        BY <1>2, <4>1, <4>2, <4>6
    <3> QED
      BY <3>1 DEF SameBelow
  <2>6. DelStep(g, << l, s, e >>) = DelStep(F, << l, s, e >>)
    BY <2>1, <2>4, <2>5, StepSame
  <2>7. g[<< l, s, e >>] = DelStep(g, << l, s, e >>)
    BY <2>1, <2>3 DEF SolvesBelow
  <2> QED
    BY <1>2, <2>1, <2>2, <2>6, <2>7
<1>5. ASSUME NEW q \in DelDomain PROVE F[q] = DelStep(F, q)
  <2>1. PICK l \in Ordered, s \in Nat, e \in Int : q = << l, s, e >>
    BY DEF DelDomain
  <2> QED
    BY <1>4, <2>1
<1>6. F = [ q \in DelDomain |-> DelStep(F, q) ]
  BY <1>3, <1>5
<1> QED
  BY <1>6

\* del_search_space: exactly the bytes asked for are taken out, in a list of
\* any length, wherever the range begins and ends.
LEMMA DelIs ==
    ASSUME NEW l \in Ordered, NEW s \in Nat, NEW e \in Int
    PROVE  Deleted(l, s, e, del_search_space(l, s, e))
<1>1. del = [ q \in DelDomain |-> DelStep(del, q) ]
  BY DelIsStep, SolutionOfAll, Zenon
<1>2. PICK f : f = del
  OBVIOUS
<1>3. \A m \in Ordered, t \in Nat, u \in Int : f[<< m, t, u >>] = DelStep(f, << m, t, u >>)
  <2>1. f = [ q \in DelDomain |-> DelStep(f, q) ]
    BY <1>1, <1>2, Zenon
  <2> QED
    BY <2>1 DEF DelDomain
<1>4. PICK w \in Nat : w = Weight(l, s, e)
  BY WeightType
<1>5. SolvesBelow(f, w + 1) /\ w + 1 \in Nat /\ w < w + 1
  BY <1>3 DEF SolvesBelow
<1>6. DeletesBelow(f, w + 1)
  BY <1>5, SolutionDeletes
<1>7. Deleted(l, s, e, f[<< l, s, e >>])
  BY <1>4, <1>5, <1>6 DEF DeletesBelow
<1>8. del_search_space(l, s, e) = f[<< l, s, e >>]
  BY <1>2, Zenon DEF del_search_space
<1> QED
  BY <1>7, <1>8, Zenon

-----------------------------------------------------------------------------
(* Addresses on a grid *)

\* a is on the grid of blocks of bs bytes at off.
OnGrid(a, bs, off) == (a - off) % bs = 0

\* Rounding up yields the first address of the grid that is not before a,
LEMMA RoundUpTo ==
    ASSUME NEW bs \in Nat, bs > 0, NEW off \in Int, NEW a \in Int
    PROVE  /\ RoundUp(a, bs, off) \in Int /\ OnGrid(RoundUp(a, bs, off), bs, off)
           /\ a <= RoundUp(a, bs, off) /\ RoundUp(a, bs, off) < a + bs
<1>1. PICK b \in Int : b = a - off + bs - 1
  OBVIOUS
<1>2. PICK k \in Int : k = b \div bs
  BY <1>1, DivMod
<1>3. PICK m \in 0 .. bs - 1 : m = b % bs
  BY <1>1, DivMod
<1>4. b = bs * k + m
  BY <1>1, <1>2, <1>3, DivMod
<1>5. RoundUp(a, bs, off) = k * bs + off
  BY <1>1, <1>2 DEF RoundUp
<1>6. PICK p \in Int : p = k * bs /\ p = bs * k
  BY <1>2
<1>7. p % bs = 0
  BY <1>2, <1>6, AlignedIs
<1>8. RoundUp(a, bs, off) = p + off /\ RoundUp(a, bs, off) - off = p
  BY <1>5, <1>6
<1>9. p + off \in Int /\ a <= p + off /\ p + off < a + bs
  BY <1>1, <1>3, <1>4, <1>6
<1> QED
  BY <1>7, <1>8, <1>9 DEF OnGrid

\* and rounding down the last that is not behind it.
LEMMA RoundDownTo ==
    ASSUME NEW bs \in Nat, bs > 0, NEW off \in Int, NEW a \in Int
    PROVE  /\ RoundDown(a, bs, off) \in Int /\ OnGrid(RoundDown(a, bs, off), bs, off)
           /\ RoundDown(a, bs, off) <= a /\ a < RoundDown(a, bs, off) + bs
<1>1. PICK b \in Int : b = a - off
  OBVIOUS
<1>2. PICK k \in Int : k = b \div bs
  BY <1>1, DivMod
<1>3. PICK m \in 0 .. bs - 1 : m = b % bs
  BY <1>1, DivMod
<1>4. b = bs * k + m
  BY <1>1, <1>2, <1>3, DivMod
<1>5. RoundDown(a, bs, off) = k * bs + off
  BY <1>1, <1>2 DEF RoundDown
<1>6. PICK p \in Int : p = k * bs /\ p = bs * k
  BY <1>2
<1>7. p % bs = 0
  BY <1>2, <1>6, AlignedIs
<1>8. RoundDown(a, bs, off) = p + off /\ RoundDown(a, bs, off) - off = p
  BY <1>5, <1>6
<1>9. p + off \in Int /\ p + off <= a /\ a < p + off + bs
  BY <1>1, <1>3, <1>4, <1>6
<1> QED
  BY <1>7, <1>8, <1>9 DEF OnGrid

\* Where the start of an extent is rounded to.
LEMMA RoundedStart ==
    ASSUME NEW bs \in Nat, bs > 1, NEW off \in Int, NEW s \in Nat,
           NEW u, u = RoundUp(s, bs, off)
    PROVE  u \in Nat /\ OnGrid(u, bs, off) /\ s <= u /\ u < s + bs
<1>0. bs > 0 /\ s \in Int
  OBVIOUS
<1>1. /\ RoundUp(s, bs, off) \in Int /\ OnGrid(RoundUp(s, bs, off), bs, off)
      /\ s <= RoundUp(s, bs, off) /\ RoundUp(s, bs, off) < s + bs
  BY <1>0, RoundUpTo, Zenon
<1>2. u \in Int /\ OnGrid(u, bs, off) /\ s <= u /\ u < s + bs
  BY <1>1, Zenon
<1> QED
  BY <1>2

\* Two addresses of one grid are equal or a block apart.
LEMMA GridGap ==
    ASSUME NEW bs \in Nat, bs > 0, NEW off \in Int, NEW a \in Int, NEW b \in Int,
           OnGrid(a, bs, off), OnGrid(b, bs, off), a < b
    PROVE  a + bs <= b
<1>1. PICK c \in Int : c = a - off
  OBVIOUS
<1>2. PICK d \in Int : d = b - off
  OBVIOUS
<1>3. c + bs <= d
  BY <1>1, <1>2, AlignedGap DEF OnGrid
<1> QED
  BY <1>1, <1>2, <1>3

\* What is on the grid is its own rounding.
LEMMA OnGridStays ==
    ASSUME NEW bs \in Nat, bs > 0, NEW off \in Int, NEW a \in Int, OnGrid(a, bs, off)
    PROVE  RoundUp(a, bs, off) = a /\ RoundDown(a, bs, off) = a
<1>1. PICK u \in Int : u = RoundUp(a, bs, off)
  BY RoundUpTo
<1>2. PICK d \in Int : d = RoundDown(a, bs, off)
  BY RoundDownTo
<1>3. OnGrid(u, bs, off) /\ a <= u /\ u < a + bs
  BY <1>1, RoundUpTo
<1>4. OnGrid(d, bs, off) /\ d <= a /\ a < d + bs
  BY <1>2, RoundDownTo
<1>5. ~ (a < u)
  BY <1>3, GridGap
<1>6. ~ (d < a)
  BY <1>4, GridGap
<1> QED
  BY <1>1, <1>2, <1>3, <1>4, <1>5, <1>6

\* Differences on a grid.
LEMMA GridDifference ==
    ASSUME NEW bs \in Nat, bs > 0, NEW off \in Int, NEW a \in Int, NEW b \in Int,
           OnGrid(a, bs, off), OnGrid(b, bs, off)
    PROVE  (a - b) % bs = 0
<1>1. PICK c \in Int : c = a - off
  OBVIOUS
<1>2. PICK d \in Int : d = b - off
  OBVIOUS
<1>3. PICK k \in Int : c = k * bs
  BY <1>1, AlignedIs DEF OnGrid
<1>4. PICK j \in Int : d = j * bs
  BY <1>2, AlignedIs DEF OnGrid
<1>5. PICK h \in Int : h = k - j
  OBVIOUS
<1>6. a - b = h * bs
  BY <1>1, <1>2, <1>3, <1>4, <1>5
<1> QED
  BY <1>6, AlignedIs

\* A remainder says on which grid an address is.
LEMMA GridOfRemainder ==
    ASSUME NEW bs \in Nat, bs > 0, NEW a \in Int, NEW b \in Int
    PROVE  a % bs = b % bs => OnGrid(a, bs, b % bs)
<1>1. PICK k \in Int, m \in 0 .. bs - 1 : m = a % bs /\ a = bs * k + m
  BY DivMod
<1>2. ASSUME m = b % bs PROVE OnGrid(a, bs, b % bs)
  <2>1. a - m = k * bs
    BY <1>1
  <2>2. a - m \in Int
    BY <1>1
  <2>3. (a - m) % bs = 0
    BY <2>1, <2>2, AlignedIs
  <2> QED
    BY <1>2, <2>3 DEF OnGrid
<1> QED
  BY <1>1, <1>2

-----------------------------------------------------------------------------
(* update_blocksize: the starts *)

\* A sequence of extents that are not empty, in order.
LEMMA OrderedIf ==
    ASSUME NEW l \in Seq(Extent), \A i \in 1 .. Len(l) : l[i].start <= l[i].end,
           \A i, j \in 1 .. Len(l) : i < j => l[i].end < l[j].start
    PROVE  l \in Ordered
<1>1. DOMAIN l = 1 .. Len(l)
  OBVIOUS
<1> QED
  BY <1>1 DEF Ordered, WellFormed

\* From the extent behind k on the starts are on the grid.
StartsAligned(l, k, bs, off) ==
    \A j \in 1 .. Len(l) : k < j => OnGrid(l[j].start, bs, off)

\* The block of the grid at a is in the list.
BlockIn(a, l, bs) == \A b \in a .. a + bs - 1 : InList(b, l)

\* m has no bytes that are not in l, and all the blocks that are.
KeepsBlocks(l, m, bs, off) ==
    /\ \A a \in Int : InList(a, m) => InList(a, l)
    /\ \A a \in Int : OnGrid(a, bs, off) /\ BlockIn(a, l, bs) => BlockIn(a, m, bs)

\* A block that shares a byte with an extent that begins off the grid, with a
\* gap before it, begins where the grid next meets the extent.
LEMMA BlockFrom ==
    ASSUME NEW bs \in Nat, bs > 1, NEW off \in Int, NEW l \in Ordered, NEW i \in 1 .. Len(l),
           NEW u \in Int, u = RoundUp(l[i].start, bs, off),
           ~ (i > 1 /\ l[i - 1].end + 1 = l[i].start),
           NEW a \in Int, OnGrid(a, bs, off), BlockIn(a, l, bs),
           NEW b \in a .. a + bs - 1, In(b, l[i])
    PROVE  u <= a
<1>1. /\ Len(l) \in Nat
      /\ \A j \in 1 .. Len(l) : l[j].start \in Nat /\ l[j].end \in Nat /\ l[j].start <= l[j].end
      /\ \A j, k \in 1 .. Len(l) : j < k => l[j].end < l[k].start
  BY OrderedFacts
<1>2. PICK s \in Nat : s = l[i].start
  BY <1>1
<1>3. s <= a
  <2> SUFFICES ASSUME a < s PROVE FALSE
    BY <1>2
  <2>1. s <= b
    BY <1>2 DEF In
  <2>2. s - 1 \in a .. a + bs - 1 /\ s - 1 \in Int
    BY <1>2, <2>1
  <2>3. PICK j \in 1 .. Len(l) : l[j].start <= s - 1 /\ s - 1 <= l[j].end
    BY <2>2 DEF BlockIn, InList, In
  <2>4. j < i
    <3>1. j # i
      BY <1>2, <2>3
    <3>2. ~ (i < j)
      <4> SUFFICES ASSUME i < j PROVE FALSE
        OBVIOUS
      <4>1. l[i].end < l[j].start /\ s <= l[i].end /\ l[i].end \in Nat /\ l[j].start \in Nat
        BY <1>1, <1>2
      <4> QED
        BY <2>3, <4>1
    <3> QED
      BY <1>1, <3>1, <3>2
  <2>5. l[j].end < l[i].start /\ l[j].end \in Nat
    BY <1>1, <2>4
  <2>t. PICK t \in Nat : t = l[j].end
    BY <2>5
  <2>a. t < s
    BY <1>2, <2>5, <2>t
  <2>6. t + 1 = s
    BY <2>3, <2>a, <2>t, SMTT(60)
  <2>7. i - 1 \in 1 .. Len(l) /\ j <= i - 1 /\ i > 1
    BY <1>1, <2>4
  <2>8. j = i - 1
    <3> SUFFICES ASSUME j < i - 1 PROVE FALSE
      BY <2>7
    <3>a. PICK h \in 1 .. Len(l) : h = i - 1 /\ j < h /\ h < i
      BY <2>7
    <3>1. t < l[h].start /\ l[h].start <= l[h].end /\ l[h].end < l[i].start
      BY <1>1, <2>t, <3>a
    <3>2. l[h].start \in Nat /\ l[h].end \in Nat
      BY <1>1
    <3>3. PICK p \in Nat : p = l[h].start
      BY <3>2
    <3>4. PICK q \in Nat : q = l[h].end
      BY <3>2
    <3>5. p <= q /\ q < s
      BY <1>2, <3>1, <3>3, <3>4
    <3>6. t < p
      BY <3>1, <3>3
    <3> QED
      BY <2>6, <3>5, <3>6
  <2>9. l[i - 1].end + 1 = l[i].start
    BY <1>2, <2>6, <2>8, <2>t
  <2> QED
    BY <2>7, <2>9
<1>a. u = RoundUp(s, bs, off)
  BY <1>2
<1>4. OnGrid(u, bs, off) /\ u < s + bs
  BY <1>a, RoundedStart
<1>5. ~ (a < u)
  <2> SUFFICES ASSUME a < u PROVE FALSE
    OBVIOUS
  <2>1. a + bs <= u
    BY <1>4, GridGap
  <2> QED
    BY <1>2, <1>3, <1>4, <2>1
<1> QED
  BY <1>5

\* The list with another end of extent i,
EndSet(l, i, v) == [l EXCEPT ![i].end = v]

\* which is the list with another extent i,
LEMMA EndSetIs ==
    ASSUME NEW l \in Ordered, NEW i \in 1 .. Len(l), NEW v \in Nat
    PROVE  \E x \in Extent : /\ EndSet(l, i, v) = [l EXCEPT ![i] = x]
                             /\ x.start = l[i].start /\ x.end = v
<1>1. PICK x \in Extent : /\ [l EXCEPT ![i].end = v] = [l EXCEPT ![i] = x]
                          /\ x.start = l[i].start /\ x.end = v
  BY SetEnd, ZenonT(60)
<1> QED
  BY <1>1, Zenon DEF EndSet

\* and with extent i made a part of the one before.
Joined(l, i) == RemoveAt([l EXCEPT ![i - 1].end = l[i].end], i)

\* One extent of a list that begins off the grid right behind the extent before
\* becomes a part of that.
LEMMA JoinOK ==
    ASSUME NEW l \in Ordered, NEW i \in 2 .. Len(l), l[i - 1].end + 1 = l[i].start,
           NEW m, m = Joined(l, i)
    PROVE  /\ m \in Ordered /\ Len(m) = Len(l) - 1
           /\ \A a \in Int : InList(a, m) <=> InList(a, l)
           /\ \A j \in 1 .. Len(m) : j >= i => m[j] = l[j + 1]
<1>1. /\ Len(l) \in Nat /\ l \in Seq(Extent)
      /\ \A j \in 1 .. Len(l) : l[j].start \in Nat /\ l[j].end \in Nat /\ l[j].start <= l[j].end
      /\ \A j, k \in 1 .. Len(l) : j < k => l[j].end < l[k].start
  BY OrderedFacts
<1>2. PICK h \in 1 .. Len(l) : h = i - 1 /\ h < i
  BY <1>1
<1>3. i \in 1 .. Len(l) /\ l[i].end \in Nat
  BY <1>1
<1>v. PICK v \in Nat : v = l[i].end
  BY <1>3
<1>4. PICK x \in Extent : /\ EndSet(l, h, v) = [l EXCEPT ![h] = x]
                          /\ x.start = l[h].start /\ x.end = v
  BY EndSetIs
<1>5. PICK w : w = [l EXCEPT ![h] = x]
  OBVIOUS
<1>6. w \in Seq(Extent) /\ Len(w) = Len(l) /\ \A j \in 1 .. Len(l) : w[j] = IF j = h THEN x ELSE l[j]
  BY <1>1, <1>5
<1>7. m = RemoveAt(w, i)
  BY <1>2, <1>v, <1>4, <1>5, Zenon DEF Joined, EndSet
<1>8. /\ m \in Seq(Extent) /\ Len(m) = Len(w) - 1
      /\ \A j \in 1 .. Len(w) - 1 : m[j] = IF j < i THEN w[j] ELSE w[j + 1]
  <2>1. i \in 1 .. Len(w)
    BY <1>3, <1>6
  <2>2. /\ RemoveAt(w, i) \in Seq(Extent)
        /\ Len(RemoveAt(w, i)) = Len(w) - 1
        /\ \A j \in 1 .. Len(w) - 1 : RemoveAt(w, i)[j] = IF j < i THEN w[j] ELSE w[j + 1]
    BY <1>6, <2>1, RemoveAtIs
  <2> QED
    BY <1>7, <2>2, Zenon
<1>9. PICK n \in Nat : n = Len(l) - 1 /\ n + 1 = Len(l)
  <2>1. Len(l) \in Nat /\ Len(l) >= 2
    BY <1>1
  <2>2. Len(l) - 1 \in Nat
    BY <2>1
  <2> QED
    BY <2>1, <2>2
<1>10. Len(m) = n
  BY <1>6, <1>8, <1>9
<1> DEFINE from(j) == IF j < i THEN j ELSE j + 1
<1>a. \A j \in 1 .. n : from(j) \in 1 .. Len(l) /\ from(j) # i /\ (j # h => from(j) # h)
  BY <1>1, <1>2, <1>9
<1>b. \A j \in 1 .. n : m[j] = w[from(j)]
  BY <1>6, <1>8, <1>9
<1>11. \A j \in 1 .. n : from(j) \in 1 .. Len(l) /\ from(j) # i /\ (j # h => from(j) # h /\ m[j] = l[from(j)])
  <2> HIDE DEF from
  <2> QED
    BY <1>6, <1>a, <1>b
<1>c. h \in 1 .. n /\ from(h) = h
  BY <1>1, <1>2, <1>9
<1>12. h \in 1 .. n /\ m[h] = x
  BY <1>6, <1>b, <1>c
<1>13. \A j, k \in 1 .. n : j < k => from(j) < from(k)
  BY <1>1, <1>9
<1>14. \A j \in 1 .. n : j >= i => m[j] = l[j + 1]
  <2> TAKE j \in 1 .. n
  <2>1. ASSUME j >= i PROVE from(j) = j + 1 /\ j # h
    BY <1>1, <1>2, <1>9, <2>1
  <2> HIDE DEF from
  <2> QED
    BY <1>11, <2>1
<1>15. \A j \in 1 .. Len(l) : j # i => \E k \in 1 .. n : from(k) = j
  <2> TAKE j \in 1 .. Len(l)
  <2>1. CASE j < i
    <3>1. j \in 1 .. n /\ from(j) = j
      BY <1>1, <1>9, <2>1
    <3> QED
      BY <3>1
  <2>2. CASE j > i
    <3>1. j - 1 \in 1 .. n /\ from(j - 1) = j
      BY <1>1, <1>9, <2>2
    <3> QED
      BY <3>1
  <2> QED
    BY <2>1, <2>2
<1>16. from(h) = h /\ \A j \in 1 .. n : h < j => i < from(j)
  BY <1>1, <1>2
<1> HIDE DEF from
<1>17. \A j \in 1 .. n : m[j].start <= m[j].end
  <2> TAKE j \in 1 .. n
  <2>1. CASE j # h
    BY <1>1, <1>11, <2>1
  <2>2. CASE j = h
    BY <1>1, <1>2, <1>3, <1>v, <1>4, <1>12, <2>2
  <2> QED
    BY <2>1, <2>2
<1>18. ASSUME NEW j \in 1 .. n, NEW k \in 1 .. n, j < k PROVE m[j].end < m[k].start
  <2>1. CASE j # h /\ k # h
    BY <1>1, <1>11, <1>13, <1>18, <2>1
  <2>2. CASE j = h
    <3>a. k # h /\ h < k
      BY <1>12, <1>18, <2>2
    <3>1. k # h /\ i < from(k) /\ from(k) \in 1 .. Len(l) /\ m[k] = l[from(k)]
      BY <1>11, <1>16, <3>a
    <3>2. l[i].end < l[from(k)].start
      BY <1>1, <1>3, <3>1
    <3> QED
      BY <1>v, <1>4, <1>12, <2>2, <3>1, <3>2
  <2>3. CASE k = h
    <3>a. j # h /\ j < h
      BY <1>12, <1>18, <2>3
    <3>b. from(j) < from(h)
      BY <1>12, <1>13, <3>a
    <3>1. j # h /\ from(j) < h /\ from(j) \in 1 .. Len(l) /\ m[j] = l[from(j)]
      BY <1>11, <1>16, <3>a, <3>b
    <3>2. l[from(j)].end < l[h].start
      BY <1>1, <3>1
    <3> QED
      BY <1>4, <1>12, <2>3, <3>1, <3>2
  <2> QED
    BY <2>1, <2>2, <2>3
<1>19. m \in Ordered
  BY <1>8, <1>10, <1>17, <1>18, OrderedIf
<1>20. ASSUME NEW a \in Int PROVE InList(a, m) <=> InList(a, l)
  <2>1. In(a, x) <=> In(a, l[h]) \/ In(a, l[i])
    BY <1>1, <1>2, <1>3, <1>v, <1>4 DEF In
  <2>2. ASSUME NEW j \in 1 .. n, In(a, m[j]) PROVE InList(a, l)
    <3>1. CASE j = h
      BY <1>3, <1>12, <2>1, <2>2, <3>1 DEF InList
    <3>2. CASE j # h
      BY <1>11, <2>2, <3>2 DEF InList
    <3> QED
      BY <3>1, <3>2
  <2>3. ASSUME NEW j \in 1 .. Len(l), In(a, l[j]) PROVE InList(a, m)
    <3>1. CASE j = h \/ j = i
      BY <1>10, <1>12, <2>1, <2>3, <3>1 DEF InList
    <3>2. CASE j # h /\ j # i
      <4>1. PICK k \in 1 .. n : from(k) = j
        BY <1>15, <3>2
      <4>2. k # h
        BY <1>16, <3>2, <4>1
      <4> QED
        BY <1>10, <1>11, <2>3, <4>1, <4>2 DEF InList
    <3> QED
      BY <3>1, <3>2
  <2> QED
    BY <1>10, <2>2, <2>3 DEF InList
<1> QED
  BY <1>9, <1>10, <1>14, <1>19, <1>20

\* Nothing changed, nothing lost.
LEMMA KeepsSame ==
    ASSUME NEW l, NEW m, NEW bs, NEW off, \A a \in Int : InList(a, m) <=> InList(a, l),
           bs \in Nat
    PROVE  KeepsBlocks(l, m, bs, off)
<1>1. ASSUME NEW a \in Int, BlockIn(a, l, bs) PROVE BlockIn(a, m, bs)
  <2>1. \A b \in a .. a + bs - 1 : b \in Int
    OBVIOUS
  <2> QED
    BY <1>1, <2>1 DEF BlockIn
<1> QED
  BY <1>1 DEF KeepsBlocks

\* Blocks kept twice are kept.
LEMMA KeepsTwo ==
    ASSUME NEW l, NEW m, NEW r, NEW bs, NEW off,
           KeepsBlocks(l, m, bs, off), KeepsBlocks(m, r, bs, off)
    PROVE  KeepsBlocks(l, r, bs, off)
BY DEF KeepsBlocks

\* What AlignStart makes of extent i, case by case.
LEMMA AlignStartIs ==
    ASSUME NEW l, NEW i, NEW bs, NEW off, NEW s, s = l[i].start, NEW e, e = l[i].end,
           NEW u, u = RoundUp(s, bs, off), NEW m, m = AlignStart(l, i, bs, off)
    PROVE  /\ u = s => m = l
           /\ u # s /\ i > 1 /\ l[i - 1].end + 1 = s => m = Joined(l, i)
           /\ u # s /\ ~ (i > 1 /\ l[i - 1].end + 1 = s) /\ u >= e => m = RemoveAt(l, i)
           /\ u # s /\ ~ (i > 1 /\ l[i - 1].end + 1 = s) /\ ~ (u >= e) =>
                m = ReplaceAt(l, i, extent(u, e))
<1>1. m = IF u = s THEN l
          ELSE IF i > 1 /\ l[i - 1].end + 1 = s THEN Joined(l, i)
          ELSE IF u >= e THEN RemoveAt(l, i)
          ELSE ReplaceAt(l, i, extent(u, e))
  BY Zenon DEF AlignStart, Joined
<1> QED
  BY <1>1, Zenon

\* What is left of a list without bytes no block of the grid has.
LEMMA KeepsWithout ==
    ASSUME NEW bs \in Nat, NEW off, NEW l, NEW m, NEW x, NEW y,
           \A a \in Int : InList(a, m) <=> InList(a, l) /\ ~ (In(a, x) /\ ~ In(a, y)),
           \A a \in Int : OnGrid(a, bs, off) /\ BlockIn(a, l, bs) =>
              \A b \in a .. a + bs - 1 : In(b, x) => In(b, y)
    PROVE  KeepsBlocks(l, m, bs, off)
<1>1. ASSUME NEW a \in Int, OnGrid(a, bs, off), BlockIn(a, l, bs) PROVE BlockIn(a, m, bs)
  <2>1. \A b \in a .. a + bs - 1 : b \in Int
    OBVIOUS
  <2> QED
    BY <1>1, <2>1 DEF BlockIn
<1> QED
  BY <1>1 DEF KeepsBlocks

\* A list without extent i.
LEMMA RemoveExtentIs ==
    ASSUME NEW l \in Seq(Extent), NEW i \in 1 .. Len(l), NEW m, m = RemoveAt(l, i)
    PROVE  /\ m \in Seq(Extent)
           /\ Len(m) = Len(l) - 1
           /\ \A j \in 1 .. Len(l) - 1 : m[j] = IF j < i THEN l[j] ELSE l[j + 1]
<1>1. /\ RemoveAt(l, i) \in Seq(Extent)
      /\ Len(RemoveAt(l, i)) = Len(l) - 1
      /\ \A j \in 1 .. Len(l) - 1 : RemoveAt(l, i)[j] = IF j < i THEN l[j] ELSE l[j + 1]
  BY RemoveAtIs
<1> QED
  BY <1>1, Zenon

\* A list with a part of extent i in its place.
LEMMA ShrunkTo ==
    ASSUME NEW l \in Ordered, NEW i \in 1 .. Len(l), NEW x \in Extent,
           l[i].start <= x.start, x.start <= x.end, x.end <= l[i].end,
           NEW m, m = ReplaceAt(l, i, x)
    PROVE  /\ m \in Ordered /\ Len(m) = Len(l)
           /\ \A j \in 1 .. Len(l) : m[j] = IF j = i THEN x ELSE l[j]
           /\ \A a \in Int : InList(a, m) <=> InList(a, l) /\ ~ (In(a, l[i]) /\ ~ In(a, x))
<1>1. m = [l EXCEPT ![i] = x]
  BY DEF ReplaceAt
<1>2. /\ [l EXCEPT ![i] = x] \in Ordered
      /\ Len([l EXCEPT ![i] = x]) = Len(l)
      /\ \A a \in Int : InList(a, [l EXCEPT ![i] = x]) <=>
                          InList(a, l) /\ ~ (In(a, l[i]) /\ ~ In(a, x))
  BY Shrunk
<1>3. \A j \in 1 .. Len(l) : m[j] = IF j = i THEN x ELSE l[j]
  BY <1>1, OrderedFacts
<1> QED
  BY <1>1, <1>2, <1>3, Zenon

\* The start of extent i is brought onto the grid when those behind are on it:
\* no block of the grid is lost.
LEMMA AlignStartOK ==
    ASSUME NEW bs \in Nat, bs > 1, NEW off \in Int, NEW l \in Ordered, NEW i \in 1 .. Len(l),
           StartsAligned(l, i, bs, off), NEW m, m = AlignStart(l, i, bs, off)
    PROVE  /\ m \in Ordered /\ Len(m) >= i - 1
           /\ StartsAligned(m, i - 1, bs, off)
           /\ KeepsBlocks(l, m, bs, off)
<1>1. /\ Len(l) \in Nat /\ l \in Seq(Extent)
      /\ \A j \in 1 .. Len(l) : l[j].start \in Nat /\ l[j].end \in Nat /\ l[j].start <= l[j].end
      /\ \A j, k \in 1 .. Len(l) : j < k => l[j].end < l[k].start
  BY OrderedFacts
<1>2. PICK u : u = RoundUp(l[i].start, bs, off)
  OBVIOUS
<1>3. PICK s \in Nat : s = l[i].start
  BY <1>1
<1>e. PICK e \in Nat : e = l[i].end
  BY <1>1
<1>4. u \in Nat /\ OnGrid(u, bs, off) /\ s <= u /\ u < s + bs
  BY <1>2, <1>3, RoundedStart
<1>5. /\ u = s => m = l
      /\ u # s /\ i > 1 /\ l[i - 1].end + 1 = s => m = Joined(l, i)
      /\ u # s /\ ~ (i > 1 /\ l[i - 1].end + 1 = s) /\ u >= e => m = RemoveAt(l, i)
      /\ u # s /\ ~ (i > 1 /\ l[i - 1].end + 1 = s) /\ ~ (u >= e) =>
           m = ReplaceAt(l, i, extent(u, e))
  <2>1. u = RoundUp(s, bs, off)
    BY <1>2, <1>3
  <2> QED
    BY <1>3, <1>e, <2>1, AlignStartIs
<1>6. CASE u = s
  <2>1. m = l
    BY <1>5, <1>6
  <2>2. StartsAligned(l, i - 1, bs, off)
    <3>1. ASSUME NEW j \in 1 .. Len(l), i - 1 < j PROVE OnGrid(l[j].start, bs, off)
      <4>1. CASE j = i
        BY <1>3, <1>4, <1>6, <4>1
      <4>2. CASE i < j
        BY <4>2 DEF StartsAligned
      <4> QED
        BY <1>1, <3>1, <4>1, <4>2
    <3> QED
      BY <3>1 DEF StartsAligned
  <2>3. KeepsBlocks(l, l, bs, off)
    BY DEF KeepsBlocks
  <2>4. Len(l) >= i - 1
    BY <1>1
  <2> QED
    BY <2>1, <2>2, <2>3, <2>4
<1>7. CASE u # s /\ i > 1 /\ l[i - 1].end + 1 = s
  <2>1. m = Joined(l, i)
    BY <1>5, <1>7
  <2>2. i \in 2 .. Len(l) /\ l[i - 1].end + 1 = l[i].start
    BY <1>1, <1>3, <1>7
  <2>3. /\ m \in Ordered /\ Len(m) = Len(l) - 1
        /\ \A a \in Int : InList(a, m) <=> InList(a, l)
        /\ \A j \in 1 .. Len(m) : j >= i => m[j] = l[j + 1]
    BY <2>1, <2>2, JoinOK
  <2>4. StartsAligned(m, i - 1, bs, off)
    <3>1. ASSUME NEW j \in 1 .. Len(m), i - 1 < j PROVE OnGrid(m[j].start, bs, off)
      <4>1. j >= i /\ j + 1 \in 1 .. Len(l) /\ i < j + 1
        BY <1>1, <2>3, <3>1
      <4>2. m[j] = l[j + 1]
        BY <2>3, <4>1
      <4> QED
        BY <4>1, <4>2 DEF StartsAligned
    <3> QED
      BY <3>1 DEF StartsAligned
  <2>5. Len(m) >= i - 1
    BY <1>1, <2>3
  <2> QED
    BY <2>3, <2>4, <2>5, KeepsSame
<1>8. CASE u # s /\ ~ (i > 1 /\ l[i - 1].end + 1 = s)
  <2>1. ASSUME NEW a \in Int, OnGrid(a, bs, off), BlockIn(a, l, bs),
               NEW b \in a .. a + bs - 1, In(b, l[i])
        PROVE  u <= a
    BY <1>2, <1>3, <1>4, <1>8, <2>1, BlockFrom
  <2>2. CASE u >= e
    <3>1. m = RemoveAt(l, i)
      BY <1>5, <1>8, <2>2
    <3>2. Deleted(l, l[i].start, l[i].end, m)
      BY <3>1, DelWhole
    <3>3. /\ m \in Seq(Extent)
          /\ Len(m) = Len(l) - 1
          /\ \A j \in 1 .. Len(l) - 1 : m[j] = IF j < i THEN l[j] ELSE l[j + 1]
      BY <1>1, <3>1, RemoveExtentIs, SMTT(60)
    <3>4. StartsAligned(m, i - 1, bs, off)
      <4>1. ASSUME NEW j \in 1 .. Len(m), i - 1 < j PROVE OnGrid(m[j].start, bs, off)
        <5>1. j \in 1 .. Len(l) - 1 /\ ~ (j < i) /\ j + 1 \in 1 .. Len(l) /\ i < j + 1
          BY <1>1, <3>3, <4>1
        <5>2. m[j] = l[j + 1]
          BY <3>3, <5>1
        <5> QED
          BY <5>1, <5>2 DEF StartsAligned
      <4> QED
        BY <4>1 DEF StartsAligned
    <3>5. ASSUME NEW a \in Int, OnGrid(a, bs, off), BlockIn(a, l, bs),
                 NEW b \in a .. a + bs - 1, In(b, l[i])
          PROVE  FALSE
      <4>1. u <= a
        BY <2>1, <3>5
      <4>2. a = e /\ e = u
        BY <1>e, <1>4, <2>2, <3>5, <4>1 DEF In
      <4>3. a + 1 \in a .. a + bs - 1 /\ a + 1 \in Int
        OBVIOUS
      <4>4. PICK j \in 1 .. Len(l) : l[j].start <= a + 1 /\ a + 1 <= l[j].end
        BY <3>5, <4>3 DEF BlockIn, InList, In
      <4>5. i < j
        <5>1. j # i
          <6> SUFFICES ASSUME j = i PROVE FALSE
            OBVIOUS
          <6>1. a + 1 <= e
            BY <1>e, <4>4
          <6> QED
            BY <4>2, <6>1
        <5>2. ~ (j < i)
          <6> SUFFICES ASSUME j < i PROVE FALSE
            OBVIOUS
          <6>1. l[j].end < s /\ s <= e /\ l[j].end \in Nat
            BY <1>1, <1>3, <1>e
          <6> QED
            BY <4>2, <4>4, <6>1
        <5> QED
          BY <1>1, <5>1, <5>2
      <4>6. e < l[j].start /\ l[j].start \in Nat
        BY <1>1, <1>e, <4>5
      <4>7. l[j].start = a + 1
        BY <4>2, <4>4, <4>6
      <4>8. OnGrid(a + 1, bs, off)
        BY <4>5, <4>7 DEF StartsAligned
      <4>9. a + bs <= a + 1
        BY <3>5, <4>3, <4>8, GridGap
      <4> QED
        BY <4>9
    <3>6. KeepsBlocks(l, m, bs, off)
      <4>1. \A a \in Int : InList(a, m) <=> InList(a, l) /\ ~ In(a, l[i])
        BY <3>2 DEF Deleted, In
      <4>2. ASSUME NEW a \in Int, OnGrid(a, bs, off), BlockIn(a, l, bs) PROVE BlockIn(a, m, bs)
        <5>1. \A b \in a .. a + bs - 1 : b \in Int /\ ~ In(b, l[i])
          BY <3>5, <4>2
        <5> QED
          BY <4>1, <4>2, <5>1 DEF BlockIn
      <4> QED
        BY <4>1, <4>2 DEF KeepsBlocks
    <3>7. m \in Ordered /\ Len(m) >= i - 1
      BY <1>1, <3>2, <3>3 DEF Deleted
    <3> QED
      BY <3>4, <3>6, <3>7
  <2>3. CASE u < e
    <3>1. m = ReplaceAt(l, i, extent(u, e))
      BY <1>4, <1>5, <1>8, <2>3
    <3>2. PICK x : x = extent(u, e)
      OBVIOUS
    <3>3. x \in Extent /\ x.start = u /\ x.end = e
      BY <1>4, <3>2, NewExtent
    <3>4. m = ReplaceAt(l, i, x)
      BY <3>1, <3>2
    <3>5. l[i].start <= x.start /\ x.start <= x.end /\ x.end <= l[i].end
      BY <1>3, <1>e, <1>4, <2>3, <3>3
    <3>6. /\ m \in Ordered /\ Len(m) = Len(l)
          /\ \A a \in Int : InList(a, m) <=> InList(a, l) /\ ~ (In(a, l[i]) /\ ~ In(a, x))
        /\ \A j \in 1 .. Len(l) : m[j] = IF j = i THEN x ELSE l[j]
      BY <3>3, <3>4, <3>5, ShrunkTo
    <3>7. StartsAligned(m, i - 1, bs, off)
      <4>1. ASSUME NEW j \in 1 .. Len(m), i - 1 < j PROVE OnGrid(m[j].start, bs, off)
        <5>1. CASE j = i
          BY <1>1, <1>4, <3>3, <3>6, <5>1
        <5>2. CASE i < j
          BY <1>1, <3>6, <5>2 DEF StartsAligned
        <5> QED
          BY <1>1, <3>6, <4>1, <5>1, <5>2
      <4> QED
        BY <4>1 DEF StartsAligned
    <3>8. ASSUME NEW a \in Int, OnGrid(a, bs, off), BlockIn(a, l, bs),
                 NEW b \in a .. a + bs - 1, In(b, l[i])
          PROVE  In(b, x)
      <4>1. u <= a
        BY <2>1, <3>8
      <4> QED
        BY <1>e, <1>4, <3>3, <3>8, <4>1 DEF In
    <3>9. KeepsBlocks(l, m, bs, off)
      BY <3>6, <3>8, KeepsWithout
    <3>10. Len(m) >= i - 1
      BY <1>1, <3>6
    <3> QED
      BY <3>6, <3>7, <3>9, <3>10
  <2> QED
    BY <1>4, <2>2, <2>3
<1> QED
  BY <1>6, <1>7, <1>8

\* Bringing a start onto the grid yields a list, at most one extent shorter.
LEMMA AlignStartType ==
    ASSUME NEW bs \in Nat, bs > 1, NEW off \in Int, NEW l \in Ordered, NEW i \in 1 .. Len(l),
           NEW m, m = AlignStart(l, i, bs, off)
    PROVE  m \in Ordered /\ Len(m) \in Nat /\ Len(m) >= Len(l) - 1
<1>1. /\ Len(l) \in Nat /\ l \in Seq(Extent)
      /\ \A j \in 1 .. Len(l) : l[j].start \in Nat /\ l[j].end \in Nat /\ l[j].start <= l[j].end
  BY OrderedFacts
<1>2. PICK s \in Nat : s = l[i].start
  BY <1>1
<1>3. PICK e \in Nat : e = l[i].end
  BY <1>1
<1>4. PICK u : u = RoundUp(s, bs, off)
  OBVIOUS
<1>5. u \in Nat /\ s <= u
  BY <1>4, RoundedStart
<1>6. /\ u = s => m = l
      /\ u # s /\ i > 1 /\ l[i - 1].end + 1 = s => m = Joined(l, i)
      /\ u # s /\ ~ (i > 1 /\ l[i - 1].end + 1 = s) /\ u >= e => m = RemoveAt(l, i)
      /\ u # s /\ ~ (i > 1 /\ l[i - 1].end + 1 = s) /\ ~ (u >= e) =>
           m = ReplaceAt(l, i, extent(u, e))
  BY <1>2, <1>3, <1>4, AlignStartIs
<1>7. CASE u = s
  BY <1>1, <1>6, <1>7
<1>8. CASE u # s /\ i > 1 /\ l[i - 1].end + 1 = s
  <2>1. i \in 2 .. Len(l) /\ l[i - 1].end + 1 = l[i].start /\ m = Joined(l, i)
    BY <1>1, <1>2, <1>6, <1>8
  <2>2. m \in Ordered /\ Len(m) = Len(l) - 1
    BY <2>1, JoinOK
  <2> QED
    BY <1>1, <2>2
<1>9. CASE u # s /\ ~ (i > 1 /\ l[i - 1].end + 1 = s)
  <2>1. CASE u >= e
    <3>1. m = RemoveAt(l, i)
      BY <1>6, <1>9, <2>1
    <3>2. Deleted(l, l[i].start, l[i].end, m)
      BY <3>1, DelWhole
    <3>3. Len(m) = Len(l) - 1
      BY <1>1, <3>1, RemoveExtentIs
    <3> QED
      BY <1>1, <3>2, <3>3 DEF Deleted
  <2>2. CASE ~ (u >= e)
    <3>1. PICK x : x = extent(u, e)
      OBVIOUS
    <3>2. x \in Extent /\ x.start = u /\ x.end = e
      BY <1>5, <3>1, NewExtent
    <3>3. m = ReplaceAt(l, i, x)
      BY <1>6, <1>9, <2>2, <3>1
    <3>4. l[i].start <= x.start /\ x.start <= x.end /\ x.end <= l[i].end
      BY <1>2, <1>3, <1>5, <2>2, <3>2
    <3>5. m \in Ordered /\ Len(m) = Len(l)
      BY <3>2, <3>3, <3>4, ShrunkTo
    <3> QED
      BY <1>1, <3>5
  <2> QED
    BY <2>1, <2>2
<1> QED
  BY <1>7, <1>8, <1>9

\* The second fold of update_blocksize, step by step from the last extent to
\* the first.
AlignStarts(l, n, bs, off) ==
    FoldLeft(LAMBDA m, i : AlignStart(m, i, bs, off), l, Reverse([i \in 1 .. n |-> i]))

\* v goes from l to the aligned list, one start at a time.
AlignSteps(v, l, n, bs, off) ==
    /\ v[0] = l /\ v[n] = AlignStarts(l, n, bs, off)
    /\ \A k \in 1 .. n : v[k] = AlignStart(v[k - 1], n - k + 1, bs, off)

\* The fold is the last of a chain of lists, one for each extent.
LEMMA AlignStartsSteps ==
    ASSUME NEW bs \in Nat, bs > 1, NEW off \in Int, NEW l \in Ordered, NEW n \in Nat, n = Len(l)
    PROVE  \E v : AlignSteps(v, l, n, bs, off)
<1> DEFINE locs == Reverse([i \in 1 .. n |-> i])
<1>a. DOMAIN locs = 1 .. n /\ \A k \in 1 .. n : locs[k] = n - k + 1
  BY DEF Reverse
<1> DEFINE X == Ordered
           Step(p, m) == IF n - p + 1 \in 1 .. Len(m) THEN AlignStart(m, n - p + 1, bs, off) ELSE m
           F == [ p \in (1 .. n) \X X |-> Step(p[1], p[2]) ]
           Eq(g) == g = [ s \in SUBSET (DOMAIN locs) |->
                           IF s = {} THEN l
                           ELSE AlignStart(g[s \ { Max(s) }], locs[Max(s)], bs, off) ]
           c == CHOOSE g : Eq(g)
<1>1. AlignStarts(l, n, bs, off) = c[DOMAIN locs]
  BY DEF AlignStarts, FoldLeft, MapThenFoldSet
<1> HIDE DEF locs
<1>b. ASSUME NEW p \in 1 .. n, NEW m \in X
      PROVE  Step(p, m) \in X /\ Len(m) \in Nat /\ Len(Step(p, m)) \in Nat /\ Len(Step(p, m)) >= Len(m) - 1
  <2>1. Len(m) \in Nat
    BY OrderedFacts
  <2>2. CASE n - p + 1 \in 1 .. Len(m)
    <3>1. PICK i \in 1 .. Len(m) : i = n - p + 1
      BY <2>2
    <3>2. PICK w : w = AlignStart(m, i, bs, off)
      OBVIOUS
    <3>3. w \in Ordered /\ Len(w) \in Nat /\ Len(w) >= Len(m) - 1
      BY <3>2, AlignStartType
    <3> QED
      BY <2>1, <2>2, <3>1, <3>2, <3>3
  <2>3. CASE ~ (n - p + 1 \in 1 .. Len(m))
    BY <2>1, <2>3
  <2> QED
    BY <2>2, <2>3
<1>2. \A i \in 1 .. n : \A m \in X : F[<< i, m >>] = Step(i, m)
  OBVIOUS
<1> HIDE DEF Step
<1>3. F \in [(1 .. n) \X X -> X]
  BY <1>b
<1> HIDE DEF F
<1>4. PICK g \in [SUBSET (1 .. n) -> X] : FoldEquation(g, n, l, F)
  BY <1>3, FoldExists
<1>5. ASSUME NEW s \in SUBSET (1 .. n)
      PROVE  /\ s = {} => g[s] = l
             /\ s # {} => Max(s) \in s /\ g[s] = Step(Max(s), g[s \ { Max(s) }])
  <2>1. g[s] = IF s = {} THEN l ELSE F[<< Max(s), g[s \ { Max(s) }] >>]
    BY <1>4 DEF FoldEquation
  <2>2. CASE s # {}
    <3>1. Max(s) \in s
      BY <2>2, MaxProperty
    <3>2. g[s \ { Max(s) }] \in X
      BY <1>4
    <3> QED
      BY <1>2, <2>1, <2>2, <3>1, <3>2
  <2> QED
    BY <2>1, <2>2
<1> DEFINE T == { k \in 0 .. n : \A s \in SUBSET (1 .. k) : Len(g[s]) >= n - k }
<1>6. 0 \in T
  <2>1. \A s \in SUBSET (1 .. 0) : s = {} /\ {} \in SUBSET (1 .. n)
    OBVIOUS
  <2>2. \A s \in SUBSET (1 .. 0) : Len(g[s]) >= n
    <3> TAKE s \in SUBSET (1 .. 0)
    <3>1. s = {} /\ s \in SUBSET (1 .. n)
      BY <2>1
    <3>2. g[s] = l
      BY <1>5, <3>1
    <3> QED
      BY <3>2
  <2> QED
    BY <2>2
<1>7. ASSUME NEW k \in 1 .. n, k - 1 \in T PROVE k \in T
  <2>1. ASSUME NEW s \in SUBSET (1 .. k) PROVE Len(g[s]) >= n - k
    <3>a. s \in SUBSET (1 .. n)
      OBVIOUS
    <3>1. CASE s = {}
      <4>1. g[s] = l
        BY <1>5, <3>a, <3>1
      <4> QED
        BY <4>1
    <3>2. CASE s # {}
      <4>1. PICK p \in 1 .. n : p = Max(s) /\ p \in s /\ p <= k /\ \A j \in s : j <= p
        <5>1. Max(s) \in s /\ \A j \in s : j <= Max(s)
          BY <3>a, <3>2, MaxProperty
        <5>2. \A j \in s : j \in 1 .. n /\ j <= k
          OBVIOUS
        <5> QED
          BY <5>1, <5>2
      <4>2. s \ { p } \in SUBSET (1 .. k - 1) /\ s \ { p } \in SUBSET (1 .. n)
        <5>1. ASSUME NEW j \in s \ { p } PROVE j \in 1 .. k - 1 /\ j \in 1 .. n
          <6>1. j \in 1 .. k /\ j # p /\ j <= p
            BY <4>1
          <6> QED
            BY <4>1, <6>1
        <5> QED
          BY <5>1
      <4>3. PICK m \in X : m = g[s \ { p }]
        BY <1>4, <4>2
      <4>4. Len(m) >= n - (k - 1)
        BY <1>7, <4>2, <4>3
      <4>5. g[s] = Step(p, m)
        BY <1>5, <3>a, <3>2, <4>1, <4>3
      <4>6. Len(m) \in Nat /\ Len(Step(p, m)) \in Nat /\ Len(Step(p, m)) >= Len(m) - 1
        BY <1>b
      <4> QED
        BY <4>4, <4>5, <4>6
    <3> QED
      BY <3>1, <3>2
  <2> QED
    BY <2>1
<1>8. 0 .. n \subseteq T
  <2> HIDE DEF T
  <2> QED
    BY <1>6, <1>7, SetInduction
<1>9. ASSUME NEW s \in SUBSET (1 .. n), s # {}
      PROVE  g[s] = AlignStart(g[s \ { Max(s) }], locs[Max(s)], bs, off)
  <2>1. PICK p \in 1 .. n : p = Max(s) /\ p \in s /\ \A j \in s : j <= p
    BY <1>9, MaxProperty
  <2>2. p - 1 \in 0 .. n /\ s \ { p } \in SUBSET (1 .. p - 1) /\ s \ { p } \in SUBSET (1 .. n)
    <3>1. ASSUME NEW j \in s \ { p } PROVE j \in 1 .. p - 1 /\ j \in 1 .. n
      <4>1. j \in 1 .. n /\ j # p /\ j <= p
        BY <2>1
      <4> QED
        BY <4>1
    <3> QED
      BY <3>1
  <2>3. PICK m \in X : m = g[s \ { p }]
    BY <1>4, <2>2
  <2>4. Len(m) >= n - (p - 1)
    BY <1>8, <2>2, <2>3
  <2>5. n - p + 1 \in 1 .. Len(m)
    BY <1>b, <2>4
  <2>6. g[s] = Step(p, m)
    BY <1>5, <1>9, <2>1, <2>3
  <2> QED
    BY <1>a, <2>1, <2>3, <2>5, <2>6 DEF Step
<1>10. Eq(g)
  <2>1. g = [s \in SUBSET (1 .. n) |-> g[s]]
    OBVIOUS
  <2>2. \A s \in SUBSET (1 .. n) :
          g[s] = IF s = {} THEN l ELSE AlignStart(g[s \ { Max(s) }], locs[Max(s)], bs, off)
    BY <1>5, <1>9
  <2> QED
    BY <1>a, <2>1, <2>2
<1>11. Eq(c)
  BY <1>10
<1> HIDE DEF c
<1> DEFINE v == [ k \in 0 .. n |-> c[1 .. k] ]
<1>12. v[0] = l
  <2>1. 1 .. 0 = {} /\ {} \in SUBSET (DOMAIN locs) /\ 0 \in 0 .. n
    OBVIOUS
  <2> QED
    BY <1>11, <2>1
<1>13. ASSUME NEW k \in 1 .. n
       PROVE  v[k] = AlignStart(v[k - 1], n - k + 1, bs, off)
  <2>1. Max(1 .. k) = k /\ 1 .. k # {} /\ (1 .. k) \ { k } = 1 .. (k - 1)
    BY UpTo
  <2>2. 1 .. k \in SUBSET (DOMAIN locs)
    BY <1>a
  <2>3. k - 1 \in 0 .. n /\ k \in 0 .. n
    OBVIOUS
  <2> QED
    BY <1>a, <1>11, <2>1, <2>2, <2>3
<1>14. v[n] = AlignStarts(l, n, bs, off)
  BY <1>1, <1>a
<1> HIDE DEF v
<1> WITNESS v
<1> QED
  BY <1>12, <1>13, <1>14 DEF AlignSteps

-----------------------------------------------------------------------------
(* update_blocksize: the ends *)

\* All the starts are brought onto the grid, and no block of the grid is lost.
LEMMA AlignStartsOK ==
    ASSUME NEW bs \in Nat, bs > 1, NEW off \in Int, NEW l \in Ordered, NEW n \in Nat, n = Len(l),
           NEW m, m = AlignStarts(l, n, bs, off)
    PROVE  m \in Ordered /\ StartsAligned(m, 0, bs, off) /\ KeepsBlocks(l, m, bs, off)
<1>a. \E v : AlignSteps(v, l, n, bs, off)
  BY AlignStartsSteps
<1>1. PICK v : /\ v[0] = l /\ v[n] = m
               /\ \A k \in 1 .. n : v[k] = AlignStart(v[k - 1], n - k + 1, bs, off)
  BY <1>a, Zenon DEF AlignSteps
<1> DEFINE T == { k \in 0 .. n : /\ v[k] \in Ordered /\ Len(v[k]) >= n - k
                                 /\ StartsAligned(v[k], n - k, bs, off)
                                 /\ KeepsBlocks(l, v[k], bs, off) }
<1>2. 0 \in T
  <2>1. StartsAligned(l, n, bs, off)
    BY DEF StartsAligned
  <2>2. KeepsBlocks(l, l, bs, off)
    BY DEF KeepsBlocks
  <2>3. n - 0 = n /\ 0 \in 0 .. n
    OBVIOUS
  <2> QED
    BY <1>1, <2>1, <2>2, <2>3
<1>3. ASSUME NEW k \in 1 .. n, k - 1 \in T PROVE k \in T
  <2>1. PICK w \in Ordered : w = v[k - 1]
    BY <1>3
  <2>2. PICK i \in Nat : i = n - k + 1 /\ i = n - (k - 1) /\ i - 1 = n - k
    OBVIOUS
  <2>3. Len(w) >= i /\ StartsAligned(w, i, bs, off) /\ KeepsBlocks(l, w, bs, off)
    BY <1>3, <2>1, <2>2
  <2>4. i \in 1 .. Len(w)
    <3>1. Len(w) \in Nat /\ i >= 1
      BY <2>2, OrderedFacts
    <3> QED
      BY <2>3, <3>1
  <2>5. PICK r : r = AlignStart(w, i, bs, off)
    OBVIOUS
  <2>6. /\ r \in Ordered /\ Len(r) >= i - 1
        /\ StartsAligned(r, i - 1, bs, off) /\ KeepsBlocks(w, r, bs, off)
    BY <2>3, <2>4, <2>5, AlignStartOK
  <2>7. KeepsBlocks(l, r, bs, off)
    BY <2>3, <2>6, KeepsTwo
  <2>8. v[k] = r /\ k \in 0 .. n
    BY <1>1, <2>1, <2>2, <2>5
  <2> QED
    BY <2>2, <2>6, <2>7, <2>8
<1>4. 0 .. n \subseteq T
  <2> HIDE DEF T
  <2> QED
    BY <1>2, <1>3, SetInduction
<1>5. n \in T /\ n - n = 0
  BY <1>4
<1> QED
  BY <1>1, <1>5

\* An extent with its end brought onto the grid.
LEMMA AlignEndIs ==
    ASSUME NEW bs \in Nat, bs > 1, NEW off \in Int, NEW x \in Extent, NEW y, y = AlignEnd(x, bs, off)
    PROVE  /\ y.start = x.start /\ y.end \in Int /\ OnGrid(y.end + 1, bs, off)
           /\ y.end <= x.end /\ x.end < y.end + bs
           /\ y.start < y.end => y \in Extent
<1>1. x.start \in Nat /\ x.end \in Nat /\ x.file_stat \in BOOLEAN /\ bs > 0
  BY DEF Extent
<1>2. PICK a \in Nat : a = x.end + 1
  BY <1>1
<1>3. /\ RoundDown(a, bs, off) \in Int /\ OnGrid(RoundDown(a, bs, off), bs, off)
      /\ RoundDown(a, bs, off) <= a /\ a < RoundDown(a, bs, off) + bs
  <2>1. a \in Int
    OBVIOUS
  <2> QED
    BY <1>1, <2>1, RoundDownTo, Zenon
<1>4. PICK d \in Int : d = RoundDown(a, bs, off)
  BY <1>3
<1>5. OnGrid(d, bs, off) /\ d <= a /\ a < d + bs
  BY <1>3, <1>4
<1>6. PICK e \in Int : e = d - 1 /\ d = e + 1
  BY <1>4
<1>7. y = [x EXCEPT !.end = e]
  <2>1. y = [x EXCEPT !.end = d - 1]
    BY <1>2, <1>4, Zenon DEF AlignEnd
  <2> QED
    BY <1>6, <2>1, Zenon
<1>8. y.start = x.start /\ y.end = e /\ (e \in Nat => y \in Extent)
  BY <1>7 DEF Extent
<1>9. y.start < y.end => e \in Nat
  BY <1>1, <1>8
<1> QED
  BY <1>1, <1>2, <1>5, <1>6, <1>8, <1>9

\* The last fold of update_blocksize, step by step.
AlignEnds(l, bs, off) == FoldLeft(LAMBDA m, x : KeepAligned(m, x, bs, off), << >>, l)

\* KeepAligned yields a list of extents.
LEMMA KeepAlignedType ==
    ASSUME NEW bs \in Nat, bs > 1, NEW off \in Int, NEW x \in Extent, NEW m \in Seq(Extent)
    PROVE  KeepAligned(m, x, bs, off) \in Seq(Extent)
<1>1. PICK y : y = AlignEnd(x, bs, off)
  OBVIOUS
<1>2. y.start < y.end => y \in Extent
  BY <1>1, AlignEndIs
<1>3. KeepAligned(m, x, bs, off) = IF y.start < y.end THEN Append(m, y) ELSE m
  BY <1>1 DEF KeepAligned
<1>4. y.start < y.end => Append(m, y) \in Seq(Extent)
  BY <1>2
<1> QED
  BY <1>3, <1>4

\* The fold is the last of a chain of lists, one for each extent.
LEMMA AlignEndsSteps ==
    ASSUME NEW bs \in Nat, bs > 1, NEW off \in Int, NEW l \in Seq(Extent)
    PROVE  \E v : /\ v[0] = << >> /\ v[Len(l)] = AlignEnds(l, bs, off)
                  /\ \A k \in 1 .. Len(l) : v[k] = KeepAligned(v[k - 1], l[k], bs, off)
<1> DEFINE n == Len(l)
<1>a. n \in Nat /\ DOMAIN l = 1 .. n
  OBVIOUS
<1>b. \A i \in 1 .. n : l[i] \in Extent
  OBVIOUS
<1> HIDE DEF n
<1> DEFINE X == Seq(Extent)
           F == [ p \in (1 .. n) \X X |-> KeepAligned(p[2], l[p[1]], bs, off) ]
           Eq(g) == g = [ s \in SUBSET (DOMAIN l) |->
                           IF s = {} THEN << >>
                           ELSE KeepAligned(g[s \ { Max(s) }], l[Max(s)], bs, off) ]
           c == CHOOSE g : Eq(g)
<1>1. AlignEnds(l, bs, off) = c[DOMAIN l]
  BY DEF AlignEnds, FoldLeft, MapThenFoldSet
<1>0. << >> \in X
  OBVIOUS
<1>2. \A i \in 1 .. n : \A m \in X : F[<< i, m >>] = KeepAligned(m, l[i], bs, off)
  OBVIOUS
<1>3. F \in [(1 .. n) \X X -> X]
  BY <1>b, KeepAlignedType
<1> HIDE DEF F, X
<1>4. PICK g \in [SUBSET (1 .. n) -> X] : FoldEquation(g, n, << >>, F)
  BY <1>3, <1>0, <1>a, FoldExists
<1>5. ASSUME NEW s \in SUBSET (1 .. n)
      PROVE  g[s] = IF s = {} THEN << >>
                    ELSE KeepAligned(g[s \ { Max(s) }], l[Max(s)], bs, off)
  <2>1. g[s] = IF s = {} THEN << >> ELSE F[<< Max(s), g[s \ { Max(s) }] >>]
    BY <1>4 DEF FoldEquation
  <2>2. CASE s # {}
    <3>1. Max(s) \in s
      BY <1>a, <2>2, MaxProperty
    <3>2. g[s \ { Max(s) }] \in X
      BY <1>4
    <3> QED
      BY <1>2, <2>1, <2>2, <3>1, <3>2
  <2> QED
    BY <2>1, <2>2
<1>6. Eq(g)
  BY <1>4, <1>5, <1>a
<1>7. Eq(c)
  BY <1>6
<1> HIDE DEF c
<1> DEFINE v == [ k \in 0 .. n |-> c[1 .. k] ]
<1>8. v[0] = << >>
  <2>1. 1 .. 0 = {} /\ {} \in SUBSET (DOMAIN l) /\ 0 \in 0 .. n
    BY <1>a
  <2> QED
    BY <1>7, <2>1
<1>9. ASSUME NEW k \in 1 .. n
      PROVE  v[k] = KeepAligned(v[k - 1], l[k], bs, off)
  <2>1. Max(1 .. k) = k /\ 1 .. k # {} /\ (1 .. k) \ { k } = 1 .. (k - 1)
    <3>1. k \in Nat /\ k >= 1
      BY <1>a
    <3> QED
      BY <3>1, UpTo
  <2>2. 1 .. k \in SUBSET (DOMAIN l)
    BY <1>a
  <2>3. k - 1 \in 0 .. n /\ k \in 0 .. n
    BY <1>a
  <2> QED
    BY <1>7, <2>1, <2>2, <2>3
<1>10. v[n] = AlignEnds(l, bs, off)
  BY <1>1, <1>a
<1> HIDE DEF v
<1> WITNESS v
<1> QED
  BY <1>8, <1>9, <1>10 DEF n

\* Both bounds of every extent are on the grid.
Aligned(l, bs, off) ==
    \A j \in 1 .. Len(l) : OnGrid(l[j].start, bs, off) /\ OnGrid(l[j].end + 1, bs, off)

\* What m has of the first k extents of l: whole blocks, and each of theirs.
KeptUpTo(m, l, k, bs, off) ==
    /\ m \in Ordered
    /\ Aligned(m, bs, off)
    /\ \A a \in Int : InList(a, m) => \E i \in 1 .. k : In(a, l[i])
    /\ \A a \in Int : \A i \in 1 .. k :
          OnGrid(a, bs, off) /\ l[i].start <= a /\ a + bs - 1 <= l[i].end => BlockIn(a, m, bs)

\* KeepAligned does for extent k what was done for those before it.
LEMMA KeepAlignedOK ==
    ASSUME NEW bs \in Nat, bs > 1, NEW off \in Int, NEW l \in Ordered, StartsAligned(l, 0, bs, off),
           NEW k \in 1 .. Len(l), NEW m, KeptUpTo(m, l, k - 1, bs, off),
           NEW r, r = KeepAligned(m, l[k], bs, off)
    PROVE  KeptUpTo(r, l, k, bs, off)
<1>1. /\ Len(l) \in Nat /\ \A i \in 1 .. Len(l) : l[i] \in Extent /\ l[i].start \in Nat /\ l[i].end \in Nat
      /\ \A i, j \in 1 .. Len(l) : i < j => l[i].end < l[j].start
  BY OrderedFacts
<1>2. PICK x \in Extent : x = l[k]
  BY <1>1
<1>3. PICK y : y = AlignEnd(x, bs, off)
  OBVIOUS
<1>4. /\ y.start = x.start /\ y.end \in Int /\ OnGrid(y.end + 1, bs, off)
      /\ y.end <= x.end /\ x.end < y.end + bs
      /\ y.start < y.end => y \in Extent
  BY <1>3, AlignEndIs
<1>5. x.start \in Nat /\ x.end \in Nat /\ OnGrid(x.start, bs, off)
  BY <1>1, <1>2 DEF StartsAligned
<1>6. r = IF y.start < y.end THEN Append(m, y) ELSE m
  BY <1>2, <1>3 DEF KeepAligned
<1>7. m \in Ordered /\ m \in Seq(Extent) /\ Len(m) \in Nat
      /\ \A j \in 1 .. Len(m) : m[j].start \in Nat /\ m[j].end \in Nat /\ m[j].start <= m[j].end
  <2>1. m \in Ordered
    BY DEF KeptUpTo
  <2> QED
    BY <2>1, OrderedFacts
\* A block of the grid inside extent k ends where the last of them ends.
<1>8. ASSUME NEW a \in Int, OnGrid(a, bs, off), x.start <= a, a + bs - 1 <= x.end
      PROVE  a + bs - 1 <= y.end /\ y.start < y.end
  <2>1. a < y.end + 1
    BY <1>4, <1>5, <1>8
  <2>2. a + bs <= y.end + 1
    <3>1. PICK b \in Int : b = y.end + 1
      BY <1>4
    <3>2. OnGrid(b, bs, off) /\ a < b
      BY <1>4, <2>1, <3>1
    <3>3. a + bs <= b
      BY <1>8, <3>2, GridGap
    <3> QED
      BY <3>1, <3>3
  <2> QED
    BY <1>4, <1>5, <1>8, <2>2
<1>9. ASSUME NEW j \in 1 .. Len(m) PROVE m[j].end < x.start
  <2>1. PICK b \in Nat : b = m[j].end
    BY <1>7
  <2>2. InList(b, m)
    <3>1. In(b, m[j])
      BY <1>7, <2>1 DEF In
    <3> QED
      BY <3>1, Zenon DEF InList
  <2>3. PICK i \in 1 .. k - 1 : In(b, l[i])
    BY <2>2 DEF KeptUpTo
  <2>4. i \in 1 .. Len(l) /\ i < k
    BY <1>1
  <2>5. b <= l[i].end /\ l[i].end < l[k].start /\ l[i].end \in Nat
    BY <1>1, <2>3, <2>4 DEF In
  <2> QED
    BY <1>2, <1>5, <2>1, <2>5
<1>10. \A i \in 1 .. k : i \in 1 .. k - 1 \/ i = k
  OBVIOUS
<1>11. k \in 1 .. k /\ \A i \in 1 .. k - 1 : i \in 1 .. k
  OBVIOUS
<1>12. CASE y.start < y.end
  <2>1. y \in Extent /\ y.start <= y.end /\ r = Append(m, y)
    BY <1>4, <1>5, <1>6, <1>12
  <2>2. ListOK(m, 1) /\ IsBlocks(y, 1) /\ 1 \in Nat
    BY <1>7, <2>1, OrderedIs, OneByteBlocks
  <2>3. \A j \in 1 .. Len(m) : m[j].end < y.start
    BY <1>4, <1>9
  <2>4. /\ ListOK(Append(m, y), 1)
        /\ \A a \in Int : InList(a, Append(m, y)) <=> InList(a, m) \/ In(a, y)
    BY <2>2, <2>3, AppendOK
  <2>5. r \in Ordered /\ \A a \in Int : InList(a, r) <=> InList(a, m) \/ In(a, y)
    BY <2>1, <2>4, OrderedIs
  <2>6. Aligned(r, bs, off)
    <3>1. /\ Len(r) = Len(m) + 1 /\ r[Len(m) + 1] = y
          /\ \A j \in 1 .. Len(m) : r[j] = m[j]
      BY <1>7, <2>1
    <3>2. \A j \in 1 .. Len(m) + 1 : j \in 1 .. Len(m) \/ j = Len(m) + 1
      BY <1>7
    <3>3. OnGrid(y.start, bs, off) /\ OnGrid(y.end + 1, bs, off)
      BY <1>4, <1>5
    <3>4. \A j \in 1 .. Len(m) : OnGrid(m[j].start, bs, off) /\ OnGrid(m[j].end + 1, bs, off)
      BY DEF KeptUpTo, Aligned
    <3> QED
      BY <3>1, <3>2, <3>3, <3>4 DEF Aligned
  <2>7. ASSUME NEW a \in Int, InList(a, r) PROVE \E i \in 1 .. k : In(a, l[i])
    <3>1. CASE InList(a, m)
      BY <1>11, <3>1 DEF KeptUpTo
    <3>2. CASE In(a, y)
      <4>1. In(a, l[k])
        BY <1>2, <1>4, <1>5, <3>2 DEF In
      <4> QED
        BY <1>11, <4>1
    <3> QED
      BY <2>5, <2>7, <3>1, <3>2
  <2>8. ASSUME NEW a \in Int, NEW i \in 1 .. k,
               OnGrid(a, bs, off), l[i].start <= a, a + bs - 1 <= l[i].end
        PROVE  BlockIn(a, r, bs)
    <3>a. \A b \in a .. a + bs - 1 : b \in Int
      OBVIOUS
    <3>1. CASE i \in 1 .. k - 1
      <4>1. BlockIn(a, m, bs)
        BY <2>8, <3>1 DEF KeptUpTo
      <4> QED
        BY <2>5, <3>a, <4>1 DEF BlockIn
    <3>2. CASE i = k
      <4>1. x.start <= a /\ a + bs - 1 <= x.end
        BY <1>2, <2>8, <3>2
      <4>2. a + bs - 1 <= y.end
        BY <1>8, <2>8, <4>1
      <4>3. \A b \in a .. a + bs - 1 : In(b, y)
        BY <1>4, <1>5, <4>1, <4>2 DEF In
      <4> QED
        BY <2>5, <3>a, <4>3 DEF BlockIn
    <3> QED
      BY <1>10, <3>1, <3>2
  <2> QED
    BY <2>5, <2>6, <2>7, <2>8 DEF KeptUpTo
<1>13. CASE ~ (y.start < y.end)
  <2>1. r = m
    BY <1>6, <1>13
  <2>2. ASSUME NEW a \in Int, InList(a, m) PROVE \E i \in 1 .. k : In(a, l[i])
    BY <1>11, <2>2 DEF KeptUpTo
  <2>3. ASSUME NEW a \in Int, NEW i \in 1 .. k,
               OnGrid(a, bs, off), l[i].start <= a, a + bs - 1 <= l[i].end
        PROVE  BlockIn(a, m, bs)
    <3>1. i # k
      <4> SUFFICES ASSUME i = k PROVE FALSE
        OBVIOUS
      <4>1. x.start <= a /\ a + bs - 1 <= x.end
        BY <1>2, <2>3
      <4> QED
        BY <1>8, <1>13, <2>3, <4>1
    <3> QED
      BY <1>10, <2>3, <3>1 DEF KeptUpTo
  <2>4. m \in Ordered /\ Aligned(m, bs, off)
    BY DEF KeptUpTo
  <2> QED
    BY <2>1, <2>2, <2>3, <2>4 DEF KeptUpTo
<1> QED
  BY <1>12, <1>13

\* All the ends are brought onto the grid: what is left is made of whole blocks,
\* and every block of the grid is.
LEMMA AlignEndsOK ==
    ASSUME NEW bs \in Nat, bs > 1, NEW off \in Int, NEW l \in Ordered, StartsAligned(l, 0, bs, off),
           NEW r, r = AlignEnds(l, bs, off)
    PROVE  r \in Ordered /\ Aligned(r, bs, off) /\ KeepsBlocks(l, r, bs, off)
<1>1. /\ l \in Seq(Extent) /\ Len(l) \in Nat
      /\ \A i \in 1 .. Len(l) : l[i].start \in Nat /\ l[i].end \in Nat
      /\ \A i, j \in 1 .. Len(l) : i < j => l[i].end < l[j].start
  BY OrderedFacts
<1>a. \E v : /\ v[0] = << >> /\ v[Len(l)] = AlignEnds(l, bs, off)
             /\ \A k \in 1 .. Len(l) : v[k] = KeepAligned(v[k - 1], l[k], bs, off)
  BY <1>1, AlignEndsSteps
<1>2. PICK v : /\ v[0] = << >> /\ v[Len(l)] = r
               /\ \A k \in 1 .. Len(l) : v[k] = KeepAligned(v[k - 1], l[k], bs, off)
  BY <1>a, Zenon
<1>3. PICK n \in Nat : n = Len(l)
  BY <1>1
<1> DEFINE T == { k \in 0 .. n : KeptUpTo(v[k], l, k, bs, off) }
<1>4. 0 \in T
  <2>1. << >> \in Ordered
    BY DEF Ordered, WellFormed
  <2>2. KeptUpTo(<< >>, l, 0, bs, off)
    BY <2>1 DEF KeptUpTo, Aligned, InList
  <2> QED
    BY <1>2, <2>2
<1>5. ASSUME NEW k \in 1 .. n, k - 1 \in T PROVE k \in T
  <2>1. KeptUpTo(v[k - 1], l, k - 1, bs, off) /\ k \in 1 .. Len(l)
    BY <1>3, <1>5
  <2>2. v[k] = KeepAligned(v[k - 1], l[k], bs, off)
    BY <1>2, <2>1
  <2>3. KeptUpTo(v[k], l, k, bs, off)
    BY <2>1, <2>2, KeepAlignedOK
  <2> QED
    BY <2>3
<1>6. 0 .. n \subseteq T
  <2> HIDE DEF T
  <2> QED
    BY <1>4, <1>5, SetInduction
<1>7. KeptUpTo(r, l, n, bs, off)
  BY <1>2, <1>3, <1>6
<1>8. ASSUME NEW a \in Int, InList(a, r) PROVE InList(a, l)
  BY <1>3, <1>7, <1>8 DEF KeptUpTo, InList
<1>9. ASSUME NEW a \in Int, OnGrid(a, bs, off), BlockIn(a, l, bs) PROVE BlockIn(a, r, bs)
  <2>0. a \in a .. a + bs - 1
    OBVIOUS
  <2>1. PICK i \in 1 .. Len(l) : l[i].start <= a /\ a <= l[i].end
    BY <1>9, <2>0 DEF BlockIn, InList, In
  <2>2. PICK e \in Nat : e = l[i].end
    BY <1>1
  <2>3. a + bs - 1 <= e
    <3> SUFFICES ASSUME e < a + bs - 1 PROVE FALSE
      OBVIOUS
    <3>1. e + 1 \in a .. a + bs - 1 /\ e + 1 \in Int
      BY <2>1, <2>2
    <3>2. PICK j \in 1 .. Len(l) : l[j].start <= e + 1 /\ e + 1 <= l[j].end
      BY <1>9, <3>1 DEF BlockIn, InList, In
    <3>3. i < j
      <4>1. j # i
        BY <2>2, <3>2
      <4>2. ~ (j < i)
        <5> SUFFICES ASSUME j < i PROVE FALSE
          OBVIOUS
        <5>1. l[j].end < l[i].start /\ l[j].end \in Nat /\ l[i].start \in Nat
          BY <1>1
        <5> QED
          BY <2>1, <2>2, <3>2, <5>1
      <4> QED
        BY <1>1, <4>1, <4>2
    <3>4. e < l[j].start /\ l[j].start \in Nat
      BY <1>1, <2>2, <3>3
    <3>5. l[j].start = e + 1
      BY <3>2, <3>4
    <3>6. 0 < j
      BY <1>1
    <3>7. OnGrid(e + 1, bs, off)
      BY <3>5, <3>6 DEF StartsAligned
    <3>8. PICK b \in Int : b = e + 1 /\ a < b
      BY <2>1, <2>2
    <3>9. a + bs <= b
      BY <1>9, <3>7, <3>8, GridGap
    <3> QED
      BY <3>8, <3>9
  <2> QED
    BY <1>3, <1>7, <1>9, <2>1, <2>2, <2>3 DEF KeptUpTo
<1> QED
  BY <1>7, <1>8, <1>9 DEF KeptUpTo, KeepsBlocks

\* The list with its last end rounded up to the grid.
RoundedEnd(l, bs, off) == EndSet(l, Len(l), RoundUp(l[Len(l)].end + 1, bs, off) - 1)

\* The bytes that rounding the last end up brings in.
Gained(a, l, bs, off) == l[Len(l)].end < a /\ a < RoundUp(l[Len(l)].end + 1, bs, off)

\* Rounding the last end up adds these bytes and no others.
LEMMA RoundedEndIs ==
    ASSUME NEW bs \in Nat, bs > 1, NEW off \in Int, NEW l \in Ordered, l # << >>,
           NEW m, m = RoundedEnd(l, bs, off)
    PROVE  /\ m \in Ordered /\ Len(m) = Len(l)
           /\ \A a \in Int : InList(a, m) <=> InList(a, l) \/ Gained(a, l, bs, off)
<1>1. /\ Len(l) \in Nat /\ l \in Seq(Extent)
      /\ \A j \in 1 .. Len(l) : l[j].start \in Nat /\ l[j].end \in Nat /\ l[j].start <= l[j].end
      /\ \A j, k \in 1 .. Len(l) : j < k => l[j].end < l[k].start
  BY OrderedFacts
<1>2. PICK h \in 1 .. Len(l) : h = Len(l)
  BY <1>1
<1>3. PICK e \in Nat : e = l[h].end
  BY <1>1
<1>4. PICK s \in Nat : s = e + 1
  OBVIOUS
<1>5. PICK u : u = RoundUp(s, bs, off)
  OBVIOUS
<1>6. u \in Nat /\ s <= u
  BY <1>5, RoundedStart
<1>7. PICK v \in Nat : v = u - 1 /\ e <= v
  BY <1>4, <1>6
<1>8. m = EndSet(l, h, v)
  BY <1>2, <1>3, <1>4, <1>5, <1>7 DEF RoundedEnd
<1>9. PICK x \in Extent : /\ EndSet(l, h, v) = [l EXCEPT ![h] = x]
                          /\ x.start = l[h].start /\ x.end = v
  BY EndSetIs
<1>10. m = [l EXCEPT ![h] = x]
  BY <1>8, <1>9, Zenon
<1>11. m \in Seq(Extent) /\ Len(m) = Len(l) /\ \A j \in 1 .. Len(l) : m[j] = IF j = h THEN x ELSE l[j]
  BY <1>1, <1>10
<1>12. \A j \in 1 .. Len(m) : m[j].start <= m[j].end
  BY <1>1, <1>3, <1>7, <1>9, <1>11
<1>13. ASSUME NEW j \in 1 .. Len(m), NEW k \in 1 .. Len(m), j < k PROVE m[j].end < m[k].start
  <2>1. j # h /\ m[j] = l[j]
    BY <1>1, <1>2, <1>11, <1>13
  <2>2. m[k].start = l[k].start
    BY <1>9, <1>11
  <2> QED
    BY <1>1, <1>11, <1>13, <2>1, <2>2
<1>14. m \in Ordered
  BY <1>11, <1>12, <1>13, OrderedIf
<1>15. ASSUME NEW a \in Int PROVE InList(a, m) <=> InList(a, l) \/ Gained(a, l, bs, off)
  <2>1. Gained(a, l, bs, off) <=> e < a /\ a <= v
    BY <1>2, <1>3, <1>4, <1>5, <1>6, <1>7 DEF Gained
  <2>2. In(a, x) <=> In(a, l[h]) \/ (e < a /\ a <= v)
    BY <1>1, <1>3, <1>7, <1>9 DEF In
  <2>3. ASSUME NEW j \in 1 .. Len(l), j # h PROVE In(a, m[j]) <=> In(a, l[j])
    BY <1>11, <2>3
  <2>4. In(a, m[h]) <=> In(a, x)
    BY <1>11
  <2> QED
    BY <1>11, <2>1, <2>2, <2>3, <2>4 DEF InList
<1> QED
  BY <1>11, <1>14, <1>15

\* update_blocksize as the three passes.
LEMMA UpdateIs ==
    ASSUME NEW l, l # << >>, NEW bs, NEW offset
    PROVE  update_blocksize(l, bs, offset) =
             AlignEnds(AlignStarts(RoundedEnd(l, bs, offset % bs), Len(l), bs, offset % bs),
                       bs, offset % bs)
BY Zenon DEF update_blocksize, AlignEnds, AlignStarts, RoundedEnd, EndSet

\* update_blocksize leaves whole blocks of the grid at offset, all those the list
\* had, and no bytes it had not but those that fill its last block.
LEMMA UpdateOK ==
    ASSUME NEW bs \in Nat, bs > 1, NEW offset \in Nat, NEW l \in Ordered, l # << >>,
           NEW r, r = update_blocksize(l, bs, offset)
    PROVE  /\ offset % bs \in Int
           /\ r \in Ordered /\ Aligned(r, bs, offset % bs)
           /\ \A a \in Int : InList(a, r) => InList(a, l) \/ Gained(a, l, bs, offset % bs)
           /\ \A a \in Int :
                OnGrid(a, bs, offset % bs)
                  /\ (\A b \in a .. a + bs - 1 : InList(b, l) \/ Gained(b, l, bs, offset % bs))
                => BlockIn(a, r, bs)
<1>1. PICK off \in Int : off = offset % bs
  <2>1. offset \in Int /\ bs > 0
    OBVIOUS
  <2> QED
    BY <2>1, DivMod
<1>2. PICK x : x = RoundedEnd(l, bs, off)
  OBVIOUS
<1>3. /\ x \in Ordered /\ Len(x) = Len(l)
      /\ \A a \in Int : InList(a, x) <=> InList(a, l) \/ Gained(a, l, bs, off)
  BY <1>2, RoundedEndIs
<1>4. PICK n \in Nat : n = Len(x)
  BY <1>3, OrderedFacts
<1>5. PICK y : y = AlignStarts(x, n, bs, off)
  OBVIOUS
<1>6. y \in Ordered /\ StartsAligned(y, 0, bs, off) /\ KeepsBlocks(x, y, bs, off)
  BY <1>3, <1>4, <1>5, AlignStartsOK
<1>7. r = AlignEnds(y, bs, off)
  <2>1. update_blocksize(l, bs, offset) =
             AlignEnds(AlignStarts(RoundedEnd(l, bs, offset % bs), Len(l), bs, offset % bs),
                       bs, offset % bs)
    BY UpdateIs
  <2> QED
    BY <1>1, <1>2, <1>3, <1>4, <1>5, <2>1, Zenon
<1>8. r \in Ordered /\ Aligned(r, bs, off) /\ KeepsBlocks(y, r, bs, off)
  BY <1>6, <1>7, AlignEndsOK
<1>9. ASSUME NEW a \in Int, InList(a, r) PROVE InList(a, l) \/ Gained(a, l, bs, off)
  BY <1>3, <1>6, <1>8, <1>9 DEF KeepsBlocks
<1>10. ASSUME NEW a \in Int, OnGrid(a, bs, off),
              \A b \in a .. a + bs - 1 : InList(b, l) \/ Gained(b, l, bs, off)
       PROVE  BlockIn(a, r, bs)
  <2>1. \A b \in a .. a + bs - 1 : b \in Int
    OBVIOUS
  <2>2. BlockIn(a, x, bs)
    BY <1>3, <1>10, <2>1 DEF BlockIn
  <2> QED
    BY <1>6, <1>8, <1>10, <2>2 DEF KeepsBlocks
<1> QED
  BY <1>1, <1>8, <1>9, <1>10

-----------------------------------------------------------------------------
(* find_blocksize *)

\* Block sizes and offsets up to max.
Grids(sizes, max) == [blocksize : sizes, offset : 0 .. max]

\* q is r or has the smaller blocks.
Finer(q, r) == q = r \/ q.blocksize < r.blocksize

\* Halve keeps to the sizes that halving reaches.
LEMMA HalveOK ==
    ASSUME NEW default \in Nat, default > 1, NEW max \in Nat, NEW sizes \in SUBSET (0 .. max),
           \A b \in sizes : b > default => b \div 2 \in sizes,
           NEW q \in Grids(sizes, max), NEW x \in Extent
    PROVE  Halve(q, x, default) \in Grids(sizes, max) /\ Finer(Halve(q, x, default), q)
<1>1. PICK b \in sizes : b = q.blocksize
  BY DEF Grids
<1>2. b \in Nat /\ b <= max
  OBVIOUS
<1>3. x.start \in Int
  BY DEF Extent
<1>4. CASE Halve(q, x, default) = q
  BY <1>4 DEF Finer
<1>5. CASE Halve(q, x, default) # q
  <2>1. /\ b > default
        /\ Halve(q, x, default) = [ blocksize |-> b \div 2, offset |-> x.start % (b \div 2) ]
    BY <1>1, <1>5 DEF Halve
  <2>2. PICK h \in sizes : h = b \div 2
    BY <2>1
  <2>3. h \in Nat /\ h > 0 /\ h < b /\ h <= max
    BY <1>2, <2>1, <2>2
  <2>4. PICK o \in 0 .. h - 1 : o = x.start % h
    BY <1>3, <2>3, DivMod
  <2>5. o \in 0 .. max
    BY <2>3
  <2>6. Halve(q, x, default) = [ blocksize |-> h, offset |-> o ]
    BY <2>1, <2>2, <2>4
  <2>7. [ blocksize |-> h, offset |-> o ] \in Grids(sizes, max)
    BY <2>5 DEF Grids
  <2>8. [ blocksize |-> h, offset |-> o ].blocksize < q.blocksize
    BY <1>1, <2>3
  <2> QED
    BY <2>6, <2>7, <2>8 DEF Finer
<1> QED
  BY <1>4, <1>5

\* One turn of find_blocksize over the list.
Halved(l, r, default) == FoldLeft(LAMBDA q, x : Halve(q, x, default), r, l)

\* The fold is the last of a chain of grids, one for each extent.
LEMMA HalvedSteps ==
    ASSUME NEW default \in Nat, default > 1, NEW max \in Nat, NEW l \in Seq(Extent),
           NEW r \in Grids(0 .. max, max)
    PROVE  \E v : /\ v[0] = r /\ v[Len(l)] = Halved(l, r, default)
                  /\ \A k \in 1 .. Len(l) : v[k] = Halve(v[k - 1], l[k], default)
<1> DEFINE n == Len(l)
<1>a. n \in Nat /\ DOMAIN l = 1 .. n
  OBVIOUS
<1>b. \A i \in 1 .. n : l[i] \in Extent
  OBVIOUS
<1> HIDE DEF n
<1> DEFINE X == Grids(0 .. max, max)
           F == [ p \in (1 .. n) \X X |-> Halve(p[2], l[p[1]], default) ]
           Eq(g) == g = [ s \in SUBSET (DOMAIN l) |->
                           IF s = {} THEN r
                           ELSE Halve(g[s \ { Max(s) }], l[Max(s)], default) ]
           c == CHOOSE g : Eq(g)
<1>1. Halved(l, r, default) = c[DOMAIN l]
  BY DEF Halved, FoldLeft, MapThenFoldSet
<1>c. \A b \in 0 .. max : b > default => b \div 2 \in 0 .. max
  OBVIOUS
<1>2. \A i \in 1 .. n : \A m \in X : F[<< i, m >>] = Halve(m, l[i], default)
  OBVIOUS
<1>3. F \in [(1 .. n) \X X -> X]
  <2>1. \A i \in 1 .. n : \A m \in X : Halve(m, l[i], default) \in X
    BY <1>b, <1>c, HalveOK
  <2> QED
    BY <2>1
<1>0. r \in X
  OBVIOUS
<1> HIDE DEF F, X
<1>4. PICK g \in [SUBSET (1 .. n) -> X] : FoldEquation(g, n, r, F)
  BY <1>0, <1>3, <1>a, FoldExists
<1>5. ASSUME NEW s \in SUBSET (1 .. n)
      PROVE  g[s] = IF s = {} THEN r
                    ELSE Halve(g[s \ { Max(s) }], l[Max(s)], default)
  <2>1. g[s] = IF s = {} THEN r ELSE F[<< Max(s), g[s \ { Max(s) }] >>]
    BY <1>4 DEF FoldEquation
  <2>2. CASE s # {}
    <3>1. Max(s) \in s
      BY <1>a, <2>2, MaxProperty
    <3>2. g[s \ { Max(s) }] \in X
      BY <1>4
    <3> QED
      BY <1>2, <2>1, <2>2, <3>1, <3>2
  <2> QED
    BY <2>1, <2>2
<1>6. Eq(g)
  BY <1>4, <1>5, <1>a
<1>7. Eq(c)
  BY <1>6
<1> HIDE DEF c
<1> DEFINE v == [ k \in 0 .. n |-> c[1 .. k] ]
<1>8. v[0] = r
  <2>1. 1 .. 0 = {} /\ {} \in SUBSET (DOMAIN l) /\ 0 \in 0 .. n
    BY <1>a
  <2> QED
    BY <1>7, <2>1
<1>9. ASSUME NEW k \in 1 .. n
      PROVE  v[k] = Halve(v[k - 1], l[k], default)
  <2>1. Max(1 .. k) = k /\ 1 .. k # {} /\ (1 .. k) \ { k } = 1 .. (k - 1)
    <3>1. k \in Nat /\ k >= 1
      BY <1>a
    <3> QED
      BY <3>1, UpTo
  <2>2. 1 .. k \in SUBSET (DOMAIN l)
    BY <1>a
  <2>3. k - 1 \in 0 .. n /\ k \in 0 .. n
    BY <1>a
  <2> QED
    BY <1>7, <2>1, <2>2, <2>3
<1>10. v[n] = Halved(l, r, default)
  BY <1>1, <1>a
<1> HIDE DEF v
<1> WITNESS v
<1> QED
  BY <1>8, <1>9, <1>10 DEF n

\* A turn keeps to the sizes that halving reaches, and makes the blocks smaller
\* if it changes anything.
LEMMA HalvedOK ==
    ASSUME NEW default \in Nat, default > 1, NEW max \in Nat, NEW sizes \in SUBSET (0 .. max),
           \A b \in sizes : b > default => b \div 2 \in sizes,
           NEW l \in Seq(Extent), NEW r \in Grids(sizes, max)
    PROVE  Halved(l, r, default) \in Grids(sizes, max) /\ Finer(Halved(l, r, default), r)
<1>1. r \in Grids(0 .. max, max)
  BY DEF Grids
<1>a. \E v : /\ v[0] = r /\ v[Len(l)] = Halved(l, r, default)
             /\ \A k \in 1 .. Len(l) : v[k] = Halve(v[k - 1], l[k], default)
  BY <1>1, HalvedSteps
<1>2. PICK v : /\ v[0] = r /\ v[Len(l)] = Halved(l, r, default)
               /\ \A k \in 1 .. Len(l) : v[k] = Halve(v[k - 1], l[k], default)
  BY <1>a, Zenon
<1>3. PICK n \in Nat : n = Len(l)
  OBVIOUS
<1> DEFINE T == { k \in 0 .. n : v[k] \in Grids(sizes, max) /\ Finer(v[k], r) }
<1>4. 0 \in T
  BY <1>2 DEF Finer
<1>5. ASSUME NEW k \in 1 .. n, k - 1 \in T PROVE k \in T
  <2>1. PICK q \in Grids(sizes, max) : q = v[k - 1] /\ Finer(q, r)
    BY <1>5
  <2>2. k \in 1 .. Len(l) /\ l[k] \in Extent
    BY <1>3
  <2>3. PICK w : w = Halve(q, l[k], default)
    OBVIOUS
  <2>4. w \in Grids(sizes, max) /\ Finer(w, q)
    BY <2>2, <2>3, HalveOK
  <2>5. w.blocksize \in Int /\ q.blocksize \in Int /\ r.blocksize \in Int
    <3>1. \A g \in Grids(sizes, max) : g.blocksize \in sizes
      BY DEF Grids
    <3>2. \A b \in sizes : b \in Int
      OBVIOUS
    <3> QED
      BY <2>4, <3>1, <3>2
  <2>6. Finer(w, r)
    BY <2>1, <2>4, <2>5 DEF Finer
  <2>7. v[k] = w
    BY <1>2, <2>1, <2>2, <2>3
  <2> QED
    BY <2>4, <2>6, <2>7
<1>6. 0 .. n \subseteq T
  <2> HIDE DEF T
  <2> QED
    BY <1>4, <1>5, SetInduction
<1>7. n \in T
  BY <1>6
<1> QED
  BY <1>2, <1>3, <1>7

\* h solves the recursion of find_blocksize for blocks of up to k bytes.
Solves(h, k, l, default, max) ==
    \A r \in Grids(0 .. max, max) :
        r.blocksize <= k =>
          h[r] = IF Halved(l, r, default) = r THEN r ELSE h[Halved(l, r, default)]

\* The recursion has a solution: the blocks get smaller with every turn.
LEMMA HalvingEnds ==
    ASSUME NEW default \in Nat, default > 1, NEW max \in Nat, NEW l \in Seq(Extent)
    PROVE  \E h \in [Grids(0 .. max, max) -> Grids(0 .. max, max)] : Solves(h, max, l, default, max)
<1> DEFINE D == Grids(0 .. max, max)
           W(r) == Halved(l, r, default)
           T == { k \in 0 .. max : \E h \in [D -> D] : Solves(h, k, l, default, max) }
<1>1. ASSUME NEW r \in D PROVE W(r) \in D /\ Finer(W(r), r)
  <2>1. \A b \in 0 .. max : b > default => b \div 2 \in 0 .. max
    OBVIOUS
  <2> QED
    BY <2>1, HalvedOK
<1>2. \A r \in D : r.blocksize \in 0 .. max
  BY DEF Grids
<1>3. \A h, k : Solves(h, k, l, default, max) <=>
        \A r \in D : r.blocksize <= k => h[r] = IF W(r) = r THEN r ELSE h[W(r)]
  BY Zenon DEF Solves
<1> HIDE DEF D, W
<1>4. 0 \in T
  <2>1. ASSUME NEW r \in D, r.blocksize <= 0 PROVE W(r) = r
    <3>1. W(r).blocksize \in 0 .. max /\ r.blocksize \in 0 .. max /\ Finer(W(r), r)
      BY <1>1, <1>2
    <3> QED
      BY <2>1, <3>1 DEF Finer
  <2>2. PICK h \in [D -> D] : \A r \in D : h[r] = r
    <3>1. [r \in D |-> r] \in [D -> D] /\ \A r \in D : [q \in D |-> q][r] = r
      OBVIOUS
    <3> QED
      BY <3>1
  <2>3. Solves(h, 0, l, default, max)
    BY <1>3, <2>1, <2>2
  <2> QED
    BY <2>3
<1>5. ASSUME NEW k \in 1 .. max, k - 1 \in T PROVE k \in T
  <2>1. PICK h \in [D -> D] : Solves(h, k - 1, l, default, max)
    BY <1>5
  <2>2. \A r \in D : r.blocksize <= k - 1 => h[r] = IF W(r) = r THEN r ELSE h[W(r)]
    BY <1>3, <2>1
  <2> DEFINE f == [r \in D |-> IF r.blocksize = k
                                 THEN IF W(r) = r THEN r ELSE h[W(r)]
                                 ELSE h[r]]
  <2>3. f \in [D -> D]
    BY <1>1
  <2>4. \A r \in D : f[r] = IF r.blocksize = k THEN IF W(r) = r THEN r ELSE h[W(r)] ELSE h[r]
    OBVIOUS
  <2> HIDE DEF f
  <2>5. ASSUME NEW r \in D, r.blocksize <= k
        PROVE  f[r] = IF W(r) = r THEN r ELSE f[W(r)]
    <3>1. /\ W(r) \in D /\ W(r).blocksize \in 0 .. max /\ r.blocksize \in 0 .. max
          /\ W(r) # r => W(r).blocksize < r.blocksize
      BY <1>1, <1>2 DEF Finer
    <3>2. W(r) # r => f[W(r)] = h[W(r)]
      BY <2>4, <2>5, <3>1
    <3>3. CASE r.blocksize = k
      BY <2>4, <3>2, <3>3
    <3>4. CASE r.blocksize # k
      <4>1. r.blocksize <= k - 1
        BY <2>5, <3>1, <3>4
      <4> QED
        BY <2>2, <2>4, <3>2, <3>4, <4>1
    <3> QED
      BY <3>3, <3>4
  <2>6. Solves(f, k, l, default, max)
    BY <1>3, <2>5
  <2> QED
    BY <2>3, <2>6
<1>6. 0 .. max \subseteq T
  <2> HIDE DEF T
  <2> QED
    BY <1>4, <1>5, SetInduction
<1>7. max \in T
  BY <1>6
<1> QED
  BY <1>7 DEF D

\* The recursion of find_blocksize, named.
Again(l, default, max) ==
    CHOOSE f : f = [ r \in Grids(0 .. max, max) |->
                       IF Halved(l, r, default) = r THEN r ELSE f[Halved(l, r, default)] ]

\* find_blocksize begins with the largest blocks, at the first extent.
LEMMA FindIs ==
    ASSUME NEW l, l # << >>, NEW default, NEW max
    PROVE  find_blocksize(l, default, max) =
             Again(l, default, max)[[ blocksize |-> max, offset |-> l[1].start % max ]]
BY Zenon DEF find_blocksize, Again, Halved, Grids

\* The recursion unfolds.
LEMMA AgainIs ==
    ASSUME NEW default \in Nat, default > 1, NEW max \in Nat, NEW l \in Seq(Extent),
           NEW r \in Grids(0 .. max, max)
    PROVE  Again(l, default, max)[r] =
             IF Halved(l, r, default) = r THEN r ELSE Again(l, default, max)[Halved(l, r, default)]
<1> DEFINE D == Grids(0 .. max, max)
           W(q) == Halved(l, q, default)
           c == CHOOSE f : f = [ q \in D |-> IF W(q) = q THEN q ELSE f[W(q)] ]
<1>1. c = Again(l, default, max)
  BY DEF Again
<1>2. PICK h \in [D -> D] : Solves(h, max, l, default, max)
  BY HalvingEnds
<1>3. \A q \in D : h[q] = IF W(q) = q THEN q ELSE h[W(q)]
  <2>1. \A q \in D : q.blocksize <= max
    BY DEF Grids
  <2> QED
    BY <1>2, <2>1 DEF Solves
<1> HIDE DEF D, W
<1>4. h = [ q \in D |-> IF W(q) = q THEN q ELSE h[W(q)] ]
  BY <1>3
<1>5. c = [ q \in D |-> IF W(q) = q THEN q ELSE c[W(q)] ]
  BY <1>4
<1>6. r \in D
  BY DEF D
<1> HIDE DEF c
<1>7. c[r] = IF W(r) = r THEN r ELSE c[W(r)]
  BY <1>5, <1>6
<1> QED
  BY <1>1, <1>7 DEF W

\* find_blocksize chooses one of the sizes that halving reaches from max, and an
\* offset.
LEMMA FindOK ==
    ASSUME NEW default \in Nat, default > 1, NEW max \in Nat, max > 0,
           NEW sizes \in SUBSET (default .. max), max \in sizes,
           \A b \in sizes : b > default => b \div 2 \in sizes,
           NEW l \in Seq(Extent), l # << >>
    PROVE  find_blocksize(l, default, max) \in Grids(sizes, max)
<1> DEFINE D == Grids(0 .. max, max)
           E == Grids(sizes, max)
           A == Again(l, default, max)
           W(q) == Halved(l, q, default)
           T == { k \in 0 .. max : \A r \in E : r.blocksize <= k => A[r] \in E }
<1>1. sizes \in SUBSET (0 .. max) /\ \A b \in sizes : b \in Nat /\ b > 1
  OBVIOUS
<1>2. \A r \in E : r \in D /\ r.blocksize \in sizes
  BY <1>1 DEF Grids
<1>3. ASSUME NEW r \in E PROVE W(r) \in E /\ Finer(W(r), r)
  BY <1>1, HalvedOK
<1>4. ASSUME NEW r \in D PROVE A[r] = IF W(r) = r THEN r ELSE A[W(r)]
  BY AgainIs
<1> HIDE DEF A, W, D, E
<1>5. 0 \in T
  <2>1. \A r \in E : r.blocksize \in Nat /\ r.blocksize > 1
    BY <1>1, <1>2
  <2>2. \A r \in E : ~ (r.blocksize <= 0)
    BY <2>1
  <2> QED
    BY <2>2
<1>6. ASSUME NEW k \in 1 .. max, k - 1 \in T PROVE k \in T
  <2>1. ASSUME NEW r \in E, r.blocksize <= k PROVE A[r] \in E
    <3>1. CASE W(r) = r
      BY <1>2, <1>4, <3>1
    <3>2. CASE W(r) # r
      <4>1. W(r) \in E /\ W(r).blocksize < r.blocksize
        BY <1>3, <3>2 DEF Finer
      <4>2. W(r).blocksize \in Int /\ r.blocksize \in Int
        <5>1. W(r).blocksize \in sizes /\ r.blocksize \in sizes
          BY <1>2, <4>1
        <5>2. \A b \in sizes : b \in Int
          OBVIOUS
        <5> QED
          BY <5>1, <5>2
      <4>3. W(r).blocksize <= k - 1
        BY <2>1, <4>1, <4>2
      <4> QED
        BY <1>2, <1>4, <1>6, <3>2, <4>1, <4>3
    <3> QED
      BY <3>1, <3>2
  <2> QED
    BY <2>1
<1>7. 0 .. max \subseteq T
  <2> HIDE DEF T
  <2> QED
    BY <1>5, <1>6, SetInduction
<1>8. \A r \in E : r.blocksize <= max => A[r] \in E
  <2>1. max \in T
    BY <1>7
  <2> QED
    BY <2>1
<1>9. PICK o \in 0 .. max : o = l[1].start % max
  <2>1. l[1] \in Extent
    <3>1. Len(l) >= 1
      OBVIOUS
    <3> QED
      BY <3>1
  <2>2. l[1].start \in Int
    BY <2>1 DEF Extent
  <2>3. l[1].start % max \in 0 .. max - 1
    BY <2>2, DivMod
  <2> QED
    BY <2>3
<1>10. PICK r : r = [ blocksize |-> max, offset |-> o ]
  OBVIOUS
<1>11. r \in E /\ r.blocksize <= max
  BY <1>10 DEF E, Grids
<1>12. find_blocksize(l, default, max) = A[r]
  BY <1>9, <1>10, FindIs DEF A
<1> QED
  BY <1>8, <1>11, <1>12 DEF E

-----------------------------------------------------------------------------
(* The bytes of the list *)

\* del_search_space, in bytes.
LEMMA DelBytes ==
    ASSUME NEW l \in Ordered, NEW s \in Nat, NEW e \in Int
    PROVE  /\ del_search_space(l, s, e) \in Ordered
           /\ Bytes(del_search_space(l, s, e)) = Bytes(l) \ (s .. e)
<1>1. PICK r : r = del_search_space(l, s, e)
  OBVIOUS
<1>2. r \in Ordered /\ \A a \in Int : InList(a, r) <=> InList(a, l) /\ ~ (s <= a /\ a <= e)
  BY <1>1, DelIs DEF Deleted
<1>3. \A a : a \in Bytes(r) <=> a \in Int /\ InList(a, r)
  BY <1>2, OrderedFacts, ListBytes
<1>4. \A a : a \in Bytes(l) <=> a \in Int /\ InList(a, l)
  BY OrderedFacts, ListBytes
<1>5. Bytes(r) = Bytes(l) \ (s .. e)
  BY <1>2, <1>3, <1>4
<1> QED
  BY <1>1, <1>2, <1>5

\* The block of the grid an address is in.
LEMMA RoundedDown ==
    ASSUME NEW bs \in Nat, bs > 1, NEW off \in Int, NEW a \in Int,
           NEW g, g = RoundDown(a, bs, off)
    PROVE  g \in Int /\ OnGrid(g, bs, off) /\ g <= a /\ a < g + bs
<1>0. bs > 0
  OBVIOUS
<1>1. /\ RoundDown(a, bs, off) \in Int /\ OnGrid(RoundDown(a, bs, off), bs, off)
      /\ RoundDown(a, bs, off) <= a /\ a < RoundDown(a, bs, off) + bs
  BY <1>0, RoundDownTo, Zenon
<1> QED
  BY <1>1, Zenon

\* The data area in whole clusters, from a list of all its bytes on the disk.
LEMMA GeometryOK ==
    ASSUME NEW bs \in Nat, bs > 1, NEW start \in Nat, NEW end \in Nat,
           NEW l \in Ordered, Bytes(l) = start .. end
    PROVE  /\ update_blocksize(l, bs, start) \in Ordered
           /\ Bytes(update_blocksize(l, bs, start)) = start .. RoundUp(end + 1, bs, start % bs) - 1
<1>1. PICK off \in Int : off = start % bs
  <2>1. start \in Int /\ bs > 0
    OBVIOUS
  <2> QED
    BY <2>1, DivMod
<1>2. OnGrid(start, bs, off)
  <2>1. start \in Int /\ bs > 0
    OBVIOUS
  <2> QED
    BY <1>1, <2>1, GridOfRemainder
<1>3. PICK n \in Nat : n = end + 1
  OBVIOUS
<1>4. PICK u : u = RoundUp(n, bs, off)
  OBVIOUS
<1>5. u \in Nat /\ OnGrid(u, bs, off) /\ n <= u /\ u < n + bs
  BY <1>4, RoundedStart
<1>6. PICK r : r = update_blocksize(l, bs, start)
  OBVIOUS
<1>7. /\ l \in Seq(Extent) /\ Len(l) \in Nat
      /\ \A i \in 1 .. Len(l) : l[i].start \in Nat /\ l[i].end \in Nat /\ l[i].start <= l[i].end
      /\ \A i, j \in 1 .. Len(l) : i < j => l[i].end < l[j].start
  BY OrderedFacts
<1>8. \A a \in Int : InList(a, l) <=> start <= a /\ a <= end
  <2>1. \A a : a \in Bytes(l) <=> a \in Int /\ InList(a, l)
    BY <1>7, ListBytes
  <2> QED
    BY <2>1
<1>9. r \in Ordered /\ \A a \in Int : InList(a, r) <=> start <= a /\ a < u
  <2>1. CASE l = << >>
    <3>1. r = << >>
      BY <1>6, <2>1 DEF update_blocksize
    <3>2. \A a \in Int : ~ InList(a, << >>)
      BY DEF InList
    <3>3. end < start
      <4>1. ~ InList(start, l)
        BY <2>1, <3>2
      <4> QED
        BY <1>8, <4>1
    <3>4. ~ (start < u)
      <4> SUFFICES ASSUME start < u PROVE FALSE
        OBVIOUS
      <4>1. start + bs <= u
        BY <1>2, <1>5, GridGap
      <4> QED
        BY <1>3, <1>5, <3>3, <4>1
    <3> QED
      BY <1>5, <2>1, <3>1, <3>2, <3>4
  <2>2. CASE l # << >>
    <3>1. PICK h \in 1 .. Len(l) : h = Len(l)
      BY <1>7, <2>2
    <3>2. l[h].end = end
      <4>1. PICK e \in Nat : e = l[h].end
        BY <1>7
      <4>2. InList(e, l)
        BY <1>7, <4>1 DEF InList, In
      <4>3. start <= e /\ e <= end
        BY <1>8, <4>2
      <4>4. PICK j \in 1 .. Len(l) : l[j].start <= end /\ end <= l[j].end
        BY <1>8, <4>3 DEF InList, In
      <4>5. l[j].end <= e
        <5>1. CASE j = h
          BY <4>1, <5>1
        <5>2. CASE j < h
          <6>1. l[j].end < l[h].start /\ l[h].start <= l[h].end
            BY <1>7, <5>2
          <6>2. l[j].end \in Nat /\ l[h].start \in Nat
            BY <1>7
          <6> QED
            BY <4>1, <6>1, <6>2
        <5> QED
          BY <1>7, <3>1, <5>1, <5>2
      <4>6. l[j].end \in Nat
        BY <1>7
      <4> QED
        BY <4>1, <4>3, <4>4, <4>5, <4>6
    <3>3. \A a : Gained(a, l, bs, off) <=> end < a /\ a < u
      BY <1>3, <1>4, <3>1, <3>2 DEF Gained
    <3>4. /\ r \in Ordered
          /\ \A a \in Int : InList(a, r) => InList(a, l) \/ Gained(a, l, bs, off)
          /\ \A a \in Int :
               OnGrid(a, bs, off) /\ (\A b \in a .. a + bs - 1 : InList(b, l) \/ Gained(b, l, bs, off))
                => BlockIn(a, r, bs)
      BY <1>1, <1>6, <2>2, UpdateOK
    <3>a. end >= start
      <4>1. PICK s \in Nat : s = l[h].start /\ s <= l[h].end
        BY <1>7
      <4>2. InList(s, l)
        BY <4>1 DEF InList, In
      <4> QED
        BY <1>8, <4>2
    <3>5. \A a \in Int : InList(a, l) \/ Gained(a, l, bs, off) <=> start <= a /\ a < u
      BY <1>3, <1>5, <1>8, <3>3, <3>a
    <3>6. ASSUME NEW a \in Int, start <= a, a < u PROVE InList(a, r)
      <4>1. PICK d : d = RoundDown(a, bs, off)
        OBVIOUS
      <4>a. d \in Int /\ OnGrid(d, bs, off) /\ d <= a /\ a < d + bs
        BY <4>1, RoundedDown
      <4>b. PICK g \in Int : g = d
        BY <4>a
      <4>2. OnGrid(g, bs, off) /\ g <= a /\ a < g + bs
        BY <4>a, <4>b
      <4>3. start <= g
        <5> SUFFICES ASSUME g < start PROVE FALSE
          OBVIOUS
        <5>1. g + bs <= start
          BY <1>2, <4>2, GridGap
        <5> QED
          BY <3>6, <4>2, <5>1
      <4>4. g + bs <= u
        <5>1. g < u
          BY <1>5, <3>6, <4>2
        <5> QED
          BY <1>5, <4>2, <5>1, GridGap
      <4>5. \A b \in g .. g + bs - 1 : b \in Int /\ start <= b /\ b < u
        BY <1>5, <4>3, <4>4
      <4>6. BlockIn(g, r, bs)
        BY <3>4, <3>5, <4>2, <4>5
      <4>7. a \in g .. g + bs - 1
        BY <4>2
      <4> QED
        BY <4>6, <4>7 DEF BlockIn
    <3> QED
      BY <3>4, <3>5, <3>6
  <2> QED
    BY <2>1, <2>2
<1>10. Bytes(r) = start .. u - 1
  <2>1. \A a : a \in Bytes(r) <=> a \in Int /\ InList(a, r)
    BY <1>9, OrderedFacts, ListBytes
  <2>2. \A a : a \in Bytes(r) <=> a \in start .. u - 1
    BY <1>5, <1>9, <2>1
  <2> QED
    BY <2>2
<1> QED
  BY <1>1, <1>3, <1>4, <1>6, <1>9, <1>10

-----------------------------------------------------------------------------
(* Sequences of anything *)

\* The elements of a sequence.
ElementsOf(s) == { s[i] : i \in 1 .. Len(s) }

\* The elements of two sequences, one behind the other.
LEMMA ElementsConcat ==
    ASSUME NEW S, NEW s \in Seq(S), NEW t \in Seq(S)
    PROVE  s \o t \in Seq(S) /\ ElementsOf(s \o t) = ElementsOf(s) \cup ElementsOf(t)
<1>1. PICK u : u = s \o t
  OBVIOUS
<1>2. PICK m \in Nat : m = Len(s)
  OBVIOUS
<1>3. PICK n \in Nat : n = Len(t)
  OBVIOUS
<1>4. /\ u \in Seq(S) /\ Len(u) = m + n
      /\ \A i \in 1 .. m + n : u[i] = IF i <= m THEN s[i] ELSE t[i - m]
  BY <1>1, <1>2, <1>3, ConcatProperties
<1>5. ASSUME NEW i \in 1 .. m + n PROVE u[i] \in ElementsOf(s) \cup ElementsOf(t)
  <2>1. CASE i <= m
    BY <1>2, <1>4, <2>1 DEF ElementsOf
  <2>2. CASE ~ (i <= m)
    <3>1. i - m \in 1 .. n
      BY <2>2
    <3> QED
      BY <1>3, <1>4, <2>2, <3>1 DEF ElementsOf
  <2> QED
    BY <2>1, <2>2
<1>6. ASSUME NEW i \in 1 .. m PROVE s[i] \in ElementsOf(u)
  <2>1. i \in 1 .. m + n /\ u[i] = s[i]
    BY <1>4
  <2> QED
    BY <1>4, <2>1 DEF ElementsOf
<1>7. ASSUME NEW i \in 1 .. n PROVE t[i] \in ElementsOf(u)
  <2>1. i + m \in 1 .. m + n /\ ~ (i + m <= m) /\ i + m - m = i
    OBVIOUS
  <2>2. u[i + m] = t[i]
    BY <1>4, <2>1
  <2> QED
    BY <1>4, <2>1, <2>2 DEF ElementsOf
<1>8. \A x : x \in ElementsOf(u) => x \in ElementsOf(s) \cup ElementsOf(t)
  <2>1. \A x : x \in ElementsOf(u) => \E i \in 1 .. m + n : x = u[i]
    BY <1>4 DEF ElementsOf
  <2> QED
    BY <1>5, <2>1
<1>9. \A x : x \in ElementsOf(s) => \E i \in 1 .. m : x = s[i]
  BY <1>2 DEF ElementsOf
<1>10. \A x : x \in ElementsOf(t) => \E i \in 1 .. n : x = t[i]
  BY <1>3 DEF ElementsOf
<1>11. ElementsOf(u) = ElementsOf(s) \cup ElementsOf(t)
  BY <1>6, <1>7, <1>8, <1>9, <1>10
<1> QED
  BY <1>1, <1>4, <1>11

\* The recursion of FlattenSeq.
FlattenEquation(f, q, k) ==
    \A i \in 1 .. k : f[i] = IF i = 1 THEN q[i] ELSE f[i - 1] \o q[i]

\* FlattenSeq is given by a recursion: there is a function that solves it.
LEMMA FlattenExists ==
    ASSUME NEW S, NEW q \in Seq(Seq(S))
    PROVE  \E f \in [1 .. Len(q) -> Seq(S)] : FlattenEquation(f, q, Len(q))
<1>1. PICK n \in Nat : n = Len(q)
  OBVIOUS
<1>2. \A i \in 1 .. n : q[i] \in Seq(S)
  BY <1>1
<1> DEFINE T == { k \in 0 .. n : \E f \in [1 .. k -> Seq(S)] : FlattenEquation(f, q, k) }
<1>3. 0 \in T
  <2>1. PICK f : f = [ i \in 1 .. 0 |-> << >> ]
    OBVIOUS
  <2>2. f \in [1 .. 0 -> Seq(S)]
    BY <2>1
  <2>3. FlattenEquation(f, q, 0)
    BY DEF FlattenEquation
  <2>4. \E h \in [1 .. 0 -> Seq(S)] : FlattenEquation(h, q, 0)
    BY <2>2, <2>3, Zenon
  <2>5. 0 \in 0 .. n
    OBVIOUS
  <2> QED
    BY <2>4, <2>5, Zenon
<1>4. ASSUME NEW k \in 1 .. n, k - 1 \in T PROVE k \in T
  <2>1. PICK f \in [1 .. k - 1 -> Seq(S)] : FlattenEquation(f, q, k - 1)
    BY <1>4
  <2>2. PICK x \in Seq(S) : x = IF k = 1 THEN q[k] ELSE f[k - 1] \o q[k]
    <3>1. q[k] \in Seq(S)
      BY <1>2
    <3>2. CASE k = 1
      BY <3>1, <3>2
    <3>3. CASE k # 1
      <4>1. k - 1 \in 1 .. k - 1
        BY <3>3
      <4>2. f[k - 1] \in Seq(S)
        BY <4>1
      <4>3. f[k - 1] \o q[k] \in Seq(S)
        BY <3>1, <4>2, ElementsConcat
      <4> QED
        BY <3>3, <4>3
    <3> QED
      BY <3>2, <3>3
  <2> DEFINE g == [ i \in 1 .. k |-> IF i = k THEN x ELSE f[i] ]
  <2>3. \A i \in 1 .. k : i # k => i \in 1 .. k - 1
    OBVIOUS
  <2>4. g \in [1 .. k -> Seq(S)]
    BY <2>3
  <2>5. ASSUME NEW i \in 1 .. k PROVE g[i] = IF i = 1 THEN q[i] ELSE g[i - 1] \o q[i]
    <3>1. CASE i = k
      <4>1. k = 1 => g[k] = q[k]
        BY <2>2
      <4>2. k # 1 => k - 1 \in 1 .. k /\ k - 1 # k
        OBVIOUS
      <4>3. k # 1 => g[k - 1] = f[k - 1]
        BY <4>2
      <4> QED
        BY <2>2, <3>1, <4>1, <4>3
    <3>2. CASE i # k
      <4>1. i \in 1 .. k - 1 /\ g[i] = f[i]
        BY <2>3, <3>2
      <4>2. f[i] = IF i = 1 THEN q[i] ELSE f[i - 1] \o q[i]
        BY <2>1, <4>1 DEF FlattenEquation
      <4>3. i # 1 => i - 1 \in 1 .. k /\ i - 1 # k
        OBVIOUS
      <4>4. i # 1 => g[i - 1] = f[i - 1]
        BY <4>3
      <4> QED
        BY <4>1, <4>2, <4>4
    <3> QED
      BY <3>1, <3>2
  <2> HIDE DEF g
  <2>6. FlattenEquation(g, q, k)
    BY <2>5 DEF FlattenEquation
  <2> QED
    BY <2>4, <2>6
<1> HIDE DEF T
<1>5. 0 .. n \subseteq T
  BY <1>3, <1>4, SetInduction
<1>6. n \in T
  BY <1>5
<1> QED
  BY <1>1, <1>6 DEF T

\* FlattenSeq yields a sequence of the elements of its sequences.
LEMMA FlattenIs ==
    ASSUME NEW S, NEW q \in Seq(Seq(S))
    PROVE  /\ FlattenSeq(q) \in Seq(S)
           /\ ElementsOf(FlattenSeq(q)) = UNION { ElementsOf(q[k]) : k \in 1 .. Len(q) }
<1>1. PICK n \in Nat : n = Len(q)
  OBVIOUS
<1>2. \A i \in 1 .. n : q[i] \in Seq(S)
  BY <1>1
<1>3. CASE n = 0
  <2>1. FlattenSeq(q) = q
    BY <1>1, <1>3, Zenon DEF FlattenSeq
  <2>2. q = << >>
    BY <1>1, <1>3, EmptySeq
  <2>3. q \in Seq(S) /\ 1 .. Len(q) = {}
    BY <2>2
  <2> QED
    BY <2>1, <2>3 DEF ElementsOf
<1>4. CASE n # 0
  <2> DEFINE Eq(f) == f = [ i \in 1 .. Len(q) |-> IF i = 1 THEN q[i] ELSE f[i - 1] \o q[i] ]
             c == CHOOSE f : Eq(f)
  <2>1. FlattenSeq(q) = c[n]
    BY <1>1, <1>4 DEF FlattenSeq
  <2>2. PICK g \in [1 .. Len(q) -> Seq(S)] : FlattenEquation(g, q, Len(q))
    BY FlattenExists
  <2>3. Eq(g)
    BY <2>2 DEF FlattenEquation
  <2>4. Eq(c)
    BY <2>3
  <2> HIDE DEF c
  <2>5. \A i \in 1 .. n : c[i] = IF i = 1 THEN q[i] ELSE c[i - 1] \o q[i]
    BY <1>1, <2>4
  <2> DEFINE E(k) == UNION { ElementsOf(q[j]) : j \in 1 .. k }
             T == { k \in 0 .. n : k # 0 => c[k] \in Seq(S) /\ ElementsOf(c[k]) = E(k) }
  <2>6. 0 \in T
    OBVIOUS
  <2>7. ASSUME NEW k \in 1 .. n, k - 1 \in T PROVE k \in T
    <3>1. CASE k = 1
      <4>1. c[k] = q[k] /\ q[k] \in Seq(S)
        BY <1>2, <2>5, <3>1
      <4>2. E(k) = ElementsOf(q[k])
        <5>1. 1 .. k = { k }
          BY <3>1
        <5> QED
          BY <5>1
      <4> QED
        BY <4>1, <4>2
    <3>2. CASE k # 1
      <4>1. c[k - 1] \in Seq(S) /\ ElementsOf(c[k - 1]) = E(k - 1)
        BY <2>7, <3>2
      <4>2. c[k] = c[k - 1] \o q[k] /\ q[k] \in Seq(S)
        BY <1>2, <2>5, <3>2
      <4>3. c[k] \in Seq(S) /\ ElementsOf(c[k]) = ElementsOf(c[k - 1]) \cup ElementsOf(q[k])
        BY <4>1, <4>2, ElementsConcat
      <4>4. E(k) = E(k - 1) \cup ElementsOf(q[k])
        <5>1. 1 .. k = (1 .. k - 1) \cup { k }
          OBVIOUS
        <5> QED
          BY <5>1
      <4> HIDE DEF E
      <4>5. ElementsOf(c[k]) = E(k)
        BY <4>1, <4>3, <4>4
      <4> QED
        BY <4>3, <4>5
    <3> QED
      BY <3>1, <3>2
  <2>8. 0 .. n \subseteq T
    <3> HIDE DEF T
    <3> QED
      BY <2>6, <2>7, SetInduction
  <2>9. n \in T
    <3> HIDE DEF T
    <3>1. n \in 0 .. n
      OBVIOUS
    <3> QED
      BY <2>8, <3>1
  <2> QED
    BY <1>1, <1>4, <2>1, <2>9
<1> QED
  BY <1>3, <1>4

\* What a sequence begins with.
LEMMA PrefixIs ==
    ASSUME NEW S, NEW s \in Seq(S), NEW k \in 0 .. Len(s)
    PROVE  SubSeq(s, 1, k) \in Seq(S) /\ ElementsOf(SubSeq(s, 1, k)) \subseteq ElementsOf(s)
<1>1. PICK n \in Nat : n = Len(s)
  OBVIOUS
<1>2. PICK t : t = SubSeq(s, 1, k)
  OBVIOUS
<1>3. t \in Seq(S) /\ Len(t) = k /\ \A i \in 1 .. k : t[i] = s[i]
  BY <1>1, <1>2
<1>4. \A i \in 1 .. k : t[i] \in ElementsOf(s)
  BY <1>1, <1>3 DEF ElementsOf
<1>5. ElementsOf(t) \subseteq ElementsOf(s)
  BY <1>3, <1>4 DEF ElementsOf
<1> QED
  BY <1>2, <1>3, <1>5

\* The elements of two sequences put end to end.
LEMMA ConcatIs ==
    ASSUME NEW S, NEW s \in Seq(S), NEW t \in Seq(S), NEW m \in Nat, NEW n \in Nat,
           m = Len(s), n = Len(t), NEW u, u = s \o t
    PROVE  /\ u \in Seq(S) /\ Len(u) = m + n
           /\ \A i \in 1 .. m + n : u[i] = IF i <= m THEN s[i] ELSE t[i - m]
  BY ConcatProperties

\* A sequence is its head and the rest.
LEMMA HeadAndTail ==
    ASSUME NEW S, NEW s \in Seq(S), s # << >>
    PROVE  /\ Head(s) \in S /\ Tail(s) \in Seq(S)
           /\ ElementsOf(s) = ElementsOf(Tail(s)) \cup { Head(s) }
<1>1. PICK n \in Nat : n = Len(s) /\ n >= 1
  BY EmptySeq
<1>2. PICK t : t = Tail(s)
  OBVIOUS
<1>3. t \in Seq(S) /\ Len(t) = n - 1 /\ \A i \in 1 .. n - 1 : t[i] = s[i + 1]
  BY <1>1, <1>2
<1>4. Head(s) = s[1] /\ s[1] \in S
  BY <1>1
<1>5. \A i \in 1 .. n : i = 1 \/ i - 1 \in 1 .. n - 1
  OBVIOUS
<1>6. \A i \in 1 .. n : s[i] \in ElementsOf(t) \cup { s[1] }
  <2> SUFFICES ASSUME NEW i \in 1 .. n, i # 1 PROVE s[i] \in ElementsOf(t)
    OBVIOUS
  <2>1. i - 1 \in 1 .. n - 1 /\ i - 1 + 1 = i
    BY <1>5
  <2>2. t[i - 1] = s[i]
    BY <1>3, <2>1
  <2> QED
    BY <1>3, <2>1, <2>2 DEF ElementsOf
<1>7. \A i \in 1 .. n - 1 : i + 1 \in 1 .. n /\ t[i] = s[i + 1]
  BY <1>3
<1>8. 1 \in 1 .. n
  BY <1>1
<1>9. ElementsOf(s) = ElementsOf(t) \cup { s[1] }
  BY <1>1, <1>3, <1>6, <1>7, <1>8 DEF ElementsOf
<1> QED
  BY <1>2, <1>3, <1>4, <1>9

\* What is left of a sequence behind its first element.
LEMMA TailIs ==
    ASSUME NEW S, NEW s \in Seq(S), s # << >>
    PROVE  /\ Head(s) \in S /\ Head(s) = s[1] /\ 1 \in 1 .. Len(s)
           /\ Tail(s) \in Seq(S)
           /\ \A i \in 1 .. Len(Tail(s)) : i + 1 \in 1 .. Len(s) /\ Tail(s)[i] = s[i + 1]
<1>1. PICK n \in Nat : n = Len(s)
  OBVIOUS
<1>2. n >= 1
  BY <1>1, EmptySeq
<1>3. Head(s) = s[1] /\ s[1] \in S
  BY <1>1, <1>2
<1>4. Tail(s) \in Seq(S) /\ Len(Tail(s)) = n - 1 /\ \A i \in 1 .. n - 1 : Tail(s)[i] = s[i + 1]
  BY <1>1, <1>2
<1> QED
  BY <1>1, <1>2, <1>3, <1>4

\* All but the last of a sequence.
LEMMA FrontIs ==
    ASSUME NEW S, NEW s \in Seq(S), Len(s) >= 1
    PROVE  /\ Front(s) \in Seq(S) /\ Len(Front(s)) = Len(s) - 1 /\ Last(s) \in S
           /\ \A i \in 1 .. Len(s) - 1 : Front(s)[i] = s[i]
<1>1. PICK n \in Nat : n = Len(s) /\ n >= 1
  OBVIOUS
<1>2. PICK t : t = SubSeq(s, 1, n - 1)
  OBVIOUS
<1>3. t \in Seq(S) /\ Len(t) = n - 1 /\ \A i \in 1 .. n - 1 : t[i] = s[i]
  BY <1>1, <1>2
<1>4. s[n] \in S
  BY <1>1
<1> QED
  BY <1>1, <1>2, <1>3, <1>4 DEF Front, Last

\* Sequences of the same elements are the same.
LEMMA SameElements ==
    ASSUME NEW S, NEW s \in Seq(S), NEW u \in Seq(S), Len(s) = Len(u),
           \A i \in 1 .. Len(s) : s[i] = u[i]
    PROVE  s = u
<1>1. PICK n \in Nat : n = Len(s) /\ n = Len(u)
  OBVIOUS
<1>2. s \in [1 .. n -> S] /\ u \in [1 .. n -> S]
  BY <1>1
<1>3. s = [ i \in 1 .. n |-> s[i] ] /\ u = [ i \in 1 .. n |-> u[i] ]
  BY <1>2
<1>4. [ i \in 1 .. n |-> s[i] ] = [ i \in 1 .. n |-> u[i] ]
  BY <1>1
<1> QED
  BY <1>3, <1>4

\* The part of a sequence before the first of some positions.
LEMMA BeforeFirst ==
    ASSUME NEW S, NEW s \in Seq(S), NEW I \in SUBSET (1 .. Len(s)),
           NEW end, end = IF I # {} THEN Min(I) ELSE 0,
           NEW t, t = IF end = 0 THEN s ELSE SubSeq(s, 1, end - 1)
    PROVE  t \in Seq(S) /\ ElementsOf(t) \subseteq ElementsOf(s)
<1>1. PICK n \in Nat : n = Len(s)
  OBVIOUS
<1>2. end \in 0 .. n
  <2>1. I \in SUBSET (1 .. n)
    BY <1>1, Zenon
  <2>2. \E i \in 0 .. n : i = (IF I # {} THEN Min(I) ELSE 0)
    BY <2>1, MinIndex, Zenon
  <2> QED
    BY <2>2, Zenon
<1>3. CASE end = 0
  BY <1>3
<1>4. CASE end # 0
  <2>1. PICK k \in 0 .. n : k = end - 1
    BY <1>2, <1>4
  <2>2. SubSeq(s, 1, k) \in Seq(S) /\ ElementsOf(SubSeq(s, 1, k)) \subseteq ElementsOf(s)
    BY <1>1, <2>1, PrefixIs
  <2> QED
    BY <1>4, <2>1, <2>2
<1> QED
  BY <1>3, <1>4

-----------------------------------------------------------------------------
(* Multiples of a size *)

\* Multiples compare as their factors do.
LEMMA MultipleOrder ==
    ASSUME NEW d \in Nat, d > 0, NEW a \in Int, NEW b \in Int, NEW n \in Nat, NEW x \in Int,
           a * d <= x, x < a * d + n * d, b * d <= x, x < b * d + d
    PROVE  a <= b /\ b < a + n
<1>1. ~ (b < a)
  <2> SUFFICES ASSUME b < a PROVE FALSE
    OBVIOUS
  <2>1. b * d + d <= a * d
    <3>1. PICK k \in Nat : a = b + 1 + k
      <4>1. a - b - 1 \in Nat /\ a = b + 1 + (a - b - 1)
        OBVIOUS
      <4> QED
        BY <4>1
    <3>2. a * d = b * d + d + k * d /\ k * d \in Nat /\ b * d \in Int
      BY <3>1
    <3> QED
      BY <3>2
  <2>2. a * d \in Int /\ b * d \in Int
    OBVIOUS
  <2> QED
    BY <2>1, <2>2
<1>2. ~ (a + n <= b)
  <2> SUFFICES ASSUME a + n <= b PROVE FALSE
    OBVIOUS
  <2>1. a * d + n * d <= b * d
    <3>1. PICK k \in Nat : b = a + n + k
      <4>1. b - a - n \in Nat /\ b = a + n + (b - a - n)
        OBVIOUS
      <4> QED
        BY <4>1
    <3>2. b * d = a * d + n * d + k * d /\ k * d \in Nat /\ a * d \in Int /\ n * d \in Int
      BY <3>1
    <3> QED
      BY <3>2
  <2>2. a * d \in Int /\ b * d \in Int /\ n * d \in Int
    OBVIOUS
  <2> QED
    BY <2>1, <2>2
<1> QED
  BY <1>1, <1>2

\* A byte of clusters in a row is a byte of one of them.
LEMMA MultipleRange ==
    ASSUME NEW d \in Nat, NEW a \in Nat, NEW n \in Nat, NEW c \in a .. a + n - 1
    PROVE  a * d <= c * d /\ c * d + d <= a * d + n * d
<1>1. PICK k \in Nat : c = a + k
  <2>1. c - a \in Nat /\ c = a + (c - a)
    OBVIOUS
  <2> QED
    BY <2>1
<1>2. PICK h \in Nat : a + n = c + 1 + h
  <2>1. a + n - c - 1 \in Nat /\ a + n = c + 1 + (a + n - c - 1)
    OBVIOUS
  <2> QED
    BY <2>1
<1>3. c * d = a * d + k * d /\ k * d \in Nat /\ a * d \in Nat
  BY <1>1
<1>4. a * d + n * d = c * d + d + h * d /\ h * d \in Nat /\ c * d \in Int /\ n * d \in Nat
  <2>1. n = k + 1 + h
    BY <1>1, <1>2
  <2>2. n * d = k * d + d + h * d /\ h * d \in Nat /\ n * d \in Nat /\ k * d \in Nat
    BY <2>1
  <2> QED
    BY <1>3, <2>2
<1> QED
  BY <1>3, <1>4

\* The position of a byte between two clusters.
LEMMA DivRange ==
    ASSUME NEW bs \in Nat, bs > 0, NEW x \in Int, NEW lo \in Int, NEW hi \in Int,
           lo * bs <= x, x < hi * bs
    PROVE  x \div bs \in Int /\ lo <= x \div bs /\ x \div bs < hi
<1>1. PICK q \in Int, m \in 0 .. bs - 1 : q = x \div bs /\ x = bs * q + m
  BY DivMod
<1>2. bs * q = q * bs /\ q * bs \in Int
  OBVIOUS
<1>3. ~ (q < lo)
  <2> SUFFICES ASSUME q < lo PROVE FALSE
    OBVIOUS
  <2>1. (q + 1) * bs <= lo * bs
    <3>1. q + 1 <= lo /\ q + 1 \in Int
      OBVIOUS
    <3> QED
      BY <3>1
  <2>2. (q + 1) * bs = q * bs + bs
    OBVIOUS
  <2> QED
    BY <1>1, <1>2, <2>1, <2>2
<1>4. ~ (hi <= q)
  <2> SUFFICES ASSUME hi <= q PROVE FALSE
    OBVIOUS
  <2>1. hi * bs <= q * bs
    OBVIOUS
  <2> QED
    BY <1>1, <1>2, <2>1
<1> QED
  BY <1>1, <1>3, <1>4

\* A multiple that is greater is greater by a whole cluster.
LEMMA NextMultiple ==
    ASSUME NEW d \in Nat, NEW k \in Int, NEW m \in Int, k * d < m * d
    PROVE  k * d + d <= m * d
<1>1. PICK a \in Int : a = k * d
  OBVIOUS
<1>2. PICK b \in Int : b = m * d
  OBVIOUS
<1>3. CASE m <= k
  <2>1. PICK n \in Nat : k = m + n
    <3>1. k - m \in Nat /\ k = m + (k - m)
      BY <1>3
    <3> QED
      BY <3>1
  <2>2. PICK c \in Nat : c = n * d
    OBVIOUS
  <2>3. a = b + c
    BY <1>1, <1>2, <2>1, <2>2
  <2> QED
    BY <1>1, <1>2, <2>3
<1>4. CASE ~ (m <= k)
  <2>1. PICK n \in Nat : m = k + 1 + n
    <3>1. m - k - 1 \in Nat /\ m = k + 1 + (m - k - 1)
      BY <1>4
    <3> QED
      BY <3>1
  <2>2. PICK c \in Nat : c = n * d
    OBVIOUS
  <2>3. b = a + d + c
    BY <1>1, <1>2, <2>1, <2>2
  <2> QED
    BY <1>1, <1>2, <2>3
<1> QED
  BY <1>3, <1>4

-----------------------------------------------------------------------------
(* Byte ranges: sorting and merging *)

\* What the NTFS pass hands to kaifuku_mark_used_ranges.
ByteRange == [ offset : Nat, size : Nat \ {0} ]

\* A range of bytes, as the set of its addresses.
Span(r) == r.offset .. r.offset + r.size - 1

SpanOf(S) == UNION { Span(r) : r \in S }

Covered(s) == SpanOf(ElementsOf(s))

Ascending(s) == \A i, j \in 1 .. Len(s) : i < j => s[i].offset <= s[j].offset

\* Insert yields ranges.
LEMMA InsertType ==
    ASSUME NEW m \in Seq(ByteRange), NEW r \in ByteRange
    PROVE  /\ Insert(m, r) \in Seq(ByteRange)
           /\ \E i \in 1 .. Len(m) + 1 :
                 /\ Len(Insert(m, r)) = Len(m) + 1
                 /\ \A j \in 1 .. Len(m) + 1 :
                      Insert(m, r)[j] = IF j < i THEN m[j] ELSE IF j = i THEN r ELSE m[j - 1]
                 /\ \A j \in 1 .. Len(m) : j < i => m[j].offset <= r.offset
                 /\ i <= Len(m) => r.offset < m[i].offset
<1>1. PICK n \in Nat : n = Len(m)
  OBVIOUS
<1>2. PICK I : I = { k \in 1 .. n : r.offset < m[k].offset }
  OBVIOUS
<1>3. PICK i \in 0 .. n : /\ i = (IF I # {} THEN Min(I) ELSE 0)
                          /\ i = 0 => I = {}
                          /\ i # 0 => i \in I /\ \A k \in I : i <= k
  <2>1. I \in SUBSET (1 .. n)
    BY <1>2
  <2> QED
    BY <2>1, MinIndex
<1>4. SelectInSeq(m, LAMBDA x : r.offset < x.offset) = i
  BY <1>1, <1>2, <1>3, Zenon DEF SelectInSeq
<1>5. Insert(m, r) = IF i = 0 THEN Append(m, r) ELSE InsertAt(m, i, r)
  BY <1>4, Zenon DEF Insert
<1>6. \A j \in 1 .. n : m[j] \in ByteRange
  BY <1>1
<1>7. \A j \in 1 .. n : m[j].offset \in Nat /\ r.offset \in Nat
  BY <1>6 DEF ByteRange
<1>8. CASE i = 0
  <2>1. Insert(m, r) = Append(m, r)
    BY <1>5, <1>8
  <2>2. /\ Append(m, r) \in Seq(ByteRange) /\ Len(Append(m, r)) = n + 1
        /\ \A j \in 1 .. n : Append(m, r)[j] = m[j]
        /\ Append(m, r)[n + 1] = r
    BY <1>1, AppendProperties
  <2>3. \A j \in 1 .. n : m[j].offset <= r.offset
    BY <1>2, <1>3, <1>7, <1>8
  <2>4. \A j \in 1 .. n + 1 :
          Append(m, r)[j] = IF j < n + 1 THEN m[j] ELSE IF j = n + 1 THEN r ELSE m[j - 1]
    BY <2>2
  <2>5. n + 1 \in 1 .. n + 1 /\ ~ (n + 1 <= n)
    OBVIOUS
  <2> HIDE DEF Insert
  <2> QED
    BY <1>1, <2>1, <2>2, <2>3, <2>4, <2>5
<1>9. CASE i # 0
  <2>1. Insert(m, r) = InsertAt(m, i, r)
    BY <1>5, <1>9
  <2>2. i \in 1 .. n + 1 /\ i \in 1 .. n
    BY <1>9
  <2>3. /\ InsertAt(m, i, r) \in Seq(ByteRange) /\ Len(InsertAt(m, i, r)) = Len(m) + 1
        /\ \A j \in 1 .. Len(m) + 1 :
              InsertAt(m, i, r)[j] = IF j < i THEN m[j] ELSE IF j = i THEN r ELSE m[j - 1]
    <3>1. i \in 1 .. Len(m) + 1
      BY <1>1, <2>2
    <3>2. PICK S : S = ByteRange
      OBVIOUS
    <3>3. m \in Seq(S) /\ r \in S
      BY <3>2
    <3>4. /\ InsertAt(m, i, r) \in Seq(S)
          /\ Len(InsertAt(m, i, r)) = Len(m) + 1
          /\ \A j \in 1 .. Len(m) + 1 :
                InsertAt(m, i, r)[j] = IF j < i THEN m[j] ELSE IF j = i THEN r ELSE m[j - 1]
      BY ONLY <3>1, <3>3, InsertAtIs
    <3> QED
      BY <3>2, <3>4
  <2>4. r.offset < m[i].offset
    BY <1>2, <1>3, <1>9
  <2>5. ASSUME NEW j \in 1 .. n, j < i PROVE m[j].offset <= r.offset
    <3>1. j \notin I
      BY <1>3, <1>9, <2>5
    <3> QED
      BY <1>2, <1>7, <3>1
  <2> QED
    BY <1>1, <2>1, <2>2, <2>3, <2>4, <2>5
<1> QED
  BY <1>8, <1>9

\* Insert keeps the ranges sorted by their offsets.
LEMMA InsertSorted ==
    ASSUME NEW m \in Seq(ByteRange), Ascending(m), NEW r \in ByteRange,
           NEW t, t = Insert(m, r)
    PROVE  /\ t \in Seq(ByteRange) /\ Ascending(t)
           /\ ElementsOf(t) = ElementsOf(m) \cup { r }
<1>1. PICK n \in Nat : n = Len(m)
  OBVIOUS
<1>a. \E i \in 1 .. Len(m) + 1 :
        /\ Len(t) = Len(m) + 1
        /\ \A j \in 1 .. Len(m) + 1 : t[j] = IF j < i THEN m[j] ELSE IF j = i THEN r ELSE m[j - 1]
        /\ \A j \in 1 .. Len(m) : j < i => m[j].offset <= r.offset
        /\ i <= Len(m) => r.offset < m[i].offset
  BY InsertType, Zenon
<1>2. PICK i \in 1 .. n + 1 :
        /\ Len(t) = n + 1
        /\ \A j \in 1 .. n + 1 : t[j] = IF j < i THEN m[j] ELSE IF j = i THEN r ELSE m[j - 1]
        /\ \A j \in 1 .. n : j < i => m[j].offset <= r.offset
        /\ i <= n => r.offset < m[i].offset
  BY <1>1, <1>a
<1>3. t \in Seq(ByteRange)
  BY InsertType
<1>4. \A j \in 1 .. n : m[j].offset \in Nat /\ r.offset \in Nat
  <2>1. \A j \in 1 .. n : m[j] \in ByteRange
    BY <1>1
  <2> QED
    BY <2>1 DEF ByteRange
<1>5. \A j, k \in 1 .. n : j < k => m[j].offset <= m[k].offset
  BY <1>1 DEF Ascending
<1>6. ASSUME NEW j \in 1 .. n, i <= j PROVE r.offset <= m[j].offset
  <2>1. i \in 1 .. n /\ r.offset < m[i].offset
    BY <1>2, <1>6
  <2>2. m[i].offset <= m[j].offset
    BY <1>4, <1>5, <1>6, <2>1
  <2> QED
    BY <1>4, <2>1, <2>2
<1>7. ASSUME NEW j \in 1 .. n + 1, NEW k \in 1 .. n + 1, j < k PROVE t[j].offset <= t[k].offset
  <2>1. CASE k < i
    <3>1. t[j] = m[j] /\ t[k] = m[k] /\ j \in 1 .. n /\ k \in 1 .. n
      BY <1>2, <1>7, <2>1
    <3> QED
      BY <1>5, <1>7, <3>1
  <2>2. CASE k = i
    <3>1. t[j] = m[j] /\ t[k] = r /\ j \in 1 .. n
      BY <1>2, <1>7, <2>2
    <3> QED
      BY <1>2, <1>7, <2>2, <3>1
  <2>3. CASE k > i
    <3>1. t[k] = m[k - 1] /\ k - 1 \in 1 .. n
      BY <1>2, <2>3
    <3>2. CASE j < i
      <4>1. t[j] = m[j] /\ j \in 1 .. n /\ j < k - 1
        BY <1>2, <1>7, <2>3, <3>2
      <4> QED
        BY <1>5, <3>1, <4>1
    <3>3. CASE j = i
      <4>1. t[j] = r /\ i <= k - 1
        BY <1>2, <2>3, <3>3
      <4> QED
        BY <1>6, <3>1, <4>1
    <3>4. CASE j > i
      <4>1. t[j] = m[j - 1] /\ j - 1 \in 1 .. n /\ j - 1 < k - 1
        BY <1>2, <1>7, <3>4
      <4> QED
        BY <1>5, <3>1, <4>1
    <3> QED
      BY <3>2, <3>3, <3>4
  <2> QED
    BY <2>1, <2>2, <2>3
<1>8. Ascending(t)
  BY <1>2, <1>7 DEF Ascending
<1>9. \A x : x \in ElementsOf(t) <=> \E j \in 1 .. n + 1 : x = t[j]
  BY <1>2 DEF ElementsOf
<1>10. \A x : x \in ElementsOf(m) <=> \E j \in 1 .. n : x = m[j]
  BY <1>1 DEF ElementsOf
<1>11. ASSUME NEW j \in 1 .. n + 1 PROVE t[j] = r \/ \E k \in 1 .. n : t[j] = m[k]
  <2>1. CASE j < i
    <3>1. j \in 1 .. n /\ t[j] = m[j]
      BY <1>2, <2>1
    <3> QED
      BY <3>1
  <2>2. CASE j = i
    BY <1>2, <2>2
  <2>3. CASE j > i
    <3>1. j - 1 \in 1 .. n /\ t[j] = m[j - 1]
      BY <1>2, <2>3
    <3> QED
      BY <3>1
  <2> QED
    BY <2>1, <2>2, <2>3
<1>12. ASSUME NEW k \in 1 .. n PROVE \E j \in 1 .. n + 1 : m[k] = t[j]
  <2>1. CASE k < i
    <3>1. k \in 1 .. n + 1 /\ t[k] = m[k]
      BY <1>2, <2>1
    <3> QED
      BY <3>1
  <2>2. CASE ~ (k < i)
    <3>1. k + 1 \in 1 .. n + 1 /\ k + 1 - 1 = k /\ ~ (k + 1 < i) /\ k + 1 # i
      BY <2>2
    <3>2. t[k + 1] = m[k]
      BY <1>2, <3>1
    <3> QED
      BY <3>1, <3>2
  <2> QED
    BY <2>1, <2>2
<1>13. t[i] = r
  BY <1>2
<1>14. ElementsOf(t) = ElementsOf(m) \cup { r }
  <2>1. \A x : x \in ElementsOf(t) => x \in ElementsOf(m) \cup { r }
    BY <1>9, <1>10, <1>11
  <2>2. \A x : x \in ElementsOf(m) \cup { r } => x \in ElementsOf(t)
    BY <1>9, <1>10, <1>12, <1>13
  <2> QED
    BY <2>1, <2>2
<1> QED
  BY <1>3, <1>8, <1>14

\* The sort is the last of a chain of sequences, one for each range.
LEMMA SortSteps ==
    ASSUME NEW l \in Seq(ByteRange)
    PROVE  \E w : /\ w[0] = << >> /\ w[Len(l)] = sort_by_offset(l)
                  /\ \A k \in 1 .. Len(l) : w[k] = Insert(w[k - 1], l[k])
<1> DEFINE n == Len(l)
<1>a. n \in Nat /\ DOMAIN l = 1 .. n
  OBVIOUS
<1>b. \A i \in 1 .. n : l[i] \in ByteRange
  OBVIOUS
<1> HIDE DEF n
<1> DEFINE X == Seq(ByteRange)
           F == [ p \in (1 .. n) \X X |-> Insert(p[2], l[p[1]]) ]
           Eq(g) == g = [ s \in SUBSET (DOMAIN l) |->
                           IF s = {} THEN << >> ELSE Insert(g[s \ { Max(s) }], l[Max(s)]) ]
           c == CHOOSE g : Eq(g)
<1>1. sort_by_offset(l) = c[DOMAIN l]
  BY DEF sort_by_offset, FoldLeft, MapThenFoldSet
<1>0. << >> \in X
  OBVIOUS
<1>2. \A i \in 1 .. n : \A m \in X : F[<< i, m >>] = Insert(m, l[i])
  OBVIOUS
<1>3. F \in [(1 .. n) \X X -> X]
  BY <1>b, InsertType
<1> HIDE DEF F, X
<1>4. PICK g \in [SUBSET (1 .. n) -> X] : FoldEquation(g, n, << >>, F)
  BY <1>3, <1>0, <1>a, FoldExists
<1>5. ASSUME NEW s \in SUBSET (1 .. n)
      PROVE  g[s] = IF s = {} THEN << >> ELSE Insert(g[s \ { Max(s) }], l[Max(s)])
  <2>1. g[s] = IF s = {} THEN << >> ELSE F[<< Max(s), g[s \ { Max(s) }] >>]
    BY <1>4 DEF FoldEquation
  <2>2. CASE s # {}
    <3>1. Max(s) \in s
      BY <1>a, <2>2, MaxProperty
    <3>2. g[s \ { Max(s) }] \in X
      BY <1>4
    <3> QED
      BY <1>2, <2>1, <2>2, <3>1, <3>2
  <2> QED
    BY <2>1, <2>2
<1>6. Eq(g)
  BY <1>4, <1>5, <1>a
<1>7. Eq(c)
  BY <1>6
<1> HIDE DEF c
<1> DEFINE w == [ k \in 0 .. n |-> c[1 .. k] ]
<1>8. w[0] = << >>
  <2>1. 1 .. 0 = {} /\ {} \in SUBSET (DOMAIN l) /\ 0 \in 0 .. n
    BY <1>a
  <2> QED
    BY <1>7, <2>1
<1>9. ASSUME NEW k \in 1 .. n
      PROVE  w[k] = Insert(w[k - 1], l[k])
  <2>1. Max(1 .. k) = k /\ 1 .. k # {} /\ (1 .. k) \ { k } = 1 .. (k - 1)
    <3>1. k \in Nat /\ k >= 1
      BY <1>a
    <3> QED
      BY <3>1, UpTo
  <2>2. 1 .. k \in SUBSET (DOMAIN l)
    BY <1>a
  <2>3. k - 1 \in 0 .. n /\ k \in 0 .. n
    BY <1>a
  <2> QED
    BY <1>7, <2>1, <2>2, <2>3
<1>10. w[n] = sort_by_offset(l)
  BY <1>1, <1>a
<1> HIDE DEF w
<1> WITNESS w
<1> QED
  BY <1>8, <1>9, <1>10 DEF n

\* sort_by_offset sorts, and keeps every range.
LEMMA SortOK ==
    ASSUME NEW l \in Seq(ByteRange)
    PROVE  /\ sort_by_offset(l) \in Seq(ByteRange) /\ Ascending(sort_by_offset(l))
           /\ ElementsOf(sort_by_offset(l)) = ElementsOf(l)
<1>a. \E w : /\ w[0] = << >> /\ w[Len(l)] = sort_by_offset(l)
             /\ \A k \in 1 .. Len(l) : w[k] = Insert(w[k - 1], l[k])
  BY SortSteps
<1>1. PICK w : /\ w[0] = << >> /\ w[Len(l)] = sort_by_offset(l)
               /\ \A k \in 1 .. Len(l) : w[k] = Insert(w[k - 1], l[k])
  BY <1>a, Zenon
<1>2. PICK n \in Nat : n = Len(l)
  OBVIOUS
<1>3. \A k \in 1 .. n : l[k] \in ByteRange
  BY <1>2
<1> DEFINE E(k) == { l[i] : i \in 1 .. k }
           T == { k \in 0 .. n : /\ w[k] \in Seq(ByteRange) /\ Ascending(w[k])
                                 /\ ElementsOf(w[k]) = E(k) }
<1>4. 0 \in T
  <2>1. << >> \in Seq(ByteRange) /\ Ascending(<< >>) /\ ElementsOf(<< >>) = {}
    BY DEF Ascending, ElementsOf
  <2>2. E(0) = {}
    OBVIOUS
  <2> HIDE DEF E
  <2>3. w[0] \in Seq(ByteRange) /\ Ascending(w[0]) /\ ElementsOf(w[0]) = E(0)
    BY <1>1, <2>1, <2>2
  <2>4. 0 \in 0 .. n
    OBVIOUS
  <2> QED
    BY <2>3, <2>4, Zenon
<1>5. ASSUME NEW k \in 1 .. n, k - 1 \in T PROVE k \in T
  <2>1. PICK m : m = w[k - 1]
    OBVIOUS
  <2>2. m \in Seq(ByteRange) /\ Ascending(m) /\ ElementsOf(m) = E(k - 1)
    BY <1>5, <2>1
  <2>3. PICK t : t = Insert(m, l[k])
    OBVIOUS
  <2>4. /\ t \in Seq(ByteRange) /\ Ascending(t)
        /\ ElementsOf(t) = ElementsOf(m) \cup { l[k] }
    BY <1>3, <2>2, <2>3, InsertSorted
  <2>5. w[k] = t
    BY <1>1, <1>2, <2>1, <2>3
  <2>6. E(k) = E(k - 1) \cup { l[k] }
    <3>1. 1 .. k = (1 .. k - 1) \cup { k }
      OBVIOUS
    <3> QED
      BY <3>1
  <2> HIDE DEF E
  <2>7. w[k] \in Seq(ByteRange) /\ Ascending(w[k]) /\ ElementsOf(w[k]) = E(k)
    BY <2>2, <2>4, <2>5, <2>6
  <2>8. k \in 0 .. n
    OBVIOUS
  <2> QED
    BY <2>7, <2>8, Zenon
<1>6. 0 .. n \subseteq T
  <2> HIDE DEF T
  <2> QED
    BY <1>4, <1>5, SetInduction
<1>7. n \in T
  <2> HIDE DEF T
  <2>1. n \in 0 .. n
    OBVIOUS
  <2> QED
    BY <1>6, <2>1
<1>8. E(n) = ElementsOf(l)
  BY <1>2 DEF ElementsOf
<1> QED
  BY <1>1, <1>2, <1>7, <1>8

\* The bytes of a range.
LEMMA SpanIs ==
    ASSUME NEW r \in ByteRange
    PROVE  /\ Span(r) \subseteq Int
           /\ \A b \in Int : b \in Span(r) <=> r.offset <= b /\ b < r.offset + r.size
<1>1. PICK o \in Nat : o = r.offset
  BY DEF ByteRange
<1>2. PICK s \in Nat : s = r.size
  BY DEF ByteRange
<1>3. Span(r) = o .. o + s - 1
  BY <1>1, <1>2 DEF Span
<1> QED
  BY <1>1, <1>2, <1>3

\* The bytes of one more range.
LEMMA SpanOfUnion ==
    ASSUME NEW S, NEW r
    PROVE  SpanOf(S \cup { r }) = SpanOf(S) \cup Span(r)
<1>1. \A b : b \in SpanOf(S \cup { r }) <=> b \in SpanOf(S) \/ b \in Span(r)
  BY DEF SpanOf
<1> QED
  BY <1>1

\* The last element of a sequence that is not empty.
LEMMA LastIn ==
    ASSUME NEW S, NEW s \in Seq(S), s # << >>
    PROVE  Last(s) \in S /\ Len(s) >= 1 /\ Last(s) = s[Len(s)]
<1>1. Len(s) # 0
  BY EmptySeq
<1>2. Len(s) \in 1 .. Len(s)
  BY <1>1
<1> QED
  BY <1>2 DEF Last

\* Merge lets the last range reach further, or adds the new one.
LEMMA MergeIs ==
    ASSUME NEW m \in Seq(ByteRange), NEW r \in ByteRange
    PROVE  \/ Merge(m, r) = Append(m, r) /\ (m = << >> \/ r.offset > Last(m).offset + Last(m).size)
           \/ /\ m # << >> /\ r.offset <= Last(m).offset + Last(m).size
              /\ \E y \in ByteRange :
                    /\ Merge(m, r) = [ m EXCEPT ![Len(m)] = y ]
                    /\ y.offset = Last(m).offset
                    /\ y.offset + y.size = IF r.offset + r.size > Last(m).offset + Last(m).size
                                             THEN r.offset + r.size
                                             ELSE Last(m).offset + Last(m).size
<1>1. CASE m = << >> \/ ~ (r.offset <= Last(m).offset + Last(m).size)
  <2>1. Merge(m, r) = Append(m, r)
    BY <1>1, Zenon DEF Merge
  <2>2. m # << >> => Last(m) \in ByteRange
    BY LastIn
  <2>3. m # << >> => r.offset > Last(m).offset + Last(m).size
    BY <1>1, <2>2 DEF ByteRange
  <2> QED
    BY <2>1, <2>3
<1>2. CASE m # << >> /\ r.offset <= Last(m).offset + Last(m).size
  <2>1. PICK x \in ByteRange : x = Last(m)
    BY <1>2, LastIn
  <2>2. x = m[Len(m)]
    BY <2>1 DEF Last
  <2>3. PICK end : end = (IF r.offset + r.size > x.offset + x.size
                            THEN r.offset + r.size ELSE x.offset + x.size)
    OBVIOUS
  <2>4. PICK v : v = end - x.offset
    OBVIOUS
  <2>5. x.offset \in Nat /\ x.size \in Nat /\ x.size > 0 /\ r.offset \in Nat /\ r.size \in Nat
    BY DEF ByteRange
  <2>6. v \in Nat /\ v > 0 /\ x.offset + v = end
    BY <2>3, <2>4, <2>5
  <2>7. PICK y : y = [ x EXCEPT !.size = v ]
    OBVIOUS
  <2>8. y \in ByteRange /\ y.offset = x.offset /\ y.size = v
    BY <2>6, <2>7 DEF ByteRange
  <2>9. Merge(m, r) = [ m EXCEPT ![Len(m)].size = v ]
    BY <1>2, <2>1, <2>3, <2>4, Zenon DEF Merge
  <2>10. [ m EXCEPT ![Len(m)].size = v ] = [ m EXCEPT ![Len(m)] = y ]
    BY <2>2, <2>7, Zenon
  <2>11. y.offset + y.size = end
    BY <2>6, <2>8
  <2>12. Merge(m, r) = [ m EXCEPT ![Len(m)] = y ]
    BY <2>9, <2>10, Zenon
  <2> QED
    BY <1>2, <2>1, <2>3, <2>8, <2>11, <2>12, Zenon
<1> QED
  BY <1>1, <1>2

\* Merge yields ranges.
LEMMA MergeType ==
    ASSUME NEW m \in Seq(ByteRange), NEW r \in ByteRange
    PROVE  Merge(m, r) \in Seq(ByteRange)
<1>1. CASE Merge(m, r) = Append(m, r)
  BY <1>1, AppendProperties
<1>2. CASE m # << >> /\ \E y \in ByteRange : Merge(m, r) = [ m EXCEPT ![Len(m)] = y ]
  <2>1. PICK y \in ByteRange : Merge(m, r) = [ m EXCEPT ![Len(m)] = y ]
    BY <1>2
  <2>2. [ m EXCEPT ![Len(m)] = y ] \in Seq(ByteRange)
    <3>1. PICK n \in Nat : n = Len(m) /\ n >= 1
      BY <1>2, LastIn
    <3>2. [ m EXCEPT ![n] = y ] \in Seq(ByteRange)
      BY <3>1, ExceptSeq
    <3> QED
      BY <3>1, <3>2, Zenon
  <2> QED
    BY <2>1, <2>2, Zenon
<1> QED
  BY <1>1, <1>2, MergeIs, Zenon

\* A range that begins no earlier than the last one joins what is covered.
LEMMA MergeCovers ==
    ASSUME NEW m \in Seq(ByteRange), NEW r \in ByteRange, NEW t, t = Merge(m, r),
           m # << >> => Last(m).offset <= r.offset
    PROVE  /\ t \in Seq(ByteRange) /\ t # << >> /\ Last(t).offset <= r.offset
           /\ Covered(t) = Covered(m) \cup Span(r)
<1>t. t \in Seq(ByteRange)
  BY MergeType
<1>r. r.offset \in Nat /\ r.size \in Nat /\ r.size > 0
  BY DEF ByteRange
<1>1. PICK n \in Nat : n = Len(m)
  OBVIOUS
<1>2. CASE t = Append(m, r)
  <2>1. /\ Len(t) = n + 1 /\ t[n + 1] = r /\ \A i \in 1 .. n : t[i] = m[i]
    BY <1>1, <1>2
  <2>2. Last(t) = r /\ t # << >>
    BY <1>t, <2>1 DEF Last
  <2>3. ElementsOf(t) = ElementsOf(m) \cup { r }
    <3>1. 1 .. n + 1 = (1 .. n) \cup { n + 1 }
      OBVIOUS
    <3> QED
      BY <1>1, <2>1, <3>1 DEF ElementsOf
  <2>4. Covered(t) = Covered(m) \cup Span(r)
    BY <2>3, SpanOfUnion DEF Covered
  <2> QED
    BY <1>t, <1>r, <2>2, <2>4
<1>3. CASE /\ m # << >> /\ r.offset <= Last(m).offset + Last(m).size
           /\ \E y \in ByteRange :
                /\ t = [ m EXCEPT ![Len(m)] = y ]
                /\ y.offset = Last(m).offset
                /\ y.offset + y.size = IF r.offset + r.size > Last(m).offset + Last(m).size
                                         THEN r.offset + r.size ELSE Last(m).offset + Last(m).size
  <2>1. PICK x \in ByteRange : x = Last(m)
    BY <1>3, LastIn
  <2>2. PICK y \in ByteRange :
          /\ t = [ m EXCEPT ![n] = y ]
          /\ y.offset = x.offset
          /\ y.offset + y.size = IF r.offset + r.size > x.offset + x.size
                                   THEN r.offset + r.size ELSE x.offset + x.size
    BY <1>1, <1>3, <2>1
  <2>3. n >= 1 /\ x = m[n]
    BY <1>1, <1>3, <2>1, EmptySeq DEF Last
  <2>4. Len(t) = n /\ t[n] = y /\ \A i \in 1 .. n - 1 : t[i] = m[i]
    BY <1>1, <2>2, <2>3
  <2>5. Last(t) = y /\ t # << >>
    BY <1>t, <2>3, <2>4 DEF Last
  <2>6. /\ x.offset \in Nat /\ x.size \in Nat /\ x.size > 0 /\ y.offset \in Nat /\ y.size \in Nat
        /\ x.offset <= r.offset /\ r.offset <= x.offset + x.size
    BY <1>3, <2>1 DEF ByteRange
  <2>7. \A b \in Int : b \in Span(y) <=> b \in Span(x) \/ b \in Span(r)
    <3>a. PICK xo \in Nat : xo = x.offset
      BY <2>6
    <3>b. PICK xe \in Int : xe = x.offset + x.size
      BY <2>6
    <3>c. PICK ye \in Int : ye = y.offset + y.size
      BY <2>6
    <3>d. PICK ro \in Nat : ro = r.offset
      BY <1>r
    <3>e. PICK re \in Int : re = r.offset + r.size
      BY <1>r
    <3>1. /\ xo = x.offset /\ xe = x.offset + x.size /\ ye = y.offset + y.size
          /\ ro = r.offset /\ re = r.offset + r.size
      BY <3>a, <3>b, <3>c, <3>d, <3>e
    <3>2. ye = (IF re > xe THEN re ELSE xe) /\ xo <= ro /\ ro <= xe /\ y.offset = xo
      BY <2>2, <2>6, <3>1
    <3>3. ASSUME NEW b \in Int PROVE b \in Span(y) <=> b \in Span(x) \/ b \in Span(r)
      <4>1. b \in Span(x) <=> xo <= b /\ b < xe
        BY <3>1, SpanIs
      <4>2. b \in Span(y) <=> xo <= b /\ b < ye
        BY <3>1, <3>2, SpanIs
      <4>3. b \in Span(r) <=> ro <= b /\ b < re
        BY <3>1, SpanIs
      <4> QED
        BY <3>2, <4>1, <4>2, <4>3
    <3> QED
      BY <3>3
  <2>8. Span(y) = Span(x) \cup Span(r)
    <3>1. Span(y) \subseteq Int /\ Span(x) \subseteq Int /\ Span(r) \subseteq Int
      BY <1>r, <2>6 DEF Span
    <3> QED
      BY <2>7, <3>1
  <2> DEFINE F == { m[i] : i \in 1 .. n - 1 }
  <2>9. ElementsOf(t) = F \cup { y } /\ ElementsOf(m) = F \cup { x }
    <3>1. 1 .. n = (1 .. n - 1) \cup { n }
      BY <2>3
    <3>2. { t[i] : i \in 1 .. n - 1 } = F
      BY <2>4
    <3> QED
      BY <1>1, <2>3, <2>4, <3>1, <3>2 DEF ElementsOf
  <2> HIDE DEF F
  <2>10. Covered(t) = SpanOf(F) \cup Span(y) /\ Covered(m) = SpanOf(F) \cup Span(x)
    <3>1. \A z : SpanOf(F \cup { z }) = SpanOf(F) \cup Span(z)
      BY SpanOfUnion
    <3> QED
      BY <2>9, <3>1 DEF Covered
  <2>11. Covered(t) = Covered(m) \cup Span(r)
    BY <2>8, <2>10
  <2> QED
    BY <1>t, <2>2, <2>5, <2>6, <2>11
<1>4. PICK u : u = Merge(m, r)
  OBVIOUS
<1> QED
  BY <1>2, <1>3, MergeIs, Zenon

\* Merging is a chain of sequences too.
LEMMA MergeSteps ==
    ASSUME NEW l \in Seq(ByteRange)
    PROVE  \E w : /\ w[0] = << >> /\ w[Len(l)] = FoldLeft(Merge, << >>, l)
                  /\ \A k \in 1 .. Len(l) : w[k] = Merge(w[k - 1], l[k])
<1> DEFINE n == Len(l)
<1>a. n \in Nat /\ DOMAIN l = 1 .. n
  OBVIOUS
<1>b. \A i \in 1 .. n : l[i] \in ByteRange
  OBVIOUS
<1> HIDE DEF n
<1> DEFINE X == Seq(ByteRange)
           F == [ p \in (1 .. n) \X X |-> Merge(p[2], l[p[1]]) ]
           Eq(g) == g = [ s \in SUBSET (DOMAIN l) |->
                           IF s = {} THEN << >> ELSE Merge(g[s \ { Max(s) }], l[Max(s)]) ]
           c == CHOOSE g : Eq(g)
<1>1. FoldLeft(Merge, << >>, l) = c[DOMAIN l]
  BY DEF FoldLeft, MapThenFoldSet
<1>0. << >> \in X
  OBVIOUS
<1>2. \A i \in 1 .. n : \A m \in X : F[<< i, m >>] = Merge(m, l[i])
  OBVIOUS
<1>3. F \in [(1 .. n) \X X -> X]
  BY <1>b, MergeType
<1> HIDE DEF F, X
<1>4. PICK g \in [SUBSET (1 .. n) -> X] : FoldEquation(g, n, << >>, F)
  BY <1>3, <1>0, <1>a, FoldExists
<1>5. ASSUME NEW s \in SUBSET (1 .. n)
      PROVE  g[s] = IF s = {} THEN << >> ELSE Merge(g[s \ { Max(s) }], l[Max(s)])
  <2>1. g[s] = IF s = {} THEN << >> ELSE F[<< Max(s), g[s \ { Max(s) }] >>]
    BY <1>4 DEF FoldEquation
  <2>2. CASE s # {}
    <3>1. Max(s) \in s
      BY <1>a, <2>2, MaxProperty
    <3>2. g[s \ { Max(s) }] \in X
      BY <1>4
    <3> QED
      BY <1>2, <2>1, <2>2, <3>1, <3>2
  <2> QED
    BY <2>1, <2>2
<1>6. Eq(g)
  BY <1>4, <1>5, <1>a
<1>7. Eq(c)
  BY <1>6
<1> HIDE DEF c
<1> DEFINE w == [ k \in 0 .. n |-> c[1 .. k] ]
<1>8. w[0] = << >>
  <2>1. 1 .. 0 = {} /\ {} \in SUBSET (DOMAIN l) /\ 0 \in 0 .. n
    BY <1>a
  <2> QED
    BY <1>7, <2>1
<1>9. ASSUME NEW k \in 1 .. n
      PROVE  w[k] = Merge(w[k - 1], l[k])
  <2>1. Max(1 .. k) = k /\ 1 .. k # {} /\ (1 .. k) \ { k } = 1 .. (k - 1)
    <3>1. k \in Nat /\ k >= 1
      BY <1>a
    <3> QED
      BY <3>1, UpTo
  <2>2. 1 .. k \in SUBSET (DOMAIN l)
    BY <1>a
  <2>3. k - 1 \in 0 .. n /\ k \in 0 .. n
    BY <1>a
  <2> QED
    BY <1>7, <2>1, <2>2, <2>3
<1>10. w[n] = FoldLeft(Merge, << >>, l)
  BY <1>1, <1>a
<1> HIDE DEF w
<1> WITNESS w
<1> QED
  BY <1>8, <1>9, <1>10 DEF n

\* merge_ranges covers what the ranges cover, whatever order they come in.
LEMMA MergeOK ==
    ASSUME NEW v \in Seq(ByteRange)
    PROVE  merge_ranges(v) \in Seq(ByteRange) /\ Covered(merge_ranges(v)) = Covered(v)
<1>1. PICK l : l = sort_by_offset(v)
  OBVIOUS
<1>2. l \in Seq(ByteRange) /\ Ascending(l) /\ ElementsOf(l) = ElementsOf(v)
  BY <1>1, SortOK
<1>3. merge_ranges(v) = FoldLeft(Merge, << >>, l)
  BY <1>1 DEF merge_ranges
<1>a. \E w : /\ w[0] = << >> /\ w[Len(l)] = FoldLeft(Merge, << >>, l)
             /\ \A k \in 1 .. Len(l) : w[k] = Merge(w[k - 1], l[k])
  BY <1>2, MergeSteps
<1>4. PICK w : /\ w[0] = << >> /\ w[Len(l)] = FoldLeft(Merge, << >>, l)
               /\ \A k \in 1 .. Len(l) : w[k] = Merge(w[k - 1], l[k])
  BY <1>a, Zenon
<1>5. PICK n \in Nat : n = Len(l)
  BY <1>2
<1>6. \A k \in 1 .. n : l[k] \in ByteRange
  BY <1>2, <1>5
<1>7. \A i, j \in 1 .. n : i < j => l[i].offset <= l[j].offset
  BY <1>2, <1>5 DEF Ascending
<1> DEFINE E(k) == UNION { Span(l[i]) : i \in 1 .. k }
           T == { k \in 0 .. n : /\ w[k] \in Seq(ByteRange)
                                 /\ (w[k] # << >> => k # 0 /\ Last(w[k]).offset <= l[k].offset)
                                 /\ Covered(w[k]) = E(k) }
<1>8. 0 \in T
  <2>1. << >> \in Seq(ByteRange) /\ Covered(<< >>) = {}
    BY DEF Covered, ElementsOf, SpanOf
  <2>2. E(0) = {}
    OBVIOUS
  <2> HIDE DEF E
  <2>3. /\ w[0] \in Seq(ByteRange)
        /\ (w[0] # << >> => 0 # 0 /\ Last(w[0]).offset <= l[0].offset)
        /\ Covered(w[0]) = E(0)
    BY <1>4, <2>1, <2>2
  <2>4. 0 \in 0 .. n
    OBVIOUS
  <2> QED
    BY <2>3, <2>4, Zenon
<1>9. ASSUME NEW k \in 1 .. n, k - 1 \in T PROVE k \in T
  <2>1. PICK m : m = w[k - 1]
    OBVIOUS
  <2>2. /\ m \in Seq(ByteRange) /\ Covered(m) = E(k - 1)
        /\ (m # << >> => k - 1 # 0 /\ Last(m).offset <= l[k - 1].offset)
    BY <1>9, <2>1
  <2>3. m # << >> => Last(m).offset <= l[k].offset
    <3>1. CASE k - 1 # 0
      <4>1. k - 1 \in 1 .. n /\ k - 1 < k
        BY <3>1
      <4>2. l[k - 1].offset <= l[k].offset
        BY <1>7, <4>1
      <4>3. l[k - 1] \in ByteRange /\ l[k] \in ByteRange /\ (m # << >> => Last(m) \in ByteRange)
        BY <1>6, <2>2, <4>1, LastIn
      <4> QED
        BY <2>2, <4>2, <4>3 DEF ByteRange
    <3> QED
      BY <2>2, <3>1
  <2>4. PICK t : t = Merge(m, l[k])
    OBVIOUS
  <2>5. /\ t \in Seq(ByteRange) /\ Last(t).offset <= l[k].offset
        /\ Covered(t) = Covered(m) \cup Span(l[k])
    BY <1>6, <2>2, <2>3, <2>4, MergeCovers
  <2>6. w[k] = t
    BY <1>4, <1>5, <2>1, <2>4
  <2>7. E(k) = E(k - 1) \cup Span(l[k])
    <3>1. 1 .. k = (1 .. k - 1) \cup { k }
      OBVIOUS
    <3> QED
      BY <3>1
  <2> HIDE DEF E
  <2>8. /\ w[k] \in Seq(ByteRange)
        /\ (w[k] # << >> => k # 0 /\ Last(w[k]).offset <= l[k].offset)
        /\ Covered(w[k]) = E(k)
    BY <2>2, <2>5, <2>6, <2>7
  <2>9. k \in 0 .. n
    OBVIOUS
  <2> QED
    BY <2>8, <2>9, Zenon
<1>10. 0 .. n \subseteq T
  <2> HIDE DEF T
  <2> QED
    BY <1>8, <1>9, SetInduction
<1>11. n \in T
  <2> HIDE DEF T
  <2>1. n \in 0 .. n
    OBVIOUS
  <2> QED
    BY <1>10, <2>1
<1>12. E(n) = Covered(v)
  <2>1. ElementsOf(v) = { l[i] : i \in 1 .. n }
    BY <1>2, <1>5 DEF ElementsOf
  <2> QED
    BY <2>1 DEF Covered, SpanOf
<1> QED
  BY <1>3, <1>4, <1>5, <1>11, <1>12
=============================================================================
