------------------------ MODULE StructurePass_proofs ------------------------
(***************************************************************************)
(* What TLAPS proves of the structure passes, for every volume and every   *)
(* size: the inductive invariant IInv and, from it, what the passes take   *)
(* out of the search space, what they read and what they look at, and that *)
(* the trees they write are those of the volumes.                          *)
(*                                                                         *)
(* The invariant has a part for all passes and a part for each of them.    *)
(* The volume never changes, so a step of one pass leaves the parts of the *)
(* others alone.                                                           *)
(***************************************************************************)
EXTENDS StructurePass, CarveOps_proofs

-----------------------------------------------------------------------------
(* Runs and records of the MFT *)

\* What the loop over the mapping pairs carries on.
RunState ==
    [ runs : Seq(Run), vcn : Nat, prev : Int, ended : BOOLEAN, bad : BOOLEAN ]

NoRuns == [ runs |-> << >>, vcn |-> 0, prev |-> 0, ended |-> FALSE, bad |-> FALSE ]

\* AddRun keeps the runs well-formed: no run begins before the volume.
LEMMA AddRunType ==
    ASSUME NEW t \in RunState, NEW p \in MappingPair
    PROVE  AddRun(t, p) \in RunState
<1> DEFINE prev == IF p.offset = NoOffset THEN t.prev ELSE t.prev + p.offset
<1>1. /\ p.length \in Int /\ p.offset \in Int /\ t.prev \in Int /\ t.vcn \in Nat
      /\ t.runs \in Seq(Run) /\ t.ended \in BOOLEAN /\ t.bad \in BOOLEAN
  BY DEF MappingPair, RunState
<1>2. prev \in Int
  BY <1>1
<1>3. AddRun(t, p) =
        IF t.ended \/ t.bad \/ p.length = 0 THEN [ t EXCEPT !.ended = TRUE ]
        ELSE IF p.length > 0 /\ prev < 0 THEN [ t EXCEPT !.bad = TRUE ]
        ELSE IF p.length > 0
          THEN [ t EXCEPT !.prev = prev, !.vcn = @ + p.length,
                          !.runs = Append(@, RunOf(t.vcn, prev, p.length)) ]
        ELSE [ t EXCEPT !.prev = prev, !.vcn = @ - p.length,
                        !.runs = Append(@, RunOf(t.vcn, SPARSE, 0 - p.length)) ]
  BY Zenon DEF AddRun
<1> HIDE DEF prev
<1>4. CASE t.ended \/ t.bad \/ p.length = 0
  <2>1. AddRun(t, p) = [ t EXCEPT !.ended = TRUE ]
    BY <1>3, <1>4, Zenon
  <2> QED
    BY <2>1 DEF RunState
<1>5. CASE ~ (t.ended \/ t.bad \/ p.length = 0) /\ p.length > 0 /\ prev < 0
  <2>1. AddRun(t, p) = [ t EXCEPT !.bad = TRUE ]
    BY <1>3, <1>5, Zenon
  <2> QED
    BY <2>1 DEF RunState
<1>6. CASE ~ (t.ended \/ t.bad \/ p.length = 0) /\ p.length > 0 /\ ~ (prev < 0)
  <2>1. PICK r : r = RunOf(t.vcn, prev, p.length)
    OBVIOUS
  <2>2. r \in Run
    BY <1>1, <1>2, <1>6, <2>1 DEF Run, RunOf
  <2>3. AddRun(t, p) = [ t EXCEPT !.prev = prev, !.vcn = @ + p.length, !.runs = Append(@, r) ]
    BY <1>3, <1>6, <2>1, Zenon
  <2>4. Append(t.runs, r) \in Seq(Run) /\ t.vcn + p.length \in Nat
    BY <1>1, <1>6, <2>2
  <2> QED
    BY <1>2, <2>3, <2>4 DEF RunState
<1>7. CASE ~ (t.ended \/ t.bad \/ p.length = 0) /\ ~ (p.length > 0)
  <2>1. PICK r : r = RunOf(t.vcn, SPARSE, 0 - p.length)
    OBVIOUS
  <2>2. r \in Run
    BY <1>1, <1>7, <2>1 DEF Run, RunOf
  <2>3. AddRun(t, p) = [ t EXCEPT !.prev = prev, !.vcn = @ - p.length, !.runs = Append(@, r) ]
    BY <1>3, <1>7, <2>1, Zenon
  <2>4. Append(t.runs, r) \in Seq(Run) /\ t.vcn - p.length \in Nat
    BY <1>1, <1>7, <2>2
  <2> QED
    BY <1>2, <2>3, <2>4 DEF RunState
<1> QED
  BY <1>4, <1>5, <1>6, <1>7

\* The loop is a chain of states.
LEMMA AddRunSteps ==
    ASSUME NEW l \in Seq(MappingPair)
    PROVE  \E w : /\ w[0] = NoRuns /\ w[Len(l)] = FoldLeft(AddRun, NoRuns, l)
                  /\ \A k \in 1 .. Len(l) : w[k] = AddRun(w[k - 1], l[k])
<1> DEFINE n == Len(l)
<1>a. n \in Nat /\ DOMAIN l = 1 .. n
  OBVIOUS
<1>b. \A i \in 1 .. n : l[i] \in MappingPair
  OBVIOUS
<1> HIDE DEF n
<1> DEFINE X == RunState
           F == [ p \in (1 .. n) \X X |-> AddRun(p[2], l[p[1]]) ]
           Eq(g) == g = [ s \in SUBSET (DOMAIN l) |->
                           IF s = {} THEN NoRuns ELSE AddRun(g[s \ { Max(s) }], l[Max(s)]) ]
           c == CHOOSE g : Eq(g)
<1>1. FoldLeft(AddRun, NoRuns, l) = c[DOMAIN l]
  BY DEF FoldLeft, MapThenFoldSet
<1>0. NoRuns \in X
  BY DEF RunState, NoRuns
<1>2. \A i \in 1 .. n : \A m \in X : F[<< i, m >>] = AddRun(m, l[i])
  OBVIOUS
<1>3. F \in [(1 .. n) \X X -> X]
  BY <1>b, AddRunType
<1> HIDE DEF F, X
<1>4. PICK g \in [SUBSET (1 .. n) -> X] : FoldEquation(g, n, NoRuns, F)
  BY <1>3, <1>0, <1>a, FoldExists
<1>5. ASSUME NEW s \in SUBSET (1 .. n)
      PROVE  g[s] = IF s = {} THEN NoRuns ELSE AddRun(g[s \ { Max(s) }], l[Max(s)])
  <2>1. g[s] = IF s = {} THEN NoRuns ELSE F[<< Max(s), g[s \ { Max(s) }] >>]
    BY <1>4 DEF FoldEquation
  <2>2. CASE s # {}
    <3>1. Max(s) \in s
      BY <1>a, <2>2, MaxProperty
    <3>2. g[s \ { Max(s) }] \in X
      BY <1>4
    <3> QED
      BY <1>2, <2>1, <2>2, <3>1, <3>2
  <2> QED
    BY <2>1, <2>2
<1>6. Eq(g)
  BY <1>4, <1>5, <1>a
<1>7. Eq(c)
  BY <1>6
<1> HIDE DEF c
<1> DEFINE w == [ k \in 0 .. n |-> c[1 .. k] ]
<1>8. w[0] = NoRuns
  <2>1. 1 .. 0 = {} /\ {} \in SUBSET (DOMAIN l) /\ 0 \in 0 .. n
    BY <1>a
  <2> QED
    BY <1>7, <2>1
<1>9. ASSUME NEW k \in 1 .. n
      PROVE  w[k] = AddRun(w[k - 1], l[k])
  <2>1. Max(1 .. k) = k /\ 1 .. k # {} /\ (1 .. k) \ { k } = 1 .. (k - 1)
    <3>1. k \in Nat /\ k >= 1
      BY <1>a
    <3> QED
      BY <3>1, UpTo
  <2>2. 1 .. k \in SUBSET (DOMAIN l)
    BY <1>a
  <2>3. k - 1 \in 0 .. n /\ k \in 0 .. n
    BY <1>a
  <2> QED
    BY <1>7, <2>1, <2>2, <2>3
<1>10. w[n] = FoldLeft(AddRun, NoRuns, l)
  BY <1>1, <1>a
<1> HIDE DEF w
<1> WITNESS w
<1> QED
  BY <1>8, <1>9, <1>10 DEF n

\* parse_mapping_pairs yields runs.
LEMMA PairsType ==
    ASSUME NEW l \in Seq(MappingPair)
    PROVE  parse_mapping_pairs(l) \in Seq(Run)
<1>a. \E w : /\ w[0] = NoRuns /\ w[Len(l)] = FoldLeft(AddRun, NoRuns, l)
             /\ \A k \in 1 .. Len(l) : w[k] = AddRun(w[k - 1], l[k])
  BY AddRunSteps
<1>1. PICK w : /\ w[0] = NoRuns /\ w[Len(l)] = FoldLeft(AddRun, NoRuns, l)
               /\ \A k \in 1 .. Len(l) : w[k] = AddRun(w[k - 1], l[k])
  BY <1>a, Zenon
<1>2. PICK n \in Nat : n = Len(l)
  OBVIOUS
<1>3. \A k \in 1 .. n : l[k] \in MappingPair
  BY <1>2
<1> DEFINE T == { k \in 0 .. n : w[k] \in RunState }
<1>4. 0 \in T
  <2>1. NoRuns \in RunState
    BY DEF NoRuns, RunState
  <2>2. 0 \in 0 .. n
    OBVIOUS
  <2> QED
    BY <1>1, <2>1, <2>2
<1>5. ASSUME NEW k \in 1 .. n, k - 1 \in T PROVE k \in T
  <2>1. w[k - 1] \in RunState /\ k \in 1 .. Len(l)
    BY <1>2, <1>5
  <2>2. AddRun(w[k - 1], l[k]) \in RunState
    BY <1>3, <2>1, AddRunType
  <2>3. w[k] \in RunState
    BY <1>1, <2>1, <2>2
  <2>4. k \in 0 .. n
    OBVIOUS
  <2> QED
    BY <2>3, <2>4
<1>6. 0 .. n \subseteq T
  <2> HIDE DEF T
  <2> QED
    BY <1>4, <1>5, SetInduction
<1>7. PICK t : t = FoldLeft(AddRun, NoRuns, l)
  OBVIOUS
<1>8. t \in RunState
  <2>1. n \in 0 .. n
    OBVIOUS
  <2> QED
    BY <1>1, <1>2, <1>6, <1>7, <2>1
<1>9. parse_mapping_pairs(l) = IF t.bad THEN << >> ELSE t.runs
  BY <1>7, Zenon DEF parse_mapping_pairs, NoRuns
<1>10. << >> \in Seq(Run) /\ t.runs \in Seq(Run)
  BY <1>8 DEF RunState
<1> QED
  BY <1>9, <1>10

\* A record has an entry with its number; the entry has runs if its data is in runs.
LEMMA RecordIs ==
    ASSUME NEW rec \in MftRecord \cup { None }, NEW number \in Nat
    PROVE  LET e == parse_mft_record(rec, number)
           IN  e # None =>
                  /\ e \in MftEntry /\ e.record = number
                  /\ e.data \in { "runs", "compressed" } => e.runs # << >>
<1>1. CASE rec = None
  BY <1>1 DEF parse_mft_record
<1>2. CASE rec # None
  <2>1. rec \in MftRecord
    BY <1>2
  <2>2. PICK runs : runs = parse_mapping_pairs(rec.pairs)
    OBVIOUS
  <2>3. runs \in Seq(Run)
    BY <2>1, <2>2, PairsType DEF MftRecord
  <2>4. PICK data : data = IF rec.data \in { "runs", "compressed" } /\ runs = << >>
                             THEN "none" ELSE rec.data
    OBVIOUS
  <2>5. /\ data \in { "none", "resident", "runs", "compressed" }
        /\ data \in { "runs", "compressed" } => runs # << >>
    BY <2>1, <2>4 DEF MftRecord
  <2>6. parse_mft_record(rec, number) =
          [ record |-> number, in_use |-> rec.in_use, is_dir |-> rec.is_dir,
            parent |-> rec.parent, name |-> rec.name, size |-> rec.size, runs |-> runs,
            data |-> data ]
    BY <1>2, <2>2, <2>4, Zenon DEF parse_mft_record
  <2>7. PICK e : e = [ record |-> number, in_use |-> rec.in_use, is_dir |-> rec.is_dir,
                       parent |-> rec.parent, name |-> rec.name, size |-> rec.size, runs |-> runs,
                       data |-> data ]
    OBVIOUS
  <2>8. e \in MftEntry
    BY <2>1, <2>3, <2>5, <2>7 DEF MftRecord, MftEntry
  <2>9. e.record = number /\ e.data = data /\ e.runs = runs
    BY <2>7
  <2> QED
    BY <2>5, <2>6, <2>7, <2>8, <2>9
<1> QED
  BY <1>1, <1>2

-----------------------------------------------------------------------------
(* The bytes of runs *)

\* The bytes of a cluster, of a run list, of an entry and of all entries.
NtfsBytes(c) == cluster_to_offset(c) .. cluster_to_offset(c) + Cluster - 1

RunBytes(runs) == UNION { NtfsBytes(c) : c \in ClustersOf(runs) }

EntryBytes(e) == IF e = None THEN {} ELSE RunBytes(e.runs)

BytesOfEntries(s) == UNION { EntryBytes(s[i]) : i \in 1 .. Len(s) }

\* The range of a run covers its clusters.
LEMMA RunCovers ==
    ASSUME NEW r \in Run, r.cluster # SPARSE
    PROVE  /\ ByteRangeOf(r) \in ByteRange
           /\ \A b \in Int : b \in Span(ByteRangeOf(r)) <=>
                \E c \in r.cluster .. r.cluster + r.length - 1 : b \in NtfsBytes(c)
<1>1. PartOffset \in Nat /\ Cluster \in Nat /\ Cluster > 1
  BY VolumeSizesAssumption
<1>2. PICK first \in Nat : first = r.cluster
  BY DEF Run
<1>3. PICK n \in Nat : n = r.length /\ n > 0
  BY DEF Run
<1>4. PICK o : o = PartOffset + first * Cluster
  OBVIOUS
<1>5. PICK s : s = n * Cluster
  OBVIOUS
<1>6. o \in Nat /\ s \in Nat /\ s > 0
  <2>1. first * Cluster \in Nat
    BY <1>1
  <2>2. n * Cluster \in Nat /\ n * Cluster > 0
    BY <1>1, <1>3
  <2> QED
    BY <1>1, <1>4, <1>5, <2>1, <2>2
<1>7. PICK y : y = ByteRangeOf(r)
  OBVIOUS
<1>8. y.offset = o /\ y.size = s /\ y = [ offset |-> o, size |-> s ]
  BY <1>2, <1>3, <1>4, <1>5, <1>7 DEF ByteRangeOf, cluster_to_offset
<1>9. y \in ByteRange
  BY <1>6, <1>8 DEF ByteRange
<1>10. ASSUME NEW b \in Int PROVE b \in Span(y) <=> o <= b /\ b < o + s
  BY <1>8, <1>9, SpanIs
<1>11. ASSUME NEW b \in Int, NEW c \in first .. first + n - 1
       PROVE  b \in NtfsBytes(c) <=>
                PartOffset + c * Cluster <= b /\ b < PartOffset + c * Cluster + Cluster
  <2>1. PICK k \in Nat : k = PartOffset + c * Cluster
    <3>1. c * Cluster \in Nat
      BY <1>1
    <3> QED
      BY <1>1, <3>1
  <2>2. NtfsBytes(c) = k .. k + Cluster - 1
    BY <2>1 DEF NtfsBytes, cluster_to_offset
  <2>3. b \in NtfsBytes(c) <=> k <= b /\ b < k + Cluster
    BY <1>1, <2>2
  <2> QED
    BY <2>1, <2>3
<1>12. ASSUME NEW b \in Int, o <= b, b < o + s
       PROVE  \E c \in first .. first + n - 1 : b \in NtfsBytes(c)
  <2>1. PICK d \in Int : d = b - PartOffset
    BY <1>1
  <2>2. PICK c \in Int, m \in 0 .. Cluster - 1 : c = d \div Cluster /\ d = Cluster * c + m
    BY <1>1, DivMod
  <2>3. first * Cluster <= d /\ d < first * Cluster + n * Cluster
    BY <1>1, <1>4, <1>5, <1>12, <2>1
  <2>4. c * Cluster <= d /\ d < c * Cluster + Cluster
    BY <1>1, <2>2
  <2>5. first <= c /\ c < first + n
    BY <1>1, <2>3, <2>4, MultipleOrder
  <2>6. c \in first .. first + n - 1
    BY <2>5
  <2>7. PartOffset + c * Cluster <= b /\ b < PartOffset + c * Cluster + Cluster
    BY <1>1, <2>1, <2>4
  <2> QED
    BY <1>11, <2>6, <2>7
<1>13. ASSUME NEW b \in Int, NEW c \in first .. first + n - 1, b \in NtfsBytes(c)
       PROVE  o <= b /\ b < o + s
  <2>1. PartOffset + c * Cluster <= b /\ b < PartOffset + c * Cluster + Cluster
    BY <1>11, <1>13
  <2>2. first * Cluster <= c * Cluster /\ c * Cluster + Cluster <= first * Cluster + n * Cluster
    BY <1>1, MultipleRange
  <2>3. PICK k \in Int : k = c * Cluster
    BY <1>1
  <2> QED
    BY <1>1, <1>4, <1>5, <2>1, <2>2, <2>3
<1> QED
  BY <1>2, <1>3, <1>7, <1>9, <1>10, <1>12, <1>13

\* The ranges of runs cover their clusters.
LEMMA RangesOfOK ==
    ASSUME NEW runs \in Seq(Run)
    PROVE  RangesOf(runs) \in Seq(ByteRange) /\ Covered(RangesOf(runs)) = RunBytes(runs)
<1>1. PICK n \in Nat : n = Len(runs)
  OBVIOUS
<1>2. \A i \in 1 .. n : runs[i] \in Run
  BY <1>1
<1> DEFINE R(i) == IF runs[i].cluster = SPARSE THEN << >> ELSE << ByteRangeOf(runs[i]) >>
           q == [ i \in 1 .. n |-> R(i) ]
<1>3. ASSUME NEW i \in 1 .. n
      PROVE  /\ R(i) \in Seq(ByteRange)
             /\ \A x : x \in ElementsOf(R(i)) <=> runs[i].cluster # SPARSE /\ x = ByteRangeOf(runs[i])
  <2>1. CASE runs[i].cluster = SPARSE
    BY <2>1 DEF ElementsOf
  <2>2. CASE runs[i].cluster # SPARSE
    <3>1. PICK y \in ByteRange : y = ByteRangeOf(runs[i])
      BY <1>2, <2>2, RunCovers
    <3>2. << y >> \in Seq(ByteRange) /\ Len(<< y >>) = 1 /\ << y >>[1] = y
      OBVIOUS
    <3>3. ElementsOf(<< y >>) = { y }
      BY <3>2 DEF ElementsOf
    <3> QED
      BY <2>2, <3>1, <3>2, <3>3
  <2> QED
    BY <2>1, <2>2
<1>4. RangesOf(runs) = FlattenSeq(q)
  BY <1>1 DEF RangesOf
<1>5. q \in Seq(Seq(ByteRange)) /\ Len(q) = n /\ \A i \in 1 .. n : q[i] = R(i)
  <2>1. \A i \in 1 .. n : R(i) \in Seq(ByteRange)
    BY <1>3
  <2> HIDE DEF R
  <2>2. q \in [1 .. n -> Seq(ByteRange)]
    BY <2>1
  <2> QED
    BY <2>2
<1> HIDE DEF q, R
<1>6. PICK s : s = RangesOf(runs)
  OBVIOUS
<1>7. /\ s \in Seq(ByteRange)
      /\ ElementsOf(s) = UNION { ElementsOf(q[k]) : k \in 1 .. n }
  BY <1>4, <1>5, <1>6, FlattenIs
<1>8. \A x : x \in ElementsOf(s) <=>
              \E k \in 1 .. n : runs[k].cluster # SPARSE /\ x = ByteRangeOf(runs[k])
  BY <1>3, <1>5, <1>7
<1>9. \A b : b \in Covered(s) <=>
              \E k \in 1 .. n : runs[k].cluster # SPARSE /\ b \in Span(ByteRangeOf(runs[k]))
  BY <1>8 DEF Covered, SpanOf
<1>10. ASSUME NEW k \in 1 .. n, runs[k].cluster # SPARSE, NEW b
       PROVE  b \in Span(ByteRangeOf(runs[k])) <=>
                \E c \in runs[k].cluster .. runs[k].cluster + runs[k].length - 1 : b \in NtfsBytes(c)
  <2>1. runs[k] \in Run
    BY <1>2
  <2>2. Span(ByteRangeOf(runs[k])) \subseteq Int
    BY <1>10, <2>1, RunCovers, SpanIs
  <2>3. ASSUME NEW c \in runs[k].cluster .. runs[k].cluster + runs[k].length - 1, b \in NtfsBytes(c)
        PROVE  b \in Int
    BY <2>1, <2>3 DEF NtfsBytes
  <2> QED
    BY <1>10, <2>1, <2>2, <2>3, RunCovers
<1>11. \A b : b \in RunBytes(runs) <=> \E c \in ClustersOf(runs) : b \in NtfsBytes(c)
  BY DEF RunBytes
<1>12. \A c : c \in ClustersOf(runs) <=>
                \E k \in 1 .. n : /\ runs[k].cluster # SPARSE
                                  /\ c \in runs[k].cluster .. runs[k].cluster + runs[k].length - 1
  BY <1>1 DEF ClustersOf
<1>13. \A b : b \in Covered(s) <=> b \in RunBytes(runs)
  BY <1>9, <1>10, <1>11, <1>12
<1> QED
  BY <1>6, <1>7, <1>13

\* What a list of ranges covers when another is put behind it.
LEMMA CoveredConcat ==
    ASSUME NEW s \in Seq(ByteRange), NEW t \in Seq(ByteRange)
    PROVE  s \o t \in Seq(ByteRange) /\ Covered(s \o t) = Covered(s) \cup Covered(t)
<1>1. PICK u : u = s \o t
  OBVIOUS
<1>2. u \in Seq(ByteRange) /\ ElementsOf(u) = ElementsOf(s) \cup ElementsOf(t)
  BY <1>1, ElementsConcat
<1>3. \A b : b \in Covered(u) <=> b \in Covered(s) \/ b \in Covered(t)
  BY <1>2 DEF Covered, SpanOf
<1> QED
  BY <1>1, <1>2, <1>3

\* The ranges collected from a batch cover the clusters of its records.
LEMMA BatchCovers ==
    ASSUME NEW n \in Nat, NEW batch, \A k \in 1 .. n : batch[k] # None => batch[k] \in MftEntry,
           NEW s, s = FlattenSeq([ k \in 1 .. n |-> EntryRanges(batch[k]) ])
    PROVE  /\ s \in Seq(ByteRange)
           /\ Covered(s) = UNION { EntryBytes(batch[k]) : k \in 1 .. n }
<1> DEFINE q == [ k \in 1 .. n |-> EntryRanges(batch[k]) ]
<1>1. ASSUME NEW k \in 1 .. n
      PROVE  /\ EntryRanges(batch[k]) \in Seq(ByteRange)
             /\ Covered(EntryRanges(batch[k])) = EntryBytes(batch[k])
  <2>1. CASE batch[k] = None
    BY <2>1 DEF EntryRanges, EntryBytes, Covered, SpanOf, ElementsOf
  <2>2. CASE batch[k] # None
    <3>1. PICK runs \in Seq(Run) : runs = batch[k].runs
      BY <2>2 DEF MftEntry
    <3>2. RangesOf(runs) \in Seq(ByteRange) /\ Covered(RangesOf(runs)) = RunBytes(runs)
      BY RangesOfOK
    <3> QED
      BY <2>2, <3>1, <3>2, Zenon DEF EntryRanges, EntryBytes
  <2> QED
    BY <2>1, <2>2
<1>2. q \in Seq(Seq(ByteRange)) /\ Len(q) = n /\ \A k \in 1 .. n : q[k] = EntryRanges(batch[k])
  <2>1. q \in [1 .. n -> Seq(ByteRange)]
    BY <1>1
  <2> QED
    BY <2>1
<1> HIDE DEF q
<1>3. /\ s \in Seq(ByteRange)
      /\ ElementsOf(s) = UNION { ElementsOf(q[k]) : k \in 1 .. n }
  BY <1>2, FlattenIs DEF q
<1>4. \A b : b \in Covered(s) <=> \E k \in 1 .. n : b \in Covered(q[k])
  BY <1>3 DEF Covered, SpanOf
<1>5. \A b : b \in Covered(s) <=> \E k \in 1 .. n : b \in EntryBytes(batch[k])
  <2>1. \A k \in 1 .. n : Covered(q[k]) = EntryBytes(batch[k])
    BY <1>1, <1>2
  <2> QED
    BY <1>4, <2>1
<1> QED
  BY <1>3, <1>5

\* The bytes of the records and of the MFT, which the ranges are merged from.
LEMMA RecordBytesIs ==
    ASSUME Ntfs, NEW n \in Nat, mft.entries \in Seq(MftEntry \cup { None }), n = Len(mft.entries)
    PROVE  RecordBytes = RunBytes(volume.mft_runs) \cup BytesOfEntries(mft.entries)
<1>1. \A c : ClusterBytes(c) = NtfsBytes(c)
  BY DEF ClusterBytes, NtfsBytes
<1>2. DOMAIN mft.entries = 1 .. n
  OBVIOUS
<1> DEFINE C == UNION { ClustersOf(mft.entries[i].runs) :
                          i \in { j \in DOMAIN mft.entries : mft.entries[j] # None } }
<1>3. \A c : c \in C <=>
        \E i \in 1 .. n : mft.entries[i] # None /\ c \in ClustersOf(mft.entries[i].runs)
  BY <1>2
<1>4. RecordBytes = UNION { ClusterBytes(c) : c \in ClustersOf(volume.mft_runs) \cup C }
  BY DEF RecordBytes
<1> HIDE DEF C
<1>5. \A b : b \in RecordBytes <=>
              \E c : (c \in ClustersOf(volume.mft_runs) \/ c \in C) /\ b \in NtfsBytes(c)
  BY <1>1, <1>4
<1>6. \A r, b : b \in RunBytes(r) <=> \E c \in ClustersOf(r) : b \in NtfsBytes(c)
  BY DEF RunBytes
<1>7. \A b : b \in BytesOfEntries(mft.entries) <=>
              \E i \in 1 .. n : b \in EntryBytes(mft.entries[i])
  BY DEF BytesOfEntries
<1>8. \A e, b : b \in EntryBytes(e) <=> e # None /\ b \in RunBytes(e.runs)
  BY DEF EntryBytes
<1>9. \A b : b \in RecordBytes <=>
              b \in RunBytes(volume.mft_runs) \/ b \in BytesOfEntries(mft.entries)
  BY <1>3, <1>5, <1>6, <1>7, <1>8
<1> QED
  BY <1>9

\* The names of the steps of each pass.
FatPC == { "geometry", "sweep", "entries", "advance", "done" }
WalkPC == { "boot", "dir", "walk", "file", "overrun", "done" }

Whole == init_search_space(PartOffset, PartSize, PartOffset + PartSize)

\* What the passes share: no byte is both taken out and in the list, and
\* nothing has been taken out when the geometry comes to be used; a file of a FAT
\* volume has been taken out unless it was cut short.
SharedInv ==
    /\ volume \in Volumes
    /\ pc \in (IF Ntfs THEN NtfsPC ELSE IF Fat THEN FatPC ELSE WalkPC)
    /\ list_search_space \in Ordered
    /\ Bytes(list_search_space) \cap used = {}
    /\ pc \in { "geometry", "boot" } =>
          list_search_space = Whole /\ used = {} /\ recovered = {}
    /\ ~ Ntfs => \A f \in recovered \ sweep.cut :
                    \A n \in OwnClusters(f) : ClusterBytes(n) \subseteq used

\* The state of the NTFS pass.
MftState ==
    [ entries : Seq(MftEntry \cup { None }), next : Nat, ranges : Seq(ByteRange), files : Nat,
      failed : SUBSET Nat ]

\* The entries are those of the first records, and the ranges with what has been
\* taken out are their bytes.
EntriesInv ==
    /\ mft \in MftState
    /\ Len(mft.entries) <= Len(volume.records)
    /\ \A i \in 1 .. Len(mft.entries) :
          mft.entries[i] = parse_mft_record(volume.records[i], i - 1)
    /\ pc = "open" => mft.entries = << >> /\ mft.next = 0 /\ mft.ranges = << >>
    /\ pc = "pass1" => mft.next = Len(mft.entries)

\* What has been taken out and what is to be taken out, step by step.
RangesInv ==
    /\ pc \in { "open", "pass1" } => recovered = {} /\ used = {}
    /\ pc = "pass1" => Covered(mft.ranges) = BytesOfEntries(mft.entries)
    /\ pc = "pass2" => used = {} /\ mft.next >= 1
    /\ pc \in { "pass2", "mark" } => used \cup Covered(mft.ranges) = RecordBytes
    /\ pc = "done" => IF volume.opens THEN used = RecordBytes ELSE recovered = {}
    /\ pc \in { "pass1", "pass2", "mark" } => volume.opens

\* Each file written is of an entry and was read from where it should be.
FilesInv ==
    \A f \in recovered :
        /\ f.of \in Nat /\ f.of + 1 \in 1 .. Len(mft.entries)
        /\ mft.entries[f.of + 1] # None
        /\ volume.allocated # None => ReadFree(mft.entries[f.of + 1], f.clusters)

NtfsInv == Ntfs => EntriesInv /\ RangesInv /\ FilesInv

\* The j-th cluster is the one that is looked at, and all before it have been.
AtCluster(j) ==
    /\ Examined = start_data + j * Cluster
    /\ sweep.offset = Examined \/ sweep.offset = Examined + Cluster
    /\ \A i \in 0 .. j - 1 : start_data + i * Cluster \in sweep.examined
    /\ pc # "sweep" => Examined \in sweep.examined

\* An entry of a directory on the volume.
Listed(e) == \E d \in DOMAIN volume.dirs : \E i \in 1 .. Len(volume.dirs[d]) : e = volume.dirs[d][i]

\* A file that the search for FAT directories copies.
CopiedFile == [ path : Nat \X STRING, nth : Nat, of : Nat, clusters : Seq(Nat) ]

\* The state of the search for FAT directories.
SweepState ==
    [ offset : Nat, end : Nat, buffer : Nat, k : Nat, dir : Seq(DirectoryEntry), nbr : Nat,
      dir_inode : Nat, examined : SUBSET Nat, cut : SUBSET CopiedFile ]

\* The sweep is on the grid of the clusters, and its end is the end of one.
SweepInv ==
    /\ sweep \in SweepState
    /\ \A i \in 1 .. Len(sweep.dir) : Listed(sweep.dir[i])
    /\ pc = "entries" => sweep.dir # << >>
    /\ pc = "geometry" => sweep.end = 0 /\ sweep.k = 0
    /\ sweep.end > 0 \/ pc \in { "sweep", "entries", "advance" } =>
          /\ start_data \in Nat /\ start_data > PartOffset
          /\ \E m \in Nat \ {0} : sweep.end + 1 = start_data + m * Cluster
    /\ pc \in { "sweep", "entries", "advance" } => \E j \in Nat : AtCluster(j)

\* The number that a clash added to the name of a file is its first cluster.
NamesInv == \A f \in recovered : f.nth # 0 => f.nth = f.of

FatInv == Fat => SweepInv /\ NamesInv /\ SweepSeesAll /\ SweepTakesKnown

\* The entries of a directory that has been read.  No prover shows that a literal
\* is a string, so the mark EntriesOf puts behind them is listed here.
AnyName == STRING \cup { "end" }

AnyEntry == [ name : AnyName, kind : { "dir", "file", "end" }, ino : Nat, size : Nat ]

DirectoryFrame == [ path : Seq(AnyName), entries : Seq(AnyEntry) ]

\* The state of the walk.  How many clusters are left depends on a fold and is not
\* needed.
WalkState ==
    /\ DOMAIN tree = { "stack", "result", "path", "next", "got", "left" }
    /\ tree.stack \in Seq(DirectoryFrame) /\ tree.path \in Seq(AnyName)
    /\ tree.next \in Nat /\ tree.got \in Seq(Nat)

\* The clusters of the file being written have been taken out.
WrittenOut ==
    pc = "file" =>
        /\ tree.stack # << >> /\ Top.entries # << >>
        /\ \A i \in 1 .. Len(tree.got) : ClusterBytes(tree.got[i]) \subseteq used

WalkInv == Tree => WalkState /\ WrittenOut

\* The inductive invariant.
IInv == SharedInv /\ NtfsInv /\ FatInv /\ WalkInv

-----------------------------------------------------------------------------
(* What holds of every volume and of the whole partition *)

\* The volume is one of a pass.
LEMMA VolumeIs ==
    ASSUME volume \in Volumes
    PROVE  /\ Ntfs => ~ Fat /\ ~ Tree /\ IsNtfs(volume)
           /\ Fat => ~ Ntfs /\ ~ Tree /\ IsFat(volume)
           /\ Tree => ~ Ntfs /\ ~ Fat /\ IsFatDir(volume)
           /\ Ntfs \/ Fat \/ Tree
           /\ None \notin Nat
  BY VolumesAssumption DEF Ntfs, Fat, Tree

\* The list the scan begins with.
LEMMA WholeIs ==
    /\ Whole \in Ordered
    /\ Bytes(Whole) = PartOffset .. PartOffset + PartSize - 1
<1>1. PartOffset \in Nat /\ PartSize \in Nat /\ PartSize > 0
  BY VolumeSizesAssumption
<1>2. PICK e \in Nat : e = PartOffset + PartSize - 1
  BY <1>1
<1>3. PICK x : x = extent(PartOffset, e)
  OBVIOUS
<1>4. x \in Extent /\ x.start = PartOffset /\ x.end = e /\ PartOffset <= e
  BY <1>1, <1>2, <1>3, NewExtent
<1>5. Whole = << x >>
  BY <1>1, <1>2, <1>3 DEF Whole, init_search_space
<1>6. << x >> \in Seq(Extent) /\ Len(<< x >>) = 1 /\ << x >>[1] = x /\ DOMAIN << x >> = { 1 }
  BY <1>4
<1>7. << x >> \in Ordered
  BY <1>4, <1>6 DEF Ordered, WellFormed
<1>8. Bytes(<< x >>) = x.start .. x.end
  BY <1>6 DEF Bytes
<1> QED
  BY <1>2, <1>4, <1>5, <1>7, <1>8

\* Taking bytes out keeps the list in order and apart from what is out.
LEMMA TakeOutOK ==
    ASSUME list_search_space \in Ordered, Bytes(list_search_space) \cap used = {},
           NEW first \in Nat, NEW last \in Int, TakeOut(first, last)
    PROVE  /\ list_search_space' \in Ordered
           /\ Bytes(list_search_space') \cap used' = {}
           /\ used' = used \cup (first .. last)
<1>1. PICK l : l = list_search_space'
  OBVIOUS
<1>2. l \in Ordered /\ Bytes(l) = Bytes(list_search_space) \ (first .. last)
  BY <1>1, DelBytes DEF TakeOut
<1>3. used' = used \cup (first .. last)
  BY DEF TakeOut
<1> QED
  BY <1>1, <1>2, <1>3

\* The invariant holds in the beginning.
LEMMA InitIInv == Init => IInv
<1> SUFFICES ASSUME Init PROVE IInv
  OBVIOUS
<1>1. /\ volume \in Volumes /\ list_search_space = Whole /\ used = {} /\ recovered = {}
  BY DEF Init, UnformatInit, Whole
<1>2. /\ Ntfs => pc = "open" /\ ~ Fat /\ ~ Tree
      /\ Fat => pc = "geometry" /\ ~ Ntfs /\ ~ Tree
      /\ Tree => pc = "boot" /\ ~ Ntfs /\ ~ Fat
  BY <1>1, VolumeIs DEF Init, NtfsInit, FatInit, WalkInit, Ntfs, Fat, Tree
<1>3. Ntfs \/ Fat \/ Tree
  BY <1>1, VolumeIs
<1>4. SharedInv
  <2>1. pc \in (IF Ntfs THEN NtfsPC ELSE IF Fat THEN FatPC ELSE WalkPC)
    BY <1>2, <1>3 DEF NtfsPC, FatPC, WalkPC
  <2> QED
    BY <1>1, <2>1, WholeIs DEF SharedInv
<1>5. NtfsInv
  <2> SUFFICES ASSUME Ntfs PROVE EntriesInv /\ RangesInv /\ FilesInv
    BY DEF NtfsInv
  <2>1. /\ pc = "open" /\ mft.entries = << >> /\ mft.next = 0 /\ mft.ranges = << >>
        /\ mft = [ entries |-> << >>, next |-> 0, ranges |-> << >>, files |-> 0,
                   failed |-> {} ]
    BY <1>2 DEF Init, NtfsInit
  <2>2. volume.records \in Seq(MftRecord \cup { None })
    BY <1>1, VolumeIs DEF IsNtfs
  <2>3. EntriesInv
    <3>1. << >> \in Seq(MftEntry \cup { None }) /\ << >> \in Seq(ByteRange) /\ Len(<< >>) = 0
      OBVIOUS
    <3>2. Len(volume.records) \in Nat
      BY <2>2
    <3>3. mft \in MftState
      BY <2>1, <3>1 DEF MftState
    <3> QED
      BY <2>1, <3>1, <3>2, <3>3 DEF EntriesInv
  <2>4. RangesInv
    BY <1>1, <2>1 DEF RangesInv
  <2>5. FilesInv
    BY <1>1 DEF FilesInv
  <2> QED
    BY <2>3, <2>4, <2>5
<1>6. FatInv
  <2> SUFFICES ASSUME Fat PROVE SweepInv /\ NamesInv /\ SweepSeesAll /\ SweepTakesKnown
    BY DEF FatInv
  <2>1. pc = "geometry" /\ sweep.offset = 0 /\ sweep.end = 0 /\ sweep.buffer = 0
        /\ sweep.k = 0 /\ sweep.dir = << >>
        /\ sweep = [ offset |-> 0, end |-> 0, buffer |-> 0, k |-> 0, dir |-> << >>,
                     nbr |-> 0, dir_inode |-> 0, examined |-> {}, cut |-> {} ]
    BY <1>2 DEF Init, FatInit
  <2>2. << >> \in Seq(DirectoryEntry) /\ Len(<< >>) = 0
    OBVIOUS
  <2>3. SweepInv
    <3>1. sweep \in SweepState
      BY <2>1, <2>2 DEF SweepState
    <3> QED
      BY <2>1, <2>2, <3>1 DEF SweepInv
  <2>4. SweepSeesAll
    BY <2>1 DEF SweepSeesAll
  <2> QED
    BY <1>1, <2>3, <2>4 DEF NamesInv, SweepTakesKnown
<1>7. WalkInv
  <2> SUFFICES ASSUME Tree
               PROVE /\ DOMAIN tree = { "stack", "result", "path", "next", "got", "left" }
                     /\ tree.stack \in Seq(DirectoryFrame) /\ tree.path \in Seq(AnyName)
                     /\ tree.next \in Nat /\ tree.got \in Seq(Nat)
                     /\ pc # "file"
    BY DEF WalkInv, WalkState, WrittenOut
  <2>1. /\ pc = "boot" /\ tree.stack = << >> /\ tree.path = << >> /\ tree.next = 0 /\ tree.got = << >>
        /\ DOMAIN tree = { "stack", "result", "path", "next", "got", "left" }
    BY <1>2 DEF Init, WalkInit
  <2> QED
    BY <2>1
<1> QED
  BY <1>4, <1>5, <1>6, <1>7 DEF IInv

-----------------------------------------------------------------------------
(* What a file of an NTFS volume is read from *)

\* Expand yields the clusters of the runs, and holes.
LEMMA ExpandIs ==
    ASSUME NEW runs \in Seq(Run)
    PROVE  /\ Expand(runs) \in Seq(Int)
           /\ \A x \in ElementsOf(Expand(runs)) : x = SPARSE \/ x \in ClustersOf(runs)
<1>1. PICK n \in Nat : n = Len(runs)
  OBVIOUS
<1>2. \A i \in 1 .. n : runs[i] \in Run
  BY <1>1
<1> DEFINE R(i) == [ k \in 1 .. runs[i].length |->
                       IF runs[i].cluster = SPARSE THEN SPARSE ELSE runs[i].cluster + k - 1 ]
           q == [ i \in 1 .. n |-> R(i) ]
<1>3. ASSUME NEW i \in 1 .. n
      PROVE  /\ R(i) \in Seq(Int)
             /\ \A x \in ElementsOf(R(i)) : x = SPARSE \/ x \in ClustersOf(runs)
  <2>1. PICK m \in Nat : m = runs[i].length
    BY <1>2 DEF Run
  <2>2. PICK c : c = runs[i].cluster
    OBVIOUS
  <2>3. c \in Nat \cup { SPARSE } /\ SPARSE \in Int
    BY <1>2, <2>2 DEF Run, SPARSE
  <2>4. PICK r : r = R(i)
    OBVIOUS
  <2>5. r = [ k \in 1 .. m |-> IF c = SPARSE THEN SPARSE ELSE c + k - 1 ]
    BY <2>1, <2>2, <2>4
  <2>6. r \in [ 1 .. m -> Int ]
    BY <2>3, <2>5
  <2>7. r \in Seq(Int) /\ Len(r) = m
    BY <2>6
  <2>8. ASSUME NEW k \in 1 .. m PROVE r[k] = SPARSE \/ r[k] \in ClustersOf(runs)
    <3>1. CASE c = SPARSE
      BY <2>5, <3>1
    <3>2. CASE c # SPARSE
      <4>1. r[k] = c + k - 1 /\ r[k] \in c .. c + m - 1
        BY <2>3, <2>5, <3>2
      <4>2. i \in { j \in DOMAIN runs : runs[j].cluster # SPARSE }
        BY <1>1, <2>2, <3>2
      <4> QED
        BY <2>1, <2>2, <4>1, <4>2 DEF ClustersOf
    <3> QED
      BY <3>1, <3>2
  <2> HIDE DEF R
  <2> QED
    BY <2>4, <2>7, <2>8 DEF ElementsOf
<1>4. Expand(runs) = FlattenSeq(q)
  <2>1. DOMAIN runs = 1 .. n
    BY <1>1
  <2> QED
    BY <2>1, Zenon DEF Expand
<1>5. q \in Seq(Seq(Int)) /\ Len(q) = n /\ \A i \in 1 .. n : q[i] = R(i)
  <2>1. \A i \in 1 .. n : R(i) \in Seq(Int)
    BY <1>3
  <2> HIDE DEF R
  <2>2. q \in [1 .. n -> Seq(Int)]
    BY <2>1
  <2> QED
    BY <2>2
<1> HIDE DEF q, R
<1>6. /\ FlattenSeq(q) \in Seq(Int)
      /\ ElementsOf(FlattenSeq(q)) = UNION { ElementsOf(q[k]) : k \in 1 .. n }
  BY <1>5, FlattenIs
<1>7. \A x \in ElementsOf(Expand(runs)) : \E k \in 1 .. n : x \in ElementsOf(q[k])
  BY <1>4, <1>6
<1> QED
  BY <1>3, <1>4, <1>5, <1>6, <1>7

\* Stored leaves the holes out.
LEMMA StoredIs ==
    ASSUME NEW s \in Seq(Int)
    PROVE  Stored(s) \in Seq(Int) /\ ElementsOf(Stored(s)) \subseteq ElementsOf(s)
<1>1. PICK n \in Nat : n = Len(s)
  OBVIOUS
<1> DEFINE R(i) == IF s[i] = SPARSE THEN << >> ELSE << s[i] >>
           q == [ i \in 1 .. n |-> R(i) ]
<1>2. ASSUME NEW i \in 1 .. n PROVE R(i) \in Seq(Int) /\ ElementsOf(R(i)) \subseteq ElementsOf(s)
  <2>1. s[i] \in Int /\ s[i] \in ElementsOf(s)
    BY <1>1 DEF ElementsOf
  <2>2. CASE s[i] = SPARSE
    BY <2>2 DEF ElementsOf
  <2>3. CASE s[i] # SPARSE
    <3>1. PICK y \in Int : y = s[i]
      BY <2>1
    <3>2. << y >> \in Seq(Int) /\ Len(<< y >>) = 1 /\ << y >>[1] = y
      OBVIOUS
    <3>3. ElementsOf(<< y >>) = { y }
      BY <3>2 DEF ElementsOf
    <3> QED
      BY <2>1, <2>3, <3>1, <3>2, <3>3
  <2> QED
    BY <2>2, <2>3
<1>3. Stored(s) = FlattenSeq(q)
  <2>1. DOMAIN s = 1 .. n
    BY <1>1
  <2> QED
    BY <2>1, Zenon DEF Stored
<1>4. q \in Seq(Seq(Int)) /\ Len(q) = n /\ \A i \in 1 .. n : q[i] = R(i)
  <2>1. \A i \in 1 .. n : R(i) \in Seq(Int)
    BY <1>2
  <2> HIDE DEF R
  <2>2. q \in [1 .. n -> Seq(Int)]
    BY <2>1
  <2> QED
    BY <2>2
<1> HIDE DEF q, R
<1>5. /\ FlattenSeq(q) \in Seq(Int)
      /\ ElementsOf(FlattenSeq(q)) = UNION { ElementsOf(q[k]) : k \in 1 .. n }
  BY <1>4, FlattenIs
<1>6. \A x \in ElementsOf(Stored(s)) : \E k \in 1 .. n : x \in ElementsOf(q[k])
  BY <1>3, <1>5
<1> QED
  BY <1>2, <1>3, <1>4, <1>5, <1>6

\* read_data reads clusters of the runs, in their places.
LEMMA ReadDataIs ==
    ASSUME NEW e \in MftEntry, e.data # "none", read_data(e) # None
    PROVE  /\ read_data(e) \in Seq(Int)
           /\ e.data = "resident" => read_data(e) = << >>
           /\ \A x \in ElementsOf(read_data(e)) : x = SPARSE \/ x \in ClustersOf(e.runs)
<1>1. PICK all : all = Expand(e.runs)
  OBVIOUS
<1>2. /\ e.runs \in Seq(Run) /\ e.size \in Nat
      /\ e.data \in { "resident", "runs", "compressed" }
  BY DEF MftEntry
<1>3. all \in Seq(Int) /\ \A x \in ElementsOf(all) : x = SPARSE \/ x \in ClustersOf(e.runs)
  BY <1>1, <1>2, ExpandIs
<1>4. PICK want : want = CASE e.data = "resident" -> << >>
                           [] e.data = "compressed" -> Stored(all)
                           [] OTHER -> SubSeq(all, 1, IF e.size < Len(all) THEN e.size ELSE Len(all))
  OBVIOUS
<1>5. read_data(e) = want
  BY <1>1, <1>4, Zenon DEF read_data
<1>6. CASE e.data = "resident"
  <2>1. want = << >>
    BY <1>4, <1>6
  <2> QED
    BY <1>5, <2>1 DEF ElementsOf
<1>7. CASE e.data = "compressed"
  <2>1. want = Stored(all)
    BY <1>4, <1>7
  <2>2. want \in Seq(Int) /\ ElementsOf(want) \subseteq ElementsOf(all)
    BY <1>3, <2>1, StoredIs
  <2> QED
    BY <1>3, <1>5, <1>7, <2>2
<1>8. CASE e.data = "runs"
  <2>1. PICK k : k = IF e.size < Len(all) THEN e.size ELSE Len(all)
    OBVIOUS
  <2>2. k \in 0 .. Len(all)
    BY <1>2, <1>3, <2>1
  <2>3. want = SubSeq(all, 1, k)
    BY <1>4, <1>8, <2>1
  <2>4. want \in Seq(Int) /\ ElementsOf(want) \subseteq ElementsOf(all)
    BY <1>3, <2>2, <2>3, PrefixIs
  <2> QED
    BY <1>3, <1>5, <1>8, <2>4
<1> QED
  BY <1>2, <1>6, <1>7, <1>8

\* What stale_rebuild yields is the head or begins like it.
LEMMA RebuildIs ==
    ASSUME None \notin Nat, NEW e \in MftEntry, e.runs # << >>, e.size > 0,
           NEW s, s = stale_rebuild(e), s # None
    PROVE  /\ s \in Seq(Int) /\ ~ is_allocated(e.runs[1].cluster)
           /\ s = << e.runs[1].cluster >> \/ s[1] \notin ClustersOf(e.runs)
           /\ volume.content[s[1]] = volume.content[e.runs[1].cluster]
<1>1. e.runs \in Seq(Run) /\ e.size \in Nat /\ 1 \in 1 .. Len(e.runs)
  <2>1. e.runs \in Seq(Run) /\ e.size \in Nat
    BY DEF MftEntry
  <2> QED
    BY <2>1, EmptySeq
<1>2. PICK r \in Run : r = e.runs[1]
  BY <1>1
<1>3. PICK head : head = intact_head(e)
  OBVIOUS
<1>4. PICK copy : copy = IF head = None THEN None ELSE find_seeded_copy(head, e.runs)
  OBVIOUS
<1>5. s = IF head = None THEN None
          ELSE IF copy # None /\ Readable(read_from(copy, e.size)) THEN read_from(copy, e.size)
          ELSE IF volume.content[head] \in KNOWN_MAGICS THEN << head >>
          ELSE None
  BY <1>3, <1>4, Zenon DEF stale_rebuild
<1>6. head # None
  BY <1>5
<1>7. head = r.cluster /\ r.cluster # SPARSE /\ \A c \in ClustersOf(<< r >>) : ~ is_allocated(c)
  BY <1>2, <1>3, <1>6, Zenon DEF intact_head
<1>8. r.cluster \in ClustersOf(<< r >>)
  <2>1. r.cluster \in Nat /\ r.length \in Nat /\ r.length > 0
    BY <1>7 DEF Run
  <2>2. r.cluster \in r.cluster .. r.cluster + r.length - 1
    BY <2>1
  <2>3. DOMAIN << r >> = { 1 } /\ << r >>[1] = r
    OBVIOUS
  <2> QED
    BY <1>7, <2>2, <2>3 DEF ClustersOf
<1>9. CASE copy # None /\ s = read_from(copy, e.size)
  <2>1. copy = find_seeded_copy(head, e.runs)
    BY <1>4, <1>6
  <2> DEFINE alike == { c \in (0 .. NClusters - 1) \ (ClustersOf(e.runs) \cup volume.bad) :
                          volume.content[c] = volume.content[head] }
             unused == { c \in alike : ~ is_allocated(c) }
             first == IF unused # {} THEN unused ELSE alike
  <2>2. copy = IF first = {} THEN None ELSE CHOOSE c \in first : \A d \in first : c <= d
    BY <2>1, Zenon DEF find_seeded_copy
  <2>3. first # {} /\ first \in SUBSET Nat
    <3>1. NClusters \in Nat
      BY NtfsAssumption
    <3> QED
      BY <1>9, <2>2, <3>1
  <2>4. copy \in first
    <3>1. \E c \in first : \A d \in first : c <= d
      <4> HIDE DEF first
      <4> QED
        BY <2>3, NatMin
    <3> HIDE DEF first
    <3> QED
      BY <2>2, <2>3, <3>1
  <2>5. copy \in Nat /\ copy \notin ClustersOf(e.runs) /\ volume.content[copy] = volume.content[head]
    BY <2>3, <2>4
  <2>6. s[1] = copy
    <3>1. 1 \in 1 .. e.size
      BY <1>1
    <3>2. s = [ k \in 1 .. e.size |-> copy + k - 1 ]
      BY <1>9 DEF read_from
    <3>3. s[1] = copy + 1 - 1
      BY <3>1, <3>2
    <3> QED
      BY <2>5, <3>3
  <2>7. s \in Seq(Int)
    <3>1. PICK size \in Nat : size = e.size
      BY <1>1
    <3>2. PICK c \in Nat : c = copy
      BY <2>5
    <3>3. s = [ k \in 1 .. size |-> c + k - 1 ]
      BY <1>9, <3>1, <3>2 DEF read_from
    <3>4. \A k \in 1 .. size : c + k - 1 \in Int
      OBVIOUS
    <3> QED
      BY <3>3, <3>4
  <2> QED
    BY <1>2, <1>7, <1>8, <2>5, <2>6, <2>7
<1>10. CASE s = << head >>
  <2>1. head \in Int
    BY <1>7 DEF Run
  <2>2. s \in Seq(Int)
    BY <1>10, <2>1
  <2> QED
    BY <1>2, <1>7, <1>8, <1>10, <2>2
<1> QED
  BY <1>5, <1>6, <1>9, <1>10

\* The contents of a deleted file come from free clusters or are rebuilt.
LEMMA ContentsRight ==
    ASSUME volume \in Volumes, volume.allocated # None,
           NEW e \in MftEntry, e.data \in { "runs", "compressed" } => e.runs # << >>,
           HasFile(e), NEW s, s = Contents(e), s # None
    PROVE  s \in Seq(Int) /\ ReadFree(e, s)
<1>0. None \notin Nat
  BY VolumeIs
<1>1. e.data # "none" /\ e.size > 0 /\ e.data \in { "none", "resident", "runs", "compressed" }
  BY DEF HasFile, MftEntry
<1>2. CASE IsStale(e)
  <2>1. s = stale_rebuild(e) /\ e.runs # << >>
    BY <1>2 DEF Contents, IsStale
  <2>2. /\ s \in Seq(Int) /\ ~ is_allocated(e.runs[1].cluster)
        /\ s = << e.runs[1].cluster >> \/ s[1] \notin ClustersOf(e.runs)
        /\ volume.content[s[1]] = volume.content[e.runs[1].cluster]
    BY <1>0, <1>1, <2>1, RebuildIs
  <2> QED
    BY <2>2, Zenon DEF ReadFree
<1>3. CASE ~ IsStale(e)
  <2>1. s = read_data(e)
    BY <1>3 DEF Contents
  <2>2. /\ s \in Seq(Int)
        /\ e.data = "resident" => s = << >>
        /\ \A x \in ElementsOf(s) : x = SPARSE \/ x \in ClustersOf(e.runs)
    BY <1>1, <2>1, ReadDataIs
  <2>3. \A i \in DOMAIN s : s[i] \in ElementsOf(s)
    BY <2>2 DEF ElementsOf
  <2>4. ASSUME ~ e.in_use, NEW i \in DOMAIN s, s[i] # SPARSE PROVE ~ is_allocated(s[i])
    <3>1. s[i] \in ClustersOf(e.runs)
      BY <2>2, <2>3, <2>4
    <3>2. e.data # "resident"
      BY <2>2, <2>4
    <3>3. ~ runs_are_stale(e.runs)
      BY <1>1, <1>3, <2>4, <3>2 DEF IsStale
    <3> QED
      BY <3>1, <3>3 DEF runs_are_stale
  <2> QED
    BY <2>2, <2>4 DEF ReadFree
<1> QED
  BY <1>2, <1>3

\* So does what was written of a file before an error.
LEMMA PrefixFree ==
    ASSUME NEW e, NEW s \in Seq(Int), ReadFree(e, s), NEW n \in 0 .. Len(s)
    PROVE  ReadFree(e, SubSeq(s, 1, n))
<1>1. PICK t : t = SubSeq(s, 1, n)
  OBVIOUS
<1>2. t \in Seq(Int) /\ Len(t) = n /\ \A i \in 1 .. n : t[i] = s[i] /\ i \in DOMAIN s
  BY <1>1
<1>3. CASE \A i \in DOMAIN s : s[i] # SPARSE => ~ is_allocated(s[i])
  BY <1>1, <1>2, <1>3 DEF ReadFree
<1>4. CASE /\ ~ is_allocated(e.runs[1].cluster)
           /\ s = << e.runs[1].cluster >> \/ s[1] \notin ClustersOf(e.runs)
           /\ volume.content[s[1]] = volume.content[e.runs[1].cluster]
  <2>1. CASE n = 0
    BY <1>1, <1>2, <2>1 DEF ReadFree
  <2>2. CASE n > 0
    <3>1. t[1] = s[1]
      BY <1>2, <2>2
    <3>2. s = << e.runs[1].cluster >> => t = s
      BY <1>2, <2>2
    <3> QED
      BY <1>1, <1>4, <3>1, <3>2, Zenon DEF ReadFree
  <2> QED
    BY <2>1, <2>2
<1> QED
  BY <1>1, <1>3, <1>4 DEF ReadFree

-----------------------------------------------------------------------------
(* The steps of the NTFS pass *)

\* As long as the entries stay, so does what the properties say of them.
LEMMA RecordsStay ==
    ASSUME Ntfs, UNCHANGED volume, mft'.entries = mft.entries,
           mft.entries \in Seq(MftEntry \cup { None })
    PROVE  RecordBytes' = RecordBytes
<1>1. \A c : ClusterBytes(c)' = ClusterBytes(c)
  BY DEF ClusterBytes, Ntfs, FirstByte
<1> DEFINE C == UNION { ClustersOf(mft.entries[i].runs) :
                          i \in { j \in DOMAIN mft.entries : mft.entries[j] # None } }
<1>2. C' = C
  BY Zenon
<1>3. RecordBytes = UNION { ClusterBytes(c) : c \in ClustersOf(volume.mft_runs) \cup C }
  BY DEF RecordBytes
<1>4. RecordBytes' = UNION { ClusterBytes(c)' : c \in (ClustersOf(volume.mft_runs) \cup C)' }
  BY DEF RecordBytes
<1> HIDE DEF C
<1>5. (ClustersOf(volume.mft_runs) \cup C)' = ClustersOf(volume.mft_runs) \cup C
  BY <1>2
<1> QED
  BY <1>1, <1>3, <1>4, <1>5

\* The invariants of the pass when neither the volume nor the entries change.
LEMMA FilesStay ==
    ASSUME FilesInv, UNCHANGED << volume, recovered >>, mft'.entries = mft.entries
    PROVE  FilesInv'
  BY DEF FilesInv, ReadFree, is_allocated

\* As long as the entries stay the invariant of them does.
LEMMA EntriesStay ==
    ASSUME EntriesInv, UNCHANGED volume, mft'.entries = mft.entries, mft' \in MftState,
           pc' \notin { "open", "pass1" }
    PROVE  EntriesInv'
  BY DEF EntriesInv

\* The step of an NTFS pass that changes nothing of the search space.
LEMMA SharedStays ==
    ASSUME SharedInv, Ntfs, pc' \in NtfsPC, UNCHANGED << volume, list_search_space, used >>
    PROVE  SharedInv'
  BY DEF SharedInv, NtfsPC, Ntfs

\* The volume is opened, or the pass is over.
LEMMA OpenStep ==
    ASSUME SharedInv, Ntfs, NtfsInv, open
    PROVE  SharedInv' /\ EntriesInv' /\ RangesInv' /\ FilesInv'
<1>1. /\ pc = "open" /\ pc' = IF volume.opens THEN "pass1" ELSE "done"
      /\ UNCHANGED << volume, list_search_space, used, recovered, mft >>
  BY DEF open
<1>2. EntriesInv /\ RangesInv /\ FilesInv
  BY DEF NtfsInv
<1>3. mft.entries = << >> /\ mft.next = 0 /\ mft.ranges = << >> /\ recovered = {} /\ used = {}
  BY <1>1, <1>2 DEF EntriesInv, RangesInv
<1>4. pc' = "pass1" \/ pc' = "done"
  BY <1>1
<1>5. SharedInv'
  BY <1>1, <1>4, SharedStays DEF NtfsPC
<1>6. EntriesInv'
  BY <1>1, <1>2, <1>3, <1>4 DEF EntriesInv
<1>7. RangesInv'
  <2>1. Covered(<< >>) = {} /\ BytesOfEntries(<< >>) = {}
    BY DEF Covered, SpanOf, ElementsOf, BytesOfEntries
  <2>2. pc' = "done" => ~ volume.opens
    BY <1>1
  <2>3. pc' = "pass1" => volume.opens
    BY <1>1
  <2>4. Covered(mft'.ranges) = BytesOfEntries(mft'.entries)
    BY <1>1, <1>3, <2>1
  <2> QED
    BY <1>1, <1>3, <1>4, <2>2, <2>3, <2>4 DEF RangesInv
<1>8. FilesInv'
  BY <1>1, <1>2, FilesStay
<1> QED
  BY <1>5, <1>6, <1>7, <1>8

\* A batch adds its entries and the ranges of just these.
LEMMA ReadBatchStep ==
    ASSUME SharedInv, Ntfs, NtfsInv, ReadBatch
    PROVE  SharedInv' /\ EntriesInv' /\ RangesInv' /\ FilesInv'
<1>0. EntriesInv /\ RangesInv /\ FilesInv
  BY DEF NtfsInv
<1>1. PICK n : n = IF Len(volume.records) - mft.next < Batch
                     THEN Len(volume.records) - mft.next ELSE Batch
  OBVIOUS
<1>2. PICK batch : batch = [ k \in 1 .. n |->
                       parse_mft_record(volume.records[mft.next + k], mft.next + k - 1) ]
  OBVIOUS
<1>3. PICK more : more = FlattenSeq([ k \in 1 .. n |-> EntryRanges(batch[k]) ])
  OBVIOUS
<1>4. /\ pc = "pass1" /\ mft.next < Len(volume.records)
      /\ mft' = [ mft EXCEPT !.entries = @ \o batch, !.next = @ + n, !.ranges = @ \o more ]
      /\ UNCHANGED << volume, pc, list_search_space, used, recovered >>
  BY <1>1, <1>2, <1>3, Zenon DEF ReadBatch, unformat
<1>5. PICK entries : entries = mft.entries
  OBVIOUS
<1>6. PICK m \in Nat : m = Len(entries) /\ m = mft.next
  BY <1>0, <1>4, <1>5 DEF EntriesInv, MftState
<1>7. PICK records : records = volume.records
  OBVIOUS
<1>8. volume \in Volumes /\ records \in Seq(MftRecord \cup { None })
  BY <1>7, VolumeIs DEF SharedInv, IsNtfs
<1>9. /\ entries \in Seq(MftEntry \cup { None })
      /\ \A i \in 1 .. m : entries[i] = parse_mft_record(records[i], i - 1)
      /\ mft.ranges \in Seq(ByteRange) /\ Covered(mft.ranges) = BytesOfEntries(entries)
      /\ recovered = {} /\ used = {} /\ volume.opens
  BY <1>0, <1>4, <1>5, <1>6, <1>7 DEF EntriesInv, RangesInv, MftState
<1>10. n \in Nat /\ m + n <= Len(records)
  <2>1. Batch \in Nat /\ Len(records) \in Nat /\ m < Len(records)
    BY <1>4, <1>6, <1>7, <1>8, NtfsAssumption
  <2> QED
    BY <1>1, <1>6, <1>7, <2>1
<1>11. ASSUME NEW k \in 1 .. n
       PROVE  /\ batch[k] = parse_mft_record(records[m + k], m + k - 1)
              /\ batch[k] # None => batch[k] \in MftEntry
  <2>1. batch[k] = parse_mft_record(records[m + k], m + k - 1)
    BY <1>2, <1>6, <1>7
  <2>2. m + k \in 1 .. Len(records) /\ m + k - 1 \in Nat
    BY <1>8, <1>10
  <2>3. records[m + k] \in MftRecord \cup { None }
    BY <1>8, <2>2
  <2>4. batch[k] # None => batch[k] \in MftEntry
    BY <2>1, <2>2, <2>3, RecordIs
  <2> QED
    BY <2>1, <2>4
<1>12. batch \in Seq(MftEntry \cup { None }) /\ Len(batch) = n
  <2>1. batch \in [ 1 .. n -> MftEntry \cup { None } ]
    BY <1>2, <1>11
  <2> QED
    BY <1>10, <2>1
<1>13. more \in Seq(ByteRange) /\ Covered(more) = UNION { EntryBytes(batch[k]) : k \in 1 .. n }
  BY <1>3, <1>10, <1>11, BatchCovers
<1>14. PICK all : all = entries \o batch
  OBVIOUS
<1>15. /\ all \in Seq(MftEntry \cup { None }) /\ Len(all) = m + n
       /\ \A i \in 1 .. m + n : all[i] = IF i <= m THEN entries[i] ELSE batch[i - m]
  <2>1. PICK S : S = MftEntry \cup { None }
    OBVIOUS
  <2>2. entries \in Seq(S) /\ batch \in Seq(S)
    BY <1>9, <1>12, <2>1
  <2>3. /\ all \in Seq(S) /\ Len(all) = m + n
        /\ \A i \in 1 .. m + n : all[i] = IF i <= m THEN entries[i] ELSE batch[i - m]
    <3>1. m = Len(entries) /\ n = Len(batch)
      BY <1>6, <1>12
    <3> QED
      BY <1>10, <1>14, <2>2, <3>1, ConcatIs
  <2> QED
    BY <2>1, <2>3
<1>16. \A i \in 1 .. m + n : all[i] = parse_mft_record(records[i], i - 1)
  <2> SUFFICES ASSUME NEW i \in 1 .. m + n PROVE all[i] = parse_mft_record(records[i], i - 1)
    OBVIOUS
  <2>1. CASE i <= m
    <3>1. i \in 1 .. m
      BY <2>1
    <3> QED
      BY <1>9, <1>15, <2>1, <3>1
  <2>2. CASE ~ (i <= m)
    <3>1. i - m \in 1 .. n /\ m + (i - m) = i /\ m + (i - m) - 1 = i - 1
      BY <1>10, <2>2
    <3>2. batch[i - m] = parse_mft_record(records[i], i - 1)
      BY <1>11, <3>1
    <3> QED
      BY <1>15, <2>2, <3>2
  <2> QED
    BY <2>1, <2>2
<1>17. PICK ranges : ranges = mft.ranges \o more
  OBVIOUS
<1>18. ranges \in Seq(ByteRange) /\ Covered(ranges) = Covered(mft.ranges) \cup Covered(more)
  BY <1>9, <1>13, <1>17, CoveredConcat
<1>19. Covered(ranges) = BytesOfEntries(all)
  <2>1. \A b : b \in BytesOfEntries(all) <=> \E i \in 1 .. m + n : b \in EntryBytes(all[i])
    BY <1>15 DEF BytesOfEntries
  <2>2. \A b : b \in BytesOfEntries(entries) <=> \E i \in 1 .. m : b \in EntryBytes(entries[i])
    BY <1>6 DEF BytesOfEntries
  <2>3. \A b : b \in Covered(more) <=> \E k \in 1 .. n : b \in EntryBytes(batch[k])
    BY <1>13
  <2>4. \A i \in 1 .. m : i \in 1 .. m + n /\ all[i] = entries[i]
    BY <1>10, <1>15
  <2>5. \A k \in 1 .. n : m + k \in 1 .. m + n /\ all[m + k] = batch[k]
    <3> SUFFICES ASSUME NEW k \in 1 .. n PROVE m + k \in 1 .. m + n /\ all[m + k] = batch[k]
      OBVIOUS
    <3>1. m + k \in 1 .. m + n /\ ~ (m + k <= m) /\ m + k - m = k
      BY <1>10
    <3> QED
      BY <1>15, <3>1
  <2>6. \A i \in 1 .. m + n : i \in 1 .. m \/ \E k \in 1 .. n : i = m + k
    <3> SUFFICES ASSUME NEW i \in 1 .. m + n, i \notin 1 .. m PROVE \E k \in 1 .. n : i = m + k
      OBVIOUS
    <3>1. i - m \in 1 .. n /\ i = m + (i - m)
      BY <1>10
    <3> QED
      BY <3>1
  <2>7. \A b : b \in BytesOfEntries(all) <=> b \in BytesOfEntries(entries) \/ b \in Covered(more)
    <3> SUFFICES ASSUME NEW b
                 PROVE  b \in BytesOfEntries(all) <=> b \in BytesOfEntries(entries) \/ b \in Covered(more)
      OBVIOUS
    <3>1. ASSUME b \in BytesOfEntries(all) PROVE b \in BytesOfEntries(entries) \/ b \in Covered(more)
      <4>1. PICK i \in 1 .. m + n : b \in EntryBytes(all[i])
        BY <2>1, <3>1
      <4>2. CASE i \in 1 .. m
        BY <2>2, <2>4, <4>1, <4>2
      <4>3. CASE \E k \in 1 .. n : i = m + k
        BY <2>3, <2>5, <4>1, <4>3
      <4> QED
        BY <2>6, <4>2, <4>3
    <3>2. ASSUME b \in BytesOfEntries(entries) PROVE b \in BytesOfEntries(all)
      BY <2>1, <2>2, <2>4, <3>2
    <3>3. ASSUME b \in Covered(more) PROVE b \in BytesOfEntries(all)
      BY <2>1, <2>3, <2>5, <3>3
    <3> QED
      BY <3>1, <3>2, <3>3
  <2> QED
    BY <1>9, <1>18, <2>7
<1>20. /\ mft' \in MftState
       /\ mft'.entries = all /\ mft'.next = m + n /\ mft'.ranges = ranges
  <2>1. PICK k \in Nat : k = m + n
    BY <1>10
  <2>2. mft' = [ mft EXCEPT !.entries = all, !.next = k, !.ranges = ranges ]
    BY <1>4, <1>5, <1>6, <1>14, <1>17, <2>1, Zenon
  <2>3. mft \in MftState
    BY <1>0 DEF EntriesInv
  <2> QED
    BY <1>15, <1>18, <2>1, <2>2, <2>3 DEF MftState
<1>21. SharedInv'
  BY <1>4, SharedStays DEF NtfsPC
<1>22. EntriesInv'
  <2>1. m + n \in Nat
    BY <1>10
  <2> QED
    BY <1>4, <1>7, <1>10, <1>15, <1>16, <1>18, <1>20, <2>1 DEF EntriesInv
<1>23. RangesInv'
  BY <1>4, <1>9, <1>19, <1>20 DEF RangesInv
<1>24. FilesInv'
  BY <1>4, <1>9 DEF FilesInv
<1> QED
  BY <1>21, <1>22, <1>23, <1>24

\* The ranges of the MFT are added, and merging them keeps every byte.
LEMMA CollectStep ==
    ASSUME SharedInv, Ntfs, NtfsInv, CollectRanges
    PROVE  SharedInv' /\ EntriesInv' /\ RangesInv' /\ FilesInv'
<1>0. EntriesInv /\ RangesInv /\ FilesInv
  BY DEF NtfsInv
<1>1. PICK v : v = mft.ranges \o RangesOf(volume.mft_runs)
  OBVIOUS
<1>2. PICK ranges : ranges = merge_ranges(v)
  OBVIOUS
<1>3. /\ pc = "pass1" /\ pc' = "pass2"
      /\ mft' = [ mft EXCEPT !.next = 1, !.ranges = ranges ]
      /\ UNCHANGED << volume, list_search_space, used, recovered >>
  BY <1>1, <1>2, Zenon DEF CollectRanges
<1>4. /\ volume.mft_runs \in Seq(Run) /\ mft \in MftState
      /\ mft.ranges \in Seq(ByteRange) /\ Covered(mft.ranges) = BytesOfEntries(mft.entries)
      /\ mft.entries \in Seq(MftEntry \cup { None })
      /\ recovered = {} /\ used = {} /\ volume.opens
  BY <1>0, <1>3, VolumeIs DEF EntriesInv, RangesInv, SharedInv, IsNtfs, MftState
<1>5. v \in Seq(ByteRange) /\ Covered(v) = Covered(mft.ranges) \cup RunBytes(volume.mft_runs)
  <2>1. PICK t : t = RangesOf(volume.mft_runs)
    OBVIOUS
  <2>2. t \in Seq(ByteRange) /\ Covered(t) = RunBytes(volume.mft_runs)
    BY <1>4, <2>1, RangesOfOK
  <2> QED
    BY <1>1, <1>4, <2>1, <2>2, CoveredConcat
<1>6. ranges \in Seq(ByteRange) /\ Covered(ranges) = Covered(v)
  BY <1>2, <1>5, MergeOK
<1>7. Covered(ranges) = RecordBytes
  <2>1. PICK n \in Nat : n = Len(mft.entries)
    BY <1>4
  <2> QED
    BY <1>4, <1>5, <1>6, <2>1, RecordBytesIs
<1>8. mft' \in MftState /\ mft'.entries = mft.entries /\ mft'.next = 1 /\ mft'.ranges = ranges
  BY <1>3, <1>4, <1>6 DEF MftState
<1>9. RecordBytes' = RecordBytes
  BY <1>3, <1>4, <1>8, RecordsStay
<1>10. SharedInv'
  BY <1>3, SharedStays DEF NtfsPC
<1>11. EntriesInv'
  BY <1>0, <1>3, <1>8, EntriesStay
<1>12. RangesInv'
  BY <1>3, <1>4, <1>7, <1>8, <1>9 DEF RangesInv
<1>13. FilesInv'
  BY <1>0, <1>3, <1>8, FilesStay
<1> QED
  BY <1>10, <1>11, <1>12, <1>13

\* The entry of the next record.
LEMMA EntryIs ==
    ASSUME SharedInv, Ntfs, EntriesInv, NEW n \in 1 .. Len(mft.entries),
           NEW e, e = mft.entries[n], e # None
    PROVE  /\ e \in MftEntry /\ e.record = n - 1
           /\ e.data \in { "runs", "compressed" } => e.runs # << >>
<1>1. volume.records \in Seq(MftRecord \cup { None })
  BY VolumeIs DEF SharedInv, IsNtfs
<1>2. PICK r : r = volume.records[n]
  OBVIOUS
<1>3. mft.entries \in Seq(MftEntry \cup { None }) /\ Len(mft.entries) <= Len(volume.records)
  BY DEF EntriesInv, MftState
<1>4. n \in 1 .. Len(volume.records) /\ n - 1 \in Nat
  BY <1>1, <1>3
<1>5. r \in MftRecord \cup { None }
  BY <1>1, <1>2, <1>4
<1>6. e = parse_mft_record(r, n - 1)
  BY <1>2 DEF EntriesInv
<1> QED
  BY <1>4, <1>5, <1>6, RecordIs

\* A file that is written is of its entry, and free where it must be.
LEMMA FilesWritten ==
    ASSUME Ntfs, EntriesInv, FilesInv, UNCHANGED volume, mft'.entries = mft.entries,
           NEW n \in 1 .. Len(mft.entries), NEW e \in MftEntry, e = mft.entries[n], e # None,
           e.record = n - 1, NEW path, NEW s, Written(path, e, s),
           volume.allocated # None => ReadFree(e, s)
    PROVE  FilesInv'
<1>1. mft.entries \in Seq(MftEntry \cup { None })
  BY DEF EntriesInv, MftState
<1>2. PICK g : g = File(path, Unique(path), e.record, s)
  OBVIOUS
<1>3. g.of = n - 1 /\ g.clusters = s
  BY <1>2 DEF File
<1>4. \A f \in recovered' : f \in recovered \/ f = g
  BY <1>2 DEF Written
<1>5. g.of \in Nat /\ g.of + 1 = n
  BY <1>1, <1>3
<1>6. \A a, b : ReadFree(a, b)' = ReadFree(a, b)
  BY DEF ReadFree, is_allocated
<1>7. ASSUME NEW f \in recovered'
      PROVE  /\ f.of \in Nat /\ f.of + 1 \in 1 .. Len(mft.entries)
             /\ mft.entries[f.of + 1] # None
             /\ volume.allocated # None => ReadFree(mft.entries[f.of + 1], f.clusters)
  <2>1. CASE f \in recovered
    BY <2>1 DEF FilesInv
  <2>2. CASE f = g
    BY <1>3, <1>5, <2>2
  <2> QED
    BY <1>4, <1>7, <2>1, <2>2
<1> QED
  BY <1>6, <1>7 DEF FilesInv

\* The pass goes on to the next record.
LEMMA GoesOnRecord ==
    ASSUME SharedInv, Ntfs, EntriesInv, RangesInv, pc = "pass2",
           UNCHANGED << volume, pc, list_search_space, used >>,
           mft' \in MftState, mft'.entries = mft.entries, mft'.next = mft.next + 1,
           mft'.ranges = mft.ranges
    PROVE  SharedInv' /\ EntriesInv' /\ RangesInv'
<1>1. mft \in MftState /\ mft.next >= 1 /\ used = {} /\ volume.opens
  BY DEF EntriesInv, RangesInv
<1>2. mft.entries \in Seq(MftEntry \cup { None }) /\ mft.next \in Nat
  BY <1>1 DEF MftState
<1>3. RecordBytes' = RecordBytes
  BY <1>2, RecordsStay
<1>4. SharedInv'
  BY SharedStays DEF NtfsPC
<1>5. EntriesInv'
  BY EntriesStay
<1>6. mft'.next >= 1
  BY <1>1, <1>2
<1>7. RangesInv'
  BY <1>1, <1>3, <1>6 DEF RangesInv
<1> QED
  BY <1>4, <1>5, <1>7

\* The record pass 2 is at.
LEMMA CurrentIs ==
    ASSUME SharedInv, Ntfs, NtfsInv, AtRecord
    PROVE  /\ mft \in MftState /\ mft.next \in 1 .. Len(mft.entries)
           /\ HasFile(Current) =>
                 /\ Current \in MftEntry /\ Current # None /\ Current.record = mft.next - 1
                 /\ Current.data \in { "runs", "compressed" } => Current.runs # << >>
<1>0. EntriesInv /\ RangesInv
  BY DEF NtfsInv
<1>1. mft \in MftState /\ mft.next >= 1 /\ mft.next <= Len(mft.entries)
  BY <1>0 DEF EntriesInv, RangesInv, AtRecord
<1>2. mft.next \in Nat /\ mft.entries \in Seq(MftEntry \cup { None })
  BY <1>1 DEF MftState
<1>3. PICK n \in 1 .. Len(mft.entries) : n = mft.next
  BY <1>1, <1>2
<1>4. HasFile(Current) => Current # None
  BY DEF HasFile
<1> QED
  BY <1>0, <1>1, <1>3, <1>4, EntryIs DEF Current

\* A file is written from what Contents read.
LEMMA RecoverStep ==
    ASSUME SharedInv, Ntfs, NtfsInv, RecoverRecord
    PROVE  SharedInv' /\ EntriesInv' /\ RangesInv' /\ FilesInv'
<1>0. EntriesInv /\ RangesInv /\ FilesInv
  BY DEF NtfsInv
<1>1. PICK e : e = Current
  OBVIOUS
<1>2. PICK d : d = IF Writes(e) THEN 1 ELSE 0
  OBVIOUS
<1>3. /\ AtRecord /\ pc = "pass2"
      /\ mft' = [ mft EXCEPT !.next = @ + 1, !.files = @ + d ]
      /\ IF Writes(e) THEN Written(PathOf(e), e, Contents(e)) ELSE UNCHANGED recovered
      /\ UNCHANGED << volume, pc, list_search_space, used >>
  BY <1>1, <1>2, Zenon DEF RecoverRecord, AtRecord
<1>4. mft \in MftState /\ mft.next \in 1 .. Len(mft.entries)
  BY <1>3, CurrentIs
<1>5. /\ mft' \in MftState /\ mft'.entries = mft.entries /\ mft'.next = mft.next + 1
      /\ mft'.ranges = mft.ranges
  <2>1. PICK files \in Nat : files = mft.files + d
    <3>1. d \in Nat
      BY <1>2
    <3> QED
      BY <1>4, <3>1 DEF MftState
  <2>2. PICK next \in Nat : next = mft.next + 1
    BY <1>4 DEF MftState
  <2>3. mft' = [ mft EXCEPT !.next = next, !.files = files ]
    BY <1>3, <2>1, <2>2, Zenon
  <2>4. mft.ranges = mft'.ranges /\ mft.entries = mft'.entries /\ mft'.next = next /\ mft' \in MftState
    BY <1>4, <2>3 DEF MftState
  <2> QED
    BY <2>2, <2>4
<1>6. SharedInv' /\ EntriesInv' /\ RangesInv'
  BY <1>0, <1>3, <1>5, GoesOnRecord
<1>7. FilesInv'
  <2>1. CASE ~ Writes(e)
    BY <1>0, <1>3, <1>5, <2>1, FilesStay
  <2>2. CASE Writes(e)
    <3>1. HasFile(e) /\ Contents(e) # None
      BY <2>2 DEF Writes
    <3>2. /\ e \in MftEntry /\ e # None /\ e.record = mft.next - 1 /\ e = mft.entries[mft.next]
          /\ e.data \in { "runs", "compressed" } => e.runs # << >>
      BY <1>1, <1>3, <3>1, CurrentIs DEF Current
    <3>3. volume.allocated # None => ReadFree(e, Contents(e))
      BY <3>1, <3>2, ContentsRight DEF SharedInv
    <3> QED
      BY <1>0, <1>3, <1>4, <1>5, <2>2, <3>2, <3>3, FilesWritten
  <2> QED
    BY <2>1, <2>2
<1> QED
  BY <1>6, <1>7

\* What is left of a file after an error is of its entry too.
LEMMA RecoverFailsStep ==
    ASSUME SharedInv, Ntfs, NtfsInv, RecoverFails
    PROVE  SharedInv' /\ EntriesInv' /\ RangesInv' /\ FilesInv'
<1>0. EntriesInv /\ RangesInv /\ FilesInv
  BY DEF NtfsInv
<1>1. PICK e : e = Current
  OBVIOUS
<1>2. PICK failed : failed = mft.failed \cup { e.record }
  OBVIOUS
<1>3. /\ AtRecord /\ pc = "pass2" /\ Writes(e)
      /\ mft' = [ mft EXCEPT !.next = @ + 1, !.failed = failed ]
      /\ \/ UNCHANGED recovered
         \/ \E n \in 0 .. Len(Contents(e)) :
               Written(PathOf(e), e, SubSeq(Contents(e), 1, n))
      /\ UNCHANGED << volume, pc, list_search_space, used >>
  BY <1>1, <1>2, Zenon DEF RecoverFails, AtRecord
<1>4. mft \in MftState /\ mft.next \in 1 .. Len(mft.entries) /\ mft.next \in Nat
  BY <1>3, CurrentIs DEF MftState
<1>5. HasFile(e) /\ Contents(e) # None
  BY <1>3 DEF Writes
<1>6. /\ e \in MftEntry /\ e # None /\ e.record = mft.next - 1 /\ e = mft.entries[mft.next]
      /\ e.data \in { "runs", "compressed" } => e.runs # << >>
  BY <1>1, <1>3, <1>5, CurrentIs DEF Current
<1>7. /\ mft' \in MftState /\ mft'.entries = mft.entries /\ mft'.next = mft.next + 1
      /\ mft'.ranges = mft.ranges
  <2>1. failed \in SUBSET Nat
    <3>1. mft.failed \in SUBSET Nat
      BY <1>4 DEF MftState
    <3>2. e.record \in Nat
      BY <1>4, <1>6
    <3> QED
      BY <1>2, <3>1, <3>2
  <2>2. PICK next \in Nat : next = mft.next + 1
    BY <1>4
  <2>3. mft' = [ mft EXCEPT !.next = next, !.failed = failed ]
    BY <1>3, <2>2, Zenon
  <2>4. mft.ranges = mft'.ranges /\ mft.entries = mft'.entries /\ mft'.next = next /\ mft' \in MftState
    BY <1>4, <2>1, <2>3 DEF MftState
  <2> QED
    BY <2>2, <2>4
<1>8. SharedInv' /\ EntriesInv' /\ RangesInv'
  BY <1>0, <1>3, <1>7, GoesOnRecord
<1>9. FilesInv'
  <2>1. CASE UNCHANGED recovered
    BY <1>0, <1>3, <1>7, <2>1, FilesStay
  <2>2. ASSUME NEW n \in 0 .. Len(Contents(e)),
               Written(PathOf(e), e, SubSeq(Contents(e), 1, n))
        PROVE  FilesInv'
    <3>1. volume.allocated # None => Contents(e) \in Seq(Int) /\ ReadFree(e, Contents(e))
      BY <1>5, <1>6, ContentsRight DEF SharedInv
    <3>2. volume.allocated # None => ReadFree(e, SubSeq(Contents(e), 1, n))
      BY <2>2, <3>1, PrefixFree
    <3> QED
      BY <1>0, <1>3, <1>4, <1>6, <1>7, <2>2, <3>2, FilesWritten
  <2> QED
    BY <1>3, <2>1, <2>2
<1> QED
  BY <1>8, <1>9

\* After the panic nothing is known but that the files written stay.
LEMMA PathPanicsStep ==
    ASSUME SharedInv, Ntfs, NtfsInv, PathPanics
    PROVE  SharedInv' /\ EntriesInv' /\ RangesInv' /\ FilesInv'
<1>0. EntriesInv /\ RangesInv /\ FilesInv
  BY DEF NtfsInv
<1>1. /\ pc' = "caught"
      /\ UNCHANGED << volume, list_search_space, used, recovered, mft >>
  BY DEF PathPanics
<1>2. mft \in MftState
  BY <1>0 DEF EntriesInv
<1>3. SharedInv'
  BY <1>1, SharedStays DEF NtfsPC
<1>4. EntriesInv'
  BY <1>0, <1>1, <1>2, EntriesStay
<1>5. RangesInv'
  BY <1>1 DEF RangesInv
<1>6. FilesInv'
  BY <1>0, <1>1, FilesStay
<1> QED
  BY <1>3, <1>4, <1>5, <1>6

\* Pass 2 ends, also when it is stopped, with all ranges still to be marked.
LEMMA RecordsEndStep ==
    ASSUME SharedInv, Ntfs, NtfsInv, EndOfRecords
    PROVE  SharedInv' /\ EntriesInv' /\ RangesInv' /\ FilesInv'
<1>0. EntriesInv /\ RangesInv /\ FilesInv
  BY DEF NtfsInv
<1>1. /\ pc = "pass2" /\ pc' = "mark"
      /\ UNCHANGED << volume, list_search_space, used, recovered, mft >>
  BY DEF EndOfRecords
<1>2. mft \in MftState /\ mft.entries \in Seq(MftEntry \cup { None })
  BY <1>0 DEF EntriesInv, MftState
<1>3. RecordBytes' = RecordBytes
  BY <1>1, <1>2, RecordsStay
<1>4. SharedInv'
  BY <1>1, SharedStays DEF NtfsPC
<1>5. EntriesInv'
  BY <1>0, <1>1, <1>2, EntriesStay
<1>6. RangesInv'
  BY <1>0, <1>1, <1>3 DEF RangesInv
<1>7. FilesInv'
  BY <1>0, <1>1, FilesStay
<1> QED
  BY <1>4, <1>5, <1>6, <1>7

\* A range goes from those to be marked to what has been taken out.
LEMMA MarkStep ==
    ASSUME SharedInv, Ntfs, NtfsInv, mark_used_ranges
    PROVE  SharedInv' /\ EntriesInv' /\ RangesInv' /\ FilesInv'
<1>0. EntriesInv /\ RangesInv /\ FilesInv
  BY DEF NtfsInv
<1>1. /\ mft \in MftState /\ mft.entries \in Seq(MftEntry \cup { None })
      /\ mft.ranges \in Seq(ByteRange)
  BY <1>0 DEF EntriesInv, MftState
<1>2. pc = "mark" /\ UNCHANGED << volume, recovered >>
  BY DEF mark_used_ranges
<1>3. used \cup Covered(mft.ranges) = RecordBytes /\ volume.opens
  BY <1>0, <1>2 DEF RangesInv
<1>4. CASE mft.ranges = << >>
  <2>1. pc' = "done" /\ UNCHANGED << mft, list_search_space, used >>
    BY <1>4 DEF mark_used_ranges
  <2>2. RecordBytes' = RecordBytes
    BY <1>1, <1>2, <2>1, RecordsStay
  <2>3. SharedInv'
    BY <1>2, <2>1, SharedStays DEF NtfsPC
  <2>4. EntriesInv'
    BY <1>0, <1>1, <1>2, <2>1, EntriesStay
  <2>5. Covered(mft.ranges) = {}
    BY <1>4 DEF Covered, SpanOf, ElementsOf
  <2>6. RangesInv'
    BY <1>2, <1>3, <2>1, <2>2, <2>5 DEF RangesInv
  <2>7. FilesInv'
    BY <1>0, <1>2, <2>1, FilesStay
  <2> QED
    BY <2>3, <2>4, <2>6, <2>7
<1>5. CASE mft.ranges # << >>
  <2>1. PICK r : r = Head(mft.ranges)
    OBVIOUS
  <2>2. PICK rest : rest = Tail(mft.ranges)
    OBVIOUS
  <2>3. /\ TakeOut(r.offset, r.offset + r.size - 1)
        /\ mft' = [ mft EXCEPT !.ranges = rest ] /\ UNCHANGED pc
    BY <1>5, <2>1, <2>2 DEF mark_used_ranges
  <2>4. /\ r \in ByteRange /\ rest \in Seq(ByteRange)
        /\ ElementsOf(mft.ranges) = ElementsOf(rest) \cup { r }
    BY <1>1, <1>5, <2>1, <2>2, HeadAndTail
  <2>5. Covered(mft.ranges) = Covered(rest) \cup Span(r)
    BY <2>4, SpanOfUnion DEF Covered
  <2>6. PICK last \in Int : last = r.offset + r.size - 1
    BY <2>4 DEF ByteRange
  <2>7. r.offset \in Nat
    BY <2>4 DEF ByteRange
  <2>8. /\ list_search_space' \in Ordered
        /\ Bytes(list_search_space') \cap used' = {}
        /\ used' = used \cup (r.offset .. last)
    BY <2>3, <2>6, <2>7, TakeOutOK DEF SharedInv
  <2>9. used' = used \cup Span(r)
    BY <2>6, <2>8 DEF Span
  <2>10. mft' \in MftState /\ mft'.entries = mft.entries /\ mft'.ranges = rest
    BY <1>1, <2>3, <2>4 DEF MftState
  <2>11. RecordBytes' = RecordBytes
    BY <1>1, <1>2, <2>10, RecordsStay
  <2>12. SharedInv'
    BY <1>2, <2>3, <2>8 DEF SharedInv, Ntfs
  <2>13. EntriesInv'
    BY <1>0, <1>2, <2>3, <2>10, EntriesStay
  <2>14. used' \cup Covered(mft'.ranges) = RecordBytes'
    BY <1>3, <2>5, <2>9, <2>10, <2>11
  <2>15. RangesInv'
    BY <1>2, <1>3, <2>3, <2>14 DEF RangesInv
  <2>16. FilesInv'
    BY <1>0, <1>2, <2>10, FilesStay
  <2> QED
    BY <2>12, <2>13, <2>15, <2>16
<1> QED
  BY <1>4, <1>5

-----------------------------------------------------------------------------
(* The steps of the search for FAT directories *)

\* The first and the last byte of a list that covers an interval.
LEMMA EndsOf ==
    ASSUME NEW l \in Ordered, l # << >>, NEW a \in Int, NEW b \in Int, Bytes(l) = a .. b
    PROVE  l[1].start = a /\ l[Len(l)].end = b /\ a <= b
<1>1. PICK n \in Nat : n = Len(l) /\ n >= 1
  BY OrderedFacts, EmptySeq
<1>2. /\ \A i \in 1 .. n : l[i].start \in Nat /\ l[i].end \in Nat /\ l[i].start <= l[i].end
      /\ \A i, j \in 1 .. n : i < j => l[i].end < l[j].start
  BY <1>1, OrderedFacts
<1>3. \A c : c \in a .. b <=> \E i \in 1 .. n : c \in Int /\ l[i].start <= c /\ c <= l[i].end
  <2>1. \A c : c \in Bytes(l) <=> c \in Int /\ InList(c, l)
    BY OrderedFacts, ListBytes
  <2> QED
    BY <1>1, <2>1 DEF InList, In
<1>4. PICK s \in Nat : s = l[1].start
  BY <1>1, <1>2
<1>5. PICK e \in Nat : e = l[n].end
  BY <1>1, <1>2
<1>6. s \in a .. b /\ e \in a .. b
  <2>1. 1 \in 1 .. n /\ n \in 1 .. n
    BY <1>1
  <2>2. s <= l[1].end /\ l[n].start <= e
    BY <1>2, <1>4, <1>5, <2>1
  <2> QED
    BY <1>3, <1>4, <1>5, <2>1, <2>2
<1>7. \A i \in 1 .. n : s <= l[i].start /\ l[i].end <= e
  <2> SUFFICES ASSUME NEW i \in 1 .. n PROVE s <= l[i].start /\ l[i].end <= e
    OBVIOUS
  <2>1. i = 1 \/ 1 < i
    OBVIOUS
  <2>2. i = n \/ i < n
    OBVIOUS
  <2>3. 1 \in 1 .. n /\ n \in 1 .. n
    BY <1>1
  <2>4. l[i].start \in Nat /\ l[i].end \in Nat /\ l[1].end \in Nat /\ l[n].start \in Nat
    BY <1>2, <2>3
  <2>5. l[1].start <= l[1].end /\ l[n].start <= l[n].end
    BY <1>2, <2>3
  <2>6. 1 < i => l[1].end < l[i].start
    BY <1>2, <2>3
  <2>7. i < n => l[i].end < l[n].start
    BY <1>2, <2>3
  <2>8. s <= l[i].start
    BY <1>4, <2>1, <2>4, <2>5, <2>6
  <2>9. l[i].end <= e
    BY <1>5, <2>2, <2>4, <2>5, <2>7
  <2> QED
    BY <2>8, <2>9
<1>8. a \in a .. b /\ b \in a .. b
  BY <1>6
<1>9. ~ (a < s)
  <2> SUFFICES ASSUME a < s PROVE FALSE
    OBVIOUS
  <2>1. PICK i \in 1 .. n : l[i].start <= a
    BY <1>3, <1>8
  <2> QED
    BY <1>2, <1>7, <2>1
<1>10. ~ (e < b)
  <2> SUFFICES ASSUME e < b PROVE FALSE
    OBVIOUS
  <2>1. PICK i \in 1 .. n : b <= l[i].end
    BY <1>3, <1>8
  <2> QED
    BY <1>2, <1>7, <2>1
<1> QED
  BY <1>1, <1>4, <1>5, <1>6, <1>9, <1>10

\* The end of the search space of the data area is the end of a cluster.
LEMMA EndOnGrid ==
    ASSUME NEW bs \in Nat, bs > 1, NEW start \in Nat, NEW a \in Int, start < RoundUp(a, bs, start % bs)
    PROVE  \E m \in Nat \ {0} : RoundUp(a, bs, start % bs) = start + m * bs
<1>1. PICK q \in Int, off \in 0 .. bs - 1 : off = start % bs /\ start = bs * q + off
  <2>1. start \in Int /\ bs > 0
    OBVIOUS
  <2> QED
    BY <2>1, DivMod
<1>2. PICK p : p = (a - off + bs - 1) \div bs
  OBVIOUS
<1>3. p \in Int
  <2>1. a - off + bs - 1 \in Int /\ bs > 0
    OBVIOUS
  <2> QED
    BY <1>2, <2>1, DivMod
<1>4. PICK z : z = RoundUp(a, bs, off)
  OBVIOUS
<1>5. z = p * bs + off
  BY <1>2, <1>4 DEF RoundUp
<1>6. PICK m \in Int : m = p - q
  BY <1>1, <1>3
<1>7. z = start + m * bs
  <2>1. p = q + m
    BY <1>1, <1>3, <1>6
  <2>2. p * bs = q * bs + m * bs
    BY <1>1, <1>6, <2>1
  <2>3. q * bs = bs * q
    BY <1>1
  <2>4. q * bs \in Int /\ m * bs \in Int
    BY <1>1, <1>6
  <2> QED
    BY <1>1, <1>5, <2>2, <2>3, <2>4
<1>8. start < z
  BY <1>1, <1>4
<1>9. m > 0
  <2>1. m <= 0 => m * bs <= 0
    OBVIOUS
  <2>2. m * bs \in Int
    OBVIOUS
  <2> QED
    BY <1>7, <1>8, <2>1, <2>2
<1> QED
  BY <1>1, <1>4, <1>7, <1>9

\* What the sweep is in, and what it may rely on.
LEMMA SweepFacts ==
    ASSUME SharedInv, Fat
    PROVE  /\ PartOffset \in Nat /\ Cluster \in Nat /\ Cluster > 1 /\ WindowClusters \in Nat
           /\ ~ Ntfs /\ ~ Tree /\ HasDirectories(volume) /\ start_data \in Nat \cup { None }
           /\ None \notin Nat
  BY VolumeSizesAssumption, FatUnformatAssumption, VolumeIs DEF SharedInv, IsFat, start_data

\* While the sweep goes on only the position matters to SweepSeesAll.
LEMMA SeesAllOn ==
    ASSUME Fat', pc' \in { "sweep", "entries", "advance" }, NEW j, AtCluster(j)',
           Examined' \in Int, Cluster \in Int
    PROVE  SweepSeesAll'
<1>1. PICK x \in Int : x = Examined'
  OBVIOUS
<1>2. sweep'.offset = x \/ sweep'.offset = x + Cluster
  BY <1>1 DEF AtCluster
<1>3. sweep'.offset - x \in { 0, Cluster }
  BY <1>2
<1> QED
  BY <1>1, <1>3 DEF SweepSeesAll

\* The sweep begins on the grid of the clusters, at the start of the data area.
LEMMA GeometryStep ==
    ASSUME SharedInv, Fat, FatInv, Geometry
    PROVE  SharedInv' /\ SweepInv' /\ NamesInv' /\ SweepSeesAll' /\ SweepTakesKnown'
<1>0. SweepInv
  BY DEF FatInv
<1>1. /\ pc = "geometry" /\ UNCHANGED << volume, need_to_stop, used, recovered >>
      /\ list_search_space = Whole /\ used = {} /\ recovered = {}
      /\ sweep \in SweepState /\ sweep.end = 0 /\ sweep.k = 0
      /\ \A i \in 1 .. Len(sweep.dir) : Listed(sweep.dir[i])
  BY <1>0 DEF Geometry, SharedInv, SweepInv
<1>f. /\ PartOffset \in Nat /\ Cluster \in Nat /\ Cluster > 1
      /\ ~ Ntfs /\ ~ Tree /\ HasDirectories(volume) /\ start_data \in Nat \cup { None }
      /\ None \notin Nat
  BY SweepFacts
<1>2. NamesInv' /\ SweepTakesKnown'
  BY <1>1 DEF NamesInv, SweepTakesKnown
<1>3. ASSUME pc' = "done", UNCHANGED sweep, list_search_space' \in Ordered
      PROVE  SharedInv' /\ SweepInv' /\ SweepSeesAll'
  <2>1. SharedInv'
    BY <1>1, <1>3 DEF SharedInv, Ntfs, Fat, FatPC
  <2>2. SweepInv'
    <3>1. (\A i \in 1 .. Len(sweep.dir) : Listed(sweep.dir[i]))'
      BY <1>1, <1>3 DEF Listed
    <3>2. sweep' \in SweepState /\ sweep'.end = 0 /\ ~ (sweep'.end > 0)
      BY <1>1, <1>3
    <3> QED
      BY <1>3, <3>1, <3>2 DEF SweepInv
  <2>3. SweepSeesAll'
    BY <1>1, <1>3 DEF SweepSeesAll
  <2> QED
    BY <2>1, <2>2, <2>3
<1>4. CASE start_data = None \/ start_data \div SectorSize <= PartOffset
  <2>1. pc' = "done" /\ UNCHANGED << list_search_space, sweep >>
    BY <1>4 DEF Geometry
  <2>2. list_search_space' \in Ordered
    BY <2>1 DEF SharedInv
  <2> QED
    BY <1>2, <1>3, <2>1, <2>2
<1>5. CASE ~ (start_data = None \/ start_data \div SectorSize <= PartOffset)
  <2>1. PICK start \in Nat : start = start_data
    BY <1>f, <1>5
  <2>2. start > PartOffset
    <3>1. SectorSize \in Nat /\ SectorSize > 0
      BY VolumeSizesAssumption
    <3>2. PICK k \in Int, m \in 0 .. SectorSize - 1 :
            k = start \div SectorSize /\ start = SectorSize * k + m
      BY <3>1, DivMod
    <3>3. k > PartOffset
      BY <1>f, <1>5, <2>1, <3>2
    <3>4. SectorSize * k >= k
      BY <1>f, <3>1, <3>2, <3>3
    <3> QED
      BY <1>f, <3>1, <3>2, <3>3, <3>4
  <2>3. PICK l0 : l0 = del_search_space(list_search_space, PartOffset, start - 1)
    OBVIOUS
  <2>4. PICK end \in Nat : end = PartOffset + PartSize - 1
    BY VolumeSizesAssumption
  <2>5. l0 \in Ordered /\ Bytes(l0) = (PartOffset .. end) \ (PartOffset .. start - 1)
    <3>1. Whole \in Ordered /\ Bytes(Whole) = PartOffset .. end /\ PartOffset \in Nat
      BY <2>4, WholeIs, VolumeSizesAssumption
    <3>2. PICK last \in Int : last = start - 1
      OBVIOUS
    <3>3. l0 = del_search_space(Whole, PartOffset, last)
      BY <1>1, <2>3, <3>2
    <3>4. l0 \in Ordered /\ Bytes(l0) = Bytes(Whole) \ (PartOffset .. last)
      BY <3>1, <3>3, DelBytes
    <3> QED
      BY <3>1, <3>2, <3>4
  <2>6. Bytes(l0) = start .. end
    BY <1>f, <2>2, <2>5
  <2>7. PICK l : l = update_blocksize(l0, Cluster, start)
    OBVIOUS
  <2>8. PICK z : z = RoundUp(end + 1, Cluster, start % Cluster)
    OBVIOUS
  <2>9. l \in Ordered /\ Bytes(l) = start .. z - 1
    BY <1>f, <2>5, <2>6, <2>7, <2>8, GeometryOK
  <2>10. /\ list_search_space' = l
         /\ IF l = << >> THEN pc' = "done" /\ UNCHANGED sweep
            ELSE /\ sweep' = [ sweep EXCEPT !.offset = l[1].start, !.end = l[Len(l)].end,
                                            !.buffer = l[1].start ]
                 /\ pc' = "sweep"
    BY <1>1, <1>5, <2>1, <2>3, <2>7, Zenon DEF Geometry
  <2>11. CASE l = << >>
    BY <1>2, <1>3, <2>9, <2>10, <2>11
  <2>12. CASE l # << >>
    <3>1. z \in Int
      <4>1. PICK off \in Int : off = start % Cluster
        BY <1>f, DivMod
      <4>2. end + 1 - off + Cluster - 1 \in Int /\ Cluster > 0
        BY <1>f, <4>1
      <4>3. PICK k \in Int : k = (end + 1 - off + Cluster - 1) \div Cluster
        BY <1>f, <4>2, DivMod
      <4>4. z = k * Cluster + off
        BY <2>8, <4>1, <4>3 DEF RoundUp
      <4> QED
        BY <1>f, <4>1, <4>4
    <3>2. l[1].start = start /\ l[Len(l)].end = z - 1 /\ start <= z - 1
      BY <2>9, <2>12, <3>1, EndsOf
    <3>3. PICK m \in Nat \ {0} : z = start + m * Cluster
      <4>1. end + 1 \in Int /\ start < z
        BY <3>1, <3>2
      <4>2. \E m \in Nat \ {0} : RoundUp(end + 1, Cluster, start % Cluster) = start + m * Cluster
        BY <1>f, <2>8, <4>1, EndOnGrid
      <4> QED
        BY <2>8, <4>2, Zenon
    <3>4. PICK last \in Nat : last = z - 1
      BY <3>1, <3>2
    <3>5. sweep' = [ sweep EXCEPT !.offset = start, !.end = last, !.buffer = start ] /\ pc' = "sweep"
      BY <2>10, <2>12, <3>2, <3>4
    <3>6. /\ sweep' \in SweepState /\ sweep'.offset = start /\ sweep'.buffer = start
          /\ sweep'.end = last /\ sweep'.k = 0 /\ sweep'.dir = sweep.dir
          /\ sweep'.examined = sweep.examined
      BY <1>1, <3>5 DEF SweepState
    <3>7. start_data' = start /\ Fat'
      BY <1>1, <2>1 DEF start_data, Fat
    <3>8. Examined' = start
      BY <1>f, <3>6 DEF Examined
    <3>9. AtCluster(0)'
      <4>1. start = start + 0 * Cluster
        BY <1>f
      <4> QED
        BY <3>5, <3>6, <3>7, <3>8, <4>1 DEF AtCluster
    <3>10. SweepSeesAll'
      BY <1>f, <3>5, <3>7, <3>8, <3>9, SeesAllOn
    <3>11. SharedInv'
      <4>1. list_search_space' \in Ordered /\ used' = {} /\ recovered' = {}
        BY <1>1, <2>9, <2>10
      <4> QED
        BY <1>1, <3>5, <4>1 DEF SharedInv, Ntfs, Fat, FatPC
    <3>12. SweepInv'
      <4>1. last + 1 = start + m * Cluster
        BY <3>1, <3>3, <3>4
      <4>2. (\A i \in 1 .. Len(sweep.dir) : Listed(sweep.dir[i]))'
        BY <1>1, <3>6 DEF Listed
      <4>3. \E j \in Nat : AtCluster(j)'
        BY <3>9
      <4> QED
        BY <2>2, <3>5, <3>6, <3>7, <4>1, <4>2, <4>3 DEF SweepInv
    <3> QED
      BY <1>2, <3>10, <3>11, <3>12
  <2> QED
    BY <2>11, <2>12
<1> QED
  BY <1>4, <1>5

-----------------------------------------------------------------------------
(* What the search for FAT directories reads and takes out *)

\* The cluster a byte is in.
LEMMA ClusterAtIs ==
    ASSUME start_data \in Nat, NEW a \in Int, NEW lo \in Int, NEW hi \in Int,
           start_data + lo * Cluster <= a, a < start_data + hi * Cluster
    PROVE  cluster_at(a) \in Int /\ 2 + lo <= cluster_at(a) /\ cluster_at(a) < 2 + hi
<1>1. Cluster \in Nat /\ Cluster > 0
  BY VolumeSizesAssumption
<1>2. PICK x \in Int : x = a - start_data
  OBVIOUS
<1>3. lo * Cluster <= x /\ x < hi * Cluster
  BY <1>1, <1>2
<1>4. x \div Cluster \in Int /\ lo <= x \div Cluster /\ x \div Cluster < hi
  BY <1>1, <1>3, DivRange
<1>5. cluster_at(a) = 2 + x \div Cluster
  BY <1>2 DEF cluster_at
<1> QED
  BY <1>4, <1>5

\* A listing ends before the first end marker.
LEMMA BeforeEnd ==
    ASSUME NEW S, NEW s \in Seq(S), NEW end, end = SelectInSeq(s, LAMBDA e : e.kind = "end"),
           NEW t, t = IF end = 0 THEN s ELSE SubSeq(s, 1, end - 1)
    PROVE  t \in Seq(S) /\ ElementsOf(t) \subseteq ElementsOf(s)
<1>1. PICK I : I = { i \in 1 .. Len(s) : s[i].kind = "end" }
  OBVIOUS
<1>2. end = IF I # {} THEN Min(I) ELSE 0
  BY <1>1 DEF SelectInSeq
<1>3. I \in SUBSET (1 .. Len(s))
  BY <1>1, Zenon
<1> QED
  BY <1>2, <1>3, BeforeFirst, Zenon

\* What a cluster of a directory lists.
LEMMA ListingIs ==
    ASSUME HasDirectories(volume), NEW n
    PROVE  Listing(n) \in Seq(DirectoryEntry) /\ \A x \in ElementsOf(Listing(n)) : Listed(x)
<1>1. CASE n \in DOMAIN volume.dirs
  <2>1. PICK s : s = volume.dirs[n]
    OBVIOUS
  <2>2. s \in Seq(DirectoryEntry)
    BY <1>1, <2>1 DEF HasDirectories
  <2>3. \A x \in ElementsOf(s) : Listed(x)
    BY <1>1, <2>1, <2>2 DEF ElementsOf, Listed
  <2> QED
    BY <1>1, <2>1, <2>2, <2>3 DEF Listing
<1>2. CASE n \notin DOMAIN volume.dirs
  <2>1. Listing(n) = << >>
    BY <1>2 DEF Listing
  <2>2. << >> \in Seq(DirectoryEntry) /\ ElementsOf(<< >>) = {}
    BY DEF ElementsOf
  <2> QED
    BY <2>1, <2>2
<1> QED
  BY <1>1, <1>2

\* dir_fat_aux lists entries of the volume.
LEMMA DirFatAuxIs ==
    ASSUME HasDirectories(volume), NEW n, NEW t, t = dir_fat_aux(n)
    PROVE  t \in Seq(DirectoryEntry) /\ \A i \in 1 .. Len(t) : Listed(t[i])
<1>1. ReadClusters \in Nat
  BY FatUnformatAssumption
<1>2. PICK q : q = [ k \in 1 .. ReadClusters |-> Listing(n + k - 1) ]
  OBVIOUS
<1>3. \A k \in 1 .. ReadClusters :
         q[k] \in Seq(DirectoryEntry) /\ \A x \in ElementsOf(q[k]) : Listed(x)
  BY <1>2, ListingIs
<1>4. q \in Seq(Seq(DirectoryEntry)) /\ Len(q) = ReadClusters
  <2>1. q \in [1 .. ReadClusters -> Seq(DirectoryEntry)]
    BY <1>2, <1>3
  <2> QED
    BY <1>1, <2>1
<1>5. PICK all : all = FlattenSeq(q)
  OBVIOUS
<1>6. all \in Seq(DirectoryEntry) /\ \A x \in ElementsOf(all) : Listed(x)
  <2>1. /\ all \in Seq(DirectoryEntry)
        /\ ElementsOf(all) = UNION { ElementsOf(q[k]) : k \in 1 .. Len(q) }
    BY <1>4, <1>5, FlattenIs
  <2> QED
    BY <1>3, <1>4, <2>1
<1>7. PICK end : end = SelectInSeq(all, LAMBDA e : e.kind = "end")
  OBVIOUS
<1>8. t = IF end = 0 THEN all ELSE SubSeq(all, 1, end - 1)
  BY <1>2, <1>5, <1>7 DEF dir_fat_aux
<1>9. t \in Seq(DirectoryEntry) /\ ElementsOf(t) \subseteq ElementsOf(all)
  BY <1>6, <1>7, <1>8, BeforeEnd
<1> QED
  BY <1>6, <1>9 DEF ElementsOf

\* The shared invariant survives a step of a FAT pass that takes out the clusters
\* of the files it adds, unless they are cut short.
LEMMA SharedKept ==
    ASSUME SharedInv, ~ Ntfs, UNCHANGED volume,
           pc' \in (IF Fat THEN FatPC ELSE WalkPC) \ { "geometry", "boot" },
           list_search_space' \in Ordered, Bytes(list_search_space') \cap used' = {},
           used \subseteq used',
           \A f \in recovered' :
              \/ f \in sweep'.cut
              \/ f \in recovered \ sweep.cut
              \/ \A i \in DOMAIN f.clusters :
                    f.clusters[i] \in Nat => ClusterBytes(f.clusters[i]) \subseteq used'
    PROVE  SharedInv'
<1>1. (Ntfs' <=> Ntfs) /\ (Fat' <=> Fat)
  BY DEF Ntfs, Fat
<1>2. \A n : ClusterBytes(n)' = ClusterBytes(n)
  BY <1>1 DEF ClusterBytes, FirstByte
<1>3. \A f : OwnClusters(f)' = OwnClusters(f)
  BY <1>1 DEF OwnClusters
<1>4. ASSUME NEW f \in recovered', f \notin sweep'.cut, NEW n \in OwnClusters(f)
      PROVE  ClusterBytes(n) \subseteq used'
  <2>1. CASE f \in recovered \ sweep.cut
    BY <1>4, <2>1 DEF SharedInv
  <2>2. CASE f \notin recovered \ sweep.cut
    BY <1>4, <2>2 DEF OwnClusters
  <2> QED
    BY <2>1, <2>2
<1>5. (\A f \in recovered \ sweep.cut : \A n \in OwnClusters(f) : ClusterBytes(n) \subseteq used)'
  BY <1>2, <1>3, <1>4
<1> QED
  BY <1>1, <1>5 DEF SharedInv

\* A directory takes out its cluster or the next one, where the position may be.
LEMMA LookAtStep ==
    ASSUME SharedInv, Fat, FatInv, LookAt
    PROVE  SharedInv' /\ SweepInv' /\ NamesInv' /\ SweepSeesAll' /\ SweepTakesKnown'
<1>0. SweepInv /\ NamesInv /\ SweepTakesKnown
  BY DEF FatInv
<1>f. /\ PartOffset \in Nat /\ Cluster \in Nat /\ Cluster > 1 /\ WindowClusters \in Nat
      /\ ~ Ntfs /\ ~ Tree /\ HasDirectories(volume) /\ start_data \in Nat \cup { None }
      /\ None \notin Nat
  BY SweepFacts
<1>1. /\ pc = "sweep" /\ sweep.offset < sweep.end
      /\ UNCHANGED << volume, need_to_stop, recovered >>
  BY DEF LookAt
<1>2. /\ sweep \in SweepState /\ start_data \in Nat /\ start_data > PartOffset
      /\ \E m \in Nat \ {0} : sweep.end + 1 = start_data + m * Cluster
  BY <1>0, <1>1 DEF SweepInv
<1>3. PICK j \in Nat : AtCluster(j)
  BY <1>0, <1>1 DEF SweepInv
<1>4. PICK x : x = Examined
  OBVIOUS
<1>5. PICK start \in Nat : start = start_data
  BY <1>2
<1>6. PICK p \in Nat : p = j * Cluster
  BY <1>f
<1>7. x \in Nat /\ x = start + p /\ (sweep.offset = x \/ sweep.offset = x + Cluster)
  BY <1>3, <1>4, <1>5, <1>6 DEF AtCluster
<1>8. PICK n : n = cluster_at(x)
  OBVIOUS
<1>9. n \in Int /\ n = 2 + j
  <2>1. (j + 1) * Cluster = p + Cluster
    BY <1>f, <1>6
  <2>2. start_data + j * Cluster <= x /\ x < start_data + (j + 1) * Cluster
    BY <1>f, <1>5, <1>6, <1>7, <2>1
  <2>3. cluster_at(x) \in Int /\ 2 + j <= cluster_at(x) /\ cluster_at(x) < 2 + (j + 1)
    BY <1>2, <1>7, <2>2, ClusterAtIs
  <2> QED
    BY <1>8, <2>3
<1>10. PICK dir : dir = IF is_fat_directory(n) THEN dir_fat_aux(n) ELSE << >>
  OBVIOUS
<1>11. dir \in Seq(DirectoryEntry) /\ \A i \in 1 .. Len(dir) : Listed(dir[i])
  <2>1. CASE is_fat_directory(n)
    BY <1>f, <1>10, <2>1, DirFatAuxIs
  <2>2. CASE ~ is_fat_directory(n)
    BY <1>10, <2>2
  <2> QED
    BY <2>1, <2>2
<1>12. PICK seen : seen = sweep.examined \cup { x }
  OBVIOUS
<1>13. /\ sweep' = [ sweep EXCEPT !.dir = dir, !.nbr = 0, !.dir_inode = 0, !.examined = seen ]
       /\ pc' = IF dir = << >> THEN "advance" ELSE "entries"
       /\ IF dir = << >> THEN UNCHANGED << list_search_space, used >>
          ELSE TakeOut(sweep.offset, sweep.offset + Cluster - 1)
  BY <1>4, <1>8, <1>10, <1>12, Zenon DEF LookAt
<1>14. /\ sweep' \in SweepState /\ sweep'.offset = sweep.offset /\ sweep'.end = sweep.end
       /\ sweep'.buffer = sweep.buffer /\ sweep'.k = sweep.k /\ sweep'.dir = dir
       /\ sweep'.examined = seen /\ sweep'.cut = sweep.cut
  <2>1. seen \in SUBSET Nat
    BY <1>2, <1>7, <1>12 DEF SweepState
  <2> QED
    BY <1>2, <1>11, <1>13, <2>1 DEF SweepState
<1>15. start_data' = start /\ Fat' /\ Examined' = x
  BY <1>1, <1>4, <1>5, <1>14 DEF start_data, Fat, Examined
<1>16. pc' \in { "entries", "advance" }
  BY <1>13
<1>17. AtCluster(j)'
  <2>1. \A i \in 0 .. j - 1 : start + i * Cluster \in seen
    BY <1>3, <1>5, <1>12 DEF AtCluster
  <2>2. x \in seen
    BY <1>12
  <2> QED
    BY <1>6, <1>7, <1>14, <1>15, <2>1, <2>2 DEF AtCluster
<1>18. SweepSeesAll'
  BY <1>f, <1>7, <1>15, <1>16, <1>17, SeesAllOn
<1>19. /\ list_search_space' \in Ordered /\ Bytes(list_search_space') \cap used' = {}
       /\ used \subseteq used'
       /\ \A a \in used' : \/ a \in used
                           \/ dir # << >> /\ a \in sweep.offset .. sweep.offset + Cluster - 1
  <2>1. CASE dir = << >>
    BY <1>13, <2>1 DEF SharedInv
  <2>2. CASE dir # << >>
    <3>1. PICK first \in Nat : first = sweep.offset
      BY <1>f, <1>7
    <3>2. PICK last \in Int : last = first + Cluster - 1
      BY <1>f
    <3>3. TakeOut(first, last)
      BY <1>13, <2>2, <3>1, <3>2
    <3>4. /\ list_search_space' \in Ordered /\ Bytes(list_search_space') \cap used' = {}
          /\ used' = used \cup (first .. last)
      BY <3>3, TakeOutOK DEF SharedInv
    <3> QED
      BY <2>2, <3>1, <3>2, <3>4
  <2> QED
    BY <2>1, <2>2
<1>20. SharedInv'
  BY <1>f, <1>1, <1>14, <1>16, <1>19, SharedKept DEF FatPC
<1>21. SweepInv'
  <2>1. (\A i \in 1 .. Len(sweep.dir) : Listed(sweep.dir[i]))'
    BY <1>1, <1>11, <1>14 DEF Listed
  <2>2. pc' = "entries" => sweep'.dir # << >>
    BY <1>13, <1>14
  <2> QED
    BY <1>2, <1>5, <1>14, <1>15, <1>16, <1>17, <2>1, <2>2 DEF SweepInv
<1>22. NamesInv'
  BY <1>0, <1>1 DEF NamesInv
<1>23. SweepTakesKnown'
  <2>1. \A c : OfCopiedFile(c)' = OfCopiedFile(c)
    BY <1>1 DEF OfCopiedFile, is_fat_directory, Listing
  <2>2. \A a : cluster_at(a)' = cluster_at(a)
    BY <1>5, <1>15 DEF cluster_at
  <2>3. ASSUME NEW a \in used' PROVE OfCopiedFile(cluster_at(a))
    <3>1. CASE a \in used
      BY <1>0, <3>1 DEF SweepTakesKnown
    <3>2. CASE a \notin used
      <4>1. dir # << >> /\ a \in sweep.offset .. sweep.offset + Cluster - 1
        BY <1>19, <3>2
      <4>2. is_fat_directory(n)
        BY <1>10, <4>1
      <4>3. PICK i \in { j, j + 1 } : sweep.offset = start + i * Cluster
        <5>1. (j + 1) * Cluster = p + Cluster
          BY <1>f, <1>6
        <5> QED
          BY <1>f, <1>6, <1>7, <5>1
      <4>4. (i + 1) * Cluster = i * Cluster + Cluster /\ i * Cluster \in Int /\ i \in Int
        BY <1>f, <4>3
      <4>5. a \in Int /\ start_data + i * Cluster <= a /\ a < start_data + (i + 1) * Cluster
        BY <1>f, <1>5, <4>1, <4>3, <4>4
      <4>6. cluster_at(a) \in Int /\ 2 + i <= cluster_at(a) /\ cluster_at(a) < 2 + (i + 1)
        BY <1>2, <4>4, <4>5, ClusterAtIs
      <4>7. cluster_at(a) = n \/ cluster_at(a) - 1 = n
        BY <1>9, <4>3, <4>6
      <4> QED
        BY <4>2, <4>7 DEF OfCopiedFile
    <3> QED
      BY <3>1, <3>2
  <2> QED
    BY <1>15, <2>1, <2>2, <2>3 DEF SweepTakesKnown
<1> QED
  BY <1>18, <1>20, <1>21, <1>22, <1>23

\* The clusters a file is copied from are those from its first to its last one.
LEMMA CopiedIs ==
    ASSUME NEW e \in DirectoryEntry
    PROVE  \E n \in 0 .. e.size : Copied(e) = [ k \in 1 .. n |-> e.ino + k - 1 ]
<1>1. PICK size \in Nat : size = e.size
  BY DEF DirectoryEntry
<1>2. PICK T : T = { j \in 1 .. size : e.ino + j - 1 <= no_of_cluster + 2 }
  OBVIOUS
<1>3. IsFiniteSet(1 .. size) /\ Cardinality(1 .. size) = size
  <2>1. 1 \in Int /\ size \in Int
    OBVIOUS
  <2>2. IsFiniteSet(1 .. size) /\ Cardinality(1 .. size) = IF 1 > size THEN 0 ELSE size - 1 + 1
    BY <2>1, FS_Interval, Zenon
  <2> QED
    BY <2>2
<1>4. T \subseteq 1 .. size
  BY <1>2
<1>5. Cardinality(T) \in Nat /\ Cardinality(T) <= size
  <2>1. IsFiniteSet(T) /\ Cardinality(T) <= Cardinality(1 .. size)
    BY <1>3, <1>4, FS_Subset
  <2> QED
    BY <1>3, <2>1, FS_CardinalityType
<1>6. Copied(e) = [ k \in 1 .. Cardinality(T) |-> e.ino + k - 1 ]
  BY <1>1, <1>2, Zenon DEF Copied
<1>7. Cardinality(T) \in 0 .. e.size
  BY <1>1, <1>5
<1> QED
  BY <1>6, <1>7

\* A file that is copied has a name that NamesInv expects, and takes the place of
\* none but one of the same first cluster.
LEMMA CopyIs ==
    ASSUME NamesInv, sweep.dir_inode \in Nat, NEW e \in DirectoryEntry, e.ino # 0,
           NEW n \in 0 .. Len(Copied(e)), CopyFile(e, n)
    PROVE  /\ \A f \in recovered' : f \in recovered \/ f = CopyOf(e, n)
           /\ \A f \in recovered' : f.nth # 0 => f.nth = f.of
           /\ \A f \in recovered : \E g \in recovered' : g.of = f.of
           /\ \E g \in recovered' : g.of = e.ino
           /\ CopyOf(e, n) \in CopiedFile
<1>1. PICK ino \in Nat : ino = e.ino
  BY DEF DirectoryEntry
<1>2. PICK to : to = CopyName(e)
  OBVIOUS
<1>3. PICK s : s = SubSeq(Copied(e), 1, n)
  OBVIOUS
<1>4. PICK g : g = File(to[1], to[2], ino, s)
  OBVIOUS
<1>5. g = CopyOf(e, n) /\ recovered' = { f \in recovered : << f.path, f.nth >> # to } \cup { g }
  BY <1>1, <1>2, <1>3, <1>4, Zenon DEF CopyFile, CopyOf
<1>6. g.of = ino /\ g.clusters = s /\ g.path = to[1] /\ g.nth = to[2]
  BY <1>4 DEF File
<1>7. PICK path : path = << sweep.dir_inode, e.name >>
  OBVIOUS
<1>8. to = IF \E f \in recovered : f.path = path THEN << path, ino >> ELSE << path, 0 >>
  BY <1>1, <1>2, <1>7, Zenon DEF CopyName
<1>9. to[2] = 0 \/ to[2] = ino
  BY <1>8
<1>10. ASSUME NEW f \in recovered PROVE \E h \in recovered' : h.of = f.of
  <2>1. CASE << f.path, f.nth >> # to
    BY <1>5, <2>1
  <2>2. CASE << f.path, f.nth >> = to
    <3>1. f.path = to[1] /\ f.nth = to[2]
      BY <2>2
    <3>2. to[1] = path
      BY <1>8
    <3>3. to = << path, ino >>
      BY <1>8, <3>1, <3>2
    <3>4. f.of = ino
      BY <1>1, <3>1, <3>3 DEF NamesInv
    <3> QED
      BY <1>5, <1>6, <3>4
  <2> QED
    BY <2>1, <2>2
<1>11. \A f \in recovered' : f.nth # 0 => f.nth = f.of
  BY <1>5, <1>6, <1>9 DEF NamesInv
<1>12. g \in CopiedFile
  <2>1. PICK m \in 0 .. e.size : Copied(e) = [ k \in 1 .. m |-> e.ino + k - 1 ]
    BY CopiedIs
  <2>2. \A k \in 1 .. m : ino + k - 1 \in Nat
    OBVIOUS
  <2>3. Copied(e) \in Seq(Nat)
    <3>1. m \in Nat
      BY DEF DirectoryEntry
    <3> QED
      BY <1>1, <2>1, <2>2, <3>1
  <2>4. s \in Seq(Nat)
    BY <1>3, <2>3
  <2>5. path \in Nat \X STRING
    BY <1>7 DEF DirectoryEntry
  <2>6. to[1] = path /\ to[2] \in Nat
    BY <1>8, <1>9
  <2> QED
    BY <1>4, <2>4, <2>5, <2>6 DEF File, CopiedFile
<1> QED
  BY <1>1, <1>5, <1>6, <1>10, <1>11, <1>12

\* The bytes from the first to the last one of a file are of its clusters.
LEMMA FileClusters ==
    ASSUME SharedInv, Fat, start_data \in Nat, NEW e \in DirectoryEntry,
           e.kind = "file", ~ Implausible(e)
    PROVE  \A a \in file_start(e) .. file_end(e) :
              cluster_at(a) \in e.ino .. e.ino + e.size - 1
<1>f. Cluster \in Nat /\ Cluster > 1 /\ ~ Ntfs
  BY SweepFacts
<1>1. PICK ino \in Nat : ino = e.ino /\ ino >= 2
  BY DEF DirectoryEntry, Implausible
<1>2. PICK size \in Nat : size = e.size
  BY DEF DirectoryEntry
<1>3. PICK start \in Nat : start = start_data
  OBVIOUS
<1>4. PICK i0 \in Nat : i0 = ino - 2
  BY <1>1
<1>5. PICK first \in Nat : first = file_start(e) /\ first = start + i0 * Cluster
  <2>1. file_start(e) = start + (ino - 2) * Cluster
    BY <1>1, <1>3 DEF file_start, cluster_address
  <2>2. (ino - 2) * Cluster = i0 * Cluster /\ i0 * Cluster \in Nat
    BY <1>f, <1>4
  <2> QED
    BY <2>1, <2>2
<1>6. PICK last \in Int : last = file_end(e) /\ last = first + size * Cluster - 1
  <2>1. size * Cluster \in Nat
    BY <1>f
  <2> QED
    BY <1>2, <1>5, <2>1 DEF file_end
<1>17. ASSUME NEW a \in first .. last PROVE cluster_at(a) \in ino .. ino + size - 1
  <2>1. (i0 + size) * Cluster = i0 * Cluster + size * Cluster
    BY <1>f
  <2>2. i0 * Cluster \in Int /\ size * Cluster \in Int /\ i0 + size \in Int
    BY <1>f
  <2>3. start_data + i0 * Cluster <= a /\ a < start_data + (i0 + size) * Cluster
    BY <1>3, <1>5, <1>6, <2>1, <2>2
  <2>4. /\ cluster_at(a) \in Int /\ 2 + i0 <= cluster_at(a)
        /\ cluster_at(a) < 2 + (i0 + size)
    BY <2>2, <2>3, ClusterAtIs
  <2> QED
    BY <1>4, <2>4
<1> QED
  BY <1>1, <1>2, <1>5, <1>6, <1>17

\* A file that is copied whole takes out its clusters and nothing else.
LEMMA CopyTaken ==
    ASSUME SharedInv, Fat, start_data \in Nat, NEW e \in DirectoryEntry,
           e.kind = "file", ~ Implausible(e), UNCHANGED volume,
           TakeOut(file_start(e), file_end(e))
    PROVE  /\ list_search_space' \in Ordered /\ Bytes(list_search_space') \cap used' = {}
           /\ used \subseteq used'
           /\ \A a \in used' : a \in used \/ a \in file_start(e) .. file_end(e)
           /\ \A i \in DOMAIN CopyOf(e, Len(Copied(e))).clusters :
                 ClusterBytes(CopyOf(e, Len(Copied(e))).clusters[i]) \subseteq used'
           /\ \A a \in file_start(e) .. file_end(e) :
                 cluster_at(a) \in e.ino .. e.ino + e.size - 1
<1>f. Cluster \in Nat /\ Cluster > 1 /\ ~ Ntfs
  BY SweepFacts
<1>1. PICK ino \in Nat : ino = e.ino /\ ino >= 2
  BY DEF DirectoryEntry, Implausible
<1>2. PICK size \in Nat : size = e.size
  BY DEF DirectoryEntry
<1>3. PICK start \in Nat : start = start_data
  OBVIOUS
<1>4. PICK i0 \in Nat : i0 = ino - 2
  BY <1>1
<1>5. PICK first \in Nat : first = file_start(e) /\ first = start + i0 * Cluster
  <2>1. file_start(e) = start + (ino - 2) * Cluster
    BY <1>1, <1>3 DEF file_start, cluster_address
  <2>2. (ino - 2) * Cluster = i0 * Cluster /\ i0 * Cluster \in Nat
    BY <1>f, <1>4
  <2> QED
    BY <2>1, <2>2
<1>6. PICK last \in Int : last = file_end(e) /\ last = first + size * Cluster - 1
  <2>1. size * Cluster \in Nat
    BY <1>f
  <2> QED
    BY <1>2, <1>5, <2>1 DEF file_end
<1>7. PICK n \in 0 .. size : Copied(e) = [ k \in 1 .. n |-> e.ino + k - 1 ]
  BY <1>2, CopiedIs
<1>8. PICK g : g = CopyOf(e, Len(Copied(e)))
  OBVIOUS
<1>9. DOMAIN g.clusters = 1 .. n /\ \A i \in 1 .. n : g.clusters[i] = ino + i - 1
  <2>1. n \in Nat /\ \A k \in 1 .. n : ino + k - 1 \in Nat
    OBVIOUS
  <2>2. Copied(e) \in Seq(Nat) /\ Len(Copied(e)) = n
    BY <1>1, <1>7, <2>1
  <2>3. g.clusters = SubSeq(Copied(e), 1, n)
    BY <1>8, <2>2 DEF CopyOf, File
  <2> QED
    BY <1>1, <1>7, <2>2, <2>3
<1>13. /\ list_search_space' \in Ordered /\ Bytes(list_search_space') \cap used' = {}
       /\ used' = used \cup (first .. last)
  BY <1>5, <1>6, TakeOutOK DEF SharedInv
<1>14. ASSUME NEW i \in DOMAIN g.clusters PROVE ClusterBytes(g.clusters[i]) \subseteq used'
  <2>2. i \in 1 .. n /\ g.clusters[i] = ino + i - 1
    BY <1>9, <1>14
  <2>3. PICK c \in Nat : c = ino + i - 1
    BY <1>1, <2>2
  <2>4. ClusterBytes(c) = FirstByte(c) .. FirstByte(c) + Cluster - 1
    BY <1>f DEF ClusterBytes
  <2>5. FirstByte(c) = first + (i - 1) * Cluster
    <3>1. FirstByte(c) = start + (c - 2) * Cluster
      BY <1>3 DEF FirstByte, start_data
    <3>2. PICK d \in Int : d = i - 1
      BY <2>2
    <3>3. c - 2 = i0 + d
      BY <1>1, <1>4, <2>3, <3>2
    <3>4. (i0 + d) * Cluster = i0 * Cluster + d * Cluster
      BY <1>f, <3>2
    <3>5. i0 * Cluster \in Int /\ d * Cluster \in Int
      BY <1>f, <3>2
    <3> QED
      BY <1>5, <3>1, <3>2, <3>3, <3>4, <3>5
  <2>6. (i - 1) * Cluster >= 0 /\ (i - 1) * Cluster + Cluster <= size * Cluster
    <3>1. i \in Nat /\ i >= 1 /\ i <= size
      BY <1>7, <2>2
    <3>2. (i - 1) * Cluster + Cluster = i * Cluster
      BY <1>f, <3>1
    <3>3. i * Cluster <= size * Cluster
      BY <1>f, <3>1
    <3>4. PICK d \in Nat : d = i - 1
      BY <3>1
    <3>5. d * Cluster >= 0
      BY <1>f
    <3> QED
      BY <3>2, <3>3, <3>4, <3>5
  <2>7. PICK z \in Int : z = (i - 1) * Cluster
    <3>1. i \in Int
      BY <2>2
    <3> QED
      BY <1>f, <3>1
  <2>8. PICK w \in Int : w = size * Cluster
    BY <1>f
  <2>9. ClusterBytes(c) \subseteq first .. last
    BY <1>f, <1>6, <2>4, <2>5, <2>6, <2>7, <2>8
  <2> QED
    BY <1>13, <2>2, <2>3, <2>9
<1>20. \A a \in used' : a \in used \/ a \in file_start(e) .. file_end(e)
  BY <1>5, <1>6, <1>13
<1>21. \A a \in file_start(e) .. file_end(e) : cluster_at(a) \in e.ino .. e.ino + e.size - 1
  BY FileClusters
<1> QED
  BY <1>8, <1>13, <1>14, <1>20, <1>21

\* A file copied whole takes out its clusters, any other entry nothing.
LEMMA NextEntryStep ==
    ASSUME SharedInv, Fat, FatInv, NextEntry
    PROVE  SharedInv' /\ SweepInv' /\ NamesInv' /\ SweepSeesAll' /\ SweepTakesKnown'
<1>0. SweepInv /\ NamesInv /\ SweepTakesKnown
  BY DEF FatInv
<1>f. /\ Cluster \in Nat /\ Cluster > 1 /\ ~ Ntfs /\ None \notin Nat
  BY SweepFacts
<1>1. PICK e : e = Head(sweep.dir)
  OBVIOUS
<1>2. PICK stop : stop = Implausible(e)
  OBVIOUS
<1>3. PICK rest : rest = IF stop THEN << >> ELSE Tail(sweep.dir)
  OBVIOUS
<1>4. PICK ino : ino = IF ~ stop /\ e.name = "." THEN e.ino ELSE sweep.dir_inode
  OBVIOUS
<1>5. PICK nbr : nbr = sweep.nbr + 1
  OBVIOUS
<1>c. PICK whole : whole = Len(Copied(e))
  OBVIOUS
<1>6. /\ pc = "entries"
      /\ pc' = IF rest = << >> THEN "advance" ELSE "entries"
      /\ \E cut :
            /\ sweep' = [ sweep EXCEPT !.dir = rest, !.nbr = nbr, !.cut = cut, !.dir_inode = ino ]
            /\ \/ /\ e.kind = "file" /\ ~ stop /\ CopyFile(e, whole)
                  /\ TakeOut(file_start(e), file_end(e)) /\ cut = sweep.cut \ { CopyOf(e, whole) }
               \/ /\ e.kind = "file" /\ ~ stop
                  /\ \E n \in 0 .. whole - 1 :
                        CopyFile(e, n) /\ cut = sweep.cut \cup { CopyOf(e, n) }
                  /\ UNCHANGED << list_search_space, used >>
               \/ cut = sweep.cut /\ UNCHANGED << recovered, list_search_space, used >>
      /\ UNCHANGED << volume, need_to_stop >>
  BY <1>1, <1>2, <1>3, <1>4, <1>5, <1>c, Zenon DEF NextEntry
<1>d. PICK cut :
        /\ sweep' = [ sweep EXCEPT !.dir = rest, !.nbr = nbr, !.cut = cut, !.dir_inode = ino ]
        /\ \/ /\ e.kind = "file" /\ ~ stop /\ CopyFile(e, whole)
              /\ TakeOut(file_start(e), file_end(e)) /\ cut = sweep.cut \ { CopyOf(e, whole) }
           \/ /\ e.kind = "file" /\ ~ stop
              /\ \E n \in 0 .. whole - 1 :
                    CopyFile(e, n) /\ cut = sweep.cut \cup { CopyOf(e, n) }
              /\ UNCHANGED << list_search_space, used >>
           \/ cut = sweep.cut /\ UNCHANGED << recovered, list_search_space, used >>
  BY <1>6
<1>7. /\ sweep \in SweepState /\ sweep.dir # << >> /\ \A i \in 1 .. Len(sweep.dir) : Listed(sweep.dir[i])
      /\ start_data \in Nat /\ start_data > PartOffset
      /\ \E m \in Nat \ {0} : sweep.end + 1 = start_data + m * Cluster
  BY <1>0, <1>6 DEF SweepInv
<1>8. PICK j \in Nat : AtCluster(j)
  BY <1>0, <1>6 DEF SweepInv
<1>9. sweep.dir \in Seq(DirectoryEntry) /\ sweep.nbr \in Nat /\ sweep.dir_inode \in Nat
  BY <1>7 DEF SweepState
<1>10. e \in DirectoryEntry /\ Listed(e)
  <2>1. e \in DirectoryEntry /\ e = sweep.dir[1] /\ 1 \in 1 .. Len(sweep.dir)
    BY <1>1, <1>7, <1>9, TailIs
  <2> QED
    BY <1>7, <2>1
<1>11. rest \in Seq(DirectoryEntry) /\ \A i \in 1 .. Len(rest) : Listed(rest[i])
  <2>1. CASE stop
    BY <1>3, <2>1
  <2>2. CASE ~ stop
    <3>1. /\ Tail(sweep.dir) \in Seq(DirectoryEntry)
          /\ \A i \in 1 .. Len(Tail(sweep.dir)) :
                i + 1 \in 1 .. Len(sweep.dir) /\ Tail(sweep.dir)[i] = sweep.dir[i + 1]
      BY <1>7, <1>9, TailIs
    <3>2. rest = Tail(sweep.dir)
      BY <1>3, <2>2
    <3> QED
      BY <1>7, <3>1, <3>2
  <2> QED
    BY <2>1, <2>2
<1>e. whole \in Nat
  <2>1. PICK m \in 0 .. e.size : Copied(e) = [ k \in 1 .. m |-> e.ino + k - 1 ]
    BY <1>10, CopiedIs
  <2>2. m \in Nat
    BY <1>10 DEF DirectoryEntry
  <2> QED
    BY <1>c, <2>1, <2>2
<1>g. ASSUME e.kind = "file", ~ stop, NEW n \in 0 .. whole, CopyFile(e, n)
      PROVE  /\ \A f \in recovered' : f \in recovered \/ f = CopyOf(e, n)
             /\ \A f \in recovered' : f.nth # 0 => f.nth = f.of
             /\ \A f \in recovered : \E g \in recovered' : g.of = f.of
             /\ \E g \in recovered' : g.of = e.ino
             /\ CopyOf(e, n) \in CopiedFile
  <2>1. e.ino # 0
    BY <1>2, <1>g DEF Implausible
  <2> QED
    BY <1>0, <1>9, <1>10, <1>c, <1>g, <2>1, CopyIs
<1>h. cut \in SUBSET CopiedFile
  <2>1. sweep.cut \in SUBSET CopiedFile
    BY <1>7 DEF SweepState
  <2>2. ASSUME e.kind = "file", ~ stop,
               NEW n \in 0 .. whole - 1, CopyFile(e, n), cut = sweep.cut \cup { CopyOf(e, n) }
        PROVE  cut \in SUBSET CopiedFile
    <3>1. n \in 0 .. whole
      BY <1>e
    <3> QED
      BY <1>g, <2>1, <2>2, <3>1
  <2> QED
    BY <1>d, <2>1, <2>2
<1>12. /\ sweep' \in SweepState /\ sweep'.offset = sweep.offset /\ sweep'.end = sweep.end
       /\ sweep'.buffer = sweep.buffer /\ sweep'.k = sweep.k /\ sweep'.dir = rest
       /\ sweep'.examined = sweep.examined /\ sweep'.cut = cut
  <2>1. nbr \in Nat
    BY <1>5, <1>9
  <2>2. ino \in Nat
    BY <1>4, <1>9, <1>10 DEF DirectoryEntry
  <2> QED
    BY <1>7, <1>11, <1>d, <1>h, <2>1, <2>2 DEF SweepState
<1>13. start_data' = start_data /\ Fat' /\ Examined' = Examined
  BY <1>6, <1>12 DEF start_data, Fat, Examined
<1>14. pc' \in { "entries", "advance" }
  BY <1>6
<1>15. AtCluster(j)'
  BY <1>6, <1>8, <1>12, <1>13 DEF AtCluster
<1>16. SweepSeesAll'
  <2>1. Examined \in Int
    <3>1. j * Cluster \in Int
      BY <1>f
    <3> QED
      BY <1>7, <1>8, <3>1 DEF AtCluster
  <2> QED
    BY <1>f, <1>13, <1>14, <1>15, <2>1, SeesAllOn
<1>17. SweepInv'
  <2>1. (\A i \in 1 .. Len(sweep.dir) : Listed(sweep.dir[i]))'
    BY <1>6, <1>11, <1>12 DEF Listed
  <2>2. pc' = "entries" => sweep'.dir # << >>
    BY <1>6, <1>12
  <2> QED
    BY <1>7, <1>12, <1>13, <1>14, <1>15, <2>1, <2>2, <1>6 DEF SweepInv
<1>18. \A c : OfCopiedFile(c)' <=>
          \/ is_fat_directory(c) \/ is_fat_directory(c - 1)
          \/ \E d \in DOMAIN volume.dirs : \E i \in DOMAIN volume.dirs[d] :
                /\ volume.dirs[d][i].kind = "file"
                /\ c \in volume.dirs[d][i].ino .. volume.dirs[d][i].ino + volume.dirs[d][i].size - 1
                /\ \E f \in recovered' : f.of = volume.dirs[d][i].ino
  BY <1>6 DEF OfCopiedFile, is_fat_directory, Listing
<1>19. \A a : cluster_at(a)' = cluster_at(a)
  BY <1>13 DEF cluster_at
<1>20. CASE cut = sweep.cut /\ UNCHANGED << recovered, list_search_space, used >>
  <2>1. SharedInv'
    BY <1>f, <1>6, <1>12, <1>14, <1>20, SharedKept DEF FatPC, SharedInv
  <2>2. NamesInv'
    BY <1>0, <1>20 DEF NamesInv
  <2>3. SweepTakesKnown'
    <3>1. \A c : OfCopiedFile(c)' = OfCopiedFile(c)
      BY <1>6, <1>20 DEF OfCopiedFile, is_fat_directory, Listing
    <3> QED
      BY <1>0, <1>19, <1>20, <3>1 DEF SweepTakesKnown
  <2> QED
    BY <1>16, <1>17, <2>1, <2>2, <2>3
<1>21. ASSUME e.kind = "file", ~ stop,
              NEW n \in 0 .. whole, CopyFile(e, n),
              list_search_space' \in Ordered, Bytes(list_search_space') \cap used' = {},
              used \subseteq used',
              \A a \in used' : a \in used \/ a \in file_start(e) .. file_end(e),
              \A a \in file_start(e) .. file_end(e) : cluster_at(a) \in e.ino .. e.ino + e.size - 1,
              \A f \in recovered \cap sweep.cut : f \in cut \/ f = CopyOf(e, n),
              \/ CopyOf(e, n) \in cut
              \/ \A i \in DOMAIN CopyOf(e, n).clusters :
                    ClusterBytes(CopyOf(e, n).clusters[i]) \subseteq used'
       PROVE  SharedInv' /\ NamesInv' /\ SweepTakesKnown'
  <2>2. /\ \A f \in recovered' : f \in recovered \/ f = CopyOf(e, n)
        /\ \A f \in recovered' : f.nth # 0 => f.nth = f.of
        /\ \A f \in recovered : \E g \in recovered' : g.of = f.of
        /\ \E g \in recovered' : g.of = e.ino
    BY <1>21, <1>g
  <2>3. SharedInv'
    <3>1. pc' \in (IF Fat THEN FatPC ELSE WalkPC) \ { "geometry", "boot" }
      BY <1>14 DEF FatPC
    <3>2. \A f \in recovered' :
             \/ f \in sweep'.cut
             \/ f \in recovered \ sweep.cut
             \/ \A i \in DOMAIN f.clusters :
                   f.clusters[i] \in Nat => ClusterBytes(f.clusters[i]) \subseteq used'
      BY <1>12, <1>21, <2>2
    <3> QED
      BY <1>f, <1>6, <1>21, <3>1, <3>2, SharedKept
  <2>4. NamesInv'
    BY <2>2 DEF NamesInv
  <2>5. ASSUME NEW a \in used' PROVE OfCopiedFile(cluster_at(a))'
    <3>1. PICK c : c = cluster_at(a)
      OBVIOUS
    <3>2. CASE a \in used
      <4>1. OfCopiedFile(c)
        BY <1>0, <3>1, <3>2 DEF SweepTakesKnown
      <4>2. CASE is_fat_directory(c) \/ is_fat_directory(c - 1)
        BY <1>18, <1>19, <3>1, <4>2
      <4>3. CASE \E d \in DOMAIN volume.dirs : \E i \in DOMAIN volume.dirs[d] :
                   /\ volume.dirs[d][i].kind = "file"
                   /\ c \in volume.dirs[d][i].ino .. volume.dirs[d][i].ino + volume.dirs[d][i].size - 1
                   /\ \E f \in recovered : f.of = volume.dirs[d][i].ino
        BY <1>18, <1>19, <2>2, <3>1, <4>3
      <4> QED
        BY <4>1, <4>2, <4>3 DEF OfCopiedFile
    <3>3. CASE a \notin used
      <4>1. c \in e.ino .. e.ino + e.size - 1
        BY <1>21, <3>1, <3>3
      <4>2. PICK d \in DOMAIN volume.dirs : \E i \in 1 .. Len(volume.dirs[d]) : e = volume.dirs[d][i]
        BY <1>10 DEF Listed
      <4>3. PICK i \in DOMAIN volume.dirs[d] : e = volume.dirs[d][i]
        <5>1. volume.dirs[d] \in Seq(DirectoryEntry)
          BY <4>2, SweepFacts DEF HasDirectories
        <5> QED
          BY <4>2, <5>1
      <4> QED
        BY <1>18, <1>19, <1>21, <2>2, <3>1, <4>1, <4>2, <4>3
    <3> QED
      BY <3>2, <3>3
  <2>6. SweepTakesKnown'
    BY <2>5 DEF SweepTakesKnown
  <2> QED
    BY <2>3, <2>4, <2>6
<1>22. CASE /\ e.kind = "file" /\ ~ stop /\ CopyFile(e, whole)
            /\ TakeOut(file_start(e), file_end(e)) /\ cut = sweep.cut \ { CopyOf(e, whole) }
  <2>1. ~ Implausible(e)
    BY <1>2, <1>22
  <2>2. /\ list_search_space' \in Ordered /\ Bytes(list_search_space') \cap used' = {}
        /\ used \subseteq used'
        /\ \A a \in used' : a \in used \/ a \in file_start(e) .. file_end(e)
        /\ \A i \in DOMAIN CopyOf(e, whole).clusters :
              ClusterBytes(CopyOf(e, whole).clusters[i]) \subseteq used'
        /\ \A a \in file_start(e) .. file_end(e) :
              cluster_at(a) \in e.ino .. e.ino + e.size - 1
    BY <1>6, <1>7, <1>10, <1>22, <1>c, <2>1, CopyTaken
  <2>3. whole \in 0 .. whole
    BY <1>e
  <2> QED
    BY <1>16, <1>17, <1>21, <1>22, <2>2, <2>3
<1>23. ASSUME e.kind = "file", ~ stop, NEW n \in 0 .. whole - 1, CopyFile(e, n),
              cut = sweep.cut \cup { CopyOf(e, n) }, UNCHANGED << list_search_space, used >>
       PROVE  SharedInv' /\ NamesInv' /\ SweepTakesKnown'
  <2>1. ~ Implausible(e) /\ n \in 0 .. whole
    BY <1>2, <1>23, <1>e
  <2>2. /\ list_search_space' \in Ordered /\ Bytes(list_search_space') \cap used' = {}
    BY <1>23 DEF SharedInv
  <2>3. \A a \in file_start(e) .. file_end(e) : cluster_at(a) \in e.ino .. e.ino + e.size - 1
    BY <1>7, <1>10, <1>23, <2>1, FileClusters
  <2> QED
    BY <1>21, <1>23, <2>1, <2>2, <2>3
<1> QED
  BY <1>16, <1>17, <1>20, <1>22, <1>23, <1>d

\* Moving the position on keeps what is known of the files.
LEMMA SweepMoves ==
    ASSUME SharedInv, Fat, NamesInv, SweepTakesKnown, pc' \in { "sweep", "entries", "advance", "done" },
           UNCHANGED << volume, list_search_space, used, recovered >>, sweep'.cut = sweep.cut
    PROVE  SharedInv' /\ NamesInv' /\ SweepTakesKnown'
<1>1. ~ Ntfs
  BY SweepFacts
<1>2. SharedInv'
  BY <1>1, SharedKept DEF FatPC, SharedInv
<1>3. NamesInv'
  BY DEF NamesInv
<1>4. SweepTakesKnown'
  <2>1. \A c : OfCopiedFile(c)' = OfCopiedFile(c)
    BY DEF OfCopiedFile, is_fat_directory, Listing
  <2>2. \A a : cluster_at(a)' = cluster_at(a)
    BY DEF cluster_at, start_data
  <2> QED
    BY <2>1, <2>2 DEF SweepTakesKnown
<1> QED
  BY <1>2, <1>3, <1>4

\* The sweep goes on by one cluster, or after a refill by one or none.
LEMMA AdvanceStep ==
    ASSUME SharedInv, Fat, FatInv, Advance
    PROVE  SharedInv' /\ SweepInv' /\ NamesInv' /\ SweepSeesAll' /\ SweepTakesKnown'
<1>0. SweepInv /\ NamesInv /\ SweepTakesKnown
  BY DEF FatInv
<1>f. /\ Cluster \in Nat /\ Cluster > 1 /\ ~ Ntfs /\ None \notin Nat
  BY SweepFacts
<1>1. /\ pc = "advance" /\ UNCHANGED << volume, need_to_stop, list_search_space, used, recovered >>
  BY DEF Advance
<1>2. /\ sweep \in SweepState /\ \A i \in 1 .. Len(sweep.dir) : Listed(sweep.dir[i])
      /\ start_data \in Nat /\ start_data > PartOffset
      /\ \E m \in Nat \ {0} : sweep.end + 1 = start_data + m * Cluster
  BY <1>0, <1>1 DEF SweepInv
<1>3. PICK j \in Nat : AtCluster(j)
  BY <1>0, <1>1 DEF SweepInv
<1>4. PICK start \in Nat : start = start_data
  BY <1>2
<1>5. PICK p \in Nat : p = j * Cluster
  BY <1>f
<1>6. PICK x \in Nat : x = Examined /\ x = start + p
  BY <1>3, <1>4, <1>5 DEF AtCluster
<1>7. /\ sweep.offset = x \/ sweep.offset = x + Cluster
      /\ \A i \in 0 .. j - 1 : start + i * Cluster \in sweep.examined
      /\ x \in sweep.examined
  BY <1>1, <1>3, <1>4, <1>6 DEF AtCluster
<1>8. (j + 1) * Cluster = p + Cluster
  BY <1>f, <1>5
<1>9. \A i \in 0 .. j : start + i * Cluster \in sweep.examined
  <2> SUFFICES ASSUME NEW i \in 0 .. j PROVE start + i * Cluster \in sweep.examined
    OBVIOUS
  <2>1. CASE i = j
    BY <1>5, <1>6, <1>7, <2>1
  <2>2. CASE i # j
    <3>1. i \in 0 .. j - 1
      BY <2>2
    <3> QED
      BY <1>7, <3>1
  <2> QED
    BY <2>1, <2>2
<1>10. PICK offset \in Nat : offset = sweep.offset + Cluster
  BY <1>f, <1>2 DEF SweepState
<1>11. start_data' = start /\ Fat'
  BY <1>1, <1>4 DEF start_data, Fat
<1>12. pc' \in { "sweep", "done" } /\ (pc' = "done" => need_to_stop)
  BY DEF Advance
<1>13. /\ sweep' \in SweepState /\ sweep'.end = sweep.end /\ sweep'.dir = sweep.dir
       /\ pc' = "sweep" => \E i \in Nat : AtCluster(i)'
       /\ Examined' \in Nat /\ sweep'.cut = sweep.cut
  <2>1. CASE sweep.k + 1 < WindowClusters
    <3>1. PICK k \in Nat : k = sweep.k + 1
      BY <1>2 DEF SweepState
    <3>2. sweep' = [ sweep EXCEPT !.k = k, !.offset = offset ]
      BY <1>10, <2>1, <3>1, Zenon DEF Advance
    <3>3. /\ sweep' \in SweepState /\ sweep'.end = sweep.end /\ sweep'.dir = sweep.dir
          /\ sweep'.k = k /\ sweep'.offset = offset /\ sweep'.buffer = sweep.buffer
          /\ sweep'.examined = sweep.examined /\ sweep'.cut = sweep.cut
      BY <1>2, <3>2 DEF SweepState
    <3>4. Examined' = x + Cluster
      <4>1. x = sweep.buffer + sweep.k * Cluster /\ sweep.k \in Nat /\ sweep.buffer \in Nat
        BY <1>2, <1>6 DEF Examined, SweepState
      <4>2. PICK k0 \in Nat : k0 = sweep.k
        BY <4>1
      <4>3. k * Cluster = k0 * Cluster + Cluster /\ k0 * Cluster \in Int
        <5>1. k = k0 + 1
          BY <3>1, <4>2
        <5> QED
          BY <1>f, <4>2, <5>1
      <4>4. Examined' = sweep.buffer + k * Cluster
        BY <3>3 DEF Examined
      <4> QED
        BY <1>f, <4>1, <4>2, <4>3, <4>4
    <3>5. pc' = "sweep"
      BY <2>1 DEF Advance
    <3>6. AtCluster(j + 1)'
      <4>1. Examined' = start_data' + (j + 1) * Cluster
        BY <1>f, <1>5, <1>6, <1>8, <1>11, <3>4
      <4>2. sweep'.offset = Examined' \/ sweep'.offset = Examined' + Cluster
        BY <1>f, <1>7, <1>10, <3>3, <3>4
      <4>3. \A i \in 0 .. (j + 1) - 1 : start_data' + i * Cluster \in sweep'.examined
        BY <1>9, <1>11, <3>3
      <4> QED
        BY <3>5, <4>1, <4>2, <4>3 DEF AtCluster
    <3> QED
      BY <1>f, <3>3, <3>4, <3>6
  <2>2. CASE ~ (sweep.k + 1 < WindowClusters)
    <3>1. PICK buffer \in Nat : buffer = sweep.offset
      BY <1>2 DEF SweepState
    <3>2. sweep' = [ sweep EXCEPT !.k = 0, !.buffer = buffer, !.offset = offset ]
      BY <1>10, <2>2, <3>1, Zenon DEF Advance, Refill
    <3>3. /\ sweep' \in SweepState /\ sweep'.end = sweep.end /\ sweep'.dir = sweep.dir
          /\ sweep'.k = 0 /\ sweep'.offset = offset /\ sweep'.buffer = buffer
          /\ sweep'.examined = sweep.examined /\ sweep'.cut = sweep.cut
      BY <1>2, <3>2 DEF SweepState
    <3>4. Examined' = buffer
      BY <1>f, <3>3 DEF Examined
    <3>5. sweep'.offset = Examined' + Cluster
      BY <1>10, <3>1, <3>3, <3>4
    <3>6. CASE buffer = x
      <4>1. pc' = "sweep" => AtCluster(j)'
        BY <1>5, <1>6, <1>7, <1>11, <3>3, <3>4, <3>5, <3>6 DEF AtCluster
      <4> QED
        BY <3>3, <3>4, <4>1
    <3>7. CASE buffer = x + Cluster
      <4>1. Examined' = start_data' + (j + 1) * Cluster
        BY <1>f, <1>5, <1>6, <1>8, <1>11, <3>4, <3>7
      <4>2. \A i \in 0 .. (j + 1) - 1 : start_data' + i * Cluster \in sweep'.examined
        BY <1>9, <1>11, <3>3
      <4>3. pc' = "sweep" => AtCluster(j + 1)'
        BY <3>5, <4>1, <4>2 DEF AtCluster
      <4> QED
        BY <3>3, <3>4, <4>3
    <3> QED
      BY <1>7, <3>1, <3>6, <3>7
  <2> QED
    BY <2>1, <2>2
<1>14. SweepSeesAll'
  <2>1. CASE pc' = "sweep"
    <3>1. PICK i \in Nat : AtCluster(i)'
      BY <1>13, <2>1
    <3> QED
      BY <1>f, <1>11, <1>13, <2>1, <3>1, SeesAllOn
  <2>2. CASE pc' = "done"
    BY <1>1, <1>12, <2>2 DEF SweepSeesAll
  <2> QED
    BY <1>12, <2>1, <2>2
<1>15. SharedInv' /\ NamesInv' /\ SweepTakesKnown'
  BY <1>0, <1>1, <1>12, <1>13, SweepMoves
<1>16. SweepInv'
  <2>1. (\A i \in 1 .. Len(sweep.dir) : Listed(sweep.dir[i]))'
    <3>1. \A e : Listed(e)' = Listed(e)
      BY <1>1 DEF Listed
    <3>2. sweep'.dir = sweep.dir
      BY <1>13
    <3> QED
      BY <1>2, <3>1, <3>2
  <2> QED
    BY <1>2, <1>4, <1>11, <1>12, <1>13, <2>1 DEF SweepInv
<1> QED
  BY <1>14, <1>15, <1>16

\* At the end of the sweep all clusters but the last have been looked at.
LEMMA SweepEndsStep ==
    ASSUME SharedInv, Fat, FatInv, SweepEnds
    PROVE  SharedInv' /\ SweepInv' /\ NamesInv' /\ SweepSeesAll' /\ SweepTakesKnown'
<1>0. SweepInv /\ NamesInv /\ SweepTakesKnown
  BY DEF FatInv
<1>f. /\ Cluster \in Nat /\ Cluster > 1 /\ ~ Ntfs
  BY SweepFacts
<1>1. /\ pc = "sweep" /\ sweep.offset >= sweep.end /\ pc' = "done"
      /\ UNCHANGED << volume, need_to_stop, list_search_space, used, recovered, sweep >>
  BY DEF SweepEnds
<1>2. /\ sweep \in SweepState /\ \A i \in 1 .. Len(sweep.dir) : Listed(sweep.dir[i])
      /\ start_data \in Nat /\ start_data > PartOffset
      /\ \E m \in Nat \ {0} : sweep.end + 1 = start_data + m * Cluster
  BY <1>0, <1>1 DEF SweepInv
<1>3. PICK j \in Nat : AtCluster(j)
  BY <1>0, <1>1 DEF SweepInv
<1>4. PICK m \in Nat \ {0} : sweep.end + 1 = start_data + m * Cluster
  BY <1>2
<1>5. PICK start \in Nat : start = start_data
  BY <1>2
<1>6. PICK end \in Nat : end = sweep.end
  BY <1>2 DEF SweepState
<1>7. m - 1 <= j
  <2> SUFFICES ASSUME j + 2 <= m PROVE FALSE
    OBVIOUS
  <2>1. (j + 2) * Cluster <= m * Cluster
    BY <1>f
  <2>2. (j + 2) * Cluster = j * Cluster + 2 * Cluster
    BY <1>f
  <2>3. j * Cluster \in Int /\ m * Cluster \in Int
    BY <1>f
  <2>4. PICK x \in Int : x = Examined /\ x = start + j * Cluster
    BY <1>3, <1>5, <2>3 DEF AtCluster
  <2>5. sweep.offset = x \/ sweep.offset = x + Cluster
    BY <1>3, <2>4 DEF AtCluster
  <2> QED
    BY <1>f, <1>1, <1>4, <1>5, <1>6, <2>1, <2>2, <2>3, <2>4, <2>5
<1>8. start_data' = start /\ (\A a : cluster_at(a)' = cluster_at(a))
      /\ \A n : cluster_address(n)' = cluster_address(n)
  BY <1>1, <1>5 DEF start_data, cluster_at, cluster_address
<1>9. cluster_at(start_data) = 2
  <2>1. start_data + 0 * Cluster <= start /\ start < start_data + 1 * Cluster
    BY <1>f, <1>5
  <2>2. cluster_at(start) \in Int /\ 2 + 0 <= cluster_at(start) /\ cluster_at(start) < 2 + 1
    BY <1>2, <2>1, ClusterAtIs
  <2> QED
    BY <1>5, <2>2
<1>10. cluster_at(end) = m + 1
  <2>1. PICK i \in Nat : i = m - 1
    OBVIOUS
  <2>2. m * Cluster = i * Cluster + Cluster /\ i * Cluster \in Int /\ m * Cluster \in Int
    BY <1>f, <2>1
  <2>3. start_data + i * Cluster <= end /\ end < start_data + m * Cluster
    BY <1>f, <1>4, <1>5, <1>6, <2>2
  <2>4. cluster_at(end) \in Int /\ 2 + i <= cluster_at(end) /\ cluster_at(end) < 2 + m
    BY <1>2, <2>3, ClusterAtIs
  <2> QED
    BY <2>1, <2>4
<1>11. SweepSeesAll'
  <2>1. ASSUME NEW n \in 2 .. m PROVE cluster_address(n) \in sweep.examined
    <3>1. PICK i \in 0 .. j - 1 : i = n - 2
      BY <1>7
    <3>2. start_data + i * Cluster \in sweep.examined
      BY <1>3 DEF AtCluster
    <3> QED
      BY <3>1, <3>2 DEF cluster_address
  <2>2. (\A n \in cluster_at(start_data) .. cluster_at(sweep.end) - 1 :
                  cluster_address(n) \in sweep.examined)'
    BY <1>1, <1>5, <1>6, <1>8, <1>9, <1>10, <2>1
  <2> QED
    BY <1>1, <2>2 DEF SweepSeesAll
<1>12. SharedInv' /\ NamesInv' /\ SweepTakesKnown'
  BY <1>0, <1>1, SweepMoves
<1>13. SweepInv'
  <2>1. (\A i \in 1 .. Len(sweep.dir) : Listed(sweep.dir[i]))'
    BY <1>1, <1>2 DEF Listed
  <2> QED
    BY <1>1, <1>2, <1>8, <1>5, <2>1 DEF SweepInv
<1> QED
  BY <1>11, <1>12, <1>13

\* The user stops the pass, or nothing happens.
LEMMA FatStays ==
    ASSUME SharedInv, Fat, FatInv, pc # "done" \/ UNCHANGED need_to_stop,
           UNCHANGED << volume, pc, list_search_space, used, recovered, sweep >>
    PROVE  SharedInv' /\ SweepInv' /\ NamesInv' /\ SweepSeesAll' /\ SweepTakesKnown'
<1>0. SweepInv /\ NamesInv /\ SweepTakesKnown /\ SweepSeesAll
  BY DEF FatInv
<1>1. SharedInv'
  BY DEF SharedInv, OwnClusters, ClusterBytes, FirstByte, Ntfs, Fat, Whole
<1>2. SweepInv'
  BY <1>0 DEF SweepInv, AtCluster, Examined, Listed, start_data
<1>3. NamesInv'
  BY <1>0 DEF NamesInv
<1>4. SweepSeesAll'
  BY <1>0 DEF SweepSeesAll, Examined, cluster_at, start_data, cluster_address, Fat
<1>5. SweepTakesKnown'
  BY <1>0 DEF SweepTakesKnown, OfCopiedFile, is_fat_directory, Listing, cluster_at, start_data, Fat
<1> QED
  BY <1>1, <1>2, <1>3, <1>4, <1>5

-----------------------------------------------------------------------------
(* The steps of the walk *)

\* What the walk is in, and what it may rely on.
LEMMA WalkFacts ==
    ASSUME SharedInv, Tree
    PROVE  /\ Cluster \in Nat /\ Cluster > 1 /\ ~ Ntfs /\ ~ Fat
           /\ HasDirectories(volume) /\ volume.start_data \in Nat
           /\ volume.start_data \in PartOffset + 1 .. PartOffset + PartSize - 1
           /\ volume.root_cluster \in Nat
           /\ \A n : get_next_cluster(n) \in Nat
<1>1. /\ Cluster \in Nat /\ Cluster > 1 /\ PartOffset \in Nat /\ PartSize \in Nat
  BY VolumeSizesAssumption
<1>2. ~ Ntfs /\ ~ Fat /\ IsFatDir(volume)
  BY VolumeIs DEF SharedInv
<1>3. /\ HasDirectories(volume)
      /\ volume.start_data \in PartOffset + 1 .. PartOffset + PartSize - 1
      /\ volume.root_cluster \in Nat /\ \A n \in DOMAIN volume.fat : volume.fat[n] \in Nat
  BY <1>2 DEF IsFatDir
<1>4. volume.start_data \in Nat
  BY <1>1, <1>3
<1>5. \A n : get_next_cluster(n) \in Nat
  BY <1>3 DEF get_next_cluster
<1> QED
  BY <1>1, <1>2, <1>3, <1>4, <1>5

\* The entries of a directory that has been read.
LEMMA FrameIs ==
    ASSUME HasDirectories(volume), NEW path \in Seq(AnyName), NEW clusters \in Seq(Nat)
    PROVE  Frame(path, clusters) \in DirectoryFrame
<1>1. PICK n \in Nat : n = Len(clusters)
  OBVIOUS
<1>2. PICK mark : mark = [ name |-> "end", kind |-> "end", ino |-> 0, size |-> 0 ]
  OBVIOUS
<1>3. << mark >> \in Seq(AnyEntry)
  <2>1. "end" \in AnyName
    BY DEF AnyName
  <2>2. mark \in AnyEntry
    BY <1>2, <2>1 DEF AnyEntry
  <2> QED
    BY <2>2
<1>4. PICK q : q = [ i \in DOMAIN clusters |->
                       IF clusters[i] \in DOMAIN volume.dirs THEN volume.dirs[clusters[i]]
                       ELSE << mark >> ]
  OBVIOUS
<1>5. q \in Seq(Seq(AnyEntry))
  <2>1. DOMAIN clusters = 1 .. n
    BY <1>1
  <2>2. q \in [1 .. n -> Seq(AnyEntry)]
    <3>1. \A n0 \in DOMAIN volume.dirs : volume.dirs[n0] \in Seq(AnyEntry)
      <4>1. DirectoryEntry \subseteq AnyEntry
        BY DEF DirectoryEntry, AnyEntry, AnyName
      <4> QED
        BY <4>1 DEF HasDirectories
    <3> QED
      BY <1>3, <1>4, <2>1, <3>1
  <2> QED
    BY <2>2
<1>6. PICK all : all = FlattenSeq(q)
  OBVIOUS
<1>7. all \in Seq(AnyEntry)
  BY <1>5, <1>6, FlattenIs
<1>8. PICK end : end = SelectInSeq(all, LAMBDA e : e.kind = "end")
  OBVIOUS
<1>9. PICK t : t = EntriesOf(clusters)
  OBVIOUS
<1>10. t = IF end = 0 THEN all ELSE SubSeq(all, 1, end - 1)
  BY <1>2, <1>4, <1>6, <1>8, <1>9 DEF EntriesOf
<1>11. t \in Seq(AnyEntry)
  BY <1>7, <1>8, <1>10, BeforeEnd, Zenon
<1> QED
  BY <1>9, <1>11 DEF Frame, DirectoryFrame

\* The entry the walk is at and what is left below it.
LEMMA BelowIs ==
    ASSUME WalkState, tree.stack # << >>
    PROVE  /\ Top \in DirectoryFrame /\ Tail(tree.stack) \in Seq(DirectoryFrame)
           /\ Top.path \in Seq(AnyName)
           /\ Top.entries # << >> => Entry1 \in AnyEntry /\ Below \in Seq(DirectoryFrame)
<1>1. tree.stack \in Seq(DirectoryFrame)
  BY DEF WalkState
<1>2. Top \in DirectoryFrame /\ Tail(tree.stack) \in Seq(DirectoryFrame)
  BY <1>1, TailIs DEF Top
<1>3. Top.path \in Seq(AnyName) /\ Top.entries \in Seq(AnyEntry)
  BY <1>2 DEF DirectoryFrame
<1>4. ASSUME Top.entries # << >>
      PROVE  Entry1 \in AnyEntry /\ Below \in Seq(DirectoryFrame)
  <2>1. PICK rest : rest = Tail(Top.entries)
    OBVIOUS
  <2>2. rest \in Seq(AnyEntry) /\ Entry1 \in AnyEntry
    BY <1>3, <1>4, <2>1, TailIs DEF Entry1
  <2>3. PICK x : x = [ Top EXCEPT !.entries = rest ]
    OBVIOUS
  <2>4. x \in DirectoryFrame
    BY <1>2, <2>2, <2>3 DEF DirectoryFrame
  <2>5. Below = << x >> \o Tail(tree.stack)
    BY <2>1, <2>3, Zenon DEF Below
  <2>6. << x >> \in Seq(DirectoryFrame)
    BY <2>4
  <2> QED
    BY <1>2, <2>2, <2>5, <2>6
<1> QED
  BY <1>2, <1>3, <1>4

\* A step of the walk that takes nothing out and writes nothing.
LEMMA WalkShared ==
    ASSUME SharedInv, Tree, pc' \in WalkPC \ { "boot" },
           UNCHANGED << volume, list_search_space, used, recovered, sweep >>
    PROVE  SharedInv'
<1>1. ~ Ntfs /\ ~ Fat
  BY WalkFacts
<1>2. "geometry" \notin WalkPC
  BY DEF WalkPC
<1> QED
  BY <1>1, <1>2, SharedKept DEF SharedInv

\* A cluster of the data area that is taken out.
LEMMA TakeClusterOK ==
    ASSUME SharedInv, Tree, tree.next \in Nat, InData(tree.next), UNCHANGED << volume, recovered, sweep >>,
           pc' \in WalkPC \ { "boot" }, TakeOutCluster(tree.next)
    PROVE  SharedInv' /\ used \subseteq used' /\ ClusterBytes(tree.next) \subseteq used'
<1>f. Cluster \in Nat /\ Cluster > 1 /\ ~ Ntfs /\ ~ Fat /\ volume.start_data \in Nat
  BY WalkFacts
<1>1. PICK c \in Nat : c = tree.next /\ c >= 2
  BY DEF InData
<1>2. PICK first \in Nat : first = FirstByte(c)
  <2>1. PICK d \in Nat : d = c - 2
    BY <1>1
  <2>2. d * Cluster \in Nat
    BY <1>f
  <2>3. FirstByte(c) = volume.start_data + d * Cluster
    BY <2>1 DEF FirstByte
  <2> QED
    BY <1>f, <2>2, <2>3
<1>3. PICK last \in Int : last = first + Cluster - 1
  BY <1>f
<1>4. TakeOut(first, last)
  BY <1>1, <1>2, <1>3 DEF TakeOutCluster
<1>5. /\ list_search_space' \in Ordered /\ Bytes(list_search_space') \cap used' = {}
      /\ used' = used \cup (first .. last)
  BY <1>4, TakeOutOK DEF SharedInv
<1>6. ClusterBytes(c) = first .. last
  BY <1>f, <1>2, <1>3 DEF ClusterBytes
<1>7. SharedInv'
  <2>1. "geometry" \notin WalkPC
    BY DEF WalkPC
  <2> QED
    BY <1>f, <1>5, <2>1, SharedKept
<1> QED
  BY <1>1, <1>5, <1>6, <1>7

\* The walk begins with the root directory.
LEMMA BootStep ==
    ASSUME SharedInv, Tree, WalkInv, kf_fat_boot_geometry, UNCHANGED sweep
    PROVE  SharedInv' /\ WalkState' /\ WrittenOut'
<1>f. /\ Cluster \in Nat /\ Cluster > 1 /\ ~ Ntfs /\ ~ Fat
      /\ HasDirectories(volume) /\ volume.start_data \in Nat
      /\ volume.start_data \in PartOffset + 1 .. PartOffset + PartSize - 1
      /\ volume.root_cluster \in Nat
  BY WalkFacts
<1>1. /\ pc = "boot" /\ UNCHANGED << volume, need_to_stop, used, recovered >>
      /\ list_search_space = Whole /\ used = {} /\ recovered = {} /\ WalkState
  BY DEF kf_fat_boot_geometry, SharedInv, WalkInv
<1>2. CASE ~ volume.opens
  <2>1. pc' = "done" /\ UNCHANGED << list_search_space, tree >>
    BY <1>2 DEF kf_fat_boot_geometry
  <2>2. SharedInv'
    BY <1>1, <2>1, WalkShared DEF WalkPC
  <2> QED
    BY <1>1, <2>1, <2>2 DEF WalkState, WrittenOut
<1>3. CASE volume.opens
  <2>1. PICK start \in Nat : start = volume.start_data
    BY <1>f
  <2>2. PICK end \in Nat : end = PartOffset + PartSize - 1
    BY VolumeSizesAssumption
  <2>3. PICK l0 : l0 = del_search_space(list_search_space, PartOffset, start - 1)
    OBVIOUS
  <2>4. PartOffset \in Nat /\ PartOffset < start
    BY <1>f, <2>1, VolumeSizesAssumption
  <2>5. l0 \in Ordered /\ Bytes(l0) = (PartOffset .. end) \ (PartOffset .. start - 1)
    <3>1. Whole \in Ordered /\ Bytes(Whole) = PartOffset .. end /\ PartOffset \in Nat
      BY <2>2, WholeIs, VolumeSizesAssumption
    <3>2. PICK last \in Int : last = start - 1
      OBVIOUS
    <3>3. l0 = del_search_space(Whole, PartOffset, last)
      BY <1>1, <2>3, <3>2
    <3>4. l0 \in Ordered /\ Bytes(l0) = Bytes(Whole) \ (PartOffset .. last)
      BY <3>1, <3>3, DelBytes
    <3> QED
      BY <3>1, <3>2, <3>4
  <2>6. Bytes(l0) = start .. end
    BY <2>4, <2>5
  <2>7. PICK l : l = update_blocksize(l0, Cluster, start)
    OBVIOUS
  <2>8. l \in Ordered
    BY <1>f, <2>5, <2>6, <2>7, GeometryOK
  <2>9. PICK left : left = ChainLength(volume.root_cluster)
    OBVIOUS
  <2>10. PICK stack : stack = << Frame(<< >>, << 0 >>) >>
    OBVIOUS
  <2>11. /\ list_search_space' = l
         /\ IF volume.root_cluster = 0
              THEN tree' = [ tree EXCEPT !.stack = stack ] /\ pc' = "walk"
              ELSE /\ tree' = [ tree EXCEPT !.next = volume.root_cluster, !.left = left ]
                   /\ pc' = "dir"
    BY <1>3, <2>1, <2>3, <2>7, <2>9, <2>10, Zenon DEF kf_fat_boot_geometry
  <2>12. pc' \in { "walk", "dir" }
    BY <2>11
  <2>13. SharedInv'
    <3>1. pc' \in (IF Fat THEN FatPC ELSE WalkPC) \ { "geometry", "boot" }
      BY <1>f, <2>12 DEF WalkPC
    <3>2. Bytes(list_search_space') \cap used' = {} /\ recovered' = {} /\ used \subseteq used'
      BY <1>1
    <3> QED
      BY <1>f, <1>1, <2>8, <2>11, <3>1, <3>2, SharedKept
  <2>14. stack \in Seq(DirectoryFrame)
    <3>1. << >> \in Seq(AnyName) /\ << 0 >> \in Seq(Nat)
      OBVIOUS
    <3>2. Frame(<< >>, << 0 >>) \in DirectoryFrame
      BY <1>f, <3>1, FrameIs
    <3> QED
      BY <2>10, <3>2
  <2>15. WalkState'
    BY <1>f, <1>1, <2>11, <2>14 DEF WalkState
  <2> QED
    BY <2>12, <2>13, <2>15 DEF WrittenOut
<1> QED
  BY <1>2, <1>3

\* A subdirectory is about to be read.
LEMMA EnterStep ==
    ASSUME SharedInv, Tree, WalkInv, EnterDirectory, UNCHANGED sweep
    PROVE  SharedInv' /\ WalkState' /\ WrittenOut'
<1>1. WalkState /\ tree.stack # << >> /\ Top.entries # << >>
  BY DEF WalkInv, EnterDirectory, AtEntry
<1>2. PICK path : path = Append(Top.path, Entry1.name)
  OBVIOUS
<1>3. PICK ino : ino = Entry1.ino
  OBVIOUS
<1>4. PICK left : left = ChainLength(Entry1.ino)
  OBVIOUS
<1>5. PICK stack : stack = Below
  OBVIOUS
<1>6. /\ pc' = "dir"
      /\ tree' = [ tree EXCEPT !.path = path, !.next = ino, !.left = left, !.got = << >>,
                               !.stack = stack ]
      /\ UNCHANGED << volume, list_search_space, used, recovered >>
  BY <1>2, <1>3, <1>4, <1>5, Zenon DEF EnterDirectory
<1>7. /\ Top.path \in Seq(AnyName) /\ Entry1 \in AnyEntry /\ stack \in Seq(DirectoryFrame)
  BY <1>1, <1>5, BelowIs
<1>8. path \in Seq(AnyName) /\ ino \in Nat
  BY <1>2, <1>3, <1>7 DEF AnyEntry
<1>9. WalkState'
  BY <1>1, <1>6, <1>7, <1>8 DEF WalkState
<1>10. SharedInv'
  BY <1>6, WalkShared DEF WalkPC
<1> QED
  BY <1>6, <1>9, <1>10 DEF WrittenOut

\* One more cluster of a chain.
LEMMA NextIs ==
    ASSUME SharedInv, Tree, WalkState, NEW left,
           tree' = [ tree EXCEPT !.next = get_next_cluster(tree.next), !.left = left,
                                 !.got = Append(tree.got, tree.next) ]
    PROVE  /\ WalkState' /\ tree'.stack = tree.stack
           /\ Len(tree'.got) = Len(tree.got) + 1
           /\ \A i \in 1 .. Len(tree.got) + 1 :
                 tree'.got[i] = IF i <= Len(tree.got) THEN tree.got[i] ELSE tree.next
<1>1. PICK next \in Nat : next = get_next_cluster(tree.next)
  BY WalkFacts
<1>2. PICK got : got = Append(tree.got, tree.next)
  OBVIOUS
<1>3. tree.got \in Seq(Nat) /\ tree.next \in Nat
  BY DEF WalkState
<1>4. /\ got \in Seq(Nat) /\ Len(got) = Len(tree.got) + 1
      /\ \A i \in 1 .. Len(tree.got) + 1 :
            got[i] = IF i <= Len(tree.got) THEN tree.got[i] ELSE tree.next
  BY <1>2, <1>3
<1>5. tree' = [ tree EXCEPT !.next = next, !.left = left, !.got = got ]
  BY <1>1, <1>2
<1>6. /\ DOMAIN tree' = { "stack", "result", "path", "next", "got", "left" }
      /\ tree'.next = next /\ tree'.got = got /\ tree'.stack = tree.stack /\ tree'.path = tree.path
  BY <1>5 DEF WalkState
<1>7. WalkState'
  BY <1>4, <1>6 DEF WalkState
<1> QED
  BY <1>4, <1>6, <1>7

\* A cluster of a directory is read and taken out, or the buffer is overrun.
LEMMA ReadDirStep ==
    ASSUME SharedInv, Tree, WalkInv, ReadDirCluster, UNCHANGED sweep
    PROVE  SharedInv' /\ WalkState' /\ WrittenOut'
<1>1. WalkState /\ pc = "dir" /\ InData(tree.next) /\ tree.next \in Nat
  BY DEF WalkInv, ReadDirCluster, WalkState, InChain
<1>2. CASE tree.left = 0
  <2>1. pc' = "overrun" /\ UNCHANGED << tree, list_search_space, used, volume, recovered >>
    BY <1>2 DEF ReadDirCluster
  <2>2. SharedInv'
    BY <2>1, WalkShared DEF WalkPC
  <2> QED
    BY <1>1, <2>1, <2>2 DEF WalkState, WrittenOut
<1>3. CASE tree.left # 0
  <2>1. PICK left : left = tree.left - 1
    OBVIOUS
  <2>2. /\ TakeOutCluster(tree.next) /\ UNCHANGED << pc, volume, recovered >>
        /\ tree' = [ tree EXCEPT !.next = get_next_cluster(tree.next), !.left = left,
                                 !.got = Append(tree.got, tree.next) ]
    BY <1>3, <2>1, Zenon DEF ReadDirCluster
  <2>3. pc' = "dir"
    BY <1>1, <2>2
  <2>4. SharedInv'
    BY <1>1, <2>2, <2>3, TakeClusterOK DEF WalkPC
  <2>5. WalkState'
    BY <1>1, <2>2, NextIs
  <2> QED
    BY <2>3, <2>4, <2>5 DEF WrittenOut
<1> QED
  BY <1>2, <1>3

\* A directory that has been read goes on the stack.
LEMMA WalkDirectoryStep ==
    ASSUME SharedInv, Tree, WalkInv, WalkDirectory, UNCHANGED sweep
    PROVE  SharedInv' /\ WalkState' /\ WrittenOut'
<1>1. WalkState
  BY DEF WalkInv
<1>2. PICK x : x = Frame(tree.path, tree.got)
  OBVIOUS
<1>3. PICK stack : stack = IF tree.got # << >> /\ Descend(Len(tree.stack))
                             THEN << x >> \o tree.stack ELSE tree.stack
  OBVIOUS
<1>4. /\ pc' = "walk" /\ tree' = [ tree EXCEPT !.stack = stack ]
      /\ UNCHANGED << volume, list_search_space, used, recovered >>
  BY <1>2, <1>3, Zenon DEF WalkDirectory
<1>5. stack \in Seq(DirectoryFrame)
  <2>1. /\ tree.stack \in Seq(DirectoryFrame) /\ tree.path \in Seq(AnyName)
        /\ tree.got \in Seq(Nat)
    BY <1>1 DEF WalkState
  <2>2. HasDirectories(volume)
    BY WalkFacts
  <2>3. x \in DirectoryFrame
    BY <1>2, <2>1, <2>2, FrameIs
  <2>4. << x >> \in Seq(DirectoryFrame)
    BY <2>3
  <2>5. << x >> \o tree.stack \in Seq(DirectoryFrame)
    BY <2>1, <2>4
  <2> QED
    BY <1>3, <2>1, <2>5
<1>6. WalkState'
  BY <1>1, <1>4, <1>5 DEF WalkState
<1>7. SharedInv'
  BY <1>4, WalkShared DEF WalkPC
<1> QED
  BY <1>4, <1>6, <1>7 DEF WrittenOut

\* A file is created, or the walk is given up.
LEMMA CreateFileStep ==
    ASSUME SharedInv, Tree, WalkInv, CreateFile, UNCHANGED sweep
    PROVE  SharedInv' /\ WalkState' /\ WrittenOut'
<1>1. WalkState /\ pc = "walk" /\ tree.stack # << >> /\ Top.entries # << >>
  BY DEF WalkInv, CreateFile, AtEntry
<1>2. PICK path : path = Append(Top.path, Entry1.name)
  OBVIOUS
<1>3. PICK ino : ino = Entry1.ino
  OBVIOUS
<1>4. PICK left : left = Entry1.size
  OBVIOUS
<1>5. /\ \/ tree' = [ tree EXCEPT !.stack = << >>, !.result = "EACCES" ] /\ pc' = "walk"
         \/ /\ tree' = [ tree EXCEPT !.path = path, !.got = << >>, !.next = ino, !.left = left ]
            /\ pc' = "file"
      /\ UNCHANGED << volume, list_search_space, used, recovered >>
  BY <1>1, <1>2, <1>3, <1>4, Zenon DEF CreateFile
<1>6. Top.path \in Seq(AnyName) /\ Entry1 \in AnyEntry
  BY <1>1, BelowIs
<1>7. path \in Seq(AnyName) /\ ino \in Nat
  BY <1>2, <1>3, <1>6 DEF AnyEntry
<1>8. CASE tree' = [ tree EXCEPT !.stack = << >>, !.result = "EACCES" ] /\ pc' = "walk"
  <2>1. << >> \in Seq(DirectoryFrame)
    OBVIOUS
  <2>2. WalkState'
    BY <1>1, <1>8, <2>1 DEF WalkState
  <2>3. SharedInv'
    BY <1>5, <1>8, WalkShared DEF WalkPC
  <2> QED
    BY <1>8, <2>2, <2>3 DEF WrittenOut
<1>9. CASE /\ tree' = [ tree EXCEPT !.path = path, !.got = << >>, !.next = ino, !.left = left ]
           /\ pc' = "file"
  <2>1. << >> \in Seq(Nat) /\ Len(<< >>) = 0
    OBVIOUS
  <2>2. WalkState' /\ tree'.stack = tree.stack /\ tree'.got = << >>
    BY <1>1, <1>7, <1>9, <2>1 DEF WalkState
  <2>3. SharedInv'
    BY <1>5, <1>9, WalkShared DEF WalkPC
  <2>4. WrittenOut'
    BY <1>1, <2>1, <2>2 DEF WrittenOut, Top
  <2> QED
    BY <2>2, <2>3, <2>4
<1> QED
  BY <1>5, <1>8, <1>9

\* A cluster of a file is written and taken out.
LEMMA WriteStep ==
    ASSUME SharedInv, Tree, WalkInv, WriteCluster, UNCHANGED sweep
    PROVE  SharedInv' /\ WalkState' /\ WrittenOut'
<1>1. /\ WalkState /\ pc = "file" /\ InData(tree.next) /\ tree.next \in Nat
      /\ tree.stack # << >> /\ Top.entries # << >>
      /\ \A i \in 1 .. Len(tree.got) : ClusterBytes(tree.got[i]) \subseteq used
  BY DEF WalkInv, WriteCluster, WalkState, WrittenOut
<1>2. PICK left : left = tree.left - 1
  OBVIOUS
<1>3. /\ TakeOutCluster(tree.next) /\ UNCHANGED << pc, volume, recovered >>
      /\ tree' = [ tree EXCEPT !.next = get_next_cluster(tree.next), !.left = left,
                               !.got = Append(tree.got, tree.next) ]
  BY <1>2, Zenon DEF WriteCluster
<1>4. SharedInv' /\ used \subseteq used' /\ ClusterBytes(tree.next) \subseteq used'
  BY <1>1, <1>3, TakeClusterOK DEF WalkPC
<1>5. /\ WalkState' /\ tree'.stack = tree.stack
      /\ Len(tree'.got) = Len(tree.got) + 1
      /\ \A i \in 1 .. Len(tree.got) + 1 :
            tree'.got[i] = IF i <= Len(tree.got) THEN tree.got[i] ELSE tree.next
  BY <1>1, <1>3, NextIs
<1>6. \A n : ClusterBytes(n)' = ClusterBytes(n)
  BY <1>3 DEF ClusterBytes, FirstByte, Ntfs
<1>7. WrittenOut'
  <2>1. Len(tree.got) \in Nat
    BY <1>1 DEF WalkState
  <2>2. ASSUME NEW i \in 1 .. Len(tree.got) + 1 PROVE ClusterBytes(tree'.got[i]) \subseteq used'
    <3>1. CASE i <= Len(tree.got)
      <4>1. i \in 1 .. Len(tree.got)
        BY <2>1, <3>1
      <4>2. tree'.got[i] = tree.got[i]
        BY <1>5, <3>1
      <4> QED
        BY <1>1, <1>4, <4>1, <4>2
    <3>2. CASE ~ (i <= Len(tree.got))
      BY <1>4, <1>5, <3>2
    <3> QED
      BY <3>1, <3>2
  <2>3. (\A i \in 1 .. Len(tree.got) : ClusterBytes(tree.got[i]) \subseteq used)'
    BY <1>5, <1>6, <2>2
  <2>4. Top' = Top
    BY <1>5 DEF Top
  <2> QED
    BY <1>1, <1>5, <2>3, <2>4 DEF WrittenOut
<1> QED
  BY <1>4, <1>5, <1>7

\* A file is closed: all its clusters are out by then.
LEMMA CloseStep ==
    ASSUME SharedInv, Tree, WalkInv, pc = "file",
           NEW result, NEW stack \in Seq(DirectoryFrame), CloseFile(result, stack), UNCHANGED sweep
    PROVE  SharedInv' /\ WalkState' /\ WrittenOut'
<1>1. /\ WalkState
      /\ \A i \in 1 .. Len(tree.got) : ClusterBytes(tree.got[i]) \subseteq used
  BY DEF WalkInv, WrittenOut
<1>2. PICK to : to = NameFor(tree.path, Entry1)
  OBVIOUS
<1>3. PICK g : g = File(to[1], to[2], Entry1.ino, tree.got)
  OBVIOUS
<1>4. /\ recovered' = { f \in recovered : << f.path, f.nth >> # to } \cup { g }
      /\ tree' = [ tree EXCEPT !.result = result, !.stack = stack ]
      /\ pc' = "walk"
      /\ UNCHANGED << volume, list_search_space, used >>
  BY <1>2, <1>3, Zenon DEF CloseFile
<1>5. g.clusters = tree.got
  BY <1>3 DEF File
<1>6. WalkState'
  BY <1>1, <1>4 DEF WalkState
<1>7. SharedInv'
  <2>1. ~ Ntfs /\ ~ Fat
    BY WalkFacts
  <2>2. pc' \in (IF Fat THEN FatPC ELSE WalkPC) \ { "geometry", "boot" }
    BY <1>4, <2>1 DEF WalkPC
  <2>3. DOMAIN tree.got = 1 .. Len(tree.got)
    BY <1>1 DEF WalkState
  <2>4. \A f \in recovered' :
           \/ f \in sweep'.cut
           \/ f \in recovered \ sweep.cut
           \/ \A i \in DOMAIN f.clusters :
                 f.clusters[i] \in Nat => ClusterBytes(f.clusters[i]) \subseteq used'
    BY <1>1, <1>4, <1>5, <2>3
  <2> QED
    BY <1>4, <2>1, <2>2, <2>4, SharedKept DEF SharedInv
<1> QED
  BY <1>4, <1>6, <1>7 DEF WrittenOut

\* A step that changes nothing but the stack and the result.
LEMMA StackStep ==
    ASSUME SharedInv, Tree, WalkInv, pc = "walk", UNCHANGED << unformat, sweep >>,
           NEW stack \in Seq(DirectoryFrame),
           tree' = [ tree EXCEPT !.stack = stack ] \/ tree' = [ tree EXCEPT !.stack = stack, !.result = "STOP" ]
    PROVE  SharedInv' /\ WalkState' /\ WrittenOut'
<1>1. WalkState
  BY DEF WalkInv
<1>2. UNCHANGED << volume, list_search_space, used, recovered >> /\ pc' = "walk"
  BY DEF unformat
<1>3. WalkState'
  BY <1>1 DEF WalkState
<1>4. SharedInv'
  BY <1>2, WalkShared DEF WalkPC
<1> QED
  BY <1>2, <1>3, <1>4 DEF WrittenOut

\* The user stops the pass, or nothing happens.
LEMMA WalkStays ==
    ASSUME SharedInv, Tree, WalkInv,
           UNCHANGED << volume, pc, list_search_space, used, recovered, sweep, tree >>
    PROVE  SharedInv' /\ WalkState' /\ WrittenOut'
<1>1. WalkState /\ WrittenOut
  BY DEF WalkInv
<1>2. SharedInv'
  BY WalkFacts DEF SharedInv, OwnClusters, ClusterBytes, FirstByte, Ntfs, Fat, Whole
<1>3. WalkState'
  BY <1>1 DEF WalkState
<1>4. WrittenOut'
  BY <1>1 DEF WrittenOut, Top, ClusterBytes, FirstByte, Ntfs
<1> QED
  BY <1>2, <1>3, <1>4

\* Every step of the walk keeps the invariant.
LEMMA WalkStepOK ==
    ASSUME SharedInv, Tree, WalkInv, WalkStep, UNCHANGED sweep
    PROVE  SharedInv' /\ WalkState' /\ WrittenOut'
<1>0. WalkState /\ WrittenOut /\ << >> \in Seq(DirectoryFrame)
  BY DEF WalkInv
<1>1. CASE kf_fat_boot_geometry
  BY <1>1, BootStep
<1>2. CASE EnterDirectory
  BY <1>2, EnterStep
<1>3. CASE ReadDirCluster
  BY <1>3, ReadDirStep
<1>4. CASE WalkDirectory
  BY <1>4, WalkDirectoryStep
<1>5. CASE CreateFile
  BY <1>5, CreateFileStep
<1>6. CASE WriteCluster
  BY <1>6, WriteStep
<1>7. CASE FileWritten
  <2>1. pc = "file" /\ CloseFile("OK", Below)
    BY <1>7 DEF FileWritten
  <2>2. Below \in Seq(DirectoryFrame)
    BY <1>0, <2>1, BelowIs DEF WrittenOut
  <2> QED
    BY <2>1, <2>2, CloseStep
<1>8. CASE NoSpace
  <2>1. pc = "file" /\ CloseFile("ENOSPC", << >>)
    BY <1>8 DEF NoSpace
  <2> QED
    BY <1>0, <2>1, CloseStep
<1>9. CASE PassOver
  <2>1. /\ pc = "walk" /\ tree.stack # << >> /\ Top.entries # << >>
        /\ UNCHANGED unformat /\ tree' = [ tree EXCEPT !.stack = Below ]
    BY <1>9 DEF PassOver, AtEntry
  <2>2. Below \in Seq(DirectoryFrame)
    BY <1>0, <2>1, BelowIs
  <2> QED
    BY <2>1, <2>2, StackStep
<1>10. CASE Return
  <2>1. /\ pc = "walk" /\ tree.stack # << >> /\ UNCHANGED unformat
        /\ tree' = [ tree EXCEPT !.stack = Tail(tree.stack) ]
    BY <1>10 DEF Return
  <2>2. Tail(tree.stack) \in Seq(DirectoryFrame)
    BY <1>0, <2>1, BelowIs
  <2> QED
    BY <2>1, <2>2, StackStep
<1>11. CASE StopWalk
  <2>1. /\ pc = "walk" /\ UNCHANGED unformat
        /\ tree' = [ tree EXCEPT !.stack = << >>, !.result = "STOP" ]
    BY <1>11 DEF StopWalk
  <2> QED
    BY <1>0, <2>1, StackStep
<1>12. CASE WalkEnds
  <2>1. pc' = "done" /\ UNCHANGED << volume, list_search_space, used, recovered, tree >>
    BY <1>12 DEF WalkEnds
  <2>2. SharedInv'
    BY <2>1, WalkShared DEF WalkPC
  <2> QED
    BY <1>0, <2>1, <2>2 DEF WalkState, WrittenOut
<1> QED
  BY <1>1, <1>2, <1>3, <1>4, <1>5, <1>6, <1>7, <1>8, <1>9, <1>10, <1>11, <1>12 DEF WalkStep

-----------------------------------------------------------------------------
(* The invariant *)

\* The user stops the pass, or nothing happens.
LEMMA NtfsStays ==
    ASSUME SharedInv, Ntfs, NtfsInv,
           UNCHANGED << volume, pc, list_search_space, used, recovered, mft >>
    PROVE  SharedInv' /\ EntriesInv' /\ RangesInv' /\ FilesInv'
<1>0. EntriesInv /\ RangesInv /\ FilesInv
  BY DEF NtfsInv
<1>1. SharedInv'
  <2>1. pc' \in NtfsPC
    BY DEF SharedInv
  <2> QED
    BY <2>1, SharedStays
<1>2. EntriesInv'
  BY <1>0 DEF EntriesInv
<1>3. RangesInv'
  <2>1. RecordBytes' = RecordBytes
    BY <1>0, RecordsStay DEF EntriesInv, MftState
  <2> QED
    BY <1>0, <2>1 DEF RangesInv
<1>4. FilesInv'
  BY <1>0, FilesStay
<1> QED
  BY <1>1, <1>2, <1>3, <1>4

\* Every step of the NTFS pass keeps the invariant.
LEMMA NtfsStepOK ==
    ASSUME SharedInv, Ntfs, NtfsInv, NtfsStep
    PROVE  SharedInv' /\ EntriesInv' /\ RangesInv' /\ FilesInv'
<1>1. \/ open \/ ReadBatch \/ CollectRanges \/ RecoverRecord \/ RecoverFails \/ PathPanics
      \/ EndOfRecords \/ mark_used_ranges
  BY DEF NtfsStep
<1> QED
  BY <1>1, OpenStep, ReadBatchStep, CollectStep, RecoverStep, RecoverFailsStep, PathPanicsStep,
     RecordsEndStep, MarkStep

\* Every step of the search for FAT directories keeps the invariant.
LEMMA FatStepOK ==
    ASSUME SharedInv, Fat, FatInv, FatStep
    PROVE  SharedInv' /\ SweepInv' /\ NamesInv' /\ SweepSeesAll' /\ SweepTakesKnown'
<1>1. Geometry \/ LookAt \/ NextEntry \/ Advance \/ SweepEnds
  BY DEF FatStep
<1> QED
  BY <1>1, GeometryStep, LookAtStep, NextEntryStep, AdvanceStep, SweepEndsStep

\* The steps of a pass are taken where the pass is.
LEMMA PassIs ==
    ASSUME SharedInv
    PROVE  /\ NtfsStep => Ntfs
           /\ FatStep => Fat
           /\ WalkStep => Tree
<1>1. volume \in Volumes /\ pc \in (IF Ntfs THEN NtfsPC ELSE IF Fat THEN FatPC ELSE WalkPC)
  BY DEF SharedInv
<1>2. /\ Ntfs => ~ Fat /\ ~ Tree /\ pc \in NtfsPC
      /\ Fat => ~ Ntfs /\ ~ Tree /\ pc \in FatPC
      /\ Tree => ~ Ntfs /\ ~ Fat /\ pc \in WalkPC
      /\ Ntfs \/ Fat \/ Tree
  BY <1>1, VolumeIs
<1>3. NtfsStep => pc \in { "open", "pass1", "pass2", "mark" }
  BY DEF NtfsStep, open, ReadBatch, CollectRanges, AtRecord, RecoverRecord, RecoverFails,
         PathPanics, EndOfRecords, mark_used_ranges
<1>4. FatStep => pc \in { "geometry", "sweep", "entries", "advance" }
  BY DEF FatStep, Geometry, LookAt, NextEntry, Advance, SweepEnds
<1>5. WalkStep => pc \in { "boot", "walk", "dir", "file" }
  BY DEF WalkStep, kf_fat_boot_geometry, EnterDirectory, AtEntry, ReadDirCluster, WalkDirectory,
         CreateFile, WriteCluster, FileWritten, NoSpace, PassOver, Return, StopWalk, WalkEnds
<1> QED
  BY <1>2, <1>3, <1>4, <1>5 DEF NtfsPC, FatPC, WalkPC

\* The volume stays, and with it what it is.
LEMMA VolumeStays ==
    ASSUME SharedInv, [Next]_vars
    PROVE  UNCHANGED volume
<1>1. CASE Pass
  <2>1. CASE NtfsStep
    <3>1. ReadBatch => UNCHANGED volume
      BY Zenon DEF ReadBatch, unformat
    <3>2. CollectRanges => UNCHANGED volume
      BY Zenon DEF CollectRanges
    <3>3. RecoverRecord => UNCHANGED volume
      BY Zenon DEF RecoverRecord
    <3>4. RecoverFails => UNCHANGED volume
      BY Zenon DEF RecoverFails
    <3>5. PathPanics => UNCHANGED volume
      BY Zenon DEF PathPanics
    <3> QED
      BY <2>1, <3>1, <3>2, <3>3, <3>4, <3>5 DEF NtfsStep, open, EndOfRecords, mark_used_ranges
  <2>2. CASE FatStep
    BY <2>2 DEF FatStep, Geometry, LookAt, NextEntry, Advance, SweepEnds
  <2>3. CASE WalkStep
    BY <2>3 DEF WalkStep, kf_fat_boot_geometry, EnterDirectory, AtEntry, ReadDirCluster, WalkDirectory,
         CreateFile, WriteCluster, FileWritten, NoSpace, CloseFile, PassOver, Return, StopWalk,
         WalkEnds, unformat
  <2> QED
    BY <1>1, <2>1, <2>2, <2>3 DEF Pass
<1>2. CASE kaifuku_stop
  BY <1>2 DEF kaifuku_stop
<1>3. CASE UNCHANGED vars
  BY <1>3 DEF vars, unformat
<1> QED
  BY <1>1, <1>2, <1>3 DEF Next

\* Every step keeps the invariant.
LEMMA StepIInv == IInv /\ [Next]_vars => IInv'
<1> SUFFICES ASSUME SharedInv, NtfsInv, FatInv, WalkInv, [Next]_vars PROVE IInv'
  BY DEF IInv
<1>1. UNCHANGED volume
  BY VolumeStays
<1>2. (Ntfs' <=> Ntfs) /\ (Fat' <=> Fat) /\ (Tree' <=> Tree)
  BY <1>1 DEF Ntfs, Fat, Tree
<1>3. /\ Ntfs => ~ Fat /\ ~ Tree
      /\ Fat => ~ Ntfs /\ ~ Tree
      /\ Tree => ~ Ntfs /\ ~ Fat
      /\ Ntfs \/ Fat \/ Tree
  BY VolumeIs DEF SharedInv
<1>4. \/ NtfsStep \/ FatStep \/ (WalkStep /\ UNCHANGED sweep)
      \/ /\ UNCHANGED << volume, pc, list_search_space, used, recovered, mft, sweep, tree >>
         /\ pc # "done" \/ UNCHANGED need_to_stop
  BY DEF Next, Pass, kaifuku_stop, vars, unformat
<1>5. CASE Ntfs
  <2>1. ~ FatStep /\ ~ WalkStep
    BY <1>3, <1>5, PassIs
  <2>2. SharedInv' /\ EntriesInv' /\ RangesInv' /\ FilesInv'
    BY <1>4, <1>5, <2>1, NtfsStepOK, NtfsStays
  <2> QED
    BY <1>2, <1>3, <1>5, <2>2 DEF IInv, NtfsInv, FatInv, WalkInv
<1>6. CASE Fat
  <2>1. ~ NtfsStep /\ ~ WalkStep
    BY <1>3, <1>6, PassIs
  <2>2. SharedInv' /\ SweepInv' /\ NamesInv' /\ SweepSeesAll' /\ SweepTakesKnown'
    BY <1>4, <1>6, <2>1, FatStepOK, FatStays
  <2> QED
    BY <1>2, <1>3, <1>6, <2>2 DEF IInv, NtfsInv, FatInv, WalkInv
<1>7. CASE Tree
  <2>1. ~ NtfsStep /\ ~ FatStep
    BY <1>3, <1>7, PassIs
  <2>2. SharedInv' /\ WalkState' /\ WrittenOut'
    BY <1>4, <1>7, <2>1, WalkStepOK, WalkStays
  <2> QED
    BY <1>2, <1>3, <1>7, <2>2 DEF IInv, NtfsInv, FatInv, WalkInv
<1> QED
  BY <1>3, <1>5, <1>6, <1>7

\* The invariant holds in every reachable state of each of the passes, wherever it is
\* stopped, reads or writes of files fail or leave a part, or the NTFS pass panics.
THEOREM Invariance == Spec => []IInv
<1>1. Init => IInv
  BY InitIInv
<1>2. IInv /\ [Next]_vars => IInv'
  BY StepIInv
<1> QED
  BY <1>1, <1>2, PTL DEF Spec

\* The clusters of a record read are among the bytes of the records.
LEMMA RecordBytesOf ==
    ASSUME Ntfs, NEW i \in DOMAIN mft.entries, mft.entries[i] # None,
           NEW n \in ClustersOf(mft.entries[i].runs)
    PROVE  ClusterBytes(n) \subseteq RecordBytes
  BY DEF RecordBytes

\* The carve sees no cluster of a file that a structure pass has written, whole or in
\* part, wherever the pass was stopped and whatever reads and writes failed
\* (kaifuku_ffi.c, fat_unformat.c, ntfs.rs).  Two exceptions are part of the statement:
\* the files fat_unformat has cut short on a full destination, and a pass over an NTFS
\* volume that panicked.
THEOREM FilesAreOut == Spec => []RecoveredIsOut
<1>1. IInv => RecoveredIsOut
  <2> SUFFICES ASSUME IInv, pc \in { "done", "overrun" }, NEW f \in recovered \ sweep.cut,
                      NEW n \in OwnClusters(f)
               PROVE  ClusterBytes(n) \cap Bytes(list_search_space) = {}
    BY DEF RecoveredIsOut, IsOut
  <2>1. SharedInv /\ NtfsInv /\ Bytes(list_search_space) \cap used = {}
    BY DEF IInv, SharedInv
  <2>2. ClusterBytes(n) \subseteq used
    <3>1. CASE ~ Ntfs
      BY <2>1, <3>1 DEF SharedInv
    <3>2. CASE Ntfs
      <4>1. EntriesInv /\ RangesInv /\ FilesInv
        BY <2>1, <3>2 DEF NtfsInv
      <4>2. pc = "done"
        BY <2>1, <3>2 DEF SharedInv, NtfsPC
      <4>3. used = RecordBytes
        BY <4>1, <4>2 DEF RangesInv
      <4>4. PICK i : i = f.of + 1
        OBVIOUS
      <4>5. i \in 1 .. Len(mft.entries) /\ mft.entries[i] # None
        BY <4>1, <4>4 DEF FilesInv
      <4>6. DOMAIN mft.entries = 1 .. Len(mft.entries)
        BY <4>1 DEF EntriesInv, MftState
      <4>7. n \in ClustersOf(mft.entries[i].runs)
        BY <3>2, <4>4 DEF OwnClusters
      <4> QED
        BY <3>2, <4>3, <4>5, <4>6, <4>7, RecordBytesOf
    <3> QED
      BY <3>1, <3>2
  <2> QED
    BY <2>1, <2>2
<1> QED
  BY <1>1, Invariance, PTL

\* An NTFS pass that comes to its end, also by a stop or past failed files, takes out
\* the clusters of the MFT and of every record it read and nothing else: merging the
\* ranges neither loses a byte nor adds one.  (One that panics does not end so.)
THEOREM JustTheRecords == Spec => []RecordsTaken
<1>1. IInv => RecordsTaken
  BY DEF IInv, NtfsInv, RangesInv, RecordsTaken
<1> QED
  BY <1>1, Invariance, PTL

\* However often the buffer is filled again, with the position ahead of it, the
\* search for FAT directories looks at each cluster of the data area but the last, and
\* takes out only clusters of files it has copied and the cluster of a directory or
\* the one behind it.
THEOREM SweepHolds == Spec => []SweepKeepsPlace
<1>1. IInv => SweepKeepsPlace
  BY DEF IInv, FatInv, SweepKeepsPlace, SweepSeesAll, SweepTakesKnown
<1> QED
  BY <1>1, Invariance, PTL

\* No deleted file is read from clusters that are in use again.
THEOREM NoGarbageRead == Spec => []NoGarbage
<1>1. IInv => NoGarbage
  BY DEF IInv, NtfsInv, FilesInv, NoGarbage
<1> QED
  BY <1>1, Invariance, PTL

-----------------------------------------------------------------------------
(* The passes take from the search space as SearchSpace describes it *)

\* The instance of SearchSpace has operators of its own, with the same definitions.
LEMMA SameDel ==
    ASSUME NEW l, NEW s, NEW e
    PROVE  Space!del_search_space(l, s, e) = del_search_space(l, s, e)
<1>1. Space!del = del
  BY Zenon DEF Space!del, del, Space!Ordered, Ordered, Space!WellFormed, WellFormed,
     Space!Extent, Extent, Space!SelectLastInSeq, SelectLastInSeq, Space!Max, Max,
     Space!Touches, Touches, Space!ReplaceAt, ReplaceAt, Space!RemoveAt, RemoveAt,
     Space!Split, Split, Space!InsertAt, InsertAt, Space!extent, extent
<1> QED
  BY <1>1, Zenon DEF Space!del_search_space, del_search_space

\* The same of update_blocksize.
LEMMA SameUpdate ==
    ASSUME NEW l, NEW bs, NEW offset
    PROVE  Space!update_blocksize(l, bs, offset) = update_blocksize(l, bs, offset)
<1>1. [ x \in { 0 } |-> Space!update_blocksize(l, bs, offset) ]
        = [ x \in { 0 } |-> update_blocksize(l, bs, offset) ]
  BY Zenon DEF Space!update_blocksize, update_blocksize, Space!AlignStart, AlignStart,
     Space!RoundUp, RoundUp, Space!RemoveAt, RemoveAt, Space!ReplaceAt, ReplaceAt,
     Space!extent, extent, Space!KeepAligned, KeepAligned, Space!AlignEnd, AlignEnd,
     Space!RoundDown, RoundDown, Space!Reverse, Reverse, Space!FoldLeft, FoldLeft,
     Space!MapThenFoldSet, MapThenFoldSet, Space!Max, Max
<1> QED
  BY <1>1, Zenon

\* What is to be carved at first is the whole partition.
LEMMA SamePartition ==
    ASSUME PartitionOnDisk
    PROVE  /\ Space!Partition = Whole
           /\ init_search_space(PartOffset, PartSize, DiskSize) = Whole
<1>1. PICK end \in Nat : end = PartOffset + PartSize - 1
  BY VolumeSizesAssumption
<1>2. ~ (end > DiskSize - 1) /\ ~ (end > PartOffset + PartSize - 1)
  BY <1>1, VolumeSizesAssumption DEF PartitionOnDisk
<1>3. Whole = << extent(PartOffset, end) >>
  BY <1>1, VolumeSizesAssumption DEF Whole, init_search_space
<1>4. init_search_space(PartOffset, PartSize, DiskSize) = << extent(PartOffset, end) >>
  BY <1>1, <1>2 DEF init_search_space
<1>5. Space!Partition = init_search_space(PartOffset, PartSize, DiskSize)
  BY Zenon DEF Space!Partition, Space!init_search_space, init_search_space, Space!extent, extent
<1> QED
  BY <1>3, <1>4, <1>5

\* Whether the data area is known, seen from the list.
LEMMA GeometryUsedIs ==
    ASSUME PartitionOnDisk
    PROVE  /\ GeometryUsed <=> ~ Ntfs /\ list_search_space # Whole
           /\ GeometryUsed' <=> ~ Ntfs' /\ list_search_space' # Whole
<1>1. PICK w : w = Whole /\ w = init_search_space(PartOffset, PartSize, DiskSize)
  BY SamePartition
<1> QED
  BY <1>1 DEF GeometryUsed

\* A list that has given up the start of the partition is not the first one.
LEMMA NotWhole ==
    ASSUME NEW l, PartOffset \notin Bytes(l)
    PROVE  l # Whole
<1>1. PartOffset \in PartOffset .. PartOffset + PartSize - 1
  BY VolumeSizesAssumption
<1> QED
  BY <1>1, WholeIs

\* A step that leaves the search space alone.
LEMMA SpaceStays ==
    ASSUME UNCHANGED << volume, list_search_space, used >>, Refused' <=> Refused
    PROVE  UNCHANGED Space!vars
<1>1. (Ntfs' <=> Ntfs) /\ UNCHANGED start_data /\ UNCHANGED volume.start_data
  BY DEF Ntfs, start_data
<1>2. GeometryUsed' <=> GeometryUsed
  BY <1>1 DEF GeometryUsed
<1> QED
  BY <1>1, <1>2 DEF Space!vars

\* Clusters of the data area are taken out once the geometry is in use.
LEMMA TakesOutIs ==
    ASSUME PartitionOnDisk, ~ Ntfs, list_search_space \in Ordered,
           PartOffset \notin Bytes(list_search_space), UNCHANGED volume,
           NEW start \in Nat \ { 0 }, start = volume.start_data,
           NEW first \in Nat, NEW k \in Int, first = start + k * Cluster,
           NEW n \in Nat, NEW last \in Int, last = first + n * Cluster - 1,
           last < PartOffset + PartSize, TakeOut(first, last)
    PROVE  TakesOut(first, n) /\ PartOffset \notin Bytes(list_search_space')
<1>1. PICK l : l = list_search_space'
  OBVIOUS
<1>2. l = del_search_space(list_search_space, first, last) /\ used' = used \cup (first .. last)
  BY <1>1 DEF TakeOut
<1>3. PartOffset \notin Bytes(l)
  BY <1>2, DelBytes
<1>4. list_search_space # Whole /\ l # Whole
  BY <1>3, NotWhole
<1>5. ~ Ntfs'
  BY DEF Ntfs
<1>6. GeometryUsed /\ GeometryUsed'
  BY <1>1, <1>4, <1>5, GeometryUsedIs
<1>7. ~ Refused /\ ~ Refused'
  BY <1>6 DEF Refused
<1>8. PICK d : d = (first - volume.start_data) \div Cluster
  OBVIOUS
<1>9. d = k
  <2>1. Cluster \in Nat /\ Cluster > 1
    BY VolumeSizesAssumption
  <2>2. PICK p \in Int : p = k * Cluster
    BY <2>1
  <2>3. first - volume.start_data = p
    BY <2>2
  <2>4. (k + 1) * Cluster = p + Cluster
    BY <2>1, <2>2
  <2>5. p \div Cluster \in Int /\ k <= p \div Cluster /\ p \div Cluster < k + 1
    BY <2>1, <2>2, <2>4, DivRange
  <2> QED
    BY <1>8, <2>3, <2>5
<1>10. Space!DelClusters(d, n)
  <2>1. Space!del_search_space(list_search_space, first, last) = l
    BY <1>2, SameDel
  <2>2. volume.start_data = start /\ volume'.start_data = start /\ start # 0
    OBVIOUS
  <2>3. start + d * Cluster = first /\ first + n * Cluster - 1 = last
    BY <1>9
  <2> QED
    BY <1>1, <1>2, <1>5, <1>6, <1>7, <2>1, <2>2, <2>3 DEF Space!DelClusters
<1> QED
  BY <1>1, <1>3, <1>8, <1>10 DEF TakesOut

\* The end of the partition is the end of a cluster of the data area.
LEMMA RoundUpFits ==
    ASSUME NEW bs \in Nat, bs > 1, NEW start \in Nat, NEW a \in Int, (a - start) % bs = 0
    PROVE  RoundUp(a, bs, start % bs) = a
<1>1. PICK q \in Int, off \in 0 .. bs - 1 : off = start % bs /\ start = bs * q + off
  BY DivMod
<1>2. PICK m \in Int : a - start = m * bs
  <2>1. PICK b \in Int : b = a - start
    OBVIOUS
  <2>2. b % bs = 0 /\ bs > 0
    BY <2>1
  <2>3. \E k \in Int : b = k * bs
    BY <2>2, AlignedIs
  <2> QED
    BY <2>1, <2>3
<1>3. PICK t \in Int : t = m + q
  OBVIOUS
<1>4. a - off = t * bs
  <2>1. PICK x \in Int : x = m * bs
    OBVIOUS
  <2>2. PICK y \in Int : y = q * bs
    OBVIOUS
  <2>3. t * bs = x + y
    BY <1>3, <2>1, <2>2
  <2>4. bs * q = y
    BY <2>2
  <2>5. a - start = x /\ start = y + off
    BY <1>1, <1>2, <2>1, <2>4
  <2> QED
    BY <1>1, <2>3, <2>5
<1>5. PICK x \in Int : x = a - off + bs - 1
  OBVIOUS
<1>6. x \div bs \in Int /\ t <= x \div bs /\ x \div bs < t + 1
  <2>1. (t + 1) * bs = t * bs + bs /\ t * bs \in Int
    OBVIOUS
  <2>2. t * bs <= x /\ x < (t + 1) * bs
    BY <1>4, <1>5, <2>1
  <2> QED
    BY <2>2, DivRange
<1>7. x \div bs = t
  BY <1>6
<1>8. RoundUp(a, bs, off) = t * bs + off
  BY <1>5, <1>7 DEF RoundUp
<1> QED
  BY <1>1, <1>4, <1>8

\* The geometry comes into use: what precedes the data area is given up.
LEMMA GeometryTaken ==
    ASSUME PartitionOnDisk, ~ Ntfs, list_search_space = Whole, UNCHANGED << volume, used >>,
           NEW start \in Nat, start = volume.start_data, PartOffset < start,
           list_search_space' = update_blocksize(
               del_search_space(list_search_space, PartOffset, start - 1), Cluster, start)
    PROVE  /\ PartOffset \notin Bytes(list_search_space')
           /\ ~ GeometryUsed /\ GeometryUsed' /\ ~ Refused'
           /\ Space!UseGeometry(start)
<1>f. PartOffset \in Nat /\ Cluster \in Nat /\ Cluster > 1
  BY VolumeSizesAssumption
<1>1. PICK end \in Nat : end = PartOffset + PartSize - 1
  BY VolumeSizesAssumption
<1>2. PICK last \in Int : last = start - 1
  OBVIOUS
<1>3. PICK l0 : l0 = del_search_space(list_search_space, PartOffset, last)
  OBVIOUS
<1>4. l0 \in Ordered /\ Bytes(l0) = (PartOffset .. end) \ (PartOffset .. last)
  <2>1. l0 = del_search_space(Whole, PartOffset, last)
    BY <1>3
  <2>2. Whole \in Ordered /\ Bytes(Whole) = PartOffset .. end
    BY <1>1, WholeIs
  <2>3. l0 \in Ordered /\ Bytes(l0) = Bytes(Whole) \ (PartOffset .. last)
    BY <1>f, <2>1, <2>2, DelBytes
  <2> QED
    BY <2>2, <2>3
<1>5. Bytes(l0) = start .. end
  BY <1>f, <1>2, <1>4
<1>6. PICK l : l = update_blocksize(l0, Cluster, start)
  OBVIOUS
<1>7. PICK z : z = RoundUp(end + 1, Cluster, start % Cluster) - 1
  OBVIOUS
<1>8. Bytes(l) = start .. z
  BY <1>f, <1>4, <1>5, <1>6, <1>7, GeometryOK
<1>9. list_search_space' = l
  BY <1>2, <1>3, <1>6
<1>10. PartOffset \notin start .. z
  BY <1>f
<1>11. PartOffset \notin Bytes(l)
  BY <1>8, <1>10
<1>12. ~ Ntfs' /\ l # Whole
  BY <1>11, NotWhole DEF Ntfs
<1>13. ~ GeometryUsed /\ GeometryUsed'
  BY <1>9, <1>12, GeometryUsedIs
<1>14. ~ Refused'
  BY <1>13 DEF Refused
<1>15. Space!UseGeometry(start)
  <2>1. Space!del_search_space(list_search_space, PartOffset, start - 1) = l0
    BY <1>2, <1>3, SameDel
  <2>2. Space!update_blocksize(l0, Cluster, start) = l
    BY <1>6, SameUpdate
  <2>3. volume'.start_data = start
    OBVIOUS
  <2> QED
    BY <1>9, <1>13, <2>1, <2>2, <2>3 DEF Space!UseGeometry
<1> QED
  BY <1>9, <1>11, <1>13, <1>14, <1>15

\* The ranges merged begin where ranges began.
LEMMA MergedBegins ==
    ASSUME NEW v \in Seq(ByteRange)
    PROVE  /\ merge_ranges(v) \in Seq(ByteRange)
           /\ \A r \in ElementsOf(merge_ranges(v)) : \E x \in ElementsOf(v) : r.offset = x.offset
<1>1. PICK l : l = sort_by_offset(v)
  OBVIOUS
<1>2. l \in Seq(ByteRange) /\ ElementsOf(l) = ElementsOf(v)
  BY <1>1, SortOK
<1>3. merge_ranges(v) = FoldLeft(Merge, << >>, l)
  BY <1>1 DEF merge_ranges
<1>a. \E w : /\ w[0] = << >> /\ w[Len(l)] = FoldLeft(Merge, << >>, l)
             /\ \A k \in 1 .. Len(l) : w[k] = Merge(w[k - 1], l[k])
  BY <1>2, MergeSteps
<1>4. PICK w : /\ w[0] = << >> /\ w[Len(l)] = FoldLeft(Merge, << >>, l)
               /\ \A k \in 1 .. Len(l) : w[k] = Merge(w[k - 1], l[k])
  BY <1>a, Zenon
<1>5. PICK n \in Nat : n = Len(l)
  BY <1>2
<1>6. \A k \in 1 .. n : l[k] \in ByteRange /\ l[k] \in ElementsOf(l)
  BY <1>2, <1>5 DEF ElementsOf
<1> DEFINE Begin(r) == \E x \in ElementsOf(l) : r.offset = x.offset
           T == { k \in 0 .. n : /\ w[k] \in Seq(ByteRange)
                                 /\ \A i \in 1 .. Len(w[k]) : Begin(w[k][i]) }
<1>7. 0 \in T
  <2>1. << >> \in Seq(ByteRange) /\ Len(<< >>) = 0
    OBVIOUS
  <2>2. w[0] \in Seq(ByteRange) /\ \A i \in 1 .. Len(w[0]) : Begin(w[0][i])
    BY <1>4, <2>1
  <2>3. 0 \in 0 .. n
    OBVIOUS
  <2> QED
    BY <2>2, <2>3, Zenon
<1>8. ASSUME NEW k \in 1 .. n, k - 1 \in T PROVE k \in T
  <2>1. PICK m : m = w[k - 1]
    OBVIOUS
  <2>2. m \in Seq(ByteRange) /\ \A i \in 1 .. Len(m) : Begin(m[i])
    BY <1>8, <2>1
  <2>3. PICK r \in ByteRange : r = l[k] /\ r \in ElementsOf(l)
    BY <1>6
  <2>4. PICK t : t = Merge(m, r)
    OBVIOUS
  <2>5. w[k] = t
    BY <1>4, <1>5, <2>1, <2>3, <2>4
  <2>6. t \in Seq(ByteRange)
    BY <2>2, <2>4, MergeType
  <2>7. Begin(r)
    BY <2>3
  <2> HIDE DEF Begin
  <2>8. ASSUME NEW i \in 1 .. Len(t) PROVE Begin(t[i])
    <3>1. CASE t = Append(m, r)
      BY <2>2, <2>7, <3>1
    <3>2. CASE m # << >> /\ \E y \in ByteRange : t = [ m EXCEPT ![Len(m)] = y ] /\ y.offset = Last(m).offset
      <4>1. PICK y \in ByteRange : t = [ m EXCEPT ![Len(m)] = y ] /\ y.offset = Last(m).offset
        BY <3>2
      <4>2. PICK z \in ByteRange : z = Last(m) /\ z = m[Len(m)]
        BY <2>2, <3>2, LastIn
      <4>3. PICK p \in Nat : p = Len(m) /\ p >= 1
        BY <2>2, <3>2, LastIn
      <4>4. Begin(z) /\ z.offset = y.offset
        BY <2>2, <4>1, <4>2, <4>3
      <4>5. Begin(y)
        BY <4>4 DEF Begin
      <4>6. Len(t) = p /\ t[i] = IF i = p THEN y ELSE m[i]
        BY <2>2, <4>1, <4>3
      <4> QED
        BY <2>2, <4>3, <4>5, <4>6
    <3>3. \/ t = Append(m, r)
          \/ m # << >> /\ \E y \in ByteRange : t = [ m EXCEPT ![Len(m)] = y ] /\ y.offset = Last(m).offset
      BY <2>2, <2>4, MergeIs, Zenon
    <3> QED
      BY <3>1, <3>2, <3>3
  <2>9. k \in 0 .. n
    OBVIOUS
  <2> QED
    BY <2>5, <2>6, <2>8, <2>9
<1>9. 0 .. n \subseteq T
  <2> HIDE DEF T
  <2> QED
    BY <1>7, <1>8, SetInduction
<1>10. n \in T
  <2> HIDE DEF T
  <2>1. n \in 0 .. n
    OBVIOUS
  <2> QED
    BY <1>9, <2>1
<1>11. merge_ranges(v) = w[n]
  BY <1>3, <1>4, <1>5
<1>12. \A r \in ElementsOf(w[n]) : Begin(r)
  BY <1>10 DEF ElementsOf
<1> QED
  BY <1>2, <1>10, <1>11, <1>12

\* The sectors of the partition, as SearchSpace has them.
InPartition(ranges) == \A r \in ElementsOf(ranges) : r.offset \in Space!Sectors(PartOffset, PartSize)

\* The range of a run that begins in the partition begins at one of its sectors.
LEMMA RunsBegin ==
    ASSUME NEW runs \in Seq(Run), RunsFit(runs)
    PROVE  RangesOf(runs) \in Seq(ByteRange) /\ InPartition(RangesOf(runs))
<1>1. PICK n \in Nat : n = Len(runs)
  OBVIOUS
<1>2. \A i \in 1 .. n : runs[i] \in Run
  BY <1>1
<1> DEFINE R(i) == IF runs[i].cluster = SPARSE THEN << >> ELSE << ByteRangeOf(runs[i]) >>
           q == [ i \in 1 .. n |-> R(i) ]
<1>3. ASSUME NEW i \in 1 .. n
      PROVE  /\ R(i) \in Seq(ByteRange)
             /\ \A x : x \in ElementsOf(R(i)) <=> runs[i].cluster # SPARSE /\ x = ByteRangeOf(runs[i])
  <2>1. CASE runs[i].cluster = SPARSE
    BY <2>1 DEF ElementsOf
  <2>2. CASE runs[i].cluster # SPARSE
    <3>1. PICK y \in ByteRange : y = ByteRangeOf(runs[i])
      BY <1>2, <2>2, RunCovers
    <3>2. << y >> \in Seq(ByteRange) /\ Len(<< y >>) = 1 /\ << y >>[1] = y
      OBVIOUS
    <3>3. ElementsOf(<< y >>) = { y }
      BY <3>2 DEF ElementsOf
    <3> QED
      BY <2>2, <3>1, <3>2, <3>3
  <2> QED
    BY <2>1, <2>2
<1>4. RangesOf(runs) = FlattenSeq(q)
  BY <1>1 DEF RangesOf
<1>5. q \in Seq(Seq(ByteRange)) /\ Len(q) = n /\ \A i \in 1 .. n : q[i] = R(i)
  <2>1. \A i \in 1 .. n : R(i) \in Seq(ByteRange)
    BY <1>3
  <2> HIDE DEF R
  <2>2. q \in [1 .. n -> Seq(ByteRange)]
    BY <2>1
  <2> QED
    BY <2>2
<1> HIDE DEF q, R
<1>6. PICK s : s = RangesOf(runs)
  OBVIOUS
<1>7. /\ s \in Seq(ByteRange)
      /\ ElementsOf(s) = UNION { ElementsOf(q[k]) : k \in 1 .. n }
  BY <1>4, <1>5, <1>6, FlattenIs
<1>8. \A x : x \in ElementsOf(s) =>
              \E k \in 1 .. n : runs[k].cluster # SPARSE /\ x = ByteRangeOf(runs[k])
  BY <1>3, <1>5, <1>7
<1>9. ASSUME NEW k \in 1 .. n, runs[k].cluster # SPARSE
      PROVE  ByteRangeOf(runs[k]).offset \in Space!Sectors(PartOffset, PartSize)
  <2>1. PICK c \in Nat : c = runs[k].cluster
    BY <1>2, <1>9 DEF Run
  <2>2. /\ PartOffset \in Nat /\ PartSize \in Nat /\ Cluster \in Nat
        /\ SectorSize \in Nat /\ SectorSize > 0 /\ Cluster % SectorSize = 0
    BY VolumeSizesAssumption
  <2>3. PICK p \in Nat : p = c * Cluster
    BY <2>2
  <2>4. p < PartSize
    BY <1>1, <1>9, <2>1, <2>3 DEF RunsFit
  <2>5. ByteRangeOf(runs[k]).offset = PartOffset + p
    BY <2>1, <2>3 DEF ByteRangeOf, cluster_to_offset
  <2>6. p % SectorSize = 0
    <3>1. PICK u \in Int : Cluster = u * SectorSize
      <4>1. PICK a \in Int : a = Cluster
        BY <2>2
      <4>2. a % SectorSize = 0
        BY <2>2, <4>1
      <4>3. \E d \in Int : a = d * SectorSize
        BY <2>2, <4>2, AlignedIs
      <4> QED
        BY <4>1, <4>3
    <3>2. PICK x \in Int : x = c * u
      OBVIOUS
    <3>3. PICK sector \in Nat : sector = SectorSize
      BY <2>2
    <3>4. p = c * (u * sector)
      BY <2>3, <3>1, <3>3
    <3>5. c * (u * sector) = (c * u) * sector
      OBVIOUS
    <3>6. p = x * SectorSize
      BY <3>2, <3>3, <3>4, <3>5
    <3> QED
      BY <2>2, <3>6, AlignedIs
  <2>7. PICK a \in Int : a = PartOffset + p
    BY <2>2
  <2>8. a \in PartOffset .. PartOffset + PartSize - 1 /\ a - PartOffset = p
    BY <2>2, <2>4, <2>7
  <2> QED
    BY <2>5, <2>6, <2>7, <2>8 DEF Space!Sectors
<1> QED
  BY <1>6, <1>7, <1>8, <1>9 DEF InPartition

\* The ranges of the records of a batch.
LEMMA BatchBegins ==
    ASSUME NEW n \in Nat, NEW batch,
           \A k \in 1 .. n : batch[k] # None => batch[k].runs \in Seq(Run) /\ RunsFit(batch[k].runs),
           NEW s, s = FlattenSeq([ k \in 1 .. n |-> EntryRanges(batch[k]) ])
    PROVE  s \in Seq(ByteRange) /\ InPartition(s)
<1> DEFINE q == [ k \in 1 .. n |-> EntryRanges(batch[k]) ]
<1>1. ASSUME NEW k \in 1 .. n
      PROVE  EntryRanges(batch[k]) \in Seq(ByteRange) /\ InPartition(EntryRanges(batch[k]))
  <2>1. CASE batch[k] = None
    BY <2>1 DEF EntryRanges, InPartition, ElementsOf
  <2>2. CASE batch[k] # None
    BY <2>2, RunsBegin DEF EntryRanges
  <2> QED
    BY <2>1, <2>2
<1>2. q \in Seq(Seq(ByteRange)) /\ Len(q) = n /\ \A k \in 1 .. n : q[k] = EntryRanges(batch[k])
  <2>1. q \in [1 .. n -> Seq(ByteRange)]
    BY <1>1
  <2> QED
    BY <2>1
<1> HIDE DEF q
<1>3. /\ s \in Seq(ByteRange)
      /\ ElementsOf(s) = UNION { ElementsOf(q[k]) : k \in 1 .. n }
  BY <1>2, FlattenIs DEF q
<1> QED
  BY <1>1, <1>2, <1>3 DEF InPartition

\* What the refinement rests on besides IInv: the list has given up what precedes
\* the data area, and the sweep and the ranges keep to the partition.
PlaceInv ==
    /\ pc \in { "sweep", "entries", "advance", "dir", "walk", "file", "overrun" } =>
          PartOffset \notin Bytes(list_search_space)
    /\ pc \in { "sweep", "entries", "advance" } => sweep.end < PartOffset + PartSize
    /\ Ntfs => InPartition(mft.ranges)

\* A step of the NTFS pass: one range is taken out, or nothing.
LEMMA NtfsSpace ==
    ASSUME PartitionOnDisk, VolumesFit, SharedInv, NtfsInv, PlaceInv, Ntfs, NtfsStep
    PROVE  InPartition(mft'.ranges) /\ (SpaceStep \/ UNCHANGED Space!vars)
<1>0. EntriesInv /\ RangesInv /\ InPartition(mft.ranges) /\ ~ Fat /\ volume \in Volumes
  BY VolumeIs DEF NtfsInv, PlaceInv, SharedInv
<1>1. /\ mft \in MftState /\ mft.ranges \in Seq(ByteRange)
      /\ volume.mft_runs \in Seq(Run) /\ volume.records \in Seq(MftRecord \cup { None })
      /\ RunsFit(volume.mft_runs)
      /\ \A i \in 1 .. Len(volume.records) :
            volume.records[i] # None => RunsFit(parse_mapping_pairs(volume.records[i].pairs))
  <2>1. mft \in MftState /\ mft.ranges \in Seq(ByteRange)
    BY <1>0 DEF EntriesInv, MftState
  <2>2. volume.mft_runs \in Seq(Run) /\ volume.records \in Seq(MftRecord \cup { None })
    BY <1>0, VolumeIs DEF IsNtfs
  <2> QED
    BY <1>0, <2>1, <2>2 DEF VolumesFit, Ntfs
<1>2. ASSUME UNCHANGED << volume, list_search_space, used >> PROVE UNCHANGED Space!vars
  <2>1. ~ Refused /\ ~ Refused'
    BY <1>0, <1>2 DEF Refused, Fat
  <2> QED
    BY <1>2, <2>1, SpaceStays
<1>3. CASE open \/ PathPanics \/ EndOfRecords
  BY <1>0, <1>2, <1>3 DEF open, PathPanics, EndOfRecords
<1>4. CASE ReadBatch
  <2>1. PICK n : n = IF Len(volume.records) - mft.next < Batch
                       THEN Len(volume.records) - mft.next ELSE Batch
    OBVIOUS
  <2>2. PICK batch : batch = [ k \in 1 .. n |->
                         parse_mft_record(volume.records[mft.next + k], mft.next + k - 1) ]
    OBVIOUS
  <2>3. PICK more : more = FlattenSeq([ k \in 1 .. n |-> EntryRanges(batch[k]) ])
    OBVIOUS
  <2>4. /\ mft.next < Len(volume.records)
        /\ mft' = [ mft EXCEPT !.entries = @ \o batch, !.next = @ + n, !.ranges = @ \o more ]
        /\ UNCHANGED << volume, list_search_space, used >>
    BY <1>4, <2>1, <2>2, <2>3, Zenon DEF ReadBatch, unformat
  <2>5. PICK m \in Nat : m = mft.next
    BY <1>1 DEF MftState
  <2>6. PICK records : records = volume.records
    OBVIOUS
  <2>7. n \in Nat /\ m + n <= Len(records)
    <3>1. Batch \in Nat /\ Len(records) \in Nat /\ m < Len(records)
      BY <1>1, <2>4, <2>5, <2>6, NtfsAssumption
    <3> QED
      BY <2>1, <2>5, <2>6, <3>1
  <2>8. ASSUME NEW k \in 1 .. n, batch[k] # None
        PROVE  batch[k].runs \in Seq(Run) /\ RunsFit(batch[k].runs)
    <3>1. batch[k] = parse_mft_record(records[m + k], m + k - 1)
      BY <2>2, <2>5, <2>6
    <3>2. m + k \in 1 .. Len(records) /\ m + k - 1 \in Nat
      BY <1>1, <2>6, <2>7
    <3>3. records[m + k] \in MftRecord \cup { None }
      BY <1>1, <2>6, <3>2
    <3>4. batch[k] \in MftEntry
      BY <2>8, <3>1, <3>2, <3>3, RecordIs
    <3>5. records[m + k] # None
      BY <2>8, <3>1 DEF parse_mft_record
    <3>6. batch[k].runs = parse_mapping_pairs(records[m + k].pairs)
      BY <3>1, <3>5 DEF parse_mft_record
    <3>7. RunsFit(parse_mapping_pairs(records[m + k].pairs))
      BY <1>1, <2>6, <3>2, <3>5
    <3>8. batch[k].runs \in Seq(Run)
      BY <3>4 DEF MftEntry
    <3> QED
      BY <3>6, <3>7, <3>8
  <2>9. more \in Seq(ByteRange) /\ InPartition(more)
    BY <2>3, <2>7, <2>8, BatchBegins
  <2>10. PICK ranges : ranges = mft.ranges \o more
    OBVIOUS
  <2>11. ElementsOf(ranges) = ElementsOf(mft.ranges) \cup ElementsOf(more)
    BY <1>1, <2>9, <2>10, ElementsConcat
  <2>12. mft'.ranges = ranges
    <3>1. PICK entries, next : mft' = [ mft EXCEPT !.entries = entries, !.next = next, !.ranges = ranges ]
      BY <2>4, <2>10, Zenon
    <3> QED
      BY <1>1, <3>1 DEF MftState
  <2>13. InPartition(ranges)
    BY <1>0, <2>9, <2>11 DEF InPartition
  <2> QED
    BY <1>2, <2>4, <2>12, <2>13
<1>5. CASE CollectRanges
  <2>1. PICK more : more = RangesOf(volume.mft_runs)
    OBVIOUS
  <2>2. PICK all : all = mft.ranges \o more
    OBVIOUS
  <2>3. PICK ranges : ranges = merge_ranges(all)
    OBVIOUS
  <2>4. /\ mft' = [ mft EXCEPT !.next = 1, !.ranges = ranges ]
        /\ UNCHANGED << volume, list_search_space, used >>
    BY <1>5, <2>1, <2>2, <2>3, Zenon DEF CollectRanges
  <2>5. more \in Seq(ByteRange) /\ InPartition(more)
    BY <1>1, <2>1, RunsBegin
  <2>6. all \in Seq(ByteRange) /\ ElementsOf(all) = ElementsOf(mft.ranges) \cup ElementsOf(more)
    BY <1>1, <2>2, <2>5, ElementsConcat
  <2>7. InPartition(all)
    BY <1>0, <2>5, <2>6 DEF InPartition
  <2>8. InPartition(ranges)
    BY <2>3, <2>6, <2>7, MergedBegins DEF InPartition
  <2>9. mft'.ranges = ranges
    BY <1>1, <2>4 DEF MftState
  <2> QED
    BY <1>2, <2>4, <2>8, <2>9
<1>6. CASE RecoverRecord \/ RecoverFails
  <2>1. /\ UNCHANGED << volume, list_search_space, used >>
        /\ \/ \E next, files : mft' = [ mft EXCEPT !.next = next, !.files = files ]
           \/ \E next, failed : mft' = [ mft EXCEPT !.next = next, !.failed = failed ]
    BY <1>6, Zenon DEF RecoverRecord, RecoverFails
  <2>2. mft'.ranges = mft.ranges
    BY <1>1, <2>1 DEF MftState
  <2> QED
    BY <1>0, <1>2, <2>1, <2>2
<1>7. CASE mark_used_ranges
  <2>1. CASE mft.ranges = << >>
    BY <1>0, <1>2, <1>7, <2>1 DEF mark_used_ranges
  <2>2. CASE mft.ranges # << >>
    <3>1. PICK r : r = Head(mft.ranges)
      OBVIOUS
    <3>2. PICK rest : rest = Tail(mft.ranges)
      OBVIOUS
    <3>3. /\ pc = "mark" /\ UNCHANGED << volume, pc >>
          /\ TakeOut(r.offset, r.offset + r.size - 1)
          /\ mft' = [ mft EXCEPT !.ranges = rest ]
      BY <1>7, <2>2, <3>1, <3>2 DEF mark_used_ranges
    <3>4. ElementsOf(mft.ranges) = ElementsOf(rest) \cup { r }
      BY <1>1, <2>2, <3>1, <3>2, HeadAndTail
    <3>5. InPartition(rest) /\ r.offset \in Space!Sectors(PartOffset, PartSize)
      BY <1>0, <3>4 DEF InPartition
    <3>6. mft'.ranges = rest
      BY <1>1, <3>3 DEF MftState
    <3>7. /\ Ntfs' /\ ~ GeometryUsed /\ ~ GeometryUsed' /\ ~ Refused /\ ~ Refused'
      BY <1>0, <3>3 DEF Ntfs, Fat, GeometryUsed, Refused
    <3>8. Space!del_search_space(list_search_space, r.offset, r.offset + r.size - 1)
            = del_search_space(list_search_space, r.offset, r.offset + r.size - 1)
      BY SameDel
    <3>9. Space!kaifuku_mark_used_ranges(r.offset, r.size)
      BY <3>3, <3>7, <3>8 DEF Space!kaifuku_mark_used_ranges, TakeOut
    <3> QED
      BY <2>2, <3>1, <3>3, <3>5, <3>6, <3>9 DEF SpaceStep
  <2> QED
    BY <2>1, <2>2
<1> QED
  BY <1>3, <1>4, <1>5, <1>6, <1>7 DEF NtfsStep

\* The geometry of the search for directories comes into use, or is refused.
LEMMA GeometrySpace ==
    ASSUME PartitionOnDisk, VolumesFit, SharedInv, FatInv, Fat, Geometry
    PROVE  /\ SpaceStep \/ UNCHANGED Space!vars
           /\ pc' # "done" => /\ PartOffset \notin Bytes(list_search_space')
                              /\ sweep'.end < PartOffset + PartSize
<1>f. /\ PartOffset \in Nat /\ Cluster \in Nat /\ Cluster > 1 /\ WindowClusters \in Nat
      /\ ~ Ntfs /\ start_data \in Nat \cup { None } /\ None \notin Nat
  BY SweepFacts
<1>1. /\ pc = "geometry" /\ UNCHANGED << volume, used >>
      /\ list_search_space = Whole /\ used = {} /\ sweep \in SweepState
  BY DEF Geometry, SharedInv, FatInv, SweepInv
<1>2. ~ GeometryUsed /\ ~ Refused
  BY <1>1, GeometryUsedIs DEF Refused
<1>3. UNCHANGED start_data /\ (Fat' <=> Fat) /\ (Ntfs' <=> Ntfs) /\ start_data = volume.start_data
  BY <1>1 DEF start_data, Fat, Ntfs
<1>4. CASE start_data = None
  <2>1. pc' = "done" /\ UNCHANGED list_search_space
    BY <1>4 DEF Geometry
  <2>2. ~ Refused'
    BY <1>3, <1>4 DEF Refused
  <2> QED
    BY <1>1, <1>2, <2>1, <2>2, SpaceStays
<1>5. CASE start_data # None /\ start_data \div SectorSize <= PartOffset
  <2>1. pc' = "done" /\ UNCHANGED list_search_space
    BY <1>5 DEF Geometry
  <2>2. ~ GeometryUsed'
    BY <1>1, <2>1, GeometryUsedIs
  <2>3. Refused'
    BY <1>3, <1>5, <2>1, <2>2 DEF Refused
  <2>4. Space!fat_unformat(start_data)
    <3>1. PICK start : start = start_data /\ start' = start_data'
      BY <1>3
    <3> QED
      BY <1>f, <1>1, <1>2, <1>3, <1>5, <2>1, <2>2, <2>3 DEF Space!fat_unformat, Space!NotRefused
  <2> QED
    BY <1>1, <1>5, <2>1, <2>4 DEF SpaceStep
<1>6. CASE ~ (start_data = None \/ start_data \div SectorSize <= PartOffset)
  <2>1. PICK start \in Nat : start = start_data
    BY <1>f, <1>6
  <2>2. start > PartOffset
    <3>1. SectorSize \in Nat /\ SectorSize > 0
      BY VolumeSizesAssumption
    <3>2. PICK k \in Int, m \in 0 .. SectorSize - 1 :
            k = start \div SectorSize /\ start = SectorSize * k + m
      BY <3>1, DivMod
    <3>3. k > PartOffset
      BY <1>f, <1>6, <2>1, <3>2
    <3>4. SectorSize * k >= k
      BY <1>f, <3>1, <3>2, <3>3
    <3> QED
      BY <1>f, <3>1, <3>2, <3>3, <3>4
  <2>3. PICK l0 : l0 = del_search_space(list_search_space, PartOffset, start - 1)
    OBVIOUS
  <2>4. PICK l : l = update_blocksize(l0, Cluster, start)
    OBVIOUS
  <2>5. /\ list_search_space' = l
        /\ IF l = << >> THEN pc' = "done" /\ UNCHANGED sweep
           ELSE /\ sweep' = [ sweep EXCEPT !.offset = l[1].start, !.end = l[Len(l)].end,
                                           !.buffer = l[1].start ]
                /\ pc' = "sweep"
    BY <1>6, <2>1, <2>3, <2>4, Zenon DEF Geometry
  <2>6. list_search_space' = update_blocksize(
            del_search_space(list_search_space, PartOffset, start - 1), Cluster, start)
    BY <2>3, <2>4, <2>5
  <2>7. /\ PartOffset \notin Bytes(list_search_space')
        /\ ~ GeometryUsed /\ GeometryUsed' /\ ~ Refused' /\ Space!UseGeometry(start)
    BY <1>f, <1>1, <1>3, <2>1, <2>2, <2>6, GeometryTaken
  <2>8. Space!fat_unformat(start)
    <3>1. ~ (start \div SectorSize <= PartOffset) /\ start > PartOffset
      BY <1>6, <2>1, <2>2
    <3> QED
      BY <1>f, <1>1, <1>2, <1>3, <2>7, <3>1 DEF Space!fat_unformat, Space!NotRefused
  <2>9. SpaceStep
    BY <1>1, <1>6, <2>1, <2>8 DEF SpaceStep
  <2>10. ASSUME l # << >> PROVE sweep'.end < PartOffset + PartSize
    <3>1. PICK end \in Nat : end = PartOffset + PartSize - 1
      BY VolumeSizesAssumption
    <3>2. PICK last \in Int : last = start - 1
      OBVIOUS
    <3>3. l0 \in Ordered /\ Bytes(l0) = (PartOffset .. end) \ (PartOffset .. last)
      <4>1. l0 = del_search_space(Whole, PartOffset, last)
        BY <1>1, <2>3, <3>2
      <4>2. Whole \in Ordered /\ Bytes(Whole) = PartOffset .. end
        BY <3>1, WholeIs
      <4>3. l0 \in Ordered /\ Bytes(l0) = Bytes(Whole) \ (PartOffset .. last)
        BY <1>f, <4>1, <4>2, DelBytes
      <4> QED
        BY <4>2, <4>3
    <3>4. Bytes(l0) = start .. end
      BY <1>f, <2>2, <3>2, <3>3
    <3>5. PICK z : z = RoundUp(end + 1, Cluster, start % Cluster)
      OBVIOUS
    <3>6. l \in Ordered /\ Bytes(l) = start .. z - 1
      BY <1>f, <2>4, <3>3, <3>4, <3>5, GeometryOK
    <3>7. z = end + 1
      <4>1. (PartOffset + PartSize - start) % Cluster = 0
        <5>1. volume \in Volumes /\ volume.fs = "fat" /\ volume.start_data # None
          BY <1>3, <1>6 DEF SharedInv, Fat
        <5>2. (PartOffset + PartSize - volume.start_data) % Cluster = 0
          BY <5>1 DEF VolumesFit
        <5> QED
          BY <1>3, <2>1, <5>2
      <4>2. PICK a \in Int : a = end + 1 /\ a = PartOffset + PartSize
        BY <3>1, VolumeSizesAssumption
      <4>3. (a - start) % Cluster = 0
        <5>1. a = PartOffset + PartSize
          BY <4>2
        <5>2. PICK b : b = PartOffset + PartSize - start
          OBVIOUS
        <5>3. b = a - start
          BY <5>1, <5>2, VolumeSizesAssumption
        <5>4. b % Cluster = 0
          BY <4>1, <5>2
        <5> QED
          BY <5>3, <5>4
      <4>4. RoundUp(a, Cluster, start % Cluster) = a
        BY <1>f, <4>3, RoundUpFits
      <4> QED
        BY <3>5, <4>2, <4>4
    <3>8. Bytes(l) = start .. end
      BY <3>6, <3>7
    <3>9. l[Len(l)].end = end
      BY <2>10, <3>6, <3>8, EndsOf
    <3>10. sweep'.end = end
      BY <1>1, <2>5, <2>10, <3>9 DEF SweepState
    <3> QED
      BY <3>1, <3>10, VolumeSizesAssumption
  <2> QED
    BY <2>5, <2>7, <2>9, <2>10
<1> QED
  BY <1>4, <1>5, <1>6

\* A cluster is looked at, and taken out with the directory it holds.
LEMMA LookAtSpace ==
    ASSUME PartitionOnDisk, SharedInv, FatInv, PlaceInv, Fat, LookAt
    PROVE  /\ SpaceStep \/ UNCHANGED Space!vars
           /\ PartOffset \notin Bytes(list_search_space') /\ sweep'.end < PartOffset + PartSize
<1>f. /\ PartOffset \in Nat /\ PartSize \in Nat /\ Cluster \in Nat /\ Cluster > 1 /\ ~ Ntfs
  BY SweepFacts, VolumeSizesAssumption
<1>1. /\ pc = "sweep" /\ sweep.offset < sweep.end /\ UNCHANGED << volume, recovered >>
      /\ pc' \in { "advance", "entries" }
  BY DEF LookAt
<1>2. /\ sweep \in SweepState /\ start_data \in Nat /\ start_data > PartOffset
      /\ \E m \in Nat \ {0} : sweep.end + 1 = start_data + m * Cluster
      /\ PartOffset \notin Bytes(list_search_space) /\ sweep.end < PartOffset + PartSize
  BY <1>1 DEF FatInv, SweepInv, PlaceInv
<1>3. PICK j \in Nat : AtCluster(j)
  BY <1>1 DEF FatInv, SweepInv
<1>4. PICK dir : dir = IF is_fat_directory(cluster_at(Examined)) THEN dir_fat_aux(cluster_at(Examined))
                       ELSE << >>
  OBVIOUS
<1>5. /\ sweep' = [ sweep EXCEPT !.dir = dir, !.nbr = 0, !.dir_inode = 0,
                                 !.examined = @ \cup { Examined } ]
      /\ IF dir = << >> THEN UNCHANGED << list_search_space, used >>
         ELSE TakeOut(sweep.offset, sweep.offset + Cluster - 1)
  BY <1>4, Zenon DEF LookAt
<1>6. sweep'.end = sweep.end
  BY <1>2, <1>5 DEF SweepState
<1>7. CASE dir = << >>
  <2>1. ~ Refused /\ ~ Refused'
    BY <1>1 DEF Refused
  <2> QED
    BY <1>1, <1>2, <1>5, <1>6, <1>7, <2>1, SpaceStays
<1>8. CASE dir # << >>
  <2>1. PICK start \in Nat : start = start_data /\ start = volume.start_data /\ start > PartOffset
    BY <1>2 DEF start_data
  <2>2. PICK first \in Nat : first = sweep.offset
    BY <1>2 DEF SweepState
  <2>3. PICK k \in Int : first = start + k * Cluster
    <3>1. PICK p \in Nat : p = j * Cluster
      BY <1>f
    <3>2. (j + 1) * Cluster = p + Cluster
      BY <1>f, <3>1
    <3>3. first = start + p \/ first = start + p + Cluster
      BY <1>3, <2>1, <2>2, <3>1 DEF AtCluster
    <3>4. CASE first = start + p
      BY <3>1, <3>4
    <3>5. CASE first = start + p + Cluster
      <4>1. j + 1 \in Int /\ first = start + (j + 1) * Cluster
        BY <1>f, <3>2, <3>5
      <4> QED
        BY <4>1
    <3> QED
      BY <3>3, <3>4, <3>5
  <2>4. PICK m \in Nat \ {0} : sweep.end + 1 = start + m * Cluster
    BY <1>2, <2>1
  <2>5. PICK last \in Int : last = first + Cluster - 1
    BY <1>f
  <2>6. last < PartOffset + PartSize
    <3>1. PICK e \in Nat : e = sweep.end
      BY <1>2 DEF SweepState
    <3>2. PICK a \in Int : a = k * Cluster
      BY <1>f
    <3>3. PICK b \in Int : b = m * Cluster
      BY <1>f
    <3>5. first = start + a /\ e + 1 = start + b /\ first < e
      BY <1>1, <2>2, <2>3, <2>4, <3>1, <3>2, <3>3
    <3>6. a < b
      BY <3>5
    <3>8. a + Cluster <= b
      BY <1>f, <3>2, <3>3, <3>6, NextMultiple
    <3>9. last <= e
      BY <1>f, <2>5, <3>5, <3>8
    <3> QED
      BY <1>f, <1>2, <3>1, <3>9
  <2>7. TakeOut(first, last)
    BY <1>5, <1>8, <2>2, <2>5
  <2>8. 1 \in Nat /\ last = first + 1 * Cluster - 1 /\ start \in Nat \ { 0 }
    BY <1>f, <2>1, <2>5
  <2>9. TakesOut(first, 1) /\ PartOffset \notin Bytes(list_search_space')
    BY <1>f, <1>1, <1>2, <2>1, <2>3, <2>6, <2>7, <2>8, TakesOutIs DEF SharedInv
  <2> QED
    BY <1>1, <1>2, <1>6, <2>2, <2>9 DEF SpaceStep
<1> QED
  BY <1>7, <1>8

\* The clusters of a file are taken out with it, or nothing is.
LEMMA NextEntrySpace ==
    ASSUME PartitionOnDisk, SharedInv, FatInv, PlaceInv, Fat, NextEntry
    PROVE  /\ SpaceStep \/ UNCHANGED Space!vars
           /\ PartOffset \notin Bytes(list_search_space') /\ sweep'.end < PartOffset + PartSize
<1>f. /\ PartOffset \in Nat /\ PartSize \in Nat /\ Cluster \in Nat /\ Cluster > 1 /\ ~ Ntfs
  BY SweepFacts, VolumeSizesAssumption
<1>1. PICK e : e = Head(sweep.dir)
  OBVIOUS
<1>2. PICK stop : stop = Implausible(e)
  OBVIOUS
<1>3. PICK rest : rest = IF stop THEN << >> ELSE Tail(sweep.dir)
  OBVIOUS
<1>4. PICK ino : ino = IF ~ stop /\ e.name = "." THEN e.ino ELSE sweep.dir_inode
  OBVIOUS
<1>5. PICK nbr : nbr = sweep.nbr + 1
  OBVIOUS
<1>6. /\ pc = "entries"
      /\ \E cut : sweep' = [ sweep EXCEPT !.dir = rest, !.nbr = nbr, !.cut = cut, !.dir_inode = ino ]
      /\ pc' = IF rest = << >> THEN "advance" ELSE "entries"
      /\ \/ e.kind = "file" /\ ~ stop /\ TakeOut(file_start(e), file_end(e))
         \/ UNCHANGED << list_search_space, used >>
      /\ UNCHANGED << volume, need_to_stop >>
  BY <1>1, <1>2, <1>3, <1>4, <1>5, Zenon DEF NextEntry
<1>7. /\ sweep \in SweepState /\ sweep.dir # << >>
      /\ start_data \in Nat /\ start_data > PartOffset
      /\ PartOffset \notin Bytes(list_search_space) /\ sweep.end < PartOffset + PartSize
  BY <1>6 DEF FatInv, SweepInv, PlaceInv
<1>8. sweep'.end = sweep.end
  BY <1>6, <1>7 DEF SweepState
<1>9. CASE UNCHANGED << list_search_space, used >>
  <2>1. pc' # "done" /\ pc # "done"
    BY <1>6
  <2>2. ~ Refused /\ ~ Refused'
    BY <2>1 DEF Refused
  <2> QED
    BY <1>6, <1>7, <1>8, <1>9, <2>2, SpaceStays
<1>10. CASE e.kind = "file" /\ ~ stop /\ TakeOut(file_start(e), file_end(e))
  <2>1. e \in DirectoryEntry
    <3>1. sweep.dir \in Seq(DirectoryEntry)
      BY <1>7 DEF SweepState
    <3> QED
      BY <1>1, <1>7, <3>1, TailIs
  <2>2. PICK c \in Nat, size \in Nat : c = e.ino /\ size = e.size
    BY <2>1 DEF DirectoryEntry
  <2>3. c # 0 /\ c # 1 /\ ~ (file_end(e) >= PartOffset + PartSize)
    BY <1>2, <1>10, <2>2 DEF Implausible
  <2>4. PICK start \in Nat : start = start_data /\ start = volume.start_data /\ start > PartOffset
    BY <1>7 DEF start_data
  <2>5. PICK k \in Nat : k = c - 2
    BY <2>2, <2>3
  <2>6. PICK p \in Nat : p = k * Cluster
    BY <1>f
  <2>7. PICK first \in Nat : first = start + p
    OBVIOUS
  <2>8. file_start(e) = first
    BY <2>2, <2>4, <2>5, <2>6, <2>7 DEF file_start, cluster_address
  <2>9. PICK bytes \in Nat : bytes = size * Cluster
    BY <1>f
  <2>10. PICK last \in Int : last = first + bytes - 1
    OBVIOUS
  <2>11. file_end(e) = last
    BY <2>2, <2>8, <2>9, <2>10 DEF file_end
  <2>12. last < PartOffset + PartSize
    BY <1>f, <2>3, <2>11
  <2>13. TakeOut(first, last)
    BY <1>10, <2>8, <2>11
  <2>14. PICK i \in Int : i = k
    OBVIOUS
  <2>15. TakesOut(first, size) /\ PartOffset \notin Bytes(list_search_space')
    <3>1. first = start + i * Cluster /\ last = first + size * Cluster - 1 /\ start \in Nat \ { 0 }
      BY <1>f, <2>4, <2>6, <2>7, <2>9, <2>10, <2>14
    <3>2. list_search_space \in Ordered /\ UNCHANGED volume
      BY <1>6 DEF SharedInv
    <3> QED
      BY <1>f, <1>7, <2>4, <2>12, <2>13, <3>1, <3>2, TakesOutIs
  <2>16. SpaceStep
    <3>1. file_start(Head(sweep.dir)) = first /\ Head(sweep.dir).size = size
      BY <1>1, <2>2, <2>8
    <3>2. TakesOut(file_start(Head(sweep.dir)), Head(sweep.dir).size)
      BY <2>15, <3>1
    <3> QED
      BY <1>6, <3>2 DEF SpaceStep
  <2> QED
    BY <1>7, <1>8, <2>15, <2>16
<1> QED
  BY <1>6, <1>9, <1>10

\* The search goes on or ends.
LEMMA SweepGoesOn ==
    ASSUME PartitionOnDisk, SharedInv, FatInv, PlaceInv, Fat, Advance \/ SweepEnds
    PROVE  /\ UNCHANGED Space!vars
           /\ PartOffset \notin Bytes(list_search_space') /\ sweep'.end < PartOffset + PartSize
<1>1. /\ pc \in { "advance", "sweep" } /\ UNCHANGED << volume, list_search_space, used >>
  BY DEF Advance, SweepEnds
<1>2. /\ sweep \in SweepState
      /\ PartOffset \notin Bytes(list_search_space) /\ sweep.end < PartOffset + PartSize
  BY <1>1 DEF FatInv, SweepInv, PlaceInv
<1>3. sweep'.end = sweep.end
  BY <1>2 DEF Advance, SweepEnds, Refill, SweepState
<1>4. ~ Refused /\ ~ Refused'
  <2>1. ~ Ntfs /\ ~ Ntfs'
    BY <1>1, SweepFacts DEF Ntfs
  <2>2. list_search_space # Whole /\ list_search_space' # Whole
    BY <1>1, <1>2, NotWhole
  <2>3. GeometryUsed /\ GeometryUsed'
    BY <2>1, <2>2, GeometryUsedIs
  <2> QED
    BY <2>3 DEF Refused
<1> QED
  BY <1>1, <1>2, <1>3, <1>4, SpaceStays

\* The walk begins with the geometry of the boot sector, unless it is refused.
LEMMA BootSpace ==
    ASSUME PartitionOnDisk, SharedInv, Tree, kf_fat_boot_geometry
    PROVE  /\ SpaceStep \/ UNCHANGED Space!vars
           /\ pc' # "done" => PartOffset \notin Bytes(list_search_space')
<1>f. /\ PartOffset \in Nat /\ PartSize \in Nat /\ ~ Ntfs /\ ~ Fat /\ volume.start_data \in Nat
      /\ volume.start_data \in PartOffset + 1 .. PartOffset + PartSize - 1
  BY WalkFacts, VolumeSizesAssumption
<1>1. pc = "boot" /\ UNCHANGED << volume, used >> /\ list_search_space = Whole
  BY DEF kf_fat_boot_geometry, SharedInv
<1>2. ~ Refused /\ ~ Refused' /\ ~ Ntfs'
  BY <1>f, <1>1 DEF Refused, Fat, Ntfs
<1>3. CASE ~ volume.opens
  <2>1. pc' = "done" /\ UNCHANGED list_search_space
    BY <1>3 DEF kf_fat_boot_geometry
  <2> QED
    BY <1>1, <1>2, <2>1, SpaceStays
<1>4. CASE volume.opens
  <2>1. PICK start \in Nat : start = volume.start_data
    BY <1>f
  <2>2. start > PartOffset /\ start < PartOffset + PartSize /\ PartOffset < start
    BY <1>f, <2>1
  <2>3. list_search_space' = update_blocksize(
            del_search_space(list_search_space, PartOffset, volume.start_data - 1),
            Cluster, volume.start_data)
    BY <1>4 DEF kf_fat_boot_geometry
  <2>4. list_search_space' = update_blocksize(
            del_search_space(list_search_space, PartOffset, start - 1), Cluster, start)
    BY <2>1, <2>3
  <2>5. /\ PartOffset \notin Bytes(list_search_space')
        /\ ~ GeometryUsed /\ GeometryUsed' /\ Space!UseGeometry(start)
    BY <1>f, <1>1, <2>1, <2>2, <2>4, GeometryTaken
  <2>6. Space!fat_unformat_dir(start)
    BY <1>f, <1>1, <1>2, <2>2, <2>5 DEF Space!fat_unformat_dir, Space!NotRefused
  <2>7. SpaceStep
    BY <1>1, <2>1, <2>6 DEF SpaceStep
  <2> QED
    BY <2>5, <2>7
<1> QED
  BY <1>3, <1>4

\* A cluster of the chain of a directory or of a file is taken out.
LEMMA ChainSpace ==
    ASSUME PartitionOnDisk, VolumesFit, SharedInv, WalkInv, PlaceInv, Tree,
           pc \in { "dir", "file" }, InData(tree.next), TakeOutCluster(tree.next), UNCHANGED volume
    PROVE  SpaceStep /\ PartOffset \notin Bytes(list_search_space')
<1>f. /\ PartOffset \in Nat /\ PartSize \in Nat /\ Cluster \in Nat /\ Cluster > 1 /\ ~ Ntfs
      /\ volume.start_data \in PartOffset + 1 .. PartOffset + PartSize - 1
      /\ UINT64 \in Nat /\ UINT64 > 0
  BY WalkFacts, VolumeSizesAssumption
<1>1. PICK start \in Nat : start = volume.start_data /\ start > PartOffset
  BY <1>f
<1>2. PICK left \in Int : left = ((PartSize - start) % UINT64) \div Cluster
  <2>1. PICK a \in Int : a = PartSize - start
    BY <1>f
  <2>2. PICK b \in Int : b = a % UINT64
    BY <1>f
  <2>3. b \div Cluster \in Int
    BY <1>f
  <2> QED
    BY <2>1, <2>2, <2>3
<1>3. start + (left + 1) * Cluster <= PartOffset + PartSize
  <2>1. volume \in Volumes /\ volume.fs = "fatdir"
    BY DEF SharedInv, Tree
  <2>2. volume.start_data + (((PartSize - volume.start_data) % UINT64) \div Cluster + 1) * Cluster
          <= PartOffset + PartSize
    BY <2>1 DEF VolumesFit
  <2> QED
    BY <1>1, <1>2, <2>2
<1>4. PICK c \in Nat : c = tree.next /\ c >= 2 /\ c <= left + 2
  <2>1. tree.next \in Nat
    BY DEF WalkInv, WalkState
  <2>2. last_cluster = left + 2
    BY <1>1, <1>2 DEF last_cluster
  <2> QED
    BY <2>1, <2>2 DEF InData
<1>5. PICK k \in Nat : k = c - 2 /\ k <= left
  BY <1>4
<1>6. PICK p \in Nat : p = k * Cluster
  BY <1>f
<1>7. PICK first \in Nat : first = start + p
  OBVIOUS
<1>8. FirstByte(tree.next) = first
  BY <1>1, <1>4, <1>5, <1>6, <1>7 DEF FirstByte
<1>9. PICK last \in Int : last = first + Cluster - 1
  BY <1>f
<1>10. last < PartOffset + PartSize
  <2>1. PICK m \in Nat : left = k + m
    <3>1. left - k \in Nat /\ left = k + (left - k)
      BY <1>5
    <3> QED
      BY <3>1
  <2>2. PICK q \in Nat : q = m * Cluster
    BY <1>f
  <2>3. (left + 1) * Cluster = p + q + Cluster
    BY <1>f, <1>6, <2>1, <2>2
  <2> QED
    BY <1>f, <1>3, <1>7, <1>9, <2>2, <2>3
<1>11. TakeOut(first, last)
  BY <1>8, <1>9 DEF TakeOutCluster
<1>12. PICK i \in Int, n \in Nat : i = k /\ n = 1
  OBVIOUS
<1>13. /\ first = start + i * Cluster /\ last = first + n * Cluster - 1
       /\ start \in Nat \ { 0 }
  BY <1>f, <1>1, <1>6, <1>7, <1>9, <1>12
<1>14. TakesOut(first, 1) /\ PartOffset \notin Bytes(list_search_space')
  <2>1. PartOffset \notin Bytes(list_search_space) /\ list_search_space \in Ordered
    BY DEF PlaceInv, SharedInv
  <2>2. TakesOut(first, n) /\ PartOffset \notin Bytes(list_search_space')
    BY <1>f, <1>1, <1>10, <1>11, <1>13, <2>1, TakesOutIs
  <2> QED
    BY <1>12, <2>2
<1>15. TakesOut(FirstByte(tree.next), 1)
  BY <1>8, <1>14
<1> QED
  BY <1>14, <1>15 DEF SpaceStep

\* A step of the walk: the geometry, one cluster, or nothing of the search space.
LEMMA WalkSpace ==
    ASSUME PartitionOnDisk, VolumesFit, SharedInv, WalkInv, PlaceInv, Tree, WalkStep
    PROVE  /\ SpaceStep \/ UNCHANGED Space!vars
           /\ pc' # "done" => PartOffset \notin Bytes(list_search_space')
<1>1. CASE kf_fat_boot_geometry
  BY <1>1, BootSpace
<1>2. CASE \/ ReadDirCluster /\ tree.left # 0
           \/ WriteCluster
  <2>1. /\ pc \in { "dir", "file" } /\ InData(tree.next) /\ TakeOutCluster(tree.next)
        /\ UNCHANGED volume
    BY <1>2 DEF ReadDirCluster, WriteCluster, InChain
  <2> QED
    BY <2>1, ChainSpace
<1>3. CASE /\ pc \in { "dir", "walk", "file" }
           /\ UNCHANGED << volume, list_search_space, used >>
  <2>1. ~ Refused /\ ~ Refused'
    BY <1>3, WalkFacts DEF Refused, Fat
  <2>2. PartOffset \notin Bytes(list_search_space)
    BY <1>3 DEF PlaceInv
  <2> QED
    BY <1>3, <2>1, <2>2, SpaceStays
<1>4. ReadDirCluster /\ tree.left = 0 => pc = "dir" /\ UNCHANGED << volume, list_search_space, used >>
  BY DEF ReadDirCluster
<1>5. EnterDirectory \/ CreateFile \/ PassOver \/ Return \/ StopWalk \/ WalkEnds
        => pc = "walk" /\ UNCHANGED << volume, list_search_space, used >>
  BY DEF EnterDirectory, CreateFile, PassOver, Return, StopWalk, WalkEnds, AtEntry, unformat
<1>6. WalkDirectory => pc = "dir" /\ UNCHANGED << volume, list_search_space, used >>
  BY DEF WalkDirectory
<1>7. FileWritten \/ NoSpace => pc = "file" /\ UNCHANGED << volume, list_search_space, used >>
  BY DEF FileWritten, NoSpace, CloseFile
<1> QED
  BY <1>1, <1>2, <1>3, <1>4, <1>5, <1>6, <1>7 DEF WalkStep

\* A step of the search for FAT directories.
LEMMA SweepSpace ==
    ASSUME PartitionOnDisk, VolumesFit, SharedInv, FatInv, PlaceInv, Fat, FatStep
    PROVE  /\ SpaceStep \/ UNCHANGED Space!vars
           /\ pc' # "done" => /\ PartOffset \notin Bytes(list_search_space')
                              /\ sweep'.end < PartOffset + PartSize
<1>1. Geometry \/ LookAt \/ NextEntry \/ (Advance \/ SweepEnds)
  BY DEF FatStep
<1> QED
  BY <1>1, GeometrySpace, LookAtSpace, NextEntrySpace, SweepGoesOn

\* The whole partition is to be carved when a pass begins.
LEMMA InitSpace ==
    ASSUME PartitionOnDisk, Init
    PROVE  PlaceInv /\ Space!Init
<1>1. /\ volume \in Volumes /\ list_search_space = Whole /\ used = {} /\ mft.ranges = << >>
      /\ pc \in { "open", "geometry", "boot" }
  <2>1. /\ volume \in Volumes /\ list_search_space = Whole /\ used = {} /\ mft.ranges = << >>
    BY DEF Init, UnformatInit, NtfsInit, Whole
  <2>2. Ntfs \/ Fat \/ Tree
    BY <2>1, VolumeIs
  <2>3. /\ Ntfs => pc = "open"
        /\ Fat => pc = "geometry"
        /\ Tree => pc = "boot"
    BY DEF Init, NtfsInit, FatInit, WalkInit, Ntfs, Fat, Tree
  <2> QED
    BY <2>1, <2>2, <2>3
<1>2. PlaceInv
  <2>1. PICK r : r = mft.ranges /\ r = << >>
    BY <1>1
  <2>2. InPartition(mft.ranges)
    BY <2>1 DEF InPartition, ElementsOf
  <2> QED
    BY <1>1, <2>2 DEF PlaceInv
<1>3. ~ GeometryUsed /\ ~ Refused
  BY <1>1, GeometryUsedIs DEF Refused
<1>4. Space!Partition = Whole
  BY SamePartition
<1>5. Space!Init
  BY <1>1, <1>3, <1>4 DEF Space!Init, Space!NotRefused
<1> QED
  BY <1>2, <1>5

\* Every step of a pass is one of SearchSpace or leaves the search space alone.
LEMMA StepSpace ==
    ASSUME PartitionOnDisk, VolumesFit
    PROVE  IInv /\ PlaceInv /\ IInv' /\ [Next]_vars => PlaceInv' /\ [SpaceStep]_(Space!vars)
<1> SUFFICES ASSUME IInv, PlaceInv, IInv', [Next]_vars
             PROVE  PlaceInv' /\ (SpaceStep \/ UNCHANGED Space!vars)
  OBVIOUS
<1>1. SharedInv /\ NtfsInv /\ FatInv /\ WalkInv /\ SharedInv'
  BY DEF IInv
<1>2. UNCHANGED volume
  BY <1>1, VolumeStays
<1>3. (Ntfs' <=> Ntfs) /\ (Fat' <=> Fat) /\ (Tree' <=> Tree)
  BY <1>2 DEF Ntfs, Fat, Tree
<1>4. /\ Ntfs => ~ Fat /\ ~ Tree
      /\ Fat => ~ Ntfs /\ ~ Tree
      /\ Tree => ~ Ntfs /\ ~ Fat
      /\ Ntfs \/ Fat \/ Tree
  BY <1>1, VolumeIs DEF SharedInv
<1>5. pc' \in (IF Ntfs THEN NtfsPC ELSE IF Fat THEN FatPC ELSE WalkPC)
  BY <1>1, <1>3 DEF SharedInv
<1>6. InPartition(mft.ranges)' <=> InPartition(mft'.ranges)
  BY DEF InPartition
<1>7. Bytes(list_search_space)' = Bytes(list_search_space')
  BY DEF Bytes
<1>8. CASE UNCHANGED << volume, pc, list_search_space, used, recovered, mft, sweep, tree >>
  <2>1. GeometryUsed' <=> GeometryUsed
    BY <1>3, <1>8, GeometryUsedIs
  <2>2. Refused' <=> Refused
    BY <1>3, <1>8, <2>1 DEF Refused, start_data
  <2>3. UNCHANGED Space!vars
    BY <1>8, <2>2, SpaceStays
  <2>4. mft'.ranges = mft.ranges /\ sweep'.end = sweep.end
    BY <1>8
  <2> QED
    BY <1>3, <1>6, <1>7, <1>8, <2>3, <2>4 DEF PlaceInv
<1>9. CASE NtfsStep
  <2>1. Ntfs
    BY <1>1, <1>9, PassIs
  <2>2. InPartition(mft'.ranges) /\ (SpaceStep \/ UNCHANGED Space!vars)
    BY <1>1, <1>9, <2>1, NtfsSpace
  <2>3. pc' \in { "open", "pass1", "pass2", "mark", "done", "caught" }
    BY <1>5, <2>1 DEF NtfsPC
  <2> QED
    BY <1>6, <2>2, <2>3 DEF PlaceInv
<1>10. CASE FatStep
  <2>1. Fat
    BY <1>1, <1>10, PassIs
  <2>2. /\ SpaceStep \/ UNCHANGED Space!vars
        /\ pc' # "done" => /\ PartOffset \notin Bytes(list_search_space')
                           /\ sweep'.end < PartOffset + PartSize
    BY <1>1, <1>10, <2>1, SweepSpace
  <2>3. ~ Ntfs'
    BY <1>3, <1>4, <2>1
  <2> QED
    BY <1>7, <2>2, <2>3 DEF PlaceInv
<1>11. CASE WalkStep
  <2>1. Tree
    BY <1>1, <1>11, PassIs
  <2>2. /\ SpaceStep \/ UNCHANGED Space!vars
        /\ pc' # "done" => PartOffset \notin Bytes(list_search_space')
    BY <1>1, <1>11, <2>1, WalkSpace
  <2>3. ~ Ntfs' /\ pc' \in { "boot", "dir", "walk", "file", "overrun", "done" }
    BY <1>3, <1>4, <1>5, <2>1 DEF WalkPC
  <2> QED
    BY <1>7, <2>2, <2>3 DEF PlaceInv
<1> QED
  BY <1>8, <1>9, <1>10, <1>11 DEF Next, Pass, kaifuku_stop, vars, unformat

\* What the passes take from the search space is what SearchSpace describes: for
\* every volume whose structures keep to the partition, each step of the passes of
\* ntfs.rs and fat_unformat.c is a step of the search space of photorec.c, or it
\* leaves it alone.
THEOREM PassRefines ==
    ASSUME PartitionOnDisk, VolumesFit
    PROVE  Spec => ImplementsSpace
<1>1. Init => PlaceInv /\ Space!Init
  BY InitSpace
<1>2. IInv /\ PlaceInv /\ IInv' /\ [Next]_vars => PlaceInv' /\ [SpaceStep]_(Space!vars)
  BY StepSpace
<1> QED
  BY <1>1, <1>2, Invariance, PTL DEF Spec, ImplementsSpace

-----------------------------------------------------------------------------
(* The tree of an NTFS volume *)

\* One step towards the root.
StepUp(m) == IF RECORD(m) = None THEN m ELSE RECORD(m).parent

\* It leads from a record on the disk to another number.
LEMMA StepUpType ==
    ASSUME volume.records \in Seq(MftRecord \cup { None }), NEW m \in Nat
    PROVE  /\ StepUp(m) \in Nat
           /\ RECORD(m) # None => /\ RECORD(m) \in MftRecord
                                  /\ m + 1 \in 1 .. Len(volume.records)
                                  /\ RECORD(m) = volume.records[m + 1]
<1>1. RECORD(m) = IF m + 1 \in DOMAIN volume.records THEN volume.records[m + 1] ELSE None
  BY DEF RECORD, Entry
<1>2. RECORD(m) # None => /\ RECORD(m) \in MftRecord
                          /\ m + 1 \in 1 .. Len(volume.records)
                          /\ RECORD(m) = volume.records[m + 1]
  BY <1>1
<1>3. RECORD(m) # None => RECORD(m).parent \in Nat
  BY <1>2 DEF MftRecord
<1> QED
  BY <1>2, <1>3 DEF StepUp

\* Above is the last of a chain of such steps.
LEMMA AboveChain ==
    ASSUME volume.records \in Seq(MftRecord \cup { None }), NEW r \in Nat, NEW n \in Nat
    PROVE  \E w : /\ w[0] = r /\ w[n] = Above(r, n)
                  /\ \A k \in 1 .. n : w[k] = StepUp(w[k - 1])
<1> DEFINE l == [ k \in 1 .. n |-> k ]
           F == [ p \in (1 .. n) \X Nat |-> StepUp(p[2]) ]
           Eq(g) == g = [ s \in SUBSET (DOMAIN l) |->
                           IF s = {} THEN r ELSE StepUp(g[s \ { Max(s) }]) ]
           c == CHOOSE g : Eq(g)
<1>1. Above(r, n) = c[DOMAIN l]
  BY DEF Above, FoldLeft, MapThenFoldSet, StepUp
<1>a. DOMAIN l = 1 .. n
  OBVIOUS
<1>2. \A i \in 1 .. n : \A m \in Nat : F[<< i, m >>] = StepUp(m)
  OBVIOUS
<1>3. F \in [(1 .. n) \X Nat -> Nat]
  BY StepUpType
<1> HIDE DEF F, l
<1>4. PICK g \in [SUBSET (1 .. n) -> Nat] : FoldEquation(g, n, r, F)
  BY <1>3, FoldExists
<1>5. ASSUME NEW s \in SUBSET (1 .. n)
      PROVE  g[s] = IF s = {} THEN r ELSE StepUp(g[s \ { Max(s) }])
  <2>1. g[s] = IF s = {} THEN r ELSE F[<< Max(s), g[s \ { Max(s) }] >>]
    BY <1>4 DEF FoldEquation
  <2>2. CASE s # {}
    <3>1. Max(s) \in s
      BY <2>2, MaxProperty
    <3>2. g[s \ { Max(s) }] \in Nat
      BY <1>4
    <3> QED
      BY <1>2, <2>1, <2>2, <3>1, <3>2
  <2> QED
    BY <2>1, <2>2
<1>6. Eq(g)
  BY <1>4, <1>5, <1>a
<1>7. Eq(c)
  BY <1>6
<1> HIDE DEF c
<1> DEFINE w == [ k \in 0 .. n |-> c[1 .. k] ]
<1>8. w[0] = r
  <2>1. 1 .. 0 = {} /\ {} \in SUBSET (DOMAIN l) /\ 0 \in 0 .. n
    BY <1>a
  <2> QED
    BY <1>7, <2>1
<1>9. ASSUME NEW k \in 1 .. n
      PROVE  w[k] = StepUp(w[k - 1])
  <2>1. Max(1 .. k) = k /\ 1 .. k # {} /\ (1 .. k) \ { k } = 1 .. (k - 1)
    <3>1. k \in Nat /\ k >= 1
      OBVIOUS
    <3> QED
      BY <3>1, UpTo
  <2>2. 1 .. k \in SUBSET (DOMAIN l)
    BY <1>a
  <2>3. k - 1 \in 0 .. n /\ k \in 0 .. n
    OBVIOUS
  <2> QED
    BY <1>7, <2>1, <2>2, <2>3
<1>10. w[n] = Above(r, n)
  BY <1>1, <1>a
<1> HIDE DEF w
<1> WITNESS w
<1> QED
  BY <1>8, <1>9, <1>10

\* Above(r, n), by steps.
LEMMA AboveIs ==
    ASSUME volume.records \in Seq(MftRecord \cup { None }), NEW r \in Nat
    PROVE  /\ Above(r, 0) = r
           /\ \A n \in Nat : Above(r, n) \in Nat /\ Above(r, n + 1) = StepUp(Above(r, n))
<1>1. Above(r, 0) = r
  <2>1. PICK w : w[0] = r /\ w[0] = Above(r, 0)
    BY AboveChain
  <2> QED
    BY <2>1
<1>2. ASSUME NEW n \in Nat PROVE Above(r, n) \in Nat /\ Above(r, n + 1) = StepUp(Above(r, n))
  <2>1. PICK w : /\ w[0] = r /\ w[n] = Above(r, n)
                 /\ \A k \in 1 .. n : w[k] = StepUp(w[k - 1])
    BY AboveChain
  <2>2. PICK m \in Nat : m = n + 1
    OBVIOUS
  <2>3. PICK v : /\ v[0] = r /\ v[m] = Above(r, m)
                 /\ \A k \in 1 .. m : v[k] = StepUp(v[k - 1])
    BY AboveChain
  <2> DEFINE T == { k \in 0 .. n : v[k] = w[k] /\ w[k] \in Nat }
  <2>4. 0 \in T
    BY <2>1, <2>3
  <2>5. ASSUME NEW k \in 1 .. n, k - 1 \in T PROVE k \in T
    <3>1. v[k - 1] = w[k - 1] /\ w[k - 1] \in Nat
      BY <2>5
    <3>2. w[k] = StepUp(w[k - 1]) /\ v[k] = StepUp(v[k - 1])
      BY <2>1, <2>2, <2>3
    <3>3. w[k] \in Nat
      BY <3>1, <3>2, StepUpType
    <3> QED
      BY <3>1, <3>2, <3>3
  <2>6. 0 .. n \subseteq T
    <3> HIDE DEF T
    <3> QED
      BY <2>4, <2>5, SetInduction
  <2>7. v[n] = w[n] /\ w[n] \in Nat
    BY <2>6
  <2>8. v[m] = StepUp(v[m - 1])
    BY <2>2, <2>3
  <2> QED
    BY <2>1, <2>2, <2>3, <2>7, <2>8
<1> QED
  BY <1>1, <1>2

\* The state of the loop of resolve_dir_path.
Climb == [ cur : Nat, parts : Seq(STRING), broken : BOOLEAN ]

Foot(record) == [ cur |-> record, parts |-> << >>, broken |-> FALSE ]

\* Where a turn of the loop leads: it has ended, fails or goes up.
LEMMA UpIs ==
    ASSUME NEW entries \in Seq(MftEntry \cup { None }), NEW s \in Climb,
           NEW e, e = Entry(entries, s.cur)
    PROVE  /\ Up(entries, s) \in Climb
           /\ s.broken \/ s.cur = Root => Up(entries, s) = s
           /\ ~ s.broken /\ s.cur # Root =>
                 IF e = None \/ e.name = "" \/ Contains(s.parts, e.name)
                   THEN Up(entries, s).broken
                   ELSE /\ e \in MftEntry /\ s.cur + 1 \in 1 .. Len(entries) /\ e = entries[s.cur + 1]
                        /\ Up(entries, s).parts = << e.name >> \o s.parts
                        /\ Up(entries, s).cur = e.parent /\ ~ Up(entries, s).broken
<1>1. s.cur \in Nat /\ s.parts \in Seq(STRING) /\ s.broken \in BOOLEAN
  BY DEF Climb
<1>2. e # None => e \in MftEntry /\ s.cur + 1 \in 1 .. Len(entries) /\ e = entries[s.cur + 1]
  BY <1>1 DEF Entry
<1>3. CASE s.broken \/ s.cur = Root
  BY <1>3 DEF Up
<1>4. CASE ~ (s.broken \/ s.cur = Root) /\ (e = None \/ e.name = "" \/ Contains(s.parts, e.name))
  <2>1. Up(entries, s) = [ s EXCEPT !.broken = TRUE ]
    BY <1>4, Zenon DEF Up
  <2> QED
    BY <1>4, <2>1 DEF Climb
<1>5. CASE ~ (s.broken \/ s.cur = Root) /\ ~ (e = None \/ e.name = "" \/ Contains(s.parts, e.name))
  <2>1. PICK name \in STRING, parent \in Nat : name = e.name /\ parent = e.parent
    BY <1>2, <1>5 DEF MftEntry
  <2>2. PICK parts \in Seq(STRING) : parts = << name >> \o s.parts
    <3>1. PICK one : one = << name >>
      OBVIOUS
    <3>2. one \in Seq(STRING)
      BY <3>1
    <3>3. PICK low \in Seq(STRING) : low = s.parts
      BY <1>1
    <3>4. one \o low \in Seq(STRING)
      BY <3>2
    <3> QED
      BY <3>1, <3>3, <3>4
  <2>3. Up(entries, s) = [ s EXCEPT !.parts = parts, !.cur = parent ]
    BY <1>5, <2>1, <2>2, Zenon DEF Up
  <2>4. PICK u : u = Up(entries, s)
    OBVIOUS
  <2>5. /\ DOMAIN u = { "cur", "parts", "broken" }
        /\ u.parts = parts /\ u.cur = parent /\ u.broken = s.broken
    BY <2>3, <2>4 DEF Climb
  <2>6. u \in Climb
    <3>1. u = [ cur |-> parent, parts |-> parts, broken |-> s.broken ]
      BY <2>3, <2>4 DEF Climb
    <3> QED
      BY <1>1, <3>1 DEF Climb
  <2> QED
    BY <1>2, <1>5, <2>1, <2>2, <2>4, <2>5, <2>6
<1> QED
  BY <1>3, <1>4, <1>5

\* resolve_dir_path is the last of a chain of such turns.
LEMMA ClimbChain ==
    ASSUME NEW entries \in Seq(MftEntry \cup { None }), NEW record \in Nat
    PROVE  \E w : /\ w[0] = Foot(record)
                  /\ \A k \in 0 .. MAX_PATH_DEPTH - 1 : w[k] \in Climb
                  /\ \A k \in 1 .. MAX_PATH_DEPTH - 1 : w[k] = Up(entries, w[k - 1])
                  /\ resolve_dir_path(entries, record) =
                        IF w[MAX_PATH_DEPTH - 1].cur = Root /\ ~ w[MAX_PATH_DEPTH - 1].broken
                          THEN w[MAX_PATH_DEPTH - 1].parts ELSE None
<1>n. PICK n \in Nat : n = MAX_PATH_DEPTH - 1
  BY NtfsAssumption
<1> DEFINE l == [ k \in 1 .. n |-> k ]
           F == [ p \in (1 .. n) \X Climb |-> Up(entries, p[2]) ]
           Eq(g) == g = [ s \in SUBSET (DOMAIN l) |->
                           IF s = {} THEN Foot(record) ELSE Up(entries, g[s \ { Max(s) }]) ]
           c == CHOOSE g : Eq(g)
<1>1. resolve_dir_path(entries, record) =
        IF c[DOMAIN l].cur = Root /\ ~ c[DOMAIN l].broken THEN c[DOMAIN l].parts ELSE None
  BY <1>n DEF resolve_dir_path, FoldLeft, MapThenFoldSet, Foot
<1>a. DOMAIN l = 1 .. n
  OBVIOUS
<1>0. Foot(record) \in Climb
  BY DEF Foot, Climb
<1>2. \A i \in 1 .. n : \A m \in Climb : F[<< i, m >>] = Up(entries, m)
  OBVIOUS
<1>3. F \in [(1 .. n) \X Climb -> Climb]
  <2>1. \A m \in Climb : Up(entries, m) \in Climb
    BY UpIs
  <2> QED
    BY <2>1
<1> HIDE DEF F, l
<1>4. PICK g \in [SUBSET (1 .. n) -> Climb] : FoldEquation(g, n, Foot(record), F)
  BY <1>0, <1>3, FoldExists
<1>5. ASSUME NEW s \in SUBSET (1 .. n)
      PROVE  g[s] = IF s = {} THEN Foot(record) ELSE Up(entries, g[s \ { Max(s) }])
  <2>1. g[s] = IF s = {} THEN Foot(record) ELSE F[<< Max(s), g[s \ { Max(s) }] >>]
    BY <1>4 DEF FoldEquation
  <2>2. CASE s # {}
    <3>1. Max(s) \in s
      BY <2>2, MaxProperty
    <3>2. g[s \ { Max(s) }] \in Climb
      BY <1>4
    <3> QED
      BY <1>2, <2>1, <2>2, <3>1, <3>2
  <2> QED
    BY <2>1, <2>2
<1>6. Eq(g)
  BY <1>4, <1>5, <1>a
<1>7. Eq(c)
  BY <1>6
<1> HIDE DEF c
<1> DEFINE w == [ k \in 0 .. n |-> c[1 .. k] ]
<1>8. w[0] = Foot(record)
  <2>1. 1 .. 0 = {} /\ {} \in SUBSET (DOMAIN l) /\ 0 \in 0 .. n
    BY <1>a
  <2> QED
    BY <1>7, <2>1
<1>9. ASSUME NEW k \in 1 .. n
      PROVE  w[k] = Up(entries, w[k - 1])
  <2>1. Max(1 .. k) = k /\ 1 .. k # {} /\ (1 .. k) \ { k } = 1 .. (k - 1)
    <3>1. k \in Nat /\ k >= 1
      OBVIOUS
    <3> QED
      BY <3>1, UpTo
  <2>2. 1 .. k \in SUBSET (DOMAIN l)
    BY <1>a
  <2>3. k - 1 \in 0 .. n /\ k \in 0 .. n
    OBVIOUS
  <2> QED
    BY <1>7, <2>1, <2>2, <2>3
<1>10. w[n] = c[DOMAIN l]
  BY <1>a
<1> HIDE DEF w
<1> DEFINE T == { k \in 0 .. n : w[k] \in Climb }
<1>11. 0 \in T
  BY <1>0, <1>8
<1>12. ASSUME NEW k \in 1 .. n, k - 1 \in T PROVE k \in T
  <2>1. w[k - 1] \in Climb /\ k \in 0 .. n
    BY <1>12
  <2>2. Up(entries, w[k - 1]) \in Climb
    BY <2>1, UpIs
  <2> QED
    BY <1>9, <2>1, <2>2
<1>13. 0 .. n \subseteq T
  <2> HIDE DEF T
  <2> QED
    BY <1>11, <1>12, SetInduction
<1>14. \A k \in 0 .. n : w[k] \in Climb
  BY <1>13
<1>15. resolve_dir_path(entries, record) = IF w[n].cur = Root /\ ~ w[n].broken THEN w[n].parts ELSE None
  BY <1>1, <1>10
<1> HIDE DEF T
<1> QED
  BY <1>n, <1>8, <1>9, <1>14, <1>15

\* The entry of a record on the disk has its name and its parent.
LEMMA EntryOf ==
    ASSUME SharedInv, Ntfs, EntriesInv, NEW n \in Nat, NEW e, e = Entry(mft.entries, n)
    PROVE  /\ volume.records \in Seq(MftRecord \cup { None })
           /\ e # None => /\ RECORD(n) # None /\ e.record = n
                          /\ e.name = RECORD(n).name /\ e.parent = RECORD(n).parent
                          /\ e.is_dir = RECORD(n).is_dir
           /\ Len(mft.entries) = Len(volume.records) /\ RECORD(n) # None => e # None
<1>1. volume.records \in Seq(MftRecord \cup { None })
  BY VolumeIs DEF SharedInv, IsNtfs
<1>2. mft.entries \in Seq(MftEntry \cup { None }) /\ Len(mft.entries) <= Len(volume.records)
  BY DEF EntriesInv, MftState
<1>3. PICK m \in Nat : m = n + 1
  OBVIOUS
<1>4. e = IF m \in 1 .. Len(mft.entries) THEN mft.entries[m] ELSE None
  BY <1>2, <1>3 DEF Entry
<1>5. RECORD(n) = IF m \in 1 .. Len(volume.records) THEN volume.records[m] ELSE None
  BY <1>1, <1>3 DEF RECORD, Entry
<1>6. CASE m \notin 1 .. Len(mft.entries)
  <2>1. e = None
    BY <1>4, <1>6
  <2>2. Len(mft.entries) = Len(volume.records) => RECORD(n) = None
    BY <1>5, <1>6
  <2> QED
    BY <1>1, <2>1, <2>2
<1>7. CASE m \in 1 .. Len(mft.entries)
  <2>1. PICK rec : rec = RECORD(n)
    OBVIOUS
  <2>2. rec = volume.records[m] /\ rec \in MftRecord \cup { None }
    BY <1>1, <1>2, <1>5, <1>7, <2>1
  <2>3. e = parse_mft_record(rec, n)
    BY <1>3, <1>4, <1>7, <2>2 DEF EntriesInv
  <2>4. CASE rec = None
    <3>1. e = None
      BY <2>3, <2>4, Zenon DEF parse_mft_record
    <3> QED
      BY <1>1, <2>1, <2>4, <3>1
  <2>5. CASE rec # None
    <3>1. PICK runs : runs = parse_mapping_pairs(rec.pairs)
      OBVIOUS
    <3>2. PICK data : data = IF rec.data \in { "runs", "compressed" } /\ runs = << >>
                               THEN "none" ELSE rec.data
      OBVIOUS
    <3>3. e = [ record |-> n, in_use |-> rec.in_use, is_dir |-> rec.is_dir,
                parent |-> rec.parent, name |-> rec.name, size |-> rec.size, runs |-> runs,
                data |-> data ]
      BY <2>3, <2>5, <3>1, <3>2, Zenon DEF parse_mft_record
    <3>4. e.record = n /\ e.name = rec.name /\ e.parent = rec.parent /\ e.is_dir = rec.is_dir
      BY <3>3
    <3>5. e \in MftEntry
      <4>1. rec \in MftRecord
        BY <2>2, <2>5
      <4>2. runs \in Seq(Run)
        BY <3>1, <4>1, PairsType DEF MftRecord
      <4>3. data \in { "none", "resident", "runs", "compressed" }
        BY <3>2, <4>1 DEF MftRecord
      <4> QED
        BY <3>3, <4>1, <4>2, <4>3 DEF MftRecord, MftEntry
    <3>6. e # None
      BY <3>5, VolumesAssumption
    <3> QED
      BY <1>1, <2>1, <2>5, <3>4, <3>6
  <2> QED
    BY <2>4, <2>5
<1> QED
  BY <1>1, <1>6, <1>7

\* The loop has gone up from record r to its m-th directory, and has the names of
\* those below that one.
ClimbedTo(r, s) ==
    LET m == Len(s.parts)
    IN  /\ s.cur = Above(r, m + 1)
        /\ \A j \in 1 .. m : RECORD(Above(r, j)) # None /\ Above(r, j) # Root
        /\ \A i \in 1 .. m : s.parts[i] = RECORD(Above(r, m + 1 - i)).name

\* A turn of the loop takes it one directory up, or breaks it.
LEMMA ClimbUp ==
    ASSUME SharedInv, Ntfs, EntriesInv, NEW r \in Nat, NEW s \in Climb,
           ~ s.broken, ClimbedTo(r, s), s.cur # Root,
           NEW t, t = Up(mft.entries, s), ~ t.broken
    PROVE  ClimbedTo(r, t) /\ Len(t.parts) = Len(s.parts) + 1
<1>1. /\ volume.records \in Seq(MftRecord \cup { None })
      /\ mft.entries \in Seq(MftEntry \cup { None })
  BY VolumeIs DEF SharedInv, IsNtfs, EntriesInv, MftState
<1>2. PICK e : e = Entry(mft.entries, s.cur)
  OBVIOUS
<1>3. s.cur \in Nat /\ s.parts \in Seq(STRING) /\ t \in Climb
  BY <1>1, UpIs DEF Climb
<1>4. ~ (e = None \/ e.name = "" \/ Contains(s.parts, e.name))
  BY <1>1, <1>2, UpIs
<1>5. e \in MftEntry /\ t.parts = << e.name >> \o s.parts /\ t.cur = e.parent
  BY <1>1, <1>2, <1>4, UpIs
<1>6. RECORD(s.cur) # None /\ e.name = RECORD(s.cur).name /\ e.parent = RECORD(s.cur).parent
  BY <1>2, <1>3, <1>4, EntryOf
<1>7. PICK m \in Nat : m = Len(s.parts)
  BY <1>3
<1>8. PICK k \in Nat : k = m + 1
  OBVIOUS
<1>9. /\ s.cur = Above(r, k)
      /\ \A j \in 1 .. m : RECORD(Above(r, j)) # None /\ Above(r, j) # Root
      /\ \A i \in 1 .. m : s.parts[i] = RECORD(Above(r, k - i)).name
  BY <1>7, <1>8 DEF ClimbedTo
<1>10. t.cur = Above(r, k + 1)
  <2>1. Above(r, k + 1) = StepUp(Above(r, k))
    BY <1>1, AboveIs
  <2> QED
    BY <1>5, <1>6, <1>9, <2>1 DEF StepUp
<1>11. PICK name \in STRING : name = e.name
  BY <1>5 DEF MftEntry
<1>12. Len(t.parts) = k /\ \A i \in 1 .. k : t.parts[i] = IF i = 1 THEN name ELSE s.parts[i - 1]
  <2>1. PICK one : one = << name >>
    OBVIOUS
  <2>2. one \in Seq(STRING) /\ Len(one) = 1 /\ one[1] = name
    BY <2>1
  <2>3. PICK low \in Seq(STRING) : low = s.parts
    BY <1>3
  <2>4. t.parts = one \o low
    BY <1>5, <1>11, <2>1, <2>3
  <2>5. PICK u : u = one \o low
    OBVIOUS
  <2>6. Len(u) = 1 + m /\ \A i \in 1 .. 1 + m : u[i] = IF i <= 1 THEN one[i] ELSE low[i - 1]
    <3>1. PICK o \in Nat : o = 1
      OBVIOUS
    <3>2. o = Len(one) /\ m = Len(low)
      BY <1>7, <2>2, <2>3, <3>1
    <3>3. Len(u) = o + m /\ \A i \in 1 .. o + m : u[i] = IF i <= o THEN one[i] ELSE low[i - o]
      <4>1. PICK S : S = STRING
        OBVIOUS
      <4>2. one \in Seq(S) /\ low \in Seq(S)
        BY <2>2, <4>1
      <4> QED
        BY <2>5, <3>2, <4>2, ConcatIs
    <3> QED
      BY <3>1, <3>3
  <2>7. 1 + m = k /\ t.parts = u
    BY <1>8, <2>4, <2>5
  <2>8. Len(u) = k /\ \A i \in 1 .. k : u[i] = IF i <= 1 THEN one[i] ELSE low[i - 1]
    BY <2>6, <2>7
  <2>9. ASSUME NEW i \in 1 .. k PROVE u[i] = IF i = 1 THEN name ELSE s.parts[i - 1]
    <3>1. CASE i = 1
      BY <2>2, <2>8, <3>1
    <3>2. CASE i # 1
      <4>1. ~ i <= 1
        BY <3>2
      <4> QED
        BY <2>3, <2>8, <3>2, <4>1
    <3> QED
      BY <3>1, <3>2
  <2> QED
    BY <2>7, <2>8, <2>9
<1>13. \A j \in 1 .. k : RECORD(Above(r, j)) # None /\ Above(r, j) # Root
  BY <1>6, <1>8, <1>9
<1>14. ASSUME NEW i \in 1 .. k PROVE t.parts[i] = RECORD(Above(r, k + 1 - i)).name
  <2>1. CASE i = 1
    <3>1. k + 1 - i = k
      BY <2>1
    <3> QED
      BY <1>6, <1>9, <1>11, <1>12, <2>1, <3>1
  <2>2. CASE i # 1
    <3>1. PICK j \in 1 .. m : j = i - 1
      BY <1>8, <2>2
    <3>2. k + 1 - i = k - j
      BY <3>1
    <3>3. t.parts[i] = s.parts[j]
      BY <1>12, <2>2, <3>1
    <3> QED
      BY <1>9, <3>2, <3>3
  <2> QED
    BY <2>1, <2>2
<1> QED
  BY <1>7, <1>8, <1>10, <1>12, <1>13, <1>14 DEF ClimbedTo

\* The directory of the entry e, at i, was resolved, and path is its own.
Resolved(i, e, dir, path) ==
    /\ e = mft.entries[i] /\ e # None
    /\ dir = resolve_dir_path(mft.entries, e.parent) /\ dir # None
    /\ path = Append(dir, e.name)

\* A path that was resolved has the names of the directories up to the root.
LEMMA PathUp ==
    ASSUME SharedInv, Ntfs, EntriesInv, NEW i \in 1 .. Len(mft.entries),
           NEW e, NEW dir, NEW path, Resolved(i, e, dir, path)
    PROVE  /\ dir \in Seq(STRING) /\ IsPathLength(i - 1, Len(path))
           /\ path = Names(i - 1, Len(path))
<1>0. /\ e = mft.entries[i] /\ e # None
      /\ dir = resolve_dir_path(mft.entries, e.parent) /\ dir # None
      /\ path = Append(dir, e.name)
  BY DEF Resolved
<1> USE <1>0
<1>1. /\ volume.records \in Seq(MftRecord \cup { None })
      /\ mft.entries \in Seq(MftEntry \cup { None })
  BY VolumeIs DEF SharedInv, IsNtfs, EntriesInv, MftState
<1>2. PICK r \in Nat : r = i - 1
  OBVIOUS
<1>3. e = Entry(mft.entries, r)
  BY <1>1, <1>2 DEF Entry
<1>4. RECORD(r) # None /\ e.name = RECORD(r).name /\ e.parent = RECORD(r).parent
  BY <1>3, EntryOf
<1>5. PICK parent \in Nat : parent = e.parent
  BY <1>1, EntryIs DEF MftEntry
<1>6. parent = Above(r, 1) /\ r = Above(r, 0)
  <2>1. Above(r, 0 + 1) = StepUp(Above(r, 0)) /\ Above(r, 0) = r
    BY <1>1, AboveIs
  <2> QED
    BY <1>4, <1>5, <2>1 DEF StepUp
<1>7. PICK n \in Nat : n = MAX_PATH_DEPTH - 1
  BY NtfsAssumption
<1>8. PICK w : /\ w[0] = Foot(parent)
               /\ \A k \in 0 .. n : w[k] \in Climb
               /\ \A k \in 1 .. n : w[k] = Up(mft.entries, w[k - 1])
               /\ resolve_dir_path(mft.entries, parent) =
                     IF w[n].cur = Root /\ ~ w[n].broken THEN w[n].parts ELSE None
  BY <1>1, <1>7, ClimbChain
<1> DEFINE T == { k \in 0 .. n : ~ w[k].broken => ClimbedTo(r, w[k]) }
<1>9. 0 \in T
  <2>1. w[0].cur = parent /\ w[0].parts = << >> /\ 0 \in 0 .. n
    BY <1>8 DEF Foot
  <2>2. Len(w[0].parts) = 0
    BY <2>1
  <2> QED
    BY <1>6, <2>1, <2>2 DEF ClimbedTo
<1>10. ASSUME NEW k \in 1 .. n, k - 1 \in T PROVE k \in T
  <2>1. PICK s \in Climb : s = w[k - 1]
    BY <1>8
  <2>2. w[k] = Up(mft.entries, s) /\ k \in 0 .. n
    BY <1>8, <2>1
  <2>3. ~ s.broken => ClimbedTo(r, s)
    BY <1>10, <2>1
  <2>4. s.broken \/ s.cur = Root => Up(mft.entries, s) = s
    BY <1>1, UpIs
  <2>5. CASE s.broken \/ s.cur = Root
    BY <2>2, <2>3, <2>4, <2>5
  <2>6. CASE ~ s.broken /\ s.cur # Root
    BY <2>2, <2>3, <2>6, ClimbUp
  <2> QED
    BY <2>5, <2>6
<1>11. 0 .. n \subseteq T
  <2> HIDE DEF T
  <2> QED
    BY <1>9, <1>10, SetInduction
<1>12. PICK s \in Climb : s = w[n]
  BY <1>8
<1>13. ~ s.broken /\ s.cur = Root /\ dir = s.parts
  BY <1>5, <1>8, <1>12
<1>14. ClimbedTo(r, s)
  BY <1>11, <1>12, <1>13
<1> HIDE DEF T
<1>15. dir \in Seq(STRING)
  BY <1>13 DEF Climb
<1>16. PICK m \in Nat : m = Len(dir)
  BY <1>15
<1>17. PICK p \in Nat : p = m + 1
  OBVIOUS
<1>18. /\ Root = Above(r, p)
       /\ \A j \in 1 .. m : RECORD(Above(r, j)) # None /\ Above(r, j) # Root
       /\ \A j \in 1 .. m : dir[j] = RECORD(Above(r, p - j)).name
  BY <1>13, <1>14, <1>16, <1>17 DEF ClimbedTo
<1>19. PICK name \in STRING : name = e.name
  <2>1. e \in MftEntry
    BY EntryIs
  <2> QED
    BY <2>1 DEF MftEntry
<1>20. path = Append(dir, name) /\ Len(path) = p /\ DOMAIN path = 1 .. p
  <2>1. PICK S : S = STRING
    OBVIOUS
  <2>2. dir \in Seq(S) /\ name \in S
    BY <1>15, <2>1
  <2>3. path = Append(dir, name)
    BY <1>19
  <2>4. path \in Seq(S) /\ Len(path) = Len(dir) + 1
    BY <2>2, <2>3
  <2> QED
    BY <1>16, <1>17, <2>3, <2>4
<1>21. IsPathLength(r, p)
  <2>1. p - 1 = m
    BY <1>17
  <2>2. \A k \in 0 .. m : RECORD(Above(r, k)) # None
    <3>1. ASSUME NEW k \in 0 .. m PROVE RECORD(Above(r, k)) # None
      <4>1. CASE k = 0
        BY <1>4, <1>6, <4>1
      <4>2. CASE k # 0
        BY <1>18, <4>2
      <4> QED
        BY <4>1, <4>2
    <3> QED
      BY <3>1
  <2> QED
    BY <1>18, <2>1, <2>2 DEF IsPathLength
<1>22. path = Names(r, p)
  <2>1. ASSUME NEW k \in 1 .. p PROVE path[k] = RECORD(Above(r, p - k)).name
    <3>1. CASE k = p
      BY <1>4, <1>6, <1>15, <1>16, <1>17, <1>19, <1>20, <3>1
    <3>2. CASE k # p
      <4>1. k \in 1 .. m
        BY <1>17, <3>2
      <4>2. path[k] = dir[k]
        BY <1>15, <1>16, <1>20, <4>1
      <4> QED
        BY <1>18, <4>1, <4>2
    <3> QED
      BY <3>1, <3>2
  <2>2. path = [ k \in 1 .. p |-> path[k] ]
    BY <1>15, <1>16, <1>17, <1>20
  <2>3. path = [ k \in 1 .. p |-> RECORD(Above(r, p - k)).name ]
    BY <2>1, <2>2
  <2> QED
    BY <2>3, Zenon DEF Names
<1> QED
  BY <1>2, <1>15, <1>20, <1>21, <1>22

\* Each directory on the path has a name.
AllNamed(path) == ~ Contains(Front(path), "")

\* The loop finds the root when each directory above the record has a name that no
\* other has and they are no more than it takes.
LEMMA PathFound ==
    ASSUME SharedInv, Ntfs, EntriesInv, Len(mft.entries) = Len(volume.records),
           NEW i \in 1 .. Len(mft.entries), NEW e, e = mft.entries[i], e # None,
           NEW q \in 1 .. MAX_PATH_DEPTH, IsPathLength(i - 1, q),
           NEW path, path = Names(i - 1, q),
           IsInjective(Front(path)), AllNamed(path)
    PROVE  /\ resolve_dir_path(mft.entries, e.parent) # None
           /\ path = Append(resolve_dir_path(mft.entries, e.parent), e.name)
<1>1. /\ volume.records \in Seq(MftRecord \cup { None })
      /\ mft.entries \in Seq(MftEntry \cup { None })
  BY VolumeIs DEF SharedInv, IsNtfs, EntriesInv, MftState
<1>2. PICK r \in Nat : r = i - 1
  OBVIOUS
<1>3. e = Entry(mft.entries, r)
  BY <1>1, <1>2 DEF Entry
<1>4. RECORD(r) # None /\ e.name = RECORD(r).name /\ e.parent = RECORD(r).parent
  BY <1>3, EntryOf
<1>5. PICK parent \in Nat : parent = e.parent
  BY <1>1, EntryIs DEF MftEntry
<1>6. parent = Above(r, 1) /\ r = Above(r, 0)
  <2>1. Above(r, 0 + 1) = StepUp(Above(r, 0)) /\ Above(r, 0) = r
    BY <1>1, AboveIs
  <2> QED
    BY <1>4, <1>5, <2>1 DEF StepUp
<1>7. PICK n \in Nat : n = MAX_PATH_DEPTH - 1
  BY NtfsAssumption
<1>8. PICK w : /\ w[0] = Foot(parent)
               /\ \A k \in 0 .. n : w[k] \in Climb
               /\ \A k \in 1 .. n : w[k] = Up(mft.entries, w[k - 1])
               /\ resolve_dir_path(mft.entries, parent) =
                     IF w[n].cur = Root /\ ~ w[n].broken THEN w[n].parts ELSE None
  BY <1>1, <1>7, ClimbChain
<1>9. PICK l \in Nat : l = q - 1
  BY NtfsAssumption
<1>10. q \in Nat /\ l <= n
  BY <1>7, <1>9, NtfsAssumption
<1>11. /\ Above(r, q) = Root
       /\ \A k \in 1 .. l : Above(r, k) # Root
       /\ \A k \in 0 .. l : RECORD(Above(r, k)) # None
  BY <1>2, <1>9 DEF IsPathLength
<1>12. path = [ k \in 1 .. q |-> RECORD(Above(r, q - k)).name ]
  BY <1>2, Zenon DEF Names
<1>13. \A k \in 0 .. l : RECORD(Above(r, k)).name \in STRING
  <2>1. ASSUME NEW k \in 0 .. l PROVE RECORD(Above(r, k)).name \in STRING
    <3>1. PICK a \in Nat : a = Above(r, k)
      <4>1. k \in Nat
        OBVIOUS
      <4> QED
        BY <1>1, <4>1, AboveIs
    <3>2. RECORD(a) \in MftRecord
      BY <1>1, <1>11, <3>1, StepUpType
    <3> QED
      BY <3>1, <3>2 DEF MftRecord
  <2> QED
    BY <2>1
<1>14. PICK front : front = Front(path)
  OBVIOUS
<1>15. front \in Seq(STRING) /\ Len(front) = l /\ \A k \in 1 .. l : front[k] = path[k]
  <2>1. PICK S : S = STRING
    OBVIOUS
  <2>2. \A k \in 1 .. q : path[k] \in S
    <3>1. ASSUME NEW k \in 1 .. q PROVE path[k] \in S
      <4>1. PICK j \in 0 .. l : j = q - k
        BY <1>9, <1>10
      <4> QED
        BY <1>12, <1>13, <2>1, <4>1
    <3> QED
      BY <3>1
  <2>3. path \in Seq(S) /\ Len(path) = q
    BY <1>10, <1>12, <2>2
  <2>4. front = SubSeq(path, 1, l)
    BY <1>9, <1>14, <2>3 DEF Front
  <2> QED
    BY <1>9, <1>10, <2>1, <2>3, <2>4
<1>16. \A j \in 1 .. l : front[j] = RECORD(Above(r, q - j)).name
  BY <1>9, <1>10, <1>12, <1>15
<1>17. \A j, k \in 1 .. l : front[j] = front[k] => j = k
  BY <1>14, <1>15 DEF IsInjective
<1>18. \A j \in 1 .. l : front[j] # ""
  BY <1>14, <1>15, Zenon DEF AllNamed, Contains
<1> DEFINE Goes(s, k) == /\ ~ s.broken /\ ClimbedTo(r, s) /\ Len(s.parts) <= l
                         /\ s.cur = Root \/ Len(s.parts) = k
           T == { k \in 0 .. n : Goes(w[k], k) }
<1>19. 0 \in T
  <2>1. w[0].cur = parent /\ w[0].parts = << >> /\ 0 \in 0 .. n /\ ~ w[0].broken
    BY <1>8 DEF Foot
  <2>2. Len(w[0].parts) = 0
    BY <2>1
  <2> QED
    BY <1>6, <1>9, <2>1, <2>2 DEF ClimbedTo
<1>20. ASSUME NEW k \in 1 .. n, k - 1 \in T PROVE k \in T
  <2>1. PICK s \in Climb : s = w[k - 1]
    BY <1>8
  <2>2. w[k] = Up(mft.entries, s) /\ k \in 0 .. n
    BY <1>8, <2>1
  <2>3. /\ ~ s.broken /\ ClimbedTo(r, s) /\ Len(s.parts) <= l
        /\ s.cur = Root \/ Len(s.parts) = k - 1
    <3>1. Goes(w[k - 1], k - 1)
      BY <1>20, Zenon
    <3> QED
      BY <2>1, <3>1
  <2>4. CASE s.cur = Root
    <3>1. w[k] = s
      BY <1>1, <2>2, <2>4, UpIs
    <3> QED
      BY <2>2, <2>3, <2>4, <3>1
  <2>5. CASE s.cur # Root
    <3>1. s.cur \in Nat /\ s.parts \in Seq(STRING)
      BY DEF Climb
    <3>2. PICK m \in Nat : m = Len(s.parts)
      BY <3>1
    <3>3. PICK p \in Nat : p = m + 1
      OBVIOUS
    <3>4. /\ s.cur = Above(r, p)
          /\ \A j \in 1 .. m : s.parts[j] = RECORD(Above(r, p - j)).name
      BY <2>3, <3>2, <3>3 DEF ClimbedTo
    <3>5. p \in 1 .. l
      <4>1. p # q
        BY <1>11, <2>5, <3>4
      <4> QED
        BY <1>9, <2>3, <3>2, <3>3, <4>1
    <3>6. PICK x : x = Entry(mft.entries, s.cur)
      OBVIOUS
    <3>7. RECORD(s.cur) # None
      BY <1>11, <3>4, <3>5
    <3>8. x # None
      BY <3>1, <3>6, <3>7, EntryOf
    <3>9. x.name = RECORD(s.cur).name
      BY <3>1, <3>6, <3>8, EntryOf
    <3>10. PICK a \in 1 .. l : a = q - p
      BY <1>9, <3>5
    <3>11. x.name = front[a]
      <4>1. q - a = p
        BY <1>10, <3>10
      <4> QED
        BY <1>16, <3>4, <3>9, <3>10, <4>1
    <3>12. \A j \in 1 .. m : s.parts[j] # x.name
      <4>1. ASSUME NEW j \in 1 .. m PROVE s.parts[j] # x.name
        <5>1. PICK b \in 1 .. l : b = a + j
          BY <1>9, <3>3, <3>5, <3>10
        <5>2. q - b = p - j
          BY <1>10, <3>10, <5>1
        <5>3. s.parts[j] = front[b]
          BY <1>16, <3>4, <5>1, <5>2
        <5>4. b # a
          BY <5>1
        <5> QED
          BY <1>17, <3>10, <3>11, <5>1, <5>3, <5>4
      <4> QED
        BY <4>1
    <3>13. ~ Contains(s.parts, x.name)
      BY <3>2, <3>12 DEF Contains
    <3>14. x.name # ""
      BY <1>18, <3>10, <3>11, Zenon
    <3>15. PICK t \in Climb : t = Up(mft.entries, s)
      BY <1>1, UpIs
    <3>16. ~ t.broken
      BY <1>1, <2>3, <2>5, <3>6, <3>8, <3>13, <3>14, <3>15, UpIs, Zenon
    <3>17. ClimbedTo(r, t) /\ Len(t.parts) = Len(s.parts) + 1
      BY <2>3, <2>5, <3>15, <3>16, ClimbUp
    <3>18. Len(t.parts) = p /\ p <= l /\ p = k
      BY <2>3, <2>5, <3>2, <3>3, <3>5, <3>17
    <3> QED
      BY <2>2, <3>15, <3>16, <3>17, <3>18
  <2> QED
    BY <2>4, <2>5
<1>21. 0 .. n \subseteq T
  <2> HIDE DEF T
  <2> QED
    BY <1>19, <1>20, SetInduction
<1>22. PICK s \in Climb : s = w[n]
  BY <1>8
<1>23. /\ ~ s.broken /\ ClimbedTo(r, s) /\ Len(s.parts) <= l
       /\ s.cur = Root \/ Len(s.parts) = n
  <2>1. n \in T
    BY <1>21
  <2>2. Goes(w[n], n)
    BY <2>1, Zenon
  <2> QED
    BY <1>22, <2>2
<1> HIDE DEF T
<1>24. s.parts \in Seq(STRING)
  BY DEF Climb
<1>25. PICK m \in Nat : m = Len(s.parts)
  BY <1>24
<1>26. PICK p \in Nat : p = m + 1
  OBVIOUS
<1>27. /\ s.cur = Above(r, p)
       /\ \A j \in 1 .. m : s.parts[j] = RECORD(Above(r, p - j)).name
  BY <1>23, <1>25, <1>26 DEF ClimbedTo
<1>28. s.cur = Root
  <2>1. CASE s.cur # Root
    <3>1. p = q
      BY <1>9, <1>10, <1>23, <1>25, <1>26, <2>1
    <3> QED
      BY <1>11, <1>27, <3>1
  <2> QED
    BY <2>1
<1>29. p = q
  <2>1. p \notin 1 .. l
    BY <1>11, <1>27, <1>28
  <2> QED
    BY <1>9, <1>10, <1>23, <1>25, <1>26, <2>1
<1>30. resolve_dir_path(mft.entries, e.parent) = s.parts
  BY <1>5, <1>8, <1>22, <1>23, <1>28
<1>31. s.parts # None
  BY <1>24, VolumesAssumption
<1>32. PICK dir : dir = s.parts
  OBVIOUS
<1>33. path = Append(dir, e.name)
  <2>1. PICK S : S = STRING
    OBVIOUS
  <2>2. PICK name \in S : name = e.name
    <3>1. e \in MftEntry
      BY EntryIs
    <3> QED
      BY <2>1, <3>1 DEF MftEntry
  <2>3. dir \in Seq(S) /\ Len(dir) = l
    BY <1>9, <1>24, <1>25, <1>26, <1>29, <1>32, <2>1
  <2>4. PICK u : u = Append(dir, name)
    OBVIOUS
  <2>5. /\ u \in Seq(S) /\ Len(u) = l + 1 /\ u[l + 1] = name
        /\ \A k \in 1 .. l : u[k] = dir[k]
    BY <2>3, <2>4
  <2>6. l + 1 = q
    BY <1>9, <1>10
  <2>7. ASSUME NEW k \in 1 .. q PROVE u[k] = RECORD(Above(r, q - k)).name
    <3>1. CASE k = q
      <4>1. q - k = 0
        BY <1>10, <3>1
      <4> QED
        BY <1>4, <1>6, <2>2, <2>5, <2>6, <3>1, <4>1
    <3>2. CASE k # q
      <4>1. k \in 1 .. l
        BY <1>9, <1>10, <3>2
      <4>2. l = m
        BY <1>9, <1>26, <1>29
      <4> QED
        BY <1>27, <1>29, <1>32, <2>5, <4>1, <4>2
    <3> QED
      BY <3>1, <3>2
  <2>8. u = [ k \in 1 .. q |-> u[k] ]
    BY <2>5, <2>6
  <2>9. u = [ k \in 1 .. q |-> RECORD(Above(r, q - k)).name ]
    BY <2>7, <2>8
  <2> QED
    BY <1>12, <2>2, <2>4, <2>9
<1> QED
  BY <1>30, <1>31, <1>32, <1>33

-----------------------------------------------------------------------------
(* No file overwrites another *)

\* The files whose records have not failed.
Intact == { f \in recovered : f.of \notin mft.failed }

\* The files counted are those that did not fail, with at most one file of each record
\* passed, which has its name.
CountInv ==
    Ntfs =>
        /\ IsFiniteSet(recovered) /\ mft.files = Cardinality(Intact)
        /\ pc \in { "open", "pass1" } => mft.failed = {}
        /\ pc = "pass2" => \A r \in mft.failed : r + 1 < mft.next
        /\ \A f \in recovered :
              /\ pc = "pass2" => f.of + 1 < mft.next
              /\ ~ mft.entries[f.of + 1].is_dir
              /\ f.path[Len(f.path)] = mft.entries[f.of + 1].name
        /\ \A f, g \in recovered : f.of = g.of => f = g

\* Of the numbers for the name fewer are taken than there are.
SomeLeft(path) ==
    \A N \in SUBSET Nat :
        (\A n \in N : \E f \in recovered : f.path = path /\ f.nth = n) =>
            IsFiniteSet(N) /\ Cardinality(N) < Candidates - 1

\* The path of a record ends with its name.
LEMMA PathEnds ==
    ASSUME SharedInv, Ntfs, EntriesInv, NEW i \in 1 .. Len(mft.entries),
           NEW e, e = mft.entries[i], e # None
    PROVE  PathOf(e)[Len(PathOf(e))] = e.name
<1>1. PICK dir : dir = resolve_dir_path(mft.entries, e.parent)
  OBVIOUS
<1>2. PICK path : path = PathOf(e)
  OBVIOUS
<1>3. CASE dir = None
  <2>1. path = << "$DELETED", e.name >>
    BY <1>1, <1>2, <1>3, Zenon DEF PathOf
  <2> QED
    BY <1>2, <2>1
<1>4. CASE dir # None
  <2>1. path = Append(dir, e.name)
    BY <1>1, <1>2, <1>4, Zenon DEF PathOf
  <2>2. dir \in Seq(STRING)
    <3>1. Resolved(i, e, dir, path)
      BY <1>1, <1>4, <2>1, Zenon DEF Resolved
    <3> QED
      BY <1>1, <3>1, PathUp
  <2>3. PICK S : S = STRING
    OBVIOUS
  <2>4. e \in MftEntry
    BY EntryIs
  <2>5. PICK name \in S : name = e.name
    BY <2>3, <2>4 DEF MftEntry
  <2>6. dir \in Seq(S) /\ path = Append(dir, name)
    BY <2>1, <2>2, <2>3, <2>5
  <2>7. path[Len(path)] = name
    BY <2>6
  <2> QED
    BY <1>2, <2>5, <2>7
<1> QED
  BY <1>3, <1>4

\* For the record that is next there is a number left: each number that is taken is
\* that of another record whose file has the name.
LEMMA NextHasName ==
    ASSUME NamesSuffice, SharedInv, Ntfs, EntriesInv, FilesInv, CountInv,
           pc = "pass2", NEW i \in 1 .. Len(mft.entries), i = mft.next,
           NEW e, e = mft.entries[i], e # None, ~ e.is_dir
    PROVE  SomeLeft(PathOf(e))
<1>1. PICK path : path = PathOf(e)
  OBVIOUS
<1>2. path[Len(path)] = e.name
  BY <1>1, PathEnds
<1>3. /\ volume.records \in Seq(MftRecord \cup { None })
      /\ mft.entries \in Seq(MftEntry \cup { None }) /\ Len(mft.entries) <= Len(volume.records)
  BY VolumeIs DEF SharedInv, IsNtfs, EntriesInv, MftState
<1>4. ASSUME NEW j \in 1 .. Len(mft.entries), mft.entries[j] # None
      PROVE  /\ j \in 1 .. Len(volume.records) /\ volume.records[j] # None
             /\ mft.entries[j].name = volume.records[j].name
             /\ mft.entries[j].is_dir = volume.records[j].is_dir
  <2>1. PICK r \in Nat : r = j - 1
    OBVIOUS
  <2>2. PICK x : x = Entry(mft.entries, r)
    OBVIOUS
  <2>3. x = mft.entries[j]
    BY <1>3, <2>1, <2>2 DEF Entry
  <2>4. j \in 1 .. Len(volume.records) /\ r + 1 = j
    BY <1>3, <2>1
  <2>5. RECORD(r) = volume.records[j]
    BY <1>3, <2>4 DEF RECORD, Entry
  <2>6. x # None
    BY <1>4, <2>3
  <2>7. /\ RECORD(r) # None /\ x.name = RECORD(r).name /\ x.is_dir = RECORD(r).is_dir
    BY <2>2, <2>6, EntryOf
  <2> QED
    BY <2>3, <2>4, <2>5, <2>7
<1>5. PICK S : S = Namesakes(volume, i)
  OBVIOUS
<1>6. \A j \in 1 .. Len(mft.entries) :
         mft.entries[j] # None /\ ~ mft.entries[j].is_dir /\ mft.entries[j].name = e.name => j \in S
  <2>1. e.name = volume.records[i].name
    BY <1>4
  <2> QED
    BY <1>4, <1>5, <2>1 DEF Namesakes
<1>7. i \in S
  BY <1>6
<1>8. IsFiniteSet(S) /\ Cardinality(S) < Candidates
  <2>1. S \subseteq 1 .. Len(volume.records)
    BY <1>5 DEF Namesakes
  <2>2. IsFiniteSet(1 .. Len(volume.records))
    <3>1. 1 \in Int /\ Len(volume.records) \in Int
      BY <1>3
    <3> QED
      BY <3>1, FS_Interval
  <2>3. IsFiniteSet(S)
    BY <2>1, <2>2, FS_Subset
  <2>4. Cardinality(S) < Candidates
    BY <1>4, <1>5 DEF NamesSuffice, SharedInv, Ntfs
  <2> QED
    BY <2>3, <2>4
<1>9. IsFiniteSet(S \ { i }) /\ Cardinality(S \ { i }) = Cardinality(S) - 1
  BY <1>7, <1>8, FS_RemoveElement
<1>10. Cardinality(S) \in Nat /\ Candidates \in Nat
  BY <1>8, FS_CardinalityType, NtfsAssumption
<1>11. /\ \A f \in recovered :
             /\ f.of \in Nat /\ f.of + 1 \in 1 .. Len(mft.entries) /\ mft.entries[f.of + 1] # None
             /\ f.of + 1 < i /\ ~ mft.entries[f.of + 1].is_dir
             /\ f.path[Len(f.path)] = mft.entries[f.of + 1].name
       /\ \A f, g \in recovered : f.of = g.of => f = g
  BY DEF FilesInv, CountInv
<1>12. ASSUME NEW N \in SUBSET Nat, \A n \in N : \E f \in recovered : f.path = path /\ f.nth = n
       PROVE  IsFiniteSet(N) /\ Cardinality(N) < Candidates - 1
  <2>1. PICK file : file = [ n \in N |-> CHOOSE f \in recovered : f.path = path /\ f.nth = n ]
    OBVIOUS
  <2>2. \A n \in N : file[n] \in recovered /\ file[n].path = path /\ file[n].nth = n
    BY <1>12, <2>1, Zenon
  <2>3. PICK h : h = [ n \in N |-> file[n].of + 1 ]
    OBVIOUS
  <2>4. ASSUME NEW n \in N PROVE h[n] \in S \ { i }
    <3>1. PICK f \in recovered : f = file[n] /\ f.path = path
      BY <2>2
    <3>2. PICK j \in 1 .. Len(mft.entries) : j = f.of + 1
      BY <1>11
    <3>3. /\ mft.entries[j] # None /\ ~ mft.entries[j].is_dir /\ mft.entries[j].name = e.name
          /\ j # i
      BY <1>2, <1>11, <3>1, <3>2
    <3>4. h[n] = j
      BY <2>3, <3>1, <3>2
    <3> QED
      BY <1>6, <3>3, <3>4
  <2>5. \A m, n \in N : h[m] = h[n] => m = n
    <3>1. ASSUME NEW m \in N, NEW n \in N, h[m] = h[n] PROVE m = n
      <4>1. PICK f \in recovered : f = file[m] /\ f.nth = m
        BY <2>2
      <4>2. PICK g \in recovered : g = file[n] /\ g.nth = n
        BY <2>2
      <4>3. f.of + 1 = g.of + 1
        BY <2>3, <3>1, <4>1, <4>2
      <4>4. f.of \in Nat /\ g.of \in Nat
        BY <1>11
      <4>5. f = g
        BY <1>11, <4>3, <4>4
      <4> QED
        BY <4>1, <4>2, <4>5
    <3> QED
      BY <3>1
  <2>6. h \in Injection(N, S \ { i })
    <3>1. h \in [N -> S \ { i }]
      BY <2>3, <2>4
    <3> QED
      BY <2>5, <3>1 DEF Injection, IsInjective
  <2>7. IsFiniteSet(N) /\ Cardinality(N) <= Cardinality(S \ { i })
    BY <1>9, <2>6, FS_Injection
  <2>8. Cardinality(N) \in Nat
    BY <2>7, FS_CardinalityType
  <2> QED
    BY <1>8, <1>9, <1>10, <2>7, <2>8
<1> QED
  BY <1>1, <1>12 DEF SomeLeft

\* How many numbers there are.
LEMMA NumbersIs ==
    ASSUME NEW a \in 0 .. 1
    PROVE  a .. Candidates - 1 \in SUBSET Nat /\ Cardinality(a .. Candidates - 1) = Candidates - a
<1>1. PICK k \in Nat : k = Candidates /\ k > 0
  BY NtfsAssumption
<1>2. a \in Int /\ k - 1 \in Int
  OBVIOUS
<1>3. Cardinality(a .. k - 1) = IF a > k - 1 THEN 0 ELSE (k - 1) - a + 1
  BY <1>2, FS_Interval, Zenon
<1> QED
  BY <1>1, <1>3

\* As long as there is one left the number of a file is not that of another.
LEMMA UniqueIsFree ==
    ASSUME NEW path, SomeLeft(path)
    PROVE  /\ \A f \in recovered : f.path = path => f.nth # Unique(path)
           /\ IsDirectory(path) => Unique(path) # 0
<1>1. PICK free : free = { n \in 1 .. Candidates - 1 : ~ \E f \in recovered : f.path = path /\ f.nth = n }
  OBVIOUS
<1>2. PICK u : u = Unique(path)
  OBVIOUS
<1>3. u = IF ~ IsFile(path) /\ ~ IsDirectory(path) THEN 0
          ELSE IF free = {} THEN 0
          ELSE CHOOSE n \in free : \A m \in free : n <= m
  BY <1>1, <1>2 DEF Unique
<1>4. free # {}
  <2> SUFFICES ASSUME free = {} PROVE FALSE
    OBVIOUS
  <2>1. \A n \in 1 .. Candidates - 1 : \E f \in recovered : f.path = path /\ f.nth = n
    BY <1>1
  <2>2. PICK N : N = 1 .. Candidates - 1
    OBVIOUS
  <2>3. N \in SUBSET Nat /\ Cardinality(N) = Candidates - 1
    BY <2>2, NumbersIs
  <2>4. Cardinality(N) < Candidates - 1
    BY <2>1, <2>2, <2>3 DEF SomeLeft
  <2> QED
    BY <2>3, <2>4, NtfsAssumption
<1>5. CASE ~ IsFile(path) /\ ~ IsDirectory(path)
  BY <1>2, <1>3, <1>5 DEF IsFile
<1>6. CASE IsFile(path) \/ IsDirectory(path)
  <2>1. free \in SUBSET Nat
    BY <1>1, NtfsAssumption
  <2>2. \E n \in free : \A m \in free : n <= m
    BY <1>4, <2>1, NatMin
  <2>3. u \in free
    BY <1>3, <1>4, <1>6, <2>2, Zenon
  <2> QED
    BY <1>1, <1>2, <2>3, NtfsAssumption
<1> QED
  BY <1>5, <1>6

\* A file that is written takes the place of none.
LEMMA WrittenIs ==
    ASSUME NEW path, SomeLeft(path), NEW e, NEW clusters, Written(path, e, clusters)
    PROVE  recovered' = recovered \cup { File(path, Unique(path), e.record, clusters) }
<1>1. PICK n : n = Unique(path)
  OBVIOUS
<1>2. PICK g : g = File(path, n, e.record, clusters)
  OBVIOUS
<1>3. recovered' = { f \in recovered : f.path # path \/ f.nth # n } \cup { g }
  BY <1>1, <1>2, Zenon DEF Written
<1>4. \A f \in recovered : f.path # path \/ f.nth # n
  BY <1>1, UniqueIsFree
<1> QED
  BY <1>1, <1>2, <1>3, <1>4

\* For the file of the record pass 2 is at there is a number left.
LEMMA CurrentName ==
    ASSUME NamesSuffice, SharedInv, Ntfs, NtfsInv, CountInv, AtRecord, HasFile(Current)
    PROVE  Current # None /\ ~ Current.is_dir /\ SomeLeft(PathOf(Current))
<1>1. EntriesInv /\ FilesInv
  BY DEF NtfsInv
<1>2. PICK i \in 1 .. Len(mft.entries) : i = mft.next
  BY CurrentIs
<1>3. Current # None /\ ~ Current.is_dir
  BY Zenon DEF HasFile
<1>4. SomeLeft(PathOf(Current))
  BY <1>1, <1>2, <1>3, NextHasName DEF AtRecord, Current
<1> QED
  BY <1>3, <1>4

\* What a step over a record does, by whether it writes its file or fails.
LEMMA RecoverIs ==
    ASSUME NamesSuffice, SharedInv, Ntfs, NtfsInv, CountInv, RecoverRecord \/ RecoverFails
    PROVE  /\ AtRecord /\ mft.next \in 1 .. Len(mft.entries)
           /\ UNCHANGED << volume, pc, need_to_stop >>
           /\ mft'.entries = mft.entries /\ mft'.next = mft.next + 1
           /\ \/ ~ Writes(Current) /\ mft'.files = mft.files /\ mft'.failed = mft.failed
              \/ /\ RecoverRecord /\ Writes(Current)
                 /\ mft'.files = mft.files + 1 /\ mft'.failed = mft.failed
              \/ /\ RecoverFails /\ Writes(Current)
                 /\ mft'.files = mft.files /\ mft'.failed = mft.failed \cup { Current.record }
           /\ \/ UNCHANGED recovered /\ mft'.files = mft.files
              \/ /\ Writes(Current)
                 /\ \E clusters :
                       /\ RecoverRecord => clusters = Contents(Current)
                       /\ recovered' = recovered \cup { File(PathOf(Current), Unique(PathOf(Current)),
                                                             Current.record, clusters) }
<1>1. AtRecord
  BY Zenon DEF RecoverRecord, RecoverFails
<1>2. mft \in MftState /\ mft.next \in 1 .. Len(mft.entries)
  BY <1>1, CurrentIs
<1>3. Writes(Current) => SomeLeft(PathOf(Current))
  BY <1>1, CurrentName DEF Writes
<1>4. PICK next : next = mft.next + 1
  OBVIOUS
<1>5. CASE RecoverRecord
  <2>1. PICK files : files = mft.files + (IF Writes(Current) THEN 1 ELSE 0)
    OBVIOUS
  <2>2. /\ mft' = [ mft EXCEPT !.next = next, !.files = files ]
        /\ IF Writes(Current) THEN Written(PathOf(Current), Current, Contents(Current))
           ELSE UNCHANGED recovered
        /\ UNCHANGED << volume, pc, need_to_stop >>
    BY <1>4, <1>5, <2>1, Zenon DEF RecoverRecord
  <2>3. /\ mft'.entries = mft.entries /\ mft'.next = next
        /\ mft'.files = files /\ mft'.failed = mft.failed
    BY <1>2, <2>2 DEF MftState
  <2>4. Writes(Current) =>
           recovered' = recovered \cup { File(PathOf(Current), Unique(PathOf(Current)),
                                              Current.record, Contents(Current)) }
    BY <1>3, <2>2, WrittenIs
  <2>5. mft.files \in Nat
    BY <1>2 DEF MftState
  <2> QED
    BY <1>1, <1>2, <1>4, <1>5, <2>1, <2>2, <2>3, <2>4, <2>5
<1>6. CASE RecoverFails
  <2>1. PICK failed : failed = mft.failed \cup { Current.record }
    OBVIOUS
  <2>2. /\ Writes(Current) /\ mft' = [ mft EXCEPT !.next = next, !.failed = failed ]
        /\ \/ UNCHANGED recovered
           \/ \E clusters : Written(PathOf(Current), Current, clusters)
        /\ UNCHANGED << volume, pc, need_to_stop >>
    BY <1>4, <1>6, <2>1, Zenon DEF RecoverFails
  <2>3. /\ mft'.entries = mft.entries /\ mft'.next = next
        /\ mft'.files = mft.files /\ mft'.failed = failed
    BY <1>2, <2>2 DEF MftState
  <2>4. ASSUME ~ UNCHANGED recovered
        PROVE  \E clusters :
                  recovered' = recovered \cup { File(PathOf(Current), Unique(PathOf(Current)),
                                                     Current.record, clusters) }
    BY <1>3, <2>2, <2>4, WrittenIs
  <2>5. RecoverRecord => RecoverFails /\ mft'.next = mft.next + 1
    BY <1>4, <1>6, <2>3
  <2> QED
    BY <1>1, <1>2, <1>4, <1>5, <1>6, <2>1, <2>2, <2>3, <2>4
<1> QED
  BY <1>5, <1>6

\* A step that writes nothing keeps the count.
LEMMA CountStays ==
    ASSUME Ntfs, CountInv, FilesInv, UNCHANGED << volume, recovered >>,
           mft'.entries = mft.entries \/ recovered = {}, mft'.files = mft.files,
           mft'.failed = mft.failed, pc' \in { "open", "pass1" } => pc \in { "open", "pass1" },
           pc' = "pass2" => \/ pc = "pass1" /\ recovered = {}
                            \/ pc = "pass2" /\ mft'.next = mft.next
    PROVE  CountInv'
  BY DEF CountInv, Intact

\* A step over a record keeps the count.
LEMMA RecoverCount ==
    ASSUME NamesSuffice, SharedInv, Ntfs, NtfsInv, CountInv, RecoverRecord \/ RecoverFails
    PROVE  CountInv'
<1>1. EntriesInv /\ FilesInv /\ mft \in MftState
  BY DEF NtfsInv, EntriesInv
<1>2. PICK e : e = Current
  OBVIOUS
<1>3. PICK i \in 1 .. Len(mft.entries) : i = mft.next /\ e = mft.entries[i] /\ i \in Nat
  BY <1>2, RecoverIs DEF Current
<1>4. /\ AtRecord /\ pc = "pass2" /\ pc' = "pass2"
      /\ mft'.entries = mft.entries /\ mft'.next = i + 1
      /\ \/ ~ Writes(e) /\ mft'.files = mft.files /\ mft'.failed = mft.failed
         \/ RecoverRecord /\ Writes(e) /\ mft'.files = mft.files + 1 /\ mft'.failed = mft.failed
         \/ /\ RecoverFails /\ Writes(e)
            /\ mft'.files = mft.files /\ mft'.failed = mft.failed \cup { e.record }
      /\ \/ UNCHANGED recovered /\ mft'.files = mft.files
         \/ /\ Writes(e)
            /\ \E clusters :
                  recovered' = recovered \cup { File(PathOf(e), Unique(PathOf(e)), e.record, clusters) }
  BY <1>2, <1>3, RecoverIs DEF AtRecord
<1>5. /\ IsFiniteSet(recovered) /\ mft.files = Cardinality(Intact) /\ mft.files \in Nat
      /\ \A r \in mft.failed : r \in Nat /\ r + 1 < i
      /\ \A f \in recovered :
            /\ f.of \in Nat /\ f.of + 1 \in 1 .. Len(mft.entries)
            /\ f.of + 1 < i /\ ~ mft.entries[f.of + 1].is_dir
            /\ f.path[Len(f.path)] = mft.entries[f.of + 1].name
      /\ \A f, g \in recovered : f.of = g.of => f = g
  BY <1>1, <1>3, <1>4 DEF CountInv, FilesInv, MftState
<1>6. Writes(e) => /\ e # None /\ ~ e.is_dir /\ e.record = i - 1
                   /\ PathOf(e)[Len(PathOf(e))] = e.name
  <2> SUFFICES ASSUME Writes(e) PROVE /\ e # None /\ ~ e.is_dir /\ e.record = i - 1
                                      /\ PathOf(e)[Len(PathOf(e))] = e.name
    OBVIOUS
  <2>1. HasFile(e)
    BY Zenon DEF Writes
  <2>2. e # None /\ ~ e.is_dir
    BY <1>2, <1>4, <2>1, CurrentName
  <2>3. e.record = i - 1
    BY <1>2, <1>3, <1>4, <2>1, CurrentIs
  <2> QED
    BY <1>1, <1>3, <2>2, <2>3, PathEnds
<1>7. \A r \in mft'.failed : r + 1 < i + 1
  BY <1>3, <1>4, <1>5, <1>6
<1>8. PICK next \in Nat : next = i + 1
  BY <1>3
<1>9. CASE UNCHANGED recovered /\ mft'.files = mft.files
  <2>1. mft'.files = mft.files /\ \A f \in recovered : f.of \in mft'.failed <=> f.of \in mft.failed
    <3>1. \A f \in recovered : f.of \in Nat /\ f.of + 1 < i
      BY <1>5
    <3>2. CASE mft'.failed = mft.failed
      BY <1>9, <3>2
    <3>3. CASE Writes(e) /\ mft'.files = mft.files /\ mft'.failed = mft.failed \cup { e.record }
      <4>1. \A f \in recovered : f.of # e.record
        BY <1>3, <1>6, <3>1, <3>3
      <4> QED
        BY <3>3, <4>1
    <3> QED
      BY <1>4, <3>2, <3>3
  <2>2. Intact' = Intact
    BY <1>9, <2>1 DEF Intact
  <2>3. \A f \in recovered : f.of + 1 < next
    BY <1>3, <1>5, <1>8
  <2> QED
    BY <1>4, <1>5, <1>7, <1>8, <1>9, <2>1, <2>2, <2>3 DEF CountInv
<1>10. CASE /\ Writes(e)
            /\ \E clusters :
                  recovered' = recovered \cup { File(PathOf(e), Unique(PathOf(e)), e.record, clusters) }
  <2>1. PICK path : path = PathOf(e)
    OBVIOUS
  <2>2. PICK clusters : recovered' = recovered \cup { File(path, Unique(path), e.record, clusters) }
    BY <1>10, <2>1
  <2>3. PICK g : g = File(path, Unique(path), e.record, clusters)
    OBVIOUS
  <2>4. recovered' = recovered \cup { g } /\ Writes(e)
    BY <1>10, <2>2, <2>3
  <2>5. g.path = path /\ g.of = i - 1 /\ g.of \in Nat /\ g.of + 1 = i
    BY <1>3, <1>6, <2>3, <2>4 DEF File
  <2>6. ASSUME NEW f \in recovered'
        PROVE  /\ f.of + 1 < next /\ ~ mft.entries[f.of + 1].is_dir
               /\ f.path[Len(f.path)] = mft.entries[f.of + 1].name
    <3>1. CASE f = g
      BY <1>3, <1>6, <1>8, <2>1, <2>4, <2>5, <3>1
    <3>2. CASE f \in recovered
      BY <1>3, <1>5, <1>8, <3>2
    <3> QED
      BY <2>4, <3>1, <3>2
  <2>7. \A f \in recovered : f.of # g.of
    BY <1>3, <1>5, <2>5
  <2>8. ASSUME NEW f \in recovered', NEW h \in recovered', f.of = h.of PROVE f = h
    BY <1>5, <2>4, <2>7, <2>8
  <2>9. IsFiniteSet(recovered') /\ IsFiniteSet(Intact)
    BY <1>5, <2>4, FS_AddElement, FS_Subset DEF Intact
  <2>10. mft'.files = Cardinality(Intact')
    <3>1. CASE mft'.failed = mft.failed /\ mft'.files = mft.files + 1
      <4>1. g.of \notin mft.failed
        BY <1>3, <1>5, <2>5
      <4>2. Intact' = Intact \cup { g } /\ g \notin Intact
        BY <2>4, <2>7, <3>1, <4>1 DEF Intact
      <4>3. Cardinality(Intact \cup { g }) = Cardinality(Intact) + 1
        BY <2>9, <4>2, FS_AddElement
      <4> QED
        BY <1>5, <3>1, <4>2, <4>3
    <3>2. CASE mft'.failed = mft.failed \cup { e.record } /\ mft'.files = mft.files
      <4>1. e.record = g.of
        BY <1>6, <2>4, <2>5
      <4>2. Intact' = Intact
        BY <2>4, <2>7, <3>2, <4>1 DEF Intact
      <4> QED
        BY <1>5, <3>2, <4>2
    <3> QED
      BY <1>4, <2>4, <3>1, <3>2
  <2> QED
    BY <1>4, <1>7, <1>8, <2>6, <2>8, <2>9, <2>10 DEF CountInv
<1> QED
  BY <1>4, <1>9, <1>10

\* Every step keeps the count.
LEMMA StepCount ==
    ASSUME NamesSuffice, IInv, CountInv, [Next]_vars
    PROVE  CountInv'
<1>1. SharedInv /\ NtfsInv /\ UNCHANGED volume
  BY VolumeStays DEF IInv
<1>2. SUFFICES ASSUME Ntfs PROVE CountInv'
  BY <1>1 DEF CountInv, Ntfs
<1>3. EntriesInv /\ RangesInv /\ FilesInv /\ mft \in MftState
  BY <1>1, <1>2 DEF NtfsInv, EntriesInv
<1>4. \/ NtfsStep
      \/ UNCHANGED << pc, recovered, mft >>
  BY <1>1, <1>2, PassIs, VolumeIs DEF SharedInv, Next, Pass, kaifuku_stop, vars, unformat
<1>5. CASE UNCHANGED << pc, recovered, mft >>
  BY <1>1, <1>2, <1>3, <1>5, CountStays
<1>6. CASE open
  <2>1. UNCHANGED << recovered, mft >> /\ pc' # "pass2" /\ pc = "open"
    BY <1>6 DEF open
  <2> QED
    BY <1>1, <1>2, <1>3, <2>1, CountStays
<1>7. CASE ReadBatch
  <2>1. PICK entries, next, ranges : mft' = [ mft EXCEPT !.entries = entries, !.next = next, !.ranges = ranges ]
    BY <1>7, Zenon DEF ReadBatch
  <2>2. UNCHANGED recovered /\ pc' = pc /\ pc = "pass1"
    BY <1>7, Zenon DEF ReadBatch, unformat
  <2>3. recovered = {} /\ mft'.files = mft.files /\ mft'.failed = mft.failed
    BY <1>3, <2>1, <2>2 DEF RangesInv, MftState
  <2> QED
    BY <1>1, <1>2, <1>3, <2>2, <2>3, CountStays
<1>8. CASE CollectRanges
  <2>1. /\ UNCHANGED recovered /\ pc = "pass1" /\ pc' = "pass2"
        /\ \E ranges : mft' = [ mft EXCEPT !.next = 1, !.ranges = ranges ]
    BY <1>8, Zenon DEF CollectRanges
  <2>2. mft'.files = mft.files /\ mft'.failed = mft.failed /\ mft'.entries = mft.entries /\ recovered = {}
    BY <1>3, <2>1 DEF RangesInv, MftState
  <2> QED
    BY <1>1, <1>2, <1>3, <2>1, <2>2, CountStays
<1>9. CASE RecoverRecord \/ RecoverFails
  BY <1>1, <1>2, <1>9, RecoverCount
<1>10. CASE PathPanics \/ EndOfRecords
  <2>1. UNCHANGED << recovered, mft >> /\ pc' \in { "caught", "mark" }
    BY <1>10 DEF PathPanics, EndOfRecords
  <2> QED
    BY <1>1, <1>2, <1>3, <2>1, CountStays
<1>11. CASE mark_used_ranges
  <2>1. /\ UNCHANGED recovered /\ pc' \in { "mark", "done" }
        /\ mft' = mft \/ mft' = [ mft EXCEPT !.ranges = Tail(mft.ranges) ]
    BY <1>11 DEF mark_used_ranges
  <2>2. mft'.files = mft.files /\ mft'.failed = mft.failed /\ mft'.entries = mft.entries
    BY <1>3, <2>1 DEF MftState
  <2> QED
    BY <1>1, <1>2, <1>3, <2>1, <2>2, CountStays
<1> QED
  BY <1>4, <1>5, <1>6, <1>7, <1>8, <1>9, <1>10, <1>11 DEF NtfsStep

\* Nothing has been written when the pass begins.
LEMMA InitCount == Init => CountInv
<1> SUFFICES ASSUME Init, Ntfs PROVE CountInv
  BY DEF CountInv
<1>1. recovered = {} /\ mft.files = 0 /\ mft.failed = {}
  BY DEF Init, UnformatInit, NtfsInit, Ntfs
<1>2. Intact = {}
  BY <1>1 DEF Intact
<1> QED
  BY <1>1, <1>2, FS_EmptySet DEF CountInv

\* When no name is that of as many files as write_unique tries names, every file
\* the NTFS pass counts is there in the end: neither another file nor what is left of
\* one that could not be written has taken its place.
THEOREM NothingLost == ASSUME NamesSuffice PROVE Spec => []NothingOverwritten
<1>1. Init => CountInv
  BY InitCount
<1>2. IInv /\ CountInv /\ [Next]_vars => CountInv'
  BY StepCount
<1>3. CountInv => NothingOverwritten
  BY DEF CountInv, Intact, NothingOverwritten
<1> QED
  BY <1>1, <1>2, <1>3, Invariance, PTL DEF Spec

-----------------------------------------------------------------------------
(* The tree is restored *)

\* The tree of the volume stays while the volume does.
LEMMA TreeStays ==
    ASSUME UNCHANGED volume, NEW r
    PROVE  \A n : /\ Names(r, n)' = Names(r, n)
                  /\ IsPathLength(r, n)' <=> IsPathLength(r, n)
<1>1. \A m : Above(r, m)' = Above(r, m)
  BY DEF Above, RECORD, FoldLeft, MapThenFoldSet
<1>2. \A m : RECORD(m)' = RECORD(m)
  BY DEF RECORD
<1>3. ASSUME NEW n PROVE Names(r, n)' = Names(r, n)
  <2>1. \A k \in 1 .. n : RECORD(Above(r, n - k))' = RECORD(Above(r, n - k))
    BY <1>1, <1>2
  <2> QED
    BY <2>1, Zenon DEF Names
<1>4. ASSUME NEW n PROVE IsPathLength(r, n)' <=> IsPathLength(r, n)
  <2>1. \A k : RECORD(Above(r, k))' = RECORD(Above(r, k))
    BY <1>1, <1>2
  <2> QED
    BY <1>1, <2>1, Zenon DEF IsPathLength
<1> QED
  BY <1>3, <1>4

\* What a file is read from stays while the volume does.
LEMMA DataStays ==
    ASSUME UNCHANGED volume, NEW i, mft'.entries = mft.entries
    PROVE  read_data(mft.entries[i])' = read_data(mft.entries[i])
  BY DEF read_data, Readable

\* What can be restored stays so too.
LEMMA RestoredStays ==
    ASSUME UNCHANGED volume, mft'.entries = mft.entries, NEW i
    PROVE  \A n : IsRestorable(i, n)' <=> IsRestorable(i, n)
<1>1. \A n : /\ Names(i - 1, n)' = Names(i - 1, n)
             /\ IsPathLength(i - 1, n)' <=> IsPathLength(i - 1, n)
  BY TreeStays
<1>2. read_data(mft.entries[i])' = read_data(mft.entries[i])
  BY DataStays
<1> QED
  BY <1>1, <1>2, Zenon DEF IsRestorable

\* A record whose file can be restored is given one, or a file is in its way.
LEMMA RecordRestored ==
    ASSUME SharedInv, Ntfs, NtfsInv, RecoverRecord,
           Len(mft.entries) = Len(volume.records),
           NEW n \in 1 .. MAX_PATH_DEPTH, IsRestorable(mft.next, n),
           SomeLeft(PathOf(mft.entries[mft.next])),
           NEW path, path = Names(mft.next - 1, n)
    PROVE  \E f \in recovered' :
              \/ /\ f.of = mft.entries[mft.next].record
                 /\ f.clusters = read_data(mft.entries[mft.next])
              \/ IsStrictPrefix(f.path, path)
<1>1. AtRecord /\ EntriesInv /\ mft.next \in 1 .. Len(mft.entries)
  <2>1. AtRecord
    BY Zenon DEF RecoverRecord
  <2> QED
    BY <2>1, CurrentIs DEF NtfsInv
<1>2. PICK i \in 1 .. Len(mft.entries) : i = mft.next
  BY <1>1
<1>3. PICK e : e = mft.entries[i]
  OBVIOUS
<1>c. Current = e
  BY <1>2, <1>3 DEF Current
<1>4. /\ HasFile(e) /\ e.in_use /\ read_data(e) # None
      /\ IsPathLength(i - 1, n)
      /\ IsInjective(Front(path)) /\ AllNamed(path)
      /\ volume.filter # None => path_within(volume.filter, path)
  BY <1>2, <1>3, Zenon DEF IsRestorable, AllNamed
<1>5. e # None
  BY <1>4, Zenon DEF HasFile
<1>6. PICK dir : dir = resolve_dir_path(mft.entries, e.parent)
  OBVIOUS
<1>7. dir # None /\ path = Append(dir, e.name)
  BY <1>1, <1>2, <1>3, <1>4, <1>5, <1>6, PathFound
<1>8. PathOf(e) = path
  BY <1>6, <1>7, Zenon DEF PathOf
<1>9. Wanted(e)
  BY <1>4, <1>6, <1>7, <1>8, Zenon DEF Wanted
<1>10. Contents(e) = read_data(e) /\ Contents(e) # None
  BY <1>4, Zenon DEF Contents, IsStale
<1>11. CASE Writable(path)
  <2>1. Written(path, e, Contents(e))
    <3>1. Writes(e)
      BY <1>4, <1>8, <1>9, <1>10, <1>11, Zenon DEF Writes
    <3> QED
      BY <1>8, <1>c, <3>1, Zenon DEF RecoverRecord
  <2>2. PICK g : g = File(path, Unique(path), e.record, Contents(e))
    OBVIOUS
  <2>3. g \in recovered' /\ g.of = e.record /\ g.clusters = Contents(e)
    <3>1. g \in recovered'
      BY <2>1, <2>2, Zenon DEF Written
    <3> QED
      BY <2>2, <3>1 DEF File
  <2> QED
    BY <1>2, <1>3, <1>10, <2>3
<1>12. CASE ~ Writable(path)
  <2>1. recovered' = recovered
    <3>1. ~ Writes(e)
      BY <1>8, <1>12, Zenon DEF Writes
    <3> QED
      BY <1>c, <3>1, Zenon DEF RecoverRecord
  <2>2. PICK k \in 1 .. Len(path) - 1 : IsFile(SubSeq(path, 1, k))
    <3>1. Unique(path) = 0 => ~ IsDirectory(path)
      <4>1. SomeLeft(path)
        BY <1>2, <1>3, <1>8
      <4> QED
        BY <4>1, UniqueIsFree
    <3> QED
      BY <1>12, <3>1 DEF Writable
  <2>3. PICK f \in recovered : f.path = SubSeq(path, 1, k)
    BY <2>2 DEF IsFile
  <2>4. path \in Seq(STRING)
    <3>1. dir \in Seq(STRING)
      <4>1. Resolved(i, e, dir, path)
        BY <1>3, <1>5, <1>6, <1>7, Zenon DEF Resolved
      <4> QED
        BY <1>1, <4>1, PathUp
    <3>2. PICK name \in STRING : name = e.name
      <4>1. e \in MftEntry
        BY <1>1, <1>3, <1>5, EntryIs
      <4> QED
        BY <4>1 DEF MftEntry
    <3>3. PICK S : S = STRING
      OBVIOUS
    <3>4. dir \in Seq(S) /\ name \in S
      BY <3>1, <3>2, <3>3
    <3> QED
      BY <1>7, <3>2, <3>3, <3>4
  <2>5. IsStrictPrefix(f.path, path)
    <3>1. PICK S : S = STRING
      OBVIOUS
    <3>2. path \in Seq(S)
      BY <2>4, <3>1
    <3>3. PICK u : u = SubSeq(path, 1, k)
      OBVIOUS
    <3>4. u \in Seq(S) /\ Len(u) = k /\ k < Len(path)
      BY <2>2, <3>2, <3>3
    <3>5. SubSeq(u, 1, k) = u
      BY <3>4
    <3> QED
      BY <2>3, <3>2, <3>3, <3>4, <3>5 DEF IsStrictPrefix, IsPrefix
  <2> QED
    BY <2>1, <2>5
<1> QED
  BY <1>11, <1>12

\* Every file that a step writes is where the tree says.
LEMMA StepPath ==
    ASSUME SharedInv, Ntfs, NtfsInv, PathIsChain, RecoverRecord \/ RecoverFails
    PROVE  PathIsChain'
<1>1. AtRecord /\ EntriesInv /\ mft.next \in 1 .. Len(mft.entries)
  <2>1. AtRecord
    BY Zenon DEF RecoverRecord, RecoverFails
  <2> QED
    BY <2>1, CurrentIs DEF NtfsInv
<1>2. PICK i \in 1 .. Len(mft.entries) : i = mft.next
  BY <1>1
<1>3. PICK e : e = mft.entries[i]
  OBVIOUS
<1>c. Current = e
  BY <1>2, <1>3 DEF Current
<1>4. UNCHANGED volume
  BY Zenon DEF RecoverRecord, RecoverFails
<1>a. ASSUME e # None, NEW dir, dir = resolve_dir_path(mft.entries, e.parent), dir # None,
             NEW p, p = Append(dir, e.name)
      PROVE  IsPathLength(i - 1, Len(p)) /\ p = Names(i - 1, Len(p))
  <2>1. EntriesInv
    BY <1>1
  <2>2. e = mft.entries[i]
    BY <1>3
  <2>3. Resolved(i, e, dir, p)
    BY <1>a, <2>2, Zenon DEF Resolved
  <2> QED
    BY <2>1, <2>3, PathUp
<1> DEFINE InTree(r, p) == /\ IsPathLength(r, Len(p)) /\ p = Names(r, Len(p))
                           /\ volume.filter # None => path_within(volume.filter, p)
           Lost(p) == volume.filter = None /\ p[1] = "$DELETED"
<1>5. \A f \in recovered : InTree(f.of, f.path) \/ Lost(f.path)
  BY Zenon DEF PathIsChain
<1>6. ASSUME HasFile(e), Wanted(e)
      PROVE  InTree(e.record, PathOf(e)) \/ Lost(PathOf(e))
  <2>1. e # None
    BY <1>6, Zenon DEF HasFile
  <2>2. PICK dir : dir = resolve_dir_path(mft.entries, e.parent)
    OBVIOUS
  <2>3. CASE dir = None
    <3>1. volume.filter = None
      BY <1>6, <2>2, <2>3, Zenon DEF Wanted
    <3>2. PathOf(e) = << "$DELETED", e.name >>
      BY <2>2, <2>3, Zenon DEF PathOf
    <3>3. PathOf(e)[1] = "$DELETED"
      BY <3>2
    <3> QED
      BY <3>1, <3>3, Zenon
  <2>4. CASE dir # None
    <3>1. PICK p : p = Append(dir, e.name)
      OBVIOUS
    <3>2. PathOf(e) = p
      BY <2>2, <2>4, <3>1, Zenon DEF PathOf
    <3>3. IsPathLength(i - 1, Len(p)) /\ p = Names(i - 1, Len(p))
      BY <1>a, <2>1, <2>2, <2>4, <3>1, Zenon
    <3>4. e.record = i - 1
      BY <1>1, <1>3, <2>1, EntryIs
    <3>5. volume.filter # None => path_within(volume.filter, p)
      BY <1>6, <3>2, Zenon DEF Wanted
    <3> QED
      BY <3>2, <3>3, <3>4, <3>5, Zenon
  <2> QED
    BY <2>3, <2>4
<1>7. \A f \in recovered' : InTree(f.of, f.path) \/ Lost(f.path)
  <2>1. \/ UNCHANGED recovered
        \/ Writes(e) /\ \E clusters : Written(PathOf(e), e, clusters)
    <3>1. CASE RecoverRecord
      BY <1>c, <3>1, Zenon DEF RecoverRecord
    <3>2. CASE RecoverFails
      BY <1>c, <3>2, Zenon DEF RecoverFails
    <3> QED
      BY <3>1, <3>2
  <2>2. Writes(e) => HasFile(e) /\ Wanted(e)
    BY Zenon DEF Writes
  <2>3. CASE UNCHANGED recovered
    BY <1>5, <2>3, Zenon
  <2>4. CASE Writes(e) /\ \E clusters : Written(PathOf(e), e, clusters)
    <3>1. PICK path : path = PathOf(e)
      OBVIOUS
    <3>0. PICK clusters : Written(path, e, clusters)
      BY <2>4, <3>1
    <3>2. PICK g : g = File(path, Unique(path), e.record, clusters)
      OBVIOUS
    <3>3. g.of = e.record /\ g.path = path
      BY <3>2 DEF File
    <3>4. \A f \in recovered' : f \in recovered \/ f = g
      BY <3>0, <3>2, Zenon DEF Written
    <3>5. InTree(g.of, g.path) \/ Lost(g.path)
      BY <1>6, <2>2, <2>4, <3>1, <3>3, Zenon
    <3> QED
      BY <1>5, <3>4, <3>5, Zenon
  <2> QED
    BY <2>1, <2>3, <2>4
<1>8. \A r, m : /\ Names(r, m)' = Names(r, m)
                /\ IsPathLength(r, m)' <=> IsPathLength(r, m)
  BY <1>4, TreeStays
<1> QED
  BY <1>4, <1>7, <1>8, Zenon DEF PathIsChain, path_within

\* A record that can be restored has been, unless that failed or a file is in its way.
IsRestored(i) ==
    \A n \in 1 .. MAX_PATH_DEPTH :
        IsRestorable(i, n) =>
            \/ mft.entries[i].record \in mft.failed
            \/ \E f \in recovered :
                  \/ f.of = mft.entries[i].record /\ f.clusters = read_data(mft.entries[i])
                  \/ IsStrictPrefix(f.path, Names(i - 1, n))

\* Unless the pass is stopped all records are read, and those it has passed are
\* restored.
RestoredInv ==
    pc \in { "pass2", "mark", "done" } /\ volume.opens /\ ~ need_to_stop =>
        /\ Len(mft.entries) = Len(volume.records)
        /\ \A i \in 1 .. Len(mft.entries) : (pc = "pass2" => i < mft.next) => IsRestored(i)

TreeInv == Ntfs => PathIsChain /\ RestoredInv

\* What has been restored stays so.
LEMMA IsRestoredStays ==
    ASSUME UNCHANGED volume, mft'.entries = mft.entries, recovered \subseteq recovered',
           mft.failed \subseteq mft'.failed, NEW i, IsRestored(i)
    PROVE  IsRestored(i)'
<1>1. \A n : IsRestorable(i, n)' <=> IsRestorable(i, n)
  BY RestoredStays
<1>2. \A n : Names(i - 1, n)' = Names(i - 1, n)
  BY TreeStays
<1>3. read_data(mft.entries[i])' = read_data(mft.entries[i])
  BY DataStays
<1>4. mft.entries[i].record' = mft.entries[i].record
  OBVIOUS
<1>5. ASSUME NEW n \in 1 .. MAX_PATH_DEPTH, IsRestorable(i, n)'
      PROVE  \/ mft'.entries[i].record \in mft'.failed
             \/ \E f \in recovered' :
                   \/ f.of = mft'.entries[i].record /\ f.clusters = read_data(mft.entries[i])'
                   \/ IsStrictPrefix(f.path, Names(i - 1, n)')
  <2>1. \/ mft.entries[i].record \in mft.failed
        \/ \E f \in recovered :
              \/ f.of = mft.entries[i].record /\ f.clusters = read_data(mft.entries[i])
              \/ IsStrictPrefix(f.path, Names(i - 1, n))
    BY <1>1, <1>5, Zenon DEF IsRestored
  <2> QED
    BY <1>2, <1>3, <2>1
<1> QED
  BY <1>5, Zenon DEF IsRestored

\* A record that is not written is noted.
LEMMA FailedIs ==
    ASSUME SharedInv, Ntfs, NtfsInv, RecoverFails
    PROVE  Current.record \in mft'.failed
<1>1. mft \in MftState
  BY DEF NtfsInv, EntriesInv
<1>2. PICK next, failed : /\ mft' = [ mft EXCEPT !.next = next, !.failed = failed ]
                          /\ failed = mft.failed \cup { Current.record }
  BY Zenon DEF RecoverFails
<1> QED
  BY <1>1, <1>2 DEF MftState

\* Every step of the pass keeps the tree.
LEMMA StepTree ==
    ASSUME NamesSuffice, IInv, CountInv, TreeInv, [Next]_vars
    PROVE  TreeInv'
<1>1. SharedInv /\ NtfsInv /\ UNCHANGED volume
  BY VolumeStays DEF IInv
<1>2. SUFFICES ASSUME Ntfs PROVE PathIsChain' /\ RestoredInv'
  BY <1>1 DEF TreeInv, Ntfs
<1>3. /\ EntriesInv /\ RangesInv /\ mft \in MftState
      /\ PathIsChain /\ RestoredInv
  BY <1>1, <1>2 DEF NtfsInv, EntriesInv, TreeInv
<1>4. mft.next \in Nat /\ mft.entries \in Seq(MftEntry \cup { None })
  BY <1>3 DEF MftState
<1>5. \/ NtfsStep
      \/ UNCHANGED << pc, recovered, mft >> /\ (need_to_stop => need_to_stop')
  BY <1>1, <1>2, PassIs, VolumeIs DEF SharedInv, Next, Pass, kaifuku_stop, vars, unformat
\* As long as no file is written the chains stay.
<1>6. ASSUME UNCHANGED recovered PROVE PathIsChain'
  <2>1. \A r, m : /\ Names(r, m)' = Names(r, m)
                  /\ IsPathLength(r, m)' <=> IsPathLength(r, m)
    BY <1>1, TreeStays
  <2> QED
    BY <1>1, <1>3, <1>6, <2>1, Zenon DEF PathIsChain, path_within
\* And what has been restored when the entries stay too.
<1>7. ASSUME UNCHANGED recovered, mft'.entries = mft.entries, mft'.failed = mft.failed,
             need_to_stop => need_to_stop',
             pc \in { "pass2", "mark", "done" },
             pc' = "pass2" => pc = "pass2" /\ mft'.next = mft.next,
             pc = "pass2" /\ pc' # "pass2" => need_to_stop \/ mft.next > Len(mft.entries)
      PROVE  RestoredInv'
  <2> SUFFICES ASSUME volume.opens, ~ need_to_stop'
               PROVE  /\ Len(mft.entries) = Len(volume.records)
                      /\ \A i \in 1 .. Len(mft.entries) :
                            (pc' = "pass2" => i < mft'.next) => IsRestored(i)'
    BY <1>1, <1>7 DEF RestoredInv
  <2>1. /\ Len(mft.entries) = Len(volume.records)
        /\ \A i \in 1 .. Len(mft.entries) : (pc = "pass2" => i < mft.next) => IsRestored(i)
    BY <1>3, <1>7 DEF RestoredInv
  <2>2. ASSUME NEW i \in 1 .. Len(mft.entries), pc' = "pass2" => i < mft'.next
        PROVE  IsRestored(i)'
    <3>1. pc = "pass2" => i < mft.next
      BY <1>4, <1>7, <2>2
    <3>2. IsRestored(i)
      BY <2>1, <3>1
    <3> QED
      BY <1>1, <1>7, <3>2, IsRestoredStays
  <2> QED
    BY <2>1, <2>2
<1>8. CASE UNCHANGED << pc, recovered, mft >> /\ (need_to_stop => need_to_stop')
  <2>1. RestoredInv'
    <3>1. CASE pc \in { "pass2", "mark", "done" }
      BY <1>7, <1>8, <3>1
    <3>2. CASE pc \notin { "pass2", "mark", "done" }
      BY <1>8, <3>2 DEF RestoredInv
    <3> QED
      BY <3>1, <3>2
  <2> QED
    BY <1>6, <1>8, <2>1
<1>9. CASE open
  <2>1. UNCHANGED recovered /\ pc' = IF volume.opens THEN "pass1" ELSE "done"
    BY <1>9 DEF open
  <2>2. RestoredInv'
    BY <1>1, <2>1 DEF RestoredInv
  <2> QED
    BY <1>6, <2>1, <2>2
<1>10. CASE ReadBatch
  <2>1. UNCHANGED recovered /\ pc' = "pass1"
    BY <1>10, Zenon DEF ReadBatch, unformat
  <2>2. RestoredInv'
    BY <2>1 DEF RestoredInv
  <2> QED
    BY <1>6, <2>1, <2>2
<1>11. CASE CollectRanges
  <2>1. /\ UNCHANGED << recovered, need_to_stop >> /\ pc = "pass1" /\ pc' = "pass2"
        /\ need_to_stop \/ mft.next = Len(volume.records)
        /\ \E ranges : mft' = [ mft EXCEPT !.next = 1, !.ranges = ranges ]
    BY <1>11, Zenon DEF CollectRanges
  <2>2. mft'.entries = mft.entries /\ mft'.next = 1
    BY <1>3, <2>1 DEF MftState
  <2>3. ~ need_to_stop => Len(mft.entries) = Len(volume.records)
    BY <1>3, <2>1 DEF EntriesInv
  <2>4. \A i \in 1 .. Len(mft.entries) : ~ i < 1
    BY <1>4
  <2>5. RestoredInv'
    BY <1>1, <2>1, <2>2, <2>3, <2>4 DEF RestoredInv
  <2> QED
    BY <1>6, <2>1, <2>5
<1>12. CASE RecoverRecord \/ RecoverFails
  <2>1. PathIsChain'
    BY <1>1, <1>2, <1>3, <1>12, StepPath
  <2>2. CountInv
    OBVIOUS
  <2>3. PICK e : e = Current
    OBVIOUS
  <2>4. /\ AtRecord /\ pc = "pass2" /\ ~ need_to_stop /\ UNCHANGED << pc, need_to_stop >>
        /\ mft'.entries = mft.entries /\ mft'.next = mft.next + 1
        /\ mft.failed \subseteq mft'.failed /\ recovered \subseteq recovered'
    BY <1>1, <1>2, <1>12, RecoverIs DEF AtRecord
  <2>5. RecoverFails /\ ~ RecoverRecord => e.record \in mft'.failed
    BY <1>1, <1>2, <2>3, FailedIs
  <2>6. volume.opens /\ Len(mft.entries) = Len(volume.records)
    BY <1>3, <2>4 DEF RestoredInv, RangesInv
  <2>7. ASSUME NEW i \in 1 .. Len(mft.entries), i < mft'.next PROVE IsRestored(i)'
    <3>1. CASE i < mft.next
      <4>1. IsRestored(i)
        BY <1>3, <2>4, <2>6, <3>1 DEF RestoredInv
      <4> QED
        BY <1>1, <2>4, <4>1, IsRestoredStays
    <3>2. CASE ~ i < mft.next
      <4>1. i = mft.next /\ e = mft.entries[i]
        BY <1>4, <2>3, <2>4, <2>7, <3>2 DEF Current
      <4>2. \A n : /\ IsRestorable(i, n)' <=> IsRestorable(i, n)
                   /\ Names(i - 1, n)' = Names(i - 1, n)
        BY <1>1, <2>4, RestoredStays, TreeStays
      <4>3. read_data(mft.entries[i])' = read_data(e)
        BY <1>1, <2>4, <4>1, DataStays
      <4>4. ASSUME NEW n \in 1 .. MAX_PATH_DEPTH, IsRestorable(i, n)
            PROVE  \/ e.record \in mft'.failed
                   \/ \E f \in recovered' :
                         \/ f.of = e.record /\ f.clusters = read_data(e)
                         \/ IsStrictPrefix(f.path, Names(i - 1, n))
        <5>1. CASE RecoverRecord
          <6>1. PICK path : path = Names(i - 1, n)
            OBVIOUS
          <6>2. HasFile(e)
            BY <4>1, <4>4, Zenon DEF IsRestorable
          <6>3. SomeLeft(PathOf(mft.entries[mft.next]))
            BY <1>1, <1>2, <2>3, <2>4, <4>1, <6>2, CurrentName
          <6>4. \E f \in recovered' :
                   \/ f.of = mft.entries[i].record /\ f.clusters = read_data(mft.entries[i])
                   \/ IsStrictPrefix(f.path, path)
            BY <1>1, <1>2, <2>6, <4>1, <4>4, <5>1, <6>1, <6>3, RecordRestored
          <6> QED
            BY <4>1, <6>1, <6>4
        <5>2. CASE ~ RecoverRecord
          BY <1>12, <2>5, <5>2
        <5> QED
          BY <5>1, <5>2
      <4> QED
        BY <2>4, <4>1, <4>2, <4>3, <4>4, Zenon DEF IsRestored
    <3> QED
      BY <3>1, <3>2
  <2>8. RestoredInv'
    BY <1>1, <2>4, <2>6, <2>7 DEF RestoredInv
  <2> QED
    BY <2>1, <2>8
<1>p. CASE PathPanics
  <2>1. UNCHANGED recovered /\ pc' = "caught"
    BY <1>p DEF PathPanics
  <2>2. RestoredInv'
    BY <2>1 DEF RestoredInv
  <2> QED
    BY <1>6, <2>1, <2>2
<1>13. CASE EndOfRecords
  <2>1. /\ UNCHANGED << recovered, need_to_stop, mft >> /\ pc = "pass2" /\ pc' = "mark"
        /\ need_to_stop \/ mft.next > Len(mft.entries)
    BY <1>13 DEF EndOfRecords
  <2> QED
    BY <1>6, <1>7, <2>1
<1>14. CASE mark_used_ranges
  <2>1. /\ pc = "mark" /\ UNCHANGED << recovered, need_to_stop >> /\ pc' \in { "mark", "done" }
        /\ mft' = mft \/ mft' = [ mft EXCEPT !.ranges = Tail(mft.ranges) ]
    BY <1>14 DEF mark_used_ranges
  <2>2. mft'.entries = mft.entries /\ mft'.failed = mft.failed
    BY <1>3, <2>1 DEF MftState
  <2> QED
    BY <1>6, <1>7, <2>1, <2>2
<1> QED
  BY <1>5, <1>8, <1>9, <1>10, <1>11, <1>12, <1>p, <1>13, <1>14 DEF NtfsStep

\* When no name is that of as many files as write_unique tries names, what the NTFS
\* pass writes is of the tree of the volume, at whatever step it is stopped, fails or
\* panics; and a pass that comes to its end has written every file in use that can be
\* read, whole, but those whose own read or write failed or in whose way a file was.
THEOREM TreeIsRestored == ASSUME NamesSuffice PROVE Spec => []TreeRestored
<1>1. Init => TreeInv
  <2> SUFFICES ASSUME Init, Ntfs PROVE PathIsChain /\ RestoredInv
    BY DEF TreeInv
  <2>1. recovered = {} /\ pc = "open"
    BY DEF Init, UnformatInit, NtfsInit, Ntfs
  <2>2. PathIsChain
    BY <2>1, Zenon DEF PathIsChain
  <2> QED
    BY <2>1, <2>2 DEF RestoredInv
<1>2. IInv /\ CountInv /\ TreeInv /\ [Next]_vars => CountInv' /\ TreeInv'
  BY StepCount, StepTree
<1>3. IInv /\ TreeInv => TreeRestored
  <2> SUFFICES ASSUME IInv, TreeInv, Ntfs PROVE PathIsChain /\ InUseRecovered
    BY DEF TreeRestored
  <2>1. PathIsChain /\ RestoredInv /\ DOMAIN mft.entries = 1 .. Len(mft.entries)
    BY DEF TreeInv, IInv, NtfsInv, EntriesInv, MftState
  <2>2. pc = "done" /\ volume.opens /\ ~ need_to_stop =>
           \A i \in DOMAIN mft.entries : IsRestored(i)
    BY <2>1 DEF RestoredInv
  <2>3. InUseRecovered
    BY <2>2, Zenon DEF InUseRecovered, IsRestored
  <2> QED
    BY <2>1, <2>3
<1> QED
  BY <1>1, <1>2, <1>3, InitCount, Invariance, PTL DEF Spec

-----------------------------------------------------------------------------
(* The tree of directories of a FAT volume *)

\* One more link of a chain of the FAT.
StepLink(data, to) ==
    IF Last(to) \in data THEN Append(to, get_next_cluster(Last(to))) ELSE to

\* It makes a chain of cluster numbers from one.
LEMMA StepLinkType ==
    ASSUME \A m : get_next_cluster(m) \in Nat, NEW data, NEW to \in Seq(Nat)
    PROVE  StepLink(data, to) \in Seq(Nat)
<1>1. PICK m : m = Last(to)
  OBVIOUS
<1>2. get_next_cluster(m) \in Nat
  OBVIOUS
<1>3. Append(to, get_next_cluster(m)) \in Seq(Nat)
  BY <1>2
<1> QED
  BY <1>1, <1>3 DEF StepLink

\* w goes from the first cluster to the chain, one cluster at a time.
LinkSteps(w, data, c0, n) ==
    /\ w[0] = << c0 >> /\ w[n] = Links(data, c0, n)
    /\ \A k \in 1 .. n : w[k] = StepLink(data, w[k - 1])

\* Links is the last of a chain of such steps.
LEMMA LinksChain ==
    ASSUME \A m : get_next_cluster(m) \in Nat, NEW data, NEW c0 \in Nat, NEW n \in Nat
    PROVE  \E w : LinkSteps(w, data, c0, n)
<1> DEFINE l == [ k \in 1 .. n |-> k ]
           X == Seq(Nat)
           F == [ t \in (1 .. n) \X X |-> StepLink(data, t[2]) ]
           Eq(g) == g = [ s \in SUBSET (DOMAIN l) |->
                           IF s = {} THEN << c0 >> ELSE StepLink(data, g[s \ { Max(s) }]) ]
           c == CHOOSE g : Eq(g)
<1>1. Links(data, c0, n) = c[DOMAIN l]
  BY DEF Links, FoldLeft, MapThenFoldSet, StepLink
<1>a. DOMAIN l = 1 .. n
  OBVIOUS
<1>2. \A i \in 1 .. n : \A m \in X : F[<< i, m >>] = StepLink(data, m)
  OBVIOUS
<1>3. F \in [(1 .. n) \X X -> X] /\ << c0 >> \in X
  BY StepLinkType
<1> HIDE DEF F, l, X
<1>4. PICK g \in [SUBSET (1 .. n) -> X] : FoldEquation(g, n, << c0 >>, F)
  BY <1>3, FoldExists
<1>5. ASSUME NEW s \in SUBSET (1 .. n)
      PROVE  g[s] = IF s = {} THEN << c0 >> ELSE StepLink(data, g[s \ { Max(s) }])
  <2>1. g[s] = IF s = {} THEN << c0 >> ELSE F[<< Max(s), g[s \ { Max(s) }] >>]
    BY <1>4 DEF FoldEquation
  <2>2. CASE s # {}
    <3>1. Max(s) \in s
      BY <2>2, MaxProperty
    <3>2. g[s \ { Max(s) }] \in X
      BY <1>4
    <3> QED
      BY <1>2, <2>1, <2>2, <3>1, <3>2
  <2> QED
    BY <2>1, <2>2
<1>6. Eq(g)
  BY <1>4, <1>5, <1>a
<1>7. Eq(c)
  BY <1>6
<1> HIDE DEF c
<1> DEFINE w == [ k \in 0 .. n |-> c[1 .. k] ]
<1>8. w[0] = << c0 >>
  <2>1. 1 .. 0 = {} /\ {} \in SUBSET (DOMAIN l) /\ 0 \in 0 .. n
    BY <1>a
  <2> QED
    BY <1>7, <2>1
<1>9. ASSUME NEW k \in 1 .. n
      PROVE  w[k] = StepLink(data, w[k - 1])
  <2>1. Max(1 .. k) = k /\ 1 .. k # {} /\ (1 .. k) \ { k } = 1 .. (k - 1)
    <3>1. k \in Nat /\ k >= 1
      OBVIOUS
    <3> QED
      BY <3>1, UpTo
  <2>2. 1 .. k \in SUBSET (DOMAIN l)
    BY <1>a
  <2>3. k - 1 \in 0 .. n /\ k \in 0 .. n
    OBVIOUS
  <2> QED
    BY <1>7, <2>1, <2>2, <2>3
<1>10. w[n] = Links(data, c0, n)
  BY <1>1, <1>a
<1> HIDE DEF w
<1> WITNESS w
<1> QED
  BY <1>8, <1>9, <1>10 DEF LinkSteps

\* Links(data, c0, n), by steps.
LEMMA LinksIs ==
    ASSUME \A m : get_next_cluster(m) \in Nat, NEW data, NEW c0 \in Nat
    PROVE  /\ Links(data, c0, 0) = << c0 >>
           /\ \A n \in Nat : /\ Links(data, c0, n) \in Seq(Nat)
                             /\ Links(data, c0, n + 1) = StepLink(data, Links(data, c0, n))
<1>0. ASSUME NEW n \in Nat
      PROVE  \E w : LinkSteps(w, data, c0, n)
  BY LinksChain
<1>1. Links(data, c0, 0) = << c0 >>
  <2>1. PICK z \in Nat : z = 0
    OBVIOUS
  <2>2. PICK w : /\ w[0] = << c0 >> /\ w[z] = Links(data, c0, z)
                 /\ \A k \in 1 .. z : w[k] = StepLink(data, w[k - 1])
    BY <1>0, Zenon DEF LinkSteps
  <2> QED
    BY <2>1, <2>2
<1> DEFINE X == Seq(Nat)
<1>x. << c0 >> \in X /\ \A x \in X : StepLink(data, x) \in X
  BY StepLinkType
<1>2. ASSUME NEW n \in Nat
      PROVE  Links(data, c0, n) \in X /\ Links(data, c0, n + 1) = StepLink(data, Links(data, c0, n))
  <2> HIDE DEF X
  <2>1. PICK w : /\ w[0] = << c0 >> /\ w[n] = Links(data, c0, n)
                 /\ \A k \in 1 .. n : w[k] = StepLink(data, w[k - 1])
    BY <1>0, Zenon DEF LinkSteps
  <2>2. PICK m \in Nat : m = n + 1
    OBVIOUS
  <2>3. PICK v : /\ v[0] = << c0 >> /\ v[m] = Links(data, c0, m)
                 /\ \A k \in 1 .. m : v[k] = StepLink(data, v[k - 1])
    BY <1>0, Zenon DEF LinkSteps
  <2> DEFINE T == { k \in 0 .. n : v[k] = w[k] /\ w[k] \in X }
  <2>4. 0 \in T
    BY <1>x, <2>1, <2>3
  <2>5. ASSUME NEW k \in 1 .. n, k - 1 \in T PROVE k \in T
    <3>1. v[k - 1] = w[k - 1] /\ w[k - 1] \in X
      BY <2>5
    <3>2. w[k] = StepLink(data, w[k - 1]) /\ v[k] = StepLink(data, v[k - 1])
      BY <2>1, <2>2, <2>3
    <3>3. w[k] \in X
      BY <1>x, <3>1, <3>2
    <3> QED
      BY <3>1, <3>2, <3>3
  <2>6. 0 .. n \subseteq T
    <3> HIDE DEF T
    <3> QED
      BY <2>4, <2>5, SetInduction
  <2>7. v[n] = w[n] /\ w[n] \in X
    BY <2>6
  <2>8. v[m] = StepLink(data, v[m - 1])
    BY <2>2, <2>3
  <2> QED
    BY <2>1, <2>2, <2>3, <2>7, <2>8
<1> QED
  BY <1>1, <1>2

\* One step of the loop that sizes the buffer of a directory.
Sized == [ length : Nat, next : Nat ]

StepSize(t) ==
    IF InChain(t.next) THEN [ length |-> t.length + 1, next |-> get_next_cluster(t.next) ] ELSE t

SizeAfter(c0, n) ==
    FoldLeft(LAMBDA t, k : IF InChain(t.next)
                             THEN [ length |-> t.length + 1, next |-> get_next_cluster(t.next) ]
                             ELSE t,
             [ length |-> 0, next |-> c0 ], [ k \in 1 .. n |-> k ])

\* It counts one more cluster or none.
LEMMA StepSizeType ==
    ASSUME \A m : get_next_cluster(m) \in Nat, NEW t \in Sized
    PROVE  StepSize(t) \in Sized
BY DEF StepSize, Sized

\* The loop makes a chain of such steps.
LEMMA SizeChain ==
    ASSUME \A m : get_next_cluster(m) \in Nat, NEW c0 \in Nat, NEW n \in Nat
    PROVE  \E w : /\ w[0] = [ length |-> 0, next |-> c0 ] /\ w[n] = SizeAfter(c0, n)
                  /\ \A k \in 1 .. n : w[k] = StepSize(w[k - 1])
<1> DEFINE l == [ k \in 1 .. n |-> k ]
           X == Sized
           F == [ t \in (1 .. n) \X X |-> StepSize(t[2]) ]
           Eq(g) == g = [ s \in SUBSET (DOMAIN l) |->
                           IF s = {} THEN [ length |-> 0, next |-> c0 ] ELSE StepSize(g[s \ { Max(s) }]) ]
           c == CHOOSE g : Eq(g)
<1>1. SizeAfter(c0, n) = c[DOMAIN l]
  BY DEF SizeAfter, FoldLeft, MapThenFoldSet, StepSize
<1>a. DOMAIN l = 1 .. n
  OBVIOUS
<1>2. \A i \in 1 .. n : \A m \in X : F[<< i, m >>] = StepSize(m)
  OBVIOUS
<1>3. F \in [(1 .. n) \X X -> X] /\ [ length |-> 0, next |-> c0 ] \in X
  BY StepSizeType DEF Sized
<1> HIDE DEF F, l, X
<1>4. PICK g \in [SUBSET (1 .. n) -> X] : FoldEquation(g, n, [ length |-> 0, next |-> c0 ], F)
  BY <1>3, FoldExists
<1>5. ASSUME NEW s \in SUBSET (1 .. n)
      PROVE  g[s] = IF s = {} THEN [ length |-> 0, next |-> c0 ] ELSE StepSize(g[s \ { Max(s) }])
  <2>1. g[s] = IF s = {} THEN [ length |-> 0, next |-> c0 ] ELSE F[<< Max(s), g[s \ { Max(s) }] >>]
    BY <1>4 DEF FoldEquation
  <2>2. CASE s # {}
    <3>1. Max(s) \in s
      BY <2>2, MaxProperty
    <3>2. g[s \ { Max(s) }] \in X
      BY <1>4
    <3> QED
      BY <1>2, <2>1, <2>2, <3>1, <3>2
  <2> QED
    BY <2>1, <2>2
<1>6. Eq(g)
  BY <1>4, <1>5, <1>a
<1>7. Eq(c)
  BY <1>6
<1> HIDE DEF c
<1> DEFINE w == [ k \in 0 .. n |-> c[1 .. k] ]
<1>8. w[0] = [ length |-> 0, next |-> c0 ]
  <2>1. 1 .. 0 = {} /\ {} \in SUBSET (DOMAIN l) /\ 0 \in 0 .. n
    BY <1>a
  <2> QED
    BY <1>7, <2>1
<1>9. ASSUME NEW k \in 1 .. n
      PROVE  w[k] = StepSize(w[k - 1])
  <2>1. Max(1 .. k) = k /\ 1 .. k # {} /\ (1 .. k) \ { k } = 1 .. (k - 1)
    <3>1. k \in Nat /\ k >= 1
      OBVIOUS
    <3> QED
      BY <3>1, UpTo
  <2>2. 1 .. k \in SUBSET (DOMAIN l)
    BY <1>a
  <2>3. k - 1 \in 0 .. n /\ k \in 0 .. n
    OBVIOUS
  <2> QED
    BY <1>7, <2>1, <2>2, <2>3
<1>10. w[n] = SizeAfter(c0, n)
  BY <1>1, <1>a
<1> HIDE DEF w
<1> WITNESS w
<1> QED
  BY <1>8, <1>9, <1>10

\* The buffer of a directory is at most KF_FAT_MAX_DIR_CLUSTERS long.
LEMMA ChainLengthIs ==
    ASSUME \A m : get_next_cluster(m) \in Nat, NEW c0 \in Nat
    PROVE  ChainLength(c0) \in 0 .. KF_FAT_MAX_DIR_CLUSTERS
<1>1. PICK n \in Nat : n = KF_FAT_MAX_DIR_CLUSTERS
  BY FatWalkAssumption
<1>2. ChainLength(c0) = SizeAfter(c0, n).length
  BY <1>1, Zenon DEF ChainLength, SizeAfter
<1>3. PICK w : /\ w[0] = [ length |-> 0, next |-> c0 ] /\ w[n] = SizeAfter(c0, n)
               /\ \A k \in 1 .. n : w[k] = StepSize(w[k - 1])
  BY SizeChain
<1> DEFINE T == { k \in 0 .. n : w[k] \in Sized /\ w[k].length <= k }
<1>4. 0 \in T
  BY <1>3 DEF Sized
<1>5. ASSUME NEW k \in 1 .. n, k - 1 \in T PROVE k \in T
  <2>1. PICK t \in Sized : t = w[k - 1] /\ t.length <= k - 1
    BY <1>5
  <2>2. w[k] = StepSize(t)
    BY <1>3, <2>1
  <2>3. StepSize(t) \in Sized
    BY <2>1, StepSizeType
  <2>4. StepSize(t).length <= t.length + 1
    BY <2>1 DEF StepSize, Sized
  <2>5. StepSize(t).length <= k
    BY <2>1, <2>3, <2>4 DEF Sized
  <2> QED
    BY <2>2, <2>3, <2>5
<1>6. 0 .. n \subseteq T
  <2> HIDE DEF T
  <2> QED
    BY <1>4, <1>5, SetInduction
<1>7. n \in T
  BY <1>6
<1> QED
  BY <1>1, <1>2, <1>3, <1>7 DEF Sized

\* A chain has a cluster, and the next is added as long as the last is in data.
LEMMA LinksShape ==
    ASSUME \A m : get_next_cluster(m) \in Nat, NEW data, NEW c0 \in Nat, NEW n \in Nat
    PROVE  /\ Links(data, c0, n) \in Seq(Nat) /\ Len(Links(data, c0, n)) >= 1
           /\ Last(Links(data, c0, n)) \in Nat
<1> DEFINE T == { k \in 0 .. n : Len(Links(data, c0, k)) >= 1 }
<1>1. 0 \in T
  <2>1. Links(data, c0, 0) = << c0 >>
    BY LinksIs
  <2>2. Len(<< c0 >>) = 1
    OBVIOUS
  <2> QED
    BY <2>1, <2>2
<1>2. ASSUME NEW k \in 1 .. n, k - 1 \in T PROVE k \in T
  <2>1. PICK m \in Nat : m = k - 1 /\ m + 1 = k
    OBVIOUS
  <2>2. PICK L \in Seq(Nat) : L = Links(data, c0, m)
    BY LinksIs
  <2>3. Links(data, c0, k) = StepLink(data, L)
    BY <2>1, <2>2, LinksIs
  <2>4. Len(L) >= 1
    BY <1>2, <2>1, <2>2
  <2>5. PICK z \in Nat : z = get_next_cluster(Last(L))
    OBVIOUS
  <2>6. StepLink(data, L) = IF Last(L) \in data THEN Append(L, z) ELSE L
    BY <2>5 DEF StepLink
  <2>7. Len(StepLink(data, L)) >= 1
    BY <2>2, <2>4, <2>5, <2>6
  <2> QED
    BY <2>3, <2>7
<1>3. n \in T
  <2> HIDE DEF T
  <2>1. 0 .. n \subseteq T
    BY <1>1, <1>2, SetInduction
  <2> QED
    BY <2>1
<1>4. PICK L \in Seq(Nat) : L = Links(data, c0, n) /\ Len(L) >= 1
  BY <1>3, LinksIs
<1>5. Last(L) \in Nat
  BY <1>4, FrontIs
<1> QED
  BY <1>4, <1>5

\* What has been read or written of a chain, and the cluster that follows.
Followed(data, c0, got, next) ==
    Len(got) \in Nat /\ Links(data, c0, Len(got)) = Append(got, next)

\* It begins with nothing and grows by a cluster that is in data.
LEMMA FollowedGrows ==
    ASSUME \A m : get_next_cluster(m) \in Nat, NEW data, NEW c0 \in Nat,
           NEW got \in Seq(Nat), NEW next \in data \cap Nat, Followed(data, c0, got, next)
    PROVE  Followed(data, c0, Append(got, next), get_next_cluster(next))
<1>0. PICK L : L = Append(got, next)
  OBVIOUS
<1>1. L \in Seq(Nat) /\ L = Append(got, next)
  BY <1>0
<1>2. PICK n \in Nat : n = Len(got)
  OBVIOUS
<1>3. Len(L) = n + 1 /\ L[n + 1] = next
  BY <1>1, <1>2
<1>4. Links(data, c0, n + 1) = StepLink(data, L)
  <2>1. Links(data, c0, n) = L
    BY <1>1, <1>2 DEF Followed
  <2>2. Links(data, c0, n + 1) = StepLink(data, Links(data, c0, n))
    BY LinksIs
  <2> QED
    BY <2>1, <2>2, Zenon
<1>5. Last(L) = next
  BY <1>3 DEF Last
<1>6. StepLink(data, L) = Append(L, get_next_cluster(next))
  BY <1>5 DEF StepLink
<1> QED
  BY <1>1, <1>3, <1>4, <1>6 DEF Followed

\* The first cluster is what follows when nothing has been read.
LEMMA FollowedFirst ==
    ASSUME \A m : get_next_cluster(m) \in Nat, NEW data, NEW c0 \in Nat
    PROVE  Followed(data, c0, << >>, c0)
<1>1. Links(data, c0, 0) = << c0 >>
  BY LinksIs
<1>2. Len(<< >>) = 0 /\ Append(<< >>, c0) = << c0 >>
  OBVIOUS
<1> QED
  BY <1>1, <1>2 DEF Followed

\* L, of n steps, has what has been followed before anything else.
ReadBefore(L, got, next, data, n) ==
    /\ Len(L) >= Len(got) + 1
    /\ \A i \in 1 .. Len(got) : L[i] = got[i]
    /\ next \notin data \/ n = Len(got) => L = Append(got, next)

\* A chain that has been followed this far goes on from there, or stays.
LEMMA FollowedFrom ==
    ASSUME \A m : get_next_cluster(m) \in Nat, NEW data, NEW c0 \in Nat,
           NEW got \in Seq(Nat), NEW next \in Nat, Followed(data, c0, got, next),
           NEW n \in Nat, Len(got) <= n
    PROVE  ReadBefore(Links(data, c0, n), got, next, data, n)
<1>1. PICK m \in Nat : m = Len(got)
  OBVIOUS
<1>0. PICK L0 : L0 = Append(got, next)
  OBVIOUS
<1>2. L0 \in Seq(Nat) /\ L0 = Append(got, next)
  BY <1>0
<1>3. /\ Len(L0) = m + 1 /\ L0[m + 1] = next /\ \A i \in 1 .. m : L0[i] = got[i]
      /\ Links(data, c0, m) = L0
  BY <1>1, <1>2 DEF Followed
<1>4. PICK d \in Nat : n = m + d
  <2>1. n - m \in Nat
    BY <1>1
  <2> QED
    BY <2>1
<1> DEFINE Good(L) == /\ L \in Seq(Nat) /\ Len(L) >= m + 1
                      /\ \A i \in 1 .. m : L[i] = got[i]
                      /\ next \notin data => L = L0
           T == { k \in 0 .. d : Good(Links(data, c0, m + k)) }
<1>5. 0 \in T
  <2>1. m + 0 = m
    OBVIOUS
  <2>2. Good(L0)
    BY <1>2, <1>3
  <2> QED
    BY <1>3, <2>1, <2>2
<1>6. ASSUME NEW k \in 1 .. d, k - 1 \in T PROVE k \in T
  <2>1. PICK q \in Nat : q = m + (k - 1) /\ q + 1 = m + k
    OBVIOUS
  <2>2. PICK L \in Seq(Nat) : L = Links(data, c0, q)
    BY LinksIs
  <2>3. Good(L)
    BY <1>6, <2>1, <2>2
  <2>4. Links(data, c0, m + k) = StepLink(data, L)
    <3>1. Links(data, c0, q + 1) = StepLink(data, Links(data, c0, q))
      BY LinksIs
    <3> QED
      BY <2>1, <2>2, <3>1, Zenon
  <2>5. PICK z \in Nat : z = get_next_cluster(Last(L))
    OBVIOUS
  <2>6. StepLink(data, L) = IF Last(L) \in data THEN Append(L, z) ELSE L
    BY <2>5 DEF StepLink
  <2>7. Last(L0) = next
    BY <1>3 DEF Last
  <2>8. CASE Last(L) \in data
    <3>1. next \in data
      BY <2>3, <2>7, <2>8
    <3>2. PICK K : K = Append(L, z)
      OBVIOUS
    <3>3. /\ K \in Seq(Nat) /\ Len(K) = Len(L) + 1 /\ Len(L) \in Nat
          /\ \A i \in 1 .. Len(L) : K[i] = L[i]
      BY <2>2, <2>5, <3>2
    <3>4. Len(L) >= m + 1 /\ \A i \in 1 .. m : L[i] = got[i]
      BY <2>3
    <3>5. Len(K) >= m + 1 /\ \A i \in 1 .. m : K[i] = got[i]
      BY <3>3, <3>4
    <3>6. Good(K)
      BY <3>1, <3>3, <3>5
    <3>7. Links(data, c0, m + k) = K
      BY <2>4, <2>6, <2>8, <3>2
    <3> QED
      BY <3>6, <3>7
  <2>9. CASE Last(L) \notin data
    BY <2>3, <2>4, <2>6, <2>9
  <2> QED
    BY <2>8, <2>9
<1>7. d \in T
  <2> HIDE DEF T
  <2>1. 0 .. d \subseteq T
    BY <1>5, <1>6, SetInduction
  <2> QED
    BY <2>1
<1>8. Good(Links(data, c0, n))
  BY <1>4, <1>7
<1>9. n = m => Links(data, c0, n) = L0
  BY <1>3
<1> QED
  BY <1>1, <1>2, <1>8, <1>9 DEF ReadBefore

\* What has been followed is all there is of the chain, or the beginning of it.
LEMMA FollowedIs ==
    ASSUME \A m : get_next_cluster(m) \in Nat, NEW data, NEW c0 \in Nat,
           NEW got \in Seq(Nat), NEW next \in Nat, Followed(data, c0, got, next),
           NEW n \in Nat, Len(got) <= n
    PROVE  /\ next \notin data \/ n = Len(got) => Front(Links(data, c0, n)) = got
           /\ IsPrefix(got, Front(Links(data, c0, n)))
<1>1. PICK m \in Nat : m = Len(got)
  OBVIOUS
<1>2. PICK L \in Seq(Nat) : L = Links(data, c0, n) /\ Len(L) >= 1
  BY LinksShape
<1>3. /\ Len(L) >= m + 1 /\ \A i \in 1 .. m : L[i] = got[i]
      /\ next \notin data \/ n = m => L = Append(got, next)
  <2>1. ReadBefore(Links(data, c0, n), got, next, data, n)
    BY FollowedFrom
  <2> QED
    BY <1>1, <1>2, <2>1 DEF ReadBefore
<1>0. PICK F : F = Front(L)
  OBVIOUS
<1>4. /\ F \in Seq(Nat) /\ F = Front(L) /\ Len(F) = Len(L) - 1
      /\ \A i \in 1 .. Len(L) - 1 : F[i] = L[i]
  BY <1>0, <1>2, FrontIs
<1>5. ASSUME next \notin data \/ n = m PROVE F = got
  <2>1. Len(L) = m + 1
    BY <1>1, <1>3, <1>5
  <2>2. F \in Seq(Nat) /\ Len(F) = m /\ \A i \in 1 .. m : F[i] = got[i]
    BY <1>3, <1>4, <2>1
  <2> QED
    BY <1>1, <2>2, SameElements
<1>6. IsPrefix(got, F)
  <2>1. F \in Seq(Nat) /\ Len(F) >= m /\ \A i \in 1 .. m : F[i] = got[i]
    <3>1. Len(L) \in Nat
      BY <1>2
    <3> QED
      BY <1>3, <1>4, <3>1
  <2>3. PICK a : a = SubSeq(F, 1, m)
    OBVIOUS
  <2>4. a \in Seq(Nat) /\ Len(a) = m /\ \A i \in 1 .. m : a[i] = F[i]
    BY <2>1, <2>3
  <2>5. a = got
    BY <1>1, <2>1, <2>4, SameElements
  <2>6. SubSeq(got, 1, m) = got
    BY <1>1
  <2> QED
    BY <1>1, <2>1, <2>3, <2>5, <2>6 DEF IsPrefix
<1> QED
  BY <1>1, <1>2, <1>4, <1>5, <1>6

\* The directories of the tree, and one more step down it.
AnyDirectory == [ path : Seq(AnyName), clusters : Seq(Nat) ]

StepUnder(S) == S \cup UNION { Subdirectories(q) : q \in S }

\* The entries of a directory; one without clusters has none.
LEMMA EntriesAre ==
    ASSUME HasDirectories(volume), NEW clusters \in Seq(Nat)
    PROVE  /\ EntriesOf(clusters) \in Seq(AnyEntry)
           /\ ToSet(EntriesOf(clusters)) = ElementsOf(EntriesOf(clusters))
           /\ clusters = << >> => ElementsOf(EntriesOf(clusters)) = {}
<1>1. PICK s : s = EntriesOf(clusters)
  OBVIOUS
<1>2. s \in Seq(AnyEntry)
  <2>1. PICK path : path = << >>
    OBVIOUS
  <2>2. Frame(path, clusters) \in DirectoryFrame
    <3>1. path \in Seq(AnyName)
      BY <2>1
    <3> QED
      BY <3>1, FrameIs
  <2>3. Frame(path, clusters).entries = s
    BY <1>1 DEF Frame
  <2> QED
    BY <2>2, <2>3 DEF DirectoryFrame
<1>3. DOMAIN s = 1 .. Len(s)
  BY <1>2
<1>4. ToSet(s) = ElementsOf(s)
  BY <1>3 DEF ToSet, ElementsOf
<1>5. ASSUME clusters = << >> PROVE ElementsOf(s) = {}
  <2>1. PICK q : q = [ i \in DOMAIN clusters |->
                         IF clusters[i] \in DOMAIN volume.dirs THEN volume.dirs[clusters[i]]
                         ELSE << [ name |-> "end", kind |-> "end", ino |-> 0, size |-> 0 ] >> ]
    OBVIOUS
  <2>2. q \in Seq(Seq(AnyEntry)) /\ 1 .. Len(q) = {}
    <3>1. DOMAIN q = {}
      BY <1>5, <2>1
    <3>2. q = << >>
      BY <3>1
    <3> QED
      BY <3>2
  <2>3. PICK all : all = FlattenSeq(q)
    OBVIOUS
  <2>4. all \in Seq(AnyEntry)
    BY <2>2, <2>3, FlattenIs
  <2>8. ElementsOf(all) = {}
    BY <2>2, <2>3, FlattenIs
  <2>5. PICK end : end = SelectInSeq(all, LAMBDA e : e.kind = "end")
    OBVIOUS
  <2>6. s = IF end = 0 THEN all ELSE SubSeq(all, 1, end - 1)
    BY <1>1, <2>1, <2>3, <2>5, Zenon DEF EntriesOf
  <2>7. end = 0
    <3>1. PICK I : I = { i \in 1 .. Len(all) : all[i].kind = "end" }
      OBVIOUS
    <3>2. end = IF I # {} THEN Min(I) ELSE 0
      BY <2>5, <3>1 DEF SelectInSeq
    <3>3. I = {}
      BY <2>8, <3>1, Zenon DEF ElementsOf
    <3> QED
      BY <3>2, <3>3, Zenon
  <2>9. s = all
    BY <2>6, <2>7, Zenon
  <2> QED
    BY <2>8, <2>9
<1> QED
  BY <1>1, <1>2, <1>4, <1>5

\* What is read of a directory or written of a file are clusters.
LEMMA ChainsAre ==
    ASSUME \A m : get_next_cluster(m) \in Nat, NEW c0 \in Nat, NEW data, NEW n \in Nat
    PROVE  Front(Links(data, c0, n)) \in Seq(Nat)
<1>1. PICK L : L = Links(data, c0, n)
  OBVIOUS
<1>2. L \in Seq(Nat) /\ Len(L) >= 1
  BY <1>1, LinksShape
<1> QED
  BY <1>1, <1>2, FrontIs

\* A directory that an entry leads to.
LEMMA SubdirectoryType ==
    ASSUME \A m : get_next_cluster(m) \in Nat, NEW p \in AnyDirectory, NEW e \in AnyEntry
    PROVE  Subdirectory(p, e) \in AnyDirectory
<1>1. p.path \in Seq(AnyName) /\ e.name \in AnyName /\ e.ino \in Nat
  BY DEF AnyDirectory, AnyEntry
<1>2. PICK path : path = Append(p.path, e.name)
  OBVIOUS
<1>3. path \in Seq(AnyName)
  BY <1>1, <1>2
<1>4. PICK c : c = ChainOf(e.ino)
  OBVIOUS
<1>5. c \in Seq(Nat)
  BY <1>1, <1>4, FatWalkAssumption, ChainsAre DEF ChainOf
<1> QED
  BY <1>2, <1>3, <1>4, <1>5 DEF Subdirectory, AnyDirectory

\* The entry e leads from p to a directory that is walked.
Leads(p, e) ==
    /\ IsSubdirectory(e)
    /\ kf_paths_related(Append(p.path, e.name), volume.filter)

\* The subdirectories are what such entries lead to.
LEMMA SubdirectoriesAre ==
    ASSUME HasDirectories(volume), \A m : get_next_cluster(m) \in Nat, NEW p \in AnyDirectory
    PROVE  /\ Subdirectories(p) \subseteq AnyDirectory
           /\ \A q : q \in Subdirectories(p) <=>
                       \E e \in ElementsOf(EntriesOf(p.clusters)) :
                          Leads(p, e) /\ q = Subdirectory(p, e)
<1>1. PICK s : s = EntriesOf(p.clusters)
  OBVIOUS
<1>2. s \in Seq(AnyEntry) /\ ToSet(s) = ElementsOf(s)
  BY <1>1, EntriesAre DEF AnyDirectory
<1>3. Subdirectories(p) = { Subdirectory(p, e) : e \in { x \in ElementsOf(s) : Leads(p, x) } }
  <2>1. \A x : Leads(p, x) <=>
                 /\ IsSubdirectory(x)
                 /\ \/ path_within(volume.filter, Append(p.path, x.name))
                    \/ path_within(Append(p.path, x.name), volume.filter)
    BY DEF Leads, kf_paths_related
  <2> QED
    BY <1>1, <1>2, <2>1, Zenon DEF Subdirectories
<1>4. \A e \in ElementsOf(s) : e \in AnyEntry
  BY <1>2 DEF ElementsOf
<1>5. \A e \in ElementsOf(s) : Subdirectory(p, e) \in AnyDirectory
  BY <1>4, SubdirectoryType
<1> QED
  BY <1>1, <1>3, <1>5

\* One step down leads to directories again.
LEMMA StepUnderType ==
    ASSUME HasDirectories(volume), \A m : get_next_cluster(m) \in Nat,
           NEW S \in SUBSET AnyDirectory
    PROVE  StepUnder(S) \in SUBSET AnyDirectory
BY SubdirectoriesAre DEF StepUnder

\* Under is the last of a chain of such steps.
LEMMA UnderChain ==
    ASSUME HasDirectories(volume), \A m : get_next_cluster(m) \in Nat, NEW p \in AnyDirectory, NEW n \in Nat
    PROVE  \E w : /\ w[0] = { p } /\ w[n] = Under(p, n)
                  /\ \A k \in 1 .. n : w[k] = StepUnder(w[k - 1])
<1> DEFINE l == [ k \in 1 .. n |-> k ]
           X == SUBSET AnyDirectory
           F == [ t \in (1 .. n) \X X |-> StepUnder(t[2]) ]
           Eq(g) == g = [ s \in SUBSET (DOMAIN l) |->
                           IF s = {} THEN { p } ELSE StepUnder(g[s \ { Max(s) }]) ]
           c == CHOOSE g : Eq(g)
<1>1. Under(p, n) = c[DOMAIN l]
  BY DEF Under, FoldLeft, MapThenFoldSet, StepUnder
<1>a. DOMAIN l = 1 .. n
  OBVIOUS
<1>2. \A i \in 1 .. n : \A m \in X : F[<< i, m >>] = StepUnder(m)
  OBVIOUS
<1>3. F \in [(1 .. n) \X X -> X] /\ { p } \in X
  BY StepUnderType
<1> HIDE DEF F, l, X
<1>4. PICK g \in [SUBSET (1 .. n) -> X] : FoldEquation(g, n, { p }, F)
  BY <1>3, FoldExists
<1>5. ASSUME NEW s \in SUBSET (1 .. n)
      PROVE  g[s] = IF s = {} THEN { p } ELSE StepUnder(g[s \ { Max(s) }])
  <2>1. g[s] = IF s = {} THEN { p } ELSE F[<< Max(s), g[s \ { Max(s) }] >>]
    BY <1>4 DEF FoldEquation
  <2>2. CASE s # {}
    <3>1. Max(s) \in s
      BY <2>2, MaxProperty
    <3>2. g[s \ { Max(s) }] \in X
      BY <1>4
    <3> QED
      BY <1>2, <2>1, <2>2, <3>1, <3>2
  <2> QED
    BY <2>1, <2>2
<1>6. Eq(g)
  BY <1>4, <1>5, <1>a
<1>7. Eq(c)
  BY <1>6
<1> HIDE DEF c
<1> DEFINE w == [ k \in 0 .. n |-> c[1 .. k] ]
<1>8. w[0] = { p }
  <2>1. 1 .. 0 = {} /\ {} \in SUBSET (DOMAIN l) /\ 0 \in 0 .. n
    BY <1>a
  <2> QED
    BY <1>7, <2>1
<1>9. ASSUME NEW k \in 1 .. n
      PROVE  w[k] = StepUnder(w[k - 1])
  <2>1. Max(1 .. k) = k /\ 1 .. k # {} /\ (1 .. k) \ { k } = 1 .. (k - 1)
    <3>1. k \in Nat /\ k >= 1
      OBVIOUS
    <3> QED
      BY <3>1, UpTo
  <2>2. 1 .. k \in SUBSET (DOMAIN l)
    BY <1>a
  <2>3. k - 1 \in 0 .. n /\ k \in 0 .. n
    OBVIOUS
  <2> QED
    BY <1>7, <2>1, <2>2, <2>3
<1>10. w[n] = Under(p, n)
  BY <1>1, <1>a
<1> HIDE DEF w
<1> WITNESS w
<1> QED
  BY <1>8, <1>9, <1>10

\* Under(p, n), by steps.
LEMMA UnderIs ==
    ASSUME HasDirectories(volume), \A m : get_next_cluster(m) \in Nat, NEW p \in AnyDirectory
    PROVE  /\ Under(p, 0) = { p }
           /\ \A n \in Nat : /\ Under(p, n) \in SUBSET AnyDirectory
                             /\ Under(p, n + 1) = StepUnder(Under(p, n))
<1>1. Under(p, 0) = { p }
  <2>1. PICK z \in Nat : z = 0
    OBVIOUS
  <2>2. PICK w : /\ w[0] = { p } /\ w[z] = Under(p, z)
                 /\ \A k \in 1 .. z : w[k] = StepUnder(w[k - 1])
    BY UnderChain
  <2> QED
    BY <2>1, <2>2
<1> DEFINE X == SUBSET AnyDirectory
<1>x. { p } \in X /\ \A x \in X : StepUnder(x) \in X
  BY StepUnderType
<1>2. ASSUME NEW n \in Nat
      PROVE  Under(p, n) \in X /\ Under(p, n + 1) = StepUnder(Under(p, n))
  <2> HIDE DEF X
  <2>1. PICK w : /\ w[0] = { p } /\ w[n] = Under(p, n)
                 /\ \A k \in 1 .. n : w[k] = StepUnder(w[k - 1])
    BY UnderChain
  <2>2. PICK m \in Nat : m = n + 1
    OBVIOUS
  <2>3. PICK v : /\ v[0] = { p } /\ v[m] = Under(p, m)
                 /\ \A k \in 1 .. m : v[k] = StepUnder(v[k - 1])
    BY UnderChain
  <2> DEFINE T == { k \in 0 .. n : v[k] = w[k] /\ w[k] \in X }
  <2>4. 0 \in T
    BY <1>x, <2>1, <2>3
  <2>5. ASSUME NEW k \in 1 .. n, k - 1 \in T PROVE k \in T
    <3>1. v[k - 1] = w[k - 1] /\ w[k - 1] \in X
      BY <2>5
    <3>2. w[k] = StepUnder(w[k - 1]) /\ v[k] = StepUnder(v[k - 1])
      BY <2>1, <2>2, <2>3
    <3>3. w[k] \in X
      BY <1>x, <3>1, <3>2
    <3> QED
      BY <3>1, <3>2, <3>3
  <2>6. 0 .. n \subseteq T
    <3> HIDE DEF T
    <3> QED
      BY <2>4, <2>5, SetInduction
  <2>7. v[n] = w[n] /\ w[n] \in X
    BY <2>6
  <2>8. v[m] = StepUnder(v[m - 1])
    BY <2>2, <2>3
  <2> QED
    BY <2>1, <2>2, <2>3, <2>7, <2>8
<1> QED
  BY <1>1, <1>2

\* A directory is under itself, and what is under it at some depth is so further down.
LEMMA UnderGrows ==
    ASSUME HasDirectories(volume), \A m : get_next_cluster(m) \in Nat, NEW p \in AnyDirectory,
           NEW n \in Nat, NEW m \in Nat, m <= n
    PROVE  p \in Under(p, n) /\ Under(p, m) \subseteq Under(p, n)
<1>1. PICK d \in Nat : n = m + d
  <2>1. n - m \in Nat
    OBVIOUS
  <2> QED
    BY <2>1
<1>2. ASSUME NEW b \in Nat, NEW k \in Nat PROVE Under(p, b) \subseteq Under(p, b + k)
  <2> DEFINE T == { i \in 0 .. k : Under(p, b) \subseteq Under(p, b + i) }
  <2>1. 0 \in T
    OBVIOUS
  <2>2. ASSUME NEW i \in 1 .. k, i - 1 \in T PROVE i \in T
    <3>1. PICK q \in Nat : q = b + (i - 1) /\ q + 1 = b + i
      OBVIOUS
    <3>2. Under(p, b + i) = StepUnder(Under(p, q))
      BY <3>1, UnderIs
    <3>3. Under(p, q) \subseteq Under(p, b + i)
      BY <3>2 DEF StepUnder
    <3> QED
      BY <2>2, <3>1, <3>3
  <2>3. k \in T
    <3> HIDE DEF T
    <3>1. 0 .. k \subseteq T
      BY <2>1, <2>2, SetInduction
    <3> QED
      BY <3>1
  <2> QED
    BY <2>3
<1>3. Under(p, m) \subseteq Under(p, n)
  BY <1>1, <1>2
<1>4. Under(p, 0) \subseteq Under(p, n)
  <2>1. Under(p, 0) \subseteq Under(p, 0 + n) /\ 0 + n = n
    BY <1>2
  <2> QED
    BY <2>1
<1>5. p \in Under(p, 0)
  BY UnderIs
<1> QED
  BY <1>3, <1>4, <1>5

\* What is under a directory is this directory or under a directory of it.
LEMMA UnderFirst ==
    ASSUME HasDirectories(volume), \A m : get_next_cluster(m) \in Nat, NEW p \in AnyDirectory,
           NEW n \in Nat, NEW q \in Under(p, n + 1)
    PROVE  q = p \/ \E c \in Subdirectories(p) : q \in Under(c, n)
<1> DEFINE Good(k) == \A x \in Under(p, k + 1) : x = p \/ \E c \in Subdirectories(p) : x \in Under(c, k)
           T == { k \in 0 .. n : Good(k) }
<1>0. Subdirectories(p) \subseteq AnyDirectory
  BY SubdirectoriesAre
<1>1. 0 \in T
  <2>1. PICK z \in Nat : z = 0 /\ z + 1 = 1
    OBVIOUS
  <2>2. Under(p, z) = { p } /\ Under(p, z + 1) = StepUnder(Under(p, z))
    BY <2>1, UnderIs
  <2>3. Under(p, z + 1) = { p } \cup Subdirectories(p)
    BY <2>2 DEF StepUnder
  <2>4. \A c \in Subdirectories(p) : c \in Under(c, z)
    BY <1>0, <2>1, UnderGrows
  <2>5. Good(z)
    BY <2>3, <2>4
  <2> QED
    BY <2>1, <2>5
<1>2. ASSUME NEW k \in 1 .. n, k - 1 \in T PROVE k \in T
  <2>1. PICK m \in Nat : m = k - 1 /\ m + 1 = k
    OBVIOUS
  <2>2. Good(m)
    BY <1>2, <2>1
  <2>3. Under(p, k + 1) = StepUnder(Under(p, k))
    BY UnderIs
  <2>4. ASSUME NEW x \in Under(p, k) PROVE x = p \/ \E c \in Subdirectories(p) : x \in Under(c, m)
    BY <2>1, <2>2, <2>4
  <2>5. ASSUME NEW c \in Subdirectories(p)
        PROVE  Under(c, k) = StepUnder(Under(c, m)) /\ Under(c, m) \subseteq Under(c, k) /\ c \in Under(c, k)
    <3>1. c \in AnyDirectory
      BY <1>0
    <3>2. Under(c, m + 1) = StepUnder(Under(c, m))
      BY <3>1, UnderIs
    <3>3. Under(c, m) \subseteq Under(c, k) /\ c \in Under(c, k)
      BY <2>1, <3>1, UnderGrows
    <3> QED
      BY <2>1, <3>2, <3>3
  <2>6. ASSUME NEW x \in Under(p, k + 1)
        PROVE  x = p \/ \E c \in Subdirectories(p) : x \in Under(c, k)
    <3>1. x \in Under(p, k) \/ \E r \in Under(p, k) : x \in Subdirectories(r)
      BY <2>3, <2>6 DEF StepUnder
    <3>2. CASE x \in Under(p, k)
      BY <2>4, <2>5, <3>2
    <3>3. ASSUME NEW r \in Under(p, k), x \in Subdirectories(r)
          PROVE  \E c \in Subdirectories(p) : x \in Under(c, k)
      <4>1. CASE r = p
        BY <2>5, <3>3, <4>1
      <4>2. ASSUME NEW c \in Subdirectories(p), r \in Under(c, m) PROVE x \in Under(c, k)
        BY <2>5, <3>3, <4>2 DEF StepUnder
      <4> QED
        BY <2>4, <4>1, <4>2
    <3> QED
      BY <3>1, <3>2, <3>3
  <2> QED
    BY <2>6
<1>3. n \in T
  <2> HIDE DEF T
  <2>1. 0 .. n \subseteq T
    BY <1>1, <1>2, SetInduction
  <2> QED
    BY <2>1
<1> QED
  BY <1>3

\* What is read off the volume alone is the same as long as the volume is.
LEMMA TreeConstants ==
    ASSUME UNCHANGED volume
    PROVE  /\ \A data, c0, n : Links(data, c0, n)' = Links(data, c0, n)
           /\ DataClusters' = DataClusters /\ ChainClusters' = ChainClusters
           /\ \A n : ChainOf(n)' = ChainOf(n)
           /\ \A e : FileChain(e)' = FileChain(e)
           /\ RootDirectory' = RootDirectory
           /\ \A p, e : /\ Subdirectory(p, e)' = Subdirectory(p, e)
                        /\ FileOf(p, e)' = FileOf(p, e)
                        /\ Leads(p, e)' = Leads(p, e)
           /\ \A clusters : EntriesOf(clusters)' = EntriesOf(clusters)
           /\ \A p : Subdirectories(p)' = Subdirectories(p) /\ FilesIn(p)' = FilesIn(p)
           /\ \A p, n : /\ Under(p, n)' = Under(p, n)
                        /\ FilesUnder(p, n)' = FilesUnder(p, n)
<1>1. \A m : get_next_cluster(m)' = get_next_cluster(m)
  BY DEF get_next_cluster
<1>2. ASSUME NEW data, NEW c0, NEW n PROVE Links(data, c0, n)' = Links(data, c0, n)
  BY DEF Links, FoldLeft, MapThenFoldSet, get_next_cluster
<1>3. DataClusters' = DataClusters /\ ChainClusters' = ChainClusters
  BY DEF DataClusters, ChainClusters, last_cluster
<1>4. ASSUME NEW n PROVE ChainOf(n)' = ChainOf(n)
  BY <1>2, <1>3 DEF ChainOf
<1>5. ASSUME NEW e PROVE FileChain(e)' = FileChain(e)
  BY <1>2, <1>3 DEF FileChain
<1>6. RootDirectory' = RootDirectory
  BY <1>4 DEF RootDirectory
<1>7. ASSUME NEW p, NEW e
      PROVE  /\ Subdirectory(p, e)' = Subdirectory(p, e)
             /\ FileOf(p, e)' = FileOf(p, e)
             /\ Leads(p, e)' = Leads(p, e)
  BY <1>4, <1>5 DEF Subdirectory, FileOf, Leads
<1>8. ASSUME NEW clusters PROVE EntriesOf(clusters)' = EntriesOf(clusters)
  BY DEF EntriesOf, FlattenSeq, SelectInSeq
<1>9. ASSUME NEW p PROVE Subdirectories(p)' = Subdirectories(p)
  BY <1>4, <1>8 DEF Subdirectories, Subdirectory
<1>10. ASSUME NEW p PROVE FilesIn(p)' = FilesIn(p)
  BY <1>5, <1>8 DEF FilesIn, FileOf
<1>11. ASSUME NEW p, NEW n PROVE Under(p, n)' = Under(p, n)
  BY DEF Under, FoldLeft, MapThenFoldSet, Subdirectories, Subdirectory, ChainOf, ChainClusters,
         DataClusters, Links, EntriesOf, FlattenSeq, SelectInSeq, get_next_cluster, last_cluster
<1>12. ASSUME NEW p, NEW n PROVE FilesUnder(p, n)' = FilesUnder(p, n)
  BY <1>10, <1>11 DEF FilesUnder
<1> QED
  BY <1>2, <1>3, <1>4, <1>5, <1>6, <1>7, <1>8, <1>9, <1>10, <1>11, <1>12

\* The file x of the volume has been recovered; all files under p have been.
There(x) == \E f \in recovered : SameFile(f, x)

AllThere(p, n) == \A x \in FilesUnder(p, n) : There(x)

\* The entry e of p, which is d steps below the root, has been dealt with.
Dealt(p, e, d) ==
    /\ e.kind = "file" /\ path_within(volume.filter, p.path) => There(FileOf(p, e))
    /\ Leads(p, e) /\ d < KF_FAT_MAX_DIR_DEPTH =>
          AllThere(Subdirectory(p, e), KF_FAT_MAX_DIR_DEPTH - (d + 1))

\* The files of a directory are those of its entries.
LEMMA FilesInAre ==
    ASSUME HasDirectories(volume), NEW p \in AnyDirectory
    PROVE  \A x : x \in FilesIn(p) <=>
                    \E e \in ElementsOf(EntriesOf(p.clusters)) : e.kind = "file" /\ x = FileOf(p, e)
<1>1. PICK s : s = EntriesOf(p.clusters)
  OBVIOUS
<1>2. ToSet(s) = ElementsOf(s)
  BY <1>1, EntriesAre DEF AnyDirectory
<1>3. FilesIn(p) = { FileOf(p, e) : e \in { x \in ElementsOf(s) : x.kind = "file" } }
  BY <1>1, <1>2, Zenon DEF FilesIn
<1> QED
  BY <1>1, <1>3

\* When the entries of a directory have been dealt with all files under it are there.
LEMMA DirectoryDone ==
    ASSUME HasDirectories(volume), \A m : get_next_cluster(m) \in Nat, NEW p \in AnyDirectory,
           NEW n \in 0 .. KF_FAT_MAX_DIR_DEPTH, NEW d \in Nat, d + n = KF_FAT_MAX_DIR_DEPTH,
           \A e \in ElementsOf(EntriesOf(p.clusters)) : Dealt(p, e, d)
    PROVE  AllThere(p, n)
<1>1. KF_FAT_MAX_DIR_DEPTH \in Nat /\ n \in Nat
  BY FatWalkAssumption
<1>2. SUFFICES ASSUME NEW q \in Under(p, n), path_within(volume.filter, q.path),
                      NEW x \in FilesIn(q)
               PROVE  There(x)
  BY DEF AllThere, FilesUnder
<1>3. CASE q = p
  <2>1. PICK e \in ElementsOf(EntriesOf(p.clusters)) : e.kind = "file" /\ x = FileOf(p, e)
    BY <1>2, <1>3, FilesInAre
  <2> QED
    BY <1>2, <1>3, <2>1 DEF Dealt
<1>4. CASE q # p
  <2>1. n # 0
    <3>1. Under(p, 0) = { p }
      BY UnderIs
    <3> QED
      BY <1>2, <1>4, <3>1
  <2>2. PICK m \in Nat : n = m + 1
    <3>1. n - 1 \in Nat
      BY <1>1, <2>1
    <3> QED
      BY <3>1
  <2>3. PICK c \in Subdirectories(p) : q \in Under(c, m)
    BY <1>2, <1>4, <2>2, UnderFirst
  <2>4. PICK e \in ElementsOf(EntriesOf(p.clusters)) : Leads(p, e) /\ c = Subdirectory(p, e)
    BY SubdirectoriesAre
  <2>5. d < KF_FAT_MAX_DIR_DEPTH /\ KF_FAT_MAX_DIR_DEPTH - (d + 1) = m
    BY <1>1, <2>2
  <2>6. AllThere(c, m)
    BY <2>4, <2>5 DEF Dealt
  <2>7. x \in FilesUnder(c, m)
    BY <1>2, <2>3 DEF FilesUnder
  <2> QED
    BY <2>6, <2>7 DEF AllThere
<1> QED
  BY <1>3, <1>4

\* There is nothing under a directory without clusters.
LEMMA NothingUnder ==
    ASSUME HasDirectories(volume), \A m : get_next_cluster(m) \in Nat, NEW p \in AnyDirectory,
           p.clusters = << >>, NEW n \in 0 .. KF_FAT_MAX_DIR_DEPTH
    PROVE  AllThere(p, n)
<1>1. PICK d \in Nat : d + n = KF_FAT_MAX_DIR_DEPTH
  <2>1. KF_FAT_MAX_DIR_DEPTH - n \in Nat
    BY FatWalkAssumption
  <2> QED
    BY <2>1, FatWalkAssumption
<1>2. ElementsOf(EntriesOf(p.clusters)) = {}
  BY EntriesAre DEF AnyDirectory
<1> QED
  BY <1>1, <1>2, DirectoryDone

\* What is there stays there.
Remain == \A f \in recovered : \E g \in recovered' : g.path = f.path /\ g.of = f.of

\* What has been dealt with stays so.
LEMMA ThereStays ==
    ASSUME UNCHANGED volume, Remain
    PROVE  /\ \A x : There(x) => There(x)'
           /\ \A p, n : AllThere(p, n) => AllThere(p, n)'
           /\ \A p, e, d : Dealt(p, e, d) => Dealt(p, e, d)'
<1>1. ASSUME NEW x, There(x) PROVE There(x)'
  BY <1>1 DEF Remain, There, SameFile
<1>2. ASSUME NEW p, NEW n, AllThere(p, n) PROVE AllThere(p, n)'
  <2>1. FilesUnder(p, n)' = FilesUnder(p, n)
    BY TreeConstants
  <2> QED
    BY <1>1, <1>2, <2>1 DEF AllThere
<1>3. ASSUME NEW p, NEW e, NEW d, Dealt(p, e, d) PROVE Dealt(p, e, d)'
  <2>1. /\ Subdirectory(p, e)' = Subdirectory(p, e) /\ FileOf(p, e)' = FileOf(p, e)
        /\ Leads(p, e)' = Leads(p, e)
    BY TreeConstants
  <2>2. PICK c : c = Subdirectory(p, e) /\ c = Subdirectory(p, e)'
    BY <2>1
  <2>3. PICK x : x = FileOf(p, e) /\ x = FileOf(p, e)'
    BY <2>1
  <2>4. /\ There(x) => There(x)'
        /\ \A n : AllThere(c, n) => AllThere(c, n)'
    BY <1>1, <1>2
  <2> QED
    BY <1>3, <2>1, <2>2, <2>3, <2>4 DEF Dealt
<1> QED
  BY <1>1, <1>2, <1>3

\* The entries of a directory.
EntriesIn(p) == EntriesOf(p.clusters)

\* The frame is of the directory p, k entries of which the walk has left behind.
FrameAt(p, k, frame) ==
    /\ frame.path = p.path
    /\ k <= Len(EntriesIn(p)) /\ Len(frame.entries) = Len(EntriesIn(p)) - k
    /\ \A i \in 1 .. Len(frame.entries) : frame.entries[i] = EntriesIn(p)[k + i]

\* The stack is of the directories D[0], D[1] and so on, each the one that the last
\* of the K[d] entries left behind in the one above leads to, down to D[m], which
\* may not be on the stack yet.  All other entries left behind have been dealt with.
Visited(D, K, stack, m) ==
    /\ \A d \in 0 .. m : D[d] \in Directories(d)
    /\ \A d \in 0 .. Len(stack) - 1 :
          /\ FrameAt(D[d], K[d], stack[Len(stack) - d])
          /\ \A j \in 1 .. K[d] : (j = K[d] /\ d < m) \/ Dealt(D[d], EntriesIn(D[d])[j], d)
    /\ \A d \in 0 .. m - 1 :
          /\ K[d] >= 1 /\ Leads(D[d], EntriesIn(D[d])[K[d]])
          /\ D[d + 1] = Subdirectory(D[d], EntriesIn(D[d])[K[d]])

Paths == [Nat -> AnyDirectory]

\* They are entries the walk can deal with.
LEMMA EntriesInAre ==
    ASSUME HasDirectories(volume), NEW p \in AnyDirectory
    PROVE  EntriesIn(p) \in Seq(AnyEntry)
BY EntriesAre DEF AnyDirectory, EntriesIn

\* The directories of the tree.
LEMMA DirectoriesAre ==
    ASSUME HasDirectories(volume), \A m : get_next_cluster(m) \in Nat, volume.root_cluster \in Nat
    PROVE  /\ RootDirectory \in AnyDirectory
           /\ Directories(0) = { RootDirectory }
           /\ \A n \in Nat :
                 /\ Directories(n) \subseteq AnyDirectory
                 /\ \A m \in 0 .. n : Directories(m) \subseteq Directories(n)
                 /\ \A p \in Directories(n) : Subdirectories(p) \subseteq Directories(n + 1)
<1>1. RootDirectory \in AnyDirectory
  <2>1. PICK c : c = IF volume.root_cluster = 0 THEN << 0 >> ELSE ChainOf(volume.root_cluster)
    OBVIOUS
  <2>2. c \in Seq(Nat)
    <3>1. ChainOf(volume.root_cluster) \in Seq(Nat)
      BY FatWalkAssumption, ChainsAre DEF ChainOf
    <3>2. << 0 >> \in Seq(Nat)
      OBVIOUS
    <3> QED
      BY <2>1, <3>1, <3>2
  <2>3. PICK path : path = << >>
    OBVIOUS
  <2>4. path \in Seq(AnyName)
    BY <2>3
  <2>5. RootDirectory = [ path |-> path, clusters |-> c ]
    BY <2>1, <2>3 DEF RootDirectory
  <2> QED
    BY <2>2, <2>4, <2>5 DEF AnyDirectory
<1>2. Directories(0) = { RootDirectory }
  BY <1>1, UnderIs DEF Directories
<1>3. ASSUME NEW n \in Nat
      PROVE  /\ Directories(n) \subseteq AnyDirectory
             /\ \A m \in 0 .. n : Directories(m) \subseteq Directories(n)
             /\ \A p \in Directories(n) : Subdirectories(p) \subseteq Directories(n + 1)
  <2>1. Directories(n) \in SUBSET AnyDirectory
    BY <1>1, UnderIs DEF Directories
  <2>2. \A m \in 0 .. n : Directories(m) \subseteq Directories(n)
    BY <1>1, UnderGrows DEF Directories
  <2>3. Directories(n + 1) = StepUnder(Directories(n))
    BY <1>1, UnderIs DEF Directories
  <2> QED
    BY <2>1, <2>2, <2>3 DEF StepUnder
<1> QED
  BY <1>1, <1>2, <1>3

\* The entry in front of the walk is taken from the frame.
Passed(frame, rest) == rest = [ frame EXCEPT !.entries = Tail(frame.entries) ]

\* The walk takes the entry in front of it.
LEMMA TakeEntry ==
    ASSUME HasDirectories(volume), NEW p \in AnyDirectory, NEW k \in Nat,
           NEW frame \in DirectoryFrame, FrameAt(p, k, frame), frame.entries # << >>,
           NEW rest, Passed(frame, rest)
    PROVE  /\ FrameAt(p, k + 1, rest) /\ k + 1 \in 1 .. Len(EntriesIn(p))
           /\ Head(frame.entries) = EntriesIn(p)[k + 1]
           /\ Head(frame.entries) \in ElementsOf(EntriesIn(p))
           /\ rest \in DirectoryFrame
<1>0. rest = [ frame EXCEPT !.entries = Tail(frame.entries) ]
  BY DEF Passed
<1> USE <1>0
<1>1. PICK s : s = frame.entries
  OBVIOUS
<1>2. s \in Seq(AnyEntry) /\ s # << >>
  BY <1>1 DEF DirectoryFrame
<1>3. PICK n \in Nat : n = Len(s) /\ n >= 1
  <2>1. Len(s) \in Nat /\ Len(s) # 0
    BY <1>2
  <2> QED
    BY <2>1
<1>4. PICK u : u = Tail(s)
  OBVIOUS
<1>5. u \in Seq(AnyEntry) /\ Len(u) = n - 1 /\ \A i \in 1 .. n - 1 : u[i] = s[i + 1]
  BY <1>2, <1>3, <1>4
<1>6. PICK E \in Seq(AnyEntry) : E = EntriesIn(p)
  BY EntriesInAre
<1>7. PICK z \in Nat : z = Len(E)
  BY <1>6
<1>8. k <= z /\ n = z - k /\ \A i \in 1 .. n : s[i] = E[k + i]
  BY <1>1, <1>3, <1>6, <1>7 DEF FrameAt
<1>9. rest.path = p.path /\ rest.entries = u /\ rest \in DirectoryFrame
  BY <1>1, <1>4, <1>5 DEF DirectoryFrame, FrameAt
<1>10. k + 1 \in 1 .. z /\ n - 1 = z - (k + 1) /\ \A i \in 1 .. n - 1 : u[i] = E[(k + 1) + i]
  <2>1. k + 1 \in 1 .. z /\ n - 1 = z - (k + 1)
    BY <1>3, <1>8
  <2>2. ASSUME NEW i \in 1 .. n - 1 PROVE u[i] = E[(k + 1) + i]
    <3>1. i + 1 \in 1 .. n /\ k + (i + 1) = (k + 1) + i
      BY <1>3
    <3> QED
      BY <1>5, <1>8, <3>1
  <2> QED
    BY <2>1, <2>2
<1>11. FrameAt(p, k + 1, rest)
  BY <1>5, <1>6, <1>7, <1>9, <1>10 DEF FrameAt
<1>12. Head(s) = E[k + 1]
  <2>1. Head(s) = s[1] /\ 1 \in 1 .. n
    BY <1>2, <1>3
  <2> QED
    BY <1>8, <2>1
<1>13. E[k + 1] \in ElementsOf(E)
  BY <1>7, <1>10 DEF ElementsOf
<1> QED
  BY <1>1, <1>6, <1>7, <1>9, <1>10, <1>11, <1>12, <1>13

\* The directory read is about to be walked from its first entry.
LEMMA FirstFrame ==
    ASSUME HasDirectories(volume), NEW p \in AnyDirectory
    PROVE  FrameAt(p, 0, Frame(p.path, p.clusters))
<1>1. PICK E \in Seq(AnyEntry) : E = EntriesIn(p)
  BY EntriesInAre
<1>2. PICK x : x = Frame(p.path, p.clusters)
  OBVIOUS
<1>3. x.path = p.path /\ x.entries = E
  BY <1>1, <1>2 DEF Frame, EntriesIn
<1>4. Len(E) \in Nat /\ Len(E) - 0 = Len(E) /\ \A i \in 1 .. Len(E) : E[0 + i] = E[i]
  OBVIOUS
<1> QED
  BY <1>1, <1>2, <1>3, <1>4 DEF FrameAt

\* What the walk reads of the volume.
IsTree == /\ HasDirectories(volume) /\ \A m : get_next_cluster(m) \in Nat
          /\ volume.root_cluster \in Nat

\* A stack with another frame on the top.
LEMMA OtherTop ==
    ASSUME NEW s \in Seq(DirectoryFrame), s # << >>, NEW x \in DirectoryFrame
    PROVE  LET u == << x >> \o Tail(s)
           IN  /\ u \in Seq(DirectoryFrame) /\ Len(u) = Len(s)
               /\ u[1] = x /\ \A i \in 2 .. Len(s) : u[i] = s[i]
<1>1. PICK n \in Nat : n = Len(s) /\ n >= 1
  <2>1. Len(s) \in Nat /\ Len(s) # 0
    OBVIOUS
  <2> QED
    BY <2>1
<1>2. PICK r : r = Tail(s)
  OBVIOUS
<1>3. r \in Seq(DirectoryFrame) /\ Len(r) = n - 1 /\ \A i \in 1 .. n - 1 : r[i] = s[i + 1]
  BY <1>1, <1>2
<1>4. PICK u : u = << x >> \o r
  OBVIOUS
<1>5. << x >> \in Seq(DirectoryFrame) /\ Len(<< x >>) = 1 /\ << x >>[1] = x
  OBVIOUS
<1>6. /\ u \in Seq(DirectoryFrame) /\ Len(u) = 1 + (n - 1) /\ u[1] = x
      /\ \A i \in 2 .. n : u[i] = r[i - 1]
  BY <1>1, <1>3, <1>4, <1>5
<1>7. \A i \in 2 .. n : u[i] = s[i]
  <2>1. ASSUME NEW i \in 2 .. n PROVE u[i] = s[i]
    <3>1. i - 1 \in 1 .. n - 1 /\ (i - 1) + 1 = i
      BY <1>1
    <3> QED
      BY <1>3, <1>6, <3>1
  <2> QED
    BY <2>1
<1> QED
  BY <1>1, <1>2, <1>4, <1>6, <1>7

\* One more directory on the stack.
LEMMA OneMore ==
    ASSUME NEW s \in Seq(DirectoryFrame), NEW x \in DirectoryFrame
    PROVE  LET u == << x >> \o s
           IN  /\ u \in Seq(DirectoryFrame) /\ Len(u) = Len(s) + 1
               /\ u[1] = x /\ \A i \in 1 .. Len(s) : u[i + 1] = s[i]
<1>1. PICK n \in Nat : n = Len(s)
  OBVIOUS
<1>2. PICK u : u = << x >> \o s
  OBVIOUS
<1>3. << x >> \in Seq(DirectoryFrame) /\ Len(<< x >>) = 1 /\ << x >>[1] = x
  OBVIOUS
<1>4. /\ u \in Seq(DirectoryFrame) /\ Len(u) = n + 1 /\ u[1] = x
      /\ \A i \in 1 .. n : u[i + 1] = s[i]
  BY <1>1, <1>2, <1>3
<1> QED
  BY <1>1, <1>2, <1>4

\* The stack u is s with one more entry of the directory on the top left behind.
OneOn(s, u) ==
    /\ Len(u) = Len(s) /\ \A i \in 2 .. Len(s) : u[i] = s[i]
    /\ u[1] = [ s[1] EXCEPT !.entries = Tail(s[1].entries) ]

\* What that changes.
Moved(D, K, K2, s, u, m) ==
    /\ K2[m] = K[m] + 1 /\ \A d \in 0 .. m - 1 : K2[d] = K[d]
    /\ K2[m] \in 1 .. Len(EntriesIn(D[m]))
    /\ Head(s[1].entries) = EntriesIn(D[m])[K2[m]]
    /\ Head(s[1].entries) \in ElementsOf(EntriesIn(D[m]))
    /\ \A d \in 0 .. m : FrameAt(D[d], K2[d], u[(m + 1) - d])

\* A function with one value changed.
LEMMA OneChanged ==
    ASSUME NEW K \in [Nat -> Nat], NEW m \in Nat, NEW v \in Nat
    PROVE  /\ [ K EXCEPT ![m] = v ] \in [Nat -> Nat] /\ [ K EXCEPT ![m] = v ][m] = v
           /\ \A d \in Nat \ { m } : [ K EXCEPT ![m] = v ][d] = K[d]
OBVIOUS

\* One more entry of the directory on the top is behind the walk.
LEMMA TopMoves ==
    ASSUME IsTree, NEW D \in Paths, NEW K \in [Nat -> Nat], NEW m \in Nat,
           NEW s \in Seq(DirectoryFrame), Len(s) = m + 1, Visited(D, K, s, m),
           ~ (s[1].entries = << >>), NEW u, OneOn(s, u)
    PROVE  \E K2 \in [Nat -> Nat] : Moved(D, K, K2, s, u, m)
<1>1. PICK frame : frame = s[1]
  OBVIOUS
<1>2. frame \in DirectoryFrame
  BY <1>1
<1>3. PICK rest : rest = [ frame EXCEPT !.entries = Tail(frame.entries) ]
  OBVIOUS
<1>4. D[m] \in AnyDirectory /\ K[m] \in Nat
  BY DEF Paths
<1>5. PICK k \in Nat : k = K[m]
  BY <1>4
<1>6. ASSUME NEW d \in 0 .. m PROVE FrameAt(D[d], K[d], s[(m + 1) - d])
  <2>1. d \in 0 .. Len(s) - 1
    OBVIOUS
  <2> QED
    BY <2>1 DEF Visited
<1>7. FrameAt(D[m], k, frame)
  <2>1. m \in 0 .. m /\ (m + 1) - m = 1
    OBVIOUS
  <2> QED
    BY <1>1, <1>5, <1>6, <2>1
<1>8. frame.entries # << >>
  BY <1>1
<1>9. /\ FrameAt(D[m], k + 1, rest) /\ k + 1 \in 1 .. Len(EntriesIn(D[m]))
      /\ Head(frame.entries) = EntriesIn(D[m])[k + 1]
      /\ Head(frame.entries) \in ElementsOf(EntriesIn(D[m]))
  <2>1. HasDirectories(volume)
    BY DEF IsTree
  <2>2. Passed(frame, rest)
    BY <1>3 DEF Passed
  <2> QED
    BY <1>2, <1>4, <1>7, <1>8, <2>1, <2>2, TakeEntry
<1>10. PICK K2 : K2 = [ K EXCEPT ![m] = k + 1 ]
  OBVIOUS
<1>11. /\ K2 \in [Nat -> Nat] /\ K2[m] = k + 1
       /\ \A d \in 0 .. m - 1 : K2[d] = K[d]
  <2>1. PICK v \in Nat : v = k + 1
    OBVIOUS
  <2>2. /\ K2 \in [Nat -> Nat] /\ K2[m] = v
        /\ \A d \in Nat \ { m } : K2[d] = K[d]
    <3>1. /\ [ K EXCEPT ![m] = v ] \in [Nat -> Nat] /\ [ K EXCEPT ![m] = v ][m] = v
          /\ \A d \in Nat \ { m } : [ K EXCEPT ![m] = v ][d] = K[d]
      BY OneChanged
    <3> QED
      BY <1>10, <2>1, <3>1, Zenon
  <2>3. \A d \in 0 .. m - 1 : d \in Nat \ { m }
    OBVIOUS
  <2> QED
    BY <2>1, <2>2, <2>3, Zenon
<1>12. ASSUME NEW d \in 0 .. m PROVE FrameAt(D[d], K2[d], u[(m + 1) - d])
  <2>1. CASE d = m
    <3>1. (m + 1) - d = 1
      BY <2>1
    <3>2. u[1] = rest
      BY <1>1, <1>3 DEF OneOn
    <3> QED
      BY <1>9, <1>11, <2>1, <3>1, <3>2
  <2>2. CASE d # m
    <3>1. d \in 0 .. m - 1 /\ (m + 1) - d \in 2 .. m + 1
      BY <2>2
    <3>2. u[(m + 1) - d] = s[(m + 1) - d]
      BY <3>1 DEF OneOn
    <3>3. K2[d] = K[d]
      BY <1>11, <3>1
    <3> QED
      BY <1>6, <3>2, <3>3
  <2> QED
    BY <2>1, <2>2
<1> QED
  BY <1>1, <1>5, <1>9, <1>11, <1>12 DEF Moved

\* The walk leaves an entry behind that has been dealt with.
LEMMA LeaveBehind ==
    ASSUME IsTree, NEW D \in Paths, NEW K \in [Nat -> Nat], NEW m \in Nat,
           NEW s \in Seq(DirectoryFrame), Len(s) = m + 1, Visited(D, K, s, m),
           ~ (s[1].entries = << >>), NEW u, OneOn(s, u),
           Dealt(D[m], Head(s[1].entries), m)
    PROVE  \E K2 \in [Nat -> Nat] : Visited(D, K2, u, m)
<1>1. PICK e : e = Head(s[1].entries)
  OBVIOUS
<1>t. PICK K2 \in [Nat -> Nat] : Moved(D, K, K2, s, u, m)
  BY TopMoves
<1>2. /\ K2[m] = K[m] + 1 /\ \A d \in 0 .. m - 1 : K2[d] = K[d]
      /\ e = EntriesIn(D[m])[K2[m]]
      /\ \A d \in 0 .. m : FrameAt(D[d], K2[d], u[(m + 1) - d])
  BY <1>1, <1>t DEF Moved
<1>3. Len(u) = m + 1
  BY DEF OneOn
<1>4. \A d \in 0 .. m : D[d] \in Directories(d)
  BY DEF Visited
<1>5. ASSUME NEW d \in 0 .. m, NEW j \in 1 .. K2[d]
      PROVE  (j = K2[d] /\ d < m) \/ Dealt(D[d], EntriesIn(D[d])[j], d)
  <2>1. d \in 0 .. Len(s) - 1
    OBVIOUS
  <2>2. \A i \in 1 .. K[d] : (i = K[d] /\ d < m) \/ Dealt(D[d], EntriesIn(D[d])[i], d)
    BY <2>1 DEF Visited
  <2>3. CASE d = m
    <3>1. PICK k \in Nat : k = K[m]
      OBVIOUS
    <3>5. K2[d] = k + 1 /\ j \in 1 .. K2[d]
      BY <1>2, <2>3, <3>1
    <3>2. j = k + 1 \/ j \in 1 .. k
      BY <3>5
    <3>3. CASE j = k + 1
      BY <1>1, <1>2, <2>3, <3>1, <3>3
    <3>4. CASE j \in 1 .. k
      BY <2>2, <2>3, <3>1, <3>4
    <3> QED
      BY <3>2, <3>3, <3>4
  <2>4. CASE d # m
    <3>1. d \in 0 .. m - 1
      BY <2>4
    <3> QED
      BY <1>2, <2>2, <3>1
  <2> QED
    BY <2>3, <2>4
<1>6. ASSUME NEW d \in 0 .. m - 1
      PROVE  /\ K2[d] >= 1 /\ Leads(D[d], EntriesIn(D[d])[K2[d]])
             /\ D[d + 1] = Subdirectory(D[d], EntriesIn(D[d])[K2[d]])
  BY <1>2 DEF Visited
<1>7. 0 .. Len(u) - 1 = 0 .. m
  BY <1>3
<1>8. Visited(D, K2, u, m)
  BY <1>2, <1>3, <1>4, <1>5, <1>6, <1>7 DEF Visited
<1> QED
  BY <1>8

\* The walk leaves an entry behind that leads to a directory, which is read next.
LEMMA EnterBelow ==
    ASSUME IsTree, NEW D \in Paths, NEW K \in [Nat -> Nat], NEW m \in Nat,
           NEW s \in Seq(DirectoryFrame), Len(s) = m + 1, Visited(D, K, s, m),
           ~ (s[1].entries = << >>), NEW u, OneOn(s, u),
           Leads(D[m], Head(s[1].entries))
    PROVE  \E D2 \in Paths, K2 \in [Nat -> Nat] :
              /\ Visited(D2, K2, u, m + 1)
              /\ D2[m + 1] = Subdirectory(D[m], Head(s[1].entries))
<1>1. PICK e : e = Head(s[1].entries)
  OBVIOUS
<1>t. PICK K2 \in [Nat -> Nat] : Moved(D, K, K2, s, u, m)
  BY TopMoves
<1>2. /\ K2[m] = K[m] + 1 /\ \A d \in 0 .. m - 1 : K2[d] = K[d]
      /\ K2[m] \in 1 .. Len(EntriesIn(D[m]))
      /\ e = EntriesIn(D[m])[K2[m]] /\ e \in ElementsOf(EntriesIn(D[m]))
      /\ \A d \in 0 .. m : FrameAt(D[d], K2[d], u[(m + 1) - d])
  BY <1>1, <1>t DEF Moved
<1>3. Len(u) = m + 1
  BY DEF OneOn
<1>4. PICK c : c = Subdirectory(D[m], e)
  OBVIOUS
<1>5. D[m] \in AnyDirectory /\ D[m] \in Directories(m)
  <2>1. m \in 0 .. m
    OBVIOUS
  <2> QED
    BY <2>1 DEF Visited, Paths
<1>6. c \in Subdirectories(D[m])
  BY <1>1, <1>2, <1>4, <1>5, SubdirectoriesAre DEF IsTree, EntriesIn
<1>7. c \in AnyDirectory /\ c \in Directories(m + 1)
  BY <1>5, <1>6, SubdirectoriesAre, DirectoriesAre DEF IsTree
<1>8. PICK D2 : D2 = [ D EXCEPT ![m + 1] = c ]
  OBVIOUS
<1>9. D2 \in Paths /\ D2[m + 1] = c /\ \A d \in 0 .. m : D2[d] = D[d]
  <2>1. m + 1 \in Nat /\ \A d \in 0 .. m : d \in Nat /\ d # m + 1
    OBVIOUS
  <2> QED
    BY <1>7, <1>8, <2>1 DEF Paths
<1>10. ASSUME NEW d \in 0 .. m + 1 PROVE D2[d] \in Directories(d)
  <2>1. CASE d = m + 1
    BY <1>7, <1>9, <2>1
  <2>2. CASE d # m + 1
    <3>1. d \in 0 .. m
      BY <2>2
    <3> QED
      BY <1>9, <3>1 DEF Visited
  <2> QED
    BY <2>1, <2>2
<1>11. ASSUME NEW d \in 0 .. m, NEW j \in 1 .. K2[d]
       PROVE  (j = K2[d] /\ d < m + 1) \/ Dealt(D2[d], EntriesIn(D2[d])[j], d)
  <2>1. d \in 0 .. Len(s) - 1 /\ d < m + 1
    OBVIOUS
  <2>2. \A i \in 1 .. K[d] : (i = K[d] /\ d < m) \/ Dealt(D[d], EntriesIn(D[d])[i], d)
    BY <2>1 DEF Visited
  <2>3. CASE d = m
    <3>1. PICK k \in Nat : k = K[m]
      OBVIOUS
    <3>2. K2[d] = k + 1 /\ j \in 1 .. K2[d]
      BY <1>2, <2>3, <3>1
    <3>3. j = K2[d] \/ j \in 1 .. k
      BY <3>2
    <3>4. CASE j \in 1 .. k
      <4>1. D2[d] = D[d]
        BY <1>9
      <4>2. ~ (d < m)
        BY <2>3
      <4> QED
        BY <2>2, <2>3, <3>1, <3>4, <4>1, <4>2
    <3> QED
      BY <2>1, <3>3, <3>4
  <2>4. CASE d # m
    <3>1. d \in 0 .. m - 1
      BY <2>4
    <3> QED
      BY <1>2, <1>9, <2>1, <2>2, <3>1
  <2> QED
    BY <2>3, <2>4
<1>12. ASSUME NEW d \in 0 .. m
       PROVE  /\ K2[d] >= 1 /\ Leads(D2[d], EntriesIn(D2[d])[K2[d]])
              /\ D2[d + 1] = Subdirectory(D2[d], EntriesIn(D2[d])[K2[d]])
  <2>1. CASE d = m
    <3>0. m \in 0 .. m
      OBVIOUS
    <3>1. D2[m] = D[m] /\ D2[m + 1] = c
      BY <1>9, <3>0
    <3>2. K2[m] >= 1
      BY <1>2
    <3>3. Leads(D2[m], EntriesIn(D2[m])[K2[m]])
      BY <1>1, <1>2, <3>1
    <3>4. D2[m + 1] = Subdirectory(D2[m], EntriesIn(D2[m])[K2[m]])
      BY <1>2, <1>4, <3>1
    <3> QED
      BY <2>1, <3>2, <3>3, <3>4
  <2>2. CASE d # m
    <3>1. d \in 0 .. m - 1 /\ d + 1 \in 0 .. m
      BY <2>2
    <3> QED
      BY <1>2, <1>9, <3>1 DEF Visited
  <2> QED
    BY <2>1, <2>2
<1>13. 0 .. Len(u) - 1 = 0 .. m /\ 0 .. (m + 1) - 1 = 0 .. m
  BY <1>3
<1>14. \A d \in 0 .. m : FrameAt(D2[d], K2[d], u[Len(u) - d])
  BY <1>2, <1>3, <1>9
<1>15. Visited(D2, K2, u, m + 1)
  BY <1>10, <1>11, <1>12, <1>13, <1>14 DEF Visited
<1> QED
  BY <1>1, <1>4, <1>9, <1>15

\* The directory that has been read goes on the stack.
LEMMA GoesOn ==
    ASSUME NEW D \in Paths, NEW K \in [Nat -> Nat], NEW n \in Nat,
           NEW s \in Seq(DirectoryFrame), Len(s) = n, Visited(D, K, s, n),
           NEW u, Len(u) = n + 1, \A i \in 1 .. n : u[i + 1] = s[i], FrameAt(D[n], 0, u[1])
    PROVE  \E K2 \in [Nat -> Nat] : Visited(D, K2, u, n)
<1>1. PICK K2 : K2 = [ K EXCEPT ![n] = 0 ]
  OBVIOUS
<1>2. K2 \in [Nat -> Nat] /\ K2[n] = 0 /\ \A d \in 0 .. n - 1 : K2[d] = K[d]
  <2>1. 0 \in Nat /\ \A d \in 0 .. n - 1 : d \in Nat \ { n }
    OBVIOUS
  <2>2. K2 \in [Nat -> Nat] /\ K2[n] = 0 /\ \A d \in Nat \ { n } : K2[d] = K[d]
    <3>1. /\ [ K EXCEPT ![n] = 0 ] \in [Nat -> Nat] /\ [ K EXCEPT ![n] = 0 ][n] = 0
          /\ \A d \in Nat \ { n } : [ K EXCEPT ![n] = 0 ][d] = K[d]
      BY <2>1, OneChanged
    <3> QED
      BY <1>1, <3>1, Zenon
  <2> QED
    BY <2>1, <2>2, Zenon
<1>3. ASSUME NEW d \in 0 .. n
      PROVE  /\ FrameAt(D[d], K2[d], u[(n + 1) - d])
             /\ \A j \in 1 .. K2[d] : (j = K2[d] /\ d < n) \/ Dealt(D[d], EntriesIn(D[d])[j], d)
  <2>1. CASE d = n
    <3>1. (n + 1) - d = 1 /\ 1 .. K2[d] = {}
      BY <1>2, <2>1
    <3> QED
      BY <1>2, <2>1, <3>1
  <2>2. CASE d # n
    <3>1. d \in 0 .. n - 1 /\ n - d \in 1 .. n /\ (n + 1) - d = (n - d) + 1
      BY <2>2
    <3>2. d \in 0 .. Len(s) - 1 /\ Len(s) - d = n - d
      BY <3>1
    <3>3. /\ FrameAt(D[d], K[d], s[n - d])
          /\ \A j \in 1 .. K[d] : (j = K[d] /\ d < n) \/ Dealt(D[d], EntriesIn(D[d])[j], d)
      BY <3>2 DEF Visited
    <3> QED
      BY <1>2, <3>1, <3>3
  <2> QED
    BY <2>1, <2>2
<1>4. \A d \in 0 .. n : D[d] \in Directories(d)
  BY DEF Visited
<1>5. ASSUME NEW d \in 0 .. n - 1
      PROVE  /\ K2[d] >= 1 /\ Leads(D[d], EntriesIn(D[d])[K2[d]])
             /\ D[d + 1] = Subdirectory(D[d], EntriesIn(D[d])[K2[d]])
  BY <1>2 DEF Visited
<1>6. 0 .. Len(u) - 1 = 0 .. n
  OBVIOUS
<1>7. Visited(D, K2, u, n)
  BY <1>3, <1>4, <1>5, <1>6 DEF Visited
<1> QED
  BY <1>2, <1>7

\* The directory below the stack has been dealt with.
LEMMA BelowDone ==
    ASSUME NEW D \in Paths, NEW K \in [Nat -> Nat], NEW m \in Nat, NEW s,
           Len(s) = m + 1, Visited(D, K, s, m + 1),
           m < KF_FAT_MAX_DIR_DEPTH => AllThere(D[m + 1], KF_FAT_MAX_DIR_DEPTH - (m + 1))
    PROVE  Visited(D, K, s, m)
<1>1. PICK e : e = EntriesIn(D[m])[K[m]]
  OBVIOUS
<1>2. Leads(D[m], e) /\ D[m + 1] = Subdirectory(D[m], e)
  <2>1. m \in 0 .. (m + 1) - 1
    OBVIOUS
  <2> QED
    BY <1>1, <2>1 DEF Visited
<1>3. Dealt(D[m], e, m)
  <2>1. e.kind # "file"
    <3>1. e.kind = "dir"
      BY <1>2 DEF Leads, IsSubdirectory
    <3> QED
      BY <3>1
  <2> QED
    BY <1>2, <2>1 DEF Dealt
<1>4. ASSUME NEW d \in 0 .. m, NEW j \in 1 .. K[d]
      PROVE  (j = K[d] /\ d < m) \/ Dealt(D[d], EntriesIn(D[d])[j], d)
  <2>1. d \in 0 .. Len(s) - 1
    OBVIOUS
  <2>2. (j = K[d] /\ d < m + 1) \/ Dealt(D[d], EntriesIn(D[d])[j], d)
    BY <2>1 DEF Visited
  <2>3. CASE j = K[d] /\ d = m
    BY <1>1, <1>3, <2>3
  <2>4. d < m \/ d = m
    OBVIOUS
  <2> QED
    BY <2>2, <2>3, <2>4
<1>5. /\ \A d \in 0 .. m : D[d] \in Directories(d)
      /\ \A d \in 0 .. m : FrameAt(D[d], K[d], s[Len(s) - d])
      /\ \A d \in 0 .. m - 1 :
            /\ K[d] >= 1 /\ Leads(D[d], EntriesIn(D[d])[K[d]])
            /\ D[d + 1] = Subdirectory(D[d], EntriesIn(D[d])[K[d]])
  <2>1. /\ \A d \in 0 .. m : d \in 0 .. m + 1 /\ d \in 0 .. Len(s) - 1
        /\ \A d \in 0 .. m - 1 : d \in 0 .. (m + 1) - 1
    OBVIOUS
  <2> QED
    BY <2>1 DEF Visited
<1>6. 0 .. Len(s) - 1 = 0 .. m
  OBVIOUS
<1> QED
  BY <1>4, <1>5, <1>6 DEF Visited

\* The directory on the top has been walked to its end.
LEMMA ReturnsFrom ==
    ASSUME IsTree, NEW D \in Paths, NEW K \in [Nat -> Nat], NEW m \in Nat,
           NEW s \in Seq(DirectoryFrame), Len(s) = m + 1, Visited(D, K, s, m),
           s[1].entries = << >>, NEW u, Len(u) = m, \A i \in 1 .. m : u[i] = s[i + 1]
    PROVE  /\ Visited(D, K, u, m)
           /\ m <= KF_FAT_MAX_DIR_DEPTH => AllThere(D[m], KF_FAT_MAX_DIR_DEPTH - m)
<1>1. PICK p \in AnyDirectory : p = D[m]
  BY DEF Paths
<1>2. PICK E \in Seq(AnyEntry) : E = EntriesIn(p)
  BY EntriesInAre DEF IsTree
<1>3. m \in 0 .. Len(s) - 1 /\ Len(s) - m = 1
  OBVIOUS
<1>4. /\ FrameAt(p, K[m], s[1])
      /\ \A j \in 1 .. K[m] : (j = K[m] /\ m < m) \/ Dealt(p, EntriesIn(p)[j], m)
  BY <1>1, <1>3 DEF Visited
<1>5. PICK k \in Nat : k = K[m]
  OBVIOUS
<1>6. Len(E) = k
  <2>1. Len(s[1].entries) = Len(E) - k
    BY <1>2, <1>4, <1>5 DEF FrameAt
  <2>2. Len(s[1].entries) = 0 /\ Len(E) \in Nat
    OBVIOUS
  <2> QED
    BY <2>1, <2>2
<1>7. \A e \in ElementsOf(E) : Dealt(p, e, m)
  BY <1>2, <1>4, <1>5, <1>6 DEF ElementsOf
<1>8. ASSUME m <= KF_FAT_MAX_DIR_DEPTH PROVE AllThere(p, KF_FAT_MAX_DIR_DEPTH - m)
  <2>1. PICK n \in 0 .. KF_FAT_MAX_DIR_DEPTH : m + n = KF_FAT_MAX_DIR_DEPTH
    <3>1. KF_FAT_MAX_DIR_DEPTH \in Nat
      BY FatWalkAssumption
    <3>2. /\ KF_FAT_MAX_DIR_DEPTH - m \in 0 .. KF_FAT_MAX_DIR_DEPTH
          /\ m + (KF_FAT_MAX_DIR_DEPTH - m) = KF_FAT_MAX_DIR_DEPTH
      BY <1>8, <3>1
    <3> QED
      BY <3>2
  <2>2. AllThere(p, n)
    BY <1>2, <1>7, <2>1, DirectoryDone DEF IsTree, EntriesIn
  <2>3. n = KF_FAT_MAX_DIR_DEPTH - m
    BY <2>1, FatWalkAssumption
  <2> QED
    BY <2>2, <2>3
<1>9. ASSUME NEW d \in 0 .. m - 1
      PROVE  /\ FrameAt(D[d], K[d], u[m - d])
             /\ \A j \in 1 .. K[d] : (j = K[d] /\ d < m) \/ Dealt(D[d], EntriesIn(D[d])[j], d)
  <2>1. d \in 0 .. Len(s) - 1 /\ m - d \in 1 .. m /\ Len(s) - d = (m - d) + 1
    OBVIOUS
  <2> QED
    BY <2>1 DEF Visited
<1>10. Visited(D, K, u, m)
  BY <1>9 DEF Visited
<1> QED
  BY <1>1, <1>8, <1>10

\* All that holds as long as the volume does not change and what is there remains.
LEMMA VisitedStays ==
    ASSUME UNCHANGED volume, Remain, NEW D, NEW K, NEW s, NEW m, Visited(D, K, s, m)
    PROVE  Visited(D, K, s, m)'
<1>1. /\ \A d : Directories(d)' = Directories(d)
      /\ \A p : EntriesIn(p)' = EntriesIn(p)
      /\ \A p, e : Leads(p, e)' = Leads(p, e) /\ Subdirectory(p, e)' = Subdirectory(p, e)
  BY TreeConstants DEF Directories, EntriesIn
<1>2. \A p, k, frame : FrameAt(p, k, frame)' = FrameAt(p, k, frame)
  BY <1>1 DEF FrameAt
<1>3. \A p, e, d : Dealt(p, e, d) => Dealt(p, e, d)'
  BY ThereStays
<1>4. \A d \in 0 .. m : D[d] \in Directories(d)'
  BY <1>1 DEF Visited
<1>5. \A d \in 0 .. Len(s) - 1 :
         /\ FrameAt(D[d], K[d], s[Len(s) - d])'
         /\ \A j \in 1 .. K[d] : (j = K[d] /\ d < m) \/ Dealt(D[d], EntriesIn(D[d])[j], d)'
  <2>1. ASSUME NEW d \in 0 .. Len(s) - 1
        PROVE  /\ FrameAt(D[d], K[d], s[Len(s) - d])'
               /\ \A j \in 1 .. K[d] : (j = K[d] /\ d < m) \/ Dealt(D[d], EntriesIn(D[d])[j], d)'
    <3>1. /\ FrameAt(D[d], K[d], s[Len(s) - d])
          /\ \A j \in 1 .. K[d] : (j = K[d] /\ d < m) \/ Dealt(D[d], EntriesIn(D[d])[j], d)
      BY DEF Visited
    <3>2. FrameAt(D[d], K[d], s[Len(s) - d])'
      BY <1>2, <3>1
    <3>3. ASSUME NEW j \in 1 .. K[d]
          PROVE  (j = K[d] /\ d < m) \/ Dealt(D[d], EntriesIn(D[d])[j], d)'
      <4>1. PICK e : e = EntriesIn(D[d])[j] /\ e = EntriesIn(D[d])'[j]
        BY <1>1
      <4>2. Dealt(D[d], e, d) => Dealt(D[d], e, d)'
        BY <1>3
      <4> QED
        BY <3>1, <4>1, <4>2
    <3> QED
      BY <3>2, <3>3
  <2> QED
    BY <2>1
<1>6. \A d \in 0 .. m - 1 :
         /\ K[d] >= 1 /\ Leads(D[d], EntriesIn(D[d])[K[d]])'
         /\ D[d + 1] = Subdirectory(D[d], EntriesIn(D[d])[K[d]])'
  <2>1. ASSUME NEW d \in 0 .. m - 1
        PROVE  /\ K[d] >= 1 /\ Leads(D[d], EntriesIn(D[d])[K[d]])'
               /\ D[d + 1] = Subdirectory(D[d], EntriesIn(D[d])[K[d]])'
    <3>1. PICK e : e = EntriesIn(D[d])[K[d]] /\ e = EntriesIn(D[d])'[K[d]]
      BY <1>1
    <3>2. K[d] >= 1 /\ Leads(D[d], e) /\ D[d + 1] = Subdirectory(D[d], e)
      BY <3>1 DEF Visited
    <3>3. Leads(D[d], e)' /\ D[d + 1] = Subdirectory(D[d], e)'
      BY <1>1, <3>2
    <3> QED
      BY <3>1, <3>2, <3>3
  <2> QED
    BY <2>1
<1> QED
  BY <1>4, <1>5, <1>6 DEF Visited

\* Files at their paths and from their clusters, numbered by the first of these.
KnownFiles ==
    \A f \in recovered :
        /\ f.of \in Nat /\ (f.nth # 0 => f.nth = f.of + 1)
        /\ \E x \in FilesBelow(KF_FAT_MAX_DIR_DEPTH) : IsCopy(f, x)

\* The clusters of the files written and of the directories read.
Kept ==
    (UNION { ToSet(f.clusters) : f \in recovered })
      \cup (UNION { ToSet(x.clusters) : x \in { y \in FilesBelow(KF_FAT_MAX_DIR_DEPTH) :
                       \E f \in recovered : f.nth # 0 /\ SameFile(f, y) } })
      \cup (UNION { ToSet(p.clusters) : p \in Directories(KF_FAT_MAX_DIR_DEPTH + 1) })

\* What has been taken out; nothing is being read or written between two entries.
KnownTaken ==
    /\ used \subseteq UNION { ClusterBytes(n) : n \in ToSet(tree.got) \cup Kept }
    /\ pc \notin { "dir", "file", "overrun" } => ToSet(tree.got) \subseteq Kept

\* What the walk is at.
Walking ==
    /\ Len(tree.stack) <= KF_FAT_MAX_DIR_DEPTH + 1
    /\ tree.stack # << >> \/ pc \in { "boot", "dir", "file" } => tree.result = "OK"
    /\ pc = "boot" => tree.stack = << >> /\ tree.got = << >> /\ tree.path = << >>
    /\ pc = "done" => tree.stack = << >>
    /\ pc = "dir" => tree.left \in Nat /\ Len(tree.got) + tree.left <= KF_FAT_MAX_DIR_CLUSTERS
    /\ pc = "file" =>
          /\ tree.stack # << >> /\ Top.entries # << >> /\ WantedFile
          /\ tree.path = Append(Top.path, Entry1.name)
          /\ Followed(DataClusters, Entry1.ino, tree.got, tree.next)
          /\ tree.left \in Nat /\ Len(tree.got) + tree.left = Entry1.size

\* How deep the directory is that is being read or was read last.
Deepest == IF pc = "dir" THEN Len(tree.stack) ELSE Len(tree.stack) - 1

\* This directory, as far as it has been read.
Reading(p) ==
    /\ tree.path = p.path
    /\ \E c0 \in Nat : p.clusters = ChainOf(c0) /\ Followed(ChainClusters, c0, tree.got, tree.next)

\* Where the walk is in the tree.
InTree ==
    pc # "overrun" =>
        \E D \in Paths, K \in [Nat -> Nat] :
            /\ Visited(D, K, tree.stack, Deepest)
            /\ pc = "dir" => Reading(D[Len(tree.stack)])

\* The walk has come to its end.
AllWalked ==
    pc \in { "walk", "done" } /\ tree.stack = << >> /\ tree.result = "OK" /\ volume.opens =>
        AllThere(RootDirectory, KF_FAT_MAX_DIR_DEPTH)

DirInv == Tree => KnownFiles /\ KnownTaken /\ Walking /\ InTree /\ AllWalked

\* The invariant gives the property.
LEMMA DirInvGives == DirInv => TreeRecovered
<1> SUFFICES ASSUME Tree, DirInv PROVE TreeRecovered
  BY DEF TreeRecovered
<1>1. /\ KnownFiles /\ KnownTaken /\ Walking /\ AllWalked
  BY DEF DirInv
<1>2. PICK B : B = FilesBelow(KF_FAT_MAX_DIR_DEPTH)
  OBVIOUS
<1>3. \A f \in recovered : \E x \in B : IsCopy(f, x)
  BY <1>1, <1>2 DEF KnownFiles
<1>4. WalkedClusters = ToSet(tree.got) \cup Kept
  BY Zenon DEF WalkedClusters, Kept
<1>5. used \subseteq UNION { ClusterBytes(n) : n \in WalkedClusters }
  BY <1>1, <1>4 DEF KnownTaken
<1>6. ASSUME pc = "done", volume.opens, tree.result = "OK"
      PROVE  \A x \in B : \E f \in recovered : SameFile(f, x)
  <2>1. tree.stack = << >>
    BY <1>1, <1>6 DEF Walking
  <2>2. AllThere(RootDirectory, KF_FAT_MAX_DIR_DEPTH)
    BY <1>1, <1>6, <2>1 DEF AllWalked
  <2> QED
    BY <1>2, <2>2 DEF AllThere, There, FilesBelow
<1> QED
  BY <1>2, <1>3, <1>5, <1>6 DEF TreeRecovered

\* Before the first step nothing has been read or written.
LEMMA DirInit == Init => DirInv
<1> SUFFICES ASSUME Init, Tree PROVE KnownFiles /\ KnownTaken /\ Walking /\ InTree /\ AllWalked
  BY DEF DirInv
<1>1. /\ pc = "boot" /\ recovered = {} /\ used = {}
      /\ tree = [ stack |-> << >>, result |-> "OK", path |-> << >>, next |-> 0,
                  got |-> << >>, left |-> 0 ]
  BY DEF Init, UnformatInit, WalkInit, Tree
<1>2. tree.stack = << >> /\ tree.result = "OK" /\ tree.path = << >> /\ tree.got = << >>
  BY <1>1
<1>3. Len(tree.stack) = 0 /\ KF_FAT_MAX_DIR_DEPTH \in Nat
  BY <1>2, FatWalkAssumption
<1>4. KnownFiles
  BY <1>1 DEF KnownFiles
<1>5. KnownTaken
  <2>1. ToSet(tree.got) = {}
    BY <1>2 DEF ToSet
  <2> QED
    BY <1>1, <2>1 DEF KnownTaken
<1>6. Walking
  BY <1>1, <1>2, <1>3 DEF Walking
<1>7. InTree
  <2>1. PICK D : D = [ n \in Nat |-> [ path |-> << >>, clusters |-> << >> ] ]
    OBVIOUS
  <2>2. PICK K : K = [ n \in Nat |-> 0 ]
    OBVIOUS
  <2>3. D \in Paths /\ K \in [Nat -> Nat]
    <3>1. << >> \in Seq(AnyName) /\ << >> \in Seq(Nat)
      OBVIOUS
    <3> QED
      BY <2>1, <2>2, <3>1 DEF Paths, AnyDirectory
  <2>4. Deepest = -1
    BY <1>1, <1>3 DEF Deepest
  <2>5. Visited(D, K, tree.stack, Deepest)
    BY <1>3, <2>4 DEF Visited
  <2> QED
    BY <1>1, <2>3, <2>5 DEF InTree
<1>8. AllWalked
  BY <1>1 DEF AllWalked
<1> QED
  BY <1>4, <1>5, <1>6, <1>7, <1>8

\* An empty stack, above the root, is visited whatever has been written.
LEMMA EmptyStack ==
    ASSUME NEW D, NEW K, NEW s, Len(s) = 0
    PROVE  Visited(D, K, s, -1)
BY DEF Visited

\* The files of the volume and what there is of it to walk stay as the volume does.
LEMMA TreeIsKept ==
    ASSUME UNCHANGED volume
    PROVE  /\ \A n : FilesBelow(n)' = FilesBelow(n) /\ Directories(n)' = Directories(n)
           /\ \A n : ClusterBytes(n)' = ClusterBytes(n)
           /\ \A p : FilesIn(p)' = FilesIn(p)
<1>1. ASSUME NEW n PROVE FilesBelow(n)' = FilesBelow(n)
  BY TreeConstants, Zenon DEF FilesBelow
<1>2. ASSUME NEW n PROVE Directories(n)' = Directories(n)
  BY TreeConstants, Zenon DEF Directories
<1>3. ASSUME NEW n PROVE ClusterBytes(n)' = ClusterBytes(n)
  BY DEF ClusterBytes, FirstByte, cluster_to_offset, Ntfs
<1>4. ASSUME NEW p PROVE FilesIn(p)' = FilesIn(p)
  BY TreeConstants
<1> QED
  BY <1>1, <1>2, <1>3, <1>4

\* A step that writes no file keeps what is known of the files.
LEMMA NothingWritten ==
    ASSUME UNCHANGED << volume, recovered >>, tree'.result = tree.result \/ tree.result = "OK"
    PROVE  /\ KnownFiles => KnownFiles'
           /\ Kept' = Kept /\ Remain
<1>1. PICK B : B = FilesBelow(KF_FAT_MAX_DIR_DEPTH) /\ B = FilesBelow(KF_FAT_MAX_DIR_DEPTH)'
  BY TreeIsKept
<1>2. PICK P : P = Directories(KF_FAT_MAX_DIR_DEPTH + 1) /\ P = Directories(KF_FAT_MAX_DIR_DEPTH + 1)'
  BY TreeIsKept
<1>3. ASSUME NEW f, NEW x, IsCopy(f, x) PROVE IsCopy(f, x)'
  <2>1. "OK" # "ENOSPC"
    OBVIOUS
  <2> QED
    BY <1>3, <2>1 DEF IsCopy, SameFile
<1>4. ASSUME KnownFiles PROVE KnownFiles'
  <2>1. ASSUME NEW f \in recovered' 
        PROVE  f.of \in Nat /\ (f.nth # 0 => f.nth = f.of + 1) /\ \E x \in B : IsCopy(f, x)'
    BY <1>1, <1>3, <1>4 DEF KnownFiles
  <2> QED
    BY <1>1, <2>1 DEF KnownFiles
<1>5. Kept' = Kept
  BY <1>1, <1>2 DEF Kept, SameFile
<1>6. Remain
  BY DEF Remain
<1> QED
  BY <1>4, <1>5, <1>6

\* The walk reads a volume with a tree.
LEMMA TreeRead == ASSUME SharedInv, Tree PROVE IsTree
BY WalkFacts DEF IsTree

\* The stack with one entry less to walk.
LEMMA BelowOn ==
    ASSUME WalkState, tree.stack # << >>, Top.entries # << >>
    PROVE  /\ OneOn(tree.stack, Below) /\ Below \in Seq(DirectoryFrame)
           /\ Len(Below) = Len(tree.stack)
           /\ ~ (tree.stack[1].entries = << >>) /\ Entry1 = Head(tree.stack[1].entries)
<1>1. PICK s \in Seq(DirectoryFrame) : s = tree.stack
  BY DEF WalkState
<1>2. Top = s[1] /\ Top \in DirectoryFrame /\ s # << >>
  BY <1>1, TailIs DEF Top
<1>3. PICK r : r = Tail(Top.entries)
  OBVIOUS
<1>4. r \in Seq(AnyEntry)
  BY <1>2, <1>3, TailIs DEF DirectoryFrame
<1>5. PICK x : x = [ Top EXCEPT !.entries = r ]
  OBVIOUS
<1>6. x \in DirectoryFrame
  BY <1>2, <1>4, <1>5 DEF DirectoryFrame
<1>7. Below = << x >> \o Tail(s)
  BY <1>1, <1>3, <1>5, Zenon DEF Below
<1>8. PICK u : u = Below
  OBVIOUS
<1>9. /\ u \in Seq(DirectoryFrame) /\ Len(u) = Len(s)
      /\ u[1] = x /\ \A i \in 2 .. Len(s) : u[i] = s[i]
  BY <1>2, <1>6, <1>7, <1>8, OtherTop
<1>10. OneOn(s, u)
  BY <1>2, <1>3, <1>5, <1>9 DEF OneOn
<1>11. ~ (s[1].entries = << >>) /\ Entry1 = Head(s[1].entries)
  BY <1>2 DEF Entry1
<1> QED
  BY <1>1, <1>8, <1>9, <1>10, <1>11

\* Where the walk is when it is at an entry, writes a file or returns.
LEMMA WalkAt ==
    ASSUME SharedInv, Tree, WalkState, InTree, Walking, pc \in { "walk", "file" }, tree.stack # << >>
    PROVE  \E m \in Nat, D \in Paths, K \in [Nat -> Nat], s \in Seq(DirectoryFrame) :
              /\ s = tree.stack /\ Len(s) = m + 1 /\ Visited(D, K, s, m)
              /\ m <= KF_FAT_MAX_DIR_DEPTH
              /\ D[m] \in AnyDirectory /\ D[m] \in Directories(m)
              /\ Top = s[1] /\ FrameAt(D[m], K[m], Top) /\ Top \in DirectoryFrame
<1>1. PICK s \in Seq(DirectoryFrame) : s = tree.stack
  BY DEF WalkState
<1>2. Len(s) \in Nat /\ Len(s) # 0
  BY <1>1
<1>3. PICK m \in Nat : Len(s) = m + 1
  <2>1. Len(s) - 1 \in Nat /\ Len(s) = (Len(s) - 1) + 1
    BY <1>2
  <2> QED
    BY <2>1
<1>4. Deepest = m
  BY <1>1, <1>3 DEF Deepest
<1>5. PICK D \in Paths, K \in [Nat -> Nat] : Visited(D, K, s, m)
  BY <1>1, <1>4 DEF InTree
<1>6. Top = s[1] /\ Top \in DirectoryFrame
  BY <1>1, TailIs DEF Top
<1>7. m \in 0 .. m /\ m \in 0 .. Len(s) - 1 /\ Len(s) - m = 1
  BY <1>3
<1>8. D[m] \in Directories(m) /\ FrameAt(D[m], K[m], Top)
  BY <1>5, <1>6, <1>7 DEF Visited
<1>9. D[m] \in AnyDirectory
  BY DEF Paths
<1>10. m <= KF_FAT_MAX_DIR_DEPTH
  BY <1>1, <1>3, FatWalkAssumption DEF Walking
<1> QED
  BY <1>1, <1>3, <1>5, <1>6, <1>8, <1>9, <1>10

\* The entry the walk is at is of the directory the top of the stack is of.
LEMMA EntryAt ==
    ASSUME IsTree, NEW p \in AnyDirectory, NEW k \in Nat, FrameAt(p, k, Top),
           Top \in DirectoryFrame, Top.entries # << >>
    PROVE  Top.path = p.path /\ Entry1 \in ElementsOf(EntriesIn(p)) /\ Entry1 \in AnyEntry
<1>1. PICK frame \in DirectoryFrame : frame = Top
  OBVIOUS
<1>2. PICK rest : rest = [ frame EXCEPT !.entries = Tail(frame.entries) ]
  OBVIOUS
<1>3. Head(frame.entries) \in ElementsOf(EntriesIn(p))
  <2>1. HasDirectories(volume)
    BY DEF IsTree
  <2>2. Passed(frame, rest)
    BY <1>2 DEF Passed
  <2> QED
    BY <1>1, <2>1, <2>2, TakeEntry
<1>4. Entry1 = Head(frame.entries)
  BY <1>1 DEF Entry1
<1>5. Entry1 \in AnyEntry
  BY <1>1, <1>4, TailIs DEF DirectoryFrame
<1> QED
  BY <1>3, <1>4, <1>5 DEF FrameAt

\* A wanted file of it is one of the files to be recovered.
LEMMA FileAt ==
    ASSUME IsTree, NEW m \in 0 .. KF_FAT_MAX_DIR_DEPTH, NEW p \in AnyDirectory, p \in Directories(m),
           NEW e \in ElementsOf(EntriesIn(p)), e.kind = "file", path_within(volume.filter, p.path)
    PROVE  FileOf(p, e) \in FilesBelow(KF_FAT_MAX_DIR_DEPTH)
<1>1. KF_FAT_MAX_DIR_DEPTH \in Nat
  BY FatWalkAssumption
<1>2. Directories(m) \subseteq Directories(KF_FAT_MAX_DIR_DEPTH)
  BY <1>1, DirectoriesAre DEF IsTree
<1>3. p \in Under(RootDirectory, KF_FAT_MAX_DIR_DEPTH)
  BY <1>2 DEF Directories
<1>4. PICK x : x = FileOf(p, e)
  OBVIOUS
<1>5. x \in FilesIn(p)
  BY <1>4, FilesInAre DEF IsTree, EntriesIn
<1> QED
  BY <1>3, <1>4, <1>5 DEF FilesBelow, FilesUnder

\* The chains the code follows.
LEMMA InChainIs ==
    ASSUME NEW n \in Nat
    PROVE  (InChain(n) <=> n \in ChainClusters) /\ (InData(n) <=> n \in DataClusters)
<1>1. PICK last : last = last_cluster
  OBVIOUS
<1>2. InData(n) <=> n \in DataClusters
  BY <1>1 DEF InData, DataClusters
<1> QED
  BY <1>2 DEF InChain, ChainClusters

\* The walk begins at the root.
LEMMA TreeBoot ==
    ASSUME SharedInv, Tree, WalkState, kf_fat_boot_geometry,
           KnownFiles, KnownTaken, Walking, InTree, AllWalked
    PROVE  KnownFiles' /\ KnownTaken' /\ Walking' /\ InTree' /\ AllWalked'
<1>0. IsTree /\ RootDirectory \in AnyDirectory /\ Directories(0) = { RootDirectory }
  BY TreeRead, DirectoriesAre DEF IsTree
<1>1. /\ pc = "boot" /\ UNCHANGED << volume, need_to_stop, used, recovered >>
      /\ tree.stack = << >> /\ tree.got = << >> /\ tree.path = << >> /\ tree.result = "OK"
  BY DEF kf_fat_boot_geometry, Walking
<1>2. PICK left : left = ChainLength(volume.root_cluster)
  OBVIOUS
<1>3. PICK frame : frame = Frame(<< >>, << 0 >>)
  OBVIOUS
<1>4. \/ ~ volume.opens /\ pc' = "done" /\ UNCHANGED tree
      \/ volume.root_cluster = 0 /\ tree' = [ tree EXCEPT !.stack = << frame >> ] /\ pc' = "walk"
      \/ /\ volume.root_cluster # 0 /\ pc' = "dir"
         /\ tree' = [ tree EXCEPT !.next = volume.root_cluster, !.left = left ]
  BY <1>2, <1>3, Zenon DEF kf_fat_boot_geometry
<1>5. DOMAIN tree = { "stack", "result", "path", "next", "got", "left" }
  BY DEF WalkState
<1>6. tree'.got = << >> /\ tree'.result = "OK" /\ tree'.path = << >>
  BY <1>1, <1>4, <1>5
<1>7. KnownFiles' /\ Kept' = Kept
  BY <1>1, <1>6, NothingWritten
<1>8. KnownTaken'
  <2>1. ToSet(tree.got) = {} /\ ToSet(tree.got)' = {}
    BY <1>1, <1>6 DEF ToSet
  <2>2. used \subseteq UNION { ClusterBytes(n) : n \in Kept }
    BY <2>1 DEF KnownTaken
  <2>3. \A n : ClusterBytes(n)' = ClusterBytes(n)
    BY <1>1, TreeIsKept
  <2> QED
    BY <1>1, <1>7, <2>1, <2>2, <2>3 DEF KnownTaken
<1>9. PICK D : D = [ n \in Nat |-> RootDirectory ]
  OBVIOUS
<1>10. PICK K : K = [ n \in Nat |-> 0 ]
  OBVIOUS
<1>11. D \in Paths /\ K \in [Nat -> Nat] /\ D[0] = RootDirectory /\ K[0] = 0
  BY <1>0, <1>9, <1>10 DEF Paths
<1>12. Len(<< >>) = 0 /\ KF_FAT_MAX_DIR_DEPTH \in Nat
  BY FatWalkAssumption
<1>13. RootDirectory' = RootDirectory /\ RootDirectory.path = << >> /\ Remain
  BY <1>1, <1>6, TreeConstants, NothingWritten DEF RootDirectory
<1>14. CASE ~ volume.opens /\ pc' = "done" /\ UNCHANGED tree
  <2>1. Walking'
    BY <1>1, <1>6, <1>12, <1>14 DEF Walking
  <2>2. AllWalked'
    BY <1>1, <1>14 DEF AllWalked
  <2>3. Visited(D, K, << >>, -1)
    BY <1>12, EmptyStack
  <2>4. Visited(D, K, << >>, -1)'
    BY <1>1, <1>13, <2>3, VisitedStays
  <2>5. tree'.stack = << >> /\ Deepest' = -1
    BY <1>1, <1>12, <1>14 DEF Deepest
  <2>6. InTree'
    BY <1>11, <1>14, <2>4, <2>5 DEF InTree
  <2> QED
    BY <1>7, <1>8, <2>1, <2>2, <2>6
<1>15. CASE volume.root_cluster = 0 /\ tree' = [ tree EXCEPT !.stack = << frame >> ] /\ pc' = "walk"
  <2>1. PICK s : s = << frame >>
    OBVIOUS
  <2>2. Len(s) = 1 /\ s[1] = frame /\ s # << >>
    BY <2>1
  <2>3. tree'.stack = s /\ Deepest' = 0
    BY <1>5, <1>15, <2>1, <2>2 DEF Deepest
  <2>4. FrameAt(RootDirectory, 0, frame)
    <3>1. frame = Frame(RootDirectory.path, RootDirectory.clusters)
      BY <1>3, <1>15 DEF RootDirectory
    <3> QED
      BY <1>0, <3>1, FirstFrame DEF IsTree
  <2>5. Visited(D, K, s, 0)
    <3>1. /\ \A d \in 0 .. 0 : d = 0
          /\ \A d \in 0 .. Len(s) - 1 : d = 0 /\ Len(s) - d = 1
          /\ 0 .. 0 - 1 = {} /\ 1 .. 0 = {}
      BY <2>2
    <3> QED
      BY <1>0, <1>11, <2>2, <2>4, <3>1 DEF Visited
  <2>6. Visited(D, K, s, 0)'
    BY <1>1, <1>13, <2>5, VisitedStays
  <2>7. InTree'
    BY <1>11, <1>15, <2>3, <2>6 DEF InTree
  <2>8. Walking'
    BY <1>6, <1>12, <1>15, <2>2, <2>3 DEF Walking
  <2>9. AllWalked'
    BY <2>2, <2>3 DEF AllWalked
  <2> QED
    BY <1>7, <1>8, <2>7, <2>8, <2>9
<1>16. CASE /\ volume.root_cluster # 0 /\ pc' = "dir"
            /\ tree' = [ tree EXCEPT !.next = volume.root_cluster, !.left = left ]
  <2>1. PICK c0 \in Nat : c0 = volume.root_cluster
    BY <1>0 DEF IsTree
  <2>2. tree'.stack = << >> /\ tree'.next = c0 /\ tree'.left = left
    BY <1>1, <1>5, <1>16, <2>1
  <2>3. left \in 0 .. KF_FAT_MAX_DIR_CLUSTERS
    BY <1>0, <1>2, <2>1, ChainLengthIs DEF IsTree
  <2>4. Walking'
    <3>1. left \in Nat /\ 0 + left <= KF_FAT_MAX_DIR_CLUSTERS
      BY <2>3
    <3>2. /\ Len(tree'.stack) <= KF_FAT_MAX_DIR_DEPTH + 1
          /\ tree'.left \in Nat /\ Len(tree'.got) + tree'.left <= KF_FAT_MAX_DIR_CLUSTERS
      BY <1>6, <1>12, <2>2, <3>1
    <3> QED
      BY <1>6, <1>16, <3>2 DEF Walking
  <2>5. Deepest' = 0 /\ Len(tree'.stack) = 0
    BY <1>12, <1>16, <2>2 DEF Deepest
  <2>6. Visited(D, K, << >>, 0)
    <3>1. /\ \A d \in 0 .. 0 : d = 0
          /\ 0 .. Len(<< >>) - 1 = {} /\ 0 .. 0 - 1 = {}
      BY <1>12
    <3> QED
      BY <1>0, <1>11, <3>1 DEF Visited
  <2>7. Visited(D, K, << >>, 0)'
    BY <1>1, <1>13, <2>6, VisitedStays
  <2>8. Reading(RootDirectory)'
    <3>1. Followed(ChainClusters, c0, << >>, c0)
      BY <1>0, FollowedFirst DEF IsTree
    <3>2. Followed(ChainClusters, c0, << >>, c0)'
      BY <1>1, <3>1, TreeConstants DEF Followed
    <3>3. RootDirectory.clusters = ChainOf(c0)
      BY <1>16, <2>1 DEF RootDirectory
    <3>4. ChainOf(c0)' = ChainOf(c0)
      BY <1>1, TreeConstants
    <3> QED
      BY <1>6, <1>13, <2>2, <3>2, <3>3, <3>4 DEF Reading
  <2>9. InTree'
    BY <1>11, <1>13, <1>16, <2>2, <2>5, <2>7, <2>8 DEF InTree
  <2>10. AllWalked'
    BY <1>16 DEF AllWalked
  <2> QED
    BY <1>7, <1>8, <2>4, <2>9, <2>10
<1> QED
  BY <1>4, <1>14, <1>15, <1>16

\* What has been taken out is known as long as nothing else is.
LEMMA TakenStays ==
    ASSUME UNCHANGED << volume, recovered, used >>, tree'.got = tree.got, Kept' = Kept, KnownTaken,
           pc' \in { "dir", "file", "overrun" } \/ pc \notin { "dir", "file", "overrun" }
    PROVE  KnownTaken'
<1>1. \A n : ClusterBytes(n)' = ClusterBytes(n)
  BY TreeIsKept
<1>2. ToSet(tree.got)' = ToSet(tree.got)
  BY DEF ToSet
<1> QED
  BY <1>1, <1>2 DEF KnownTaken

\* A directory is about to be read or a file to be written.
LEMMA TakenAnew ==
    ASSUME UNCHANGED << volume, recovered, used >>, tree'.got = << >>, Kept' = Kept, KnownTaken,
           pc = "walk"
    PROVE  KnownTaken'
<1>1. \A n : ClusterBytes(n)' = ClusterBytes(n)
  BY TreeIsKept
<1>2. ToSet(tree.got)' = {}
  BY DEF ToSet
<1>3. used \subseteq UNION { ClusterBytes(n) : n \in Kept }
  BY DEF KnownTaken
<1> QED
  BY <1>1, <1>2, <1>3 DEF KnownTaken

\* One more cluster is read or written.
LEMMA TakenMore ==
    ASSUME SharedInv, Tree, WalkState, UNCHANGED << volume, recovered >>, Kept' = Kept, KnownTaken,
           TakeOutCluster(tree.next), tree'.got = Append(tree.got, tree.next), pc' \in { "dir", "file" }
    PROVE  KnownTaken'
<1>1. \A n : ClusterBytes(n)' = ClusterBytes(n)
  BY TreeIsKept
<1>2. PICK c : c = tree.next
  OBVIOUS
<1>3. PICK G : G = ToSet(tree.got)
  OBVIOUS
<1>4. ToSet(tree.got)' = G \cup { c }
  <2>1. PICK g \in Seq(Nat) : g = tree.got
    BY DEF WalkState
  <2>2. PICK n \in Nat : n = Len(g)
    OBVIOUS
  <2>3. PICK u : u = Append(g, c)
    OBVIOUS
  <2>4. c \in Nat
    BY <1>2 DEF WalkState
  <2>5. /\ DOMAIN u = 1 .. n + 1 /\ u[n + 1] = c /\ DOMAIN g = 1 .. n
        /\ \A i \in 1 .. n : u[i] = g[i]
    BY <2>2, <2>3, <2>4
  <2>6. { u[i] : i \in DOMAIN u } = { g[i] : i \in DOMAIN g } \cup { c }
    BY <2>5
  <2>7. tree'.got = u /\ tree.got = g
    BY <1>2, <2>1, <2>3
  <2>8. G = { g[i] : i \in DOMAIN g }
    BY <1>3, <2>7 DEF ToSet
  <2>9. ToSet(tree.got)' = { u[i] : i \in DOMAIN u }
    BY <2>7 DEF ToSet
  <2> QED
    BY <2>6, <2>8, <2>9
<1>5. used' = used \cup ClusterBytes(c)
  <2>1. ~ Ntfs
    BY WalkFacts
  <2> QED
    BY <1>2, <2>1 DEF TakeOutCluster, TakeOut, ClusterBytes
<1>6. used \subseteq UNION { ClusterBytes(n) : n \in G \cup Kept }
  BY <1>3 DEF KnownTaken
<1>7. used' \subseteq UNION { ClusterBytes(n) : n \in (G \cup { c }) \cup Kept }
  BY <1>5, <1>6
<1> QED
  BY <1>1, <1>4, <1>7 DEF KnownTaken

\* A subdirectory is entered.
LEMMA TreeEnter ==
    ASSUME SharedInv, Tree, WalkState, EnterDirectory,
           KnownFiles, KnownTaken, Walking, InTree
    PROVE  KnownFiles' /\ KnownTaken' /\ Walking' /\ InTree' /\ AllWalked'
<1>0. IsTree
  BY TreeRead
<1>1. /\ pc = "walk" /\ tree.stack # << >> /\ Top.entries # << >> /\ EntersEntry
      /\ UNCHANGED << volume, used, recovered >>
  BY DEF EnterDirectory, AtEntry
<1>2. PICK m \in Nat, D \in Paths, K \in [Nat -> Nat], s \in Seq(DirectoryFrame) :
         /\ s = tree.stack /\ Len(s) = m + 1 /\ Visited(D, K, s, m)
         /\ m <= KF_FAT_MAX_DIR_DEPTH
         /\ D[m] \in AnyDirectory /\ D[m] \in Directories(m)
         /\ Top = s[1] /\ FrameAt(D[m], K[m], Top) /\ Top \in DirectoryFrame
  BY <1>1, WalkAt
<1>3. PICK e \in AnyEntry : e = Entry1
  BY <1>1, BelowIs
<1>4. Top.path = D[m].path
  BY <1>2 DEF FrameAt
<1>5. Leads(D[m], e)
  BY <1>1, <1>3, <1>4 DEF EntersEntry, Leads
<1>6. PICK u \in Seq(DirectoryFrame) :
         u = Below /\ OneOn(s, u) /\ Len(u) = m + 1 /\ ~ (s[1].entries = << >>) /\ e = Head(s[1].entries)
  BY <1>1, <1>2, <1>3, BelowOn
<1>7. PICK c : c = Subdirectory(D[m], e)
  OBVIOUS
<1>8. PICK D2 \in Paths, K2 \in [Nat -> Nat] : Visited(D2, K2, u, m + 1) /\ D2[m + 1] = c
  <2>1. Len(s) = m + 1 /\ Visited(D, K, s, m)
    BY <1>2
  <2>2. ~ (s[1].entries = << >>) /\ OneOn(s, u) /\ Leads(D[m], Head(s[1].entries))
    BY <1>5, <1>6
  <2>3. c = Subdirectory(D[m], Head(s[1].entries))
    BY <1>6, <1>7
  <2> QED
    BY <1>0, <2>1, <2>2, <2>3, EnterBelow
<1>9. PICK path : path = Append(Top.path, Entry1.name)
  OBVIOUS
<1>10. PICK ino \in Nat : ino = e.ino
  BY DEF AnyEntry
<1>11. PICK left \in 0 .. KF_FAT_MAX_DIR_CLUSTERS : left = ChainLength(ino)
  BY <1>0, ChainLengthIs DEF IsTree
<1>12. /\ pc' = "dir"
       /\ tree' = [ tree EXCEPT !.path = path, !.next = ino, !.left = left, !.got = << >>,
                                !.stack = u ]
  BY <1>3, <1>6, <1>9, <1>10, <1>11, Zenon DEF EnterDirectory
<1>13. /\ tree'.path = path /\ tree'.next = ino /\ tree'.left = left /\ tree'.got = << >>
       /\ tree'.stack = u /\ tree'.result = tree.result /\ tree.result = "OK"
  <2>1. DOMAIN tree = { "stack", "result", "path", "next", "got", "left" }
    BY DEF WalkState
  <2>2. tree.result = "OK"
    BY <1>1 DEF Walking
  <2> QED
    BY <1>12, <2>1, <2>2
<1>14. KnownFiles' /\ Kept' = Kept /\ Remain
  BY <1>1, <1>13, NothingWritten
<1>15. KnownTaken'
  BY <1>1, <1>13, <1>14, TakenAnew
<1>16. Walking'
  <2>1. Len(u) <= KF_FAT_MAX_DIR_DEPTH + 1
    BY <1>2, <1>6, FatWalkAssumption
  <2>2. left \in Nat /\ Len(<< >>) + left <= KF_FAT_MAX_DIR_CLUSTERS
    OBVIOUS
  <2> QED
    BY <1>12, <1>13, <2>1, <2>2 DEF Walking
<1>17. Deepest' = m + 1
  BY <1>6, <1>12, <1>13 DEF Deepest
<1>18. Visited(D2, K2, u, m + 1)'
  BY <1>1, <1>8, <1>14, VisitedStays
<1>19. Reading(c)'
  <2>1. Followed(ChainClusters, ino, << >>, ino)
    BY <1>0, FollowedFirst DEF IsTree
  <2>2. Followed(ChainClusters, ino, << >>, ino)'
    BY <1>1, <2>1, TreeConstants DEF Followed
  <2>3. c.clusters = ChainOf(ino) /\ c.path = path
    BY <1>3, <1>4, <1>7, <1>9, <1>10 DEF Subdirectory
  <2>4. ChainOf(ino)' = ChainOf(ino)
    BY <1>1, TreeConstants
  <2> QED
    BY <1>13, <2>2, <2>3, <2>4 DEF Reading
<1>20. InTree'
  BY <1>6, <1>8, <1>12, <1>13, <1>17, <1>18, <1>19 DEF InTree
<1>21. AllWalked'
  BY <1>12 DEF AllWalked
<1> QED
  BY <1>14, <1>15, <1>16, <1>20, <1>21

\* A cluster of a directory is read.
LEMMA TreeReads ==
    ASSUME SharedInv, Tree, WalkState, ReadDirCluster,
           KnownFiles, KnownTaken, Walking, InTree
    PROVE  KnownFiles' /\ KnownTaken' /\ Walking' /\ InTree' /\ AllWalked'
<1>0. IsTree
  BY TreeRead
<1>1. pc = "dir" /\ InChain(tree.next) /\ UNCHANGED << volume, need_to_stop, recovered >>
  BY DEF ReadDirCluster
<1>2. CASE tree.left = 0
  <2>1. pc' = "overrun" /\ UNCHANGED << tree, used >>
    BY <1>2 DEF ReadDirCluster
  <2>2. KnownFiles' /\ Kept' = Kept
    BY <1>1, <2>1, NothingWritten
  <2>3. KnownTaken'
    BY <1>1, <2>1, <2>2, TakenStays
  <2>4. Walking'
    BY <1>1, <2>1 DEF Walking
  <2>5. InTree' /\ AllWalked'
    BY <2>1 DEF InTree, AllWalked
  <2> QED
    BY <2>2, <2>3, <2>4, <2>5
<1>3. CASE tree.left # 0
  <2>1. PICK left : left = tree.left - 1
    OBVIOUS
  <2>2. PICK got \in Seq(Nat), next \in Nat : got = tree.got /\ next = tree.next
    BY DEF WalkState
  <2>3. PICK g : g = Append(got, next)
    OBVIOUS
  <2>4. PICK x \in Nat : x = get_next_cluster(next)
    BY <1>0 DEF IsTree
  <2>5. /\ TakeOutCluster(tree.next) /\ UNCHANGED pc
        /\ tree' = [ tree EXCEPT !.next = x, !.left = left, !.got = g ]
    BY <1>3, <2>1, <2>2, <2>3, <2>4, Zenon DEF ReadDirCluster
  <2>6. /\ tree'.next = x /\ tree'.left = left /\ tree'.got = g /\ tree'.stack = tree.stack
        /\ tree'.path = tree.path /\ tree'.result = tree.result
    <3>1. DOMAIN tree = { "stack", "result", "path", "next", "got", "left" }
      BY DEF WalkState
    <3> QED
      BY <2>5, <3>1
  <2>7. KnownFiles' /\ Kept' = Kept /\ Remain
    BY <1>1, <2>6, NothingWritten
  <2>8. pc' = "dir"
    BY <1>1, <2>5
  <2>9. KnownTaken'
    BY <1>1, <2>2, <2>3, <2>5, <2>6, <2>7, <2>8, TakenMore
  <2>10. Walking'
    <3>1. tree.left \in Nat /\ Len(got) + tree.left <= KF_FAT_MAX_DIR_CLUSTERS
      BY <1>1, <2>2 DEF Walking
    <3>2. Len(g) = Len(got) + 1 /\ Len(got) \in Nat
      BY <2>3
    <3>3. left \in Nat /\ Len(g) + left <= KF_FAT_MAX_DIR_CLUSTERS
      BY <1>3, <2>1, <3>1, <3>2, FatWalkAssumption
    <3> QED
      BY <1>1, <2>6, <2>8, <3>3 DEF Walking
  <2>11. PICK s \in Seq(DirectoryFrame) : s = tree.stack
    BY DEF WalkState
  <2>12. PICK n \in Nat : n = Len(s)
    OBVIOUS
  <2>13. Deepest = n /\ Deepest' = n
    BY <1>1, <2>6, <2>8, <2>11, <2>12 DEF Deepest
  <2>14. PICK D \in Paths, K \in [Nat -> Nat] : Visited(D, K, s, n) /\ Reading(D[n])
    BY <1>1, <2>11, <2>12, <2>13 DEF InTree
  <2>15. Visited(D, K, s, n)'
    BY <1>1, <2>7, <2>14, VisitedStays
  <2>16. PICK p : p = D[n]
    OBVIOUS
  <2>17. PICK c0 \in Nat : p.clusters = ChainOf(c0) /\ Followed(ChainClusters, c0, got, next)
    BY <2>2, <2>14, <2>16 DEF Reading
  <2>18. Followed(ChainClusters, c0, g, x)
    <3>1. next \in ChainClusters \cap Nat
      BY <1>1, <2>2, InChainIs
    <3> QED
      BY <1>0, <2>3, <2>4, <2>17, <3>1, FollowedGrows DEF IsTree
  <2>19. Reading(p)'
    <3>1. Followed(ChainClusters, c0, g, x)'
      BY <1>1, <2>18, TreeConstants DEF Followed
    <3>2. ChainOf(c0)' = ChainOf(c0)
      BY <1>1, TreeConstants
    <3>3. tree.path = p.path
      BY <2>14, <2>16 DEF Reading
    <3> QED
      BY <2>6, <2>17, <3>1, <3>2, <3>3 DEF Reading
  <2>20. InTree'
    BY <2>6, <2>11, <2>12, <2>13, <2>15, <2>16, <2>19 DEF InTree
  <2>21. AllWalked'
    BY <2>8 DEF AllWalked
  <2> QED
    BY <2>7, <2>9, <2>10, <2>20, <2>21
<1> QED
  BY <1>2, <1>3

\* The directory read, or the file written, is done.
LEMMA TakenKept ==
    ASSUME UNCHANGED << volume, used >>, tree'.got = tree.got, KnownTaken,
           Kept \subseteq Kept', ToSet(tree.got) \subseteq Kept'
    PROVE  KnownTaken'
<1>1. \A n : ClusterBytes(n)' = ClusterBytes(n)
  BY TreeIsKept
<1>2. ToSet(tree.got)' = ToSet(tree.got)
  BY DEF ToSet
<1> QED
  BY <1>1, <1>2 DEF KnownTaken

\* The clusters of a directory count as read.
LEMMA KeptOfDirectory ==
    ASSUME NEW p \in Directories(KF_FAT_MAX_DIR_DEPTH + 1)
    PROVE  ToSet(p.clusters) \subseteq Kept
<1>1. PICK P : P = Directories(KF_FAT_MAX_DIR_DEPTH + 1)
  OBVIOUS
<1>2. SUFFICES ASSUME NEW c \in ToSet(p.clusters) PROVE c \in Kept
  OBVIOUS
<1>3. c \in UNION { ToSet(q.clusters) : q \in P }
  BY <1>1
<1> QED
  BY <1>1, <1>3 DEF Kept

\* A directory has been read to its end.
LEMMA TreeWalks ==
    ASSUME SharedInv, Tree, WalkState, WalkDirectory,
           KnownFiles, KnownTaken, Walking, InTree
    PROVE  KnownFiles' /\ KnownTaken' /\ Walking' /\ InTree' /\ AllWalked'
<1>0. /\ IsTree /\ KF_FAT_MAX_DIR_DEPTH \in Nat /\ KF_FAT_MAX_DIR_CLUSTERS \in Nat
      /\ RootDirectory \in AnyDirectory
  BY TreeRead, DirectoriesAre, FatWalkAssumption DEF IsTree
<1>1. /\ pc = "dir" /\ ~ InChain(tree.next) /\ pc' = "walk"
      /\ UNCHANGED << volume, used, recovered >>
  BY DEF WalkDirectory
<1>2. PICK got \in Seq(Nat), next \in Nat : got = tree.got /\ next = tree.next
  BY DEF WalkState
<1>3. PICK s \in Seq(DirectoryFrame) : s = tree.stack
  BY DEF WalkState
<1>4. PICK n \in Nat : n = Len(s)
  OBVIOUS
<1>5. Deepest = n /\ n <= KF_FAT_MAX_DIR_DEPTH + 1
  BY <1>1, <1>3, <1>4 DEF Deepest, Walking
<1>6. PICK D \in Paths, K \in [Nat -> Nat] : Visited(D, K, s, n) /\ Reading(D[n])
  BY <1>1, <1>3, <1>4, <1>5 DEF InTree
<1>7. PICK p \in AnyDirectory : p = D[n]
  BY DEF Paths
<1>8. PICK c0 \in Nat : p.clusters = ChainOf(c0) /\ Followed(ChainClusters, c0, got, next)
  BY <1>2, <1>6, <1>7 DEF Reading
<1>9. tree.path = p.path
  BY <1>6, <1>7 DEF Reading
<1>10. p.clusters = got
  <2>1. next \notin ChainClusters
    BY <1>1, <1>2, InChainIs
  <2>2. Len(got) <= KF_FAT_MAX_DIR_CLUSTERS
    <3>1. PICK k \in Nat : k = Len(got)
      OBVIOUS
    <3>2. PICK left \in Nat : left = tree.left
      BY <1>1 DEF Walking
    <3>3. k + left <= KF_FAT_MAX_DIR_CLUSTERS
      BY <1>1, <1>2, <3>1, <3>2 DEF Walking
    <3> QED
      BY <1>0, <3>1, <3>3
  <2>3. Front(Links(ChainClusters, c0, KF_FAT_MAX_DIR_CLUSTERS)) = got
    BY <1>0, <1>8, <2>1, <2>2, FollowedIs DEF IsTree
  <2> QED
    BY <1>8, <2>3 DEF ChainOf
<1>11. p \in Directories(n)
  <2>1. n \in 0 .. n
    OBVIOUS
  <2> QED
    BY <1>6, <1>7, <2>1 DEF Visited
<1>12. ToSet(got) \subseteq Kept
  <2>1. n \in 0 .. KF_FAT_MAX_DIR_DEPTH + 1 /\ KF_FAT_MAX_DIR_DEPTH + 1 \in Nat
    BY <1>0, <1>5
  <2>2. p \in Directories(KF_FAT_MAX_DIR_DEPTH + 1)
    BY <1>0, <1>11, <2>1, DirectoriesAre DEF IsTree
  <2> QED
    BY <1>10, <2>2, KeptOfDirectory
<1>13. PICK x \in DirectoryFrame : x = Frame(tree.path, tree.got)
  <2>1. tree.path \in Seq(AnyName)
    BY DEF WalkState
  <2> QED
    BY <1>0, <1>2, <2>1, FrameIs DEF IsTree
<1>14. PICK stack : stack = IF tree.got # << >> /\ Descend(Len(tree.stack))
                              THEN << x >> \o tree.stack ELSE tree.stack
  OBVIOUS
<1>15. tree' = [ tree EXCEPT !.stack = stack ]
  BY <1>13, <1>14, Zenon DEF WalkDirectory
<1>16. tree'.stack = stack /\ tree'.got = tree.got /\ tree'.result = tree.result /\ tree.result = "OK"
  <2>1. DOMAIN tree = { "stack", "result", "path", "next", "got", "left" }
    BY DEF WalkState
  <2>2. tree.result = "OK"
    BY <1>1 DEF Walking
  <2> QED
    BY <1>15, <2>1, <2>2
<1>17. KnownFiles' /\ Kept' = Kept /\ Remain
  BY <1>1, <1>16, NothingWritten
<1>18. KnownTaken'
  BY <1>1, <1>2, <1>12, <1>16, <1>17, TakenKept
<1>19. CASE got # << >> /\ n <= KF_FAT_MAX_DIR_DEPTH
  <2>1. stack = << x >> \o s
    BY <1>2, <1>3, <1>4, <1>14, <1>19 DEF Descend
  <2>2. PICK u \in Seq(DirectoryFrame) :
           u = stack /\ Len(u) = n + 1 /\ u[1] = x /\ \A i \in 1 .. n : u[i + 1] = s[i]
    BY <1>4, <2>1, OneMore
  <2>3. FrameAt(D[n], 0, u[1])
    <3>1. x = Frame(p.path, p.clusters)
      BY <1>2, <1>9, <1>10, <1>13
    <3> QED
      BY <1>0, <1>7, <2>2, <3>1, FirstFrame DEF IsTree
  <2>4. PICK K2 \in [Nat -> Nat] : Visited(D, K2, u, n)
    BY <1>4, <1>6, <2>2, <2>3, GoesOn
  <2>5. Visited(D, K2, u, n)'
    BY <1>1, <1>17, <2>4, VisitedStays
  <2>6. Deepest' = n /\ ~ (u = << >>)
    BY <1>1, <1>16, <2>2 DEF Deepest
  <2>7. InTree'
    BY <1>1, <1>16, <2>2, <2>5, <2>6 DEF InTree
  <2>8. Walking'
    BY <1>0, <1>1, <1>16, <1>19, <2>2 DEF Walking
  <2>9. AllWalked'
    BY <1>16, <2>2, <2>6 DEF AllWalked
  <2> QED
    BY <1>17, <1>18, <2>7, <2>8, <2>9
<1>20. CASE ~ (got # << >> /\ n <= KF_FAT_MAX_DIR_DEPTH)
  <2>1. stack = s
    BY <1>2, <1>3, <1>4, <1>14, <1>20 DEF Descend
  <2>2. ASSUME NEW k \in 0 .. KF_FAT_MAX_DIR_DEPTH, n <= KF_FAT_MAX_DIR_DEPTH
        PROVE  AllThere(p, k)
    <3>1. p.clusters = << >>
      BY <1>10, <1>20, <2>2
    <3> QED
      BY <1>0, <3>1, NothingUnder DEF IsTree
  <2>3. Walking'
    BY <1>1, <1>3, <1>4, <1>5, <1>16, <2>1 DEF Walking
  <2>4. Deepest' = n - 1
    BY <1>1, <1>4, <1>16, <2>1 DEF Deepest
  <2>5. CASE n = 0
    <3>1. p = RootDirectory
      BY <1>0, <1>11, <2>5, DirectoriesAre DEF IsTree
    <3>2. AllThere(RootDirectory, KF_FAT_MAX_DIR_DEPTH)
      BY <1>0, <2>2, <2>5, <3>1
    <3>3. AllThere(RootDirectory, KF_FAT_MAX_DIR_DEPTH)'
      <4>1. PICK r : r = RootDirectory /\ r = RootDirectory'
        BY <1>1, TreeConstants
      <4>2. AllThere(r, KF_FAT_MAX_DIR_DEPTH)'
        BY <1>1, <1>17, <3>2, <4>1, ThereStays
      <4> QED
        BY <4>1, <4>2
    <3>4. Visited(D, K, s, -1)
      BY <1>4, <2>5, EmptyStack
    <3>5. Visited(D, K, s, -1)'
      BY <1>1, <1>17, <3>4, VisitedStays
    <3>6. Deepest' = -1
      BY <2>4, <2>5
    <3>7. InTree'
      BY <1>1, <1>16, <2>1, <3>5, <3>6 DEF InTree
    <3>8. AllWalked'
      BY <3>3 DEF AllWalked
    <3> QED
      BY <1>17, <1>18, <2>3, <3>7, <3>8
  <2>6. CASE n # 0
    <3>1. PICK m \in Nat : n = m + 1
      <4>1. n - 1 \in Nat /\ n = (n - 1) + 1
        BY <2>6
      <4> QED
        BY <4>1
    <3>2. m < KF_FAT_MAX_DIR_DEPTH => AllThere(D[m + 1], KF_FAT_MAX_DIR_DEPTH - (m + 1))
      <4>1. SUFFICES ASSUME m < KF_FAT_MAX_DIR_DEPTH
                     PROVE  AllThere(p, KF_FAT_MAX_DIR_DEPTH - (m + 1))
        BY <1>7, <3>1
      <4>2. /\ n <= KF_FAT_MAX_DIR_DEPTH
            /\ KF_FAT_MAX_DIR_DEPTH - (m + 1) \in 0 .. KF_FAT_MAX_DIR_DEPTH
        BY <1>0, <3>1, <4>1
      <4> QED
        BY <2>2, <4>2
    <3>3. Visited(D, K, s, m)
      BY <1>4, <1>6, <3>1, <3>2, BelowDone
    <3>4. Visited(D, K, s, m)'
      BY <1>1, <1>17, <3>3, VisitedStays
    <3>5. Deepest' = m
      BY <2>4, <3>1
    <3>6. InTree'
      BY <1>1, <1>16, <2>1, <3>4, <3>5 DEF InTree
    <3>7. AllWalked'
      <4>1. tree'.stack # << >>
        BY <1>4, <1>16, <2>1, <2>6
      <4> QED
        BY <4>1 DEF AllWalked
    <3> QED
      BY <1>17, <1>18, <2>3, <3>6, <3>7
  <2> QED
    BY <2>5, <2>6
<1> QED
  BY <1>19, <1>20

\* The walk gives up: there is nothing left on the stack.
LEMMA TreeGivesUp ==
    ASSUME SharedInv, Tree, WalkState, UNCHANGED volume,
           tree'.stack = << >>, tree'.result # "OK", pc' = "walk"
    PROVE  Walking' /\ InTree' /\ AllWalked'
<1>1. Len(<< >>) = 0 /\ KF_FAT_MAX_DIR_DEPTH \in Nat
  BY FatWalkAssumption
<1>2. PICK D : D = [ n \in Nat |-> RootDirectory ]
  OBVIOUS
<1>3. PICK K : K = [ n \in Nat |-> 0 ]
  OBVIOUS
<1>4. D \in Paths /\ K \in [Nat -> Nat]
  BY <1>2, <1>3, TreeRead, DirectoriesAre DEF Paths, IsTree
<1>5. Deepest' = -1
  BY <1>1 DEF Deepest
<1>6. Visited(D, K, << >>, -1)'
  <2>1. Len(<< >>) = 0
    BY <1>1
  <2>2. /\ 0 .. -1 = {} /\ 0 .. Len(<< >>) - 1 = {} /\ 0 .. -1 - 1 = {}
    BY <2>1
  <2> QED
    BY <2>2 DEF Visited
<1>7. InTree'
  BY <1>4, <1>5, <1>6 DEF InTree
<1>8. Walking'
  BY <1>1 DEF Walking
<1>9. AllWalked'
  BY DEF AllWalked
<1> QED
  BY <1>7, <1>8, <1>9

\* The user has stopped the walk.
LEMMA TreeStops ==
    ASSUME SharedInv, Tree, WalkState, StopWalk, KnownFiles, KnownTaken, Walking
    PROVE  KnownFiles' /\ KnownTaken' /\ Walking' /\ InTree' /\ AllWalked'
<1>1. /\ pc = "walk" /\ pc' = "walk" /\ tree.stack # << >> /\ UNCHANGED << volume, used, recovered >>
      /\ tree' = [ tree EXCEPT !.stack = << >>, !.result = "STOP" ]
  BY DEF StopWalk, unformat
<1>2. tree.result = "OK"
  BY <1>1 DEF Walking
<1>3. tree'.stack = << >> /\ tree'.result = "STOP" /\ tree'.got = tree.got
  BY <1>1 DEF WalkState
<1>4. KnownFiles' /\ Kept' = Kept
  BY <1>1, <1>2, NothingWritten
<1>5. KnownTaken'
  BY <1>1, <1>3, <1>4, TakenStays
<1>6. Walking' /\ InTree' /\ AllWalked'
  BY <1>1, <1>3, TreeGivesUp
<1> QED
  BY <1>4, <1>5, <1>6

\* The walk is over.
LEMMA TreeEnds ==
    ASSUME SharedInv, Tree, WalkState, WalkEnds,
           KnownFiles, KnownTaken, Walking, InTree, AllWalked
    PROVE  KnownFiles' /\ KnownTaken' /\ Walking' /\ InTree' /\ AllWalked'
<1>1. /\ pc = "walk" /\ pc' = "done" /\ tree.stack = << >>
      /\ UNCHANGED << volume, used, recovered, tree >>
  BY DEF WalkEnds
<1>2. KnownFiles' /\ Kept' = Kept /\ Remain
  BY <1>1, NothingWritten
<1>3. KnownTaken'
  BY <1>1, <1>2, TakenStays
<1>4. Walking'
  BY <1>1 DEF Walking
<1>5. PICK s, d : s = tree.stack /\ d = Deepest
  OBVIOUS
<1>6. PICK D \in Paths, K \in [Nat -> Nat] : Visited(D, K, s, d)
  BY <1>1, <1>5 DEF InTree
<1>7. Visited(D, K, s, d)'
  BY <1>1, <1>2, <1>6, VisitedStays
<1>8. Deepest' = d
  BY <1>1, <1>5 DEF Deepest
<1>9. InTree'
  BY <1>1, <1>5, <1>7, <1>8 DEF InTree
<1>10. AllWalked'
  <2>1. SUFFICES ASSUME tree.result = "OK", volume.opens
                 PROVE  AllThere(RootDirectory, KF_FAT_MAX_DIR_DEPTH)'
    BY <1>1 DEF AllWalked
  <2>2. AllThere(RootDirectory, KF_FAT_MAX_DIR_DEPTH)
    BY <1>1, <2>1 DEF AllWalked
  <2>3. PICK r : r = RootDirectory /\ r = RootDirectory'
    BY <1>1, TreeConstants
  <2>4. AllThere(r, KF_FAT_MAX_DIR_DEPTH)'
    BY <1>1, <1>2, <2>2, <2>3, ThereStays
  <2> QED
    BY <2>3, <2>4
<1> QED
  BY <1>2, <1>3, <1>4, <1>9, <1>10

\* What counts as read or written, before and after a step.
LEMMA KeptIs ==
    ASSUME UNCHANGED volume, NEW B, B = FilesBelow(KF_FAT_MAX_DIR_DEPTH),
           NEW P, P = Directories(KF_FAT_MAX_DIR_DEPTH + 1)
    PROVE  /\ \A c : c \in Kept <=>
                 \/ \E f \in recovered : c \in ToSet(f.clusters)
                 \/ \E y \in B : \E f \in recovered :
                       f.nth # 0 /\ SameFile(f, y) /\ c \in ToSet(y.clusters)
                 \/ \E p \in P : c \in ToSet(p.clusters)
           /\ \A c : c \in Kept' <=>
                 \/ \E f \in recovered' : c \in ToSet(f.clusters)
                 \/ \E y \in B : \E f \in recovered' :
                       f.nth # 0 /\ SameFile(f, y) /\ c \in ToSet(y.clusters)
                 \/ \E p \in P : c \in ToSet(p.clusters)
<1>1. B = FilesBelow(KF_FAT_MAX_DIR_DEPTH)' /\ P = Directories(KF_FAT_MAX_DIR_DEPTH + 1)'
  BY TreeIsKept
<1>2. Kept = (UNION { ToSet(f.clusters) : f \in recovered })
               \cup (UNION { ToSet(x.clusters) : x \in { y \in B :
                                \E f \in recovered : f.nth # 0 /\ SameFile(f, y) } })
               \cup (UNION { ToSet(p.clusters) : p \in P })
  BY DEF Kept
<1>3. Kept' = (UNION { ToSet(f.clusters) : f \in recovered' })
                \cup (UNION { ToSet(x.clusters) : x \in { y \in B :
                                 \E f \in recovered' : f.nth # 0 /\ SameFile(f, y) } })
                \cup (UNION { ToSet(p.clusters) : p \in P })
  BY <1>1 DEF Kept, ToSet, SameFile
<1>4. ASSUME NEW R
      PROVE  \A c : c \in (UNION { ToSet(f.clusters) : f \in R })
                            \cup (UNION { ToSet(x.clusters) : x \in { y \in B :
                                             \E f \in R : f.nth # 0 /\ SameFile(f, y) } })
                            \cup (UNION { ToSet(p.clusters) : p \in P }) <=>
                 \/ \E f \in R : c \in ToSet(f.clusters)
                 \/ \E y \in B : \E f \in R :
                       f.nth # 0 /\ SameFile(f, y) /\ c \in ToSet(y.clusters)
                 \/ \E p \in P : c \in ToSet(p.clusters)
  OBVIOUS
<1> QED
  BY <1>2, <1>3, <1>4

\* The file g is written in the place of the one with its path and number.
Replaces(g) ==
    recovered' = { f \in recovered : << f.path, f.nth >> # << g.path, g.nth >> } \cup { g }

\* A file is on the destination, in the place of one with the same number at most.
LEMMA FileClosed ==
    ASSUME UNCHANGED volume, KnownFiles, tree.result = "OK",
           NEW g, g.of \in Nat, g.nth \in { 0, g.of + 1 }, Replaces(g),
           g.nth = 0 => \A f \in recovered : f.path # g.path,
           NEW x \in FilesBelow(KF_FAT_MAX_DIR_DEPTH), x.path = g.path, x.of = g.of,
           g.clusters = x.clusters \/ (tree'.result = "ENOSPC" /\ IsPrefix(g.clusters, x.clusters))
    PROVE  KnownFiles' /\ Kept \subseteq Kept' /\ ToSet(g.clusters) \subseteq Kept' /\ Remain /\ There(x)'
<1>0. recovered' = { f \in recovered : << f.path, f.nth >> # << g.path, g.nth >> } \cup { g }
  BY DEF Replaces
<1> USE <1>0
<1>1. PICK B : B = FilesBelow(KF_FAT_MAX_DIR_DEPTH) /\ B = FilesBelow(KF_FAT_MAX_DIR_DEPTH)'
  BY TreeIsKept
<1>2. PICK P : P = Directories(KF_FAT_MAX_DIR_DEPTH + 1)
  OBVIOUS
<1>3. g \in recovered' /\ \A f \in recovered' : f \in recovered \/ f = g
  OBVIOUS
<1>4. ASSUME NEW f \in recovered
      PROVE  /\ f.of \in Nat /\ (f.nth # 0 => f.nth = f.of + 1)
             /\ \E y \in B : SameFile(f, y) /\ f.clusters = y.clusters
  <2>1. "OK" # "ENOSPC"
    OBVIOUS
  <2> QED
    BY <1>1, <2>1 DEF KnownFiles, IsCopy
<1>5. ASSUME NEW f \in recovered, f \notin recovered'
      PROVE  g.nth # 0 /\ f.path = g.path /\ f.of = g.of /\ f.nth = g.nth
  <2>1. f.path = g.path /\ f.nth = g.nth
    BY <1>5
  <2>2. g.nth # 0 /\ g.nth = g.of + 1
    BY <2>1
  <2>3. f.of + 1 = g.of + 1 /\ f.of \in Nat
    BY <1>4, <2>1, <2>2
  <2>4. f.of = g.of
    BY <2>3
  <2> QED
    BY <2>1, <2>2, <2>4
<1>6. SameFile(g, x)
  BY DEF SameFile
<1>7. KnownFiles'
  <2>1. ASSUME NEW f \in recovered'
        PROVE  f.of \in Nat /\ (f.nth # 0 => f.nth = f.of + 1) /\ \E y \in B : IsCopy(f, y)'
    <3>1. CASE f = g
      <4>1. IsCopy(g, x)'
        BY <1>6 DEF IsCopy, SameFile
      <4> QED
        BY <1>1, <3>1, <4>1
    <3>2. CASE f \in recovered
      <4>1. PICK y \in B : SameFile(f, y) /\ f.clusters = y.clusters
        BY <1>4, <3>2
      <4>2. IsCopy(f, y)'
        BY <4>1 DEF IsCopy, SameFile
      <4> QED
        BY <1>4, <3>2, <4>2
    <3> QED
      BY <1>3, <3>1, <3>2
  <2> QED
    BY <1>1, <2>1 DEF KnownFiles
<1>8. /\ \A c : c \in Kept =>
           \/ \E f \in recovered : c \in ToSet(f.clusters)
           \/ \E y \in B : \E f \in recovered :
                 f.nth # 0 /\ SameFile(f, y) /\ c \in ToSet(y.clusters)
           \/ \E p \in P : c \in ToSet(p.clusters)
      /\ \A c : c \in Kept' <=>
           \/ \E f \in recovered' : c \in ToSet(f.clusters)
           \/ \E y \in B : \E f \in recovered' :
                 f.nth # 0 /\ SameFile(f, y) /\ c \in ToSet(y.clusters)
           \/ \E p \in P : c \in ToSet(p.clusters)
  BY <1>1, <1>2, KeptIs
<1>9. Kept \subseteq Kept'
  <2>1. SUFFICES ASSUME NEW c \in Kept PROVE c \in Kept'
    OBVIOUS
  <2>2. CASE \E f \in recovered : c \in ToSet(f.clusters)
    <3>1. PICK f \in recovered : c \in ToSet(f.clusters)
      BY <2>2
    <3>2. CASE f \in recovered'
      BY <1>8, <3>1, <3>2
    <3>3. CASE f \notin recovered'
      <4>1. PICK y \in B : SameFile(f, y) /\ f.clusters = y.clusters
        BY <1>4
      <4>2. g.nth # 0 /\ SameFile(g, y)
        BY <1>5, <3>3, <4>1 DEF SameFile
      <4>3. c \in ToSet(y.clusters)
        BY <3>1, <4>1
      <4> QED
        BY <1>3, <1>8, <4>2, <4>3
    <3> QED
      BY <3>2, <3>3
  <2>3. CASE \E y \in B : \E f \in recovered :
                f.nth # 0 /\ SameFile(f, y) /\ c \in ToSet(y.clusters)
    <3>1. PICK y \in B, f \in recovered : f.nth # 0 /\ SameFile(f, y) /\ c \in ToSet(y.clusters)
      BY <2>3
    <3>2. CASE f \in recovered'
      BY <1>8, <3>1, <3>2
    <3>3. CASE f \notin recovered'
      <4>1. g.nth # 0 /\ SameFile(g, y)
        BY <1>5, <3>1, <3>3 DEF SameFile
      <4> QED
        BY <1>3, <1>8, <3>1, <4>1
    <3> QED
      BY <3>2, <3>3
  <2>4. CASE \E p \in P : c \in ToSet(p.clusters)
    BY <1>8, <2>4
  <2> QED
    BY <1>8, <2>2, <2>3, <2>4
<1>10. ToSet(g.clusters) \subseteq Kept'
  BY <1>3, <1>8
<1>11. Remain
  <2>1. ASSUME NEW f \in recovered PROVE \E h \in recovered' : h.path = f.path /\ h.of = f.of
    BY <1>3, <1>5
  <2> QED
    BY <2>1 DEF Remain
<1>12. There(x)'
  BY <1>3, <1>6 DEF There, SameFile
<1> QED
  BY <1>7, <1>9, <1>10, <1>11, <1>12

\* An entry is passed over.
LEMMA TreePasses ==
    ASSUME SharedInv, Tree, WalkState, PassOver,
           KnownFiles, KnownTaken, Walking, InTree
    PROVE  KnownFiles' /\ KnownTaken' /\ Walking' /\ InTree' /\ AllWalked'
<1>0. IsTree
  BY TreeRead
<1>1. /\ pc = "walk" /\ tree.stack # << >> /\ Top.entries # << >> /\ ~ WantedFile /\ ~ EntersEntry
      /\ UNCHANGED << volume, pc, used, recovered >>
  BY DEF PassOver, AtEntry, unformat
<1>2. PICK m \in Nat, D \in Paths, K \in [Nat -> Nat], s \in Seq(DirectoryFrame) :
         /\ s = tree.stack /\ Len(s) = m + 1 /\ Visited(D, K, s, m)
         /\ m <= KF_FAT_MAX_DIR_DEPTH
         /\ D[m] \in AnyDirectory /\ D[m] \in Directories(m)
         /\ Top = s[1] /\ FrameAt(D[m], K[m], Top) /\ Top \in DirectoryFrame
  BY <1>1, WalkAt
<1>3. PICK e \in AnyEntry : e = Entry1
  BY <1>1, BelowIs
<1>4. Top.path = D[m].path
  BY <1>2 DEF FrameAt
<1>5. Dealt(D[m], e, m)
  BY <1>1, <1>3, <1>4 DEF WantedFile, EntersEntry, Leads, Dealt
<1>6. PICK u \in Seq(DirectoryFrame) :
         u = Below /\ OneOn(s, u) /\ Len(u) = m + 1 /\ ~ (s[1].entries = << >>) /\ e = Head(s[1].entries)
  BY <1>1, <1>2, <1>3, BelowOn
<1>7. PICK K2 \in [Nat -> Nat] : Visited(D, K2, u, m)
  <2>1. Len(s) = m + 1 /\ Visited(D, K, s, m)
    BY <1>2
  <2>2. ~ (s[1].entries = << >>) /\ OneOn(s, u) /\ Dealt(D[m], Head(s[1].entries), m)
    BY <1>5, <1>6
  <2> QED
    BY <1>0, <2>1, <2>2, LeaveBehind
<1>8. tree' = [ tree EXCEPT !.stack = u ]
  BY <1>6, Zenon DEF PassOver
<1>9. tree'.stack = u /\ tree'.result = tree.result /\ tree'.got = tree.got
  <2>1. DOMAIN tree = { "stack", "result", "path", "next", "got", "left" }
    BY DEF WalkState
  <2> QED
    BY <1>8, <2>1
<1>10. KnownFiles' /\ Kept' = Kept /\ Remain
  BY <1>1, <1>9, NothingWritten
<1>11. KnownTaken'
  BY <1>1, <1>9, <1>10, TakenStays
<1>12. Walking'
  <2>1. Len(u) <= KF_FAT_MAX_DIR_DEPTH + 1 /\ tree.result = "OK"
    BY <1>1, <1>2, <1>6, FatWalkAssumption DEF Walking
  <2> QED
    BY <1>1, <1>9, <2>1 DEF Walking
<1>13. Deepest' = m
  BY <1>1, <1>6, <1>9 DEF Deepest
<1>14. Visited(D, K2, u, m)'
  BY <1>1, <1>7, <1>10, VisitedStays
<1>15. InTree'
  BY <1>1, <1>9, <1>13, <1>14 DEF InTree
<1>16. AllWalked'
  <2>1. tree'.stack # << >>
    BY <1>6, <1>9
  <2> QED
    BY <2>1 DEF AllWalked
<1> QED
  BY <1>10, <1>11, <1>12, <1>15, <1>16

\* A directory has been walked to its end.
LEMMA TreeReturns ==
    ASSUME SharedInv, Tree, WalkState, Return,
           KnownFiles, KnownTaken, Walking, InTree
    PROVE  KnownFiles' /\ KnownTaken' /\ Walking' /\ InTree' /\ AllWalked'
<1>0. IsTree /\ KF_FAT_MAX_DIR_DEPTH \in Nat
  BY TreeRead, FatWalkAssumption
<1>1. /\ pc = "walk" /\ tree.stack # << >> /\ Top.entries = << >>
      /\ UNCHANGED << volume, pc, used, recovered >>
  BY DEF Return, unformat
<1>2. PICK m \in Nat, D \in Paths, K \in [Nat -> Nat], s \in Seq(DirectoryFrame) :
         /\ s = tree.stack /\ Len(s) = m + 1 /\ Visited(D, K, s, m)
         /\ m <= KF_FAT_MAX_DIR_DEPTH
         /\ D[m] \in AnyDirectory /\ D[m] \in Directories(m)
         /\ Top = s[1] /\ FrameAt(D[m], K[m], Top) /\ Top \in DirectoryFrame
  BY <1>1, WalkAt
<1>3. PICK u : u = Tail(s)
  OBVIOUS
<1>4. Len(u) = m /\ \A i \in 1 .. m : u[i] = s[i + 1]
  <2>1. Len(s) = m + 1
    BY <1>2
  <2> QED
    BY <1>3, <2>1
<1>5. Visited(D, K, u, m) /\ AllThere(D[m], KF_FAT_MAX_DIR_DEPTH - m)
  <2>1. Len(s) = m + 1 /\ Visited(D, K, s, m) /\ s[1].entries = << >>
    BY <1>1, <1>2
  <2>2. m <= KF_FAT_MAX_DIR_DEPTH
    BY <1>2
  <2> QED
    BY <1>0, <1>4, <2>1, <2>2, ReturnsFrom
<1>6. tree' = [ tree EXCEPT !.stack = u ]
  BY <1>2, <1>3, Zenon DEF Return
<1>7. tree'.stack = u /\ tree'.result = tree.result /\ tree'.got = tree.got
  <2>1. DOMAIN tree = { "stack", "result", "path", "next", "got", "left" }
    BY DEF WalkState
  <2> QED
    BY <1>6, <2>1
<1>8. KnownFiles' /\ Kept' = Kept /\ Remain
  BY <1>1, <1>7, NothingWritten
<1>9. KnownTaken'
  BY <1>1, <1>7, <1>8, TakenStays
<1>10. Walking'
  <2>1. Len(u) <= KF_FAT_MAX_DIR_DEPTH + 1 /\ tree.result = "OK"
    BY <1>0, <1>1, <1>2, <1>4 DEF Walking
  <2> QED
    BY <1>1, <1>7, <2>1 DEF Walking
<1>11. Deepest' = m - 1
  BY <1>1, <1>4, <1>7 DEF Deepest
<1>12. CASE m = 0
  <2>1. D[m] = RootDirectory
    BY <1>0, <1>2, <1>12, DirectoriesAre DEF IsTree
  <2>2. KF_FAT_MAX_DIR_DEPTH - m = KF_FAT_MAX_DIR_DEPTH
    BY <1>0, <1>12
  <2>3. PICK r : r = RootDirectory /\ r = RootDirectory'
    BY <1>1, TreeConstants
  <2>4. AllThere(r, KF_FAT_MAX_DIR_DEPTH)
    BY <1>5, <2>1, <2>2, <2>3
  <2>5. AllThere(r, KF_FAT_MAX_DIR_DEPTH)'
    BY <1>1, <1>8, <2>4, ThereStays
  <2>6. AllWalked'
    BY <2>3, <2>5 DEF AllWalked
  <2>7. Visited(D, K, u, -1)
    BY <1>4, <1>12, EmptyStack
  <2>8. Visited(D, K, u, -1)'
    BY <1>1, <1>8, <2>7, VisitedStays
  <2>9. Deepest' = -1
    BY <1>11, <1>12
  <2>10. InTree'
    BY <1>1, <1>7, <2>8, <2>9 DEF InTree
  <2> QED
    BY <1>8, <1>9, <1>10, <2>6, <2>10
<1>13. CASE m # 0
  <2>1. PICK k \in Nat : m = k + 1
    <3>1. m - 1 \in Nat /\ m = (m - 1) + 1
      BY <1>13
    <3> QED
      BY <3>1
  <2>2. k < KF_FAT_MAX_DIR_DEPTH => AllThere(D[k + 1], KF_FAT_MAX_DIR_DEPTH - (k + 1))
    BY <1>5, <2>1
  <2>3. Len(u) = k + 1 /\ Visited(D, K, u, k + 1)
    BY <1>4, <1>5, <2>1
  <2>4. Visited(D, K, u, k)
    BY <2>2, <2>3, BelowDone
  <2>5. Visited(D, K, u, k)'
    BY <1>1, <1>8, <2>4, VisitedStays
  <2>6. Deepest' = k
    BY <1>11, <2>1
  <2>7. InTree'
    BY <1>1, <1>7, <2>5, <2>6 DEF InTree
  <2>8. AllWalked'
    <3>1. tree'.stack # << >>
      BY <1>4, <1>7, <1>13
    <3> QED
      BY <3>1 DEF AllWalked
  <2> QED
    BY <1>8, <1>9, <1>10, <2>7, <2>8
<1> QED
  BY <1>12, <1>13

\* A file is created, or cannot be.
LEMMA TreeCreates ==
    ASSUME SharedInv, Tree, WalkState, CreateFile,
           KnownFiles, KnownTaken, Walking, InTree
    PROVE  KnownFiles' /\ KnownTaken' /\ Walking' /\ InTree' /\ AllWalked'
<1>0. IsTree
  BY TreeRead
<1>1. /\ pc = "walk" /\ tree.stack # << >> /\ Top.entries # << >> /\ WantedFile
      /\ UNCHANGED << volume, used, recovered >>
  BY DEF CreateFile, AtEntry
<1>2. PICK e \in AnyEntry : e = Entry1
  BY <1>1, BelowIs
<1>3. PICK path : path = Append(Top.path, Entry1.name)
  OBVIOUS
<1>4. PICK ino \in Nat, size \in Nat : ino = Entry1.ino /\ size = Entry1.size
  BY <1>2 DEF AnyEntry
<1>5. \/ tree' = [ tree EXCEPT !.stack = << >>, !.result = "EACCES" ] /\ UNCHANGED pc
      \/ /\ tree' = [ tree EXCEPT !.path = path, !.got = << >>, !.next = ino, !.left = size ]
         /\ pc' = "file"
  BY <1>3, <1>4, Zenon DEF CreateFile
<1>6. DOMAIN tree = { "stack", "result", "path", "next", "got", "left" } /\ tree.result = "OK"
  BY <1>1 DEF WalkState, Walking
<1>7. CASE tree' = [ tree EXCEPT !.stack = << >>, !.result = "EACCES" ] /\ UNCHANGED pc
  <2>1. tree'.stack = << >> /\ tree'.result = "EACCES" /\ tree'.got = tree.got /\ pc' = "walk"
    BY <1>1, <1>6, <1>7
  <2>2. KnownFiles' /\ Kept' = Kept
    BY <1>1, <1>6, NothingWritten
  <2>3. KnownTaken'
    BY <1>1, <2>1, <2>2, TakenStays
  <2>4. Walking' /\ InTree' /\ AllWalked'
    BY <1>1, <2>1, TreeGivesUp
  <2> QED
    BY <2>2, <2>3, <2>4
<1>8. CASE /\ tree' = [ tree EXCEPT !.path = path, !.got = << >>, !.next = ino, !.left = size ]
           /\ pc' = "file"
  <2>1. /\ tree'.stack = tree.stack /\ tree'.result = tree.result /\ tree'.got = << >>
        /\ tree'.path = path /\ tree'.next = ino /\ tree'.left = size
    BY <1>6, <1>8
  <2>2. KnownFiles' /\ Kept' = Kept /\ Remain
    BY <1>1, <2>1, NothingWritten
  <2>3. KnownTaken'
    BY <1>1, <2>1, <2>2, TakenAnew
  <2>4. Top' = Top /\ Entry1' = Entry1 /\ WantedFile' = WantedFile
    BY <1>1, <2>1 DEF Top, Entry1, WantedFile
  <2>5. Followed(DataClusters, ino, << >>, ino)'
    <3>1. Followed(DataClusters, ino, << >>, ino)
      BY <1>0, FollowedFirst DEF IsTree
    <3> QED
      BY <1>1, <3>1, TreeConstants DEF Followed
  <2>6. Walking'
    <3>1. Followed(DataClusters, Entry1.ino, tree.got, tree.next)'
      BY <1>4, <2>1, <2>4, <2>5
    <3>2. Len(tree'.got) + tree'.left = Entry1'.size
      BY <1>4, <2>1, <2>4
    <3>3. (tree.path = Append(Top.path, Entry1.name))'
      BY <1>3, <2>1, <2>4
    <3> QED
      BY <1>1, <1>4, <1>6, <1>8, <2>1, <2>4, <3>1, <3>2, <3>3 DEF Walking
  <2>7. PICK m \in Nat, D \in Paths, K \in [Nat -> Nat], s \in Seq(DirectoryFrame) :
           s = tree.stack /\ Len(s) = m + 1 /\ Visited(D, K, s, m)
    BY <1>1, WalkAt
  <2>8. Visited(D, K, s, m)'
    BY <1>1, <2>2, <2>7, VisitedStays
  <2>9. Deepest' = m
    <3>1. pc' = "file" /\ tree'.stack = s /\ Len(s) = m + 1
      BY <1>8, <2>1, <2>7
    <3> QED
      BY <3>1 DEF Deepest
  <2>10. InTree'
    BY <1>8, <2>1, <2>7, <2>8, <2>9 DEF InTree
  <2>11. AllWalked'
    BY <1>8 DEF AllWalked
  <2> QED
    BY <2>2, <2>3, <2>6, <2>10, <2>11
<1> QED
  BY <1>5, <1>7, <1>8

\* A cluster of a file is written.
LEMMA TreeWrites ==
    ASSUME SharedInv, Tree, WalkState, WriteCluster,
           KnownFiles, KnownTaken, Walking, InTree
    PROVE  KnownFiles' /\ KnownTaken' /\ Walking' /\ InTree' /\ AllWalked'
<1>0. IsTree
  BY TreeRead
<1>1. pc = "file" /\ InData(tree.next) /\ tree.left > 0 /\ UNCHANGED << volume, recovered, pc >>
  BY DEF WriteCluster
<1>2. PICK got \in Seq(Nat), next \in Nat : got = tree.got /\ next = tree.next
  BY DEF WalkState
<1>3. PICK g : g = Append(got, next)
  OBVIOUS
<1>4. PICK x \in Nat : x = get_next_cluster(next)
  BY <1>0 DEF IsTree
<1>5. PICK left : left = tree.left - 1
  OBVIOUS
<1>6. /\ TakeOutCluster(tree.next)
      /\ tree' = [ tree EXCEPT !.next = x, !.left = left, !.got = g ]
  BY <1>2, <1>3, <1>4, <1>5, Zenon DEF WriteCluster
<1>7. /\ tree'.next = x /\ tree'.left = left /\ tree'.got = g /\ tree'.stack = tree.stack
      /\ tree'.path = tree.path /\ tree'.result = tree.result
  <2>1. DOMAIN tree = { "stack", "result", "path", "next", "got", "left" }
    BY DEF WalkState
  <2> QED
    BY <1>6, <2>1
<1>8. KnownFiles' /\ Kept' = Kept /\ Remain
  BY <1>1, <1>7, NothingWritten
<1>9. pc' = "file"
  BY <1>1
<1>10. KnownTaken'
  BY <1>1, <1>2, <1>3, <1>6, <1>7, <1>8, <1>9, TakenMore
<1>11. /\ tree.stack # << >> /\ Top.entries # << >> /\ WantedFile
       /\ tree.path = Append(Top.path, Entry1.name) /\ tree.result = "OK"
       /\ Len(tree.stack) <= KF_FAT_MAX_DIR_DEPTH + 1
  BY <1>1 DEF Walking
<1>12. PICK ino, size : ino = Entry1.ino /\ size = Entry1.size
  OBVIOUS
<1>13. PICK c0 \in Nat : c0 = ino
  <2>1. Entry1 \in AnyEntry
    BY <1>11, BelowIs
  <2> QED
    BY <1>12, <2>1 DEF AnyEntry
<1>14. Top' = Top /\ Entry1' = Entry1 /\ WantedFile' = WantedFile
  BY <1>1, <1>7 DEF Top, Entry1, WantedFile
<1>15. Followed(DataClusters, c0, g, x)'
  <2>1. Followed(DataClusters, c0, got, next)
    BY <1>1, <1>2, <1>12, <1>13 DEF Walking
  <2>2. next \in DataClusters \cap Nat
    BY <1>1, <1>2, InChainIs
  <2>3. Followed(DataClusters, c0, g, x)
    BY <1>0, <1>3, <1>4, <2>1, <2>2, FollowedGrows DEF IsTree
  <2> QED
    BY <1>1, <2>3, TreeConstants DEF Followed
<1>16. left \in Nat /\ Len(g) + left = size
  <2>1. tree.left \in Nat /\ Len(got) + tree.left = size
    BY <1>1, <1>2, <1>12 DEF Walking
  <2>2. Len(g) = Len(got) + 1 /\ Len(got) \in Nat
    BY <1>3
  <2> QED
    BY <1>1, <1>5, <2>1, <2>2
<1>17. Walking'
  <2>1. Followed(DataClusters, Entry1.ino, tree.got, tree.next)'
    BY <1>7, <1>12, <1>13, <1>14, <1>15
  <2>2. (tree.left \in Nat /\ Len(tree.got) + tree.left = Entry1.size)'
    BY <1>7, <1>12, <1>14, <1>16
  <2>3. (tree.path = Append(Top.path, Entry1.name))'
    BY <1>7, <1>11, <1>14
  <2> QED
    BY <1>7, <1>9, <1>11, <1>14, <2>1, <2>2, <2>3 DEF Walking
<1>18. PICK m \in Nat, D \in Paths, K \in [Nat -> Nat], s \in Seq(DirectoryFrame) :
         s = tree.stack /\ Len(s) = m + 1 /\ Visited(D, K, s, m)
  BY <1>1, <1>11, WalkAt
<1>19. Visited(D, K, s, m)'
  BY <1>1, <1>8, <1>18, VisitedStays
<1>20. tree'.stack = s /\ Deepest' = m
  BY <1>7, <1>9, <1>18 DEF Deepest
<1>21. InTree'
  BY <1>9, <1>18, <1>19, <1>20 DEF InTree
<1>22. AllWalked'
  BY <1>9 DEF AllWalked
<1> QED
  BY <1>8, <1>10, <1>17, <1>21, <1>22

\* The walk leaves an entry behind that the step itself has dealt with.
LEMMA LeaveBehindNext ==
    ASSUME IsTree, UNCHANGED volume, Remain,
           NEW D \in Paths, NEW K \in [Nat -> Nat], NEW m \in Nat,
           NEW s \in Seq(DirectoryFrame), Len(s) = m + 1, Visited(D, K, s, m),
           ~ (s[1].entries = << >>), NEW u, OneOn(s, u),
           Dealt(D[m], Head(s[1].entries), m)'
    PROVE  \E K2 \in [Nat -> Nat] : Visited(D, K2, u, m)'
<1>1. PICK e : e = Head(s[1].entries)
  OBVIOUS
<1>2. PICK K2 \in [Nat -> Nat] : Moved(D, K, K2, s, u, m)
  BY TopMoves
<1>3. /\ K2[m] = K[m] + 1 /\ \A d \in 0 .. m - 1 : K2[d] = K[d]
      /\ e = EntriesIn(D[m])[K2[m]]
      /\ \A d \in 0 .. m : FrameAt(D[d], K2[d], u[(m + 1) - d])
  BY <1>1, <1>2 DEF Moved
<1>4. Len(u) = m + 1
  BY DEF OneOn
<1>5. /\ \A d : Directories(d)' = Directories(d)
      /\ \A p : EntriesIn(p)' = EntriesIn(p)
      /\ \A p, x : Leads(p, x)' = Leads(p, x) /\ Subdirectory(p, x)' = Subdirectory(p, x)
  BY TreeConstants DEF Directories, EntriesIn
<1>6. \A p, k, frame : FrameAt(p, k, frame)' = FrameAt(p, k, frame)
  BY <1>5 DEF FrameAt
<1>7. ASSUME NEW d \in 0 .. m, NEW j \in 1 .. K2[d]
      PROVE  (j = K2[d] /\ d < m) \/ Dealt(D[d], EntriesIn(D[d])[j], d)'
  <2>1. d \in 0 .. Len(s) - 1
    OBVIOUS
  <2>2. ASSUME NEW i \in 1 .. K[d]
        PROVE  (i = K[d] /\ d < m) \/ Dealt(D[d], EntriesIn(D[d])[i], d)'
    <3>1. PICK x : x = EntriesIn(D[d])[i] /\ x = EntriesIn(D[d])'[i]
      BY <1>5
    <3>2. (i = K[d] /\ d < m) \/ Dealt(D[d], x, d)
      BY <2>1, <3>1 DEF Visited
    <3>3. Dealt(D[d], x, d) => Dealt(D[d], x, d)'
      BY ThereStays
    <3> QED
      BY <3>1, <3>2, <3>3
  <2>3. CASE d = m
    <3>1. PICK k \in Nat : k = K[m]
      OBVIOUS
    <3>2. K2[d] = k + 1 /\ j \in 1 .. K2[d]
      BY <1>3, <2>3, <3>1
    <3>3. j = k + 1 \/ j \in 1 .. k
      BY <3>2
    <3>4. CASE j = k + 1
      <4>1. EntriesIn(D[d])'[j] = e
        BY <1>3, <1>5, <2>3, <3>1, <3>4
      <4>2. Dealt(D[d], e, d)'
        BY <1>1, <2>3
      <4> QED
        BY <4>1, <4>2
    <3>5. CASE j \in 1 .. k
      <4>1. ~ (d < m)
        BY <2>3
      <4> QED
        BY <2>2, <2>3, <3>1, <3>5, <4>1
    <3> QED
      BY <3>3, <3>4, <3>5
  <2>4. CASE d # m
    <3>1. d \in 0 .. m - 1
      BY <2>4
    <3>2. K2[d] = K[d]
      BY <1>3, <3>1
    <3> QED
      BY <2>2, <3>2
  <2> QED
    BY <2>3, <2>4
<1>8. \A d \in 0 .. m : D[d] \in Directories(d)'
  BY <1>5 DEF Visited
<1>9. ASSUME NEW d \in 0 .. m - 1
      PROVE  /\ K2[d] >= 1 /\ Leads(D[d], EntriesIn(D[d])[K2[d]])'
             /\ D[d + 1] = Subdirectory(D[d], EntriesIn(D[d])[K2[d]])'
  <2>1. K2[d] = K[d]
    BY <1>3
  <2>2. PICK x : x = EntriesIn(D[d])[K2[d]] /\ x = EntriesIn(D[d])'[K2[d]]
    BY <1>5
  <2>3. K2[d] >= 1 /\ Leads(D[d], x) /\ D[d + 1] = Subdirectory(D[d], x)
    BY <2>1, <2>2 DEF Visited
  <2>4. Leads(D[d], x)' /\ D[d + 1] = Subdirectory(D[d], x)'
    BY <1>5, <2>3
  <2> QED
    BY <2>2, <2>3, <2>4
<1>10. ASSUME NEW d \in 0 .. Len(u) - 1
       PROVE  /\ FrameAt(D[d], K2[d], u[Len(u) - d])'
              /\ \A j \in 1 .. K2[d] : (j = K2[d] /\ d < m) \/ Dealt(D[d], EntriesIn(D[d])[j], d)'
  <2>1. d \in 0 .. m /\ Len(u) - d = (m + 1) - d
    BY <1>4
  <2>2. FrameAt(D[d], K2[d], u[Len(u) - d])'
    BY <1>3, <1>6, <2>1
  <2> QED
    BY <1>7, <2>1, <2>2
<1>11. Visited(D, K2, u, m)'
  BY <1>8, <1>9, <1>10 DEF Visited
<1> QED
  BY <1>11

\* A file is closed, complete or with no space left for the rest.
LEMMA TreeCloses ==
    ASSUME SharedInv, Tree, WalkState, pc = "file", NEW result, NEW stack, CloseFile(result, stack),
           KnownFiles, KnownTaken, Walking, InTree,
           \/ result = "OK" /\ stack = Below /\ ~ (InData(tree.next) /\ tree.left > 0)
           \/ result = "ENOSPC" /\ stack = << >>
    PROVE  KnownFiles' /\ KnownTaken' /\ Walking' /\ InTree' /\ AllWalked'
<1>0. IsTree
  BY TreeRead
<1>1. /\ tree.stack # << >> /\ Top.entries # << >> /\ WantedFile
      /\ tree.path = Append(Top.path, Entry1.name) /\ tree.result = "OK"
      /\ Len(tree.stack) <= KF_FAT_MAX_DIR_DEPTH + 1
  BY DEF Walking
<1>2. PICK m \in Nat, D \in Paths, K \in [Nat -> Nat], s \in Seq(DirectoryFrame) :
         /\ s = tree.stack /\ Len(s) = m + 1 /\ Visited(D, K, s, m)
         /\ m <= KF_FAT_MAX_DIR_DEPTH
         /\ D[m] \in AnyDirectory /\ D[m] \in Directories(m)
         /\ Top = s[1] /\ FrameAt(D[m], K[m], Top) /\ Top \in DirectoryFrame
  BY <1>1, WalkAt
<1>3. PICK p \in AnyDirectory : p = D[m]
  BY <1>2
<1>4. PICK e \in AnyEntry : e = Entry1 /\ e \in ElementsOf(EntriesIn(p)) /\ Top.path = p.path
  <2>1. FrameAt(p, K[m], Top) /\ Top \in DirectoryFrame /\ K[m] \in Nat
    BY <1>2, <1>3
  <2>2. Top.path = p.path /\ Entry1 \in ElementsOf(EntriesIn(p)) /\ Entry1 \in AnyEntry
    BY <1>0, <1>1, <2>1, EntryAt
  <2> QED
    BY <2>2
<1>5. e.kind = "file" /\ path_within(volume.filter, p.path)
  BY <1>1, <1>4 DEF WantedFile
<1>6. PICK x : x = FileOf(p, e)
  OBVIOUS
<1>7. x \in FilesBelow(KF_FAT_MAX_DIR_DEPTH)
  <2>1. m \in 0 .. KF_FAT_MAX_DIR_DEPTH /\ p \in Directories(m)
    BY <1>2, <1>3, FatWalkAssumption
  <2> QED
    BY <1>0, <1>4, <1>5, <1>6, <2>1, FileAt
<1>8. PICK ino \in Nat, size \in Nat : ino = e.ino /\ size = e.size
  BY DEF AnyEntry
<1>9. PICK path : path = tree.path
  OBVIOUS
<1>10. x.path = path /\ x.of = ino /\ x.clusters = FileChain(e)
  BY <1>1, <1>4, <1>6, <1>8, <1>9 DEF FileOf
<1>11. PICK got \in Seq(Nat), next \in Nat : got = tree.got /\ next = tree.next
  BY DEF WalkState
<1>12. got = x.clusters \/ (result = "ENOSPC" /\ IsPrefix(got, x.clusters))
  <2>1. Followed(DataClusters, ino, got, next)
    BY <1>4, <1>8, <1>11 DEF Walking
  <2>a. tree.left \in Nat /\ Len(tree.got) + tree.left = Entry1.size
    BY DEF Walking
  <2>b. PICK n \in Nat : n = Len(got)
    OBVIOUS
  <2>c. PICK left \in Nat : left = tree.left
    BY <2>a
  <2>2. n + left = size
    BY <1>4, <1>8, <1>11, <2>a, <2>b, <2>c
  <2>d. size \in Nat /\ n \in Nat /\ left \in Nat
    BY <1>8, <2>b, <2>c
  <2>e. n <= size /\ (left = 0 => size = n)
    BY ONLY <2>2, <2>d
  <2>3. Len(got) <= size /\ (left = 0 => size = Len(got))
    BY ONLY <2>b, <2>e
  <2>4. /\ next \notin DataClusters \/ size = Len(got) => Front(Links(DataClusters, ino, size)) = got
        /\ IsPrefix(got, Front(Links(DataClusters, ino, size)))
    BY <1>0, <2>1, <2>3, FollowedIs DEF IsTree
  <2>5. x.clusters = Front(Links(DataClusters, ino, size))
    BY <1>8, <1>10 DEF FileChain
  <2>6. CASE result = "OK" /\ ~ (InData(tree.next) /\ tree.left > 0)
    <3>1. next \notin DataClusters \/ left = 0
      <4>1. InData(next) <=> next \in DataClusters
        BY InChainIs
      <4>2. ~ (InData(next) /\ left > 0)
        BY <1>11, <2>c, <2>6, Zenon
      <4>3. left > 0 \/ left = 0
        BY ONLY <2>d
      <4> QED
        BY <4>1, <4>2, <4>3, Zenon
    <3> QED
      BY <2>3, <2>4, <2>5, <3>1
  <2>7. CASE result = "ENOSPC"
    BY <2>4, <2>5, <2>7
  <2> QED
    BY <2>6, <2>7
<1>13. PICK nth \in { 0, ino + 1 } :
          /\ NameFor(tree.path, Entry1) = << path, nth >>
          /\ nth = 0 => \A f \in recovered : f.path # path
  <2>1. CASE \E f \in recovered : f.path = path \/ IsStrictPrefix(path, f.path)
    <3>1. NameFor(path, Entry1) = << path, Entry1.ino + 1 >>
      BY <2>1 DEF NameFor
    <3>2. Entry1.ino + 1 = ino + 1 /\ ino + 1 # 0
      <4>1. Entry1.ino = ino
        BY <1>4, <1>8, Zenon
      <4>2. ino \in Nat
        OBVIOUS
      <4> QED
        BY ONLY <4>1, <4>2
    <3> QED
      BY <1>9, <3>1, <3>2
  <2>2. CASE ~ \E f \in recovered : f.path = path \/ IsStrictPrefix(path, f.path)
    <3>1. NameFor(tree.path, Entry1) = << path, 0 >>
      BY <1>9, <2>2 DEF NameFor
    <3> QED
      BY <2>2, <3>1
  <2> QED
    BY <2>1, <2>2
<1>14. PICK g : g = File(path, nth, ino, got)
  OBVIOUS
<1>15. g.path = path /\ g.nth = nth /\ g.of = ino /\ g.clusters = got
  BY <1>14 DEF File
<1>16. PICK to : to = << path, nth >>
  OBVIOUS
<1>17. /\ recovered' = { f \in recovered : << f.path, f.nth >> # to } \cup { g }
       /\ tree' = [ tree EXCEPT !.result = result, !.stack = stack ]
       /\ pc' = "walk" /\ UNCHANGED << volume, used >>
  <2>1. to[1] = path /\ to[2] = nth /\ NameFor(tree.path, Entry1) = to
    BY <1>13, <1>16
  <2>2. File(to[1], to[2], Entry1.ino, tree.got) = g
    BY <1>4, <1>8, <1>11, <1>14, <2>1
  <2> QED
    BY <2>1, <2>2, Zenon DEF CloseFile
<1>18. tree'.stack = stack /\ tree'.result = result /\ tree'.got = tree.got
  <2>1. DOMAIN tree = { "stack", "result", "path", "next", "got", "left" }
    BY DEF WalkState
  <2> QED
    BY <1>17, <2>1
<1>19. KnownFiles' /\ Kept \subseteq Kept' /\ ToSet(got) \subseteq Kept' /\ Remain /\ There(x)'
  <2>1. Replaces(g)
    BY <1>15, <1>16, <1>17 DEF Replaces
  <2>2. g.clusters = x.clusters \/ (tree'.result = "ENOSPC" /\ IsPrefix(g.clusters, x.clusters))
    BY <1>12, <1>15, <1>18
  <2>3. UNCHANGED volume /\ tree.result = "OK"
    BY <1>1, <1>17
  <2>4. g.nth = 0 => \A f \in recovered : f.path # g.path
    BY <1>13, <1>15, Zenon
  <2>5. g.of \in Nat /\ g.nth \in { 0, g.of + 1 }
    BY ONLY <1>15, ino \in Nat, nth \in { 0, ino + 1 }
  <2>6. x.path = g.path /\ x.of = g.of
    BY <1>10, <1>15, Zenon
  <2>7. KnownFiles' /\ Kept \subseteq Kept' /\ ToSet(g.clusters) \subseteq Kept' /\ Remain /\ There(x)'
    BY <1>7, <2>1, <2>2, <2>3, <2>4, <2>5, <2>6, FileClosed
  <2> QED
    BY <1>15, <2>7, Zenon
<1>20. KnownTaken'
  BY <1>11, <1>17, <1>18, <1>19, TakenKept
<1>21. CASE result = "ENOSPC" /\ stack = << >>
  <2>1. tree'.stack = << >> /\ tree'.result # "OK"
    BY <1>18, <1>21
  <2>2. Walking' /\ InTree' /\ AllWalked'
    BY <1>17, <2>1, TreeGivesUp
  <2> QED
    BY <1>19, <1>20, <2>2
<1>22. CASE result = "OK" /\ stack = Below
  <2>1. PICK u \in Seq(DirectoryFrame) :
           u = Below /\ OneOn(s, u) /\ Len(u) = m + 1 /\ ~ (s[1].entries = << >>) /\ e = Head(s[1].entries)
    BY <1>1, <1>2, <1>4, BelowOn
  <2>2. tree'.stack = u /\ tree'.result = "OK" /\ pc' = "walk"
    BY <1>17, <1>18, <1>22, <2>1
  <2>3. Visited(D, K, s, m)
    BY <1>2
  <2>4. Dealt(D[m], e, m)'
    <3>1. ~ Leads(p, e)' /\ There(FileOf(p, e))'
      <4>1. ~ IsSubdirectory(e)
        BY <1>5 DEF IsSubdirectory
      <4>2. ~ Leads(p, e)
        BY <4>1 DEF Leads
      <4>3. Leads(p, e)' = Leads(p, e) /\ FileOf(p, e)' = FileOf(p, e)
        BY <1>17, TreeConstants
      <4>4. FileOf(p, e)' = x
        BY <1>6, <4>3
      <4> QED
        BY <1>19, <4>2, <4>3, <4>4 DEF There, SameFile
    <3> QED
      BY <1>3, <3>1 DEF Dealt
  <2>5. \E K2 \in [Nat -> Nat] : Visited(D, K2, u, m)'
    <3>1. Len(s) = m + 1 /\ ~ (s[1].entries = << >>) /\ OneOn(s, u)
      BY <1>2, <2>1
    <3>2. Dealt(D[m], Head(s[1].entries), m)'
      BY <2>1, <2>4
    <3>3. UNCHANGED volume /\ Remain
      BY <1>17, <1>19
    <3> QED
      BY <1>0, <2>3, <3>1, <3>2, <3>3, LeaveBehindNext
  <2>6. PICK K2 \in [Nat -> Nat] : Visited(D, K2, u, m)'
    BY <2>5
  <2>7. Deepest' = m
    BY <2>1, <2>2 DEF Deepest
  <2>8. InTree'
    BY <2>2, <2>6, <2>7 DEF InTree
  <2>9. Walking'
    <3>1. Len(u) <= KF_FAT_MAX_DIR_DEPTH + 1
      BY <1>2, <2>1, FatWalkAssumption
    <3> QED
      BY <2>2, <3>1 DEF Walking
  <2>10. AllWalked'
    <3>1. tree'.stack # << >>
      BY <2>1, <2>2
    <3> QED
      BY <3>1 DEF AllWalked
  <2> QED
    BY <1>19, <1>20, <2>8, <2>9, <2>10
<1> QED
  BY <1>21, <1>22

\* A step of the application, or none, moves nothing of the walk.
LEMMA TreeRests ==
    ASSUME SharedInv, Tree, WalkState,
           UNCHANGED << volume, pc, used, recovered, tree >>,
           KnownFiles, KnownTaken, Walking, InTree, AllWalked
    PROVE  KnownFiles' /\ KnownTaken' /\ Walking' /\ InTree' /\ AllWalked'
<1>1. KnownFiles' /\ Kept' = Kept /\ Remain
  BY NothingWritten
<1>2. KnownTaken'
  <2>1. /\ tree'.got = tree.got
        /\ pc' \in { "dir", "file", "overrun" } \/ pc \notin { "dir", "file", "overrun" }
    BY DEF KnownTaken
  <2> QED
    BY <1>1, <2>1, TakenStays
<1>3. Walking'
  <2>1. ASSUME NEW c0, Followed(DataClusters, c0, tree.got, tree.next)
        PROVE  Followed(DataClusters, c0, tree.got, tree.next)'
    BY <2>1, TreeConstants DEF Followed
  <2>2. /\ Top' = Top /\ Entry1' = Entry1 /\ WantedFile' = WantedFile
    BY DEF Top, Entry1, WantedFile
  <2>3. pc = "file" => Followed(DataClusters, Entry1.ino, tree.got, tree.next)'
    BY <2>1, <2>2 DEF Walking
  <2> QED
    BY <2>2, <2>3 DEF Walking
<1>4. InTree'
  <2>1. CASE pc = "overrun"
    BY <2>1 DEF InTree
  <2>2. CASE pc # "overrun"
    <3>1. PICK s, d : s = tree.stack /\ d = Deepest
      OBVIOUS
    <3>2. PICK D \in Paths, K \in [Nat -> Nat] :
             Visited(D, K, s, d) /\ (pc = "dir" => Reading(D[Len(s)]))
      BY <2>2, <3>1 DEF InTree
    <3>3. Visited(D, K, s, d)'
      BY <1>1, <3>2, VisitedStays
    <3>4. Deepest' = d
      BY <3>1 DEF Deepest
    <3>5. ASSUME NEW p, Reading(p) PROVE Reading(p)'
      BY <3>5, TreeConstants DEF Reading, Followed
    <3>6. pc' = "dir" => Reading(D[Len(s)])'
      BY <3>2, <3>5
    <3> QED
      BY <3>1, <3>3, <3>4, <3>6 DEF InTree
  <2> QED
    BY <2>1, <2>2
<1>5. AllWalked'
  <2>1. SUFFICES ASSUME pc \in { "walk", "done" }, tree.stack = << >>, tree.result = "OK", volume.opens
                 PROVE  AllThere(RootDirectory, KF_FAT_MAX_DIR_DEPTH)'
    BY DEF AllWalked
  <2>2. AllThere(RootDirectory, KF_FAT_MAX_DIR_DEPTH)
    BY <2>1 DEF AllWalked
  <2>3. PICK r : r = RootDirectory /\ r = RootDirectory'
    BY TreeConstants
  <2>4. AllThere(r, KF_FAT_MAX_DIR_DEPTH)'
    BY <1>1, <2>2, <2>3, ThereStays
  <2> QED
    BY <2>3, <2>4
<1> QED
  BY <1>1, <1>2, <1>3, <1>4, <1>5

\* Each step of the walk keeps what is known of it.
LEMMA TreeWalked ==
    ASSUME SharedInv, Tree, WalkState, WalkStep,
           KnownFiles, KnownTaken, Walking, InTree, AllWalked
    PROVE  KnownFiles' /\ KnownTaken' /\ Walking' /\ InTree' /\ AllWalked'
<1>1. CASE kf_fat_boot_geometry
  BY <1>1, TreeBoot
<1>2. CASE EnterDirectory
  BY <1>2, TreeEnter
<1>3. CASE ReadDirCluster
  BY <1>3, TreeReads
<1>4. CASE WalkDirectory
  BY <1>4, TreeWalks
<1>5. CASE CreateFile
  BY <1>5, TreeCreates
<1>6. CASE WriteCluster
  BY <1>6, TreeWrites
<1>7. CASE FileWritten
  <2>1. pc = "file" /\ CloseFile("OK", Below) /\ ~ (InData(tree.next) /\ tree.left > 0)
    BY <1>7 DEF FileWritten
  <2> QED
    BY <2>1, TreeCloses
<1>8. CASE NoSpace
  <2>1. pc = "file" /\ CloseFile("ENOSPC", << >>)
    BY <1>8 DEF NoSpace
  <2> QED
    BY <2>1, TreeCloses
<1>9. CASE PassOver
  BY <1>9, TreePasses
<1>10. CASE Return
  BY <1>10, TreeReturns
<1>11. CASE StopWalk
  BY <1>11, TreeStops
<1>12. CASE WalkEnds
  BY <1>12, TreeEnds
<1> QED
  BY <1>1, <1>2, <1>3, <1>4, <1>5, <1>6, <1>7, <1>8, <1>9, <1>10, <1>11, <1>12 DEF WalkStep

\* So does every step.
LEMMA DirStep == IInv /\ DirInv /\ [Next]_vars => DirInv'
<1> SUFFICES ASSUME IInv, DirInv, [Next]_vars PROVE DirInv'
  OBVIOUS
<1>1. SharedInv /\ UNCHANGED volume
  BY VolumeStays DEF IInv
<1>2. Tree' <=> Tree
  BY <1>1 DEF Tree
<1>3. CASE ~ Tree
  BY <1>2, <1>3 DEF DirInv
<1>4. CASE Tree
  <2>1. WalkState /\ KnownFiles /\ KnownTaken /\ Walking /\ InTree /\ AllWalked
    BY <1>4 DEF IInv, WalkInv, DirInv
  <2>2. WalkStep \/ UNCHANGED << volume, pc, used, recovered, tree >>
    <3>1. Pass => WalkStep
      BY <1>1, <1>4, PassIs, VolumeIs DEF SharedInv, Pass
    <3> QED
      BY <3>1 DEF Next, kaifuku_stop, vars, unformat
  <2>3. CASE WalkStep
    BY <1>1, <1>4, <2>1, <2>3, TreeWalked DEF DirInv
  <2>4. CASE UNCHANGED << volume, pc, used, recovered, tree >>
    BY <1>1, <1>4, <2>1, <2>4, TreeRests DEF DirInv
  <2> QED
    BY <2>2, <2>3, <2>4
<1> QED
  BY <1>3, <1>4

\* The walk of a FAT volume writes what the volume has below the filter and no
\* more, at its paths and along its chains, and takes out just what it has read
\* and written, at whatever step it is stopped or fails; all of it when it is not.
THEOREM TreeIsRecovered == Spec => []TreeRecovered
<1>1. IInv /\ DirInv => TreeRecovered
  BY DirInvGives
<1> QED
  BY <1>1, DirInit, DirStep, Invariance, PTL DEF Spec
=============================================================================
