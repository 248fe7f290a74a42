------------------------- MODULE SearchSpace_proofs -------------------------
(***************************************************************************)
(* Theorems of SearchSpace: until the carve the list is exactly what no    *)
(* recovered file uses, and aligning it to the block size keeps every      *)
(* whole block of the grid.  What the operations on the list do is in      *)
(* CarveOps_proofs.                                                        *)
(***************************************************************************)
EXTENDS SearchSpace, CarveOps_proofs

\* The whole partition, as far as the disk has it.
LEMMA PartitionIs ==
    /\ Partition \in Ordered /\ Partition[1].end \in Nat
    /\ Bytes(Partition) = PartOffset .. Partition[1].end
<1>1. /\ PartOffset \in Nat /\ DiskSize \in Nat /\ PartSize \in Nat /\ PartSize > 0
      /\ PartOffset < DiskSize
  BY SizesAssumption
<1>2. PICK e : e = IF PartOffset + PartSize - 1 > DiskSize - 1 THEN DiskSize - 1
                   ELSE PartOffset + PartSize - 1
  OBVIOUS
<1>3. e \in Nat /\ PartOffset <= e
  BY <1>1, <1>2
<1>4. PICK x : x = extent(PartOffset, e)
  OBVIOUS
<1>5. x \in Extent /\ x.start = PartOffset /\ x.end = e
  BY <1>1, <1>3, <1>4, NewExtent
<1>6. Partition = << x >>
  BY <1>2, <1>4 DEF Partition, init_search_space
<1>7. << x >> \in Seq(Extent) /\ Len(<< x >>) = 1 /\ << x >>[1] = x /\ DOMAIN << x >> = { 1 }
  BY <1>5
<1>8. << x >> \in Ordered
  BY <1>3, <1>5, <1>7 DEF Ordered, WellFormed
<1>9. Bytes(<< x >>) = x.start .. x.end
  BY <1>7 DEF Bytes
<1> QED
  BY <1>3, <1>5, <1>6, <1>7, <1>8, <1>9

\* A multiple of the sector size is not less than it.
LEMMA ClusterSize == Cluster \in Nat /\ Cluster > 1
<1>1. /\ Cluster \in Nat /\ Cluster > 0 /\ SectorSize \in Nat /\ SectorSize > 1
      /\ Cluster % SectorSize = 0
  BY SizesAssumption
<1>2. ~ (Cluster < SectorSize)
  <2>1. 0 % SectorSize = 0
    BY <1>1
  <2>2. 0 < Cluster => 0 + SectorSize <= Cluster
    BY <1>1, <2>1, AlignedGap
  <2> QED
    BY <1>1, <2>2
<1> QED
  BY <1>1, <1>2

\* The inductive invariant.  Until the geometry of a volume without an NTFS pass
\* is known nothing has been taken out of its partition: that is why aligning to
\* the clusters cannot bring back what was used.
IInv ==
    /\ status \in Status
    /\ list_search_space \in Ordered
    /\ start_data \in Nat
    /\ status = "UNFORMAT" /\ start_data = 0 /\ fs # "ntfs" =>
          list_search_space = Partition /\ used = {}
    /\ status # "CARVE" => Bytes(list_search_space) = Area \ used
    /\ OneGrid

\* The invariant holds of the whole partition.
LEMMA InitIInv == Init => IInv
<1> SUFFICES ASSUME Init PROVE IInv
  OBVIOUS
<1>1. /\ status = "UNFORMAT" /\ list_search_space = Partition /\ start_data = 0 /\ used = {}
  BY DEF Init
<1>2. Bytes(list_search_space) = Area \ used
  BY <1>1 DEF Area
<1>3. OneGrid
  BY <1>1 DEF OneGrid
<1> QED
  BY <1>1, <1>2, <1>3, PartitionIs DEF IInv, Status

\* Taking the bytes s to e out during the structure pass.
LEMMA TakeOut ==
    ASSUME IInv, status = "UNFORMAT", fs = "ntfs" \/ start_data # 0,
           NEW s \in Nat, NEW e \in Int,
           list_search_space' = del_search_space(list_search_space, s, e),
           used' = used \cup (s .. e),
           UNCHANGED << fs, status, start_data >>
    PROVE  IInv'
<1>1. /\ list_search_space' \in Ordered
      /\ Bytes(list_search_space') = Bytes(list_search_space) \ (s .. e)
  BY DelBytes DEF IInv
<1>2. Area' = Area
  BY DEF Area
<1>3. Bytes(list_search_space') = Area' \ used'
  BY <1>1, <1>2 DEF IInv
<1>4. OneGrid'
  BY DEF OneGrid
<1> QED
  BY <1>1, <1>3, <1>4 DEF IInv

\* What precedes the data area is given up and the rest aligned.
LEMMA GeometryKeeps ==
    ASSUME IInv, status = "UNFORMAT", fs = "fat", start_data = 0,
           NEW start \in Nat, start > PartOffset, UseGeometry(start),
           UNCHANGED << fs, status, used >>
    PROVE  IInv'
<1>1. list_search_space = Partition /\ used = {}
  BY DEF IInv
<1>2. PICK end \in Nat : end = Partition[1].end
  BY PartitionIs
<1>3. Partition \in Ordered /\ Bytes(Partition) = PartOffset .. end
  BY <1>2, PartitionIs
<1>4. PICK l : l = del_search_space(Partition, PartOffset, start - 1)
  OBVIOUS
<1>p. PartOffset \in Nat
  BY SizesAssumption
<1>5. l \in Ordered /\ Bytes(l) = Bytes(Partition) \ (PartOffset .. start - 1)
  BY <1>3, <1>4, <1>p, DelBytes
<1>6. Bytes(l) = start .. end
  BY <1>3, <1>5, <1>p
<1>7. start_data' = start /\ list_search_space' = update_blocksize(l, Cluster, start)
  BY <1>1, <1>4 DEF UseGeometry
<1>8. /\ list_search_space' \in Ordered
      /\ Bytes(list_search_space') = start .. RoundUp(end + 1, Cluster, start % Cluster) - 1
  BY <1>5, <1>6, <1>7, ClusterSize, GeometryOK
<1>9. start # 0
  BY <1>p
<1>10. Area' = start .. RoundUp(end + 1, Cluster, start % Cluster) - 1
  BY <1>2, <1>7, <1>9 DEF Area, Partition
<1>11. OneGrid'
  BY DEF OneGrid
<1> QED
  BY <1>1, <1>7, <1>8, <1>9, <1>10, <1>11 DEF IInv

\* The block size the carve begins with.
LEMMA BlockSizeIs ==
    ASSUME list_search_space \in Ordered, list_search_space # << >>
    PROVE  BlockSize.blocksize \in Nat /\ BlockSize.blocksize > 1 /\ BlockSize.offset \in Nat
<1>1. PICK sizes \in SUBSET (SectorSize .. MaxBlock) :
        MaxBlock \in sizes /\ \A b \in sizes : b > SectorSize => b \div 2 \in sizes
  BY HalvingAssumption
<1>2. SectorSize \in Nat /\ SectorSize > 1 /\ MaxBlock \in Nat /\ MaxBlock > 0
  BY SizesAssumption
<1>3. list_search_space \in Seq(Extent)
  BY OrderedFacts
<1>4. BlockSize \in Grids(sizes, MaxBlock)
  BY <1>1, <1>2, <1>3, FindOK DEF BlockSize
<1>5. BlockSize.blocksize \in sizes /\ BlockSize.offset \in 0 .. MaxBlock
  BY <1>4 DEF Grids
<1>6. \A b \in SectorSize .. MaxBlock : b \in Nat /\ b > 1
  BY <1>2
<1>7. \A o \in 0 .. MaxBlock : o \in Nat
  BY <1>2
<1> QED
  BY <1>5, <1>6, <1>7

\* The list the carve begins with.
LEMMA FindOffsetOK ==
    ASSUME IInv, FindOffset
    PROVE  /\ list_search_space' \in Ordered /\ OneGrid'
           /\ \A a \in Int :
                /\ OnGrid(a, blocksize', BlockSize.offset % blocksize')
                /\ BlockIn(a, list_search_space, blocksize')
                => BlockIn(a, list_search_space', blocksize')
           /\ \A a \in Int : InList(a, list_search_space') =>
                InList(a, list_search_space) \/ a > Last(list_search_space).end
<1>1. /\ list_search_space \in Ordered
      /\ blocksize' = BlockSize.blocksize
      /\ list_search_space' = update_blocksize(list_search_space, BlockSize.blocksize, BlockSize.offset)
  BY DEF IInv, FindOffset
<1>2. CASE list_search_space = << >>
  <2>1. list_search_space' = << >>
    BY <1>1, <1>2 DEF update_blocksize
  <2>2. OneGrid'
    BY <2>1 DEF OneGrid
  <2> QED
    BY <1>1, <1>2, <2>1, <2>2 DEF InList, BlockIn
<1>3. CASE list_search_space # << >>
  <2>1. PICK bs \in Nat : bs = BlockSize.blocksize /\ bs > 1
    BY <1>1, <1>3, BlockSizeIs
  <2>2. PICK offset \in Nat : offset = BlockSize.offset
    BY <1>1, <1>3, BlockSizeIs
  <2>3. PICK l \in Ordered : l = list_search_space
    BY <1>1
  <2>4. PICK r : r = list_search_space'
    OBVIOUS
  <2>5. PICK off : off = offset % bs
    OBVIOUS
  <2>6. /\ off \in Int
        /\ r \in Ordered /\ Aligned(r, bs, off)
        /\ \A a \in Int : InList(a, r) => InList(a, l) \/ Gained(a, l, bs, off)
        /\ \A a \in Int :
             OnGrid(a, bs, off) /\ (\A b \in a .. a + bs - 1 : InList(b, l) \/ Gained(b, l, bs, off))
               => BlockIn(a, r, bs)
    <3>1. r = update_blocksize(l, bs, offset) /\ l # << >>
      BY <1>1, <1>3, <2>1, <2>2, <2>3, <2>4
    <3> QED
      BY <2>1, <2>5, <3>1, UpdateOK
  <2>7. \A a : Gained(a, l, bs, off) => a > Last(l).end
    BY DEF Gained, Last
  <2>8. \A a \in Int : OnGrid(a, bs, off) /\ BlockIn(a, l, bs) => BlockIn(a, r, bs)
    BY <2>6 DEF BlockIn
  <2>9. OneGrid'
    <3> SUFFICES ASSUME NEW i \in DOMAIN r
                 PROVE  /\ (r[i].start - r[1].start) % bs = 0
                        /\ (r[i].end + 1 - r[1].start) % bs = 0
      BY <1>1, <2>1, <2>4 DEF OneGrid
    <3>1. /\ i \in 1 .. Len(r) /\ 1 \in 1 .. Len(r)
          /\ r[i].start \in Nat /\ r[i].end \in Nat /\ r[1].start \in Nat
      BY <2>6, OrderedFacts
    <3>2. PICK a \in Int : a = r[i].start
      BY <3>1
    <3>3. PICK b \in Int : b = r[1].start
      BY <3>1
    <3>4. PICK c \in Int : c = r[i].end + 1
      BY <3>1
    <3>5. OnGrid(a, bs, off) /\ OnGrid(b, bs, off) /\ OnGrid(c, bs, off)
      BY <2>6, <3>1, <3>2, <3>3, <3>4 DEF Aligned
    <3>6. (a - b) % bs = 0 /\ (c - b) % bs = 0
      BY <2>1, <2>6, <3>5, GridDifference
    <3>7. a - b = r[i].start - r[1].start /\ c - b = r[i].end + 1 - r[1].start
      BY <3>1, <3>2, <3>3, <3>4
    <3>8. (r[i].start - r[1].start) % bs = 0
      BY <3>6, <3>7, Zenon
    <3>9. (r[i].end + 1 - r[1].start) % bs = 0
      BY <3>6, <3>7, Zenon
    <3> QED
      BY <3>8, <3>9
  <2> QED
    BY <1>1, <2>1, <2>2, <2>3, <2>4, <2>5, <2>6, <2>7, <2>8, <2>9
<1> QED
  BY <1>2, <1>3

\* Every step keeps the invariant.
LEMMA StepIInv == IInv /\ [Next]_vars => IInv'
<1> SUFFICES ASSUME IInv, [Next]_vars PROVE IInv'
  OBVIOUS
<1>c. /\ PartOffset \in Nat /\ PartSize \in Nat /\ SectorSize \in Nat /\ SectorSize > 1
      /\ Cluster \in Nat
  BY SizesAssumption, ClusterSize
<1>1. ASSUME NEW offset \in Sectors(PartOffset, PartSize), NEW n \in 1 .. PartSize \div SectorSize,
             kaifuku_mark_used_ranges(offset, n * SectorSize)
      PROVE  IInv'
  <2>1. offset \in Nat
    BY <1>c DEF Sectors
  <2>2. PICK e : e = offset + n * SectorSize - 1
    OBVIOUS
  <2>3. n \in Int /\ e \in Int
    <3>1. n \in Int
      BY <1>c
    <3>2. PICK k \in Int : k = n * SectorSize
      BY <1>c, <3>1
    <3> QED
      BY <2>1, <2>2, <3>1, <3>2
  <2>4. /\ fs = "ntfs" /\ status = "UNFORMAT"
        /\ list_search_space' = del_search_space(list_search_space, offset, e)
        /\ used' = used \cup (offset .. e)
        /\ UNCHANGED << fs, status, start_data >>
    BY <1>1, <2>2 DEF kaifuku_mark_used_ranges
  <2> QED
    BY <2>1, <2>3, <2>4, TakeOut
<1>2. ASSUME NEW start \in Sectors(0, PartOffset + PartSize), fat_unformat_dir(start)
      PROVE  IInv'
  <2>1. start \in Nat
    BY <1>c DEF Sectors
  <2> QED
    BY <1>2, <2>1, GeometryKeeps DEF fat_unformat_dir
<1>3. ASSUME NEW start \in Sectors(0, PartOffset + PartSize), fat_unformat(start)
      PROVE  IInv'
  <2>1. start \in Nat
    BY <1>c DEF Sectors
  <2>2. fs = "fat" /\ status = "UNFORMAT" /\ start_data = 0 /\ UNCHANGED << fs, status, used >>
    BY <1>3 DEF fat_unformat
  <2>3. CASE start \div SectorSize <= PartOffset
    <3>1. UNCHANGED << start_data, list_search_space >>
      BY <1>3, <2>3 DEF fat_unformat
    <3> QED
      BY <2>2, <3>1 DEF IInv, Area, OneGrid
  <2>4. CASE ~ (start \div SectorSize <= PartOffset)
    <3>1. UseGeometry(start)
      BY <1>3, <2>4 DEF fat_unformat
    <3>2. start > PartOffset
      <4>1. PICK k \in Int, m \in 0 .. SectorSize - 1 :
              k = start \div SectorSize /\ start = SectorSize * k + m
        BY <1>c, <2>1, DivMod
      <4>2. k > PartOffset
        BY <1>c, <2>4, <4>1
      <4>3. SectorSize * k >= k
        BY <1>c, <4>1, <4>2
      <4> QED
        BY <1>c, <4>1, <4>2, <4>3
    <3> QED
      BY <2>1, <2>2, <3>1, <3>2, GeometryKeeps
  <2> QED
    BY <2>3, <2>4
<1>4. ASSUME NEW first \in 0 .. PartSize \div Cluster, NEW n \in 0 .. PartSize \div Cluster,
             DelClusters(first, n)
      PROVE  IInv'
  <2>1. PICK s : s = start_data + first * Cluster
    OBVIOUS
  <2>2. PICK e : e = s + n * Cluster - 1
    OBVIOUS
  <2>3. s \in Nat /\ e \in Int
    <3>1. first \in Nat /\ n \in Nat /\ start_data \in Nat
      BY <1>c DEF IInv
    <3>2. first * Cluster \in Nat /\ n * Cluster \in Nat
      BY <1>c, <3>1
    <3> QED
      BY <2>1, <2>2, <3>1, <3>2
  <2>4. /\ status = "UNFORMAT" /\ start_data # 0
        /\ list_search_space' = del_search_space(list_search_space, s, e)
        /\ used' = used \cup (s .. e)
        /\ UNCHANGED << fs, status, start_data >>
    BY <1>4, <2>1, <2>2 DEF DelClusters
  <2> QED
    BY <2>3, <2>4, TakeOut
<1>5. ASSUME UnformatEnds PROVE IInv'
  <2>1. status' = "FIND_OFFSET" /\ status = "UNFORMAT"
        /\ UNCHANGED << fs, list_search_space, blocksize, start_data, used >>
    BY <1>5 DEF UnformatEnds
  <2>2. "FIND_OFFSET" \in Status
    BY DEF Status
  <2> QED
    BY <2>1, <2>2 DEF IInv, Area, OneGrid
<1>6. ASSUME FindOffset PROVE IInv'
  <2>1. list_search_space' \in Ordered /\ OneGrid'
    BY <1>6, FindOffsetOK
  <2>2. status' = "CARVE" /\ UNCHANGED << fs, start_data, used >>
    BY <1>6 DEF FindOffset
  <2>3. "CARVE" \in Status
    BY DEF Status
  <2> QED
    BY <2>1, <2>2, <2>3 DEF IInv
<1>7. CASE UNCHANGED vars
  BY <1>7 DEF IInv, Area, OneGrid, vars
<1> QED
  BY <1>1, <1>2, <1>3, <1>4, <1>5, <1>6, <1>7 DEF Next

\* IInv is an invariant of the search space before the carve.
LEMMA Invariance == Spec => []IInv
<1> QED
  BY InitIInv, StepIInv, PTL DEF Spec

\* Until the carve, the list is exactly what no recovered file uses, in order,
\* free of overlaps and of empty extents (del_search_space, update_blocksize).
THEOREM UnusedExact == Spec => []ExactlyUnused
<1>1. IInv => ExactlyUnused
  BY DEF IInv, ExactlyUnused, Ordered
<1> QED
  BY Invariance, <1>1, PTL

\* Once FIND_OFFSET is done every extent is made of whole blocks on one grid.
THEOREM CarveOnOneGrid == Spec => []OneGrid
<1>1. IInv => OneGrid
  BY DEF IInv
<1> QED
  BY Invariance, <1>1, PTL

\* Aligning loses no whole block of the new grid that was free and takes in no
\* bytes but those behind the last extent.
THEOREM BlocksKept == Spec => AlignmentKeepsBlocks
<1> DEFINE Kept ==
      status = "FIND_OFFSET" /\ status' = "CARVE" =>
          /\ \A a \in Bytes(list_search_space) :
                LET block == a .. a + blocksize' - 1
                IN  a % blocksize' = BlockSize.offset % blocksize' /\ block \subseteq Bytes(list_search_space)
                      => block \subseteq Bytes(list_search_space')
          /\ \A a \in Bytes(list_search_space') \ Bytes(list_search_space) :
                a > Last(list_search_space).end
<1>1. ASSUME IInv, FindOffset PROVE Kept
  <2>1. /\ list_search_space \in Ordered /\ list_search_space' \in Ordered
        /\ \A a \in Int :
             /\ OnGrid(a, blocksize', BlockSize.offset % blocksize')
             /\ BlockIn(a, list_search_space, blocksize')
             => BlockIn(a, list_search_space', blocksize')
        /\ \A a \in Int : InList(a, list_search_space') =>
             InList(a, list_search_space) \/ a > Last(list_search_space).end
    BY <1>1, FindOffsetOK DEF IInv
  <2>2. \A a : a \in Bytes(list_search_space) <=> a \in Int /\ InList(a, list_search_space)
    BY <2>1, OrderedFacts, ListBytes
  <2>3. PICK r : r = list_search_space'
    OBVIOUS
  <2>4. \A a : a \in Bytes(r) <=> a \in Int /\ InList(a, r)
    BY <2>1, <2>3, OrderedFacts, ListBytes
  <2>5. ASSUME NEW a \in Bytes(list_search_space), a % blocksize' = BlockSize.offset % blocksize',
               a .. a + blocksize' - 1 \subseteq Bytes(list_search_space)
        PROVE  a .. a + blocksize' - 1 \subseteq Bytes(r)
    <3>1. list_search_space # << >>
      BY <2>2, <2>5 DEF InList
    <3>2. PICK bs \in Nat : bs = blocksize' /\ bs > 1
      BY <1>1, <2>1, <3>1, BlockSizeIs DEF FindOffset
    <3>3. PICK offset \in Nat : offset = BlockSize.offset
      BY <2>1, <3>1, BlockSizeIs
    <3>4. a \in Int
      BY <2>2
    <3>5. OnGrid(a, bs, offset % bs)
      <4>1. a % bs = offset % bs
        BY <2>5, <3>2, <3>3, Zenon
      <4>2. bs > 0 /\ offset \in Int
        BY <3>2
      <4> QED
        BY <3>4, <4>1, <4>2, GridOfRemainder
    <3>6. BlockIn(a, list_search_space, bs)
      BY <2>2, <2>5, <3>2 DEF BlockIn
    <3>7. BlockIn(a, r, bs)
      BY <2>1, <2>3, <3>2, <3>3, <3>4, <3>5, <3>6
    <3> QED
      <4>1. ASSUME NEW b \in a .. a + bs - 1 PROVE b \in Bytes(r)
        <5>1. b \in Int /\ InList(b, r)
          BY <3>4, <3>7 DEF BlockIn
        <5> QED
          BY <2>4, <5>1
      <4>2. a .. a + bs - 1 \subseteq Bytes(r)
        BY <4>1
      <4> QED
        BY <3>2, <4>2, Zenon
  <2>6. ASSUME NEW a \in Bytes(r) \ Bytes(list_search_space) PROVE a > Last(list_search_space).end
    BY <2>1, <2>2, <2>3, <2>4
  <2> QED
    BY <2>3, <2>5, <2>6
<1>2. ASSUME IInv, [Next]_vars PROVE Kept
  <2>1. SUFFICES ASSUME status = "FIND_OFFSET", status' = "CARVE" PROVE FindOffset
    BY <1>1, <1>2
  <2> QED
    BY <1>2, <2>1 DEF Next, vars, kaifuku_mark_used_ranges, fat_unformat_dir, fat_unformat,
                      DelClusters, UnformatEnds
<1>3. IInv /\ [Next]_vars => [Kept]_vars
  BY <1>2
<1> QED
  BY Invariance, <1>3, PTL DEF Spec, AlignmentKeepsBlocks

=============================================================================
