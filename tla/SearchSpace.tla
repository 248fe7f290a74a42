---------------------------- MODULE SearchSpace ----------------------------
(***************************************************************************)
(* What happens to the search space before the first carving pass: the     *)
(* file system structure pass takes the bytes of the files it recovers out *)
(* of it, then STATUS_FIND_OFFSET chooses the block size of the carve and  *)
(* aligns every extent to it.                                              *)
(*                                                                         *)
(* Addresses count bytes, scaled down: SectorSize stands for 512 and       *)
(* MaxBlock for the 128 * 512 bytes find_blocksize starts from.            *)
(***************************************************************************)
EXTENDS SearchSpaceOps

CONSTANTS
    PartOffset, PartSize, \* the partition handed to the scan
    DiskSize,
    SectorSize, MaxBlock,
    Cluster               \* the cluster size of the volume

ASSUME SizesAssumption ==
    /\ { SectorSize, MaxBlock, Cluster, PartSize } \subseteq Nat \ {0}
    /\ { PartOffset, DiskSize } \subseteq Nat
    /\ PartOffset < DiskSize
    /\ SectorSize > 1
    /\ MaxBlock % SectorSize = 0 /\ Cluster % SectorSize = 0

\* Both are powers of two: halving the one does not miss the other.
ASSUME HalvingAssumption ==
    \E sizes \in SUBSET (SectorSize .. MaxBlock) :
        MaxBlock \in sizes /\ \A b \in sizes : b > SectorSize => b \div 2 \in sizes

VARIABLES
    fs,                 \* what kf_partition_is_fat and _ntfs find
    status,             \* ctx->params.status
    list_search_space,
    blocksize,          \* ctx->params.blocksize
    start_data,         \* start of the FAT data area, 0 until it is known
    refused,            \* the data area fat_unformat took to precede the partition
    used                \* the bytes removed as parts of recovered files

vars == << fs, status, list_search_space, blocksize, start_data, refused, used >>

NotRefused == -1

Status == { "UNFORMAT", "FIND_OFFSET", "CARVE" }

Sectors(first, bytes) == { a \in first .. first + bytes - 1 : (a - first) % SectorSize = 0 }

Partition == init_search_space(PartOffset, PartSize, DiskSize)

Init ==
    /\ fs \in { "fat", "ntfs", "other" }
    /\ status = "UNFORMAT"
    /\ list_search_space = Partition
    /\ blocksize = SectorSize
    /\ start_data = 0
    /\ refused = NotRefused
    /\ used = {}

-----------------------------------------------------------------------------
\* The NTFS pass: one byte range of kaifuku_mark_used_ranges, made of whole
\* clusters of the volume.
kaifuku_mark_used_ranges(offset, size) ==
    /\ fs = "ntfs" /\ status = "UNFORMAT"
    /\ list_search_space' = del_search_space(list_search_space, offset, offset + size - 1)
    /\ used' = used \cup (offset .. offset + size - 1)
    /\ UNCHANGED << fs, status, blocksize, start_data, refused >>

\* The FAT pass, once it knows where the data area begins: all that precedes
\* it is given up and the rest is aligned to the clusters.
UseGeometry(start) ==
    /\ start_data' = start
    /\ blocksize' = Cluster
    /\ list_search_space' = update_blocksize(
           del_search_space(list_search_space, PartOffset, start - 1), Cluster, start)

\* fat_unformat_dir takes the geometry from the boot sector.
fat_unformat_dir(start) ==
    /\ fs = "fat" /\ status = "UNFORMAT" /\ start_data = 0 /\ refused = NotRefused
    /\ start > PartOffset /\ start < PartOffset + PartSize
    /\ UseGeometry(start)
    /\ UNCHANGED << fs, status, used, refused >>

\* fat_unformat infers it from the directories it finds.  The comparison with
\* the start of the partition sees start in sectors and PartOffset in bytes.
fat_unformat(start) ==
    /\ fs = "fat" /\ status = "UNFORMAT" /\ start_data = 0 /\ refused = NotRefused
    /\ IF start \div SectorSize <= PartOffset
         THEN /\ refused' = start
              /\ blocksize' = 0
              /\ UNCHANGED << start_data, list_search_space >>
         ELSE /\ UseGeometry(start)
              /\ UNCHANGED refused
    /\ UNCHANGED << fs, status, used >>

\* The FAT pass takes out a directory cluster or the clusters of a file.
DelClusters(first, n) ==
    LET start == start_data + first * Cluster
        end   == start + n * Cluster - 1
    IN  /\ status = "UNFORMAT" /\ start_data # 0
        /\ end < PartOffset + PartSize
        /\ list_search_space' = del_search_space(list_search_space, start, end)
        /\ used' = used \cup (start .. end)
        /\ UNCHANGED << fs, status, blocksize, start_data, refused >>

\* Volumes without a structure pass, and the end of the pass.
UnformatEnds ==
    /\ status = "UNFORMAT"
    /\ status' = "FIND_OFFSET"
    /\ UNCHANGED << fs, list_search_space, blocksize, start_data, refused, used >>

\* scan_thread_func, case STATUS_FIND_OFFSET.
BlockSize == find_blocksize(list_search_space, SectorSize, MaxBlock)

FindOffset ==
    /\ status = "FIND_OFFSET"
    /\ status' = "CARVE"
    /\ blocksize' = BlockSize.blocksize
    /\ list_search_space' = update_blocksize(list_search_space, BlockSize.blocksize, BlockSize.offset)
    /\ UNCHANGED << fs, start_data, refused, used >>

Next ==
    \/ \E offset \in Sectors(PartOffset, PartSize), n \in 1 .. PartSize \div SectorSize :
          /\ offset + n * SectorSize <= PartOffset + PartSize
          /\ kaifuku_mark_used_ranges(offset, n * SectorSize)
    \/ \E start \in Sectors(0, PartOffset + PartSize) :
          fat_unformat_dir(start) \/ fat_unformat(start)
    \/ \E first, n \in 0 .. PartSize \div Cluster : n > 0 /\ DelClusters(first, n)
    \/ UnformatEnds
    \/ FindOffset

Spec == Init /\ [][Next]_vars

-----------------------------------------------------------------------------
(* Properties *)

\* What the list may hold while the structure pass runs: the partition, and
\* once the geometry of a FAT volume is known its data area in whole clusters.
Area ==
    IF start_data = 0 THEN Bytes(Partition)
    ELSE start_data .. RoundUp(Partition[1].end + 1, Cluster, start_data % Cluster) - 1

\* del_search_space takes out the bytes it is given and no others, however the
\* ranges nest, touch, repeat or straddle extents: until the carve, the list is
\* exactly what no recovered file uses.  Before and after the alignment it is
\* sorted, free of overlaps and of empty extents.
ExactlyUnused ==
    /\ WellFormed(list_search_space)
    /\ status # "CARVE" => Bytes(list_search_space) = Area \ used

\* The carve reads whole blocks: once FIND_OFFSET is done every extent is made
\* of whole blocks on one grid.
OneGrid ==
    status = "CARVE" =>
        \A i \in DOMAIN list_search_space :
            /\ (list_search_space[i].start - list_search_space[1].start) % blocksize = 0
            /\ (list_search_space[i].end + 1 - list_search_space[1].start) % blocksize = 0

\* Aligning may give up the ends of extents, never a whole block of the new
\* grid that was free, and takes no byte back from between the extents.
AlignmentKeepsBlocks ==
    [][ status = "FIND_OFFSET" /\ status' = "CARVE" =>
          /\ \A a \in Bytes(list_search_space) :
                LET block == a .. a + blocksize' - 1
                IN  a % blocksize' = BlockSize.offset % blocksize' /\ block \subseteq Bytes(list_search_space)
                      => block \subseteq Bytes(list_search_space')
          /\ \A a \in Bytes(list_search_space') \ Bytes(list_search_space) :
                a > Last(list_search_space).end ]_vars

\* kaifuku_ffi.h:103 of kaifuku_mark_used_ranges: "Remove the given absolute
\* byte ranges from the carve search space, so the carve pass skips them."
UsedStaysOut == used \cap Bytes(list_search_space) = {}
=============================================================================
