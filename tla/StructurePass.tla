--------------------------- MODULE StructurePass ---------------------------
(***************************************************************************)
(* The case STATUS_UNFORMAT of scan_thread_func: the structure pass that   *)
(* fits the file system of the partition, and what all of them promise to  *)
(* the carving passes that follow.                                         *)
(***************************************************************************)
EXTENDS NtfsRecover, FatUnformat, FatWalk

CONSTANTS DiskSize, MaxBlock

-----------------------------------------------------------------------------
(* The volumes a pass can meet: what the structures on them are made of. *)

MappingPair == [ length : Int, offset : Int ]

MftRecord ==
    [ in_use : BOOLEAN, is_dir : BOOLEAN, parent : Nat, name : STRING,
      data : { "none", "resident", "runs", "compressed" }, size : Nat, pairs : Seq(MappingPair) ]

\* What is kept of a record when it has been parsed.
MftEntry ==
    [ record : Nat, in_use : BOOLEAN, is_dir : BOOLEAN, parent : Nat, name : STRING,
      data : { "none", "resident", "runs", "compressed" }, size : Nat, runs : Seq(Run) ]

DirectoryEntry == [ name : STRING, kind : { "dir", "file", "end" }, ino : Nat, size : Nat ]

\* A path that the length of the filter splits inside a character is not within it.
IsNtfs(v) ==
    /\ v.records \in Seq(MftRecord \cup { None }) /\ v.mft_runs \in Seq(Run)
    /\ v.opens \in BOOLEAN
    /\ \A p \in v.splits : v.filter # None /\ ~ path_within(v.filter, p)

HasDirectories(v) == \A n \in DOMAIN v.dirs : v.dirs[n] \in Seq(DirectoryEntry)

\* pfind_sectors_per_cluster may find no start of the data area.
IsFat(v) == HasDirectories(v) /\ v.start_data \in Nat \cup { None }

\* kf_fat_boot_geometry refuses a boot sector with another start.
IsFatDir(v) ==
    /\ HasDirectories(v) /\ v.opens \in BOOLEAN
    /\ v.start_data \in PartOffset + 1 .. PartOffset + PartSize - 1
    /\ v.root_cluster \in Nat /\ \A n \in DOMAIN v.fat : v.fat[n] \in Nat

ASSUME VolumesAssumption ==
    /\ None \notin Nat /\ None \notin Seq(STRING) /\ None \notin MftEntry
    /\ \A v \in Volumes :
          \/ v.fs = "ntfs" /\ IsNtfs(v)
          \/ v.fs = "fat" /\ IsFat(v)
          \/ v.fs = "fatdir" /\ IsFatDir(v)

-----------------------------------------------------------------------------

vars == << unformat, mft, sweep, tree >>

Init ==
    /\ UnformatInit /\ NtfsInit /\ FatInit /\ WalkInit
    /\ pc = CASE volume.fs = "ntfs"   -> "open"
              [] volume.fs = "fat"    -> "geometry"
              [] volume.fs = "fatdir" -> "boot"

Pass ==
    \/ NtfsStep /\ UNCHANGED << sweep, tree >>
    \/ FatStep /\ UNCHANGED << mft, tree >>
    \/ WalkStep /\ UNCHANGED << mft, sweep >>

Ended == pc \in { "done", "overrun", "caught" }

Next ==
    \/ Pass
    \/ kaifuku_stop /\ UNCHANGED << mft, sweep, tree >>
    \/ Ended /\ UNCHANGED vars

\* The pass runs in the scan thread and nothing it calls blocks for ever.  This
\* is WF_vars(Pass) since, as the absence of deadlocks shows, a step of the
\* pass can be taken until it has ended.
Spec == Init /\ [][Next]_vars /\ ([]<>Ended \/ []<><< Pass >>_vars)

-----------------------------------------------------------------------------
(* Properties of every pass *)

Ntfs == volume.fs = "ntfs"
Fat  == volume.fs = "fat"
Tree == volume.fs = "fatdir"

ClusterBytes(n) ==
    LET first == IF Ntfs THEN cluster_to_offset(n) ELSE FirstByte(n)
    IN  first .. first + Cluster - 1

OwnClusters(f) ==
    LET own == IF Ntfs THEN ClustersOf(mft.entries[f.of + 1].runs) ELSE Nat
    IN  { f.clusters[i] : i \in DOMAIN f.clusters } \cap own

IsOut(f) ==
    \A n \in OwnClusters(f) : ClusterBytes(n) \cap Bytes(list_search_space) = {}

\* fat_unformat.c:449 "Every recovered cluster is removed from list_search_space
\* so the subsequent carve pass skips it", ntfs.rs:9 the same of the NTFS pass:
\* true of every file written, whole or in part, also after a stop.  There are two
\* exceptions: a file the sweep has cut short on a full destination keeps its
\* clusters in, and so does every file once the NTFS pass has panicked.
RecoveredIsOut ==
    pc \in { "done", "overrun" } => \A f \in recovered \ sweep.cut : IsOut(f)

\* The structure pass as SearchSpace describes it.
GeometryUsed ==
    /\ ~ Ntfs
    /\ list_search_space # init_search_space(PartOffset, PartSize, DiskSize)

Refused == Fat /\ pc = "done" /\ ~ GeometryUsed /\ start_data # None

Space == INSTANCE SearchSpace
           WITH fs         <- IF Ntfs THEN "ntfs" ELSE "fat",
                status     <- "UNFORMAT",
                blocksize  <- IF GeometryUsed THEN Cluster ELSE IF Refused THEN 0 ELSE SectorSize,
                start_data <- IF GeometryUsed THEN volume.start_data ELSE 0,
                refused    <- IF Refused THEN start_data ELSE -1

\* The step of SearchSpace that a step of a pass is.
TakesOut(address, n) == Space!DelClusters((address - volume.start_data) \div Cluster, n)

SpaceStep ==
    \/ /\ Ntfs /\ pc = "mark" /\ mft.ranges # << >>
       /\ Head(mft.ranges).offset \in Space!Sectors(PartOffset, PartSize)
       /\ Space!kaifuku_mark_used_ranges(Head(mft.ranges).offset, Head(mft.ranges).size)
    \/ pc = "geometry" /\ start_data # None /\ Space!fat_unformat(start_data)
    \/ pc = "boot" /\ Space!fat_unformat_dir(volume.start_data)
    \/ Fat /\ pc = "sweep" /\ TakesOut(sweep.offset, 1)
    \/ Fat /\ pc = "entries" /\ TakesOut(file_start(Head(sweep.dir)), Head(sweep.dir).size)
    \/ Tree /\ pc \in { "dir", "file" } /\ TakesOut(FirstByte(tree.next), 1)

\* Each step of a pass is a step of SearchSpace or changes nothing of it.
ImplementsSpace == Space!Init /\ [][SpaceStep]_(Space!vars)

\* What the theorem of ImplementsSpace supposes of the constants: the partition lies
\* on the disk,
PartitionOnDisk == DiskSize \in Nat /\ PartOffset + PartSize <= DiskSize

\* and the structures of the volumes are of the size of the partition: no run
\* begins behind it, and the data area is made of whole clusters and ends with it.
RunsFit(runs) ==
    \A i \in 1 .. Len(runs) : runs[i].cluster # SPARSE => runs[i].cluster * Cluster < PartSize

VolumesFit ==
    \A v \in Volumes :
        /\ v.fs = "ntfs" =>
              /\ RunsFit(v.mft_runs)
              /\ \A i \in 1 .. Len(v.records) :
                    v.records[i] # None => RunsFit(parse_mapping_pairs(v.records[i].pairs))
        /\ v.fs = "fat" /\ v.start_data # None =>
              (PartOffset + PartSize - v.start_data) % Cluster = 0
        /\ v.fs = "fatdir" =>
              v.start_data + (((PartSize - v.start_data) % UINT64) \div Cluster + 1) * Cluster
                <= PartOffset + PartSize

-----------------------------------------------------------------------------
(* Properties of the NTFS pass *)

\* The clusters were free; or they are what is left of the first cluster of the
\* entry, or clusters of another place that begin like it.
ReadFree(e, clusters) ==
    LET read == { clusters[i] : i \in DOMAIN clusters } \ { SPARSE }
        head == e.runs[1].cluster
    IN  \/ e.in_use
        \/ \A c \in read : ~ is_allocated(c)
        \/ /\ ~ is_allocated(head)
           /\ clusters = << head >> \/ clusters[1] \notin ClustersOf(e.runs)
           /\ volume.content[clusters[1]] = volume.content[head]

\* ntfs.rs:1054 "the caller should skip the file instead of writing garbage":
\* no deleted file is read from clusters in use again.
NoGarbage ==
    Ntfs /\ volume.allocated # None =>
        \A f \in recovered : ReadFree(mft.entries[f.of + 1], f.clusters)

\* The files counted are all there in the end: write_unique lets none overwrite
\* another, whatever names the deleted records repeat; what is left of a file that
\* could not be written takes the place of none either.
NothingOverwritten ==
    Ntfs => mft.files = Cardinality({ f \in recovered : f.of \notin mft.failed })

\* What the theorems of names suppose: fewer records than write_unique tries names
\* have files of the same name.
Namesakes(v, i) ==
    { j \in 1 .. Len(v.records) :
        v.records[j] # None /\ ~ v.records[j].is_dir /\ v.records[j].name = v.records[i].name }

NamesSuffice ==
    \A v \in Volumes : v.fs = "ntfs" =>
        \A i \in 1 .. Len(v.records) :
            v.records[i] # None => Cardinality(Namesakes(v, i)) < Candidates

\* The n-th directory above a record, by the records on the disk.
RECORD(n) == Entry(volume.records, n)

Above(r, n) ==
    FoldLeft(LAMBDA m, k : IF RECORD(m) = None THEN m ELSE RECORD(m).parent,
             r, [ k \in 1 .. n |-> k ])

\* The names from the root to the record, n of them.
Names(r, n) == [ k \in 1 .. n |-> RECORD(Above(r, n - k)).name ]

\* The record is n steps below the root, and not below itself when it is the root.
IsPathLength(r, n) ==
    /\ Above(r, n) = Root
    /\ \A k \in 1 .. n - 1 : Above(r, k) # Root
    /\ \A k \in 0 .. n - 1 : RECORD(Above(r, k)) # None

\* A file is written where the directories above its record say, inside the
\* filter; only without a filter files of unknown place go to $DELETED.
PathIsChain ==
    \A f \in recovered :
        \/ /\ IsPathLength(f.of, Len(f.path)) /\ f.path = Names(f.of, Len(f.path))
           /\ volume.filter # None => path_within(volume.filter, f.path)
        \/ volume.filter = None /\ f.path[1] = "$DELETED"

\* Record i has a file in use that can be read, n steps below the root and below
\* the filter; each directory on its path has a name and none that of another.
IsRestorable(i, n) ==
    LET e == mft.entries[i]
        path == Names(i - 1, n)
    IN  /\ HasFile(e) /\ e.in_use /\ read_data(e) # None
        /\ IsPathLength(i - 1, n)
        /\ IsInjective(Front(path)) /\ ~ Contains(Front(path), "")
        /\ volume.filter # None => path_within(volume.filter, path)

\* A pass that neither is stopped nor panics recovers each of these files with all its
\* contents, however many others fail: but one whose own read or write fails, and one
\* where a file written before has the name of a directory on its path.
InUseRecovered ==
    pc = "done" /\ volume.opens /\ ~ need_to_stop =>
        \A i \in DOMAIN mft.entries : \A n \in 1 .. MAX_PATH_DEPTH :
            IsRestorable(i, n) =>
                \/ mft.entries[i].record \in mft.failed
                \/ \E f \in recovered :
                      \/ /\ f.of = mft.entries[i].record
                         /\ f.clusters = read_data(mft.entries[i])
                      \/ IsStrictPrefix(f.path, Names(i - 1, n))

\* The tree the NTFS pass writes is the tree of the volume.
TreeRestored == Ntfs => PathIsChain /\ InUseRecovered

\* The clusters of the MFT and of the records read so far.
RecordBytes ==
    UNION { ClusterBytes(c) : c \in ClustersOf(volume.mft_runs) \cup
              UNION { ClustersOf(mft.entries[i].runs) :
                        i \in { j \in DOMAIN mft.entries : mft.entries[j] # None } } }

\* What a pass takes out of the search space the carve never sees: this pass just
\* the clusters of the MFT and of every record read, also when it was stopped or
\* files could not be written.  (A pass that panics takes out nothing.)
RecordsTaken == Ntfs /\ pc = "done" /\ volume.opens => used = RecordBytes

-----------------------------------------------------------------------------
(* Properties of the FAT passes *)

\* The search for directories never gets more than one cluster ahead of what it
\* looks at, however often the buffer is filled: every cluster but the last of
\* the data area is looked at.
SweepSeesAll ==
    Fat =>
        /\ pc \in { "sweep", "entries", "advance" } => sweep.offset - Examined \in { 0, Cluster }
        /\ pc = "done" /\ sweep.end > 0 /\ ~ need_to_stop =>
              \A n \in cluster_at(start_data) .. cluster_at(sweep.end) - 1 :
                  cluster_address(n) \in sweep.examined

\* Cluster n is a directory, follows one or is of a file that was copied.
OfCopiedFile(n) ==
    \/ is_fat_directory(n) \/ is_fat_directory(n - 1)
    \/ \E d \in DOMAIN volume.dirs : \E i \in DOMAIN volume.dirs[d] :
          LET e == volume.dirs[d][i]
          IN  /\ e.kind = "file" /\ n \in e.ino .. e.ino + e.size - 1
              /\ \E f \in recovered : f.of = e.ino

\* What the search takes out of the search space is of a file it has copied, or a
\* directory or, where the buffer was filled again, what follows one.
SweepTakesKnown == Fat => \A a \in used : OfCopiedFile(cluster_at(a))

\* The search for FAT directories passes nothing over and takes out nothing else,
\* though the position and the buffer drift apart when the buffer is filled again.
SweepKeepsPlace == SweepSeesAll /\ SweepTakesKnown

\* The clusters the FAT links from n: k of them, as far as they are in data, and
\* what the FAT says after the last of these.
Links(data, n, k) ==
    FoldLeft(LAMBDA to, i : IF Last(to) \in data THEN Append(to, get_next_cluster(Last(to))) ELSE to,
             << n >>, [ i \in 1 .. k |-> i ])

DataClusters  == 2 .. last_cluster
ChainClusters == { c \in DataClusters : ~ kf_fat_is_eoc(c) }

\* The clusters of a directory and of a file.
ChainOf(n) == Front(Links(ChainClusters, n, KF_FAT_MAX_DIR_CLUSTERS))
FileChain(e) == Front(Links(DataClusters, e.ino, e.size))

RootDirectory ==
    [ path |-> << >>,
      clusters |-> IF volume.root_cluster = 0 THEN << 0 >> ELSE ChainOf(volume.root_cluster) ]

Subdirectory(p, e) == [ path |-> Append(p.path, e.name), clusters |-> ChainOf(e.ino) ]

\* The directories of a directory on the way to the filter or below it.
Subdirectories(p) ==
    { Subdirectory(p, e) :
        e \in { x \in ToSet(EntriesOf(p.clusters)) :
                 /\ IsSubdirectory(x)
                 /\ \/ path_within(volume.filter, Append(p.path, x.name))
                    \/ path_within(Append(p.path, x.name), volume.filter) } }

\* Those reached by at most d steps down from p.
Under(p, d) ==
    FoldLeft(LAMBDA found, k : found \cup UNION { Subdirectories(q) : q \in found },
             { p }, [ k \in 1 .. d |-> k ])

Directories(d) == Under(RootDirectory, d)

FileOf(p, e) == [ path |-> Append(p.path, e.name), of |-> e.ino, clusters |-> FileChain(e) ]

FilesIn(p) ==
    { FileOf(p, e) : e \in { x \in ToSet(EntriesOf(p.clusters)) : x.kind = "file" } }

FilesUnder(p, d) ==
    UNION { FilesIn(q) : q \in { x \in Under(p, d) : path_within(volume.filter, x.path) } }

FilesBelow(d) == FilesUnder(RootDirectory, d)

SameFile(f, x) == f.path = x.path /\ f.of = x.of

\* A file is written from its clusters, or from the first of them when the
\* destination is full.
IsCopy(f, x) ==
    /\ SameFile(f, x)
    /\ \/ f.clusters = x.clusters
       \/ tree.result = "ENOSPC" /\ IsPrefix(f.clusters, x.clusters)

\* The clusters the walk has read or written: of a file with a number also those
\* of the files with this number it has overwritten.
WalkedClusters ==
    ToSet(tree.got)
      \cup (UNION { ToSet(f.clusters) : f \in recovered })
      \cup (UNION { ToSet(x.clusters) : x \in { y \in FilesBelow(KF_FAT_MAX_DIR_DEPTH) :
                       \E f \in recovered : f.nth # 0 /\ SameFile(f, y) } })
      \cup (UNION { ToSet(p.clusters) : p \in Directories(KF_FAT_MAX_DIR_DEPTH + 1) })

\* The walk along the chains of the FAT writes the files below the filter, at
\* their paths and from their clusters, and no other, down to the greatest depth;
\* each of them is there in the end, under its name or with a number, unless the
\* walk is stopped or the destination fails.  It takes out just the clusters it
\* has read or written, so that a file cut short leaves its rest to the carve.
TreeRecovered ==
    Tree =>
        LET below == FilesBelow(KF_FAT_MAX_DIR_DEPTH)
        IN  /\ \A f \in recovered : \E x \in below : IsCopy(f, x)
            /\ used \subseteq UNION { ClusterBytes(n) : n \in WalkedClusters }
            /\ pc = "done" /\ volume.opens /\ tree.result = "OK" =>
                  \A x \in below : \E f \in recovered : SameFile(f, x)

-----------------------------------------------------------------------------
(* The end of every pass *)

\* A chain of the FAT that comes back to itself.
IsCycle(n) ==
    LET links == Links(ChainClusters, n, KF_FAT_MAX_DIR_CLUSTERS)
    IN  Last(links) \in ChainClusters /\ ~ IsInjective(links)

\* A pass ends, also on a volume whose directories contain each other; only a
\* chain of the FAT that never ends makes it overrun the buffer of a directory.
PassEnds == <>(pc \in { "done", "caught" } \/ (pc = "overrun" /\ IsCycle(tree.next)))
=============================================================================
