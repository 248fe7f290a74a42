---------------------------- MODULE FatUnformat ----------------------------
(***************************************************************************)
(* fat_unformat: the whole data area of a FAT volume is searched for       *)
(* clusters that hold a directory, and the files a directory lists are     *)
(* copied as if their clusters followed one another; the FAT is not read.  *)
(***************************************************************************)
EXTENDS UnformatState

CONSTANTS
    WindowClusters,  \* clusters examined before the read buffer is filled again
    ReadClusters     \* clusters dir_fat_aux may read a directory from

ASSUME FatUnformatAssumption == { WindowClusters, ReadClusters } \subseteq Nat \ {0}

\* The position, the address of the buffer and the index in it; the entries of
\* the directory being copied and how many are done.  The addresses examined and
\* the files cut short by a full destination only serve properties.
VARIABLE sweep

fat_vars == << unformat, sweep >>

start_data == volume.start_data
cluster_address(n) == start_data + (n - 2) * Cluster
cluster_at(a) == 2 + (a - start_data) \div Cluster

\* Both sides of the subtraction are in bytes, one from the start of the
\* partition and one from the start of the disk: it may wrap around.
no_of_cluster == ((PartSize - start_data) % UINT64) \div Cluster

FatInit ==
    /\ volume.fs = "fat" => pc = "geometry"
    /\ sweep = [ offset |-> 0, end |-> 0, buffer |-> 0, k |-> 0, dir |-> << >>,
                 nbr |-> 0, dir_inode |-> 0, examined |-> {}, cut |-> {} ]

\* What dir_fat_aux lists from the buffer at address a: up to the end marker,
\* through the clusters that follow when there is none.
Listing(n) == IF n \in DOMAIN volume.dirs THEN volume.dirs[n] ELSE << >>

dir_fat_aux(n) ==
    LET all == FlattenSeq([ k \in 1 .. ReadClusters |-> Listing(n + k - 1) ])
        end == SelectInSeq(all, LAMBDA e : e.kind = "end")
    IN  IF end = 0 THEN all ELSE SubSeq(all, 1, end - 1)

is_fat_directory(n) ==
    Len(Listing(n)) > 1 /\ Listing(n)[1].name = "." /\ Listing(n)[2].name = ".."

-----------------------------------------------------------------------------
\* pfind_sectors_per_cluster, then the comparison of a start in sectors with an
\* offset in bytes, then the search space of the data area.
Geometry ==
    /\ pc = "geometry"
    /\ IF start_data = None \/ start_data \div SectorSize <= PartOffset
         THEN pc' = "done" /\ UNCHANGED << list_search_space, sweep >>
         ELSE LET l == update_blocksize(
                    del_search_space(list_search_space, PartOffset, start_data - 1),
                    Cluster, start_data)
              IN  /\ list_search_space' = l
                  /\ IF l = << >> THEN pc' = "done" /\ UNCHANGED sweep
                     ELSE /\ sweep' = [ sweep EXCEPT !.offset = l[1].start, !.end = l[Len(l)].end,
                                                     !.buffer = l[1].start ]
                          /\ pc' = "sweep"
    /\ UNCHANGED << volume, need_to_stop, used, recovered >>

Examined == sweep.buffer + sweep.k * Cluster

\* The cluster in the buffer is looked at.  A directory takes the cluster at
\* the position out of the search space.
LookAt ==
    LET n   == cluster_at(Examined)
        dir == IF is_fat_directory(n) THEN dir_fat_aux(n) ELSE << >>
    IN  /\ pc = "sweep" /\ sweep.offset < sweep.end
        /\ sweep' = [ sweep EXCEPT !.dir = dir, !.nbr = 0, !.dir_inode = 0,
                                   !.examined = @ \cup { Examined } ]
        /\ pc' = IF dir = << >> THEN "advance" ELSE "entries"
        /\ IF dir = << >> THEN UNCHANGED << list_search_space, used >>
           ELSE TakeOut(sweep.offset, sweep.offset + Cluster - 1)
        /\ UNCHANGED << volume, need_to_stop, recovered >>

file_start(e) == cluster_address(e.ino)
file_end(e) == file_start(e) + e.size * Cluster - 1

\* An entry that is out of the volume or out of place ends the directory.
Implausible(e) ==
    \/ e.ino = 1 \/ e.ino >= no_of_cluster + 2
    \/ e.kind = "dir" /\ e.name = ".." /\ sweep.nbr # 1
    \/ e.kind = "dir" /\ e.name # ".." /\ e.ino = 0
    \/ e.kind = "dir" /\ e.name = "." /\ sweep.nbr # 0
    \/ e.kind = "file" /\ (file_end(e) >= PartOffset + PartSize \/ e.ino = 0)

\* fat_copy_file: clusters in a row, up to the size of the file.
Copied(e) == [ k \in 1 .. Cardinality({ j \in 1 .. e.size : e.ino + j - 1 <= no_of_cluster + 2 })
                 |-> e.ino + k - 1 ]

\* A name that is taken gets the number of the first cluster; a file that has
\* this name too is overwritten.
CopyName(e) ==
    LET path == << sweep.dir_inode, e.name >>
    IN  IF \E f \in recovered : f.path = path THEN << path, e.ino >> ELSE << path, 0 >>

\* The first n clusters of the file are written.
CopyOf(e, n) == File(CopyName(e)[1], CopyName(e)[2], e.ino, SubSeq(Copied(e), 1, n))

CopyFile(e, n) ==
    recovered' = { f \in recovered : << f.path, f.nth >> # CopyName(e) } \cup { CopyOf(e, n) }

\* One entry of the directory.  The clusters of a file are taken out when it was
\* copied whole.
NextEntry ==
    LET e == Head(sweep.dir)
        stop == Implausible(e)
        rest == IF stop THEN << >> ELSE Tail(sweep.dir)
        whole == Len(Copied(e))
        Cut(cut) == sweep' = [ sweep EXCEPT !.dir = rest, !.nbr = @ + 1, !.cut = cut,
                                 !.dir_inode = IF ~ stop /\ e.name = "." THEN e.ino ELSE @ ]
    IN  /\ pc = "entries"
        /\ pc' = IF rest = << >> THEN "advance" ELSE "entries"
        /\ \/ /\ e.kind = "file" /\ ~ stop \* CP_OK
              /\ CopyFile(e, whole) /\ TakeOut(file_start(e), file_end(e))
              /\ Cut(sweep.cut \ { CopyOf(e, whole) })
           \/ /\ e.kind = "file" /\ ~ stop /\ MayFail \* CP_NOSPACE
              /\ \E n \in 0 .. whole - 1 :
                    CopyFile(e, n) /\ Cut(sweep.cut \cup { CopyOf(e, n) })
              /\ UNCHANGED << list_search_space, used >>
           \/ /\ e.kind = "dir" \/ stop \/ MayFail \* CP_CREATE_FAILED
              /\ Cut(sweep.cut)
              /\ UNCHANGED << recovered, list_search_space, used >>
        /\ UNCHANGED << volume, need_to_stop >>

\* The buffer is filled again from the position, which is not increased yet;
\* need_to_stop is looked at then only.
RefillLags(s) == [ s EXCEPT !.k = 0, !.buffer = @ + (WindowClusters - 1) * Cluster,
                            !.offset = @ + Cluster ]

Refill(s) == [ s EXCEPT !.k = 0, !.buffer = s.offset, !.offset = @ + Cluster ]

Advance ==
    /\ pc = "advance"
    /\ IF sweep.k + 1 < WindowClusters
         THEN /\ sweep' = [ sweep EXCEPT !.k = @ + 1, !.offset = @ + Cluster ]
              /\ pc' = "sweep"
         ELSE /\ sweep' = Refill(sweep)
              /\ pc' = IF need_to_stop THEN "done" ELSE "sweep"
    /\ UNCHANGED << volume, need_to_stop, list_search_space, used, recovered >>

SweepEnds ==
    /\ pc = "sweep" /\ sweep.offset >= sweep.end
    /\ pc' = "done"
    /\ UNCHANGED << volume, need_to_stop, list_search_space, used, recovered, sweep >>

FatStep == Geometry \/ LookAt \/ NextEntry \/ Advance \/ SweepEnds
=============================================================================
