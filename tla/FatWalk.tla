------------------------------ MODULE FatWalk ------------------------------
(***************************************************************************)
(* fat_unformat_dir: the tree of directories of a FAT volume is walked     *)
(* along the chains of the FAT, and the files below the filter are copied  *)
(* cluster by cluster.  The recursion is a stack, the top of it first.     *)
(***************************************************************************)
EXTENDS UnformatState

CONSTANTS
    KF_FAT_MAX_DIR_DEPTH,
    KF_FAT_MAX_DIR_CLUSTERS,
    EOC                      \* the least end-of-chain mark

ASSUME FatWalkAssumption ==
    { KF_FAT_MAX_DIR_DEPTH, KF_FAT_MAX_DIR_CLUSTERS, EOC } \subseteq Nat \ {0}

VARIABLE tree \* the stack of directories and the result of the pass

walk_vars == << unformat, tree >>

Results == { "OK", "STOP", "EACCES", "ENOSPC" }

FirstByte(n) == volume.start_data + (n - 2) * Cluster
last_cluster == ((PartSize - volume.start_data) % UINT64) \div Cluster + 2

WalkInit ==
    /\ volume.fs = "fatdir" => pc = "boot"
    /\ tree = [ stack |-> << >>, result |-> "OK", path |-> << >>, next |-> 0,
                got |-> << >>, left |-> 0 ]

-----------------------------------------------------------------------------
(* Chains of the FAT *)

get_next_cluster(n) == IF n \in DOMAIN volume.fat THEN volume.fat[n] ELSE 0

kf_fat_is_eoc(n) == n >= EOC

InData(n) == n >= 2 /\ n <= last_cluster
InChain(n) == InData(n) /\ ~ kf_fat_is_eoc(n)

\* The first loop of kf_fat_read_dir_chain, which sizes the buffer: the length
\* of the chain, KF_FAT_MAX_DIR_CLUSTERS at most.
ChainLengthShort(n) == IF InChain(n) THEN 1 ELSE 0

ChainLength(n) ==
    FoldLeft(LAMBDA t, k : IF InChain(t.next)
                             THEN [ length |-> t.length + 1, next |-> get_next_cluster(t.next) ]
                             ELSE t,
             [ length |-> 0, next |-> n ],
             [ k \in 1 .. KF_FAT_MAX_DIR_CLUSTERS |-> k ]).length

\* dir_fat_aux: the entries up to the end marker.
EntriesOf(clusters) ==
    LET all == FlattenSeq([ i \in DOMAIN clusters |->
                 IF clusters[i] \in DOMAIN volume.dirs THEN volume.dirs[clusters[i]]
                 ELSE << [ name |-> "end", kind |-> "end", ino |-> 0, size |-> 0 ] >> ])
        end == SelectInSeq(all, LAMBDA e : e.kind = "end")
    IN  IF end = 0 THEN all ELSE SubSeq(all, 1, end - 1)

-----------------------------------------------------------------------------
(* Paths *)

paths_relatedOneWay(a, b) == path_within(b, a)

kf_paths_related(a, b) == path_within(a, b) \/ path_within(b, a)

\* kf_fat_recover_file: a name in use gets the number of the first cluster, which
\* an empty file has too: 0 is no number.
NameFor(path, e) ==
    IF \E f \in recovered : f.path = path \/ IsStrictPrefix(path, f.path) THEN << path, e.ino + 1 >>
    ELSE << path, 0 >>

CannotCreate(path) ==
    \E f \in recovered : f.nth = 0 /\ IsStrictPrefix(f.path, path)

-----------------------------------------------------------------------------
(* fat_unformat_dir, kf_fat_walk_dir *)

Frame(path, clusters) == [ path |-> path, entries |-> EntriesOf(clusters) ]

Top == Head(tree.stack)
Entry1 == Head(Top.entries)
Below == << [ Top EXCEPT !.entries = Tail(@) ] >> \o Tail(tree.stack)

\* The geometry of the boot sector; then the root directory, on FAT12 and FAT16
\* from the sectors in front of the data area.
kf_fat_boot_geometry ==
    /\ pc = "boot"
    /\ IF ~ volume.opens THEN pc' = "done" /\ UNCHANGED << list_search_space, tree >>
       ELSE /\ list_search_space' = update_blocksize(
                  del_search_space(list_search_space, PartOffset, volume.start_data - 1),
                  Cluster, volume.start_data)
            /\ IF volume.root_cluster = 0
                 THEN /\ tree' = [ tree EXCEPT !.stack = << Frame(<< >>, << 0 >>) >> ]
                      /\ pc' = "walk"
                 ELSE /\ tree' = [ tree EXCEPT !.next = volume.root_cluster,
                                               !.left = ChainLength(volume.root_cluster) ]
                      /\ pc' = "dir"
    /\ UNCHANGED << volume, need_to_stop, used, recovered >>

AtEntry == pc = "walk" /\ tree.stack # << >> /\ Top.entries # << >> /\ ~ need_to_stop

IsSubdirectory(e) ==
    e.kind = "dir" /\ e.name # "." /\ e.name # ".." /\ e.ino # 0

\* A subdirectory on the way to the filter or below it.
EntersEntry ==
    /\ IsSubdirectory(Entry1)
    /\ kf_paths_related(Append(Top.path, Entry1.name), volume.filter)

EnterDirectory ==
    /\ AtEntry /\ EntersEntry
    /\ pc' = "dir"
    /\ tree' = [ tree EXCEPT !.path = Append(Top.path, Entry1.name), !.next = Entry1.ino,
                             !.left = ChainLength(Entry1.ino), !.got = << >>, !.stack = Below ]
    /\ UNCHANGED << volume, need_to_stop, list_search_space, used, recovered >>

\* Each cluster is taken out of the search space once it is read or written.
TakeOutRest(n) == TakeOut(FirstByte(n), FirstByte(n) + tree.left * Cluster - 1)

TakeOutCluster(n) == TakeOut(FirstByte(n), FirstByte(n) + Cluster - 1)

\* kf_fat_read_dir_chain, second loop: nothing stops it at the end of the
\* buffer, where it writes on.
ReadDirCluster ==
    /\ pc = "dir" /\ InChain(tree.next)
    /\ IF tree.left = 0
         THEN pc' = "overrun" /\ UNCHANGED << tree, list_search_space, used >>
         ELSE /\ TakeOutCluster(tree.next)
              /\ tree' = [ tree EXCEPT !.next = get_next_cluster(@), !.left = @ - 1,
                                       !.got = Append(@, tree.next) ]
              /\ UNCHANGED pc
    /\ UNCHANGED << volume, need_to_stop, recovered >>

\* The directory read is walked, unless it is too deep or has no cluster.
Descend(depth) == depth <= KF_FAT_MAX_DIR_DEPTH

WalkDirectory ==
    /\ pc = "dir" /\ ~ InChain(tree.next)
    /\ pc' = "walk"
    /\ tree' = [ tree EXCEPT !.stack =
           IF tree.got # << >> /\ Descend(Len(@)) THEN << Frame(tree.path, tree.got) >> \o @
           ELSE @ ]
    /\ UNCHANGED << volume, need_to_stop, list_search_space, used, recovered >>

WantedFile == Entry1.kind = "file" /\ path_within(volume.filter, Top.path)

\* kf_fat_recover_file
CreateFile ==
    /\ AtEntry /\ WantedFile
    /\ \/ /\ CannotCreate(Append(Top.path, Entry1.name)) \/ MayFail
          /\ tree' = [ tree EXCEPT !.stack = << >>, !.result = "EACCES" ]
          /\ UNCHANGED pc
       \/ /\ ~ CannotCreate(Append(Top.path, Entry1.name))
          /\ tree' = [ tree EXCEPT !.path = Append(Top.path, Entry1.name), !.got = << >>,
                          !.next = Entry1.ino, !.left = Entry1.size ]
          /\ pc' = "file"
    /\ UNCHANGED << volume, need_to_stop, list_search_space, used, recovered >>

WriteCluster ==
    /\ pc = "file" /\ InData(tree.next) /\ tree.left > 0
    /\ TakeOutCluster(tree.next)
    /\ tree' = [ tree EXCEPT !.next = get_next_cluster(@), !.left = @ - 1,
                             !.got = Append(@, tree.next) ]
    /\ UNCHANGED << volume, pc, need_to_stop, recovered >>

CloseFile(result, stack) ==
    LET to == NameFor(tree.path, Entry1)
    IN  /\ recovered' = { f \in recovered : << f.path, f.nth >> # to }
                             \cup { File(to[1], to[2], Entry1.ino, tree.got) }
        /\ tree' = [ tree EXCEPT !.result = result, !.stack = stack ]
        /\ pc' = "walk"
        /\ UNCHANGED << volume, need_to_stop, list_search_space, used >>

FileWritten ==
    /\ pc = "file" /\ ~ (InData(tree.next) /\ tree.left > 0)
    /\ CloseFile("OK", Below)

NoSpace ==
    /\ pc = "file" /\ InData(tree.next) /\ tree.left > 0
    /\ MayFail
    /\ CloseFile("ENOSPC", << >>)

PassOver ==
    /\ AtEntry /\ ~ WantedFile /\ ~ EntersEntry
    /\ tree' = [ tree EXCEPT !.stack = Below ]
    /\ UNCHANGED unformat

\* The end of a directory.
Return ==
    /\ pc = "walk" /\ tree.stack # << >> /\ Top.entries = << >>
    /\ tree' = [ tree EXCEPT !.stack = Tail(@) ]
    /\ UNCHANGED unformat

\* need_to_stop is looked at before each entry.
StopWalk ==
    /\ pc = "walk" /\ tree.stack # << >> /\ Top.entries # << >> /\ need_to_stop
    /\ tree' = [ tree EXCEPT !.stack = << >>, !.result = "STOP" ]
    /\ UNCHANGED unformat

WalkEnds ==
    /\ pc = "walk" /\ tree.stack = << >>
    /\ pc' = "done"
    /\ UNCHANGED << volume, need_to_stop, list_search_space, used, recovered, tree >>

WalkStep ==
    \/ kf_fat_boot_geometry \/ EnterDirectory \/ ReadDirCluster \/ WalkDirectory
    \/ CreateFile \/ WriteCluster \/ FileWritten \/ NoSpace
    \/ PassOver \/ Return \/ StopWalk \/ WalkEnds
=============================================================================
