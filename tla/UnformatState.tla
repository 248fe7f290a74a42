--------------------------- MODULE UnformatState ---------------------------
(***************************************************************************)
(* What the passes over the structure of a file system share: the volume,  *)
(* the search space they take clusters out of, the files they write and    *)
(* the request to stop.  A pass has one variable of its own besides.       *)
(*                                                                         *)
(* The data of a volume is counted in clusters; the search space in bytes. *)
(* Names that differ only in the case of their letters are one name.       *)
(***************************************************************************)
EXTENDS SearchSpaceOps, FiniteSets

CONSTANTS
    PartOffset, PartSize, \* the partition handed to the scan, in bytes
    SectorSize,
    UINT64,               \* 2^64
    Cluster,              \* the cluster size
    Volumes,              \* the volumes a pass may be run on
    MayStop,              \* BOOLEAN: the user may ask the scan to stop
    MayFail,              \* BOOLEAN: writes to the destination and reads may fail
    None

ASSUME VolumeSizesAssumption ==
    /\ PartOffset \in Nat /\ PartSize \in Nat \ {0}
    /\ Cluster \in Nat /\ Cluster > 1
    /\ SectorSize \in Nat \ {0} /\ Cluster % SectorSize = 0
    /\ UINT64 \in Nat \ {0}
    /\ { MayStop, MayFail } \subseteq BOOLEAN

VARIABLES
    volume,
    pc,
    need_to_stop,       \* also ctx->stop_requested, which kaifuku_stop sets with it
    list_search_space,
    used,               \* the bytes the pass has taken out of the search space
    recovered           \* the files on the destination

unformat == << volume, pc, need_to_stop, list_search_space, used, recovered >>

\* A file on the destination: its path, the number a clash of names added to it
\* and the clusters its contents were read from.
File(path, nth, of, clusters) == [ path |-> path, nth |-> nth, of |-> of, clusters |-> clusters ]

UnformatInit ==
    /\ volume \in Volumes
    /\ need_to_stop = FALSE
    /\ list_search_space = init_search_space(PartOffset, PartSize, PartOffset + PartSize)
    /\ used = {}
    /\ recovered = {}

kaifuku_stop ==
    /\ MayStop /\ pc \notin { "done", "caught" } /\ ~ need_to_stop
    /\ need_to_stop' = TRUE
    /\ UNCHANGED << volume, pc, list_search_space, used, recovered >>

\* Bytes are taken out of the search space because a file was recovered.
TakeOut(first, last) ==
    /\ list_search_space' = del_search_space(list_search_space, first, last)
    /\ used' = used \cup (first .. last)

\* kf_path_is_within, path_within: whole components are compared.  What else the
\* one of ntfs.rs may do, see PathPanics.
path_within(parent, child) == IsPrefix(parent, child)
=============================================================================
