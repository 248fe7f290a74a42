---------------------------- MODULE NtfsRecover ----------------------------
(***************************************************************************)
(* The NTFS structure pass of ntfs.rs: the records of the MFT are read in  *)
(* batches, the clusters of every record are collected, then the file of   *)
(* each record that has one is written to the destination, and at last the *)
(* clusters collected are taken out of the search space.                   *)
(***************************************************************************)
EXTENDS UnformatState, ByteRanges

CONSTANTS
    NClusters,       \* clusters of the volume
    Batch,           \* MFT records read at once, 256 in the code
    MAX_PATH_DEPTH,
    Candidates,      \* numbered names tried before a file is overwritten, + 1
    Root,            \* MFT_RECORD_ROOT
    KNOWN_MAGICS     \* the contents of a cluster that begin with a known magic

ASSUME NtfsAssumption ==
    { NClusters, Batch, MAX_PATH_DEPTH, Candidates } \subseteq Nat \ {0}

\* The entries parsed, the next one, the ranges used and files, a count; failed, the
\* records whose file could not be read or written, only serves properties.
VARIABLE mft

ntfs_vars == << unformat, mft >>

SPARSE == -1
NoOffset == 0 - NClusters - 1 \* the pair has no offset field

NtfsPC == { "open", "pass1", "pass2", "mark", "done", "caught" }

-----------------------------------------------------------------------------
(* Mapping pairs *)

Run == [ vcn : Nat, cluster : Nat \cup { SPARSE }, length : Nat \ {0} ]

RunOf(vcn, cluster, length) == [ vcn |-> vcn, cluster |-> cluster, length |-> length ]

\* One pair: the run it adds, at the cluster the offsets so far lead to.  A
\* pair of negative length is sparse, one without an offset is not.
AddRun(t, pair) ==
    LET prev == IF pair.offset = NoOffset THEN t.prev ELSE t.prev + pair.offset
    IN  IF t.ended \/ t.bad \/ pair.length = 0 THEN [ t EXCEPT !.ended = TRUE ]
        ELSE IF pair.length > 0 /\ prev < 0 THEN [ t EXCEPT !.bad = TRUE ]
        ELSE IF pair.length > 0
          THEN [ t EXCEPT !.prev = prev, !.vcn = @ + pair.length,
                          !.runs = Append(@, RunOf(t.vcn, prev, pair.length)) ]
        ELSE [ t EXCEPT !.prev = prev, !.vcn = @ - pair.length,
                        !.runs = Append(@, RunOf(t.vcn, SPARSE, 0 - pair.length)) ]

\* None is << >> here: both callers treat a list that is refused as no runs.
parse_mapping_pairs(pairs) ==
    LET t == FoldLeft(AddRun, [ runs |-> << >>, vcn |-> 0, prev |-> 0,
                                ended |-> FALSE, bad |-> FALSE ], pairs)
    IN  IF t.bad THEN << >> ELSE t.runs

ClustersOf(runs) ==
    UNION { runs[i].cluster .. runs[i].cluster + runs[i].length - 1 :
              i \in { j \in DOMAIN runs : runs[j].cluster # SPARSE } }

\* The clusters of the runs in the order of the file.
Expand(runs) ==
    FlattenSeq([ i \in DOMAIN runs |->
        [ k \in 1 .. runs[i].length |->
            IF runs[i].cluster = SPARSE THEN SPARSE ELSE runs[i].cluster + k - 1 ] ])

-----------------------------------------------------------------------------
(***************************************************************************)
(* Records.  A record on the disk has the mapping pairs of its data; the   *)
(* entry of it keeps the runs, and its number.  data is "none", "resident" *)
(* "runs" or "compressed", and size counts clusters.                       *)
(***************************************************************************)
parse_mft_record(rec, record_number) ==
    IF rec = None THEN None
    ELSE LET runs == parse_mapping_pairs(rec.pairs)
         IN  [ record |-> record_number, in_use |-> rec.in_use, is_dir |-> rec.is_dir,
               parent |-> rec.parent, name |-> rec.name, size |-> rec.size, runs |-> runs,
               data |-> IF rec.data \in { "runs", "compressed" } /\ runs = << >>
                          THEN "none" ELSE rec.data ]

\* ClusterBitmap: without the $Bitmap file nothing is known to be free.
is_allocated(c) ==
    \/ volume.allocated = None
    \/ c \notin 0 .. NClusters - 1
    \/ c \in volume.allocated

cluster_to_offset(c) == PartOffset + c * Cluster

\* In the scan area, and not on a bad sector.
Readable(clusters) ==
    \A i \in DOMAIN clusters :
        clusters[i] # SPARSE => clusters[i] \in (0 .. NClusters - 1) \ volume.bad

Stored(clusters) ==
    FlattenSeq([ i \in DOMAIN clusters |-> IF clusters[i] = SPARSE THEN << >> ELSE << clusters[i] >> ])

\* read_data: the clusters a file is read from, None if one of them cannot be
\* read.  A compressed file is read whole and without its holes.
read_data(e) ==
    LET all  == Expand(e.runs)
        want == CASE e.data = "resident" -> << >>
                  [] e.data = "compressed" -> Stored(all)
                  [] OTHER -> SubSeq(all, 1, IF e.size < Len(all) THEN e.size ELSE Len(all))
    IN  IF Readable(want) THEN want ELSE None

-----------------------------------------------------------------------------
(* Paths *)

Entry(entries, n) ==
    IF n + 1 \in DOMAIN entries THEN entries[n + 1] ELSE None

\* One turn of the loop of resolve_dir_path.
UpUnreversed(entries, s) ==
    LET e == Entry(entries, s.cur)
    IN  IF s.broken \/ s.cur = Root THEN s
        ELSE IF e = None \/ e.name = "" \/ Contains(s.parts, e.name)
          THEN [ s EXCEPT !.broken = TRUE ]
        ELSE [ s EXCEPT !.parts = Append(@, e.name), !.cur = e.parent ]

Up(entries, s) ==
    LET e == Entry(entries, s.cur)
    IN  IF s.broken \/ s.cur = Root THEN s
        ELSE IF e = None \/ e.name = "" \/ Contains(s.parts, e.name)
          THEN [ s EXCEPT !.broken = TRUE ]
        ELSE [ s EXCEPT !.parts = << e.name >> \o @, !.cur = e.parent ]

resolve_dir_path(entries, record) ==
    LET s == FoldLeft(LAMBDA t, k : Up(entries, t),
                      [ cur |-> record, parts |-> << >>, broken |-> FALSE ],
                      [ k \in 1 .. MAX_PATH_DEPTH - 1 |-> k ])
    IN  IF s.cur = Root /\ ~ s.broken THEN s.parts ELSE None

-----------------------------------------------------------------------------
(* A deleted file whose clusters are in use again *)

runs_are_stale(runs) == \E c \in ClustersOf(runs) : is_allocated(c)

\* At most one cluster, the first, and only if its run is free throughout.
intact_head(e) ==
    LET r == e.runs[1]
    IN  IF r.cluster = SPARSE \/ (\E c \in ClustersOf(<< r >>) : is_allocated(c)) THEN None
        ELSE IF r.cluster \in volume.bad THEN None
        ELSE r.cluster

\* The free clusters are tried first, then the allocated ones; one that cannot be
\* read is passed over.
find_seeded_copy(head, runs) ==
    LET alike  == { c \in (0 .. NClusters - 1) \ (ClustersOf(runs) \cup volume.bad) :
                      volume.content[c] = volume.content[head] }
        unused == { c \in alike : ~ is_allocated(c) }
        first  == IF unused # {} THEN unused ELSE alike
    IN  IF first = {} THEN None ELSE CHOOSE c \in first : \A d \in first : c <= d

read_from(start, size) == [ k \in 1 .. size |-> start + k - 1 ]

stale_rebuild(e) ==
    LET head == intact_head(e)
        copy == IF head = None THEN None ELSE find_seeded_copy(head, e.runs)
    IN  IF head = None THEN None
        ELSE IF copy # None /\ Readable(read_from(copy, e.size)) THEN read_from(copy, e.size)
        ELSE IF volume.content[head] \in KNOWN_MAGICS THEN << head >>
        ELSE None

IsStaleUnlessHead(e) ==
    /\ volume.allocated # None /\ ~ e.in_use
    /\ e.data \in { "runs", "compressed" } /\ is_allocated(e.runs[1].cluster)

IsStale(e) ==
    /\ volume.allocated # None /\ ~ e.in_use
    /\ e.data \in { "runs", "compressed" } /\ runs_are_stale(e.runs)

-----------------------------------------------------------------------------
(* The destination *)

IsFile(path) == \E f \in recovered : f.path = path /\ f.nth = 0
IsDirectory(path) == \E f \in recovered : IsStrictPrefix(path, f.path)

\* The number of the name write_unique takes.  When all are taken, or a file
\* is where a directory is to be made, see Written.
UniqueAlwaysFirst(path) == 0

Unique(path) ==
    LET free == { n \in 1 .. Candidates - 1 :
                    ~ \E f \in recovered : f.path = path /\ f.nth = n }
    IN  IF ~ IsFile(path) /\ ~ IsDirectory(path) THEN 0
        ELSE IF free = {} THEN 0
        ELSE CHOOSE n \in free : \A m \in free : n <= m

\* create_dir_all fails when a file has the name of one of the directories,
\* and a directory that has the name of the file cannot be overwritten.
Writable(path) ==
    /\ \A n \in 1 .. Len(path) - 1 : ~ IsFile(SubSeq(path, 1, n))
    /\ Unique(path) = 0 => ~ IsDirectory(path)

Written(path, e, clusters) ==
    LET n == Unique(path)
    IN  recovered' = { f \in recovered : f.path # path \/ f.nth # n }
                         \cup { File(path, n, e.record, clusters) }

-----------------------------------------------------------------------------
(* recover *)

NtfsInit ==
    /\ volume.fs = "ntfs" => pc = "open"
    /\ mft = [ entries |-> << >>, next |-> 0, ranges |-> << >>, files |-> 0,
              failed |-> {} ]

ByteRangeOf(r) == [ offset |-> cluster_to_offset(r.cluster), size |-> r.length * Cluster ]

RangesOf(runs) ==
    FlattenSeq([ i \in DOMAIN runs |->
        IF runs[i].cluster = SPARSE THEN << >> ELSE << ByteRangeOf(runs[i]) >> ])

EntryRanges(e) == IF e = None THEN << >> ELSE RangesOf(e.runs)

\* NtfsVolume::open: the boot sector, the $MFT record, the $Bitmap.
open ==
    /\ pc = "open"
    /\ pc' = IF volume.opens THEN "pass1" ELSE "done"
    /\ UNCHANGED << volume, need_to_stop, list_search_space, used, recovered, mft >>

\* Pass 1, one batch.
ReadBatch ==
    LET n     == IF Len(volume.records) - mft.next < Batch
                   THEN Len(volume.records) - mft.next ELSE Batch
        batch == [ k \in 1 .. n |-> parse_mft_record(volume.records[mft.next + k], mft.next + k - 1) ]
    IN  /\ pc = "pass1" /\ ~ need_to_stop
        /\ mft.next < Len(volume.records)
        /\ mft' = [ mft EXCEPT !.entries = @ \o batch, !.next = @ + n,
                               !.ranges = @ \o FlattenSeq([ k \in 1 .. n |-> EntryRanges(batch[k]) ]) ]
        /\ UNCHANGED unformat

\* The end of pass 1, or the stop of it.
CollectRanges ==
    /\ pc = "pass1"
    /\ need_to_stop \/ mft.next = Len(volume.records)
    /\ pc' = "pass2"
    /\ mft' = [ mft EXCEPT !.next = 1, !.ranges = merge_ranges(@ \o RangesOf(volume.mft_runs)) ]
    /\ UNCHANGED << volume, need_to_stop, list_search_space, used, recovered >>

HasFile(e) ==
    /\ e # None
    /\ ~ e.is_dir /\ e.name # "" /\ e.name # "$"
    /\ e.data # "none" /\ e.size > 0

\* Where the file of a record goes: under $DELETED when its path is broken.
PathOf(e) ==
    LET dir == resolve_dir_path(mft.entries, e.parent)
    IN  IF dir = None THEN << "$DELETED", e.name >> ELSE Append(dir, e.name)

Wanted(e) ==
    volume.filter # None =>
        /\ resolve_dir_path(mft.entries, e.parent) # None
        /\ path_within(volume.filter, PathOf(e))

Contents(e) == IF IsStale(e) THEN stale_rebuild(e) ELSE read_data(e)

\* path_within cuts the path at the length of the filter, in bytes: it panics when
\* that is inside a character of the path.
SplitsCharacter(e) ==
    /\ HasFile(e) /\ volume.filter # None
    /\ resolve_dir_path(mft.entries, e.parent) # None
    /\ PathOf(e) \in volume.splits

Writes(e) == HasFile(e) /\ Wanted(e) /\ Contents(e) # None /\ Writable(PathOf(e))

AtRecord == pc = "pass2" /\ ~ need_to_stop /\ mft.next <= Len(mft.entries)

Current == mft.entries[mft.next]

\* Pass 2, one record: written, or passed over.
RecoverRecord ==
    /\ AtRecord /\ ~ SplitsCharacter(Current)
    /\ mft' = [ mft EXCEPT !.next = @ + 1, !.files = @ + (IF Writes(Current) THEN 1 ELSE 0) ]
    /\ IF Writes(Current) THEN Written(PathOf(Current), Current, Contents(Current))
       ELSE UNCHANGED recovered
    /\ UNCHANGED << volume, pc, need_to_stop, list_search_space, used >>

\* A read or a write fails: nothing is left of the file, or what was written, the
\* last of its clusters perhaps in part.  The next record follows.
RecoverFails ==
    /\ AtRecord /\ ~ SplitsCharacter(Current) /\ Writes(Current) /\ MayFail
    /\ mft' = [ mft EXCEPT !.next = @ + 1, !.failed = @ \cup { Current.record } ]
    /\ \/ UNCHANGED recovered
       \/ \E n \in 0 .. Len(Contents(Current)) :
             Written(PathOf(Current), Current, SubSeq(Contents(Current), 1, n))
    /\ UNCHANGED << volume, pc, need_to_stop, list_search_space, used >>

\* ntfs_unformat_cb catches the panic and returns 0: the files written stay, the
\* records that follow are not looked at and no range is marked.
PathPanics ==
    /\ AtRecord /\ SplitsCharacter(Current)
    /\ pc' = "caught"
    /\ UNCHANGED << volume, need_to_stop, list_search_space, used, recovered, mft >>

EndOfRecordsMarksNothing ==
    /\ pc = "pass2"
    /\ need_to_stop \/ mft.next > Len(mft.entries)
    /\ pc' = IF need_to_stop THEN "done" ELSE "mark"
    /\ UNCHANGED << volume, need_to_stop, list_search_space, used, recovered, mft >>

EndOfRecords ==
    /\ pc = "pass2"
    /\ need_to_stop \/ mft.next > Len(mft.entries)
    /\ pc' = "mark"
    /\ UNCHANGED << volume, need_to_stop, list_search_space, used, recovered, mft >>

\* ntfs_unformat_cb hands the ranges to kaifuku_mark_used_ranges, one by one.
mark_used_ranges ==
    /\ pc = "mark"
    /\ IF mft.ranges = << >>
         THEN pc' = "done" /\ UNCHANGED << mft, list_search_space, used >>
         ELSE LET r == Head(mft.ranges)
              IN  /\ TakeOut(r.offset, r.offset + r.size - 1)
                  /\ mft' = [ mft EXCEPT !.ranges = Tail(@) ]
                  /\ UNCHANGED pc
    /\ UNCHANGED << volume, need_to_stop, recovered >>

NtfsStep ==
    \/ open \/ ReadBatch \/ CollectRanges \/ RecoverRecord \/ RecoverFails \/ PathPanics
    \/ EndOfRecords \/ mark_used_ranges
=============================================================================
