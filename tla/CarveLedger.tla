---------------------------- MODULE CarveLedger ----------------------------
(***************************************************************************)
(* What the carve promises about the bytes of the disk, whatever it finds  *)
(* there: each is free to be carved, held by the file in progress or part  *)
(* of one recovered file.  Bytes are taken from the free ones only, and    *)
(* the end of the file in progress settles all it holds at once.           *)
(***************************************************************************)
CONSTANT Disk

VARIABLES
    free,   \* the search space
    held,   \* the file in progress
    files   \* the recovered files, each the set of its bytes

ledger == << free, held, files >>

LedgerTypeOK ==
    /\ free \subseteq Disk
    /\ held \subseteq Disk
    /\ files \subseteq SUBSET Disk

LedgerInit ==
    /\ free \in SUBSET Disk
    /\ held = {}
    /\ files = {}

\* file_block_append
Take(S) ==
    /\ S # {}
    /\ held' = held \cup S
    /\ free' = free \ S
    /\ UNCHANGED files

\* file_finish2 of a file that is kept: what it does not need is free again.
Finish(S) ==
    /\ S # {}
    /\ files' = files \cup { S }
    /\ free' = free \cup (held \ S)
    /\ held' = {}

\* file_finish2 of a file that is rejected, file_recovery_aborted.
Release ==
    /\ held # {}
    /\ free' = free \cup held
    /\ held' = {}
    /\ UNCHANGED files

LedgerNext ==
    \/ \E S \in SUBSET free : Take(S)
    \/ \E S \in SUBSET held : Finish(S)
    \/ Release

LedgerSpec == LedgerInit /\ [][LedgerNext]_ledger

-----------------------------------------------------------------------------
(* Properties *)

Accounted == free \cup held \cup UNION files

\* No byte is in two places, and no two recovered files share one.
NoByteShared ==
    /\ free \cap held = {}
    /\ (free \cup held) \cap UNION files = {}
    /\ \A f, g \in files : f # g => f \cap g = {}

\* A recovered file is never given up, and no byte of the search space the
\* pass began with is lost or gained.
LedgerKeeps == [][ files \subseteq files' /\ Accounted' = Accounted ]_ledger
=============================================================================
