---------------------------- MODULE MCScanWorker ----------------------------
(***************************************************************************)
(* Instances of ScanWorker for TLC: the option sets of its runs.           *)
(***************************************************************************)
EXTENDS ScanWorker

Opt(pass, disk, p) == [ mode_ext2 |-> 0, keep_corrupted_file |-> 0,
                        paranoid |-> p, fs_pass |-> pass, fs |-> disk ]

\* A pass that watches need_to_stop after one that does not.
CarveOnly == { Opt(FALSE, "other", 1) }

\* Both stop flags in one scan, and the brute-force pass.
Structured == { Opt(TRUE, "NTFS", 1), Opt(TRUE, "FAT", 2) }

=============================================================================
