------------------------------ MODULE MCScanApp ------------------------------
(***************************************************************************)
(* Instances of ScanApp for TLC: the option sets of its runs.              *)
(***************************************************************************)
EXTENDS ScanApp

CarveOnly ==
    { [ mode_ext2 |-> 0, keep_corrupted_file |-> 0, paranoid |-> 1,
        fs_pass |-> FALSE, fs |-> "other" ] }
=============================================================================
