----------------------------- MODULE ScanPasses -----------------------------
(***************************************************************************)
(* The pass sequence of the scan engine: the statuses of photorec.c, the   *)
(* step from one to the next (status_inc) and what each pass can return,   *)
(* as run by the loop of kaifuku_ffi.c.                                    *)
(***************************************************************************)
EXTENDS Integers

Status == { "UNFORMAT", "FIND_OFFSET", "EXT2_ON", "EXT2_ON_BF",
            "EXT2_ON_SAVE_EVERYTHING", "EXT2_OFF", "EXT2_OFF_BF",
            "EXT2_OFF_SAVE_EVERYTHING", "QUIT" }

PStatus == { "OK", "STOP", "EACCES", "ENOSPC" }

(***************************************************************************)
(* What a scan is started with.  kaifuku_init leaves mode_ext2 and         *)
(* keep_corrupted_file at 0; the setters choose paranoid and fs_pass; fs   *)
(* is the file system the partition turns out to hold.                     *)
(***************************************************************************)
Options == [ mode_ext2 : {0}, keep_corrupted_file : {0}, paranoid : {1, 2},
             fs_pass : BOOLEAN, fs : {"FAT", "NTFS", "other"} ]

\* What follows the carve passes, "on" or "off" the ext2 mode.
AfterCarve(bf, save, o) ==
    IF o.paranoid > 1 THEN bf
    ELSE IF o.paranoid = 1 /\ o.keep_corrupted_file > 0 THEN save
    ELSE "QUIT"

AfterBruteForce(save, o) ==
    IF o.keep_corrupted_file > 0 THEN save ELSE "QUIT"

\* Mutated form of status_inc: the carve pass is followed by itself.
status_inc_stuck(s, o) == IF s = "UNFORMAT" THEN "FIND_OFFSET" ELSE "EXT2_OFF"

status_inc(s, o) ==
    CASE s = "UNFORMAT"    -> "FIND_OFFSET"
      [] s = "FIND_OFFSET" -> IF o.mode_ext2 > 0 THEN "EXT2_ON" ELSE "EXT2_OFF"
      [] s = "EXT2_ON"     -> AfterCarve("EXT2_ON_BF", "EXT2_ON_SAVE_EVERYTHING", o)
      [] s = "EXT2_ON_BF"  -> AfterBruteForce("EXT2_ON_SAVE_EVERYTHING", o)
      [] s = "EXT2_OFF"    -> AfterCarve("EXT2_OFF_BF", "EXT2_OFF_SAVE_EVERYTHING", o)
      [] s = "EXT2_OFF_BF" -> AfterBruteForce("EXT2_OFF_SAVE_EVERYTHING", o)
      [] OTHER             -> "QUIT"

\* The status a scan begins with: params_reset, then the fs_pass override.
FirstStatus(o) == IF o.fs_pass THEN "UNFORMAT" ELSE "FIND_OFFSET"

(***************************************************************************)
(* The passes that watch need_to_stop: the FAT structure pass, the carve   *)
(* and the brute force.  The NTFS pass watches stop_requested and answers  *)
(* OK whatever happens; finding the block size watches nothing.            *)
(***************************************************************************)
PollsNeedToStop(s, o) ==
    IF s = "UNFORMAT" THEN o.fs = "FAT" ELSE s # "FIND_OFFSET"

\* What a pass returns when it is not stopped.
PassOutcomes(s, o) ==
    IF PollsNeedToStop(s, o) THEN {"OK", "EACCES", "ENOSPC"} ELSE {"OK"}

\* The passes that announce files: not the FAT pass, which has no callback.
Reports(s, o) ==
    IF s = "UNFORMAT" THEN o.fs = "NTFS" ELSE s # "FIND_OFFSET"
=============================================================================
