---------------------------- MODULE ScanProtocol ----------------------------
(***************************************************************************)
(* What the scan worker promises to the clients that send it StartScan and *)
(* StopScan and read its events: one scan at a time; files are announced   *)
(* by the scan that is running and by no other; a scan ends once, as       *)
(* stopped exactly when a stop was taken while it ran, and as failed only  *)
(* when it announced nothing; a request is turned away only because        *)
(* another scan is running.                                                *)
(***************************************************************************)
EXTENDS Integers

CONSTANTS Scan, NoScan

VARIABLES
    active,   \* the scan that runs, or NoScan
    cut,      \* a stop was taken while it runs
    fate,     \* what became of each request
    files     \* the number of files each has announced

vars == << active, cut, fate, files >>

Init ==
    /\ active = NoScan
    /\ cut = FALSE
    /\ fate = [c \in Scan |-> "waiting"]
    /\ files = [c \in Scan |-> 0]

Begin(c) ==
    /\ active = NoScan /\ fate[c] = "waiting"
    /\ active' = c /\ cut' = FALSE
    /\ fate' = [fate EXCEPT ![c] = "running"]
    /\ UNCHANGED files

TurnAway(c) ==
    /\ active # NoScan /\ fate[c] = "waiting"
    /\ fate' = [fate EXCEPT ![c] = "discarded"]
    /\ UNCHANGED << active, cut, files >>

Announce(c) ==
    /\ active = c
    /\ files' = [files EXCEPT ![c] = @ + 1]
    /\ UNCHANGED << active, cut, fate >>

TakeStop ==
    /\ active # NoScan
    /\ cut' = TRUE
    /\ UNCHANGED << active, fate, files >>

\* A worker that is told to shut down may abandon its scan.
HowEnded(c) ==
    (IF cut THEN {"stopped"} ELSE {"complete"})
        \cup (IF files[c] = 0 /\ ~cut THEN {"error"} ELSE {})
        \cup {"abandoned"}

End(c) ==
    /\ active = c
    /\ active' = NoScan /\ cut' = FALSE
    /\ \E how \in HowEnded(c) : fate' = [fate EXCEPT ![c] = how]
    /\ UNCHANGED files

Next ==
    \/ \E c \in Scan : Begin(c) \/ TurnAway(c) \/ Announce(c) \/ End(c)
    \/ TakeStop

Spec == Init /\ [][Next]_vars
=============================================================================
