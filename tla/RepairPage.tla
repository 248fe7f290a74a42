----------------------------- MODULE RepairPage -----------------------------
(***************************************************************************)
(* The two repair pages (repair.rs and deep.rs of pages/, which have the   *)
(* same state and callbacks) and the threads of backend/repair.rs they     *)
(* start.  A page polls the channel of its repair every tenth of a second; *)
(* a thread outlives the page that started it, and all write to one disk.  *)
(*                                                                         *)
(* What a repair makes of the data is left out: a candidate is tried, and  *)
(* in the end there is a result or none.  The classic repair is the one    *)
(* with a single try.                                                      *)
(***************************************************************************)
EXTENDS Naturals, Sequences, FiniteSets

CONSTANTS
    Path,          \* the files of the disk that repairs read and write
    Given,         \* those that are there at the start
    MaxTries,      \* bound: candidates of a deep repair
    MaxRepairs     \* bound: repairs ever started

ASSUME RepairAssumption ==
    /\ Path \subseteq Nat \ {0} /\ Given \subseteq Path
    /\ MaxTries \in Nat \ {0} /\ MaxRepairs \in Nat \ {0}

VARIABLES
    page,          \* the page that is open: PageState, its buttons and status
    threads,       \* the repairs, in the order they were started
    disk           \* what each file holds

vars == << page, threads, disk >>

None == 0          \* no repair, no file
Absent == [ by |-> None, whole |-> FALSE ]
Input  == [ by |-> None, whole |-> TRUE ]

NoPage ==
    [ open |-> FALSE, file_path |-> None, analysis |-> FALSE, repair_active |-> FALSE,
      stop_flag |-> None, repair_rx |-> None, repair_btn |-> TRUE, stop_btn |-> FALSE,
      polled |-> TRUE, alerted |-> FALSE, status |-> None ]

Init ==
    /\ page = NoPage
    /\ threads = << >>
    /\ disk = [ p \in Path |-> IF p \in Given THEN Input ELSE Absent ]

Thread == DOMAIN threads
Running == { t \in Thread : threads[t].pc # "ended" }

-----------------------------------------------------------------------------
(* The page *)

Open ==
    /\ ~ page.open
    /\ page' = [ NoPage EXCEPT !.open = TRUE ]
    /\ UNCHANGED << threads, disk >>

\* Another file is chosen: the analysis is of the last one no more.
Browse(p) ==
    /\ page.open /\ disk[p] # Absent
    /\ page' = [ page EXCEPT !.file_path = p, !.analysis = FALSE ]
    /\ UNCHANGED << threads, disk >>

Analyze ==
    /\ page.open /\ page.file_path # None /\ disk[page.file_path] # Absent
    /\ page' = [ page EXCEPT !.analysis = TRUE ]
    /\ UNCHANGED << threads, disk >>


Idle == page.repair_btn /\ ~ page.repair_active

\* The output file is in the directory the user typed, which may be the one of
\* the input.
Repair(out, tries) ==
    /\ page.open /\ page.file_path # None /\ page.analysis /\ Idle
    /\ Len(threads) < MaxRepairs
    /\ LET t == Len(threads) + 1
       IN  /\ threads' = Append(threads,
                 [ path |-> page.file_path, out |-> out, left |-> tries, stop |-> FALSE,
                   pc |-> "read", event |-> "none", beside |-> Running,
                   unremoved |-> FALSE ])
           /\ page' = [ page EXCEPT !.repair_active = TRUE, !.stop_flag = t, !.repair_rx = t,
                                    !.repair_btn = FALSE, !.stop_btn = TRUE ]
    /\ UNCHANGED disk

\* The callback of Repair only says why it does not begin: no file, no analysis, or
\* one that cannot be repaired.  It holds the state while the message is shown, and
\* the message lets timers run: when the one of poll_fn comes, it panics, and the
\* page is polled no more.  alerted only serves properties.
Alert ==
    /\ page.open /\ page.repair_btn /\ page.polled
    /\ page.file_path = None \/ ~ page.repair_active
    /\ page' = [ page EXCEPT !.polled = FALSE, !.alerted = TRUE ]
    /\ UNCHANGED << threads, disk >>

StopRepair ==
    threads' = IF page.stop_flag = None THEN threads
               ELSE [ threads EXCEPT ![page.stop_flag].stop = TRUE ]

\* The callback asks for borrow_mut while it still borrows the state: it panics
\* there, and what follows, which would make the page idle, is never done.  The
\* toolkit drops a panic of a callback.
Stop ==
    /\ page.open /\ page.stop_btn
    /\ StopRepair
    /\ page' = [ page EXCEPT !.stop_btn = FALSE ]
    /\ UNCHANGED disk

Back ==
    /\ page.open
    /\ StopRepair
    /\ page' = NoPage
    /\ UNCHANGED disk

\* An event of the scan worker puts another page in the window (app.rs).
Replaced ==
    /\ page.open
    /\ page' = NoPage
    /\ UNCHANGED << threads, disk >>

\* poll_fn: the outcome is shown, and then it panics like the callback of Stop:
\* the page stays active, and is polled no more.
Poll ==
    /\ page.open /\ page.polled /\ page.repair_rx # None
    /\ threads[page.repair_rx].event # "none"
    /\ page' = [ page EXCEPT !.status = page.repair_rx, !.repair_btn = TRUE,
                             !.stop_btn = FALSE, !.polled = FALSE ]
    /\ UNCHANGED << threads, disk >>

-----------------------------------------------------------------------------
(* repair_file, repair_file_deep *)

Goto(t, pc) == threads' = [ threads EXCEPT ![t].pc = pc ]

\* A thread ends without a word, or with Complete or Error.
Return(t) == Goto(t, "ended")
SendAndReturn(t, event) ==
    threads' = [ threads EXCEPT ![t].pc = "ended", ![t].event = event ]

ReadFile(t) ==
    /\ threads[t].pc = "read"
    /\ \/ SendAndReturn(t, "Error")
       \/ /\ disk[threads[t].path] # Absent
          /\ IF threads[t].stop THEN Return(t) ELSE Goto(t, "try")
    /\ UNCHANGED << page, disk >>

\* One candidate, unless it lies behind the end of what was read.
TryOne(t) ==
    /\ threads[t].pc = "try" /\ threads[t].left > 0
    /\ \/ threads[t].stop /\ Return(t)
       \/ threads' = [ threads EXCEPT ![t].left = @ - 1 ]
    /\ UNCHANGED << page, disk >>

Choose(t) ==
    /\ threads[t].pc = "try" /\ threads[t].left = 0
    /\ \/ SendAndReturn(t, "Error")
       \/ IF threads[t].stop THEN Return(t) ELSE Goto(t, "write")
    /\ UNCHANGED << page, disk >>

\* create_dir_all and fs::write, which leaves a part of the file when it fails
\* after the file was opened.
WriteOutput(t) ==
    /\ threads[t].pc = "write"
    /\ \/ SendAndReturn(t, "Error") /\ UNCHANGED disk
       \/ SendAndReturn(t, "Error")
          /\ disk' = [ disk EXCEPT ![threads[t].out] = [ by |-> t, whole |-> FALSE ] ]
       \/ Goto(t, "written")
          /\ disk' = [ disk EXCEPT ![threads[t].out] = [ by |-> t, whole |-> TRUE ] ]
    /\ UNCHANGED page

\* Mutated form: a stopped repair keeps what it wrote.
FinishKeeping(t) ==
    /\ threads[t].pc = "written"
    /\ IF threads[t].stop THEN Return(t) ELSE SendAndReturn(t, "Complete")
    /\ UNCHANGED << page, disk >>

\* The result of remove_file is not looked at; unremoved only serves properties.
Finish(t) ==
    /\ threads[t].pc = "written"
    /\ \/ /\ threads[t].stop
          /\ disk' = [ disk EXCEPT ![threads[t].out] = Absent ]
          /\ Return(t)
       \/ /\ threads[t].stop
          /\ threads' = [ threads EXCEPT ![t].pc = "ended", ![t].unremoved = TRUE ]
          /\ UNCHANGED disk
       \/ /\ ~ threads[t].stop
          /\ SendAndReturn(t, "Complete") /\ UNCHANGED disk
    /\ UNCHANGED page

Step(t) == ReadFile(t) \/ TryOne(t) \/ Choose(t) \/ WriteOutput(t) \/ Finish(t)

-----------------------------------------------------------------------------
Next ==
    \/ Open \/ Analyze \/ Alert \/ Stop \/ Back \/ Replaced \/ Poll
    \/ \E p \in Path : Browse(p)
    \/ \E out \in Path, tries \in 0 .. MaxTries : Repair(out, tries)
    \/ \E t \in Thread : Step(t)

\* Threads run, and the page polls on a timer.
Spec ==
    /\ Init /\ [][Next]_vars
    /\ WF_vars(Poll)
    /\ \A t \in 1 .. MaxRepairs : WF_vars(t \in Thread /\ Step(t))

-----------------------------------------------------------------------------
(* Properties *)

\* Who may take the output of a repair: one that was still running when it
\* began, or one begun later, with the same output file.
Rivals(t) ==
    { u \in Thread : threads[u].out = threads[t].out /\ (u \in threads[t].beside \/ u > t) }

Written(t) == disk[threads[t].out] = [ by |-> t, whole |-> TRUE ]

Taken(t) ==
    \E u \in Rivals(t) :
        LET d == disk[threads[t].out]
        IN  d.by = u \/ (d = Absent /\ threads[u].stop)

\* A whole output is on the disk when, and only when, its repair was announced
\* as complete: a repair that was stopped, from this page or one left before,
\* leaves none that could be removed, and one that is announced has it unless a
\* rival wrote over it, or was stopped and removed it (repair.rs:2682, 3915).
OutputAsAnnounced ==
    \A t \in Thread :
        threads[t].pc = "ended" =>
            IF threads[t].event = "Complete" THEN Written(t) \/ Taken(t)
            ELSE ~ Written(t) \/ threads[t].unremoved

Answered(t) == page.status = t \/ page.repair_rx # t \/ threads[t].stop

=============================================================================
