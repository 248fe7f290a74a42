-------------------------- MODULE RepairPage_proofs --------------------------
(***************************************************************************)
(* For any files and any number of repairs: what is on the disk is what    *)
(* was announced.  Beside the statement itself the invariant says what a   *)
(* repair that has not ended has on the disk, that nothing on the disk is  *)
(* of a repair yet to come, and that a repair begun while another runs     *)
(* counts it as its rival.                                                 *)
(***************************************************************************)
EXTENDS RepairPage, TLAPS

ThreadState == { "read", "try", "write", "written", "ended" }

Repairs ==
    [ path : Path \cup { None }, out : Path, left : Nat, stop : BOOLEAN,
      pc : ThreadState, event : { "none", "Complete", "Error" }, beside : SUBSET Nat,
      unremoved : BOOLEAN ]

RepairTypeOK ==
    /\ threads \in Seq(Repairs)
    /\ disk \in [ Path -> [ by : Nat, whole : BOOLEAN ] ]
    /\ page.file_path \in Path \cup { None }

\* What is on the disk is of a repair that was started.
WrittenByStarted == \A p \in Path : disk[p].by <= Len(threads)

\* A repair that is running when another begins is noted there.
EarlierNoted ==
    \A t, u \in Thread : u < t /\ threads[u].pc # "ended" => u \in threads[t].beside

\* What a repair has on the disk, as far as it has come.
Progress(t) ==
    /\ threads[t].pc # "ended" => threads[t].event = "none"
    /\ threads[t].pc \in { "read", "try", "write" } => \A p \in Path : disk[p].by # t
    /\ threads[t].pc = "written" => Written(t) \/ Taken(t)
    /\ threads[t].pc = "ended" =>
          IF threads[t].event = "Complete" THEN Written(t) \/ Taken(t)
          ELSE ~ Written(t) \/ threads[t].unremoved

RepairInv ==
    /\ RepairTypeOK /\ WrittenByStarted /\ EarlierNoted
    /\ \A t \in Thread : Progress(t)

-----------------------------------------------------------------------------
(* Lemmas *)

LEMMA ThreadDomain ==
    ASSUME RepairTypeOK
    PROVE  /\ Len(threads) \in Nat /\ Thread = 1 .. Len(threads)
           /\ \A t \in Thread : t \in Nat /\ threads[t] \in Repairs
BY DEF RepairTypeOK, Thread

\* Disjuncts of the page that leave the threads and the disk alone.
LEMMA PageKeeps ==
    ASSUME RepairInv, UNCHANGED << threads, disk >>, page'.file_path \in Path \cup { None }
    PROVE  RepairInv'
<1>1. RepairTypeOK'
  BY DEF RepairInv, RepairTypeOK
<1>2. WrittenByStarted' /\ EarlierNoted'
  BY DEF RepairInv, WrittenByStarted, EarlierNoted, Thread
<1>3. (\A t \in Thread : Progress(t))'
  BY ZenonT(60) DEF RepairInv, Progress, Written, Taken, Rivals, Thread
<1> QED
  BY <1>1, <1>2, <1>3 DEF RepairInv

\* What the repairs keep when threads change in anything but their output, and
\* the disk does not: a repair that took an output of another still has it.
LEMMA TakenKeeps ==
    ASSUME RepairTypeOK, disk' = disk, Thread \subseteq Thread',
           NEW t \in Thread,
           \A u \in Thread : /\ threads'[u].out = threads[u].out
                             /\ threads'[u].beside = threads[u].beside
                             /\ threads[u].stop => threads'[u].stop
    PROVE  Written(t)' = Written(t) /\ (Taken(t) => Taken(t)')
<1>1. Written(t)' = Written(t)
  BY DEF Written
<1>2. ASSUME Taken(t) PROVE Taken(t)'
  <2>1. PICK u \in Rivals(t) :
           disk[threads[t].out].by = u \/ (disk[threads[t].out] = Absent /\ threads[u].stop)
    BY <1>2 DEF Taken
  <2>2. u \in Thread /\ u \in Rivals(t)'
    BY <2>1 DEF Rivals
  <2>3. disk'[threads'[t].out].by = u \/ (disk'[threads'[t].out] = Absent /\ threads'[u].stop)
    BY <2>1, <2>2
  <2> QED
    BY <2>2, <2>3 DEF Taken
<1> QED
  BY <1>1, <1>2

\* Stop and Back set the flag of a repair and nothing else of it.
LEMMA StopKeeps ==
    ASSUME RepairInv, StopRepair, disk' = disk, page'.file_path \in Path \cup { None }
    PROVE  RepairInv'
<1>1. CASE threads' = threads
  BY <1>1, PageKeeps
<1>2. CASE threads' = [ threads EXCEPT ![page.stop_flag].stop = TRUE ]
  <2>1. RepairTypeOK /\ WrittenByStarted /\ EarlierNoted /\ \A t \in Thread : Progress(t)
    BY DEF RepairInv
  <2>2. Thread = 1 .. Len(threads) /\ \A t \in Thread : threads[t] \in Repairs
    BY <2>1, ThreadDomain
  <2>3. /\ threads' \in Seq(Repairs) /\ Len(threads') = Len(threads) /\ Thread' = Thread
        /\ \A u \in Thread : /\ threads'[u].out = threads[u].out
                             /\ threads'[u].beside = threads[u].beside
                             /\ threads'[u].pc = threads[u].pc
                             /\ threads'[u].event = threads[u].event
                             /\ threads'[u].unremoved = threads[u].unremoved
                             /\ threads[u].stop => threads'[u].stop
    <3>1. CASE page.stop_flag \notin Thread
      <4>1. threads' = threads
        BY <1>2, <2>1, <3>1 DEF RepairTypeOK, Thread
      <4> QED
        BY <2>1, <4>1 DEF RepairTypeOK, Thread
    <3>2. CASE page.stop_flag \in Thread
      <4>1. PICK f \in Thread : f = page.stop_flag
        BY <3>2
      <4>2. PICK r : r = [ threads[f] EXCEPT !.stop = TRUE ]
        OBVIOUS
      <4>3. /\ r \in Repairs /\ r.out = threads[f].out /\ r.beside = threads[f].beside
            /\ r.pc = threads[f].pc /\ r.event = threads[f].event /\ r.stop
            /\ r.unremoved = threads[f].unremoved
        BY <2>2, <4>2 DEF Repairs
      <4>4. threads' = [ threads EXCEPT ![f] = r ]
        BY <1>2, <4>1, <4>2
      <4>5. threads' \in Seq(Repairs) /\ Len(threads') = Len(threads) /\ Thread' = Thread
        BY <2>1, <2>2, <4>3, <4>4 DEF RepairTypeOK, Thread
      <4>6. threads'[f] = r /\ \A u \in Thread : u # f => threads'[u] = threads[u]
        BY <2>2, <4>4
      <4> QED
        BY <4>3, <4>5, <4>6
    <3> QED
      BY <3>1, <3>2
  <2>5. RepairTypeOK'
    BY <2>1, <2>3 DEF RepairTypeOK
  <2>6. WrittenByStarted' /\ EarlierNoted'
    BY <2>1, <2>3 DEF WrittenByStarted, EarlierNoted
  <2>7. ASSUME NEW t \in Thread PROVE Progress(t)'
    <3>1. Written(t)' = Written(t) /\ (Taken(t) => Taken(t)')
      BY <2>1, <2>3, TakenKeeps
    <3> QED
      BY <2>1, <2>3, <3>1 DEF Progress
  <2> QED
    BY <2>3, <2>5, <2>6, <2>7 DEF RepairInv
<1> QED
  BY <1>1, <1>2 DEF StopRepair

\* A repair that begins has nothing on the disk, and notes those that run.
LEMMA BeginKeeps ==
    ASSUME RepairInv, NEW out \in Path, NEW tries \in Nat, Repair(out, tries)
    PROVE  RepairInv'
<1>1. RepairTypeOK /\ WrittenByStarted /\ EarlierNoted /\ \A t \in Thread : Progress(t)
  BY DEF RepairInv
<1>2. Len(threads) \in Nat /\ Thread = 1 .. Len(threads)
      /\ \A t \in Thread : t \in Nat /\ threads[t] \in Repairs
  BY <1>1, ThreadDomain
<1> DEFINE new == [ path |-> page.file_path, out |-> out, left |-> tries, stop |-> FALSE,
                    pc |-> "read", event |-> "none", beside |-> Running,
                    unremoved |-> FALSE ]
<1>0. PICK n \in Nat : n = Len(threads) + 1
  BY <1>2
<1>3. new \in Repairs
  BY <1>1, <1>2 DEF RepairTypeOK, Repairs, ThreadState, Running
<1>4. threads' = Append(threads, new) /\ disk' = disk /\ page'.file_path = page.file_path
  <2>1. page' = [ page EXCEPT !.repair_active = TRUE, !.stop_flag = n, !.repair_rx = n,
                              !.repair_btn = FALSE, !.stop_btn = TRUE ]
    BY <1>0 DEF Repair
  <2>2. page'.file_path = page.file_path
    BY <2>1
  <2> QED
    BY <2>2 DEF Repair
<1>5. threads \in Seq(Repairs)
  BY <1>1 DEF RepairTypeOK
<1>6. threads' \in Seq(Repairs) /\ Len(threads') = n /\ threads'[n] = new
      /\ \A u \in Thread : threads'[u] = threads[u]
  <2> HIDE DEF new
  <2> QED
    BY <1>0, <1>2, <1>3, <1>4, <1>5
<1>7. Thread' = Thread \cup { n } /\ n \notin Thread
  BY <1>0, <1>2, <1>6 DEF Thread
<1>8. new.pc = "read" /\ new.event = "none" /\ new.beside = Running
  OBVIOUS
<1> HIDE DEF new
<1>9. RepairTypeOK'
  BY <1>1, <1>4, <1>6 DEF RepairTypeOK
<1>10. WrittenByStarted'
  BY <1>0, <1>1, <1>2, <1>4, <1>6 DEF WrittenByStarted, RepairTypeOK
<1>11. EarlierNoted'
  <2> SUFFICES ASSUME NEW t \in Thread', NEW u \in Thread', u < t, threads'[u].pc # "ended"
               PROVE  u \in threads'[t].beside
    BY DEF EarlierNoted
  <2>1. u \in Thread
    BY <1>0, <1>2, <1>7
  <2>2. CASE t = n
    BY <1>6, <1>8, <2>1, <2>2 DEF Running
  <2>3. CASE t \in Thread
    BY <1>1, <1>6, <2>1, <2>3 DEF EarlierNoted
  <2> QED
    BY <1>7, <2>2, <2>3
<1>12. ASSUME NEW t \in Thread PROVE Progress(t)'
  <2>1. Written(t)' = Written(t) /\ (Taken(t) => Taken(t)')
    BY <1>1, <1>4, <1>6, <1>7, TakenKeeps
  <2> QED
    BY <1>1, <1>4, <1>6, <2>1 DEF Progress
<1>13. Progress(n)'
  <2>1. \A p \in Path : disk'[p].by # n
    BY <1>0, <1>1, <1>2, <1>4 DEF WrittenByStarted, RepairTypeOK
  <2> QED
    BY <1>6, <1>8, <2>1 DEF Progress
<1> QED
  BY <1>7, <1>9, <1>10, <1>11, <1>12, <1>13 DEF RepairInv

\* A step of a repair that is not one of its last changes its place only.
LEMMA PlaceKeeps ==
    ASSUME RepairInv, NEW v \in Thread, NEW r \in Repairs, threads[v].pc \in { "read", "try", "write" },
           threads' = [ threads EXCEPT ![v] = r ], UNCHANGED << page, disk >>,
           r.out = threads[v].out, r.beside = threads[v].beside, r.stop = threads[v].stop,
           \/ r.pc \in { "read", "try", "write" } /\ r.event = "none"
           \/ r.pc = "ended" /\ r.event \in { "none", "Error" }
    PROVE  RepairInv'
<1>1. RepairTypeOK /\ WrittenByStarted /\ EarlierNoted /\ \A t \in Thread : Progress(t)
  BY DEF RepairInv
<1>2. Thread = 1 .. Len(threads) /\ \A t \in Thread : t \in Nat /\ threads[t] \in Repairs
  BY <1>1, ThreadDomain
<1>3. threads' \in Seq(Repairs) /\ Len(threads') = Len(threads) /\ Thread' = Thread
  BY <1>1, <1>2 DEF RepairTypeOK, Thread
<1>4. threads'[v] = r /\ \A u \in Thread : u # v => threads'[u] = threads[u]
  BY <1>2
<1>5. \A u \in Thread : /\ threads'[u].out = threads[u].out
                        /\ threads'[u].beside = threads[u].beside
                        /\ threads[u].stop => threads'[u].stop
  BY <1>4
<1>6. RepairTypeOK'
  BY <1>1, <1>3 DEF RepairTypeOK
<1>7. WrittenByStarted' /\ EarlierNoted'
  BY <1>1, <1>3, <1>4, <1>5 DEF WrittenByStarted, EarlierNoted
<1>8. ASSUME NEW t \in Thread, t # v PROVE Progress(t)'
  <2>1. Written(t)' = Written(t) /\ (Taken(t) => Taken(t)')
    BY <1>1, <1>3, <1>5, TakenKeeps
  <2> QED
    BY <1>1, <1>4, <1>8, <2>1 DEF Progress
<1>9. Progress(v)'
  <2>1. \A p \in Path : disk[p].by # v
    BY <1>1 DEF Progress
  <2>2. ~ Written(v)'
    BY <1>2, <1>4, <2>1 DEF Written, Repairs
  <2> QED
    BY <1>4, <2>1, <2>2 DEF Progress
<1> QED
  BY <1>3, <1>6, <1>7, <1>8, <1>9 DEF RepairInv

\* A repair that writes or removes its output takes it from every repair that
\* has ended or written before, and none of these is other than its rival.
LEMMA OutputKeeps ==
    ASSUME RepairInv, NEW v \in Thread, NEW r \in Repairs, NEW d \in [ by : Nat, whole : BOOLEAN ],
           threads' = [ threads EXCEPT ![v] = r ],
           disk' = [ disk EXCEPT ![threads[v].out] = d ],
           page' = page, threads[v].pc # "ended",
           r.out = threads[v].out, r.beside = threads[v].beside, r.stop = threads[v].stop,
           d.by = v \/ (d = Absent /\ threads[v].stop),
           Progress(v)'
    PROVE  RepairInv'
<1>1. RepairTypeOK /\ WrittenByStarted /\ EarlierNoted /\ \A t \in Thread : Progress(t)
  BY DEF RepairInv
<1>2. Len(threads) \in Nat /\ Thread = 1 .. Len(threads)
      /\ \A t \in Thread : t \in Nat /\ threads[t] \in Repairs
  BY <1>1, ThreadDomain
<1>3. threads' \in Seq(Repairs) /\ Len(threads') = Len(threads) /\ Thread' = Thread
  BY <1>1, <1>2 DEF RepairTypeOK, Thread
<1>4. threads'[v] = r /\ \A u \in Thread : u # v => threads'[u] = threads[u]
  BY <1>2
<1>5. \A u \in Thread : /\ threads'[u].out = threads[u].out
                        /\ threads'[u].beside = threads[u].beside
                        /\ threads'[u].stop = threads[u].stop
                        /\ threads[u].out \in Path
  BY <1>2, <1>4 DEF Repairs
<1>6. \A p \in Path : disk'[p] = IF p = threads[v].out THEN d ELSE disk[p]
  BY <1>1 DEF RepairTypeOK
<1>7. RepairTypeOK'
  BY <1>1, <1>3 DEF RepairTypeOK
<1>8. d.by <= Len(threads) /\ d.by \in { v, None }
  BY <1>2 DEF Absent, None
<1>9. WrittenByStarted'
  BY <1>1, <1>3, <1>6, <1>8 DEF WrittenByStarted
<1>10. EarlierNoted'
  BY <1>1, <1>3, <1>4, <1>5 DEF EarlierNoted
<1>11. ASSUME NEW t \in Thread, t # v PROVE Progress(t)'
  <2>1. CASE threads[t].out # threads[v].out
    <3>1. disk'[threads[t].out] = disk[threads[t].out]
      BY <1>5, <1>6, <2>1
    <3>2. Written(t)' = Written(t) /\ (Taken(t) => Taken(t)')
      BY <1>3, <1>5, <3>1 DEF Written, Taken, Rivals
    <3> QED
      BY <1>1, <1>2, <1>4, <1>6, <1>8, <1>11, <3>2 DEF Progress, None
  <2>2. CASE threads[t].out = threads[v].out
    <3>1. disk'[threads[t].out] = d /\ threads'[t] = threads[t]
      BY <1>4, <1>5, <1>6, <1>11, <2>2
    <3>2. v \in threads[t].beside \/ v > t
      BY <1>1, <1>2, <1>11 DEF EarlierNoted
    <3>3. v \in Rivals(t)'
      BY <1>3, <1>5, <2>2, <3>1, <3>2 DEF Rivals
    <3>4. Taken(t)'
      BY <1>5, <3>1, <3>3 DEF Taken
    <3>5. ~ Written(t)'
      BY <1>2, <1>8, <1>11, <3>1 DEF Written, None
    <3> QED
      BY <1>1, <1>2, <1>6, <1>8, <1>11, <3>1, <3>4, <3>5 DEF Progress, None
  <2> QED
    BY <2>1, <2>2
<1> QED
  BY <1>3, <1>7, <1>9, <1>10, <1>11 DEF RepairInv

\* The forms in which a step changes its repair.
LEMMA StepForms ==
    ASSUME RepairTypeOK, NEW t \in Thread
    PROVE  /\ \A pc \in ThreadState :
                Goto(t, pc) => \E r \in Repairs :
                    /\ threads' = [ threads EXCEPT ![t] = r ]
                    /\ r.out = threads[t].out /\ r.beside = threads[t].beside
                    /\ r.stop = threads[t].stop
                    /\ r.pc = pc /\ r.event = threads[t].event
           /\ \A event \in { "Complete", "Error" } :
                SendAndReturn(t, event) => \E r \in Repairs :
                    /\ threads' = [ threads EXCEPT ![t] = r ]
                    /\ r.out = threads[t].out /\ r.beside = threads[t].beside
                    /\ r.stop = threads[t].stop
                    /\ r.pc = "ended" /\ r.event = event
<1>1. threads[t] \in Repairs
  BY ThreadDomain
<1>2. ASSUME NEW pc \in ThreadState, Goto(t, pc)
      PROVE  \E r \in Repairs :
                /\ threads' = [ threads EXCEPT ![t] = r ]
                /\ r.out = threads[t].out /\ r.beside = threads[t].beside
                /\ r.stop = threads[t].stop
                /\ r.pc = pc /\ r.event = threads[t].event
  <2>1. PICK r : r = [ threads[t] EXCEPT !.pc = pc ]
    OBVIOUS
  <2>2. r \in Repairs /\ r.out = threads[t].out /\ r.beside = threads[t].beside
        /\ r.stop = threads[t].stop /\ r.pc = pc /\ r.event = threads[t].event
    BY <1>1, <2>1 DEF Repairs
  <2>3. threads' = [ threads EXCEPT ![t] = r ]
    BY <1>2, <2>1 DEF Goto
  <2> QED
    BY <2>2, <2>3
<1>3. ASSUME NEW event \in { "Complete", "Error" }, SendAndReturn(t, event)
      PROVE  \E r \in Repairs :
                /\ threads' = [ threads EXCEPT ![t] = r ]
                /\ r.out = threads[t].out /\ r.beside = threads[t].beside
                /\ r.stop = threads[t].stop
                /\ r.pc = "ended" /\ r.event = event
  <2>1. PICK r : r = [ threads[t] EXCEPT !.pc = "ended", !.event = event ]
    OBVIOUS
  <2>2. r \in Repairs /\ r.out = threads[t].out /\ r.beside = threads[t].beside
        /\ r.stop = threads[t].stop /\ r.pc = "ended" /\ r.event = event
    BY <1>1, <2>1 DEF Repairs, ThreadState
  <2>3. threads' = [ threads EXCEPT ![t] = r ]
    BY <1>3, <2>1 DEF SendAndReturn
  <2> QED
    BY <2>2, <2>3
<1> QED
  BY <1>2, <1>3

\* A repair that ends without having written, or goes on, leaves the disk alone.
LEMMA QuietKeeps ==
    ASSUME RepairInv, NEW t \in Thread, threads[t].pc \in { "read", "try", "write" },
           UNCHANGED << page, disk >>,
           \/ SendAndReturn(t, "Error") \/ Return(t)
           \/ Goto(t, "try") \/ Goto(t, "write")
    PROVE  RepairInv'
<1>1. RepairTypeOK /\ threads[t].event = "none"
  BY DEF RepairInv, Progress
<1>2. CASE SendAndReturn(t, "Error")
  BY <1>1, <1>2, StepForms, PlaceKeeps
<1>3. CASE Return(t)
  BY <1>1, <1>3, StepForms, PlaceKeeps DEF Return, ThreadState
<1>4. CASE Goto(t, "try")
  BY <1>1, <1>4, StepForms, PlaceKeeps DEF ThreadState
<1>5. CASE Goto(t, "write")
  BY <1>1, <1>5, StepForms, PlaceKeeps DEF ThreadState
<1> QED
  BY <1>2, <1>3, <1>4, <1>5

LEMMA TryKeeps ==
    ASSUME RepairInv, NEW t \in Thread, TryOne(t)
    PROVE  RepairInv'
<1>1. RepairTypeOK /\ threads[t].event = "none" /\ threads[t] \in Repairs
  BY ThreadDomain DEF RepairInv, Progress, TryOne
<1>2. threads[t].pc = "try" /\ threads[t].left > 0 /\ UNCHANGED << page, disk >>
  BY DEF TryOne
<1>3. CASE Return(t)
  BY <1>2, <1>3, QuietKeeps
<1>4. CASE threads' = [ threads EXCEPT ![t].left = @ - 1 ]
  <2>1. PICK r : r = [ threads[t] EXCEPT !.left = threads[t].left - 1 ]
    OBVIOUS
  <2>2. threads[t].left - 1 \in Nat
    BY <1>1, <1>2 DEF Repairs
  <2>3. r \in Repairs /\ r.out = threads[t].out /\ r.beside = threads[t].beside
        /\ r.stop = threads[t].stop /\ r.pc = "try" /\ r.event = "none"
    BY <1>1, <1>2, <2>1, <2>2 DEF Repairs
  <2>4. threads' = [ threads EXCEPT ![t] = r ]
    BY <1>4, <2>1
  <2> QED
    BY <1>2, <2>3, <2>4, PlaceKeeps
<1> QED
  BY <1>3, <1>4 DEF TryOne

LEMMA WriteKeeps ==
    ASSUME RepairInv, NEW t \in Thread, WriteOutput(t)
    PROVE  RepairInv'
<1>1. /\ RepairTypeOK /\ threads[t].event = "none" /\ threads[t].pc = "write"
      /\ page' = page /\ threads[t] \in Repairs /\ t \in Nat /\ threads[t].out \in Path
  BY ThreadDomain DEF RepairInv, Progress, WriteOutput, Repairs
<1>2. CASE SendAndReturn(t, "Error") /\ UNCHANGED disk
  BY <1>1, <1>2, QuietKeeps
<1>3. CASE /\ SendAndReturn(t, "Error")
           /\ disk' = [ disk EXCEPT ![threads[t].out] = [ by |-> t, whole |-> FALSE ] ]
  <2>1. PICK r \in Repairs :
           /\ threads' = [ threads EXCEPT ![t] = r ]
           /\ r.out = threads[t].out /\ r.beside = threads[t].beside /\ r.stop = threads[t].stop
           /\ r.pc = "ended" /\ r.event = "Error"
    BY <1>1, <1>3, StepForms
  <2>2. PICK d \in [ by : Nat, whole : BOOLEAN ] : d = [ by |-> t, whole |-> FALSE ]
    BY <1>1
  <2>3. threads'[t] = r /\ disk'[threads[t].out] = d
    BY <1>1, <1>3, <2>1, <2>2 DEF RepairTypeOK, Thread
  <2>4. d # [ by |-> t, whole |-> TRUE ] /\ d.by = t
    BY <2>2
  <2>5. Progress(t)'
    BY <2>1, <2>3, <2>4 DEF Progress, Written
  <2> QED
    BY <1>1, <1>3, <2>1, <2>2, <2>4, <2>5, OutputKeeps
<1>4. CASE /\ Goto(t, "written")
           /\ disk' = [ disk EXCEPT ![threads[t].out] = [ by |-> t, whole |-> TRUE ] ]
  <2>1. PICK r \in Repairs :
           /\ threads' = [ threads EXCEPT ![t] = r ]
           /\ r.out = threads[t].out /\ r.beside = threads[t].beside /\ r.stop = threads[t].stop
           /\ r.pc = "written" /\ r.event = "none"
    BY <1>1, <1>4, StepForms DEF ThreadState
  <2>2. PICK d \in [ by : Nat, whole : BOOLEAN ] : d = [ by |-> t, whole |-> TRUE ]
    BY <1>1
  <2>3. threads'[t] = r /\ disk'[threads[t].out] = d /\ d.by = t
    BY <1>1, <1>4, <2>1, <2>2 DEF RepairTypeOK, Thread
  <2>4. Progress(t)'
    BY <2>1, <2>2, <2>3 DEF Progress, Written
  <2> QED
    BY <1>1, <1>4, <2>1, <2>2, <2>3, <2>4, OutputKeeps
<1> QED
  BY <1>2, <1>3, <1>4 DEF WriteOutput

LEMMA FinishKeeps ==
    ASSUME RepairInv, NEW t \in Thread, Finish(t)
    PROVE  RepairInv'
<1>1. /\ RepairTypeOK /\ threads[t].event = "none" /\ threads[t].pc = "written"
      /\ page' = page /\ threads[t] \in Repairs /\ t \in Nat /\ t > 0 /\ threads[t].out \in Path
      /\ Written(t) \/ Taken(t)
  BY ThreadDomain DEF RepairInv, Progress, Finish, Repairs
<1>2. CASE /\ threads[t].stop /\ Return(t)
           /\ disk' = [ disk EXCEPT ![threads[t].out] = Absent ]
  <2>0. Goto(t, "ended") /\ "ended" \in ThreadState
    BY <1>2 DEF Return, ThreadState
  <2>1. PICK r \in Repairs :
           /\ threads' = [ threads EXCEPT ![t] = r ]
           /\ r.out = threads[t].out /\ r.beside = threads[t].beside /\ r.stop = threads[t].stop
           /\ r.pc = "ended" /\ r.event = "none"
    BY <1>1, <2>0, StepForms
  <2>2. Absent \in [ by : Nat, whole : BOOLEAN ] /\ Absent # [ by |-> t, whole |-> TRUE ]
    BY DEF Absent, None
  <2>3. threads'[t] = r /\ disk'[threads[t].out] = Absent
    BY <1>1, <1>2, <2>1 DEF RepairTypeOK, Thread
  <2>4. Progress(t)'
    BY <2>1, <2>2, <2>3 DEF Progress, Written
  <2> QED
    BY <1>1, <1>2, <2>1, <2>2, <2>4, OutputKeeps
<1>3. ASSUME NEW r \in Repairs, UNCHANGED disk,
             threads' = [ threads EXCEPT ![t] = r ],
             r.out = threads[t].out, r.beside = threads[t].beside, r.stop = threads[t].stop,
             r.pc = "ended", r.event = "Complete" \/ (r.event = "none" /\ r.unremoved)
      PROVE  RepairInv'
  <2>2. RepairTypeOK /\ WrittenByStarted /\ EarlierNoted /\ \A u \in Thread : Progress(u)
    BY DEF RepairInv
  <2>3. Thread = 1 .. Len(threads) /\ \A u \in Thread : threads[u] \in Repairs
    BY <2>2, ThreadDomain
  <2>4. threads' \in Seq(Repairs) /\ Len(threads') = Len(threads) /\ Thread' = Thread
    BY <1>3, <2>2, <2>3 DEF RepairTypeOK, Thread
  <2>5. threads'[t] = r /\ \A u \in Thread : u # t => threads'[u] = threads[u]
    BY <1>3, <2>3
  <2>6. \A u \in Thread : /\ threads'[u].out = threads[u].out
                          /\ threads'[u].beside = threads[u].beside
                          /\ threads[u].stop => threads'[u].stop
    BY <1>3, <2>5
  <2>7. RepairTypeOK' /\ WrittenByStarted'
    BY <1>1, <1>3, <2>2, <2>4 DEF RepairTypeOK, WrittenByStarted
  <2>8. EarlierNoted'
    BY <1>1, <1>3, <2>2, <2>4, <2>5, <2>6 DEF EarlierNoted
  <2>9. \A u \in Thread : Written(u)' = Written(u) /\ (Taken(u) => Taken(u)')
    BY <1>3, <2>2, <2>4, <2>6, TakenKeeps
  <2>10. ASSUME NEW u \in Thread, u # t PROVE Progress(u)'
    BY <1>3, <2>2, <2>5, <2>9, <2>10 DEF Progress
  <2>11. Progress(t)'
    BY <1>1, <1>3, <2>5, <2>9 DEF Progress
  <2> QED
    BY <2>4, <2>7, <2>8, <2>10, <2>11 DEF RepairInv
<1>4. CASE ~ threads[t].stop /\ SendAndReturn(t, "Complete") /\ UNCHANGED disk
  <2>1. PICK r \in Repairs :
           /\ threads' = [ threads EXCEPT ![t] = r ]
           /\ r.out = threads[t].out /\ r.beside = threads[t].beside /\ r.stop = threads[t].stop
           /\ r.pc = "ended" /\ r.event = "Complete"
    BY <1>1, <1>4, StepForms
  <2> QED
    BY <1>3, <1>4, <2>1
<1>5. CASE /\ threads[t].stop /\ UNCHANGED disk
           /\ threads' = [ threads EXCEPT ![t].pc = "ended", ![t].unremoved = TRUE ]
  <2>1. PICK r : r = [ threads[t] EXCEPT !.pc = "ended", !.unremoved = TRUE ]
    OBVIOUS
  <2>2. /\ r \in Repairs /\ r.out = threads[t].out /\ r.beside = threads[t].beside
        /\ r.stop = threads[t].stop /\ r.pc = "ended" /\ r.event = "none" /\ r.unremoved
    BY <1>1, <2>1 DEF Repairs, ThreadState
  <2>3. threads' = [ threads EXCEPT ![t] = r ]
    BY <1>1, <1>5, <2>1 DEF RepairTypeOK
  <2> QED
    BY <1>3, <1>5, <2>2, <2>3
<1> QED
  BY <1>2, <1>4, <1>5 DEF Finish

-----------------------------------------------------------------------------
(* Theorems *)

LEMMA RepairInit == Init => RepairInv
<1> SUFFICES ASSUME Init PROVE RepairInv
  OBVIOUS
<1>1. threads = << >> /\ Thread = {} /\ Len(threads) = 0
  BY DEF Init, Thread
<1>2. page.file_path = None
  BY DEF Init, NoPage
<1>3. \A p \in Path : disk[p] \in { Absent, Input }
  BY DEF Init
<1>4. disk \in [ Path -> [ by : Nat, whole : BOOLEAN ] ]
  BY <1>3 DEF Init, Absent, Input, None
<1>5. RepairTypeOK
  BY <1>1, <1>2, <1>4 DEF RepairTypeOK
<1>6. WrittenByStarted
  BY <1>1, <1>3 DEF WrittenByStarted, Absent, Input, None
<1> QED
  BY <1>1, <1>5, <1>6 DEF RepairInv, EarlierNoted

LEMMA RepairNext == RepairInv /\ [Next]_vars => RepairInv'
<1> SUFFICES ASSUME RepairInv, [Next]_vars PROVE RepairInv'
  OBVIOUS
<1>0. page.file_path \in Path \cup { None } /\ NoPage.file_path = None
  BY DEF RepairInv, RepairTypeOK, NoPage
<1>1. CASE Open
  <2>1. page'.file_path = None
    BY <1>1 DEF Open, NoPage
  <2> QED
    BY <1>1, <2>1, PageKeeps DEF Open
<1>2. CASE Analyze
  <2>1. page'.file_path = page.file_path
    BY <1>2 DEF Analyze
  <2> QED
    BY <1>0, <1>2, <2>1, PageKeeps DEF Analyze
<1>3. CASE Stop
  <2>1. page'.file_path = page.file_path
    BY <1>3 DEF Stop
  <2> QED
    BY <1>0, <1>3, <2>1, StopKeeps DEF Stop
<1>4. CASE Back
  BY <1>0, <1>4, StopKeeps DEF Back
<1>5. CASE Replaced
  BY <1>0, <1>5, PageKeeps DEF Replaced
<1>6. CASE Poll
  <2>1. page'.file_path = page.file_path
    BY <1>6 DEF Poll
  <2> QED
    BY <1>0, <1>6, <2>1, PageKeeps DEF Poll
<1>7. ASSUME NEW p \in Path, Browse(p) PROVE RepairInv'
  <2>1. page'.file_path \in { p, page.file_path }
    BY <1>7 DEF Browse
  <2> QED
    BY <1>0, <1>7, <2>1, PageKeeps DEF Browse
<1>8. ASSUME NEW out \in Path, NEW tries \in 0 .. MaxTries, Repair(out, tries) PROVE RepairInv'
  <2>1. tries \in Nat
    BY RepairAssumption DEF RepairAssumption
  <2> QED
    BY <1>8, <2>1, BeginKeeps
<1>9. ASSUME NEW t \in Thread, Step(t) PROVE RepairInv'
  <2>1. CASE ReadFile(t)
    BY <2>1, QuietKeeps DEF ReadFile
  <2>2. CASE TryOne(t)
    BY <2>2, TryKeeps
  <2>3. CASE Choose(t)
    BY <2>3, QuietKeeps DEF Choose
  <2>4. CASE WriteOutput(t)
    BY <2>4, WriteKeeps
  <2>5. CASE Finish(t)
    BY <2>5, FinishKeeps
  <2> QED
    BY <1>9, <2>1, <2>2, <2>3, <2>4, <2>5 DEF Step
<1>10. CASE Alert
  <2>1. page'.file_path = page.file_path
    BY <1>10 DEF Alert
  <2> QED
    BY <1>0, <1>10, <2>1, PageKeeps DEF Alert
<1>11. CASE UNCHANGED vars
  BY <1>0, <1>11, PageKeeps DEF vars
<1> QED
  BY <1>1, <1>2, <1>3, <1>4, <1>5, <1>6, <1>7, <1>8, <1>9, <1>10, <1>11 DEF Next

\* A whole output is on the disk just when its repair was announced as complete,
\* unless a rival took the file or a stopped repair could not remove it, for any
\* files and any number of repairs (backend/repair.rs:2534-2701, 3670-3934).
THEOREM AnnouncedOutputs == Spec => []OutputAsAnnounced
<1>1. RepairInv => OutputAsAnnounced
  BY DEF RepairInv, Progress, OutputAsAnnounced
<1> QED
  BY <1>1, RepairInit, RepairNext, PTL DEF Spec
=============================================================================
