--------------------------- MODULE ScanApp_proofs ---------------------------
(***************************************************************************)
(* The worker with its threads, contexts, boxes, flags and channels: its   *)
(* invariants, what its channels carry, and that it implements             *)
(* ScanProtocol.  Then what the window makes of the events it handles, in  *)
(* the order of the channel and at any distance behind the worker.         *)
(***************************************************************************)
EXTENDS ScanApp, TLAPS, FiniteSetTheorems


Launched == { "started", "poll", "pollstop", "check", "finish" }
Preparing == { "image", "ddwait", "ddrecv1", "ddrecv2", "launch", "create" }
Destroying == { "destroyflag", "destroywait" }

\* A thread that uses its context says so, and is the current job's.
ThreadInv ==
    \A c \in Scan :
        /\ Alive(c) <=> running[c]
        /\ Alive(c) => /\ c = ctx /\ c = job
                       /\ wpc \in (Launched \ {"finish"}) \cup Destroying \cup {"drop"}
                       /\ wpc \in Destroying => ret = "exited"

JobInv ==
    /\ wpc \in Launched => job \in Scan /\ ctx = job
    /\ wpc \in Preparing => job \in Scan
    /\ wpc \in {"recv", "idlestop", "exited"} => job = NoScan
    /\ wpc \in Destroying /\ ret = "create" => job \in Scan
    /\ wpc = "drop" /\ job # NoScan => ctx = job

ContextInv ==
    /\ ctx # NoScan => alloc[ctx] = "live"
    /\ wpc \in {"create", "exited"} => ctx = NoScan
    /\ wpc \in Destroying \cup {"idlestop"} => ctx # NoScan

BoxInv ==
    /\ \A c \in Scan : box[c] = "live" => callbacks_data = c
    /\ wpc \in Launched => callbacks_data = job /\ box[job] = "live"
    /\ callbacks_data # NoScan => wpc \in Launched \cup {"drop"}

StopInv ==
    /\ wpc \in {"pollstop", "destroyflag"} => stop_requested[ctx]
    /\ \A c \in Scan : tpc[c] = "pass" /\ need_to_stop => stop_requested[c]
    /\ \A c \in Scan : Alive(c) /\ result[c] = "STOP" => stop_requested[c]
    /\ \A c \in Scan : ~Alive(c) => result[c] = "OK"

NoShutdownInv ==
    ~AllowShutdown =>
        /\ \A i \in DOMAIN cmds : cmds[i].type # "Shutdown"
        /\ wpc # "drop"
        /\ ret = "create"

IInv == TypeOK /\ ThreadInv /\ JobInv /\ ContextInv /\ BoxInv /\ StopInv /\ NoShutdownInv

-----------------------------------------------------------------------------
(***************************************************************************)
(* Type correctness.                                                       *)
(***************************************************************************)

\* A received command is a command, and so is what stays in the channel.
LEMMA HeadTail ==
    ASSUME cmds \in Seq(Command), cmds # << >>
    PROVE  Head(cmds) \in Command /\ Tail(cmds) \in Seq(Command)
  OBVIOUS

\* A StartScan names a scan.
LEMMA HeadStart ==
    ASSUME TypeOK, HeadIs("StartScan")
    PROVE  Head(cmds).scan \in Scan
  BY HeadTail DEF TypeOK, HeadIs, Command

\* Sending an event leaves a sequence of events.
LEMMA SendType ==
    ASSUME NEW t \in {"ScanStarted", "FileFound", "ScanComplete", "ScanStopped", "Error"},
           NEW c \in Scan \cup {NoScan},
           events \in Seq(Event), Send(t, c)
    PROVE  events' \in Seq(Event)
  BY DEF Send, Event

\* The first status and the step from one status to the next are statuses.
LEMMA FirstStatusType == ASSUME NEW o PROVE FirstStatus(o) \in Status
  BY DEF FirstStatus, Status

LEMMA StatusIncType ==
    ASSUME NEW s, NEW o
    PROVE  status_inc(s, o) \in Status
  BY DEF status_inc, Status, AfterCarve, AfterBruteForce

LEMMA PassOutcomesType ==
    ASSUME NEW s, NEW o PROVE PassOutcomes(s, o) \subseteq PStatus
  BY DEF PassOutcomes, PStatus

\* Starting a scan keeps the types of the engine's state.
LEMMA StartType ==
    ASSUME EngineTypeOK, NEW c \in Scan, NEW o \in Options, kaifuku_start_scan(c, o)
    PROVE  EngineTypeOK'
  BY DEF EngineTypeOK, kaifuku_start_scan, ThreadPC

LEMMA InitTypeOK == Init => TypeOK
<1> SUFFICES ASSUME Init PROVE TypeOK
  OBVIOUS
<1>1. SomeOptions \in Options
  BY DEF SomeOptions, Options
<1>2. EngineTypeOK
  BY <1>1 DEF Init, EngineInit, EngineTypeOK, ThreadPC, Status, PStatus
<1>3. cmds \in Seq(Command) /\ events \in Seq(Event)
  BY DEF Init
<1>. QED
  BY <1>2, <1>3 DEF Init, TypeOK, WorkerPC, Outcome

LEMMA NextTypeOK == TypeOK /\ [Next]_vars => TypeOK'
<1> SUFFICES ASSUME TypeOK, [Next]_vars PROVE TypeOK'
  OBVIOUS
<1> USE DEF TypeOK, engineVars, WorkerPC, Outcome
<1>1. ASSUME NEW c \in Scan, SubmitStart(c) PROVE TypeOK'
  <2>1. PICK img \in BOOLEAN : cmds' = Append(cmds, StartScan(c, img))
    BY <1>1, BoundsAssumption DEF SubmitStart
  <2>2. StartScan(c, img) \in Command
    BY DEF StartScan, Command
  <2>3. cmds' \in Seq(Command)
    BY <2>1, <2>2
  <2>. QED
    BY <1>1, <2>3 DEF SubmitStart, EngineTypeOK
<1>2. CASE SubmitStop
  BY <1>2 DEF SubmitStop, StopScan, Command, EngineTypeOK
<1>3. CASE SubmitShutdown
  BY <1>3 DEF SubmitShutdown, Shutdown, Command, EngineTypeOK
<1>4. CASE DdExits
  BY <1>4 DEF DdExits, EngineTypeOK
<1>5. CASE RecvStart
  BY <1>5, HeadTail, HeadStart, SendType DEF RecvStart, HeadIs, EngineTypeOK
<1>6. CASE RecvStop
  BY <1>6, HeadTail, SendType DEF RecvStop, HeadIs, kaifuku_stop_request, EngineTypeOK
<1>7. CASE IdleStopSignal
  BY <1>7, SendType DEF IdleStopSignal, kaifuku_stop_signal, EngineTypeOK
<1>8. CASE RecvShutdown
  BY <1>8, HeadTail DEF RecvShutdown, HeadIs, EngineTypeOK
<1>9. CASE SpawnDd
  BY <1>9, SendType DEF SpawnDd, EndJob, EngineTypeOK
<1>10. CASE DdWait
  BY <1>10, SendType DEF DdWait, EndJob, EngineTypeOK
<1>11. CASE DdReceiveStop
  BY <1>11, HeadTail, HeadStart, SendType DEF DdReceiveStop, DdReceive, HeadIs, Discard, EndJob, EngineTypeOK
<1>12. CASE DdReceiveShutdown
  BY <1>12, HeadTail, HeadStart, SendType DEF DdReceiveShutdown, DdReceive, HeadIs, Discard, EndJob, EngineTypeOK
<1>13. CASE TakeOldContext
  BY <1>13 DEF TakeOldContext, kaifuku_stop_request, EngineTypeOK
<1>14. CASE DestroySignal
  BY <1>14 DEF DestroySignal, kaifuku_stop_signal, EngineTypeOK
<1>15. CASE DestroyFree
  BY <1>15 DEF DestroyFree, kaifuku_destroy_free, EngineTypeOK
<1>16. CASE InitFails
  BY <1>16, SendType DEF InitFails, EndJob, EngineTypeOK
<1>17. CASE LaunchScan
  <2>1. PICK o \in Options : kaifuku_start_scan(job, o)
    BY <1>17, BoundsAssumption DEF LaunchScan
  <2>2. CASE job \in Scan
    <3>1. EngineTypeOK'
      BY <2>1, <2>2, StartType
    <3>. QED
      BY <1>17, <2>2, <3>1 DEF LaunchScan, Reclaimed
  <2>3. CASE job = NoScan
    <3>1. EngineTypeOK'
      BY <2>1, <2>3, NoScanAssumption DEF kaifuku_start_scan, EngineTypeOK
    <3>. QED
      BY <1>17, <2>3, <3>1, NoScanAssumption DEF LaunchScan, Reclaimed
  <2>. QED
    BY <2>2, <2>3
<1>18. CASE LaunchFails
  BY <1>18, SendType DEF LaunchFails, kaifuku_start_fails, Reclaimed, EndJob, EngineTypeOK
<1>19. CASE SendStarted
  BY <1>19, SendType DEF SendStarted, EngineTypeOK
<1>20. CASE PollStop
  BY <1>20, HeadTail DEF PollStop, HeadIs, kaifuku_stop_request, EngineTypeOK
<1>21. CASE PollStopSignal
  BY <1>21 DEF PollStopSignal, kaifuku_stop_signal, EngineTypeOK
<1>22. CASE PollShutdown
  BY <1>22, HeadTail DEF PollShutdown, HeadIs, EngineTypeOK
<1>23. CASE PollOther
  BY <1>23, HeadTail DEF PollOther, HeadIs, Discard, EngineTypeOK
<1>24. CASE CheckRunning
  BY <1>24 DEF CheckRunning, EngineTypeOK
<1>25. CASE FinishJob
  BY <1>25, SendType DEF FinishJob, Reclaimed, EndJob, EngineTypeOK
<1>26. CASE DropController
  BY <1>26 DEF DropController, kaifuku_stop_request, Reclaimed, EngineTypeOK
<1>27. ASSUME NEW c \in Scan, OpenFails(c), UNCHANGED workerVars PROVE TypeOK'
  BY <1>27 DEF OpenFails, GoTo, ThreadPC, workerVars, EngineTypeOK
<1>28. ASSUME NEW c \in Scan, OpenDevice(c), UNCHANGED workerVars PROVE TypeOK'
  BY <1>28, FirstStatusType DEF OpenDevice, GoTo, ThreadPC, workerVars, EngineTypeOK
<1>29. ASSUME NEW c \in Scan, LoopTest(c), UNCHANGED workerVars PROVE TypeOK'
  BY <1>29 DEF LoopTest, GoTo, ThreadPC, workerVars, EngineTypeOK
<1>30. ASSUME NEW c \in Scan, BeginPass(c), UNCHANGED workerVars PROVE TypeOK'
  BY <1>30, ZenonT(60) DEF BeginPass, GoTo, ThreadPC, PStatus, workerVars, EngineTypeOK
<1>31. ASSUME NEW c \in Scan, PassStopped(c), UNCHANGED workerVars PROVE TypeOK'
  BY <1>31 DEF PassStopped, GoTo, ThreadPC, PStatus, workerVars, EngineTypeOK
<1>32. ASSUME NEW c \in Scan, PassEnds(c), UNCHANGED workerVars PROVE TypeOK'
  BY <1>32, PassOutcomesType DEF PassEnds, GoTo, ThreadPC, workerVars, EngineTypeOK
<1>33. ASSUME NEW c \in Scan, AfterPassStop(c), UNCHANGED workerVars PROVE TypeOK'
  BY <1>33 DEF AfterPassStop, GoTo, ThreadPC, workerVars, EngineTypeOK
<1>34. ASSUME NEW c \in Scan, AfterPassError(c), UNCHANGED workerVars PROVE TypeOK'
  BY <1>34 DEF AfterPassError, GoTo, ThreadPC, workerVars, EngineTypeOK
<1>35. ASSUME NEW c \in Scan, AfterPassNext(c), UNCHANGED workerVars PROVE TypeOK'
  BY <1>35, StatusIncType DEF AfterPassNext, GoTo, ThreadPC, workerVars, EngineTypeOK
<1>36. ASSUME NEW c \in Scan, FinishScan(c), UNCHANGED workerVars PROVE TypeOK'
  BY <1>36, ZenonT(60) DEF FinishScan, GoTo, ThreadPC, workerVars, EngineTypeOK
<1>37. ASSUME NEW c \in Scan, ClearRunning(c), UNCHANGED workerVars PROVE TypeOK'
  BY <1>37 DEF ClearRunning, GoTo, ThreadPC, PStatus, workerVars, EngineTypeOK
<1>38. ASSUME NEW c \in Scan, ReportFile(c) PROVE TypeOK'
  BY <1>38, SendType DEF ReportFile, PassReport, EngineTypeOK
<1>39. CASE UNCHANGED vars
  BY <1>39 DEF vars, workerVars, EngineTypeOK
<1>. QED
  BY <1>1, <1>2, <1>3, <1>4, <1>5, <1>6, <1>7, <1>8, <1>9, <1>10, <1>11,
     <1>12, <1>13, <1>14, <1>15, <1>16, <1>17, <1>18, <1>19, <1>20, <1>21,
     <1>22, <1>23, <1>24, <1>25, <1>26, <1>27, <1>28, <1>29, <1>30, <1>31,
     <1>32, <1>33, <1>34, <1>35, <1>36, <1>37, <1>38, <1>39 DEF Next,
     Client, Worker, ScanThread, SilentStep

THEOREM TypeCorrect == Spec => []TypeOK
<1>. QED
  BY InitTypeOK, NextTypeOK, PTL DEF Spec

-----------------------------------------------------------------------------
(***************************************************************************)
(* The inductive invariant holds initially and is preserved.               *)
(***************************************************************************)

\* No Shutdown is left in the channel when a command is received.
LEMMA TailNoShutdown ==
    ASSUME TypeOK, cmds # << >>, \A i \in DOMAIN cmds : cmds[i].type # "Shutdown"
    PROVE  \A i \in DOMAIN Tail(cmds) : Tail(cmds)[i].type # "Shutdown"
  BY DEF TypeOK

LEMMA InitIInv == Init => IInv
  BY InitTypeOK, NoScanAssumption
     DEF Init, EngineInit, IInv, ThreadInv, JobInv, ContextInv, BoxInv, StopInv,
         NoShutdownInv, Alive, Launched, Preparing, Destroying

\* Receiving a command while dd runs: no scan thread is there to be disturbed.
LEMMA DdReceiveIInv ==
    ASSUME IInv, TypeOK', NEW wanted,
           NEW from \in {"ddrecv1", "ddrecv2"}, NEW to \in {"ddrecv2", "ddwait"},
           DdReceive(from, wanted, to)
    PROVE  IInv'
<1> USE DEF IInv, TypeOK, EngineTypeOK, engineVars, Alive
<1>1. wpc' \in {"recv", "ddrecv2", "ddwait"} /\ wpc = from
  BY DEF DdReceive, EndJob
<1>2. job' = IF wpc' = "recv" THEN NoScan ELSE job
  BY DEF DdReceive, EndJob
<1>3. UNCHANGED << engineVars, ret, ctx, callbacks_data, box >>
  BY DEF DdReceive
<1>4. ThreadInv' /\ StopInv'
  BY <1>1, <1>3 DEF ThreadInv, StopInv, Launched, Destroying
<1>5. JobInv' /\ ContextInv' /\ BoxInv'
  BY <1>1, <1>2, <1>3 DEF JobInv, ContextInv, BoxInv, Launched, Preparing, Destroying
<1>6. NoShutdownInv'
  <2>1. cmds' = cmds \/ (cmds # << >> /\ cmds' = Tail(cmds))
    BY DEF DdReceive, HeadIs
  <2>. QED
    BY <2>1, <1>1, <1>3, TailNoShutdown DEF NoShutdownInv
<1>. QED
  BY <1>4, <1>5, <1>6

LEMMA NextIInv == IInv /\ [Next]_vars => IInv'
<1> SUFFICES ASSUME IInv, [Next]_vars PROVE IInv'
  OBVIOUS
<1>0. TypeOK'
  BY NextTypeOK DEF IInv
<1> USE <1>0, NoScanAssumption
    DEF IInv, TypeOK, EngineTypeOK, ThreadInv, JobInv, ContextInv, BoxInv, StopInv,
        NoShutdownInv, Alive, Launched, Preparing, Destroying, engineVars
<1>1. ASSUME NEW c \in Scan, SubmitStart(c) PROVE IInv'
  BY <1>1 DEF SubmitStart, StartScan
<1>2. CASE SubmitStop
  BY <1>2 DEF SubmitStop, StopScan
<1>3. CASE SubmitShutdown
  BY <1>3 DEF SubmitShutdown, Shutdown
<1>4. CASE DdExits
  BY <1>4 DEF DdExits
<1>5. CASE RecvStart
  BY <1>5, HeadStart, TailNoShutdown DEF RecvStart, HeadIs, Send
<1>6. CASE RecvStop
  BY <1>6, TailNoShutdown DEF RecvStop, HeadIs, kaifuku_stop_request
<1>7. CASE IdleStopSignal
  BY <1>7 DEF IdleStopSignal, kaifuku_stop_signal
<1>8. CASE RecvShutdown
  BY <1>8 DEF RecvShutdown, HeadIs
<1>9. CASE SpawnDd
  BY <1>9 DEF SpawnDd, EndJob
<1>10. CASE DdWait
  BY <1>10 DEF DdWait, EndJob
<1>11. CASE DdReceiveStop
  BY <1>11, DdReceiveIInv DEF DdReceiveStop
<1>12. CASE DdReceiveShutdown
  BY <1>12, DdReceiveIInv DEF DdReceiveShutdown
<1>13. CASE TakeOldContext
  BY <1>13 DEF TakeOldContext, kaifuku_stop_request
<1>14. CASE DestroySignal
  BY <1>14 DEF DestroySignal, kaifuku_stop_signal
<1>15. CASE DestroyFree
  BY <1>15 DEF DestroyFree, kaifuku_destroy_free
<1>16. CASE InitFails
  BY <1>16 DEF InitFails, EndJob
<1>17. CASE LaunchScan
  BY <1>17 DEF LaunchScan, kaifuku_start_scan, Reclaimed
<1>18. CASE LaunchFails
  BY <1>18 DEF LaunchFails, kaifuku_start_fails, Reclaimed, EndJob
<1>19. CASE SendStarted
  BY <1>19 DEF SendStarted
<1>20. CASE PollStop
  BY <1>20, TailNoShutdown DEF PollStop, HeadIs, kaifuku_stop_request
<1>21. CASE PollStopSignal
  BY <1>21, SMTT(60) DEF PollStopSignal, kaifuku_stop_signal
<1>22. CASE PollShutdown
  BY <1>22 DEF PollShutdown, HeadIs
<1>23. CASE PollOther
  <2>1. wpc = "poll" /\ wpc' = "check" /\ (cmds' = cmds \/ (cmds # << >> /\ cmds' = Tail(cmds)))
    BY <1>23 DEF PollOther, HeadIs
  <2>2. UNCHANGED << engineVars, ret, job, ctx, callbacks_data, box >>
    BY <1>23 DEF PollOther
  <2>3. NoShutdownInv'
    BY <2>1, <2>2, TailNoShutdown, ZenonT(60)
  <2>4. ThreadInv' /\ StopInv'
    BY <2>1, <2>2
  <2>5. JobInv' /\ ContextInv' /\ BoxInv'
    BY <2>1, <2>2
  <2>. QED
    BY <2>3, <2>4, <2>5
<1>24. CASE CheckRunning
  BY <1>24 DEF CheckRunning
<1>25. CASE FinishJob
  <2>1. wpc = "finish" /\ wpc' = "recv" /\ job' = NoScan
    BY <1>25 DEF FinishJob, EndJob
  <2>2. UNCHANGED << engineVars, ret, ctx, cmds >>
    BY <1>25 DEF FinishJob
  <2>3. box' = Reclaimed /\ callbacks_data' = NoScan
    BY <1>25 DEF FinishJob
  <2>4. \A c \in Scan : ~Alive(c)
    BY <2>1
  <2>5. BoxInv'
    BY <2>1, <2>3 DEF Reclaimed
  <2>6. ThreadInv' /\ StopInv'
    BY <2>1, <2>2, <2>4
  <2>7. JobInv' /\ ContextInv' /\ NoShutdownInv'
    BY <2>1, <2>2
  <2>. QED
    BY <2>5, <2>6, <2>7
<1>26. CASE DropController
  <2>1. box' = Reclaimed /\ callbacks_data' = NoScan
    BY <1>26 DEF DropController
  <2>2. wpc' \in {"exited", "destroyflag"}
    BY <1>26 DEF DropController
  <2>3. BoxInv'
    BY <2>1, <2>2 DEF Reclaimed
  <2>4. ThreadInv' /\ JobInv' /\ ContextInv' /\ StopInv' /\ NoShutdownInv'
    BY <1>26 DEF DropController, kaifuku_stop_request
  <2>. QED
    BY <2>3, <2>4
<1>27. ASSUME NEW c \in Scan, OpenFails(c), UNCHANGED workerVars PROVE IInv'
  BY <1>27 DEF OpenFails, GoTo, workerVars
<1>28. ASSUME NEW c \in Scan, OpenDevice(c), UNCHANGED workerVars PROVE IInv'
  BY <1>28 DEF OpenDevice, GoTo, workerVars
<1>29. ASSUME NEW c \in Scan, LoopTest(c), UNCHANGED workerVars PROVE IInv'
  BY <1>29 DEF LoopTest, GoTo, workerVars
<1>30. ASSUME NEW c \in Scan, BeginPass(c), UNCHANGED workerVars PROVE IInv'
  BY <1>30 DEF BeginPass, GoTo, workerVars
<1>31. ASSUME NEW c \in Scan, PassStopped(c), UNCHANGED workerVars PROVE IInv'
  BY <1>31 DEF PassStopped, GoTo, workerVars
<1>32. ASSUME NEW c \in Scan, PassEnds(c), UNCHANGED workerVars PROVE IInv'
  BY <1>32 DEF PassEnds, GoTo, workerVars, PassOutcomes
<1>33. ASSUME NEW c \in Scan, AfterPassStop(c), UNCHANGED workerVars PROVE IInv'
  BY <1>33 DEF AfterPassStop, GoTo, workerVars
<1>34. ASSUME NEW c \in Scan, AfterPassError(c), UNCHANGED workerVars PROVE IInv'
  BY <1>34 DEF AfterPassError, GoTo, workerVars
<1>35. ASSUME NEW c \in Scan, AfterPassNext(c), UNCHANGED workerVars PROVE IInv'
  BY <1>35 DEF AfterPassNext, GoTo, workerVars
<1>36. ASSUME NEW c \in Scan, FinishScan(c), UNCHANGED workerVars PROVE IInv'
  BY <1>36 DEF FinishScan, GoTo, workerVars
<1>37. ASSUME NEW c \in Scan, ClearRunning(c), UNCHANGED workerVars PROVE IInv'
  BY <1>37 DEF ClearRunning, GoTo, workerVars
<1>38. ASSUME NEW c \in Scan, ReportFile(c) PROVE IInv'
  BY <1>38 DEF ReportFile, PassReport
<1>39. CASE UNCHANGED vars
  BY <1>39 DEF vars, workerVars
<1>. QED
  BY <1>1, <1>2, <1>3, <1>4, <1>5, <1>6, <1>7, <1>8, <1>9, <1>10, <1>11,
     <1>12, <1>13, <1>14, <1>15, <1>16, <1>17, <1>18, <1>19, <1>20, <1>21,
     <1>22, <1>23, <1>24, <1>25, <1>26, <1>27, <1>28, <1>29, <1>30, <1>31,
     <1>32, <1>33, <1>34, <1>35, <1>36, <1>37, <1>38, <1>39 DEF Next,
     Client, Worker, ScanThread, SilentStep

THEOREM Invariance == Spec => []IInv
<1>. QED
  BY InitIInv, NextIInv, PTL DEF Spec

-----------------------------------------------------------------------------
(***************************************************************************)
(* What follows from it.                                                   *)
(***************************************************************************)

\* Two scan threads never run at once, however the commands arrive.
THEOREM SingleThread == Spec => []OneScanThread
<1>1. IInv => OneScanThread
  BY DEF IInv, ThreadInv, OneScanThread
<1>. QED
  BY <1>1, Invariance, PTL

\* No scan thread and no call of the controller uses a freed context, with
\* shutdowns and failed starts included.
THEOREM ContextsLive == Spec => [](ThreadContextLive /\ ControllerContextLive)
<1>1. IInv => ThreadContextLive /\ ControllerContextLive
  BY NoScanAssumption
     DEF IInv, ThreadInv, ContextInv, ThreadContextLive, ControllerContextLive
<1>. QED
  BY <1>1, Invariance, PTL

\* A pass is only ever cut short by a stop meant for its own scan.
THEOREM StopsAreOwn == Spec => []StopIsOwn
<1>1. IInv => StopIsOwn
  BY DEF IInv, StopInv, StopIsOwn
<1>. QED
  BY <1>1, Invariance, PTL

\* The boxed sender is never leaked.
THEOREM BoxesReclaimed == Spec => []NoBoxLost
<1>1. IInv => NoBoxLost
  BY NoScanAssumption DEF IInv, BoxInv, NoBoxLost, Launched
<1>. QED
  BY <1>1, Invariance, PTL

\* Without a Shutdown, a callback never uses a box that was reclaimed.
THEOREM BoxesLive == ASSUME ~AllowShutdown PROVE Spec => []CallbackBoxLive
<1>1. IInv => CallbackBoxLive
  BY NoScanAssumption
     DEF IInv, ThreadInv, BoxInv, NoShutdownInv, CallbackBoxLive, Alive, MayCallBack,
         Launched, Destroying, JobInv, ContextInv
<1>. QED
  BY <1>1, Invariance, PTL

-----------------------------------------------------------------------------
(***************************************************************************)
(* What the channels of the worker carry. The worker and the scan thread   *)
(* write to one channel of events; the proofs look at a step only for what *)
(* it sends and for what it does to the channel of commands.               *)
(***************************************************************************)

Polling == { "poll", "pollstop", "check", "finish" }
Over    == { "complete", "stopped" }
Final   == { "ScanComplete", "ScanStopped" }

\* Where the worker runs a scan it has announced, or images for one.
Announced == wpc \in { "image", "ddwait", "ddrecv1", "ddrecv2" } \cup Polling

\* No event of the channel es between the i-th and the j-th has one of the types T.
NoneBetween(es, i, j, T) == \A k \in DOMAIN es : i < k /\ k < j => es[k].type \notin T

\* A scan waits in the channel at most once, and as long as it is "queued".
QueueInv ==
    /\ \A i \in DOMAIN cmds : cmds[i].type = "StartScan" => outcome[cmds[i].scan] = "queued"
    /\ \A i, j \in DOMAIN cmds :
          cmds[i].type = "StartScan" /\ cmds[j].type = "StartScan" /\ cmds[i].scan = cmds[j].scan
             => i = j

\* The scan of the job is not over, and one that ended is.
JobAccepted == job # NoScan => outcome[job] = "accepted"
EndedIsOver == \A i \in DOMAIN events : EndsScan(events[i]) => outcome[events[i].scan] \in Over

\* The files sent since the last ScanStarted are those of the scan polled.
FilesInv ==
    wpc \in Polling =>
        \A f \in DOMAIN events :
            events[f].type = "FileFound" /\ NoneBetween(events, f, Len(events) + 1, { "ScanStarted" })
              => events[f].scan = job

\* So are those before a ScanComplete.
CompleteInv ==
    \A f, k \in DOMAIN events :
        /\ f < k /\ events[f].type = "FileFound" /\ events[k].type = "ScanComplete"
        /\ NoneBetween(events, f, k, { "ScanStarted" })
        => events[f].scan = events[k].scan

\* A worker that is busy has announced what it does.
ShownInv ==
    Announced => \E k \in DOMAIN events :
              events[k].type = "ScanStarted" /\ NoneBetween(events, k, Len(events) + 1, Final)

CommandInv == QueueInv /\ JobAccepted
EventInv   == EndedIsOver /\ NothingAfterEnd /\ FilesInv /\ CompleteInv /\ ShownInv

-----------------------------------------------------------------------------
(* Sequences *)

\* What Send does to the channel.
LEMMA Sent ==
    ASSUME TypeOK, NEW e, events' = Append(events, e)
    PROVE  /\ Len(events) \in Nat /\ Len(events') = Len(events) + 1
           /\ DOMAIN events = 1 .. Len(events) /\ DOMAIN events' = 1 .. Len(events) + 1
           /\ \A i \in DOMAIN events : events'[i] = events[i]
           /\ events'[Len(events) + 1] = e
  BY DEF TypeOK

\* What is in the channel of commands after the first was received.
LEMMA Received ==
    ASSUME TypeOK, cmds # << >>
    PROVE  /\ 1 \in DOMAIN cmds /\ Head(cmds) = cmds[1]
           /\ \A i \in DOMAIN Tail(cmds) : i \in Nat \ {0} /\ i + 1 \in DOMAIN cmds
                                             /\ Tail(cmds)[i] = cmds[i + 1]
  BY DEF TypeOK

\* What Append does to the channel of commands.
LEMMA Submitted ==
    ASSUME TypeOK, NEW m, cmds' = Append(cmds, m)
    PROVE  /\ Len(cmds) \in Nat /\ DOMAIN cmds = 1 .. Len(cmds)
           /\ DOMAIN cmds' = 1 .. Len(cmds) + 1
           /\ \A i \in DOMAIN cmds : cmds'[i] = cmds[i]
           /\ cmds'[Len(cmds) + 1] = m
  BY DEF TypeOK

\* A StartScan in the channel names a scan.
LEMMA QueuedScans ==
    ASSUME TypeOK
    PROVE  \A i \in DOMAIN cmds : cmds[i].type = "StartScan" => cmds[i].scan \in Scan
<1>1. \A i \in DOMAIN cmds : cmds[i] \in Command
  BY DEF TypeOK
<1>. QED
  BY <1>1 DEF Command

-----------------------------------------------------------------------------
(* Commands *)

\* A step does one of five things to the commands and the outcomes: nothing,
\* the end of the job, a command more, or one less with or without the end of
\* the job; one less may be a StartScan that is taken up or dropped.
Keeps == UNCHANGED << cmds, outcome, job >>

Ends ==
    /\ job \in Scan
    /\ UNCHANGED cmds \/ (cmds # << >> /\ Head(cmds).type # "StartScan" /\ cmds' = Tail(cmds))
    /\ \E how \in { "complete", "stopped", "error", "abandoned" } :
          outcome' = [ outcome EXCEPT ![job] = how ]
    /\ job' = NoScan

Submits ==
    /\ UNCHANGED job
    /\ \E m \in Command :
         /\ cmds' = Append(cmds, m)
         /\ IF m.type = "StartScan"
              THEN outcome[m.scan] = "new" /\ outcome' = [ outcome EXCEPT ![m.scan] = "queued" ]
            ELSE UNCHANGED outcome

Drops ==
    /\ cmds # << >> /\ cmds' = Tail(cmds) /\ UNCHANGED job
    /\ IF Head(cmds).type = "StartScan"
         THEN outcome' = [ outcome EXCEPT ![Head(cmds).scan] = "discarded" ]
       ELSE UNCHANGED outcome

Takes ==
    /\ cmds # << >> /\ cmds' = Tail(cmds) /\ Head(cmds).type = "StartScan"
    /\ job' = Head(cmds).scan
    /\ outcome' = [ outcome EXCEPT ![Head(cmds).scan] = "accepted" ]

LEMMA CommandKinds ==
    ASSUME IInv, [Next]_vars
    PROVE  Keeps \/ Ends \/ Submits \/ Drops \/ Takes
<1> USE DEF IInv, TypeOK
<1>1. ASSUME NEW c \in Scan, SubmitStart(c) PROVE Submits
  <2>1. PICK img \in BOOLEAN : cmds' = Append(cmds, StartScan(c, img))
    BY <1>1, BoundsAssumption DEF SubmitStart
  <2>2. StartScan(c, img) \in Command
    BY DEF StartScan, Command
  <2>. QED
    BY <1>1, <2>1, <2>2 DEF SubmitStart, Submits, StartScan
<1>2. SubmitStop \/ SubmitShutdown => Submits
  <2>1. StopScan \in Command /\ Shutdown \in Command
    BY DEF StopScan, Shutdown, Command
  <2>. QED
    BY <2>1 DEF SubmitStop, SubmitShutdown, Submits, StopScan, Shutdown
<1>3. RecvStart => Takes
  BY DEF RecvStart, HeadIs, Takes
<1>4. RecvStop \/ RecvShutdown \/ PollStop \/ PollShutdown => Drops
  BY DEF RecvStop, RecvShutdown, PollStop, PollShutdown, HeadIs, Drops
<1>5. PollOther => Keeps \/ Drops
  BY DEF PollOther, HeadIs, Drops, Keeps, Discard
<1>6. ASSUME NEW from \in { "ddrecv1", "ddrecv2" }, NEW to,
             NEW wanted \in { "StopScan", "Shutdown" }, DdReceive(from, wanted, to)
      PROVE Keeps \/ Drops \/ Ends
  <2>1. job \in Scan
    BY <1>6 DEF DdReceive, JobInv, Preparing
  <2>. QED
    BY <1>6, <2>1 DEF DdReceive, HeadIs, Keeps, Drops, Ends, EndJob, Discard
<1>7. SpawnDd \/ DdWait \/ InitFails \/ LaunchFails \/ FinishJob => Keeps \/ Ends
  <2>1. SpawnDd \/ DdWait \/ InitFails \/ LaunchFails \/ FinishJob => job \in Scan
    BY DEF SpawnDd, DdWait, InitFails, LaunchFails, FinishJob, JobInv, Preparing, Launched
  <2>. QED
    BY <2>1 DEF SpawnDd, DdWait, InitFails, LaunchFails, FinishJob, EndJob, Keeps, Ends
<1>8. DestroyFree => Keeps \/ Ends
  BY DEF DestroyFree, Keeps, Ends
<1>ended. \/ IdleStopSignal \/ TakeOldContext \/ DestroySignal \/ LaunchScan \/ SendStarted
      \/ PollStopSignal \/ CheckRunning \/ DropController \/ DdExits
      => Keeps
  BY DEF IdleStopSignal, TakeOldContext, DestroySignal, LaunchScan, SendStarted,
         PollStopSignal, CheckRunning, DropController, DdExits, Keeps
<1>10. ASSUME NEW c \in Scan, ScanThread(c) PROVE Keeps
  BY <1>10 DEF ScanThread, ReportFile, workerVars, Keeps
<1>11. UNCHANGED vars => Keeps
  BY DEF vars, workerVars, Keeps
<1>. QED
  BY <1>1, <1>2, <1>3, <1>4, <1>5, <1>6, <1>7, <1>8, <1>ended, <1>10, <1>11
     DEF Next, Client, Worker, DdReceiveStop, DdReceiveShutdown

\* The queue and the job stay what they are, and what is over stays over.
LEMMA CommandStep ==
    ASSUME IInv, CommandInv, [Next]_vars
    PROVE  /\ CommandInv'
           /\ \A c \in Scan : outcome[c] \in Over => outcome'[c] \in Over
<1> USE NoScanAssumption DEF CommandInv, QueueInv, JobAccepted, IInv, Over
<1>1. CASE Keeps
  BY <1>1 DEF Keeps
<1>2. CASE Ends
  <2>1. outcome \in [ Scan -> Outcome ] /\ job \in Scan \cup { NoScan } /\ TypeOK
    BY DEF TypeOK
  <2>2. \A i \in DOMAIN cmds : cmds[i].type = "StartScan" => cmds[i].scan # job
    BY <1>2 DEF Ends
  <2>3. CASE UNCHANGED cmds
    BY <1>2, <2>1, <2>2, <2>3 DEF Ends
  <2>4. CASE cmds # << >> /\ cmds' = Tail(cmds)
    BY <1>2, <2>1, <2>2, <2>4, Received DEF Ends
  <2>. QED
    BY <1>2, <2>3, <2>4 DEF Ends
<1>3. CASE Submits
  <2>1. PICK m \in Command :
           /\ cmds' = Append(cmds, m)
           /\ IF m.type = "StartScan"
                THEN outcome[m.scan] = "new" /\ outcome' = [ outcome EXCEPT ![m.scan] = "queued" ]
              ELSE UNCHANGED outcome
    BY <1>3 DEF Submits
  <2>2. UNCHANGED job
    BY <1>3 DEF Submits
  <2>3. outcome \in [ Scan -> Outcome ] /\ job \in Scan \cup { NoScan } /\ TypeOK
        /\ (m.type = "StartScan" => m.scan \in Scan)
    BY DEF TypeOK, Command
  <2>4. JobAccepted' /\ \A c \in Scan : outcome[c] \in Over => outcome'[c] \in Over
    BY <2>1, <2>2, <2>3
  <2>5. \A i \in DOMAIN cmds : cmds[i].type = "StartScan" =>
           /\ cmds[i].scan \in Scan /\ outcome[cmds[i].scan] = "queued"
           /\ outcome'[cmds[i].scan] = "queued"
    BY <2>1, <2>3, QueuedScans
  <2>6. QueueInv'
    BY <2>1, <2>3, <2>5, Submitted
  <2>. QED
    BY <2>4, <2>6
<1>4. CASE Drops \/ Takes
  <2>1. outcome \in [ Scan -> Outcome ] /\ job \in Scan \cup { NoScan } /\ TypeOK
    BY DEF TypeOK
  <2>2. cmds # << >> /\ cmds' = Tail(cmds)
    BY <1>4 DEF Drops, Takes
  <2>3. Head(cmds).type = "StartScan" =>
          /\ Head(cmds).scan \in Scan /\ outcome[Head(cmds).scan] = "queued"
          /\ \A i \in DOMAIN cmds :
                i # 1 /\ cmds[i].type = "StartScan" => cmds[i].scan # Head(cmds).scan
    BY <2>1, <2>2, Received, HeadStart DEF HeadIs
  <2>4. outcome' = outcome
        \/ \E how \in { "accepted", "discarded" } :
             /\ Head(cmds).type = "StartScan"
             /\ outcome' = [ outcome EXCEPT ![Head(cmds).scan] = how ]
    BY <1>4 DEF Drops, Takes
  <2>5. \A i \in DOMAIN Tail(cmds) :
           Tail(cmds)[i].type = "StartScan" => outcome'[Tail(cmds)[i].scan] = "queued"
    <3>1. TAKE i \in DOMAIN Tail(cmds)
    <3>2. HAVE Tail(cmds)[i].type = "StartScan"
    <3>3. i + 1 \in DOMAIN cmds /\ Tail(cmds)[i] = cmds[i + 1] /\ i + 1 # 1
      BY <2>1, <2>2, Received
    <3>4. outcome[cmds[i + 1].scan] = "queued" /\ cmds[i + 1].scan \in Scan
      BY <2>1, <3>2, <3>3, QueuedScans
    <3>. QED
      BY <2>1, <2>3, <2>4, <3>2, <3>3, <3>4
  <2>6. \A i, j \in DOMAIN Tail(cmds) :
           /\ Tail(cmds)[i].type = "StartScan" /\ Tail(cmds)[j].type = "StartScan"
           /\ Tail(cmds)[i].scan = Tail(cmds)[j].scan
           => i = j
    <3>1. TAKE i, j \in DOMAIN Tail(cmds)
    <3>2. /\ i \in Nat /\ i + 1 \in DOMAIN cmds /\ Tail(cmds)[i] = cmds[i + 1]
          /\ j \in Nat /\ j + 1 \in DOMAIN cmds /\ Tail(cmds)[j] = cmds[j + 1]
      BY <2>1, <2>2, Received
    <3>. QED
      BY <3>2
  <2>7. JobAccepted'
    BY <1>4, <2>1, <2>3, <2>4 DEF Drops, Takes
  <2>. QED
    BY <2>1, <2>2, <2>3, <2>4, <2>5, <2>6, <2>7
<1>. QED
  BY <1>1, <1>2, <1>3, <1>4, CommandKinds

-----------------------------------------------------------------------------
(* Events *)

\* A step sends nothing, and then takes the worker to no place where it is busy
\* or polls from one where it is not; or it sends one event.
Silent ==
    /\ UNCHANGED events
    /\ wpc' \in Polling => wpc \in Polling /\ job' = job
    /\ Announced' => Announced

Starts ==
    \E c \in Scan :
        /\ Send("ScanStarted", c) /\ outcome[c] \notin Over

Finds == \E c \in Scan : c = job /\ Send("FileFound", c) /\ UNCHANGED << wpc, job >>

Fails == \E c \in Scan : c = job /\ Send("Error", c) /\ wpc' = "recv"

Completes ==
    \E c \in Scan :
        /\ c = job /\ wpc \in Polling
        /\ Send("ScanComplete", c) /\ wpc' = "recv" /\ outcome'[c] \in Over

Stops ==
    /\ wpc' = "recv"
    /\ \/ Send("ScanStopped", NoScan)
       \/ \E c \in Scan : c = job /\ Send("ScanStopped", c) /\ outcome'[c] \in Over

LEMMA EventKinds ==
    ASSUME IInv, CommandInv, [Next]_vars
    PROVE  Silent \/ Starts \/ Finds \/ Fails \/ Completes \/ Stops
<1> USE DEF IInv, TypeOK, Polling, Over, Announced
<1>1. Client \/ DdExits => Silent
  BY DEF Client, SubmitStart, SubmitStop, SubmitShutdown, DdExits, Silent
<1>2. RecvStart => Silent \/ Starts
  <2>1. RecvStart => /\ Head(cmds).scan \in Scan
                     /\ outcome[Head(cmds).scan] = "queued"
    BY HeadStart, Received DEF RecvStart, HeadIs, CommandInv, QueueInv
  <2>. QED
    BY <2>1 DEF RecvStart, Silent, Starts
<1>3. RecvStop => Silent \/ Stops
  BY DEF RecvStop, Silent, Stops
<1>4. IdleStopSignal => Stops
  BY DEF IdleStopSignal, Stops
<1>5. RecvShutdown \/ TakeOldContext \/ DestroySignal \/ DestroyFree \/ LaunchScan => Silent
  BY DEF RecvShutdown, TakeOldContext, DestroySignal, DestroyFree, LaunchScan, Silent
<1>6. SpawnDd \/ DdWait \/ InitFails \/ LaunchFails => Silent \/ Fails
  BY DEF SpawnDd, DdWait, InitFails, LaunchFails, EndJob, Silent, Fails, JobInv, Preparing
<1>7. ASSUME NEW from \in { "ddrecv1", "ddrecv2" }, NEW to \in { "ddrecv2", "ddwait" },
             NEW wanted, DdReceive(from, wanted, to)
      PROVE Silent \/ Fails
  BY <1>7 DEF DdReceive, EndJob, Silent, Fails, JobInv, Preparing
<1>8. SendStarted => Starts
  BY NoScanAssumption DEF SendStarted, Starts, JobInv, Launched, CommandInv, JobAccepted
<1>ended. PollStop \/ PollStopSignal \/ PollShutdown \/ PollOther \/ CheckRunning => Silent
  BY DEF PollStop, PollStopSignal, PollShutdown, PollOther, CheckRunning, Silent
<1>10. FinishJob => Completes \/ Stops
  BY DEF FinishJob, EndJob, Completes, Stops, JobInv, Launched
<1>11. DropController => Silent
  BY DEF DropController, Silent
<1>12. ASSUME NEW c \in Scan, ScanThread(c) PROVE Silent \/ Finds
  <2>1. CASE UNCHANGED workerVars
    BY <2>1 DEF workerVars, Silent
  <2>2. CASE ReportFile(c)
    <3>1. c = job
      BY <2>2 DEF ReportFile, PassReport, ThreadInv, Alive
    <3>. QED
      BY <2>2, <3>1 DEF ReportFile, Finds
  <2>. QED
    BY <1>12, <2>1, <2>2 DEF ScanThread
<1>13. UNCHANGED vars => Silent
  BY DEF vars, workerVars, Silent
<1>. QED
  BY <1>1, <1>2, <1>3, <1>4, <1>5, <1>6, <1>7, <1>8, <1>ended, <1>10, <1>11, <1>12, <1>13
     DEF Next, Worker, DdReceiveStop, DdReceiveShutdown

\* A new event is the last one: between two older ones nothing changes, and
\* what came after an older one is followed by the new one.
LEMMA NoneBetweenSent ==
    ASSUME TypeOK, NEW e, events' = Append(events, e), NEW T
    PROVE  /\ \A i \in DOMAIN events, j \in 1 .. Len(events) + 1 :
                 NoneBetween(events', i, j, T) <=> NoneBetween(events, i, j, T)
           /\ \A i \in DOMAIN events :
                 NoneBetween(events', i, Len(events') + 1, T) <=>
                   NoneBetween(events, i, Len(events) + 1, T) /\ e.type \notin T
<1>1. /\ Len(events) \in Nat /\ Len(events') = Len(events) + 1
      /\ DOMAIN events = 1 .. Len(events) /\ DOMAIN events' = 1 .. Len(events) + 1
      /\ \A i \in DOMAIN events : events'[i] = events[i]
      /\ events'[Len(events) + 1] = e
  BY Sent
<1>2. ASSUME NEW i \in DOMAIN events, NEW j \in 1 .. Len(events) + 1
      PROVE  NoneBetween(events', i, j, T) <=> NoneBetween(events, i, j, T)
  BY <1>1 DEF NoneBetween
<1>3. ASSUME NEW i \in DOMAIN events
      PROVE  NoneBetween(events', i, Len(events') + 1, T) <=>
               NoneBetween(events, i, Len(events) + 1, T) /\ e.type \notin T
  BY <1>1 DEF NoneBetween
<1>. QED
  BY <1>2, <1>3

\* No event follows the end of its scan, and the channel tells what runs.
LEMMA EventStep ==
    ASSUME IInv, CommandInv, EventInv, [Next]_vars
    PROVE  EventInv'
<1>0. TypeOK /\ TypeOK' /\ DOMAIN events = 1 .. Len(events) /\ Len(events) \in Nat
  BY NextTypeOK DEF IInv, TypeOK
<1>ended. \A i \in DOMAIN events : EndsScan(events[i]) =>
       /\ events[i].scan \in Scan
       /\ outcome[events[i].scan] \in Over /\ outcome'[events[i].scan] \in Over
  <2>1. \A i \in DOMAIN events : events[i] \in Event
    BY <1>0 DEF TypeOK
  <2>2. \A i \in DOMAIN events : EndsScan(events[i]) => events[i].scan \in Scan
    BY <2>1 DEF EndsScan, Event
  <2>. QED
    BY <2>2, CommandStep DEF EventInv, EndedIsOver
<1>1. CASE Silent
  <2>1. EndedIsOver'
    BY <1>1, <1>ended DEF Silent, EndedIsOver
  <2>2. (NothingAfterEnd /\ CompleteInv)'
    BY <1>1 DEF Silent, EventInv, NothingAfterEnd, EndsScan, CompleteInv, NoneBetween
  <2>3. FilesInv'
    BY <1>1 DEF Silent, EventInv, FilesInv, NoneBetween
  <2>4. ShownInv'
    BY <1>1 DEF Silent, EventInv, ShownInv, NoneBetween
  <2>. QED
    BY <2>1, <2>2, <2>3, <2>4 DEF EventInv
<1>2. ASSUME NEW t, NEW c, Send(t, c),
             c \in Scan => outcome[c] \notin Over,
             c \in Scan \cup { NoScan },
             t \in Final /\ c # NoScan => outcome'[c] \in Over
      PROVE  EndedIsOver' /\ NothingAfterEnd'
  <2>1. EndedIsOver'
    <3>1. SUFFICES ASSUME NEW i \in DOMAIN events', EndsScan(events'[i])
                   PROVE  outcome'[events'[i].scan] \in Over
      BY DEF EndedIsOver
    <3>2. CASE i \in DOMAIN events
      BY <1>0, <1>2, <1>ended, <3>1, <3>2, Sent DEF Send
    <3>3. CASE i = Len(events) + 1
      BY <1>0, <1>2, <3>1, <3>3, Sent DEF Send, EndsScan, Final
    <3>. QED
      BY <1>0, <1>2, <3>2, <3>3, Sent DEF Send
  <2>2. NothingAfterEnd'
    <3>1. SUFFICES ASSUME NEW i \in DOMAIN events', NEW j \in DOMAIN events',
                          i < j, EndsScan(events'[i])
                   PROVE  events'[j].scan # events'[i].scan
      BY DEF NothingAfterEnd, EndsScan
    <3>2. i \in DOMAIN events /\ events'[i] = events[i]
      BY <1>0, <1>2, <3>1, Sent DEF Send
    <3>3. CASE j \in DOMAIN events
      BY <1>0, <1>2, <3>1, <3>2, <3>3, Sent DEF Send, EventInv, NothingAfterEnd
    <3>4. CASE j = Len(events) + 1
      BY <1>0, <1>2, <1>ended, <3>1, <3>2, <3>4, Sent DEF Send
    <3>. QED
      BY <1>0, <1>2, <3>3, <3>4, Sent DEF Send
  <2>. QED
    BY <2>1, <2>2
<1>3. ASSUME NEW t, NEW c, Send(t, c),
             t = "ScanComplete" => c = job /\ wpc \in Polling
      PROVE  CompleteInv'
  <2>1. SUFFICES ASSUME NEW f \in DOMAIN events', NEW k \in DOMAIN events', f < k,
                        events'[f].type = "FileFound", events'[k].type = "ScanComplete",
                        NoneBetween(events', f, k, { "ScanStarted" })
                 PROVE  events'[f].scan = events'[k].scan
    BY DEF CompleteInv
  <2>2. f \in DOMAIN events /\ events'[f] = events[f] /\ k \in 1 .. Len(events) + 1
    BY <1>0, <1>3, <2>1, Sent DEF Send
  <2>3. NoneBetween(events, f, k, { "ScanStarted" })
    BY <1>0, <1>3, <2>1, <2>2, NoneBetweenSent DEF Send
  <2>4. CASE k \in DOMAIN events
    BY <1>0, <1>3, <2>1, <2>2, <2>3, <2>4, Sent DEF Send, EventInv, CompleteInv
  <2>5. CASE k = Len(events) + 1
    BY <1>0, <1>3, <2>1, <2>2, <2>3, <2>5, Sent DEF Send, EventInv, FilesInv
  <2>. QED
    BY <1>0, <2>2, <2>4, <2>5
<1>4. CASE Starts
  <2>1. PICK c \in Scan : Send("ScanStarted", c) /\ outcome[c] \notin Over
    BY <1>4 DEF Starts
  <2>2. EndedIsOver' /\ NothingAfterEnd'
    BY <2>1, <1>2 DEF Final
  <2>3. CompleteInv'
    BY <2>1, <1>3
  <2>4. FilesInv'
    <3>1. \A f \in DOMAIN events : ~ NoneBetween(events', f, Len(events') + 1, { "ScanStarted" })
      BY <1>0, <2>1, NoneBetweenSent DEF Send
    <3>. QED
      BY <1>0, <2>1, <3>1, Sent DEF Send, FilesInv
  <2>5. ShownInv'
    BY <1>0, <2>1, Sent DEF Send, ShownInv, NoneBetween
  <2>. QED
    BY <2>2, <2>3, <2>4, <2>5 DEF EventInv
<1>5. CASE Finds
  <2>1. PICK c \in Scan : c = job /\ Send("FileFound", c) /\ UNCHANGED << wpc, job >>
    BY <1>5 DEF Finds
  <2>2. EndedIsOver' /\ NothingAfterEnd'
    BY <2>1, <1>2, NoScanAssumption DEF Final, CommandInv, JobAccepted, Over
  <2>3. CompleteInv'
    BY <2>1, <1>3
  <2>4. FilesInv'
    BY <1>0, <2>1, Sent, NoneBetweenSent DEF Send, FilesInv, EventInv
  <2>5. ShownInv'
    <3>1. SUFFICES ASSUME Announced' PROVE ShownInv'
      BY DEF ShownInv
    <3>2. PICK k \in DOMAIN events :
             events[k].type = "ScanStarted" /\ NoneBetween(events, k, Len(events) + 1, Final)
      BY <2>1, <3>1 DEF EventInv, ShownInv, Announced
    <3>3. k \in DOMAIN events' /\ events'[k] = events[k]
      BY <1>0, <2>1, Sent DEF Send
    <3>4. NoneBetween(events', k, Len(events') + 1, Final)
      BY <1>0, <2>1, <3>2, NoneBetweenSent DEF Send, Final
    <3>. QED
      BY <3>2, <3>3, <3>4 DEF ShownInv
  <2>. QED
    BY <2>2, <2>3, <2>4, <2>5 DEF EventInv
<1>6. CASE Fails \/ Completes \/ Stops
  <2>1. wpc' = "recv"
    BY <1>6 DEF Fails, Completes, Stops
  <2>2. FilesInv' /\ ShownInv'
    BY <2>1 DEF FilesInv, ShownInv, Polling, Announced
  <2>3. PICK t \in { "Error", "ScanComplete", "ScanStopped" }, c \in Scan \cup { NoScan } :
           /\ Send(t, c) /\ c \in { job, NoScan }
           /\ t = "ScanComplete" => c = job /\ wpc \in Polling
           /\ t \in Final /\ c # NoScan => outcome'[c] \in Over
    BY <1>6 DEF Fails, Completes, Stops, Final
  <2>4. c \in Scan => outcome[c] \notin Over
    BY <2>3, NoScanAssumption DEF CommandInv, JobAccepted, Over
  <2>5. EndedIsOver' /\ NothingAfterEnd'
    BY <2>3, <2>4, <1>2
  <2>6. CompleteInv'
    BY <2>3, <1>3
  <2>. QED
    BY <2>2, <2>5, <2>6 DEF EventInv
<1>. QED
  BY <1>1, <1>4, <1>5, <1>6, EventKinds

\* The invariant of the worker and of its channels.
WorkerInv == IInv /\ CommandInv /\ EventInv

LEMMA InitWorkerInv == Init => WorkerInv
<1> SUFFICES ASSUME Init PROVE WorkerInv
  OBVIOUS
<1>1. IInv
  BY InitIInv
<1>2. events = << >> /\ cmds = << >> /\ job = NoScan /\ wpc = "recv"
  BY DEF Init
<1>. QED
  BY <1>1, <1>2 DEF WorkerInv, CommandInv, QueueInv, JobAccepted, EventInv, EndedIsOver,
     NothingAfterEnd, FilesInv, CompleteInv, ShownInv, Polling, Announced

LEMMA NextWorkerInv == WorkerInv /\ [Next]_vars => WorkerInv'
  BY NextIInv, CommandStep, EventStep DEF WorkerInv

\* Whatever a scan thread and the worker send, and in whatever order, no file
\* or start of a scan comes after the event the window takes its results at.
THEOREM NothingFollowsEnd == Spec => []NothingAfterEnd
<1>1. WorkerInv => NothingAfterEnd
  BY DEF WorkerInv, EventInv
<1>. QED
  BY <1>1, InitWorkerInv, NextWorkerInv, PTL DEF Spec

-----------------------------------------------------------------------------
(***************************************************************************)
(* The worker with its threads and channels implements ScanProtocol.       *)
(***************************************************************************)

\* The scan of the job has not been launched yet.
Unlaunched == wpc \in Preparing \/ (wpc \in Destroying /\ ret = "create")

\* A stop is noted only while the scan it cuts runs or is being abandoned.
CutInv ==
    stopped => /\ job # NoScan
               /\ wpc \in Polling \cup { "drop" } \cup Destroying
               /\ ~ Unlaunched

\* A scan that waits or is not launched has announced nothing.
UnannouncedInv ==
    \A i \in DOMAIN events :
        events[i].type = "FileFound" =>
            /\ events[i].scan \in Scan
            /\ outcome[events[i].scan] \notin { "new", "queued" }
            /\ Unlaunched => events[i].scan # job

RefineInv == WorkerInv /\ CutInv /\ UnannouncedInv

-----------------------------------------------------------------------------
(* Files announced *)

\* No event of a new file keeps the counts.
LEMMA CountSame ==
    ASSUME TypeOK, NEW e, events' = Append(events, e), e.type # "FileFound"
    PROVE  FileCount' = FileCount
<1>1. \A c \in Scan : FilesReported(c)' = FilesReported(c)
  <2>1. TAKE c \in Scan
  <2>2. /\ DOMAIN events' = DOMAIN events \cup { Len(events) + 1 }
        /\ \A i \in DOMAIN events : events'[i] = events[i]
        /\ events'[Len(events) + 1] # [ type |-> "FileFound", scan |-> c ]
    BY Sent
  <2>. QED
    BY <2>2 DEF FilesReported
<1>. QED
  BY <1>1 DEF FileCount

LEMMA CountMore ==
    ASSUME TypeOK, NEW c \in Scan, events' = Append(events, [ type |-> "FileFound", scan |-> c ])
    PROVE  FileCount' = [ FileCount EXCEPT ![c] = @ + 1 ]
<1>1. /\ Len(events) \in Nat /\ DOMAIN events = 1 .. Len(events)
      /\ DOMAIN events' = 1 .. Len(events) + 1
      /\ \A i \in DOMAIN events : events'[i] = events[i]
      /\ events'[Len(events) + 1] = [ type |-> "FileFound", scan |-> c ]
  BY Sent
<1>2. FilesReported(c)' = FilesReported(c) \cup { Len(events) + 1 }
  BY <1>1 DEF FilesReported
<1>3. ASSUME NEW d \in Scan, d # c PROVE FilesReported(d)' = FilesReported(d)
  <2>1. [ type |-> "FileFound", scan |-> c ] # [ type |-> "FileFound", scan |-> d ]
    BY <1>3
  <2>. QED
    BY <1>1, <2>1 DEF FilesReported
<1>4. IsFiniteSet(FilesReported(c)) /\ Len(events) + 1 \notin FilesReported(c)
  <2>1. FilesReported(c) \subseteq 1 .. Len(events)
    BY <1>1 DEF FilesReported
  <2>2. IsFiniteSet(1 .. Len(events))
    BY <1>1, FS_Interval
  <2>3. IsFiniteSet(FilesReported(c))
    BY <2>1, <2>2, FS_Subset
  <2>. QED
    BY <1>1, <2>1, <2>3
<1>5. Cardinality(FilesReported(c)') = Cardinality(FilesReported(c)) + 1
  BY <1>2, <1>4, FS_AddElement
<1>. QED
  BY <1>3, <1>5 DEF FileCount

\* Nothing announced is nothing counted.
LEMMA CountNone ==
    ASSUME TypeOK, NEW c \in Scan,
           \A i \in DOMAIN events : events[i].type = "FileFound" => events[i].scan # c
    PROVE  FileCount[c] = 0
<1>1. FilesReported(c) = {}
  BY DEF FilesReported
<1>. QED
  BY <1>1, FS_EmptySet DEF FileCount

-----------------------------------------------------------------------------
(* The steps the protocol tells apart *)

NoFile == UNCHANGED events \/ \E e : e.type # "FileFound" /\ events' = Append(events, e)

Mute ==
    /\ UNCHANGED << job, stopped >> /\ NoFile /\ (Unlaunched' => Unlaunched)
    /\ \/ UNCHANGED outcome
       \/ \E c \in Scan : outcome[c] = "new" /\ outcome' = [ outcome EXCEPT ![c] = "queued" ]

Accepts ==
    \E c \in Scan :
        /\ job = NoScan /\ outcome[c] = "queued" /\ NoFile
        /\ job' = c /\ stopped' = FALSE /\ outcome' = [ outcome EXCEPT ![c] = "accepted" ]

Discards ==
    \E c \in Scan :
        /\ job # NoScan /\ outcome[c] = "queued" /\ NoFile /\ (Unlaunched' => Unlaunched)
        /\ outcome' = [ outcome EXCEPT ![c] = "discarded" ] /\ UNCHANGED << job, stopped >>

Announces ==
    \E c \in Scan :
        /\ c = job /\ ~ Unlaunched' /\ outcome[c] = "accepted"
        /\ Send("FileFound", c) /\ UNCHANGED << job, stopped, outcome >>

Cuts ==
    /\ job # NoScan /\ NoFile /\ ~ Unlaunched'
    /\ stopped' = TRUE /\ UNCHANGED << job, outcome >>

HowItEnds ==
    { "abandoned" } \cup (IF stopped THEN { "stopped" } ELSE { "complete" })
                    \cup (IF Unlaunched /\ ~ stopped THEN { "error" } ELSE {})

EndsJob ==
    \E c \in Scan, how \in HowItEnds :
        /\ c = job /\ NoFile /\ ~ Unlaunched'
        /\ job' = NoScan /\ stopped' = FALSE /\ outcome' = [ outcome EXCEPT ![c] = how ]

LEMMA StepKinds ==
    ASSUME RefineInv, [Next]_vars
    PROVE  /\ Mute \/ Accepts \/ Discards \/ Announces \/ Cuts \/ EndsJob
           /\ CutInv'
<1> USE NoScanAssumption DEF RefineInv, WorkerInv, IInv, TypeOK, CutInv, Unlaunched,
        Preparing, Destroying, Polling
<1>1. Client \/ DdExits => Mute /\ CutInv'
  <2>1. ASSUME NEW c \in Scan, SubmitStart(c) PROVE Mute /\ CutInv'
    BY <2>1 DEF SubmitStart, Mute, NoFile
  <2>2. SubmitStop \/ SubmitShutdown \/ DdExits => Mute /\ CutInv'
    BY DEF SubmitStop, SubmitShutdown, DdExits, Mute, NoFile
  <2>. QED
    BY <2>1, <2>2 DEF Client
<1>2. RecvStart => Accepts /\ CutInv'
  <2>1. RecvStart => /\ Head(cmds).scan \in Scan
                     /\ outcome[Head(cmds).scan] = "queued"
                     /\ job = NoScan
    BY HeadStart, Received DEF RecvStart, HeadIs, CommandInv, QueueInv, JobInv
  <2>2. RecvStart => NoFile
    BY DEF RecvStart, Send, NoFile
  <2>3. RecvStart => stopped' = FALSE
    BY DEF RecvStart
  <2>4. RecvStart => CutInv'
    BY <2>3
  <2>5. RecvStart => Accepts
    BY <2>1, <2>2, <2>3 DEF RecvStart, Accepts
  <2>. QED
    BY <2>4, <2>5
<1>3. RecvStop \/ IdleStopSignal \/ RecvShutdown => Mute /\ CutInv'
  <2>1. RecvStop \/ IdleStopSignal \/ RecvShutdown => NoFile
    BY DEF RecvStop, IdleStopSignal, RecvShutdown, Send, NoFile
  <2>. QED
    BY <2>1 DEF RecvStop, IdleStopSignal, RecvShutdown, Mute
<1>4. TakeOldContext \/ DestroySignal \/ LaunchScan \/ SendStarted => Mute /\ CutInv'
  <2>1. TakeOldContext \/ DestroySignal \/ LaunchScan \/ SendStarted => NoFile
    BY DEF TakeOldContext, DestroySignal, LaunchScan, SendStarted, Send, NoFile
  <2>2. TakeOldContext \/ DestroySignal \/ LaunchScan => Mute /\ CutInv'
    BY <2>1 DEF TakeOldContext, DestroySignal, LaunchScan, Mute
  <2>3. SendStarted => Mute /\ CutInv'
    BY <2>1 DEF SendStarted, Mute
  <2>. QED
    BY <2>2, <2>3
<1>5. DestroyFree => (Mute \/ EndsJob) /\ CutInv'
  BY DEF DestroyFree, Mute, NoFile, EndsJob, HowItEnds
<1>6. SpawnDd \/ DdWait \/ InitFails \/ LaunchFails => (Mute \/ EndsJob) /\ CutInv'
  <2>1. SpawnDd \/ DdWait \/ InitFails \/ LaunchFails => NoFile
    BY DEF SpawnDd, DdWait, InitFails, LaunchFails, Send, NoFile
  <2>2. SpawnDd \/ DdWait \/ InitFails \/ LaunchFails => job \in Scan /\ ~ stopped /\ Unlaunched
    BY DEF SpawnDd, DdWait, InitFails, LaunchFails, JobInv
  <2>. QED
    BY <2>1, <2>2 DEF SpawnDd, DdWait, InitFails, LaunchFails, EndJob, Mute, EndsJob, HowItEnds
<1>7. ASSUME NEW from \in { "ddrecv1", "ddrecv2" }, NEW to \in { "ddrecv2", "ddwait" },
             NEW wanted \in { "StopScan", "Shutdown" }, DdReceive(from, wanted, to)
      PROVE (Mute \/ Discards \/ EndsJob) /\ CutInv'
  <2>1. job \in Scan /\ ~ stopped /\ Unlaunched
    BY <1>7 DEF DdReceive, JobInv
  <2>2. CASE HeadIs("StartScan") /\ cmds' = Tail(cmds)
    <3>1. Head(cmds).scan \in Scan /\ outcome[Head(cmds).scan] = "queued"
      BY <2>2, HeadStart, Received DEF HeadIs, CommandInv, QueueInv
    <3>. QED
      BY <1>7, <2>1, <2>2, <3>1 DEF DdReceive, HeadIs, Discard, Discards, NoFile
  <2>3. CASE ~ (HeadIs("StartScan") /\ cmds' = Tail(cmds))
    <3>1. NoFile
      BY <1>7 DEF DdReceive, Send, NoFile
    <3>. QED
      BY <1>7, <2>1, <2>3, <3>1 DEF DdReceive, EndJob, Mute, EndsJob, HowItEnds
  <2>. QED
    BY <2>2, <2>3
<1>8. PollStop \/ PollShutdown \/ CheckRunning => Mute /\ CutInv'
  BY DEF PollStop, PollShutdown, CheckRunning, Mute, NoFile, JobInv
<1>9. PollStopSignal => Cuts /\ CutInv'
  BY DEF PollStopSignal, Cuts, NoFile, JobInv, Launched
<1>10. PollOther => (Mute \/ Discards) /\ CutInv'
  <2>1. PollOther => job \in Scan
    BY DEF PollOther, JobInv, Launched
  <2>2. PollOther /\ HeadIs("StartScan") =>
           Head(cmds).scan \in Scan /\ outcome[Head(cmds).scan] = "queued"
    BY HeadStart, Received DEF HeadIs, CommandInv, QueueInv
  <2>. QED
    BY <2>1, <2>2 DEF PollOther, Discard, Mute, Discards, NoFile
<1>11. FinishJob => EndsJob /\ CutInv'
  <2>1. FinishJob => NoFile
    BY DEF FinishJob, Send, NoFile
  <2>. QED
    BY <2>1 DEF FinishJob, EndJob, EndsJob, HowItEnds, JobInv, Launched
<1>12. DropController => Mute /\ CutInv'
  BY DEF DropController, Mute, NoFile, JobInv
<1>13. ASSUME NEW c \in Scan, ScanThread(c) PROVE (Mute \/ Announces) /\ CutInv'
  <2>1. CASE UNCHANGED workerVars
    BY <2>1 DEF workerVars, Mute, NoFile
  <2>2. CASE ReportFile(c)
    <3>1. c = job /\ ~ Unlaunched
      BY <2>2 DEF ReportFile, PassReport, ThreadInv, Alive, Launched
    <3>2. outcome[c] = "accepted"
      BY <3>1 DEF CommandInv, JobAccepted
    <3>. QED
      BY <2>2, <3>1, <3>2 DEF ReportFile, Announces
  <2>. QED
    BY <1>13, <2>1, <2>2 DEF ScanThread
<1>14. UNCHANGED vars => Mute /\ CutInv'
  BY DEF vars, workerVars, Mute, NoFile
<1>. QED
  BY <1>1, <1>2, <1>3, <1>4, <1>5, <1>6, <1>7, <1>8, <1>9, <1>10, <1>11, <1>12, <1>13, <1>14
     DEF Next, Worker, DdReceiveStop, DdReceiveShutdown

\* What was announced before a silent step is what is announced after it.
LEMMA NoFileKeeps ==
    ASSUME TypeOK, NoFile
    PROVE  /\ UNCHANGED FileCount
           /\ \A i \in DOMAIN events' :
                 events'[i].type = "FileFound" => i \in DOMAIN events /\ events'[i] = events[i]
<1>1. CASE UNCHANGED events
  BY <1>1 DEF FileCount, FilesReported
<1>2. ASSUME NEW e, e.type # "FileFound", events' = Append(events, e)
      PROVE  /\ UNCHANGED FileCount
             /\ \A i \in DOMAIN events' :
                   events'[i].type = "FileFound" => i \in DOMAIN events /\ events'[i] = events[i]
  <2>1. UNCHANGED FileCount
    BY <1>2, CountSame
  <2>2. /\ DOMAIN events' = DOMAIN events \cup { Len(events) + 1 }
        /\ \A i \in DOMAIN events : events'[i] = events[i]
        /\ events'[Len(events) + 1] = e
    BY <1>2, Sent
  <2>. QED
    BY <1>2, <2>1, <2>2
<1>. QED
  BY <1>1, <1>2 DEF NoFile

LEMMA UnannouncedStep ==
    ASSUME RefineInv, [Next]_vars
    PROVE  UnannouncedInv'
<1>0. /\ TypeOK /\ outcome \in [ Scan -> Outcome ] /\ UnannouncedInv
      /\ (job # NoScan => job \in Scan /\ outcome[job] = "accepted")
  BY DEF RefineInv, WorkerInv, IInv, TypeOK, CommandInv, JobAccepted
<1>1. CASE Announces
  <2>1. PICK c \in Scan : /\ c = job /\ ~ Unlaunched' /\ outcome[c] = "accepted"
                          /\ events' = Append(events, [ type |-> "FileFound", scan |-> c ])
                          /\ UNCHANGED outcome
    BY <1>1 DEF Announces, Send
  <2>2. SUFFICES ASSUME NEW i \in DOMAIN events', events'[i].type = "FileFound"
                 PROVE  events'[i].scan \in Scan
                        /\ outcome'[events'[i].scan] \notin { "new", "queued" }
    BY <2>1 DEF UnannouncedInv
  <2>3. CASE i \in DOMAIN events
    BY <1>0, <2>1, <2>2, <2>3, Sent DEF UnannouncedInv
  <2>4. CASE i = Len(events) + 1
    BY <1>0, <2>1, <2>4, Sent
  <2>. QED
    BY <1>0, <2>1, <2>2, <2>3, <2>4, Sent
<1>2. CASE NoFile /\ ~ Announces
  <2>1. SUFFICES ASSUME NEW i \in DOMAIN events', events'[i].type = "FileFound"
                 PROVE  /\ events'[i].scan \in Scan
                        /\ outcome'[events'[i].scan] \notin { "new", "queued" }
                        /\ Unlaunched' => events'[i].scan # job'
    BY DEF UnannouncedInv
  <2>2. /\ events'[i] = events[i] /\ events[i].scan \in Scan
        /\ outcome[events[i].scan] \notin { "new", "queued" }
        /\ Unlaunched => events[i].scan # job
    <3>1. i \in DOMAIN events /\ events'[i] = events[i]
      BY <1>0, <1>2, <2>1, NoFileKeeps
    <3>. QED
      BY <1>0, <2>1, <3>1 DEF UnannouncedInv
  <2>3. CASE Mute
    BY <1>0, <2>2, <2>3 DEF Mute
  <2>4. CASE Accepts
    BY <1>0, <2>2, <2>4 DEF Accepts
  <2>5. CASE Discards
    BY <1>0, <2>2, <2>5 DEF Discards
  <2>6. CASE Cuts
    BY <1>0, <2>2, <2>6 DEF Cuts
  <2>7. CASE EndsJob
    BY <1>0, <2>2, <2>7 DEF EndsJob, HowItEnds
  <2>. QED
    BY <1>2, <2>3, <2>4, <2>5, <2>6, <2>7, StepKinds
<1>. QED
  BY <1>1, <1>2, StepKinds DEF Mute, Accepts, Discards, Cuts, EndsJob

LEMMA InitRefineInv == Init => RefineInv
<1> SUFFICES ASSUME Init PROVE RefineInv
  OBVIOUS
<1>1. events = << >> /\ stopped = FALSE
  BY DEF Init
<1>. QED
  BY <1>1, InitWorkerInv DEF RefineInv, CutInv, UnannouncedInv

LEMMA NextRefineInv == RefineInv /\ [Next]_vars => RefineInv'
  BY NextWorkerInv, StepKinds, UnannouncedStep DEF RefineInv

-----------------------------------------------------------------------------
(* The refinement *)

\* A change of one outcome is a change of one fate.
LEMMA FateChange ==
    ASSUME TypeOK, NEW c \in Scan, NEW how \in Outcome \ { "new" },
           outcome' = [ outcome EXCEPT ![c] = how ]
    PROVE  Fate' = [ Fate EXCEPT ![c] = IF how = "queued" THEN "waiting"
                                        ELSE IF how = "accepted" THEN "running" ELSE how ]
  BY DEF TypeOK, Fate, Outcome

LEMMA ProtocolInit == Init => Protocol!Init
<1> SUFFICES ASSUME Init PROVE Protocol!Init
  OBVIOUS
<1>1. events = << >> /\ outcome = [ c \in Scan |-> "new" ] /\ job = NoScan /\ stopped = FALSE
  BY DEF Init
<1>2. \A c \in Scan : FileCount[c] = 0
  BY <1>1, InitTypeOK, CountNone
<1>. QED
  BY <1>1, <1>2 DEF Protocol!Init, Fate, FileCount

LEMMA ProtocolStep ==
    ASSUME RefineInv, [Next]_vars
    PROVE  [Protocol!Next]_(Protocol!vars)
<1>0. TypeOK /\ outcome \in [ Scan -> Outcome ] /\ NoScan \notin Scan /\ job \in Scan \cup { NoScan }
  BY NoScanAssumption DEF RefineInv, WorkerInv, IInv, TypeOK
<1>1. CASE Mute
  <2>1. UNCHANGED << job, stopped, FileCount >>
    BY <1>0, <1>1, NoFileKeeps DEF Mute
  <2>2. UNCHANGED Fate
    BY <1>0, <1>1 DEF Mute, Fate
  <2>. QED
    BY <2>1, <2>2 DEF Protocol!vars
<1>2. CASE Accepts
  <2>1. PICK c \in Scan :
           /\ job = NoScan /\ outcome[c] = "queued" /\ NoFile
           /\ job' = c /\ stopped' = FALSE /\ outcome' = [ outcome EXCEPT ![c] = "accepted" ]
    BY <1>2 DEF Accepts
  <2>2. Fate[c] = "waiting" /\ Fate' = [ Fate EXCEPT ![c] = "running" ] /\ UNCHANGED FileCount
    BY <1>0, <2>1, FateChange, NoFileKeeps DEF Fate, Outcome
  <2>3. Protocol!Begin(c)
    BY <2>1, <2>2 DEF Protocol!Begin
  <2>. QED
    BY <2>3 DEF Protocol!Next
<1>3. CASE Discards
  <2>1. PICK c \in Scan :
           /\ job # NoScan /\ outcome[c] = "queued" /\ NoFile
           /\ outcome' = [ outcome EXCEPT ![c] = "discarded" ] /\ UNCHANGED << job, stopped >>
    BY <1>3 DEF Discards
  <2>2. Fate[c] = "waiting" /\ Fate' = [ Fate EXCEPT ![c] = "discarded" ] /\ UNCHANGED FileCount
    BY <1>0, <2>1, FateChange, NoFileKeeps DEF Fate, Outcome
  <2>3. Protocol!TurnAway(c)
    BY <2>1, <2>2 DEF Protocol!TurnAway
  <2>. QED
    BY <2>3 DEF Protocol!Next
<1>4. CASE Announces
  <2>1. PICK c \in Scan : c = job /\ UNCHANGED << job, stopped, outcome >>
                          /\ events' = Append(events, [ type |-> "FileFound", scan |-> c ])
    BY <1>4 DEF Announces, Send
  <2>2. UNCHANGED Fate /\ FileCount' = [ FileCount EXCEPT ![c] = @ + 1 ]
    BY <1>0, <2>1, CountMore DEF Fate
  <2>3. Protocol!Announce(c)
    BY <2>1, <2>2 DEF Protocol!Announce
  <2>. QED
    BY <2>3 DEF Protocol!Next
<1>5. CASE Cuts
  <2>1. UNCHANGED << Fate, FileCount, job >> /\ job # NoScan /\ stopped' = TRUE
    BY <1>0, <1>5, NoFileKeeps DEF Cuts, Fate
  <2>2. Protocol!TakeStop
    BY <2>1 DEF Protocol!TakeStop
  <2>. QED
    BY <2>2 DEF Protocol!Next
<1>6. CASE EndsJob
  <2>1. PICK c \in Scan, how \in HowItEnds :
           /\ c = job /\ NoFile /\ job' = NoScan /\ stopped' = FALSE
           /\ outcome' = [ outcome EXCEPT ![c] = how ]
    BY <1>6 DEF EndsJob
  <2>2. Fate' = [ Fate EXCEPT ![c] = how ] /\ UNCHANGED FileCount
    <3>1. how \in { "abandoned", "stopped", "complete", "error" }
      BY DEF HowItEnds
    <3>. QED
      BY <1>0, <2>1, <3>1, FateChange, NoFileKeeps DEF Outcome
  <2>3. how \in Protocol!HowEnded(c)
    <3>1. CASE how = "error"
      <4>1. Unlaunched /\ ~ stopped
        BY <3>1 DEF HowItEnds
      <4>2. FileCount[c] = 0
        BY <1>0, <2>1, <4>1, CountNone DEF RefineInv, UnannouncedInv
      <4>. QED
        BY <3>1, <4>1, <4>2 DEF Protocol!HowEnded
    <3>2. CASE how # "error"
      BY <3>2 DEF HowItEnds, Protocol!HowEnded
    <3>. QED
      BY <3>1, <3>2
  <2>4. Protocol!End(c)
    BY <2>1, <2>2, <2>3 DEF Protocol!End
  <2>. QED
    BY <2>4 DEF Protocol!Next
<1>. QED
  BY <1>1, <1>2, <1>3, <1>4, <1>5, <1>6, StepKinds

\* Every behaviour of the worker, its engine and its channels is one its
\* clients were promised: a scan at a time, files of the running scan alone,
\* and each scan ended once and as what it was.
THEOREM WorkerImplementsProtocol == Spec => ImplementsProtocol
  BY InitRefineInv, NextRefineInv, ProtocolInit, ProtocolStep, PTL
     DEF Spec, ImplementsProtocol, Protocol!Spec

-----------------------------------------------------------------------------
(***************************************************************************)
(* The window over the worker.                                             *)
(***************************************************************************)
\* The page shown is the one the events handled so far lead to.
PageInv ==
    /\ seen \in Nat /\ seen <= Len(events)
    /\ \A k \in DOMAIN events :
          /\ k <= seen /\ events[k].type = "ScanStarted" /\ NoneBetween(events, k, seen + 1, Final)
          => page = "Scanning"

\* The f-th event of the channel es put a file of scan c in the list, and is
\* among the first n, with no start of a scan after it.
Listed(es, n, f, c) ==
    /\ f <= n /\ es[f].type = "FileFound" /\ es[f].scan = c
    /\ NoneBetween(es, f, n + 1, { "ScanStarted" })

ListInv ==
    /\ recovered_files \in Seq(Scan \cup { NoScan })
    /\ \A x \in DOMAIN recovered_files :
          \E f \in DOMAIN events : Listed(events, seen, f, recovered_files[x])

AppInv == WorkerInv /\ PageInv /\ ListInv /\ ResultsAreOwn

LEMMA InitAppInv == AppInit => AppInv
<1> SUFFICES ASSUME AppInit PROVE AppInv
  OBVIOUS
<1>1. WorkerInv
  BY InitWorkerInv DEF AppInit
<1>2. events = << >> /\ seen = 0 /\ recovered_files = << >> /\ listed = << >>
  BY DEF AppInit, Init
<1>. QED
  BY <1>1, <1>2 DEF AppInv, PageInv, ListInv, ResultsAreOwn

\* For the worker the window is a client like any other.
LEMMA AppStep == [AppNext]_allVars => [Next]_vars
  BY DEF AppNext, Navigate, ClickStart, ClickStop, HandleEvent, Backend, Next, Client,
     allVars, appVars

\* The channel of events only grows.
LEMMA EventsGrow ==
    ASSUME WorkerInv, [Next]_vars
    PROVE  UNCHANGED events \/ \E e : events' = Append(events, e)
<1>1. Silent \/ Starts \/ Finds \/ Fails \/ Completes \/ Stops
  BY EventKinds DEF WorkerInv
<1>. QED
  BY <1>1 DEF Silent, Starts, Finds, Fails, Completes, Stops, Send

\* What the window knows of the events it has handled outlives a new event.
LEMMA HandledStays ==
    ASSUME WorkerInv, PageInv, ListInv, [Next]_vars, UNCHANGED << seen, page, recovered_files >>
    PROVE  PageInv' /\ ListInv'
<1>0. TypeOK /\ DOMAIN events = 1 .. Len(events) /\ Len(events) \in Nat
  BY DEF WorkerInv, IInv, TypeOK
<1>1. CASE UNCHANGED events
  BY <1>1 DEF PageInv, ListInv
<1>2. ASSUME NEW e, events' = Append(events, e) PROVE PageInv' /\ ListInv'
  <2>1. /\ Len(events') = Len(events) + 1
        /\ DOMAIN events' = 1 .. Len(events) + 1
        /\ \A i \in DOMAIN events : events'[i] = events[i]
        /\ seen \in Nat /\ seen <= Len(events) /\ seen + 1 \in 1 .. Len(events) + 1
    BY <1>0, <1>2, Sent DEF PageInv
  <2>2. \A i \in DOMAIN events : NoneBetween(events', i, seen + 1, Final)
                                   <=> NoneBetween(events, i, seen + 1, Final)
    BY <1>0, <1>2, <2>1, NoneBetweenSent
  <2>3. \A i \in DOMAIN events : NoneBetween(events', i, seen + 1, { "ScanStarted" })
                                   <=> NoneBetween(events, i, seen + 1, { "ScanStarted" })
    BY <1>0, <1>2, <2>1, NoneBetweenSent
  <2>4. PageInv'
    BY <1>0, <2>1, <2>2 DEF PageInv
  <2>5. ListInv'
    BY <1>0, <2>1, <2>3 DEF ListInv, Listed
  <2>. QED
    BY <2>4, <2>5
<1>. QED
  BY <1>1, <1>2, EventsGrow

\* What the window does with the next event, whose kind decides.
LEMMA HandleStep ==
    ASSUME AppInv, HandleEvent
    PROVE  PageInv' /\ ListInv' /\ ResultsAreOwn'
<1> DEFINE e == events[seen + 1]
<1>0. /\ DOMAIN events = 1 .. Len(events) /\ Len(events) \in Nat
      /\ seen \in Nat /\ seen < Len(events) /\ seen' = seen + 1 /\ UNCHANGED events
      /\ e \in Event /\ seen + 1 \in DOMAIN events
  BY DEF AppInv, WorkerInv, IInv, TypeOK, PageInv, HandleEvent, vars, workerVars
<1>1. \/ e.type = "ScanStarted"  /\ ShowStarted
      \/ e.type = "FileFound"    /\ ShowFile(e)
      \/ e.type = "ScanComplete" /\ ShowComplete(e)
      \/ e.type = "ScanStopped"  /\ ShowStopped
      \/ e.type = "Error"        /\ ShowError
  BY DEF HandleEvent
<1>2. \A T : \A k \in DOMAIN events :
         k <= seen /\ NoneBetween(events, k, seen + 2, T)
           => NoneBetween(events, k, seen + 1, T) /\ e.type \notin T
  BY <1>0 DEF NoneBetween
<1>3. PageInv'
  <2>1. SUFFICES ASSUME NEW k \in DOMAIN events, k <= seen + 1, events[k].type = "ScanStarted",
                        NoneBetween(events, k, seen + 2, Final)
                 PROVE  page' = "Scanning"
    BY <1>0 DEF PageInv
  <2>2. CASE k = seen + 1
    BY <1>1, <2>1, <2>2 DEF ShowStarted
  <2>3. CASE k <= seen
    <3>1. page = "Scanning" /\ e.type \notin Final
      BY <1>2, <2>1, <2>3 DEF AppInv, PageInv
    <3>. QED
      BY <1>1, <3>1 DEF Final, ShowStarted, ShowFile, ShowError
  <2>. QED
    BY <1>0, <2>1, <2>2, <2>3
<1>4. ListInv'
  <2>1. \A c : \A f \in DOMAIN events : Listed(events, seen, f, c) /\ e.type # "ScanStarted"
                                          => Listed(events, seen + 1, f, c)
    BY <1>0 DEF Listed, NoneBetween
  <2>2. CASE e.type = "ScanStarted"
    BY <1>1, <2>2 DEF ListInv, ShowStarted
  <2>3. CASE e.type = "FileFound"
    <3>1. recovered_files' = Append(recovered_files, e.scan)
      BY <1>1, <2>3 DEF ShowFile
    <3>2. /\ recovered_files \in Seq(Scan \cup { NoScan }) /\ e.scan \in Scan \cup { NoScan }
          /\ \A x \in DOMAIN recovered_files :
                \E f \in DOMAIN events : Listed(events, seen, f, recovered_files[x])
      BY <1>0 DEF AppInv, ListInv, Event
    <3>3. Listed(events, seen + 1, seen + 1, e.scan)
      BY <1>0, <2>3 DEF Listed, NoneBetween
    <3>4. \A x \in DOMAIN recovered_files' :
             \E f \in DOMAIN events : Listed(events, seen + 1, f, recovered_files'[x])
      BY <1>0, <2>1, <2>3, <3>1, <3>2, <3>3
    <3>. QED
      BY <1>0, <3>1, <3>2, <3>4 DEF ListInv
  <2>4. CASE e.type \in { "ScanComplete", "ScanStopped", "Error" }
    <3>1. UNCHANGED recovered_files
      BY <1>1, <2>4 DEF ShowComplete, ShowStopped, ShowError
    <3>. QED
      BY <1>0, <2>1, <2>4, <3>1 DEF AppInv, ListInv
  <2>. QED
    BY <1>1, <2>2, <2>3, <2>4
<1>5. ResultsAreOwn'
  <2>1. CASE e.type = "ScanComplete"
    <3>1. listed' = recovered_files /\ finished' = e.scan
      BY <1>1, <2>1 DEF ShowComplete
    <3>2. SUFFICES ASSUME NEW x \in DOMAIN recovered_files PROVE recovered_files[x] = e.scan
      BY <3>1 DEF ResultsAreOwn
    <3>3. PICK f \in DOMAIN events : Listed(events, seen, f, recovered_files[x])
      BY DEF AppInv, ListInv
    <3>. QED
      BY <1>0, <2>1, <3>3 DEF AppInv, WorkerInv, EventInv, CompleteInv, Listed
  <2>2. CASE e.type # "ScanComplete"
    <3>1. UNCHANGED << listed, finished >>
      BY <1>1, <2>2 DEF ShowStarted, ShowFile, ShowStopped, ShowError
    <3>. QED
      BY <3>1 DEF AppInv, ResultsAreOwn
  <2>. QED
    BY <2>1, <2>2
<1>. QED
  BY <1>3, <1>4, <1>5

LEMMA NextAppInv == AppInv /\ [AppNext]_allVars => AppInv'
<1> SUFFICES ASSUME AppInv, [AppNext]_allVars PROVE AppInv'
  OBVIOUS
<1>1. WorkerInv /\ [Next]_vars /\ PageInv /\ ListInv /\ ResultsAreOwn
  BY AppStep DEF AppInv
<1>2. WorkerInv'
  BY <1>1, NextWorkerInv
<1>3. CASE Navigate
  <2>1. page # "Scanning" /\ UNCHANGED << events, seen, recovered_files, listed, finished >>
    BY <1>3 DEF Navigate, Links, vars, workerVars
  <2>. QED
    BY <1>1, <1>2, <2>1 DEF AppInv, PageInv, ListInv, ResultsAreOwn
<1>4. CASE HandleEvent
  BY <1>2, <1>4, HandleStep DEF AppInv
<1>5. CASE UNCHANGED appVars
  <2>1. PageInv' /\ ListInv'
    BY <1>1, <1>5, HandledStays DEF appVars
  <2>2. ResultsAreOwn'
    BY <1>1, <1>5 DEF appVars, ResultsAreOwn
  <2>. QED
    BY <1>2, <2>1, <2>2 DEF AppInv
<1>. QED
  BY <1>3, <1>4, <1>5 DEF AppNext, ClickStart, ClickStop, Backend, allVars

\* The invariant of the window and the worker together.
THEOREM AppInvariance == AppSpec => []AppInv
  BY InitAppInv, NextAppInv, PTL DEF AppSpec

\* A results page lists the files of the scan that completed, though one list
\* serves all scans and its files come from another thread.
THEOREM ResultsOwn == AppSpec => []ResultsAreOwn
<1>1. AppInv => ResultsAreOwn
  BY DEF AppInv
<1>. QED
  BY <1>1, AppInvariance, PTL

\* While the worker is busy the page with the Stop button is up or on its way.
THEOREM StopAlwaysInReach == AppSpec => []StopInReach
<1>1. AppInv => StopInReach
  <2>1. SUFFICES ASSUME AppInv, Busy
                 PROVE  page = "Scanning" \/ \E e \in Pending : e.type = "ScanStarted"
    BY DEF StopInReach
  <2>2. DOMAIN events = 1 .. Len(events) /\ Len(events) \in Nat /\ seen \in Nat /\ seen <= Len(events)
    BY <2>1 DEF AppInv, WorkerInv, IInv, TypeOK, PageInv
  <2>3. PICK k \in DOMAIN events :
           events[k].type = "ScanStarted" /\ NoneBetween(events, k, Len(events) + 1, Final)
    BY <2>1 DEF AppInv, WorkerInv, EventInv, ShownInv, Busy, Announced, Polling
  <2>4. CASE k <= seen
    <3>1. NoneBetween(events, k, seen + 1, Final)
      BY <2>2, <2>3 DEF NoneBetween
    <3>. QED
      BY <2>1, <2>3, <2>4, <3>1 DEF AppInv, PageInv
  <2>5. CASE k \in seen + 1 .. Len(events)
    BY <2>3, <2>5 DEF Pending
  <2>. QED
    BY <2>2, <2>4, <2>5
<1>. QED
  BY <1>1, AppInvariance, PTL
=============================================================================
