----------------------------- MODULE ScanWorker -----------------------------
(***************************************************************************)
(* The worker thread of worker.rs and the controller of photorec.rs that   *)
(* it owns, composed with the scan engine.  Clients send commands over an  *)
(* unbounded channel; the worker runs one scan at a time, images the       *)
(* device with dd first when asked, polls for commands while the scan      *)
(* thread runs, and answers over a second channel that the scan thread     *)
(* writes to as well, through the boxed sender the controller hands to C.  *)
(*                                                                         *)
(* The events are kept as the history of the channel.  ProgressUpdate,     *)
(* LogMessage and Ready are left out: they change no state that matters    *)
(* here; that a log line uses the boxed sender is in MayCallBack.          *)
(***************************************************************************)
EXTENDS ScanEngine, Sequences, FiniteSets

CONSTANTS MaxStops,       \* bound: StopScan commands a client sends
          MaxReports,     \* bound: files one scan announces
          AllowShutdown,  \* whether a client sends Shutdown
          AllowImaging,   \* whether scans may ask for a dd image first
          ScanOptions     \* the options and file systems scans are run with

ASSUME BoundsAssumption ==
    /\ ScanOptions \subseteq Options
    /\ MaxStops \in Nat /\ MaxReports \in Nat
    /\ AllowShutdown \in BOOLEAN /\ AllowImaging \in BOOLEAN

VARIABLES
    wpc,              \* where the worker thread is
    ret,              \* where kaifuku_destroy returns to
    job,              \* the scan of the StartScan being worked on
    stopped,          \* the local stopped of worker_thread
    ctx,              \* PhotoRecController.ctx
    callbacks_data,   \* PhotoRecController.callbacks_data
    box,              \* the boxed senders: "unused", "live" or "freed"
    dd,               \* the dd child process
    cmds,             \* the command channel
    events,           \* every event sent, in order
    stops,            \* StopScans sent so far
    outcome           \* history: what became of each scan that was asked for

workerVars == << wpc, ret, job, stopped, ctx, callbacks_data, box, dd, cmds,
                 events, stops, outcome >>
vars == << engineVars, workerVars >>

WorkerPC == { "recv", "image", "ddwait", "ddrecv1", "ddrecv2", "launch",
              "create", "started", "poll", "pollstop", "check", "finish",
              "idlestop", "drop", "destroyflag", "destroywait", "exited" }

Outcome == { "new", "queued", "accepted", "complete", "stopped", "error",
             "discarded", "abandoned" }

Command == [ type : {"StartScan"}, scan : Scan, dd : BOOLEAN ]
             \cup [ type : {"StopScan", "Shutdown"}, scan : {NoScan}, dd : {FALSE} ]

Event == [ type : {"ScanStarted", "FileFound", "ScanComplete", "ScanStopped", "Error"},
           scan : Scan \cup {NoScan} ]

StartScan(c, img) == [ type |-> "StartScan", scan |-> c, dd |-> img ]
StopScan          == [ type |-> "StopScan",  scan |-> NoScan, dd |-> FALSE ]
Shutdown          == [ type |-> "Shutdown",  scan |-> NoScan, dd |-> FALSE ]

HeadIs(t) == cmds # << >> /\ Head(cmds).type = t

\* The scan an event is about is a history annotation.
Send(t, c) == events' = Append(events, [ type |-> t, scan |-> c ])

\* Mutated form: the outcome is stored in the wrong variable.
EndJobMixed(how) ==
    /\ outcome' = [outcome EXCEPT ![job] = how]
    /\ job' = how
    /\ stopped' = FALSE
    /\ wpc' = "recv"

\* The worker is done with a command, its locals go out of scope, and it
\* waits for the next.
EndJob(how) ==
    /\ outcome' = [outcome EXCEPT ![job] = how]
    /\ job' = NoScan
    /\ stopped' = FALSE
    /\ wpc' = "recv"

Init ==
    /\ EngineInit
    /\ wpc = "recv" /\ ret = "create" /\ job = NoScan /\ stopped = FALSE
    /\ ctx = NoScan /\ callbacks_data = NoScan
    /\ box = [c \in Scan |-> "unused"]
    /\ dd = "none"
    /\ cmds = << >> /\ events = << >> /\ stops = 0
    /\ outcome = [c \in Scan |-> "new"]

-----------------------------------------------------------------------------
(***************************************************************************)
(* The clients of the worker: any thread that holds the command sender.    *)
(***************************************************************************)
SubmitStart(c) ==
    /\ outcome[c] = "new"
    /\ \E img \in {FALSE, AllowImaging} : cmds' = Append(cmds, StartScan(c, img))
    /\ outcome' = [outcome EXCEPT ![c] = "queued"]
    /\ UNCHANGED << engineVars, wpc, ret, job, stopped, ctx, callbacks_data,
                    box, dd, events, stops >>

SubmitStop ==
    /\ stops < MaxStops
    /\ stops' = stops + 1
    /\ cmds' = Append(cmds, StopScan)
    /\ UNCHANGED << engineVars, wpc, ret, job, stopped, ctx, callbacks_data,
                    box, dd, events, outcome >>

SubmitShutdown ==
    /\ AllowShutdown
    /\ ~\E i \in DOMAIN cmds : cmds[i].type = "Shutdown"
    /\ wpc # "exited"
    /\ cmds' = Append(cmds, Shutdown)
    /\ UNCHANGED << engineVars, wpc, ret, job, stopped, ctx, callbacks_data,
                    box, dd, events, stops, outcome >>

Client == (\E c \in Scan : SubmitStart(c)) \/ SubmitStop \/ SubmitShutdown

-----------------------------------------------------------------------------
(***************************************************************************)
(* The worker waiting in receiver.recv().                                  *)
(***************************************************************************)
RecvStart ==
    /\ wpc = "recv" /\ HeadIs("StartScan")
    /\ cmds' = Tail(cmds)
    /\ job' = Head(cmds).scan
    /\ outcome' = [outcome EXCEPT ![Head(cmds).scan] = "accepted"]
    /\ IF Head(cmds).dd
       THEN wpc' = "image" /\ Send("ScanStarted", Head(cmds).scan)
       ELSE wpc' = "launch" /\ UNCHANGED events
    /\ UNCHANGED << engineVars, ret, stopped, ctx, callbacks_data, box, dd, stops >>

\* A stop while no scan runs is answered all the same; with a context left
\* from the last scan it raises that context's flags.
RecvStop ==
    /\ wpc = "recv" /\ HeadIs("StopScan")
    /\ cmds' = Tail(cmds)
    /\ IF ctx = NoScan
       THEN Send("ScanStopped", NoScan) /\ UNCHANGED << engineVars, wpc >>
       ELSE kaifuku_stop_request(ctx) /\ wpc' = "idlestop" /\ UNCHANGED events
    /\ UNCHANGED << ret, job, stopped, ctx, callbacks_data, box, dd, stops, outcome >>

IdleStopSignal ==
    /\ wpc = "idlestop"
    /\ kaifuku_stop_signal
    /\ Send("ScanStopped", NoScan)
    /\ wpc' = "recv"
    /\ UNCHANGED << ret, job, stopped, ctx, callbacks_data, box, dd, cmds, stops, outcome >>

RecvShutdown ==
    /\ wpc = "recv" /\ HeadIs("Shutdown")
    /\ cmds' = Tail(cmds)
    /\ wpc' = "drop"
    /\ UNCHANGED << engineVars, ret, job, stopped, ctx, callbacks_data, box, dd,
                    events, stops, outcome >>

-----------------------------------------------------------------------------
(***************************************************************************)
(* create_dd_image.                                                        *)
(***************************************************************************)

\* The image's directory cannot be made or dd not spawned, or dd runs.
SpawnDd ==
    /\ wpc = "image"
    /\ \/ /\ Send("Error", job) /\ EndJob("error") /\ UNCHANGED dd
       \/ /\ dd' = "running" /\ wpc' = "ddwait"
          /\ UNCHANGED << job, stopped, events, outcome >>
    /\ UNCHANGED << engineVars, ret, ctx, callbacks_data, box, cmds, stops >>

\* External: the dd process ends by itself.
DdExits ==
    /\ dd = "running"
    /\ dd' \in {"succeeded", "failed"}
    /\ UNCHANGED << engineVars, wpc, ret, job, stopped, ctx, callbacks_data, box,
                    cmds, events, stops, outcome >>

\* try_wait: dd has ended, is still running, or cannot be waited for (it is
\* then left behind, still running).
DdWait ==
    /\ wpc = "ddwait"
    /\ \/ /\ dd = "succeeded" /\ dd' = "none" /\ wpc' = "launch"
          /\ UNCHANGED << job, stopped, events, outcome >>
       \/ /\ dd # "succeeded" /\ dd' = "none" /\ Send("Error", job) /\ EndJob("error")
       \/ /\ dd = "running" /\ wpc' = "ddrecv1"
          /\ UNCHANGED << dd, job, stopped, events, outcome >>
    /\ UNCHANGED << engineVars, ret, ctx, callbacks_data, box, cmds, stops >>

\* A StartScan that is received while the worker is busy is dropped.
Discard(c) == outcome' = [outcome EXCEPT ![c] = "discarded"]

\* One of the two try_recv calls: the wanted command cancels the image, an
\* empty channel is passed over, and any other command is dropped.
DdReceive(from, wanted, to) ==
    /\ wpc = from
    /\ \/ /\ HeadIs(wanted)
          /\ cmds' = Tail(cmds)
          /\ dd' = "none" /\ Send("Error", job) /\ EndJob("error")
       \/ /\ cmds = << >>
          /\ wpc' = to
          /\ UNCHANGED << cmds, dd, events, job, stopped, outcome >>
       \/ /\ cmds # << >> /\ ~HeadIs(wanted)
          /\ cmds' = Tail(cmds)
          /\ IF HeadIs("StartScan") THEN Discard(Head(cmds).scan) ELSE UNCHANGED outcome
          /\ wpc' = to
          /\ UNCHANGED << dd, events, job, stopped >>
    /\ UNCHANGED << engineVars, ret, ctx, callbacks_data, box, stops >>

DdReceiveStop     == DdReceive("ddrecv1", "StopScan", "ddrecv2")
DdReceiveShutdown == DdReceive("ddrecv2", "Shutdown", "ddwait")

-----------------------------------------------------------------------------
(***************************************************************************)
(* PhotoRecController::start_scan.                                         *)
(***************************************************************************)

\* The context of the scan before is taken and destroyed first.
TakeOldContext ==
    /\ wpc = "launch"
    /\ IF ctx = NoScan
       THEN wpc' = "create" /\ UNCHANGED << engineVars, ret >>
       ELSE kaifuku_stop_request(ctx) /\ wpc' = "destroyflag" /\ ret' = "create"
    /\ UNCHANGED << job, stopped, ctx, callbacks_data, box, dd, cmds, events, stops, outcome >>

DestroySignal ==
    /\ wpc = "destroyflag"
    /\ kaifuku_stop_signal
    /\ wpc' = "destroywait"
    /\ UNCHANGED << ret, job, stopped, ctx, callbacks_data, box, dd, cmds, events, stops, outcome >>

\* Dropping the controller in the middle of a scan abandons the scan.
DestroyFree ==
    /\ wpc = "destroywait"
    /\ kaifuku_destroy_free(ctx)
    /\ wpc' = ret /\ ctx' = NoScan
    /\ IF ret = "exited" /\ job # NoScan
       THEN /\ outcome' = [outcome EXCEPT ![job] = "abandoned"]
            /\ job' = NoScan /\ stopped' = FALSE
       ELSE UNCHANGED << outcome, job, stopped >>
    /\ UNCHANGED << ret, callbacks_data, box, dd, cmds, events, stops >>

\* reclaim_callbacks: the box callbacks_data points to is dropped.
Reclaimed == [c \in Scan |-> IF c = callbacks_data THEN "freed" ELSE box[c]]

\* kaifuku_init fails.
InitFails ==
    /\ wpc = "create"
    /\ Send("Error", job) /\ EndJob("error")
    /\ UNCHANGED << engineVars, ret, ctx, callbacks_data, box, dd, cmds, stops >>

\* A new box and a new context, and the scan thread runs.
LaunchScan ==
    /\ wpc = "create"
    /\ \E o \in ScanOptions : kaifuku_start_scan(job, o)
    /\ box' = [Reclaimed EXCEPT ![job] = "live"]
    /\ callbacks_data' = job /\ ctx' = job
    /\ wpc' = "started"
    /\ UNCHANGED << ret, job, stopped, dd, cmds, events, stops, outcome >>

\* No thread: the new box and context are released again.
LaunchFails ==
    /\ wpc = "create"
    /\ kaifuku_start_fails(job)
    /\ box' = [Reclaimed EXCEPT ![job] = "freed"]
    /\ callbacks_data' = NoScan
    /\ Send("Error", job) /\ EndJob("error")
    /\ UNCHANGED << ret, ctx, dd, cmds, stops >>

-----------------------------------------------------------------------------
(***************************************************************************)
(* The loop of worker_thread over a running scan.                          *)
(***************************************************************************)
\* Mutated form: the loop is entered without announcing the scan.
SendStartedSilently ==
    /\ wpc = "started"
    /\ stopped' = FALSE
    /\ wpc' = "poll"
    /\ UNCHANGED << engineVars, ret, job, ctx, callbacks_data, box, dd, cmds,
                    events, stops, outcome >>

SendStarted ==
    /\ wpc = "started"
    /\ Send("ScanStarted", job)
    /\ stopped' = FALSE
    /\ wpc' = "poll"
    /\ UNCHANGED << engineVars, ret, job, ctx, callbacks_data, box, dd, cmds, stops, outcome >>

PollStop ==
    /\ wpc = "poll" /\ HeadIs("StopScan")
    /\ cmds' = Tail(cmds)
    /\ kaifuku_stop_request(ctx)
    /\ wpc' = "pollstop"
    /\ UNCHANGED << ret, job, stopped, ctx, callbacks_data, box, dd, events, stops, outcome >>

\* Mutated forms: the stop is answered, or the box dropped, with the thread
\* still running.
PollStopAnswersNow ==
    /\ wpc = "pollstop"
    /\ kaifuku_stop_signal
    /\ Send("ScanStopped", job) /\ EndJob("stopped")
    /\ UNCHANGED << ret, ctx, callbacks_data, box, dd, cmds, stops >>

PollStopReclaims ==
    /\ wpc = "pollstop"
    /\ kaifuku_stop_signal
    /\ stopped' = TRUE
    /\ box' = Reclaimed
    /\ callbacks_data' = NoScan
    /\ wpc' = "check"
    /\ UNCHANGED << ret, job, ctx, dd, cmds, events, stops, outcome >>

PollStopSignal ==
    /\ wpc = "pollstop"
    /\ kaifuku_stop_signal
    /\ stopped' = TRUE
    /\ wpc' = "check"
    /\ UNCHANGED << ret, job, ctx, callbacks_data, box, dd, cmds, events, stops, outcome >>

\* return from worker_thread: the controller is dropped.
PollShutdown ==
    /\ wpc = "poll" /\ HeadIs("Shutdown")
    /\ cmds' = Tail(cmds)
    /\ wpc' = "drop"
    /\ UNCHANGED << engineVars, ret, job, stopped, ctx, callbacks_data, box, dd,
                    events, stops, outcome >>

\* An empty channel, or a StartScan that is dropped.
PollOther ==
    /\ wpc = "poll"
    /\ \/ cmds = << >> /\ UNCHANGED << cmds, outcome >>
       \/ HeadIs("StartScan") /\ cmds' = Tail(cmds) /\ Discard(Head(cmds).scan)
    /\ wpc' = "check"
    /\ UNCHANGED << engineVars, ret, job, stopped, ctx, callbacks_data, box, dd, events, stops >>

CheckRunning ==
    /\ wpc = "check"
    /\ wpc' = IF running[ctx] THEN "poll" ELSE "finish"
    /\ UNCHANGED << engineVars, ret, job, stopped, ctx, callbacks_data, box, dd,
                    cmds, events, stops, outcome >>

\* Mutated forms: the box is not reclaimed; a stopped scan ends unannounced.
FinishJobKeepsBox ==
    /\ wpc = "finish"
    /\ ~running[ctx]
    /\ callbacks_data' = NoScan
    /\ IF stopped THEN Send("ScanStopped", job) /\ EndJob("stopped")
                  ELSE Send("ScanComplete", job) /\ EndJob("complete")
    /\ UNCHANGED << engineVars, ret, ctx, box, dd, cmds, stops >>

FinishJobSilently ==
    /\ wpc = "finish"
    /\ ~running[ctx]
    /\ box' = Reclaimed
    /\ callbacks_data' = NoScan
    /\ IF stopped THEN UNCHANGED events /\ EndJob("stopped")
                  ELSE Send("ScanComplete", job) /\ EndJob("complete")
    /\ UNCHANGED << engineVars, ret, ctx, dd, cmds, stops >>

\* The second wait on is_running, reclaim_callbacks and the final event.
FinishJob ==
    /\ wpc = "finish"
    /\ ~running[ctx]
    /\ box' = Reclaimed
    /\ callbacks_data' = NoScan
    /\ IF stopped THEN Send("ScanStopped", job) /\ EndJob("stopped")
                  ELSE Send("ScanComplete", job) /\ EndJob("complete")
    /\ UNCHANGED << engineVars, ret, ctx, dd, cmds, stops >>

\* Drop of PhotoRecController: the box first, then the context.
DropController ==
    /\ wpc = "drop"
    /\ box' = Reclaimed
    /\ callbacks_data' = NoScan
    /\ IF ctx = NoScan
       THEN wpc' = "exited" /\ UNCHANGED << engineVars, ret >>
       ELSE kaifuku_stop_request(ctx) /\ wpc' = "destroyflag" /\ ret' = "exited"
    /\ UNCHANGED << job, stopped, ctx, dd, cmds, events, stops, outcome >>

Worker ==
    \/ RecvStart   \/ RecvStop        \/ IdleStopSignal \/ RecvShutdown
    \/ SpawnDd     \/ DdWait          \/ DdReceiveStop  \/ DdReceiveShutdown
    \/ TakeOldContext \/ DestroySignal \/ DestroyFree
    \/ InitFails   \/ LaunchScan      \/ LaunchFails    \/ SendStarted
    \/ PollStop    \/ PollStopSignal  \/ PollShutdown   \/ PollOther
    \/ CheckRunning \/ FinishJob      \/ DropController

-----------------------------------------------------------------------------
(***************************************************************************)
(* The scan thread; file_found_cb sends through the boxed sender.          *)
(***************************************************************************)
FilesReported(c) == { i \in DOMAIN events : events[i] = [type |-> "FileFound", scan |-> c] }

ReportFile(c) ==
    /\ Cardinality(FilesReported(c)) < MaxReports
    /\ PassReport(c)
    /\ Send("FileFound", c)
    /\ UNCHANGED << wpc, ret, job, stopped, ctx, callbacks_data, box, dd, cmds, stops, outcome >>

ScanThread(c) ==
    \/ SilentStep(c) /\ UNCHANGED workerVars
    \/ ReportFile(c)

Next == Client \/ Worker \/ DdExits \/ \E c \in Scan : ScanThread(c)

(***************************************************************************)
(* The worker thread and the scan threads run whenever they can, the poll  *)
(* of worker_thread and the spin of kaifuku_destroy among their steps, and *)
(* a dd process ends.  Nothing makes a client send anything.               *)
(***************************************************************************)
Fairness ==
    /\ WF_vars(Worker)
    /\ WF_vars(DdExits)
    /\ \A c \in Scan : WF_vars(ScanThread(c))

Spec == Init /\ [][Next]_vars /\ Fairness

-----------------------------------------------------------------------------
TypeOK ==
    /\ EngineTypeOK
    /\ wpc \in WorkerPC
    /\ ret \in {"create", "exited"}
    /\ job \in Scan \cup {NoScan}
    /\ stopped \in BOOLEAN
    /\ ctx \in Scan \cup {NoScan}
    /\ callbacks_data \in Scan \cup {NoScan}
    /\ box \in [Scan -> {"unused", "live", "freed"}]
    /\ dd \in {"none", "running", "succeeded", "failed"}
    /\ cmds \in Seq(Command)
    /\ events \in Seq(Event)
    /\ stops \in Nat
    /\ outcome \in [Scan -> Outcome]

(***************************************************************************)
(* The boxed sender a scan thread was given outlives the thread's last     *)
(* callback: progress_cb, file_found_cb, log_cb and ntfs_unformat_cb never *)
(* dereference a box that reclaim_callbacks has dropped.                   *)
(***************************************************************************)
CallbackBoxLive == \A c \in Scan : MayCallBack(c) => box[c] = "live"

\* The controller never uses a context that was freed: stop and is_running
\* on the context of a finished scan stay safe until the next start.
ControllerContextLive == ctx # NoScan => alloc[ctx] = "live"

(***************************************************************************)
(* No box is lost: one that is live is the one callbacks_data can still    *)
(* free, and between two commands there is none, so neither a failed start *)
(* nor a stopped scan leaks its sender (which would also keep the event    *)
(* channel of the application open).                                       *)
(***************************************************************************)
NoBoxLost ==
    /\ \A c \in Scan : box[c] = "live" => callbacks_data = c
    /\ wpc \in {"recv", "exited"} => \A c \in Scan : box[c] # "live"

(***************************************************************************)
(* Nothing of a scan is announced after the event that ends it, although   *)
(* the two come from different threads: the application takes its results  *)
(* when that event arrives.                                                *)
(***************************************************************************)
EndsScan(e) == e.type \in {"ScanComplete", "ScanStopped"} /\ e.scan # NoScan

NothingAfterEnd ==
    \A i, j \in DOMAIN events :
        i < j /\ EndsScan(events[i]) => events[j].scan # events[i].scan

(***************************************************************************)
(* Every scan the worker takes up is ended: by a final event, an error, or *)
(* the worker's own end.                                                   *)
(***************************************************************************)
ScanEnds == \A c \in Scan : outcome[c] = "accepted" ~> outcome[c] # "accepted"

\* A worker that was told to shut down exits: the spin of kaifuku_destroy ends,
\* whatever the scan thread was doing when the context was taken from it.
WorkerExits == (wpc = "drop") ~> (wpc = "exited")

-----------------------------------------------------------------------------
\* What the worker promises its clients: see ScanProtocol.
Fate == [c \in Scan |-> CASE outcome[c] \in {"new", "queued"} -> "waiting"
                          [] outcome[c] = "accepted"          -> "running"
                          [] OTHER                            -> outcome[c]]

FileCount == [c \in Scan |-> Cardinality(FilesReported(c))]

Protocol == INSTANCE ScanProtocol WITH
    active <- job, cut <- stopped, fate <- Fate, files <- FileCount

ImplementsProtocol == Protocol!Spec
=============================================================================
