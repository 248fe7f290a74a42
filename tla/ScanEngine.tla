----------------------------- MODULE ScanEngine -----------------------------
(***************************************************************************)
(* The scan engine of kaifuku_ffi.c: the contexts kaifuku_init allocates,  *)
(* the detached thread kaifuku_start_scan creates for one, the two stop    *)
(* flags (stop_requested in the context, need_to_stop a global of the      *)
(* process that every context shares) and the pass loop of the thread.     *)
(*                                                                         *)
(* A context is identified by the scan it serves: start_scan of            *)
(* photorec.rs makes a new one for every scan, so memory that is reused    *)
(* for a later context keeps the identity it had when it was allocated.    *)
(* This module has the engine's state and the steps of the scan thread;    *)
(* the functions the controller calls are operators that ScanWorker        *)
(* combines with the worker's own state.                                   *)
(***************************************************************************)
EXTENDS ScanPasses

CONSTANTS Scan,       \* the scans that may be requested
          NoScan      \* a null pointer to a context, box or job

ASSUME NoScanAssumption == NoScan \notin Scan

VARIABLES
    alloc,            \* "unused", "live" or "freed": the memory of a context
    running,          \* ctx->running
    stop_requested,   \* ctx->stop_requested
    need_to_stop,     \* the global int need_to_stop
    tpc,              \* where the scan thread of a context is
    status,           \* ctx->params.status
    result,           \* the local result of scan_thread_func
    opts              \* ctx->options, ctx->fs_pass and the disk's file system

engineVars == << alloc, running, stop_requested, need_to_stop, tpc, status,
                 result, opts >>

ThreadPC == { "none", "open", "test", "begin", "pass", "after", "finish",
              "clear", "done" }

\* The thread exists and still uses its context.
Alive(c) == tpc[c] \notin {"none", "done"}

\* The thread may still call one of its callbacks: the log line of the end
\* of the scan is the last.
MayCallBack(c) == tpc[c] \in {"open", "test", "begin", "pass", "after", "finish"}

SomeOptions == [ mode_ext2 |-> 0, keep_corrupted_file |-> 0, paranoid |-> 1,
                 fs_pass |-> FALSE, fs |-> "other" ]

EngineInit ==
    /\ alloc = [c \in Scan |-> "unused"]
    /\ running = [c \in Scan |-> FALSE]
    /\ stop_requested = [c \in Scan |-> FALSE]
    /\ need_to_stop = FALSE
    /\ tpc = [c \in Scan |-> "none"]
    /\ status = [c \in Scan |-> "QUIT"]
    /\ result = [c \in Scan |-> "OK"]
    /\ opts = [c \in Scan |-> SomeOptions]

EngineTypeOK ==
    /\ alloc \in [Scan -> {"unused", "live", "freed"}]
    /\ running \in [Scan -> BOOLEAN]
    /\ stop_requested \in [Scan -> BOOLEAN]
    /\ need_to_stop \in BOOLEAN
    /\ tpc \in [Scan -> ThreadPC]
    /\ status \in [Scan -> Status]
    /\ result \in [Scan -> PStatus]
    /\ opts \in [Scan -> Options]

-----------------------------------------------------------------------------
(***************************************************************************)
(* The functions of the C interface, called on the worker's thread.        *)
(***************************************************************************)

\* Mutated form: running is left for the new thread to set.
start_scan_late(c, o) ==
    /\ alloc' = [alloc EXCEPT ![c] = "live"]
    /\ opts' = [opts EXCEPT ![c] = o]
    /\ tpc' = [tpc EXCEPT ![c] = "open"]
    /\ UNCHANGED << running, stop_requested, need_to_stop, status, result >>

\* kaifuku_init, the option setters and kaifuku_start_scan with a thread.
kaifuku_start_scan(c, o) ==
    /\ alloc' = [alloc EXCEPT ![c] = "live"]
    /\ opts' = [opts EXCEPT ![c] = o]
    /\ running' = [running EXCEPT ![c] = TRUE]
    /\ stop_requested' = [stop_requested EXCEPT ![c] = FALSE]
    /\ tpc' = [tpc EXCEPT ![c] = "open"]
    /\ UNCHANGED << need_to_stop, status, result >>

\* kaifuku_init and the setters, pthread_create fails (or the device name is
\* refused), and start_scan of photorec.rs destroys the new context.
kaifuku_start_fails(c) ==
    /\ alloc' = [alloc EXCEPT ![c] = "freed"]
    /\ stop_requested' = [stop_requested EXCEPT ![c] = TRUE]
    /\ need_to_stop' = TRUE
    /\ UNCHANGED << running, tpc, status, result, opts >>

\* The two stores of kaifuku_stop: the thread may run between them.
kaifuku_stop_request(c) ==
    /\ stop_requested' = [stop_requested EXCEPT ![c] = TRUE]
    /\ UNCHANGED << alloc, running, need_to_stop, tpc, status, result, opts >>

kaifuku_stop_signal ==
    /\ need_to_stop' = TRUE
    /\ UNCHANGED << alloc, running, stop_requested, tpc, status, result, opts >>

\* Mutated form: the context is freed without waiting for its thread.
destroy_without_wait(c) ==
    /\ alloc' = [alloc EXCEPT ![c] = "freed"]
    /\ UNCHANGED << running, stop_requested, need_to_stop, tpc, status, result, opts >>

\* The end of kaifuku_destroy: the spin on running, then the frees.
kaifuku_destroy_free(c) ==
    /\ ~running[c]
    /\ alloc' = [alloc EXCEPT ![c] = "freed"]
    /\ UNCHANGED << running, stop_requested, need_to_stop, tpc, status, result, opts >>

-----------------------------------------------------------------------------
(***************************************************************************)
(* scan_thread_func.                                                       *)
(***************************************************************************)
GoTo(c, from, to) ==
    /\ tpc[c] = from
    /\ tpc' = [tpc EXCEPT ![c] = to]

\* Mutated form: the early return forgets to clear running.
OpenFailsStillRunning(c) ==
    /\ GoTo(c, "open", "done")
    /\ UNCHANGED << alloc, running, stop_requested, need_to_stop, status, result, opts >>

\* The device cannot be opened, or no partition made: log it and give up.
OpenFails(c) ==
    /\ GoTo(c, "open", "clear")
    /\ UNCHANGED << alloc, running, stop_requested, need_to_stop, status, result, opts >>

OpenDevice(c) ==
    /\ GoTo(c, "open", "test")
    /\ status' = [status EXCEPT ![c] = FirstStatus(opts[c])]
    /\ UNCHANGED << alloc, running, stop_requested, need_to_stop, result, opts >>

\* The condition of the for loop.
LoopTest(c) ==
    /\ GoTo(c, "test", IF status[c] # "QUIT" /\ ~stop_requested[c]
                         THEN "begin" ELSE "finish")
    /\ UNCHANGED << alloc, running, stop_requested, need_to_stop, status, result, opts >>

\* Mutated form: the signal is not cleared when a pass begins.
BeginPassKeepsSignal(c) ==
    /\ GoTo(c, "begin", "pass")
    /\ result' = [result EXCEPT ![c] = "OK"]
    /\ UNCHANGED << alloc, running, stop_requested, need_to_stop, status, opts >>

\* need_to_stop = 0; result = PSTATUS_OK: a signal sent since LoopTest is lost.
BeginPass(c) ==
    /\ GoTo(c, "begin", "pass")
    /\ need_to_stop' = FALSE
    /\ result' = [result EXCEPT ![c] = "OK"]
    /\ UNCHANGED << alloc, running, stop_requested, status, opts >>

\* The pass announces a file through a callback; only the events change.
PassReport(c) ==
    /\ tpc[c] = "pass"
    /\ Reports(status[c], opts[c])
    /\ UNCHANGED engineVars

PassStopped(c) ==
    /\ GoTo(c, "pass", "after")
    /\ PollsNeedToStop(status[c], opts[c])
    /\ need_to_stop
    /\ result' = [result EXCEPT ![c] = "STOP"]
    /\ UNCHANGED << alloc, running, stop_requested, need_to_stop, status, opts >>

PassEnds(c) ==
    /\ GoTo(c, "pass", "after")
    /\ \E r \in PassOutcomes(status[c], opts[c]) :
          result' = [result EXCEPT ![c] = r]
    /\ UNCHANGED << alloc, running, stop_requested, need_to_stop, status, opts >>

\* Mutated form: a stopped scan clears running before it is finished.
AfterPassStopClears(c) ==
    /\ stop_requested[c]
    /\ GoTo(c, "after", "finish")
    /\ need_to_stop' = TRUE
    /\ running' = [running EXCEPT ![c] = FALSE]
    /\ UNCHANGED << alloc, stop_requested, status, result, opts >>

\* The tests after a pass: a stop, an error of the destination, or the next
\* status and the progress callback.
AfterPassStop(c) ==
    /\ stop_requested[c]
    /\ GoTo(c, "after", "finish")
    /\ need_to_stop' = TRUE
    /\ UNCHANGED << alloc, running, stop_requested, status, result, opts >>

AfterPassError(c) ==
    /\ ~stop_requested[c]
    /\ result[c] \in {"EACCES", "ENOSPC"}
    /\ GoTo(c, "after", "finish")
    /\ UNCHANGED << alloc, running, stop_requested, need_to_stop, status, result, opts >>

AfterPassNext(c) ==
    /\ ~stop_requested[c]
    /\ result[c] \in {"OK", "STOP"}
    /\ GoTo(c, "after", "test")
    /\ status' = [status EXCEPT ![c] =
                    IF result[c] = "OK" THEN status_inc(@, opts[c]) ELSE @]
    /\ UNCHANGED << alloc, running, stop_requested, need_to_stop, result, opts >>

\* need_to_stop = 0, the last log line, and the scan's own memory released.
FinishScan(c) ==
    /\ GoTo(c, "finish", "clear")
    /\ need_to_stop' = FALSE
    /\ UNCHANGED << alloc, running, stop_requested, status, result, opts >>

\* ctx->running = 0, the last access of the thread to its context; its local
\* result is gone with it.
ClearRunning(c) ==
    /\ GoTo(c, "clear", "done")
    /\ running' = [running EXCEPT ![c] = FALSE]
    /\ result' = [result EXCEPT ![c] = "OK"]
    /\ UNCHANGED << alloc, stop_requested, need_to_stop, status, opts >>

\* The steps of the thread that announce no file.
SilentStep(c) ==
    \/ OpenFails(c)     \/ OpenDevice(c)     \/ LoopTest(c)
    \/ BeginPass(c)     \/ PassStopped(c)    \/ PassEnds(c)
    \/ AfterPassStop(c) \/ AfterPassError(c) \/ AfterPassNext(c)
    \/ FinishScan(c)    \/ ClearRunning(c)

-----------------------------------------------------------------------------
(***************************************************************************)
(* A pass answers STOP only when its own context was asked to stop, even   *)
(* though it watches the global need_to_stop and not its context: a stop   *)
(* left over from an earlier scan, a context being destroyed or a stop     *)
(* that reaches the engine while no scan runs never cuts a scan short, and *)
(* the loop never repeats a pass because it answered STOP unasked.         *)
(***************************************************************************)
StopIsOwn == \A c \in Scan : Alive(c) /\ result[c] = "STOP" => stop_requested[c]

\* Two scan threads never run at once: they would share need_to_stop, the
\* array of enabled formats and the header checks, all globals of the engine.
OneScanThread == \A c, d \in Scan : Alive(c) /\ Alive(d) => c = d

\* A scan thread never runs on a context that was freed under it.
ThreadContextLive == \A c \in Scan : Alive(c) => alloc[c] = "live"
=============================================================================
