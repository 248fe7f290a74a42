------------------------------- MODULE ScanApp -------------------------------
(***************************************************************************)
(* The application window of app.rs over the scan worker: the page shown,  *)
(* the buttons of the scan pages that send commands, and the handling of   *)
(* the worker's events.  The window is the worker's only client, and none  *)
(* of its pages sends Shutdown.                                            *)
(*                                                                         *)
(* Scan stands for the two pages with a start button (scan.rs and          *)
(* image_scan.rs), Other for the pages that never touch the worker.  A     *)
(* click and the navigation it asks for are one step: App::run drains the  *)
(* navigation channel in the same turn of its loop.                        *)
(***************************************************************************)
EXTENDS ScanWorker

VARIABLES
    page,              \* App.current_page
    seen,              \* how many of the worker's events were handled
    recovered_files,   \* App.recovered_files, each file by its scan
    listed,            \* the copy of them the results page was made with
    finished           \* history: the scan whose end made the results page

appVars == << page, seen, recovered_files, listed, finished >>
allVars == << vars, appVars >>

Page == { "Menu", "Scan", "Scanning", "Recovery", "Other" }

AppInit ==
    /\ Init
    /\ page = "Menu" /\ seen = 0
    /\ recovered_files = << >> /\ listed = << >> /\ finished = NoScan

-----------------------------------------------------------------------------
\* The pages a page has buttons to.  The scanning page has none.
Links(p) ==
    CASE p = "Menu"     -> {"Scan", "Other"}
      [] p = "Other"    -> {"Menu", "Scan"}
      [] p = "Scanning" -> {}
      [] OTHER          -> {"Menu"}

Navigate ==
    /\ page' \in Links(page)
    /\ UNCHANGED << vars, seen, recovered_files, listed, finished >>

\* The start button leaves its page as it is: only ScanStarted moves on.
ClickStart ==
    /\ page = "Scan"
    /\ \E c \in Scan : SubmitStart(c)
    /\ UNCHANGED appVars

ClickStop ==
    /\ page = "Scanning"
    /\ SubmitStop
    /\ UNCHANGED appVars

-----------------------------------------------------------------------------
(***************************************************************************)
(* handle_worker_event.                                                    *)
(***************************************************************************)
\* Mutated form: the list of the scan before is kept.
ShowStartedKeepsFiles ==
    /\ page' = "Scanning"
    /\ UNCHANGED << recovered_files, listed, finished >>

ShowStarted ==
    /\ page' = "Scanning" /\ recovered_files' = << >>
    /\ UNCHANGED << listed, finished >>

ShowFile(e) ==
    /\ recovered_files' = Append(recovered_files, e.scan)
    /\ UNCHANGED << page, listed, finished >>

ShowComplete(e) ==
    /\ page' = "Recovery" /\ listed' = recovered_files /\ finished' = e.scan
    /\ UNCHANGED recovered_files

ShowStopped ==
    /\ page' = "Menu"
    /\ UNCHANGED << recovered_files, listed, finished >>

\* An error is only logged.
ShowError == UNCHANGED << page, recovered_files, listed, finished >>

HandleEvent ==
    /\ seen < Len(events)
    /\ seen' = seen + 1
    /\ LET e == events[seen + 1]
       IN \/ e.type = "ScanStarted"  /\ ShowStarted
          \/ e.type = "FileFound"    /\ ShowFile(e)
          \/ e.type = "ScanComplete" /\ ShowComplete(e)
          \/ e.type = "ScanStopped"  /\ ShowStopped
          \/ e.type = "Error"        /\ ShowError
    /\ UNCHANGED vars

Backend ==
    /\ Worker \/ DdExits \/ \E c \in Scan : ScanThread(c)
    /\ UNCHANGED appVars

AppNext == Navigate \/ ClickStart \/ ClickStop \/ HandleEvent \/ Backend

AppFairness ==
    /\ WF_allVars(Worker /\ UNCHANGED appVars)
    /\ WF_allVars(DdExits /\ UNCHANGED appVars)
    /\ \A c \in Scan : WF_allVars(ScanThread(c) /\ UNCHANGED appVars)
    /\ WF_allVars(HandleEvent)

AppSpec == AppInit /\ [][AppNext]_allVars /\ AppFairness

-----------------------------------------------------------------------------
Pending == { events[i] : i \in seen + 1 .. Len(events) }

(***************************************************************************)
(* While the worker images a device or runs a scan the window shows, or    *)
(* has an event pending that makes it show, the scanning page: its Stop    *)
(* button is the only way to stop the scan, and no other page may hide it. *)
(***************************************************************************)
Busy == wpc \in { "image", "ddwait", "ddrecv1", "ddrecv2", "poll", "pollstop",
                  "check", "finish" }

StopInReach ==
    Busy => page = "Scanning" \/ \E e \in Pending : e.type = "ScanStarted"

(***************************************************************************)
(* The results page of a scan lists files of that scan and of no other,    *)
(* though recovered_files is one list for all scans that a later scan      *)
(* reuses and the files of a stopped scan are left in.                     *)
(***************************************************************************)
ResultsAreOwn == \A i \in DOMAIN listed : listed[i] = finished

(***************************************************************************)
(* Every file a scan announced is on its results page.                     *)
(***************************************************************************)
ResultsComplete ==
    finished # NoScan => Len(listed) = Cardinality(FilesReported(finished))

(***************************************************************************)
(* A user who presses Stop gets back to the menu: the scanning page is     *)
(* left once a stop was sent, unless dd is still making the image, when    *)
(* the worker may drop the command (create_dd_image).                      *)
(***************************************************************************)
Imaging == wpc \in { "image", "ddwait", "ddrecv1", "ddrecv2" }

StopAnswered ==
    (HeadIs("StopScan") /\ page = "Scanning" /\ ~ Imaging) ~> (page # "Scanning")
=============================================================================
