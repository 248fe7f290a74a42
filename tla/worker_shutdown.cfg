\* Two scans, with and without imaging, one stop and a shutdown: what the
\* threads still hold, what must end, and the abstract specification.
SPECIFICATION Spec
CONSTANTS
    NoScan = NoScan
    Scan = {s1, s2}
    MaxStops = 1
    MaxReports = 1
    AllowShutdown = TRUE
    AllowImaging = TRUE
    ScanOptions <- CarveOnly
INVARIANTS ThreadContextLive
PROPERTIES ImplementsProtocol ScanEnds WorkerExits
\* The worker waits for commands when its bounded clients have sent them all.
CHECK_DEADLOCK FALSE
