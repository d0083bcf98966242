\* A replica stops in mid-pipeline and is back before the timeout has passed.
CONSTANTS
    Upload = {u1}
    Reprocess = {r1}
    Delete = {}
    Replica = {p1}
    Content = {c1}
    MaxConcurrency = 2
    MaxStops = 1
    MaxFaults = 0
    SerialReprocess = TRUE
SPECIFICATION FairSpec
PROPERTY InterruptedIsReclaimed
CHECK_DEADLOCK FALSE
