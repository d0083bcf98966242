\* One transaction of a pipeline is rolled back.
CONSTANTS
    Upload = {u1}
    Reprocess = {r1}
    Delete = {}
    Replica = {p1}
    Content = {c1}
    MaxConcurrency = 2
    MaxStops = 0
    MaxFaults = 1
    SerialReprocess = TRUE
SPECIFICATION Spec
INVARIANT NothingEscapesWhileProcessing
CHECK_DEADLOCK FALSE
