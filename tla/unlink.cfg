\* The commit of a delete fails after its blob is gone.
CONSTANTS
    Upload = {u1}
    Reprocess = {r1}
    Delete = {x1}
    Replica = {p1}
    Content = {c1}
    MaxConcurrency = 2
    MaxStops = 0
    MaxFaults = 1
    SerialReprocess = TRUE
SPECIFICATION Spec
INVARIANT FileBehindEveryRow
CHECK_DEADLOCK FALSE
