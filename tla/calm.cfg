\* One replica that never stops and no fault: everything accepted gets done.
CONSTANTS
    Upload = {u1, u2}
    Reprocess = {r1, r2}
    Delete = {x1}
    Replica = {p1}
    Content = {c1}
    MaxConcurrency = 1
    MaxStops = 0
    MaxFaults = 0
    SerialReprocess = FALSE
SPECIFICATION FairSpec
INVARIANTS
    OneRowPerContent
    NoOrphanedWork
    FileBehindEveryRow
PROPERTY Settles
CHECK_DEADLOCK FALSE
