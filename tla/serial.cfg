\* One replica that crashes or is redeployed once; no two reprocess requests race.
CONSTANTS
    Upload = {u1, u2}
    Reprocess = {r1, r2}
    Delete = {x1}
    Replica = {p1}
    Content = {c1, c2}
    MaxConcurrency = 2
    MaxStops = 1
    MaxFaults = 0
    SerialReprocess = TRUE
SPECIFICATION Spec
SYMMETRY Symmetry
VIEW View
INVARIANTS
    ClaimHeld
    ExclusivePipeline
    ColumnsMatchStatus
PROPERTY ImplementsLifecycle
CHECK_DEADLOCK FALSE
