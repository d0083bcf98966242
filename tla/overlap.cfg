\* Rolling deploys: two replicas at once, two stops, one fault, racing reprocesses.
CONSTANTS
    Upload = {u1}
    Reprocess = {r1, r2}
    Delete = {x1}
    Replica = {p1, p2}
    Content = {c1}
    MaxConcurrency = 1
    MaxStops = 2
    MaxFaults = 1
    SerialReprocess = FALSE
SPECIFICATION Spec
SYMMETRY Symmetry
VIEW View
INVARIANTS
    TypeOK
    TrailExplainsStatus
    EveryRunWasRequested
    SweepSeesProcessing
    SettledRowIsReadable
CHECK_DEADLOCK FALSE
