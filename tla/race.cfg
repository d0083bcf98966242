\* Two reprocess requests for one document, nothing fails, nothing stops.
CONSTANTS
    Upload = {u1}
    Reprocess = {r1, r2}
    Delete = {}
    Replica = {p1}
    Content = {c1}
    MaxConcurrency = 2
    MaxStops = 0
    MaxFaults = 0
    SerialReprocess = FALSE
SPECIFICATION Spec
INVARIANT ExclusivePipeline
CHECK_DEADLOCK FALSE
