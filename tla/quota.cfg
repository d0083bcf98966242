\* One replica, one document, no administrator at work.
CONSTANTS
    Document = {d1}
    Replica = {p1}
    Admin = {a1}
    Fleet <- Alike
    Choice = {None}
    MaxPuts = 0
    Patience = 1
    MaxFaults = 0
    None = None
SPECIFICATION Spec
INVARIANT QuotaKeepsTheDocument
CHECK_DEADLOCK FALSE
