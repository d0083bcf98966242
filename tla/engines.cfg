\* Two replicas, configured alike or during a rollout, two administrators, one document.
CONSTANTS
    Document = {d1}
    Replica = {p1, p2}
    Admin = {a1, a2}
    Fleet <- Fleets
    Choice = {"openai", None}
    MaxPuts = 3
    Patience = 2
    MaxFaults = 1
    None = None
SPECIFICATION FairSpec
INVARIANTS
    TypeOK
    FinishesOnItsEngine
    OutageKeepsTheDocument
    OfferedEnginesRun
    AuditNamesTheWriter
    StagingIsTemporary
    OwnDeadlineNeverDecides
PROPERTY EveryJobEnds
CHECK_DEADLOCK FALSE
