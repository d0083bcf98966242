-------------------------- MODULE DocumentPipeline --------------------------
(***************************************************************************)
(* The life of uploaded documents: the request handlers that create,       *)
(* requeue and delete rows (app/api/v1/endpoints/documents.py,             *)
(* app/services/document_service.py), the background pipeline that         *)
(* processes them (app/services/document_processor.py), the in-process     *)
(* task runner (app/services/task_runner.py), and the replicas that start, *)
(* drain, crash and sweep (app/main.py).                                   *)
(*                                                                         *)
(* One action is one database transaction, one storage call, or one step   *)
(* of the event loop between two awaits.  A request is an actor: first its *)
(* handler, then - for an upload or a reprocess - the task it submitted.   *)
(* An operator Name_Variant is Name with a plausible mistake, see README.  *)
(***************************************************************************)
EXTENDS DocumentRow, FiniteSets

CONSTANTS
    Delete,           \* DELETE /documents/{id} requests
    Replica,          \* API processes; they share the database and the storage
    MaxConcurrency,   \* PROCESSING_MAX_CONCURRENCY
    MaxStops,         \* bound: crashes plus graceful shutdowns
    MaxFaults,        \* bound: failed transactions and failed storage calls
    SerialReprocess   \* clients never race two reprocess requests on one document

Request == Run \cup Delete

ASSUME RequestKinds ==
    /\ Upload \cap Reprocess = {} /\ Upload \cap Delete = {} /\ Reprocess \cap Delete = {}
    /\ None \notin Replica
ASSUME Bounds ==
    /\ MaxConcurrency \in Nat \ {0} /\ MaxStops \in Nat /\ MaxFaults \in Nat
    /\ SerialReprocess \in BOOLEAN

VARIABLES
    row,      \* the documents table, one row per upload
    blobs,    \* the storage keys that hold a file
    pc,       \* where each request (then its task) stands
    target,   \* the document it works on
    host,     \* the replica it runs on
    content,  \* what an upload carries
    seen,     \* the row a reprocess handler loaded
    code,     \* the error code a failed run is about to record
    due,      \* runs whose claim is older than PROCESSING_TIMEOUT_SECONDS
    phase,    \* the lifespan phase of each replica
    stuck,    \* what a replica's startup sweep selected
    stops, faults

reqVars     == <<pc, target, host, content, seen, code>>
replicaVars == <<phase, stuck>>
budgets     == <<stops, faults>>
vars        == <<row, blobs, reqVars, due, replicaVars, budgets>>

Stage    == {"fetching", "extracting", "analysing"}   \* inside asyncio.timeout
Active   == Stage \cup {"persisting", "failing"}      \* after a won claim
Permit   == Active \cup {"claiming"}                  \* holds the semaphore
Handling == {"storing", "inserting", "committed", "loaded", "unlinked"}
Ended    == {"done", "raised"}
Pc       == {"idle", "queued"} \cup Handling \cup Permit \cup Ended

Phase == {"down", "starting", "sweeping", "up", "draining"}

TypeOK ==
    /\ row \in [Upload -> Row]
    /\ blobs \subseteq Upload
    /\ pc \in [Request -> Pc]
    /\ target \in [Request -> Upload \cup {None}]
    /\ host \in [Request -> Replica \cup {None}]
    /\ content \in [Upload -> Content \cup {None}]
    /\ seen \in [Reprocess -> Row]
    /\ code \in [Run -> Code \cup {None}]
    /\ due \subseteq Run
    /\ phase \in [Replica -> Phase]
    /\ stuck \in [Replica -> SUBSET Upload]
    /\ stops \in 0 .. MaxStops
    /\ faults \in 0 .. MaxFaults

Init ==
    /\ row = [d \in Upload |-> NoRow]
    /\ blobs = {}
    /\ pc = [r \in Request |-> "idle"]
    /\ target = [r \in Request |-> None]
    /\ host = [r \in Request |-> None]
    /\ content = [u \in Upload |-> None]
    /\ seen = [r \in Reprocess |-> NoRow]
    /\ code = [r \in Run |-> None]
    /\ due = {}
    /\ phase = [p \in Replica |-> "up"]
    /\ stuck = [p \in Replica |-> {}]
    /\ stops = 0 /\ faults = 0

-----------------------------------------------------------------------------
Goto(r, at) == pc' = [pc EXCEPT ![r] = at]

Receive(r, p, d) ==
    /\ pc[r] = "idle" /\ phase[p] = "up"
    /\ host' = [host EXCEPT ![r] = p]
    /\ target' = [target EXCEPT ![r] = d]

Duplicate(c) == \E d \in Upload : Present(row[d]) /\ row[d].content = c

Fault == faults < MaxFaults /\ faults' = faults + 1

------------------------------------------------------------------- (* upload *)
\* get_by_checksum finds the owner's copy of the same bytes: nothing to do.
UploadDuplicate(u, p, c) ==
    /\ Receive(u, p, u)
    /\ Duplicate(c)
    /\ Goto(u, "done")
    /\ UNCHANGED <<row, blobs, content, seen, code, due, replicaVars, budgets>>

UploadNew_RowFirst(u, p, c) ==
    /\ Receive(u, p, u)
    /\ ~Duplicate(c)
    /\ Goto(u, "inserting")
    /\ content' = [content EXCEPT ![u] = c]
    /\ UNCHANGED <<row, blobs, seen, code, due, replicaVars, budgets>>

UploadNew(u, p, c) ==
    /\ Receive(u, p, u)
    /\ ~Duplicate(c)
    /\ Goto(u, "storing")
    /\ content' = [content EXCEPT ![u] = c]
    /\ UNCHANGED <<row, blobs, seen, code, due, replicaVars, budgets>>

StoreBlob(u) ==
    /\ pc[u] = "storing"
    /\ Goto(u, "inserting")
    /\ blobs' = blobs \cup {u}
    /\ UNCHANGED <<row, target, host, content, seen, code, due, replicaVars, budgets>>

StoreFails(u) ==
    /\ pc[u] = "storing"
    /\ Goto(u, "done")
    /\ Fault
    /\ UNCHANGED <<row, blobs, target, host, content, seen, code, due, replicaVars, stops>>

InsertRow_NoConstraint(u) ==
    /\ pc[u] = "inserting"
    /\ row' = [row EXCEPT ![u] = AddEvent(Create(content[u]), "uploaded")]
    /\ Goto(u, "committed")
    /\ UNCHANGED <<blobs, target, host, content, seen, code, due, replicaVars, budgets>>

\* The row and its event commit together.  The lookup was another statement, so
\* the unique constraint may refuse the row: 500, and the blob stays behind.
InsertRow(u) ==
    /\ pc[u] = "inserting"
    /\ IF Duplicate(content[u])
       THEN Goto(u, "done") /\ UNCHANGED row
       ELSE /\ row' = [row EXCEPT ![u] = AddEvent(Create(content[u]), "uploaded")]
            /\ Goto(u, "committed")
    /\ UNCHANGED <<blobs, target, host, content, seen, code, due, replicaVars, budgets>>

\* schedule_processing, after the commit; refused once the runner is closing.
Submit(r) ==
    /\ pc[r] = "committed"
    /\ Goto(r, IF phase[host[r]] = "draining" THEN "done" ELSE "queued")
    /\ UNCHANGED <<row, blobs, target, host, content, seen, code, due, replicaVars, budgets>>

---------------------------------------------------------------- (* reprocess *)
\* The status check is on the row as loaded ...
LoadForReprocess(r, p, d) ==
    /\ Receive(r, p, d)
    /\ Requeueable(row[d])
    /\ SerialReprocess =>
          \A q \in Reprocess : ~(pc[q] = "loaded" /\ target[q] = d)
    /\ Goto(r, "loaded")
    /\ seen' = [seen EXCEPT ![r] = row[d]]
    /\ UNCHANGED <<row, blobs, content, code, due, replicaVars, budgets>>

RejectReprocess(r, p, d) ==
    /\ Receive(r, p, d)
    /\ Present(row[d]) /\ ~Requeueable(row[d])
    /\ Goto(r, "done")
    /\ UNCHANGED <<row, blobs, content, seen, code, due, replicaVars, budgets>>

Requeue_NotScheduled(r) ==
    LET d == target[r] IN
    /\ pc[r] = "loaded" /\ r \in Reprocess /\ Present(row[d])
    /\ row' = [row EXCEPT ![d] =
                  AddEvent(ResetToPending(@, seen[r]), "reprocess_requested")]
    /\ Goto(r, "done")
    /\ seen' = [seen EXCEPT ![r] = NoRow]
    /\ UNCHANGED <<blobs, target, host, content, code, due, replicaVars, budgets>>

\* ... and the write, a transaction later, checks nothing but the id.  A row
\* deleted meanwhile matches no UPDATE: StaleDataError, 500.
Requeue(r) ==
    LET d == target[r] IN
    /\ pc[r] = "loaded" /\ r \in Reprocess
    /\ IF Present(row[d])
       THEN /\ row' = [row EXCEPT ![d] =
                          AddEvent(ResetToPending(@, seen[r]), "reprocess_requested")]
            /\ Goto(r, "committed")
       ELSE Goto(r, "done") /\ UNCHANGED row
    /\ seen' = [seen EXCEPT ![r] = NoRow]
    /\ UNCHANGED <<blobs, target, host, content, code, due, replicaVars, budgets>>

------------------------------------------------------------------- (* delete *)
\* The flushed DELETE is invisible until the commit, so it takes effect there.
LoadForDelete(x, p, d) ==
    /\ Receive(x, p, d)
    /\ Present(row[d])
    /\ Goto(x, "loaded")
    /\ UNCHANGED <<row, blobs, content, seen, code, due, replicaVars, budgets>>

\* The blob goes between the flush and the commit.
DeleteBlob(x) ==
    /\ pc[x] = "loaded" /\ x \in Delete
    /\ Goto(x, "unlinked")
    /\ blobs' = blobs \ {target[x]}
    /\ UNCHANGED <<row, target, host, content, seen, code, due, replicaVars, budgets>>

\* An error of the storage is logged and swallowed: the blob is left behind.
DeleteBlobFails(x) ==
    /\ pc[x] = "loaded" /\ x \in Delete
    /\ Goto(x, "unlinked")
    /\ Fault
    /\ UNCHANGED <<row, blobs, target, host, content, seen, code, due, replicaVars, stops>>

CommitDelete(x) ==
    /\ pc[x] = "unlinked"
    /\ row' = [row EXCEPT ![target[x]] = NoRow]
    /\ Goto(x, "done")
    /\ UNCHANGED <<blobs, target, host, content, seen, code, due, replicaVars, budgets>>

----------------------------------------------------------------- (* pipeline *)
PermitsHeld(p) == {r \in Run : host[r] = p /\ pc[r] \in Permit}

Acquire(r) ==
    /\ pc[r] = "queued"
    /\ Cardinality(PermitsHeld(host[r])) < MaxConcurrency
    /\ Goto(r, "claiming")
    /\ UNCHANGED <<row, blobs, target, host, content, seen, code, due, replicaVars, budgets>>

ClaimWon(r) ==
    LET d == target[r] IN
    /\ pc[r] = "claiming"
    /\ Claimable(row[d])
    /\ row' = [row EXCEPT ![d] =
                  AddEvent(ClaimForProcessing(@, r), "processing_started")]
    /\ Goto(r, "fetching")
    /\ UNCHANGED <<blobs, target, host, content, seen, code, due, replicaVars, budgets>>

ClaimLost(r) ==
    /\ pc[r] = "claiming"
    /\ ~Claimable(row[target[r]])
    /\ Goto(r, "done")
    /\ UNCHANGED <<row, blobs, target, host, content, seen, code, due, replicaVars, budgets>>

NextStage == [fetching |-> "extracting", extracting |-> "analysing",
              analysing |-> "persisting"]

\* A stage completes; only the fetch depends on state the model keeps.
StageDone(r) ==
    /\ pc[r] \in Stage
    /\ pc[r] = "fetching" => target[r] \in blobs
    /\ Goto(r, NextStage[pc[r]])
    /\ UNCHANGED <<row, blobs, target, host, content, seen, code, due, replicaVars, budgets>>

\* A stage raises: the stored file is gone, the scan is unreadable, the
\* provider is down.  AppError keeps its code, anything else is internal_error.
StageFails(r) ==
    /\ pc[r] \in Stage
    /\ pc[r] = "fetching" => target[r] \notin blobs
    /\ Goto(r, "failing")
    /\ code' = [code EXCEPT ![r] = "app_error"]
    /\ UNCHANGED <<row, blobs, target, host, content, seen, due, replicaVars, budgets>>

\* The storage fails to deliver a file that is there.
FetchFails(r) ==
    /\ pc[r] = "fetching" /\ target[r] \in blobs
    /\ Goto(r, "failing")
    /\ code' = [code EXCEPT ![r] = "app_error"]
    /\ Fault
    /\ UNCHANGED <<row, blobs, target, host, content, seen, due, replicaVars, stops>>

\* asyncio.timeout covers the three stages and neither the persist nor the fail.
Timeout(r) ==
    /\ pc[r] \in Stage /\ r \in due
    /\ Goto(r, "failing")
    /\ code' = [code EXCEPT ![r] = "processing_timeout"]
    /\ UNCHANGED <<row, blobs, target, host, content, seen, due, replicaVars, budgets>>

\* PROCESSING_TIMEOUT_SECONDS have passed since r claimed its document.
Tick(r) ==
    /\ r \notin due
    /\ pc[r] \in Active \/ \E d \in Upload : row[d].started = r
    /\ due' = due \cup {r}
    /\ UNCHANGED <<row, blobs, reqVars, replicaVars, budgets>>

\* One transaction: extraction, status, event.  The foreign key refuses the
\* extraction of a document that was deleted, and the exception leaves the task.
Persist(r) ==
    LET d == target[r] IN
    /\ pc[r] = "persisting"
    /\ IF Present(row[d])
       THEN /\ row' = [row EXCEPT ![d] =
                  AddEvent(MarkCompleted(UpsertExtraction(@, r)), "processing_completed")]
            /\ Goto(r, "done")
       ELSE Goto(r, "raised") /\ UNCHANGED row
    /\ UNCHANGED <<blobs, target, host, content, seen, code, due, replicaVars, budgets>>

RecordFailure_NotMarked(r) ==
    /\ pc[r] = "failing"
    /\ Goto(r, "done")
    /\ code' = [code EXCEPT ![r] = None]
    /\ UNCHANGED <<row, blobs, target, host, content, seen, due, replicaVars, budgets>>

\* _fail: as above, but its own errors are swallowed.
RecordFailure(r) ==
    LET d == target[r] IN
    /\ pc[r] = "failing"
    /\ row' = IF Present(row[d])
              THEN [row EXCEPT ![d] = AddEvent(MarkFailed(@, code[r]), "processing_failed")]
              ELSE row
    /\ Goto(r, "done")
    /\ code' = [code EXCEPT ![r] = None]
    /\ UNCHANGED <<blobs, target, host, content, seen, due, replicaVars, budgets>>

\* Any transaction of a request or a task may be rolled back (connection lost,
\* lock timeout, deadlock victim).  A handler answers 500; _fail logs; the claim
\* and the persist let the exception escape into the task runner.
TransactionFails(r) ==
    /\ pc[r] \in {"inserting", "unlinked", "claiming", "persisting", "failing"}
          \/ (pc[r] = "loaded" /\ r \in Reprocess)
    /\ Goto(r, IF pc[r] \in {"claiming", "persisting"} THEN "raised" ELSE "done")
    /\ Fault
    /\ UNCHANGED <<row, blobs, target, host, content, seen, code, due, replicaVars, stops>>

----------------------------------------------------------------- (* replicas *)
\* Everything the process was doing ends where it stands; tasks cancelled at
\* the end of a drain leave their rows as they are, like those of a crash.
EndAll(p) ==
    pc' = [r \in Request |->
              IF host[r] = p /\ pc[r] # "idle" /\ pc[r] \notin Ended THEN "done" ELSE pc[r]]

Crash(p) ==
    /\ phase[p] # "down"
    /\ stops < MaxStops /\ stops' = stops + 1
    /\ EndAll(p)
    /\ phase' = [phase EXCEPT ![p] = "down"]
    /\ stuck' = [stuck EXCEPT ![p] = {}]
    /\ UNCHANGED <<row, blobs, target, host, content, seen, code, due, faults>>

\* The server answers the requests in flight before the lifespan shuts down.
BeginDrain(p) ==
    /\ phase[p] = "up"
    /\ stops < MaxStops /\ stops' = stops + 1
    /\ \A r \in Request : host[r] = p => pc[r] \notin Handling
    /\ phase' = [phase EXCEPT ![p] = "draining"]
    /\ UNCHANGED <<row, blobs, reqVars, due, stuck, faults>>

\* All tasks have ended, or the grace period has and the rest are cancelled -
\* the ones still waiting for a permit with them.
FinishDrain(p) ==
    /\ phase[p] = "draining"
    /\ EndAll(p)
    /\ phase' = [phase EXCEPT ![p] = "down"]
    /\ UNCHANGED <<row, blobs, target, host, content, seen, code, due, stuck, budgets>>

Start(p) ==
    /\ phase[p] = "down"
    /\ phase' = [phase EXCEPT ![p] = "starting"]
    /\ UNCHANGED <<row, blobs, reqVars, due, stuck, budgets>>

\* recover_stuck_documents selects the rows, then marks them by id.
SweepRead(p) ==
    /\ phase[p] = "starting"
    /\ phase' = [phase EXCEPT ![p] = "sweeping"]
    /\ stuck' = [stuck EXCEPT ![p] = {d \in Upload : Stuck(row[d], due)}]
    /\ UNCHANGED <<row, blobs, reqVars, due, budgets>>

Interrupt_OddCode(x) == AddEvent(MarkFailed(x, "interrupted"), "processing_interrupted")
Interrupt_NoEvent(x) == MarkFailed(x, "worker_interrupted")
Interrupt_Requeues(x) ==
    AddEvent([x EXCEPT !.status = "PENDING", !.started = None], "processing_interrupted")

Interrupt(x) == AddEvent(MarkFailed(x, "worker_interrupted"), "processing_interrupted")

\* One transaction for all of them: the event of a row deleted meanwhile breaks
\* the foreign key, and the whole sweep is rolled back.
SweepWrite(p) ==
    /\ phase[p] = "sweeping"
    /\ row' = IF \A d \in stuck[p] : Present(row[d])
              THEN [d \in Upload |-> IF d \in stuck[p] THEN Interrupt(row[d]) ELSE row[d]]
              ELSE row
    /\ phase' = [phase EXCEPT ![p] = "up"]
    /\ stuck' = [stuck EXCEPT ![p] = {}]
    /\ UNCHANGED <<blobs, reqVars, due, budgets>>

\* An error in the housekeeping must not stop the app from serving traffic.
HousekeepingFails(p) ==
    /\ phase[p] \in {"starting", "sweeping"}
    /\ Fault
    /\ phase' = [phase EXCEPT ![p] = "up"]
    /\ stuck' = [stuck EXCEPT ![p] = {}]
    /\ UNCHANGED <<row, blobs, reqVars, due, stops>>

-----------------------------------------------------------------------------
UploadStep(u) ==
    \/ \E p \in Replica, c \in Content : UploadDuplicate(u, p, c) \/ UploadNew(u, p, c)
    \/ StoreBlob(u) \/ StoreFails(u) \/ InsertRow(u)

ReprocessStep(r) ==
    \/ \E p \in Replica, d \in Upload : LoadForReprocess(r, p, d) \/ RejectReprocess(r, p, d)
    \/ Requeue(r)

DeleteStep(x) ==
    \/ \E p \in Replica, d \in Upload : LoadForDelete(x, p, d)
    \/ DeleteBlob(x) \/ DeleteBlobFails(x) \/ CommitDelete(x)

RunStep(r) ==
    \/ Submit(r) \/ Acquire(r) \/ ClaimWon(r) \/ ClaimLost(r)
    \/ StageDone(r) \/ StageFails(r) \/ FetchFails(r) \/ Timeout(r) \/ Tick(r)
    \/ Persist(r) \/ RecordFailure(r)

ReplicaStep(p) ==
    \/ Crash(p) \/ BeginDrain(p) \/ FinishDrain(p)
    \/ Start(p) \/ SweepRead(p) \/ SweepWrite(p) \/ HousekeepingFails(p)

Next ==
    \/ \E u \in Upload    : UploadStep(u)
    \/ \E r \in Reprocess : ReprocessStep(r)
    \/ \E x \in Delete    : DeleteStep(x)
    \/ \E r \in Run       : RunStep(r)
    \/ \E r \in Request   : TransactionFails(r)
    \/ \E p \in Replica   : ReplicaStep(p)

Spec == Init /\ [][Next]_vars

(***************************************************************************)
(* Fairness.  A handler or a task that has been started keeps being        *)
(* scheduled by its event loop; each of its awaits ends, with a result or  *)
(* an error, the three stages at the latest by the timeout; the semaphore  *)
(* is FIFO; the orchestrator restarts a replica that is down.  Nothing     *)
(* makes a client send a request, a replica stop, or a fault happen.       *)
(***************************************************************************)
HandlerProgress(r) ==
    \/ r \in Upload /\ (StoreBlob(r) \/ InsertRow(r))
    \/ r \in Reprocess /\ Requeue(r)
    \/ r \in Delete /\ (DeleteBlob(r) \/ CommitDelete(r))
    \/ r \in Run /\ Submit(r)

TaskProgress(r) ==
    \/ ClaimWon(r) \/ ClaimLost(r) \/ StageDone(r) \/ StageFails(r)
    \/ Persist(r) \/ RecordFailure(r)

StartupProgress(p) == FinishDrain(p) \/ Start(p) \/ SweepRead(p) \/ SweepWrite(p)

Fairness ==
    /\ \A r \in Request : WF_vars(HandlerProgress(r))
    /\ \A r \in Run     : WF_vars(Acquire(r)) /\ WF_vars(TaskProgress(r)) /\ WF_vars(Tick(r))
    /\ \A p \in Replica : WF_vars(StartupProgress(p))

FairSpec == Spec /\ Fairness

-----------------------------------------------------------------------------
(* Properties of every instance. *)

\* Deduplication: no two documents hold the same bytes of the same owner,
\* whatever uploads race (get_by_checksum, then the unique constraint).
OneRowPerContent ==
    \A d, e \in Upload :
        Present(row[d]) /\ Present(row[e]) /\ row[d].content = row[e].content => d = e

Explains == [uploaded |-> "PENDING", reprocess_requested |-> "PENDING",
             processing_started |-> "PROCESSING", processing_completed |-> "COMPLETED",
             processing_failed |-> "FAILED", processing_interrupted |-> "FAILED"]

\* The audit trail never disagrees with the row: the last event of a document
\* is the one that put it in its status, across crashes and rollbacks.
TrailExplainsStatus ==
    \A d \in Upload : Present(row[d]) => row[d].status = Explains[row[d].last]

\* Billing: a document is run once for its upload and at most once more for
\* each reprocess that was accepted, and attempt_count counts those runs.
EveryRunWasRequested ==
    \A d \in Upload :
        LET x == row[d] IN
        /\ x.attempts = x.starts
        /\ x.starts + (IF x.status = "PENDING" THEN 1 ELSE 0) <= 1 + x.requests

\* No PROCESSING row escapes the sweep for want of processing_started_at, even
\* when a late reprocess nulls the column under a running pipeline.
SweepSeesProcessing ==
    \A d \in Upload : row[d].status = "PROCESSING" => row[d].started # None

\* What the detail and ask endpoints rely on: a COMPLETED document has an
\* extraction and shows no error, a FAILED one has an error to show.
SettledRowIsReadable ==
    \A d \in Upload :
        /\ row[d].status = "COMPLETED" => row[d].extraction # None /\ row[d].error = None
        /\ row[d].status = "FAILED" => row[d].error # None

-----------------------------------------------------------------------------
(* Properties of a single replica whose clients do not race two reprocess   *)
(* requests on one document, across crashes, drains, restarts and faults.   *)

\* A pipeline at work finds the document as it claimed it, or deleted: nobody
\* completes, fails, sweeps or requeues it underneath.
ClaimHeld ==
    \A r \in Run : pc[r] \in Active =>
        LET x == row[target[r]] IN
        Present(x) => x.status = "PROCESSING" /\ x.started = r

\* The claim is exclusive: two pipelines never work on one document.
ExclusivePipeline ==
    \A q, r \in Run :
        pc[q] \in Active /\ pc[r] \in Active /\ target[q] = target[r] => q = r

\* The columns of a row agree with its status: an error exactly when FAILED, a
\* duration exactly when terminal, a claim exactly when it has been started.
ColumnsMatchStatus ==
    \A d \in Upload :
        LET x == row[d] IN
        /\ x.error # None    <=> x.status = "FAILED"
        /\ x.finished        <=> x.status \in Terminal
        /\ x.started # None  <=> x.status \in Terminal \cup {"PROCESSING"}

\* The documents live the life that the model of the table promises: legal
\* transitions only, and a COMPLETED document shows the result of its own run.
Lifecycle == INSTANCE DocumentLifecycle WITH
    Document <- Upload, Worker <- Run, Nobody <- None,
    status <- [d \in Upload |-> row[d].status],
    owner  <- [d \in Upload |-> row[d].started],
    result <- [d \in Upload |-> row[d].extraction]

ImplementsLifecycle == Lifecycle!LSpec

-----------------------------------------------------------------------------
(* Properties of instances without stops (and without faults). *)

\* Lost work: a document that is not settled has a run that will settle it.
NoOrphanedWork ==
    \A d \in Upload :
        /\ row[d].status = "PENDING" =>
              \E r \in Run : target[r] = d /\ pc[r] \in {"committed", "queued", "claiming"}
        /\ row[d].status = "PROCESSING" =>
              \E r \in Run : target[r] = d /\ pc[r] \in Active

\* A document has its file, unless a delete that is about to commit took it.
\* delete_document says that this is what its order of steps is for: "The row
\* goes first: if blob deletion fails we have a harmless orphaned object, whereas
\* the reverse order would leave a row whose file is gone."  It holds without
\* faults; a commit that fails after the blob went refutes it.
FileBehindEveryRow ==
    \A d \in Upload : Present(row[d]) =>
        d \in blobs \/ \E x \in Delete : target[x] = d /\ pc[x] = "unlinked"

\* Clients poll until a document is completed or failed: the polling ends.
Settles ==
    \A d \in Upload :
        row[d].status \in {"PENDING", "PROCESSING"}
            ~> row[d].status \notin {"PENDING", "PROCESSING"}

-----------------------------------------------------------------------------
(* What comments of the code say, and instances of this module refute. *)

\* process_document: "Never raises. [...] Letting an exception escape would only
\* reach the task runner's logger and leave the row stuck in PROCESSING."
NothingEscapesWhileProcessing ==
    \A r \in Run : pc[r] = "raised" =>
        LET x == row[target[r]] IN ~(x.status = "PROCESSING" /\ x.started = r)

\* recover_stuck_documents: "a crash or a deploy mid-pipeline leaves rows in
\* PROCESSING with nothing running.  Without this sweep those documents would
\* poll forever."
InterruptedIsReclaimed ==
    \A d \in Upload :
        row[d].status = "PROCESSING" ~> row[d].status # "PROCESSING"
=============================================================================
