------------------------- MODULE DocumentCalmProofs -------------------------
(***************************************************************************)
(* Theorems about DocumentPipeline where no replica stops and no           *)
(* transaction or storage call fails, for any number of replicas and of    *)
(* requests, reprocess requests that race each other included.             *)
(***************************************************************************)
EXTENDS DocumentPipelineProofs

-----------------------------------------------------------------------------
Waiting == {"committed", "queued", "claiming"}
Unborn  == {"idle", "storing", "inserting"}

\* Every replica is up, and a request knows its replica and its document.
AddressInv ==
    /\ \A p \in Replica : phase[p] = "up"
    /\ \A r \in Request : pc[r] # "idle" => host[r] \in Replica /\ target[r] \in Upload
    /\ \A u \in Upload  : pc[u] # "idle" => target[u] = u

\* A row and a delete of it come after the insert, the file before it.
FileInv ==
    /\ FileBehindEveryRow
    /\ \A u \in Upload : pc[u] = "inserting" => u \in blobs
    /\ \A u \in Upload : Present(row[u]) => pc[u] \notin Unborn
    /\ \A x \in Delete : pc[x] \in {"loaded", "unlinked"} => pc[target[x]] \notin Unborn

CalmInv == TypeOK /\ AddressInv /\ NoOrphanedWork /\ FileInv

-----------------------------------------------------------------------------
(* A step of a request: where it goes, the document and the replica it works *)
(* on, and what becomes of the row.                                          *)

Works(r, at, d, p, y) ==
    /\ pc' = [pc EXCEPT ![r] = at]
    /\ target' = [target EXCEPT ![r] = d] /\ host' = [host EXCEPT ![r] = p]
    /\ pc[r] # "idle" => target[r] = d /\ host[r] = p
    /\ r \in Upload => d = r
    /\ row' = [row EXCEPT ![d] = y]
    /\ phase' = phase

\* Work is handed on, or is done.
Carries(r, at, d, y) ==
    /\ y.status = "PENDING" =>
           \/ r \in Run /\ at \in Waiting
           \/ row[d].status = "PENDING" /\ ~(r \in Run /\ pc[r] \in Waiting)
    /\ y.status = "PROCESSING" =>
           \/ r \in Run /\ at \in Active
           \/ row[d].status = "PROCESSING" /\ ~(r \in Run /\ pc[r] \in Active)

\* The file is stored before the row is inserted, and goes with a delete.
Files(r, at, d, y) ==
    /\ blobs \subseteq blobs' \/ (r \in Delete /\ at = "unlinked" /\ pc[r] = "loaded" /\ blobs' = blobs \ {d})
    /\ Present(y) => Present(row[d]) \/ (r = d /\ pc[r] = "inserting" /\ at \notin Unborn)
    /\ at = "inserting" /\ r \in Upload => d \in blobs'
    /\ at \in Unborn /\ r \in Upload => pc[r] \in Unborn
    /\ r \in Delete /\ at \in {"loaded", "unlinked"} => pc[r] = "loaded" \/ Present(row[d])
    /\ r \in Delete /\ pc[r] = "unlinked" => ~Present(y)

Step(r, at, d, p, y) == Works(r, at, d, p, y) /\ Carries(r, at, d, y) /\ Files(r, at, d, y)

CalmStep ==
    \E r \in Request, at \in Pc, d \in Upload, p \in Replica, y \in Row : Step(r, at, d, p, y)

-----------------------------------------------------------------------------
\* A step of a request that is under way.
LEMMA UnderWay ==
    ASSUME CalmInv, NEW r \in Request, pc[r] # "idle", NEW at, Goto(r, at),
           UNCHANGED <<target, host, phase>>, NEW y,
           row' = [row EXCEPT ![target[r]] = y]
    PROVE  Works(r, at, target[r], host[r], y) /\ target[r] \in Upload /\ host[r] \in Replica
<1>1. target[r] \in Upload /\ host[r] \in Replica /\ (r \in Upload => target[r] = r)
  BY DEF CalmInv, AddressInv
<1>2. target' = [target EXCEPT ![r] = target[r]] /\ host' = [host EXCEPT ![r] = host[r]]
  BY DEF CalmInv, TypeOK
<1> QED
  BY <1>1, <1>2 DEF Works, Goto

LEMMA Standing ==
    ASSUME CalmInv, NEW r \in Request, pc[r] # "idle", NEW at, Goto(r, at),
           UNCHANGED <<target, host, phase>>, row' = row
    PROVE  /\ Works(r, at, target[r], host[r], row[target[r]])
           /\ target[r] \in Upload /\ host[r] \in Replica
<1>1. row' = [row EXCEPT ![target[r]] = row[target[r]]]
  BY DEF CalmInv, TypeOK
<1> QED
  BY <1>1, UnderWay

LEMMA UploadCalm ==
    ASSUME CalmInv, MaxFaults = 0, NEW u \in Upload, UploadStep(u)
    PROVE  CalmStep
<1> USE DEF Pc, Handling, Ended, Unborn, Waiting
<1>0. TypeOK /\ u \in Request /\ u \in Run /\ u \notin Delete
  BY RequestKinds DEF CalmInv, Request, Run
<1>1. ASSUME NEW p \in Replica, NEW c \in Content, UploadDuplicate(u, p, c) \/ UploadNew(u, p, c)
      PROVE  CalmStep
  <2>1. PICK at \in {"done", "storing"} :
           /\ Goto(u, at) /\ Receive(u, p, u) /\ row' = row /\ blobs' = blobs /\ phase' = phase
    BY <1>1 DEF UploadDuplicate, UploadNew, replicaVars
  <2>2. Works(u, at, u, p, row[u]) /\ pc[u] = "idle"
    BY <1>0, <2>1 DEF Works, Receive, Goto, TypeOK
  <2>3. Carries(u, at, u, row[u])
    BY <2>2 DEF Carries, Active, Stage
  <2>4. Files(u, at, u, row[u])
    BY <1>0, <2>1, <2>2 DEF Files
  <2>5. row[u] \in Row /\ at \in Pc
    BY <1>0 DEF TypeOK
  <2> QED
    BY <1>0, <2>2, <2>3, <2>4, <2>5 DEF Step, CalmStep
<1>2. CASE StoreBlob(u)
  <2> DEFINE d == target[u]
  <2>1. /\ pc[u] = "storing" /\ Goto(u, "inserting") /\ blobs' = blobs \cup {u}
        /\ row' = row /\ UNCHANGED <<target, host, phase>>
    BY <1>2 DEF StoreBlob, replicaVars
  <2>2. d = u
    BY <2>1 DEF CalmInv, AddressInv
  <2>3. Works(u, "inserting", u, host[u], row[u]) /\ host[u] \in Replica
    BY <1>0, <2>1, <2>2, Standing
  <2>4. Carries(u, "inserting", u, row[u]) /\ Files(u, "inserting", u, row[u])
    BY <1>0, <2>1 DEF Carries, Files, Active, Stage
  <2> QED
    BY <1>0, <2>3, <2>4 DEF Step, CalmStep, TypeOK
<1>3. CASE InsertRow(u)
  <2>1. /\ pc[u] = "inserting" /\ blobs' = blobs /\ UNCHANGED <<target, host, phase>>
        /\ target[u] = u
    BY <1>3 DEF InsertRow, replicaVars, CalmInv, AddressInv
  <2>2. CASE Duplicate(content[u])
    <3>1. Goto(u, "done") /\ row' = row
      BY <1>3, <2>2 DEF InsertRow
    <3>2. Works(u, "done", u, host[u], row[u]) /\ host[u] \in Replica
      BY <1>0, <2>1, <3>1, Standing
    <3>3. Carries(u, "done", u, row[u]) /\ Files(u, "done", u, row[u])
      BY <1>0, <2>1 DEF Carries, Files, Active, Stage
    <3> QED
      BY <1>0, <3>2, <3>3 DEF Step, CalmStep, TypeOK
  <2>3. CASE ~Duplicate(content[u])
    <3> DEFINE y == AddEvent(Create(content[u]), "uploaded")
    <3>1. Goto(u, "committed") /\ row' = [row EXCEPT ![u] = y]
      BY <1>3, <2>3 DEF InsertRow
    <3>2. Create(content[u]) \in Row /\ Create(content[u]).status = "PENDING"
      BY <1>0, CreateType, CreateColumns DEF TypeOK
    <3>3. y \in Row /\ y.status = "PENDING"
      BY <3>2, AddEventType, AddEventStatus DEF Event
    <3> HIDE DEF y
    <3>4. Works(u, "committed", u, host[u], y) /\ host[u] \in Replica
      BY <1>0, <2>1, <3>1, UnderWay
    <3>5. Carries(u, "committed", u, y) /\ Files(u, "committed", u, y)
      BY <1>0, <2>1, <3>3 DEF Carries, Files
    <3> QED
      BY <1>0, <3>3, <3>4, <3>5 DEF Step, CalmStep
  <2> QED
    BY <2>2, <2>3
<1>4. ~StoreFails(u)
  BY <1>0 DEF StoreFails, Fault, TypeOK
<1> QED
  BY <1>1, <1>2, <1>3, <1>4 DEF UploadStep

LEMMA ReprocessCalm ==
    ASSUME CalmInv, NEW r \in Reprocess, ReprocessStep(r)
    PROVE  CalmStep
<1> USE DEF Pc, Handling, Ended, Unborn, Waiting
<1>0. TypeOK /\ r \in Request /\ r \in Run /\ r \notin Delete /\ r \notin Upload
  BY RequestKinds DEF CalmInv, Request, Run
<1>1. ASSUME NEW p \in Replica, NEW d \in Upload, LoadForReprocess(r, p, d) \/ RejectReprocess(r, p, d)
      PROVE  CalmStep
  <2>1. PICK at \in {"done", "loaded"} :
           /\ Goto(r, at) /\ Receive(r, p, d) /\ row' = row /\ blobs' = blobs /\ phase' = phase
    BY <1>1 DEF LoadForReprocess, RejectReprocess, replicaVars
  <2>2. Works(r, at, d, p, row[d]) /\ pc[r] = "idle"
    BY <1>0, <2>1 DEF Works, Receive, Goto, TypeOK
  <2>3. Carries(r, at, d, row[d])
    BY <2>2 DEF Carries, Active, Stage
  <2>4. Files(r, at, d, row[d])
    BY <1>0, <2>1, <2>2 DEF Files
  <2>5. row[d] \in Row /\ at \in Pc
    BY <1>0 DEF TypeOK
  <2> QED
    BY <1>0, <2>2, <2>3, <2>4, <2>5 DEF Step, CalmStep
<1>2. CASE Requeue(r)
  <2> DEFINE d == target[r]
  <2>1. /\ pc[r] = "loaded" /\ blobs' = blobs /\ UNCHANGED <<target, host, phase>>
        /\ d \in Upload
    BY <1>0, <1>2 DEF Requeue, replicaVars, CalmInv, AddressInv
  <2>2. row[d] \in Row /\ seen[r] \in Row
    BY <1>0, <2>1 DEF TypeOK
  <2>3. CASE Present(row[d])
    <3> DEFINE x == ResetToPending(row[d], seen[r])
               y == AddEvent(x, "reprocess_requested")
    <3>1. Goto(r, "committed") /\ row' = [row EXCEPT ![d] = y]
      BY <1>2, <2>3 DEF Requeue
    <3>2. x \in Row /\ x.status = "PENDING"
      BY <2>2, ResetType, ResetColumns
    <3> HIDE DEF x
    <3>3. y \in Row /\ y.status = "PENDING"
      BY <3>2, AddEventType, AddEventStatus DEF Event
    <3> HIDE DEF y
    <3>4. Works(r, "committed", d, host[r], y) /\ host[r] \in Replica
      BY <1>0, <2>1, <3>1, UnderWay
    <3>5. Carries(r, "committed", d, y) /\ Files(r, "committed", d, y)
      BY <1>0, <2>1, <2>3, <3>3 DEF Carries, Files
    <3> QED
      BY <1>0, <2>1, <3>3, <3>4, <3>5 DEF Step, CalmStep
  <2>4. CASE ~Present(row[d])
    <3>1. Goto(r, "done") /\ row' = row
      BY <1>2, <2>4 DEF Requeue
    <3>2. Works(r, "done", d, host[r], row[d]) /\ host[r] \in Replica
      BY <1>0, <2>1, <3>1, Standing
    <3>3. Carries(r, "done", d, row[d]) /\ Files(r, "done", d, row[d])
      BY <1>0, <2>1 DEF Carries, Files, Active, Stage
    <3> QED
      BY <1>0, <2>1, <2>2, <3>2, <3>3 DEF Step, CalmStep
  <2> QED
    BY <2>3, <2>4
<1> QED
  BY <1>1, <1>2 DEF ReprocessStep

LEMMA DeleteCalm ==
    ASSUME CalmInv, MaxFaults = 0, NEW x \in Delete, DeleteStep(x)
    PROVE  CalmStep
<1> USE DEF Pc, Handling, Ended, Unborn, Waiting
<1>0. TypeOK /\ x \in Request /\ x \notin Run /\ x \notin Upload
  BY RequestKinds DEF CalmInv, Request, Run
<1>1. ASSUME NEW p \in Replica, NEW d \in Upload, LoadForDelete(x, p, d)
      PROVE  CalmStep
  <2>1. /\ Goto(x, "loaded") /\ Receive(x, p, d) /\ Present(row[d])
        /\ row' = row /\ blobs' = blobs /\ phase' = phase
    BY <1>1 DEF LoadForDelete, replicaVars
  <2>2. Works(x, "loaded", d, p, row[d]) /\ pc[x] = "idle"
    BY <1>0, <2>1 DEF Works, Receive, Goto, TypeOK
  <2>3. Carries(x, "loaded", d, row[d])
    BY <1>0 DEF Carries
  <2>4. Files(x, "loaded", d, row[d])
    BY <1>0, <2>1, <2>2 DEF Files
  <2> QED
    BY <1>0, <2>2, <2>3, <2>4 DEF Step, CalmStep, TypeOK
<1>2. CASE DeleteBlob(x)
  <2> DEFINE d == target[x]
  <2>1. /\ pc[x] = "loaded" /\ Goto(x, "unlinked") /\ blobs' = blobs \ {d}
        /\ row' = row /\ UNCHANGED <<target, host, phase>> /\ d \in Upload
    BY <1>0, <1>2 DEF DeleteBlob, replicaVars, CalmInv, AddressInv
  <2>2. Works(x, "unlinked", d, host[x], row[d]) /\ host[x] \in Replica
    BY <1>0, <2>1, Standing
  <2>3. Carries(x, "unlinked", d, row[d]) /\ Files(x, "unlinked", d, row[d])
    BY <1>0, <2>1 DEF Carries, Files
  <2> QED
    BY <1>0, <2>1, <2>2, <2>3 DEF Step, CalmStep, TypeOK
<1>3. CASE CommitDelete(x)
  <2> DEFINE d == target[x]
  <2>1. /\ pc[x] = "unlinked" /\ Goto(x, "done") /\ blobs' = blobs
        /\ row' = [row EXCEPT ![d] = NoRow] /\ UNCHANGED <<target, host, phase>> /\ d \in Upload
    BY <1>0, <1>3 DEF CommitDelete, replicaVars, CalmInv, AddressInv
  <2>2. NoRow \in Row /\ NoRow.status = "absent"
    BY NoRowType DEF NoRow
  <2>3. Works(x, "done", d, host[x], NoRow) /\ host[x] \in Replica
    BY <1>0, <2>1, UnderWay
  <2>4. Carries(x, "done", d, NoRow) /\ Files(x, "done", d, NoRow)
    BY <1>0, <2>1, <2>2 DEF Carries, Files, Present
  <2> QED
    BY <1>0, <2>1, <2>2, <2>3, <2>4 DEF Step, CalmStep
<1>4. ~DeleteBlobFails(x)
  BY <1>0 DEF DeleteBlobFails, Fault, TypeOK
<1> QED
  BY <1>1, <1>2, <1>3, <1>4 DEF DeleteStep

\* The steps of a task that leave its row alone: it waits for its turn, works
\* through its stages, or ends because there is nothing to do for it.
LEMMA TaskCalm ==
    ASSUME CalmInv, MaxFaults = 0, NEW r \in Run,
           \/ Submit(r) \/ Acquire(r) \/ ClaimLost(r)
           \/ StageDone(r) \/ StageFails(r) \/ FetchFails(r) \/ Timeout(r)
    PROVE  CalmStep
<1> USE DEF Unborn, Waiting, Active, Stage
<1>0. TypeOK /\ r \in Request /\ r \notin Delete
  BY RequestKinds DEF CalmInv, Request, Run
<1>1. ~FetchFails(r)
  BY <1>0 DEF FetchFails, Fault, TypeOK
<1>2. row' = row /\ blobs' = blobs /\ UNCHANGED <<target, host, phase>> /\ pc[r] # "idle"
  BY <1>1 DEF Submit, Acquire, ClaimLost, StageDone, StageFails, Timeout, replicaVars
<1>3. target[r] \in Upload /\ host[r] \in Replica /\ phase[host[r]] = "up" /\ row[target[r]] \in Row
  BY <1>0, <1>2 DEF CalmInv, AddressInv, TypeOK
<1>4. PICK at \in {"done", "queued", "claiming", "extracting", "analysing", "persisting", "failing"} :
         /\ Goto(r, at)
         /\ \/ pc[r] = "committed" /\ at = "queued"
            \/ pc[r] = "queued" /\ at = "claiming"
            \/ pc[r] = "claiming" /\ at = "done" /\ row[target[r]].status # "PENDING"
            \/ pc[r] \in Stage /\ at \in Active
  <2>1. CASE Submit(r)
    BY <1>3, <2>1 DEF Submit
  <2>2. CASE Acquire(r)
    BY <2>2 DEF Acquire
  <2>3. CASE ClaimLost(r)
    BY <2>3 DEF ClaimLost, Claimable
  <2>4. CASE StageDone(r)
    BY <2>4 DEF StageDone, NextStage
  <2>5. CASE StageFails(r) \/ Timeout(r)
    BY <2>5 DEF StageFails, Timeout
  <2> QED
    BY <1>1, <2>1, <2>2, <2>3, <2>4, <2>5
<1>5. Works(r, at, target[r], host[r], row[target[r]])
  BY <1>0, <1>2, <1>4, Standing
<1>6. Carries(r, at, target[r], row[target[r]]) /\ Files(r, at, target[r], row[target[r]])
  BY <1>0, <1>2, <1>4 DEF Carries, Files
<1> QED
  BY <1>0, <1>3, <1>5, <1>6 DEF Step, CalmStep, Pc, Permit, Ended

\* The transactions of a task: the claim, and the two that settle the document.
LEMMA TransactionCalm ==
    ASSUME CalmInv, NEW r \in Run, ClaimWon(r) \/ Persist(r) \/ RecordFailure(r)
    PROVE  CalmStep
<1> USE DEF Unborn, Waiting, Active, Stage, Pc, Permit, Ended
<1> DEFINE d == target[r]
<1>0. TypeOK /\ r \in Request /\ r \notin Delete
  BY RequestKinds DEF CalmInv, Request, Run
<1>1. blobs' = blobs /\ UNCHANGED <<target, host, phase>>
      /\ pc[r] \in {"claiming", "persisting", "failing"}
  BY DEF ClaimWon, Persist, RecordFailure, replicaVars
<1>2. d \in Upload /\ host[r] \in Replica /\ row[d] \in Row
  BY <1>0, <1>1 DEF CalmInv, AddressInv, TypeOK
<1>3. CASE ClaimWon(r)
  <2> DEFINE x == ClaimForProcessing(row[d], r)
             y == AddEvent(x, "processing_started")
  <2>1. /\ Goto(r, "fetching") /\ row' = [row EXCEPT ![d] = y] /\ row[d].status = "PENDING"
    BY <1>3 DEF ClaimWon, Claimable
  <2>2. x \in Row /\ x.status = "PROCESSING"
    BY <1>2, ClaimType, ClaimColumns
  <2> HIDE DEF x
  <2>3. y \in Row /\ y.status = "PROCESSING"
    BY <2>2, AddEventType, AddEventStatus DEF Event
  <2> HIDE DEF y
  <2>4. Works(r, "fetching", d, host[r], y)
    BY <1>0, <1>1, <2>1, UnderWay
  <2>5. Carries(r, "fetching", d, y) /\ Files(r, "fetching", d, y)
    BY <1>0, <1>1, <2>1, <2>3 DEF Carries, Files, Present
  <2> QED
    BY <1>0, <1>2, <2>3, <2>4, <2>5 DEF Step, CalmStep
<1>4. ASSUME NEW y \in Row, y.status \in Terminal, Present(row[d]),
             Goto(r, "done"), row' = [row EXCEPT ![d] = y]
      PROVE  CalmStep
  <2>1. Works(r, "done", d, host[r], y)
    BY <1>0, <1>1, <1>4, UnderWay
  <2>2. Carries(r, "done", d, y) /\ Files(r, "done", d, y)
    BY <1>0, <1>1, <1>4 DEF Carries, Files, Terminal
  <2> QED
    BY <1>0, <1>2, <1>4, <2>1, <2>2 DEF Step, CalmStep
<1>5. ASSUME NEW at \in {"done", "raised"}, Goto(r, at), row' = row, ~Present(row[d])
      PROVE  CalmStep
  <2>1. Works(r, at, d, host[r], row[d])
    BY <1>0, <1>1, <1>5, Standing
  <2>2. Carries(r, at, d, row[d]) /\ Files(r, at, d, row[d])
    BY <1>0, <1>1, <1>5 DEF Carries, Files, Present
  <2> QED
    BY <1>0, <1>2, <2>1, <2>2 DEF Step, CalmStep
<1>6. CASE Persist(r)
  <2> DEFINE x == MarkCompleted(UpsertExtraction(row[d], r))
             y == AddEvent(x, "processing_completed")
  <2>1. x \in Row /\ x.status = "COMPLETED"
    BY <1>2, UpsertType, MarkCompletedType, CompleteColumns
  <2>2. Present(row[d]) => Goto(r, "done") /\ row' = [row EXCEPT ![d] = y]
    BY <1>6 DEF Persist
  <2>3. ~Present(row[d]) => Goto(r, "raised") /\ row' = row
    BY <1>6 DEF Persist
  <2> HIDE DEF x
  <2>4. y \in Row /\ y.status \in Terminal
    BY <2>1, AddEventType, AddEventStatus DEF Event, Terminal
  <2> HIDE DEF y
  <2> QED
    BY <1>4, <1>5, <2>2, <2>3, <2>4
<1>7. CASE RecordFailure(r)
  <2> DEFINE x == MarkFailed(row[d], code[r])
             y == AddEvent(x, "processing_failed")
  <2>1. x \in Row /\ x.status = "FAILED"
    <3>1. code[r] \in Code \cup {None}
      BY <1>0 DEF TypeOK
    <3> QED
      BY <1>2, <3>1, MarkFailedType, FailColumns
  <2>2. Present(row[d]) => Goto(r, "done") /\ row' = [row EXCEPT ![d] = y]
    BY <1>7 DEF RecordFailure
  <2>3. ~Present(row[d]) => Goto(r, "done") /\ row' = row
    BY <1>7 DEF RecordFailure
  <2> HIDE DEF x
  <2>4. y \in Row /\ y.status \in Terminal
    BY <2>1, AddEventType, AddEventStatus DEF Event, Terminal
  <2> HIDE DEF y
  <2> QED
    BY <1>4, <1>5, <2>2, <2>3, <2>4
<1> QED
  BY <1>3, <1>6, <1>7

\* Where nothing stops and nothing fails, every step is one of a request, but for
\* the passing of time.
LEMMA CalmSteps ==
    ASSUME MaxStops = 0, MaxFaults = 0, CalmInv, Next
    PROVE  CalmStep \/ UNCHANGED <<row, blobs, reqVars, replicaVars>>
<1>0. TypeOK /\ \A p \in Replica : phase[p] = "up"
  BY DEF CalmInv, AddressInv
<1>1. ASSUME NEW r \in Run, RunStep(r)
      PROVE  CalmStep \/ UNCHANGED <<row, blobs, reqVars, replicaVars>>
  <2>1. Tick(r) => UNCHANGED <<row, blobs, reqVars, replicaVars>>
    BY DEF Tick
  <2> QED
    BY <1>1, <2>1, TaskCalm, TransactionCalm DEF RunStep
<1>2. ASSUME NEW r \in Request
      PROVE  ~TransactionFails(r)
  BY <1>0 DEF TransactionFails, Fault, TypeOK
<1>3. ASSUME NEW p \in Replica
      PROVE  ~ReplicaStep(p)
  BY <1>0, <1>3 DEF ReplicaStep, Crash, BeginDrain, FinishDrain, Start, SweepRead, SweepWrite,
                    HousekeepingFails, TypeOK
<1> QED
  BY <1>1, <1>2, <1>3, UploadCalm, ReprocessCalm, DeleteCalm DEF Next

-----------------------------------------------------------------------------
LEMMA AddressKept ==
    ASSUME CalmInv, NEW r \in Request, NEW at \in Pc, NEW d \in Upload, NEW p \in Replica, NEW y \in Row,
           Works(r, at, d, p, y)
    PROVE  AddressInv'
  BY DEF CalmInv, TypeOK, AddressInv, Works, Request, Run

\* The run that keeps a document going is another one, which has not moved, or it
\* is this one, and then it goes on or has settled the document.
LEMMA WorkKept ==
    ASSUME CalmInv, NEW r \in Request, NEW at \in Pc, NEW d \in Upload, NEW p \in Replica, NEW y \in Row,
           Works(r, at, d, p, y), Carries(r, at, d, y)
    PROVE  NoOrphanedWork'
<1>1. /\ pc' = [pc EXCEPT ![r] = at] /\ target' = [target EXCEPT ![r] = d]
      /\ row' = [row EXCEPT ![d] = y] /\ TypeOK
      /\ pc[r] # "idle" => target[r] = d
  BY DEF Works, CalmInv
<1>2. Run \subseteq Request
  BY DEF Request
<1>3. \A q \in Request \ {r} : pc'[q] = pc[q] /\ target'[q] = target[q]
  BY <1>1 DEF TypeOK
<1>4. pc'[r] = at /\ target'[r] = d /\ row'[d] = y
  BY <1>1 DEF TypeOK
<1>5. ASSUME NEW e \in Upload, row'[e].status = "PENDING"
      PROVE  \E q \in Run : target'[q] = e /\ pc'[q] \in Waiting
  <2>1. CASE r \in Run /\ at \in Waiting /\ e = d
    BY <1>4, <2>1
  <2>2. CASE ~(r \in Run /\ at \in Waiting /\ e = d)
    <3>1. row[e].status = "PENDING" /\ (e = d => ~(r \in Run /\ pc[r] \in Waiting))
      BY <1>1, <1>5, <2>2 DEF Carries, TypeOK
    <3>2. PICK q \in Run : target[q] = e /\ pc[q] \in Waiting
      BY <3>1 DEF CalmInv, NoOrphanedWork, Waiting
    <3>3. q # r
      BY <1>1, <3>1, <3>2 DEF Waiting
    <3> QED
      BY <1>2, <1>3, <3>2, <3>3
  <2> QED
    BY <2>1, <2>2
<1>6. ASSUME NEW e \in Upload, row'[e].status = "PROCESSING"
      PROVE  \E q \in Run : target'[q] = e /\ pc'[q] \in Active
  <2>1. CASE r \in Run /\ at \in Active /\ e = d
    BY <1>4, <2>1
  <2>2. CASE ~(r \in Run /\ at \in Active /\ e = d)
    <3>1. row[e].status = "PROCESSING" /\ (e = d => ~(r \in Run /\ pc[r] \in Active))
      BY <1>1, <1>6, <2>2 DEF Carries, TypeOK
    <3>2. PICK q \in Run : target[q] = e /\ pc[q] \in Active
      BY <3>1 DEF CalmInv, NoOrphanedWork
    <3>3. q # r
      BY <1>1, <3>1, <3>2 DEF Active, Stage
    <3> QED
      BY <1>2, <1>3, <3>2, <3>3
  <2> QED
    BY <2>1, <2>2
<1> QED
  BY <1>5, <1>6 DEF NoOrphanedWork, Waiting

LEMMA FilesKept ==
    ASSUME CalmInv, NEW r \in Request, NEW at \in Pc, NEW d \in Upload, NEW p \in Replica, NEW y \in Row,
           Works(r, at, d, p, y), Files(r, at, d, y)
    PROVE  FileInv'
<1>1. /\ pc' = [pc EXCEPT ![r] = at] /\ target' = [target EXCEPT ![r] = d]
      /\ row' = [row EXCEPT ![d] = y] /\ TypeOK
      /\ pc[r] # "idle" => target[r] = d
      /\ r \in Upload => d = r
  BY DEF Works, CalmInv
<1>2. Upload \subseteq Request /\ Delete \subseteq Request /\ Upload \cap Delete = {}
  BY RequestKinds DEF Request, Run
<1>3. \A q \in Request \ {r} : pc'[q] = pc[q] /\ target'[q] = target[q]
  BY <1>1 DEF TypeOK
<1>4. pc'[r] = at /\ target'[r] = d /\ row'[d] = y /\ \A e \in Upload \ {d} : row'[e] = row[e]
  BY <1>1 DEF TypeOK
<1>5. ASSUME NEW u \in Upload, Present(row'[u])
      PROVE  pc'[u] \notin Unborn
  BY <1>1, <1>2, <1>3, <1>4, <1>5 DEF Files, CalmInv, FileInv
<1>6. \A u \in Upload : pc[u] \notin Unborn => pc'[u] \notin Unborn
  BY <1>2, <1>3, <1>4 DEF Files
<1>7. ASSUME NEW x \in Delete, pc'[x] \in {"loaded", "unlinked"}
      PROVE  pc'[target'[x]] \notin Unborn
  <2>1. CASE x # r
    <3>1. target'[x] = target[x] /\ pc[target[x]] \notin Unborn /\ target[x] \in Upload
      BY <1>2, <1>3, <1>7, <2>1 DEF CalmInv, FileInv, AddressInv
    <3> QED
      BY <1>6, <3>1
  <2>2. CASE x = r
    <3>1. pc[d] \notin Unborn
      BY <1>1, <1>4, <1>7, <2>2 DEF Files, CalmInv, FileInv
    <3> QED
      BY <1>4, <1>6, <2>2, <3>1
  <2> QED
    BY <2>1, <2>2
\* A blob that goes is that of the document whose delete is about to commit.
<1>8. \A u \in Upload : u \in blobs => u \in blobs' \/ (u = d /\ r \in Delete /\ at = "unlinked" /\ pc[r] = "loaded")
  BY DEF Files
<1>9. ASSUME NEW u \in Upload, pc'[u] = "inserting"
      PROVE  u \in blobs'
  <2>1. CASE u = r
    BY <1>1, <1>4, <1>9, <2>1 DEF Files
  <2>2. CASE u # r
    <3>1. pc[u] = "inserting" /\ u \in blobs
      BY <1>2, <1>3, <1>9, <2>2 DEF CalmInv, FileInv
    <3>2. r \in Delete /\ pc[r] = "loaded" => pc[d] \notin Unborn
      BY <1>1 DEF CalmInv, FileInv
    <3> QED
      BY <1>8, <3>1, <3>2 DEF Unborn
  <2> QED
    BY <2>1, <2>2
<1>10. ASSUME NEW u \in Upload, Present(row'[u])
       PROVE  u \in blobs' \/ \E x \in Delete : target'[x] = u /\ pc'[x] = "unlinked"
  <2>1. CASE u \in blobs
    BY <1>4, <1>8, <2>1
  <2>2. CASE u \notin blobs
    <3>1. Present(row[u])
      BY <1>4, <1>10, <2>2 DEF Files, CalmInv, FileInv
    <3>2. PICK x \in Delete : target[x] = u /\ pc[x] = "unlinked"
      BY <2>2, <3>1 DEF CalmInv, FileInv, FileBehindEveryRow
    <3>3. x # r
      BY <1>1, <1>4, <1>10, <3>2 DEF Files
    <3> QED
      BY <1>2, <1>3, <3>2, <3>3
  <2> QED
    BY <2>1, <2>2
<1> QED
  BY <1>5, <1>7, <1>9, <1>10 DEF FileInv, FileBehindEveryRow

LEMMA CalmInit == Init => CalmInv
<1> SUFFICES ASSUME Init PROVE CalmInv
  OBVIOUS
<1>1. TypeOK /\ AddressInv
  BY TypeInit DEF Init, AddressInv, Request, Run
<1>2. \A d \in Upload : row[d].status = "absent"
  BY DEF Init, NoRow
<1>3. NoOrphanedWork /\ FileInv
  BY <1>2 DEF Init, NoOrphanedWork, FileInv, FileBehindEveryRow, Present, Request, Run
<1> QED
  BY <1>1, <1>3 DEF CalmInv

LEMMA CalmNext ==
    ASSUME MaxStops = 0, MaxFaults = 0
    PROVE  CalmInv /\ [Next]_vars => CalmInv'
<1> SUFFICES ASSUME CalmInv, [Next]_vars
             PROVE  CalmInv'
  OBVIOUS
<1>1. TypeOK'
  BY TypeNext DEF CalmInv
<1>2. CASE CalmStep
  <2>1. PICK r \in Request, at \in Pc, d \in Upload, p \in Replica, y \in Row : Step(r, at, d, p, y)
    BY <1>2 DEF CalmStep
  <2> QED
    BY <1>1, <2>1, AddressKept, WorkKept, FilesKept DEF Step, CalmInv
<1>3. CASE UNCHANGED <<row, blobs, reqVars, replicaVars>>
  <2>1. UNCHANGED <<row, blobs, pc, target, host, phase>>
    BY <1>3 DEF reqVars, replicaVars
  <2>2. AddressInv' /\ NoOrphanedWork'
    BY <2>1 DEF CalmInv, AddressInv, NoOrphanedWork
  <2>3. FileInv'
    BY <2>1 DEF CalmInv, FileInv, FileBehindEveryRow
  <2> QED
    BY <1>1, <2>2, <2>3 DEF CalmInv
<1> QED
  BY <1>2, <1>3, CalmSteps DEF vars

\* Without stops and faults no work is lost: a document that is queued has a run
\* waiting for it, and one in progress has a run at work, however clients race
\* uploads, reprocess requests and deletes (document_service.py, task_runner.py).
THEOREM NoWorkIsLost ==
    ASSUME MaxStops = 0, MaxFaults = 0
    PROVE  Spec => []NoOrphanedWork
<1>1. CalmInv /\ [Next]_vars => CalmInv'
  BY CalmNext
<1>2. CalmInv => NoOrphanedWork
  BY DEF CalmInv
<1> QED
  BY <1>1, <1>2, CalmInit, PTL DEF Spec

\* Without stops and faults a document has its file, unless a delete that has
\* removed the file is about to remove the row (documents.py, delete_document).
THEOREM EveryRowHasItsFile ==
    ASSUME MaxStops = 0, MaxFaults = 0
    PROVE  Spec => []FileBehindEveryRow
<1>1. CalmInv /\ [Next]_vars => CalmInv'
  BY CalmNext
<1>2. CalmInv => FileBehindEveryRow
  BY DEF CalmInv, FileInv
<1> QED
  BY <1>1, <1>2, CalmInit, PTL DEF Spec
=============================================================================
