------------------------ MODULE DocumentSerialProofs ------------------------
(***************************************************************************)
(* What holds of DocumentPipeline when the replicas do not overlap and no  *)
(* two reprocess requests race on one document: the claim is exclusive,    *)
(* and the documents follow DocumentLifecycle.  Both restrictions are      *)
(* needed: the code enforces neither, and without them the theorems of     *)
(* this module are false (run race).                                       *)
(***************************************************************************)
EXTENDS DocumentPipelineProofs

Serial ==
    /\ SerialReprocess
    /\ \A p, q \in Replica : p = q

-----------------------------------------------------------------------------
(* The inductive invariant of the claim. *)

Live(r) == pc[r] # "idle" /\ pc[r] \notin Ended

\* A request at work knows its document and runs on a replica that serves.
LiveIsServed ==
    \A r \in Request : Live(r) =>
        /\ target[r] \in Upload /\ host[r] \in Replica
        /\ phase[host[r]] \in {"up", "draining"}

\* Nobody knows a document before its row is inserted.
New == {"idle", "storing", "inserting"}
NewIsUnknown ==
    \A u \in Upload :
        /\ target[u] \in {u, None}
        /\ pc[u] \in New => /\ ~Present(row[u])
                            /\ \A q \in Request : target[q] = u => q = u

\* What a reprocess handler loaded is still what it is about to overwrite.
Loaded(r) == r \in Reprocess /\ pc[r] = "loaded"
LoadedIsCurrent ==
    \A r \in Reprocess : Loaded(r) /\ Present(row[target[r]]) =>
        Requeueable(row[target[r]]) /\ seen[r] = row[target[r]]

OneLoaded ==
    \A q, r \in Reprocess : Loaded(q) /\ Loaded(r) /\ target[q] = target[r] => q = r

ClaimInv ==
    /\ TypeOK /\ FailureHasCode
    /\ LiveIsServed /\ NewIsUnknown /\ LoadedIsCurrent /\ OneLoaded
    /\ ClaimHeld /\ ExclusivePipeline

-----------------------------------------------------------------------------
(* The steps of the system, by what they mean to the others. *)

\* Request r goes from one await to the next.
Goes(r, at) ==
    /\ Live(r)
    /\ pc' = [pc EXCEPT ![r] = at]
    /\ target' = target /\ host' = host /\ phase' = phase /\ stuck' = stuck
    /\ \A q \in Reprocess : q # r => seen'[q] = seen[q]

\* ... and touches no row.
Moves(r) ==
    /\ row' = row
    /\ \E at \in Pc \ {"idle", "storing", "loaded"} :
          /\ Goes(r, at)
          /\ at = "inserting" => pc[r] = "storing"
          /\ at \in Active => pc[r] \in Active

Arrives(r, p, d, at) ==
    /\ pc[r] = "idle" /\ phase[p] = "up"
    /\ pc' = [pc EXCEPT ![r] = at]
    /\ target' = [target EXCEPT ![r] = d]
    /\ host' = [host EXCEPT ![r] = p]
    /\ row' = row /\ phase' = phase /\ stuck' = stuck
    /\ \A q \in Reprocess : q # r => seen'[q] = seen[q]
    /\ r \in Upload => d = r /\ at \in {"done", "storing"}
    /\ r \notin Upload => at \in {"done", "loaded"} /\ Present(row[d])
    /\ at = "loaded" /\ r \in Reprocess =>
          /\ Requeueable(row[d]) /\ seen'[r] = row[d]
          /\ SerialReprocess => \A q \in Reprocess : ~(Loaded(q) /\ target[q] = d)

\* Nobody else is at work on w's document.
Alone(w) ==
    \A q \in Run : q # w /\ target[q] = target[w] => pc[q] \notin Active /\ ~Loaded(q)

Writes(w, at, y) ==
    /\ Goes(w, at) /\ at \in {"committed", "fetching", "done"}
    /\ row' = [row EXCEPT ![target[w]] = y]
    /\ Alone(w)
    /\ Present(y)
    /\ ~Present(row[target[w]]) => w \in Upload /\ pc[w] = "inserting"
    /\ at = "fetching" => w \in Run /\ y.status = "PROCESSING" /\ y.started = w

Deletes(x) ==
    /\ Goes(x, "done")
    /\ row' = [row EXCEPT ![target[x]] = NoRow]

\* Nothing that matters here changes.
Rests ==
    /\ row' = row /\ pc' = pc /\ target' = target /\ host' = host
    /\ seen' = seen /\ phase' = phase /\ stuck' = stuck

LEMMA Kinds ==
    /\ \A r \in Reprocess : r \notin Upload /\ r \in Request /\ r \in Run
    /\ \A u \in Upload : u \notin Reprocess /\ u \in Request /\ u \in Run
    /\ \A x \in Delete : x \notin Upload /\ x \notin Reprocess /\ x \in Request
    /\ None \notin Upload /\ None \notin Reprocess
BY RequestKinds, NoneIsNull DEF Request, Run

LEMMA UploadSteps ==
    ASSUME ClaimInv, NEW u \in Upload, UploadStep(u)
    PROVE  \/ Moves(u)
           \/ \E p \in Replica, d \in Upload, at \in Pc : Arrives(u, p, d, at)
           \/ \E at \in Pc : \E y : Writes(u, at, y)
<1> USE DEF ClaimInv
<1>1. ASSUME NEW p \in Replica, NEW c \in Content, UploadDuplicate(u, p, c)
      PROVE  Arrives(u, p, u, "done")
  BY <1>1, Kinds DEF UploadDuplicate, Receive, Goto, Arrives, replicaVars
<1>2. ASSUME NEW p \in Replica, NEW c \in Content, UploadNew(u, p, c)
      PROVE  Arrives(u, p, u, "storing")
  BY <1>2, Kinds DEF UploadNew, Receive, Goto, Arrives, replicaVars
<1>3. CASE StoreBlob(u)
  <2>1. Goes(u, "inserting")
    BY <1>3 DEF StoreBlob, Goto, Goes, Live, Ended, replicaVars
  <2> QED
    BY <1>3, <2>1 DEF StoreBlob, Moves, Pc, Handling, Active, Stage
<1>4. CASE StoreFails(u)
  <2>1. Goes(u, "done")
    BY <1>4 DEF StoreFails, Goto, Goes, Live, Ended, replicaVars
  <2> QED
    BY <1>4, <2>1 DEF StoreFails, Moves, Pc, Ended, Active, Stage
<1>5. CASE InsertRow(u) /\ Duplicate(content[u])
  <2>1. Goes(u, "done")
    BY <1>5 DEF InsertRow, Goto, Goes, Live, Ended, replicaVars
  <2> QED
    BY <1>5, <2>1 DEF InsertRow, Moves, Pc, Ended, Active, Stage
<1>6. CASE InsertRow(u) /\ ~Duplicate(content[u])
  <2> DEFINE y == AddEvent(Create(content[u]), "uploaded")
  <2>1. Goes(u, "committed")
    BY <1>6 DEF InsertRow, Goto, Goes, Live, Ended, replicaVars
  <2>2. target[u] = u
    BY <2>1, Kinds DEF Goes, LiveIsServed, NewIsUnknown
  <2>3. row' = [row EXCEPT ![target[u]] = y]
    BY <1>6, <2>2 DEF InsertRow
  <2>4. Alone(u)
    BY <1>6, <2>2 DEF InsertRow, Alone, NewIsUnknown, New, Request
  <2>5. Present(y)
    <3>1. Create(content[u]) \in Row /\ Create(content[u]).status = "PENDING"
      BY CreateType, CreateColumns DEF TypeOK
    <3> QED
      BY <3>1, AddEventStatus DEF Present, Event
  <2> HIDE DEF y
  <2>6. Writes(u, "committed", y)
    BY <1>6, <2>1, <2>3, <2>4, <2>5 DEF InsertRow, Writes
  <2> QED
    BY <2>6 DEF Pc, Handling
<1> QED
  BY <1>1, <1>2, <1>3, <1>4, <1>5, <1>6 DEF UploadStep, Pc, Handling, Ended

LEMMA ReprocessSteps ==
    ASSUME ClaimInv, NEW r \in Reprocess, ReprocessStep(r)
    PROVE  \/ Moves(r)
           \/ \E p \in Replica, d \in Upload, at \in Pc : Arrives(r, p, d, at)
           \/ \E at \in Pc : \E y : Writes(r, at, y)
<1> USE DEF ClaimInv
<1>1. ASSUME NEW p \in Replica, NEW d \in Upload, LoadForReprocess(r, p, d)
      PROVE  Arrives(r, p, d, "loaded")
  BY <1>1, Kinds DEF LoadForReprocess, Receive, Goto, Arrives, replicaVars, Requeueable,
                     Present, Terminal, TypeOK, Loaded
<1>2. ASSUME NEW p \in Replica, NEW d \in Upload, RejectReprocess(r, p, d)
      PROVE  Arrives(r, p, d, "done")
  BY <1>2, Kinds DEF RejectReprocess, Receive, Goto, Arrives, replicaVars
<1>3. CASE Requeue(r) /\ ~Present(row[target[r]])
  <2>1. Goes(r, "done")
    BY <1>3 DEF Requeue, Goto, Goes, Live, Ended, replicaVars, TypeOK
  <2> QED
    BY <1>3, <2>1 DEF Requeue, Moves, Pc, Ended, Active, Stage
<1>4. CASE Requeue(r) /\ Present(row[target[r]])
  <2> DEFINE d == target[r]
             z == ResetToPending(row[d], seen[r])
             y == AddEvent(z, "reprocess_requested")
  <2>1. Goes(r, "committed")
    BY <1>4 DEF Requeue, Goto, Goes, Live, Ended, replicaVars, TypeOK
  <2>2. d \in Upload /\ Requeueable(row[d]) /\ Loaded(r)
    BY <1>4, <2>1, Kinds DEF Goes, LiveIsServed, LoadedIsCurrent, Loaded, Requeue
  <2>3. row' = [row EXCEPT ![d] = y]
    BY <1>4 DEF Requeue
  <2>4. Alone(r)
    <3> SUFFICES ASSUME NEW q \in Run, q # r, target[q] = d
                 PROVE  pc[q] \notin Active /\ ~Loaded(q)
      BY DEF Alone
    <3>1. ~Loaded(q)
      BY <2>2 DEF OneLoaded, Loaded
    <3>2. pc[q] \notin Active
      BY <1>4, <2>2 DEF ClaimHeld, Requeueable, Terminal
    <3> QED
      BY <3>1, <3>2
  <2>5. Present(y)
    <3>1. row[d] \in Row /\ seen[r] \in Row
      BY <2>2 DEF TypeOK
    <3>2. z \in Row
      BY <3>1, ResetType
    <3>3. z.status = "PENDING"
      BY <3>1, ResetColumns
    <3> HIDE DEF z
    <3> QED
      BY <3>2, <3>3, AddEventStatus DEF Present, Event
  <2> HIDE DEF y
  <2>6. Writes(r, "committed", y)
    BY <1>4, <2>1, <2>3, <2>4, <2>5 DEF Writes
  <2> QED
    BY <2>6 DEF Pc, Handling
<1> QED
  BY <1>1, <1>2, <1>3, <1>4 DEF ReprocessStep, Pc, Handling, Ended

LEMMA DeleteSteps ==
    ASSUME ClaimInv, NEW x \in Delete, DeleteStep(x)
    PROVE  \/ Moves(x) \/ Deletes(x)
           \/ \E p \in Replica, d \in Upload, at \in Pc : Arrives(x, p, d, at)
<1>1. ASSUME NEW p \in Replica, NEW d \in Upload, LoadForDelete(x, p, d)
      PROVE  Arrives(x, p, d, "loaded")
  BY <1>1, Kinds DEF LoadForDelete, Receive, Goto, Arrives, replicaVars
<1>2. CASE DeleteBlob(x) \/ DeleteBlobFails(x)
  <2>1. Goes(x, "unlinked")
    BY <1>2 DEF DeleteBlob, DeleteBlobFails, Goto, Goes, Live, Ended, replicaVars
  <2> QED
    BY <1>2, <2>1 DEF DeleteBlob, DeleteBlobFails, Moves, Pc, Handling, Active, Stage
<1>3. CASE CommitDelete(x)
  BY <1>3 DEF CommitDelete, Goto, Goes, Live, Ended, replicaVars, Deletes
<1> QED
  BY <1>1, <1>2, <1>3 DEF DeleteStep, Pc, Handling

LEMMA RunSteps ==
    ASSUME ClaimInv, NEW r \in Run, RunStep(r)
    PROVE  Moves(r) \/ Rests \/ \E at \in Pc : \E y : Writes(r, at, y)
<1> USE DEF ClaimInv
<1> DEFINE d == target[r]
<1>1. CASE Tick(r)
  BY <1>1 DEF Tick, reqVars, replicaVars, Rests
<1>2. CASE Submit(r)
  <2>1. Goes(r, "done") \/ Goes(r, "queued")
    BY <1>2 DEF Submit, Goto, Goes, Live, Ended, replicaVars
  <2> QED
    BY <1>2, <2>1 DEF Submit, Moves, Pc, Ended, Active, Stage
<1>3. CASE Acquire(r)
  <2>1. Goes(r, "claiming")
    BY <1>3 DEF Acquire, Goto, Goes, Live, Ended, replicaVars
  <2> QED
    BY <1>3, <2>1 DEF Acquire, Moves, Pc, Permit, Active, Stage
<1>4. CASE ClaimLost(r)
  <2>1. Goes(r, "done")
    BY <1>4 DEF ClaimLost, Goto, Goes, Live, Ended, replicaVars
  <2> QED
    BY <1>4, <2>1 DEF ClaimLost, Moves, Pc, Ended, Active, Stage
<1>5. CASE StageDone(r)
  <2>1. PICK at \in {"extracting", "analysing", "persisting"} : Goto(r, at)
    BY <1>5 DEF StageDone, Stage, NextStage
  <2>2. Goes(r, at)
    BY <1>5, <2>1 DEF StageDone, Goto, Goes, Live, Ended, replicaVars, Stage
  <2> QED
    BY <1>5, <2>2 DEF StageDone, Moves, Pc, Permit, Active, Stage
<1>6. CASE StageFails(r) \/ FetchFails(r) \/ Timeout(r)
  <2>1. Goes(r, "failing") /\ pc[r] \in Stage /\ row' = row
    BY <1>6 DEF StageFails, FetchFails, Timeout, Goto, Goes, Live, Ended, replicaVars, Stage
  <2> QED
    BY <2>1 DEF Moves, Pc, Permit, Active, Stage
<1>7. CASE Persist(r) /\ ~Present(row[d])
  <2>1. Goes(r, "raised")
    BY <1>7 DEF Persist, Goto, Goes, Live, Ended, replicaVars
  <2> QED
    BY <1>7, <2>1 DEF Persist, Moves, Pc, Ended, Active, Stage
<1>8. CASE RecordFailure(r) /\ ~Present(row[d])
  <2>1. Goes(r, "done")
    BY <1>8 DEF RecordFailure, Goto, Goes, Live, Ended, replicaVars
  <2> QED
    BY <1>8, <2>1 DEF RecordFailure, Moves, Pc, Ended, Active, Stage
\* Whoever works on a document that is PENDING, or that r holds, is r itself.
<1>9. ASSUME Live(r), Present(row[d]),
             \/ row[d].status = "PENDING"
             \/ row[d].status = "PROCESSING" /\ pc[r] \in Active
      PROVE  Alone(r)
  <2> SUFFICES ASSUME NEW q \in Run, q # r, target[q] = d
               PROVE  pc[q] \notin Active /\ ~Loaded(q)
    BY DEF Alone
  <2>1. ~Loaded(q)
    BY <1>9 DEF LoadedIsCurrent, Loaded, Requeueable, Terminal
  <2>2. pc[q] \notin Active
    BY <1>9 DEF ClaimHeld, ExclusivePipeline
  <2> QED
    BY <2>1, <2>2
<1>10. CASE ClaimWon(r)
  <2> DEFINE z == ClaimForProcessing(row[d], r)
             y == AddEvent(z, "processing_started")
  <2>1. Goes(r, "fetching")
    BY <1>10 DEF ClaimWon, Goto, Goes, Live, Ended, replicaVars
  <2>2. d \in Upload
    BY <2>1, Kinds DEF Goes, LiveIsServed, Request
  <2>3. row' = [row EXCEPT ![d] = y]
    BY <1>10 DEF ClaimWon
  <2>4. Alone(r) /\ Present(row[d])
    BY <1>9, <1>10, <2>1 DEF ClaimWon, Claimable, Goes, Present
  <2>5. y.status = "PROCESSING" /\ y.started = r
    <3>1. z \in Row /\ z.status = "PROCESSING" /\ z.started = r
      BY <2>2, ClaimType, ClaimColumns DEF TypeOK
    <3> HIDE DEF z
    <3> QED
      BY <3>1, AddEventStatus DEF Event
  <2> HIDE DEF y
  <2>6. Writes(r, "fetching", y)
    BY <2>1, <2>3, <2>4, <2>5 DEF Writes, Present
  <2> QED
    BY <2>6 DEF Pc, Permit, Active, Stage
<1>11. CASE Persist(r) /\ Present(row[d])
  <2> DEFINE z == MarkCompleted(UpsertExtraction(row[d], r))
             y == AddEvent(z, "processing_completed")
  <2>1. Goes(r, "done") /\ pc[r] \in Active
    BY <1>11 DEF Persist, Goto, Goes, Live, Ended, replicaVars, Active
  <2>2. d \in Upload
    BY <2>1, Kinds DEF Goes, LiveIsServed, Request
  <2>3. row' = [row EXCEPT ![d] = y]
    BY <1>11 DEF Persist
  <2>4. Alone(r)
    BY <1>9, <1>11, <2>1 DEF ClaimHeld, Goes
  <2>5. Present(y)
    <3>1. z \in Row /\ z.status = "COMPLETED"
      BY <2>2, UpsertType, MarkCompletedType, CompleteColumns DEF TypeOK
    <3> HIDE DEF z
    <3> QED
      BY <3>1, AddEventStatus DEF Present, Event
  <2> HIDE DEF y
  <2>6. Writes(r, "done", y)
    BY <1>11, <2>1, <2>3, <2>4, <2>5 DEF Writes
  <2> QED
    BY <2>6 DEF Pc, Ended
<1>12. CASE RecordFailure(r) /\ Present(row[d])
  <2> DEFINE z == MarkFailed(row[d], code[r])
             y == AddEvent(z, "processing_failed")
  <2>1. Goes(r, "done") /\ pc[r] \in Active
    BY <1>12 DEF RecordFailure, Goto, Goes, Live, Ended, replicaVars, Active
  <2>2. d \in Upload
    BY <2>1, Kinds DEF Goes, LiveIsServed, Request
  <2>3. row' = [row EXCEPT ![d] = y]
    BY <1>12 DEF RecordFailure
  <2>4. Alone(r)
    BY <1>9, <1>12, <2>1 DEF ClaimHeld, Goes
  <2>5. Present(y)
    <3>1. row[d] \in Row /\ code[r] \in Code \cup {None}
      BY <2>2 DEF TypeOK
    <3>2. z \in Row /\ z.status = "FAILED"
      BY <3>1, MarkFailedType, FailColumns
    <3> HIDE DEF z
    <3> QED
      BY <3>2, AddEventStatus DEF Present, Event
  <2> HIDE DEF y
  <2>6. Writes(r, "done", y)
    BY <1>12, <2>1, <2>3, <2>4, <2>5 DEF Writes
  <2> QED
    BY <2>6 DEF Pc, Ended
<1> QED
  BY <1>1, <1>2, <1>3, <1>4, <1>5, <1>6, <1>7, <1>8, <1>10, <1>11, <1>12 DEF RunStep

LEMMA RollbackSteps ==
    ASSUME ClaimInv, NEW r \in Request, TransactionFails(r) PROVE Moves(r)
<1>1. PICK at \in Ended : Goto(r, at)
  BY DEF TransactionFails, Ended
<1>2. Goes(r, at)
  BY <1>1 DEF TransactionFails, Goto, Goes, Live, Ended, replicaVars
<1> QED
  BY <1>2 DEF TransactionFails, Moves, Pc, Ended, Active, Stage

-----------------------------------------------------------------------------
(* Each kind of step preserves the invariant. *)

LEMMA ByMoves ==
    ASSUME ClaimInv, NEW r \in Request, Moves(r)
    PROVE  (LiveIsServed /\ NewIsUnknown /\ LoadedIsCurrent /\ OneLoaded
               /\ ClaimHeld /\ ExclusivePipeline)'
<1> PICK at \in Pc \ {"idle", "storing", "loaded"} :
       /\ Goes(r, at)
       /\ at = "inserting" => pc[r] = "storing"
       /\ at \in Active => pc[r] \in Active
  BY DEF Moves
<1>1. row' = row /\ Goes(r, at)
  BY DEF Moves
<1> USE DEF ClaimInv, Goes
<1>2. LiveIsServed'
  BY <1>1 DEF LiveIsServed, Live, TypeOK
<1>3. NewIsUnknown'
  BY <1>1 DEF NewIsUnknown, New, TypeOK
<1>4. LoadedIsCurrent'
  BY <1>1 DEF LoadedIsCurrent, Loaded, TypeOK
<1>5. OneLoaded'
  BY <1>1 DEF OneLoaded, Loaded, TypeOK
<1>6. ClaimHeld' /\ ExclusivePipeline'
  BY <1>1 DEF ClaimHeld, ExclusivePipeline, TypeOK
<1> QED
  BY <1>2, <1>3, <1>4, <1>5, <1>6

LEMMA ByArrives ==
    ASSUME ClaimInv, SerialReprocess, NEW r \in Request, NEW p \in Replica, NEW d \in Upload,
           NEW at \in Pc, Arrives(r, p, d, at)
    PROVE  (LiveIsServed /\ NewIsUnknown /\ LoadedIsCurrent /\ OneLoaded
               /\ ClaimHeld /\ ExclusivePipeline)'
<1> USE DEF ClaimInv
<1>1. /\ pc' = [pc EXCEPT ![r] = at] /\ target' = [target EXCEPT ![r] = d]
      /\ host' = [host EXCEPT ![r] = p]
      /\ row' = row /\ phase' = phase
      /\ pc[r] = "idle" /\ phase[p] = "up" /\ at \in {"done", "storing", "loaded"}
  BY DEF Arrives
<1>2. LiveIsServed'
  BY <1>1 DEF LiveIsServed, Live, TypeOK
<1>3. NewIsUnknown'
  BY <1>1, Kinds DEF Arrives, NewIsUnknown, New, TypeOK
<1>4. LoadedIsCurrent'
  BY <1>1, Kinds DEF Arrives, LoadedIsCurrent, Loaded, TypeOK
<1>5. OneLoaded'
  BY <1>1, Kinds DEF Arrives, OneLoaded, Loaded, TypeOK
<1>6. ClaimHeld' /\ ExclusivePipeline'
  BY <1>1 DEF ClaimHeld, ExclusivePipeline, TypeOK, Active, Stage
<1> QED
  BY <1>2, <1>3, <1>4, <1>5, <1>6

LEMMA ByWrites ==
    ASSUME ClaimInv, NEW w \in Request, NEW at \in Pc, NEW y, Writes(w, at, y)
    PROVE  (LiveIsServed /\ NewIsUnknown /\ LoadedIsCurrent /\ OneLoaded
               /\ ClaimHeld /\ ExclusivePipeline)'
<1> DEFINE d == target[w]
<1> USE DEF ClaimInv
<1>1. /\ Live(w) /\ at \in {"committed", "fetching", "done"}
      /\ pc' = [pc EXCEPT ![w] = at]
      /\ target' = target /\ host' = host /\ phase' = phase
      /\ \A q \in Reprocess : q # w => seen'[q] = seen[q]
      /\ row' = [row EXCEPT ![d] = y]
  BY DEF Writes, Goes
<1>2. d \in Upload
  BY <1>1 DEF LiveIsServed
<1>3. \A q \in Run : q # w /\ target[q] = d => pc[q] \notin Active /\ ~Loaded(q)
  BY DEF Writes, Alone
<1>4. LiveIsServed'
  BY <1>1 DEF LiveIsServed, Live, TypeOK
<1>5. NewIsUnknown'
  <2> SUFFICES ASSUME NEW u \in Upload, pc'[u] \in New
               PROVE  ~Present(row'[u]) /\ \A q \in Request : target[q] = u => q = u
    BY <1>1 DEF NewIsUnknown
  <2>1. u # w /\ pc[u] \in New
    BY <1>1, Kinds DEF New, TypeOK
  <2>2. d # u
    BY <2>1 DEF NewIsUnknown
  <2> QED
    BY <1>1, <2>1, <2>2 DEF NewIsUnknown, TypeOK
<1>6. LoadedIsCurrent'
  <2> SUFFICES ASSUME NEW r \in Reprocess, Loaded(r)', Present(row[target[r]])'
               PROVE  (Requeueable(row[target[r]]) /\ seen[r] = row[target[r]])'
    BY DEF LoadedIsCurrent
  <2>1. r # w /\ Loaded(r) /\ r \in Run
    BY <1>1, Kinds DEF Loaded, TypeOK
  <2>2. target[r] # d
    BY <1>3, <2>1
  <2>3. row'[target'[r]] = row[target[r]]
    BY <1>1, <2>2 DEF TypeOK
  <2> QED
    BY <1>1, <2>1, <2>3 DEF LoadedIsCurrent
<1>7. OneLoaded'
  BY <1>1 DEF OneLoaded, Loaded, TypeOK
<1>8. ClaimHeld'
  <2> SUFFICES ASSUME NEW r \in Run, pc'[r] \in Active, Present(row'[target[r]])
               PROVE  row'[target[r]].status = "PROCESSING" /\ row'[target[r]].started = r
    BY <1>1 DEF ClaimHeld
  <2>1. CASE r = w
    <3>1. at = "fetching"
      BY <1>1, <2>1 DEF Active, Stage, TypeOK
    <3> QED
      BY <1>1, <1>2, <2>1, <3>1 DEF Writes, TypeOK
  <2>2. CASE r # w
    <3>1. pc[r] \in Active
      BY <1>1, <2>2 DEF TypeOK
    <3>2. row'[target[r]] = row[target[r]]
      BY <1>1, <1>3, <2>2, <3>1 DEF TypeOK
    <3> QED
      BY <3>1, <3>2 DEF ClaimHeld
  <2> QED
    BY <2>1, <2>2
<1>9. ExclusivePipeline'
  <2> SUFFICES ASSUME NEW q \in Run, NEW r \in Run, pc'[q] \in Active, pc'[r] \in Active,
                      target[q] = target[r], q # r, q # w
               PROVE  FALSE
    BY <1>1 DEF ExclusivePipeline
  <2>1. pc[q] \in Active
    BY <1>1 DEF TypeOK
  <2>2. CASE r = w
    BY <1>3, <2>1, <2>2
  <2>3. CASE r # w
    BY <1>1, <2>1, <2>3 DEF ExclusivePipeline, TypeOK
  <2> QED
    BY <2>2, <2>3
<1> QED
  BY <1>4, <1>5, <1>6, <1>7, <1>8, <1>9

LEMMA ByDeletes ==
    ASSUME ClaimInv, NEW x \in Request, Deletes(x)
    PROVE  (LiveIsServed /\ NewIsUnknown /\ LoadedIsCurrent /\ OneLoaded
               /\ ClaimHeld /\ ExclusivePipeline)'
<1> USE DEF ClaimInv
<1>1. /\ Live(x) /\ pc' = [pc EXCEPT ![x] = "done"]
      /\ target' = target /\ host' = host /\ phase' = phase
      /\ \A q \in Reprocess : q # x => seen'[q] = seen[q]
  BY DEF Deletes, Goes
<1>2. \A d \in Upload : row'[d] = row[d] \/ ~Present(row'[d])
  BY DEF Deletes, TypeOK, NoRow, Present
<1>3. \A r \in Request : Live(r) => target[r] \in Upload
  BY DEF LiveIsServed
<1>4. LiveIsServed'
  BY <1>1 DEF LiveIsServed, Live, TypeOK
<1>5. NewIsUnknown'
  BY <1>1, <1>2 DEF NewIsUnknown, New, TypeOK
<1>6. LoadedIsCurrent'
  <2> SUFFICES ASSUME NEW r \in Reprocess, Loaded(r)', Present(row[target[r]])'
               PROVE  (Requeueable(row[target[r]]) /\ seen[r] = row[target[r]])'
    BY DEF LoadedIsCurrent
  <2>1. r # x /\ Loaded(r) /\ target[r] \in Upload
    BY <1>1, <1>3, Kinds DEF Loaded, TypeOK, Live, Ended
  <2> QED
    BY <1>1, <1>2, <2>1 DEF LoadedIsCurrent
<1>7. OneLoaded'
  BY <1>1 DEF OneLoaded, Loaded, TypeOK
<1>8. ClaimHeld' /\ ExclusivePipeline'
  <2>1. \A r \in Run : pc'[r] \in Active => pc[r] \in Active /\ target[r] \in Upload
    BY <1>1, <1>3 DEF TypeOK, Active, Stage, Live, Ended, Request
  <2> QED
    BY <1>1, <1>2, <2>1 DEF ClaimHeld, ExclusivePipeline
<1> QED
  BY <1>4, <1>5, <1>6, <1>7, <1>8

LEMMA ByRests ==
    ASSUME ClaimInv, Rests
    PROVE  (LiveIsServed /\ NewIsUnknown /\ LoadedIsCurrent /\ OneLoaded
               /\ ClaimHeld /\ ExclusivePipeline)'
BY DEF ClaimInv, Rests, LiveIsServed, Live, NewIsUnknown, LoadedIsCurrent, Loaded, OneLoaded,
       ClaimHeld, ExclusivePipeline

\* A sweep meets nobody: this is where it matters that replicas do not overlap.
LEMMA SweepIsAlone ==
    ASSUME ClaimInv, Serial, NEW p \in Replica, phase[p] \in {"starting", "sweeping"},
           NEW r \in Request
    PROVE  ~Live(r)
BY DEF ClaimInv, LiveIsServed, Serial

LEMMA ByReplica ==
    ASSUME ClaimInv, Serial, NEW p \in Replica, ReplicaStep(p)
    PROVE  (LiveIsServed /\ NewIsUnknown /\ LoadedIsCurrent /\ OneLoaded
               /\ ClaimHeld /\ ExclusivePipeline)'
<1> USE DEF ClaimInv, reqVars
<1>1. CASE Crash(p) \/ FinishDrain(p)
  <2>1. /\ row' = row /\ target' = target /\ host' = host /\ seen' = seen
        /\ phase' = [phase EXCEPT ![p] = "down"]
        /\ \A r \in Request :
              \/ pc'[r] = pc[r] /\ ~(Live(r) /\ host[r] = p)
              \/ pc'[r] = "done"
    BY <1>1 DEF Crash, FinishDrain, EndAll, Live
  <2>2. LiveIsServed'
    BY <2>1 DEF LiveIsServed, Live, Ended, TypeOK
  <2>3. NewIsUnknown'
    BY <2>1, Kinds DEF NewIsUnknown, New
  <2>4. LoadedIsCurrent' /\ OneLoaded'
    BY <2>1, Kinds DEF LoadedIsCurrent, OneLoaded, Loaded
  <2>5. ClaimHeld' /\ ExclusivePipeline'
    BY <2>1 DEF ClaimHeld, ExclusivePipeline, Active, Stage, Request
  <2> QED
    BY <2>2, <2>3, <2>4, <2>5
<1>2. CASE BeginDrain(p) \/ Start(p) \/ SweepRead(p) \/ HousekeepingFails(p)
  <2>1. /\ row' = row /\ pc' = pc /\ target' = target /\ host' = host /\ seen' = seen
    BY <1>2 DEF BeginDrain, Start, SweepRead, HousekeepingFails
  <2>2. LiveIsServed'
    BY <1>2, <2>1 DEF BeginDrain, Start, SweepRead, HousekeepingFails, LiveIsServed, Live,
                      TypeOK
  <2> QED
    BY <2>1, <2>2 DEF NewIsUnknown, LoadedIsCurrent, Loaded, OneLoaded, ClaimHeld,
                      ExclusivePipeline
<1>3. CASE SweepWrite(p)
  <2>1. /\ pc' = pc /\ target' = target /\ host' = host /\ seen' = seen
        /\ phase[p] = "sweeping"
    BY <1>3 DEF SweepWrite
  <2>2. \A r \in Request : ~Live(r)
    BY <2>1, SweepIsAlone
  <2>3. \A d \in Upload : Present(row'[d]) => Present(row[d])
    BY <1>3 DEF SweepWrite, TypeOK
  <2>4. LiveIsServed'
    BY <2>1, <2>2 DEF LiveIsServed, Live
  <2>5. NewIsUnknown'
    BY <2>1, <2>3 DEF NewIsUnknown
  <2>6. (\A r \in Reprocess : ~Loaded(r)) /\ (\A r \in Run : pc[r] \notin Active)
    BY <2>2 DEF Loaded, Live, Ended, Active, Stage, Request, Run
  <2> QED
    BY <2>1, <2>4, <2>5, <2>6 DEF LoadedIsCurrent, Loaded, OneLoaded, ClaimHeld, ExclusivePipeline
<1> QED
  BY <1>1, <1>2, <1>3 DEF ReplicaStep

LEMMA ClaimInvInit == Init => ClaimInv
<1> SUFFICES ASSUME Init PROVE ClaimInv
  OBVIOUS
<1>1. TypeOK /\ FailureHasCode
  BY TypeInit, FailureHasCodeInit
<1>2. \A r \in Request : pc[r] = "idle" /\ target[r] = None
  BY DEF Init
<1>3. \A d \in Upload : ~Present(row[d])
  BY DEF Init, Present, NoRow
<1> QED
  BY <1>1, <1>2, <1>3, Kinds DEF ClaimInv, LiveIsServed, Live, NewIsUnknown, LoadedIsCurrent,
     Loaded, OneLoaded, ClaimHeld, ExclusivePipeline, Active, Stage, Request

LEMMA ClaimInvNext == Serial /\ ClaimInv /\ [Next]_vars => ClaimInv'
<1> SUFFICES ASSUME Serial, ClaimInv, [Next]_vars PROVE ClaimInv'
  OBVIOUS
<1> DEFINE Kept == (LiveIsServed /\ NewIsUnknown /\ LoadedIsCurrent /\ OneLoaded
                       /\ ClaimHeld /\ ExclusivePipeline)'
<1>1. (TypeOK /\ FailureHasCode)'
  BY TypeNext, FailureHasCodeNext DEF ClaimInv
<1>2. SerialReprocess
  BY DEF Serial
<1>3. ASSUME NEW u \in Upload, UploadStep(u) PROVE Kept
  <2>1. u \in Request
    BY Kinds
  <2> QED
    BY <1>2, <1>3, <2>1, UploadSteps, ByMoves, ByArrives, ByWrites
<1>4. ASSUME NEW r \in Reprocess, ReprocessStep(r) PROVE Kept
  <2>1. r \in Request
    BY Kinds
  <2> QED
    BY <1>2, <1>4, <2>1, ReprocessSteps, ByMoves, ByArrives, ByWrites
<1>5. ASSUME NEW x \in Delete, DeleteStep(x) PROVE Kept
  <2>1. x \in Request
    BY Kinds
  <2> QED
    BY <1>2, <1>5, <2>1, DeleteSteps, ByMoves, ByArrives, ByDeletes
<1>6. ASSUME NEW r \in Run, RunStep(r) PROVE Kept
  <2>1. r \in Request
    BY DEF Request
  <2> QED
    BY <1>6, <2>1, RunSteps, ByMoves, ByWrites, ByRests
<1>7. ASSUME NEW r \in Request, TransactionFails(r) PROVE Kept
  BY <1>7, RollbackSteps, ByMoves
<1>8. ASSUME NEW p \in Replica, ReplicaStep(p) PROVE Kept
  BY <1>8, ByReplica
<1>9. ASSUME UNCHANGED vars PROVE Kept
  <2>1. Rests
    BY <1>9 DEF vars, reqVars, replicaVars, Rests
  <2> QED
    BY <2>1, ByRests
<1>10. Kept
  BY <1>3, <1>4, <1>5, <1>6, <1>7, <1>8, <1>9 DEF Next
<1> QED
  BY <1>1, <1>10 DEF ClaimInv

\* A pipeline at work finds the document as it claimed it, or deleted: no other
\* request, run or sweep changes it underneath (claim_for_processing and the 409
\* of reprocess suffice for this when requests do not race).
THEOREM ClaimIsHeld == ASSUME Serial PROVE Spec => []ClaimHeld
<1>1. Serial /\ ClaimInv /\ [Next]_vars => ClaimInv'
  BY ClaimInvNext
<1>2. ClaimInv => ClaimHeld
  BY DEF ClaimInv
<1> QED
  BY <1>1, <1>2, ClaimInvInit, PTL DEF Spec

\* The claim is exclusive: two pipelines never work on one document, so the
\* billable stages of a document never run twice at once.
THEOREM ClaimIsExclusive == ASSUME Serial PROVE Spec => []ExclusivePipeline
<1>1. ClaimInv /\ [Next]_vars => ClaimInv'
  BY ClaimInvNext
<1>2. ClaimInv => ExclusivePipeline
  BY DEF ClaimInv
<1> QED
  BY <1>1, <1>2, ClaimInvInit, PTL DEF Spec

-----------------------------------------------------------------------------
(* What the steps write, now that nobody interferes: every change of a row is *)
(* one that the lifecycle allows.                                             *)

Legal(x, y) ==
    \/ y = NoRow
    \/ /\ x = NoRow
       /\ \E c \in Content \cup {None} : y = AddEvent(Create(c), "uploaded")
    \/ /\ Requeueable(x)
       /\ y = AddEvent(ResetToPending(x, x), "reprocess_requested")
    \/ /\ Claimable(x)
       /\ \E r \in Run : y = AddEvent(ClaimForProcessing(x, r), "processing_started")
    \/ /\ x.status = "PROCESSING" /\ x.started \in Run
       /\ y = AddEvent(MarkCompleted(UpsertExtraction(x, x.started)), "processing_completed")
    \/ /\ x.status = "PROCESSING"
       /\ \E c \in Code, e \in {"processing_failed", "processing_interrupted"} :
             y = AddEvent(MarkFailed(x, c), e)

\* A row that was deleted, or never inserted, holds nothing.
AbsentIsEmpty == \A d \in Upload : ~Present(row[d]) => row[d] = NoRow

\* While a sweep is under way nobody else touches the rows it selected.
SweptIsStuck ==
    \A p \in Replica : phase[p] = "sweeping" =>
        \A d \in stuck[p] : Present(row[d]) => row[d].status = "PROCESSING"

WriteInv == ClaimInv /\ AbsentIsEmpty /\ SweptIsStuck

\* One request's transaction, or the sweep's.
WritesOne == \E w \in Request : \E y :
                 /\ Live(w) /\ phase' = phase /\ stuck' = stuck
                 /\ target[w] \in Upload /\ Legal(row[target[w]], y)
                 /\ row' = [row EXCEPT ![target[w]] = y]
SweepsAll == \E D \in SUBSET Upload :
                 /\ \A d \in D : row[d].status = "PROCESSING"
                 /\ row' = [d \in Upload |-> IF d \in D THEN Interrupt(row[d]) ELSE row[d]]

LEMMA LegalWrites ==
    ASSUME Serial, WriteInv, [Next]_vars
    PROVE  \/ row' = row
           \/ WritesOne
           \/ SweepsAll /\ \E p \in Replica : phase[p] = "sweeping" /\ SweepWrite(p)
<1> USE DEF WriteInv, ClaimInv
<1> DEFINE Goal == \/ row' = row
                   \/ WritesOne
                   \/ SweepsAll /\ \E p \in Replica : phase[p] = "sweeping" /\ SweepWrite(p)
<1>1. ASSUME NEW w \in Request, NEW y, Live(w), phase' = phase, stuck' = stuck,
             row' = [row EXCEPT ![target[w]] = y], Legal(row[target[w]], y)
      PROVE  Goal
  BY <1>1 DEF WritesOne, LiveIsServed
<1>2. \A w \in Request : Live(w) => target[w] \in Upload
  BY DEF LiveIsServed
<1> HIDE DEF Goal
<1>3. ASSUME NEW u \in Upload, UploadStep(u) PROVE Goal
  <2>1. CASE InsertRow(u) /\ ~Duplicate(content[u])
    <3> DEFINE y == AddEvent(Create(content[u]), "uploaded")
    <3>1. u \in Request /\ Live(u) /\ pc[u] = "inserting"
      BY <2>1, Kinds DEF InsertRow, Live, Ended
    <3>2. target[u] = u
      BY <1>2, <3>1, Kinds DEF NewIsUnknown
    <3>3. row[u] = NoRow
      BY <3>1 DEF NewIsUnknown, New, AbsentIsEmpty
    <3>4. Legal(row[u], y)
      BY <3>3 DEF Legal, TypeOK
    <3>5. row' = [row EXCEPT ![u] = y] /\ phase' = phase /\ stuck' = stuck
      BY <2>1 DEF InsertRow, replicaVars
    <3> HIDE DEF y
    <3> QED
      BY <1>1, <3>1, <3>2, <3>4, <3>5
  <2>2. CASE ~InsertRow(u) \/ Duplicate(content[u])
    BY <1>3, <2>2 DEF Goal, UploadStep, UploadDuplicate, UploadNew, StoreBlob, StoreFails,
                      InsertRow
  <2> QED
    BY <2>1, <2>2
<1>4. ASSUME NEW r \in Reprocess, ReprocessStep(r) PROVE Goal
  <2>1. CASE Requeue(r) /\ Present(row[target[r]])
    <3> DEFINE d == target[r]
               y == AddEvent(ResetToPending(row[d], seen[r]), "reprocess_requested")
    <3>1. r \in Request /\ Live(r) /\ Loaded(r)
      BY <2>1, Kinds DEF Requeue, Live, Ended, Loaded
    <3>2. Requeueable(row[d]) /\ seen[r] = row[d]
      BY <2>1, <3>1 DEF LoadedIsCurrent
    <3>3. Legal(row[d], y)
      BY <3>2 DEF Legal
    <3>4. row' = [row EXCEPT ![d] = y] /\ phase' = phase /\ stuck' = stuck
      BY <2>1 DEF Requeue, replicaVars
    <3> HIDE DEF y
    <3> QED
      BY <1>1, <3>1, <3>3, <3>4
  <2>2. CASE ~Requeue(r) \/ ~Present(row[target[r]])
    BY <1>4, <2>2 DEF Goal, ReprocessStep, LoadForReprocess, RejectReprocess, Requeue
  <2> QED
    BY <2>1, <2>2
<1>5. ASSUME NEW x \in Delete, DeleteStep(x) PROVE Goal
  <2>1. CASE CommitDelete(x)
    <3>1. x \in Request /\ Live(x)
      BY <2>1, Kinds DEF CommitDelete, Live, Ended
    <3>2. Legal(row[target[x]], NoRow)
      BY DEF Legal
    <3>3. row' = [row EXCEPT ![target[x]] = NoRow] /\ phase' = phase /\ stuck' = stuck
      BY <2>1 DEF CommitDelete, replicaVars
    <3> QED
      BY <1>1, <3>1, <3>2, <3>3
  <2>2. CASE ~CommitDelete(x)
    BY <1>5, <2>2 DEF Goal, DeleteStep, LoadForDelete, DeleteBlob, DeleteBlobFails
  <2> QED
    BY <2>1, <2>2
<1>6. ASSUME NEW r \in Run, RunStep(r) PROVE Goal
  <2> DEFINE d == target[r]
  <2>1. r \in Request
    BY DEF Request
  <2>2. CASE ClaimWon(r)
    <3> DEFINE y == AddEvent(ClaimForProcessing(row[d], r), "processing_started")
    <3>1. Live(r) /\ Legal(row[d], y)
      BY <2>2 DEF ClaimWon, Live, Ended, Legal
    <3>2. row' = [row EXCEPT ![d] = y] /\ phase' = phase /\ stuck' = stuck
      BY <2>2 DEF ClaimWon, replicaVars
    <3> HIDE DEF y
    <3> QED
      BY <1>1, <2>1, <3>1, <3>2
  <2>3. CASE Persist(r) /\ Present(row[d])
    <3> DEFINE y == AddEvent(MarkCompleted(UpsertExtraction(row[d], r)), "processing_completed")
    <3>1. Live(r) /\ row[d].status = "PROCESSING" /\ row[d].started = r
      BY <2>3 DEF Persist, Live, Ended, ClaimHeld, Active
    <3>2. Legal(row[d], y)
      BY <3>1 DEF Legal
    <3>3. row' = [row EXCEPT ![d] = y] /\ phase' = phase /\ stuck' = stuck
      BY <2>3 DEF Persist, replicaVars
    <3> HIDE DEF y
    <3> QED
      BY <1>1, <2>1, <3>1, <3>2, <3>3
  <2>4. CASE RecordFailure(r) /\ Present(row[d])
    <3> DEFINE y == AddEvent(MarkFailed(row[d], code[r]), "processing_failed")
    <3>1. Live(r) /\ row[d].status = "PROCESSING" /\ code[r] \in Code
      BY <2>4 DEF RecordFailure, Live, Ended, ClaimHeld, Active, FailureHasCode, TypeOK
    <3>2. Legal(row[d], y)
      BY <3>1 DEF Legal
    <3>3. row' = [row EXCEPT ![d] = y] /\ phase' = phase /\ stuck' = stuck
      BY <2>4 DEF RecordFailure, replicaVars
    <3> HIDE DEF y
    <3> QED
      BY <1>1, <2>1, <3>1, <3>2, <3>3
  <2>5. CASE \/ Persist(r) /\ ~Present(row[d])
             \/ RecordFailure(r) /\ ~Present(row[d])
             \/ Submit(r) \/ Acquire(r) \/ ClaimLost(r) \/ StageDone(r) \/ StageFails(r)
             \/ FetchFails(r) \/ Timeout(r) \/ Tick(r)
    BY <2>5 DEF Goal, Persist, RecordFailure, Submit, Acquire, ClaimLost, StageDone,
                StageFails, FetchFails, Timeout, Tick
  <2> QED
    BY <1>6, <2>2, <2>3, <2>4, <2>5 DEF RunStep
<1>7. ASSUME NEW r \in Request, TransactionFails(r) PROVE Goal
  BY <1>7 DEF Goal, TransactionFails
<1>8. ASSUME NEW p \in Replica, ReplicaStep(p) PROVE Goal
  <2>1. CASE SweepWrite(p) /\ \A d \in stuck[p] : Present(row[d])
    <3>1. phase[p] = "sweeping" /\ stuck[p] \in SUBSET Upload
      BY <2>1 DEF SweepWrite, TypeOK
    <3>2. \A d \in stuck[p] : row[d].status = "PROCESSING"
      BY <2>1, <3>1 DEF SweptIsStuck
    <3>3. row' = [d \in Upload |-> IF d \in stuck[p] THEN Interrupt(row[d]) ELSE row[d]]
      BY <2>1 DEF SweepWrite
    <3>4. SweepsAll
      BY <3>1, <3>2, <3>3 DEF SweepsAll
    <3> QED
      BY <2>1, <3>1, <3>4 DEF Goal
  <2>2. CASE ~SweepWrite(p) \/ ~\A d \in stuck[p] : Present(row[d])
    BY <1>8, <2>2 DEF Goal, ReplicaStep, SweepWrite, Crash, BeginDrain, FinishDrain, Start,
                      SweepRead, HousekeepingFails
  <2> QED
    BY <2>1, <2>2
<1>9. ASSUME UNCHANGED vars PROVE Goal
  BY <1>9 DEF vars, Goal
<1> QED
  BY <1>3, <1>4, <1>5, <1>6, <1>7, <1>8, <1>9 DEF Next, Goal

\* The columns of one row agree with its status.
ColumnsAgree(x) ==
    /\ x.error # None    <=> x.status = "FAILED"
    /\ x.finished        <=> x.status \in Terminal
    /\ x.started # None  <=> x.status \in Terminal \cup {"PROCESSING"}

\* What the lifecycle sees of a legal change.
Transition(x, y) ==
    \/ x.status = "absent" /\ y.status = "PENDING"
          /\ y.started = x.started /\ y.extraction = x.extraction
    \/ x.status = "PENDING" /\ y.status = "PROCESSING"
          /\ y.started \in Run /\ y.extraction = x.extraction
    \/ x.status = "PROCESSING" /\ y.status = "COMPLETED"
          /\ y.started = x.started /\ y.extraction = x.started
    \/ x.status = "PROCESSING" /\ y.status = "FAILED"
          /\ y.started = x.started /\ y.extraction = x.extraction
    \/ x.status \in Terminal /\ y.status = "PENDING"
          /\ y.started = None /\ y.extraction = x.extraction
    \/ y.status = "absent" /\ y.started = None /\ y.extraction = None

LEMMA AddEventAgrees ==
    ASSUME NEW x \in Row, NEW e \in Event, ColumnsAgree(x) PROVE ColumnsAgree(AddEvent(x, e))
<1> DEFINE y == AddEvent(x, e)
<1>1. y.status = x.status /\ y.error = x.error /\ y.finished = x.finished
         /\ y.started = x.started
  BY AddEventColumns
<1> QED
  BY <1>1 DEF ColumnsAgree

LEMMA LegalTransition ==
    ASSUME NEW x \in Row, NEW y, Legal(x, y), ColumnsAgree(x)
    PROVE  /\ Transition(x, y) /\ ColumnsAgree(y)
           /\ y = NoRow \/ Present(y)
<1> USE DEF Present
<1>1. CASE y = NoRow
  BY <1>1 DEF Transition, ColumnsAgree, NoRow, Terminal
<1>2. ASSUME x = NoRow, NEW c \in Content \cup {None}, y = AddEvent(Create(c), "uploaded")
      PROVE  Transition(x, y) /\ ColumnsAgree(y) /\ Present(y)
  <2> DEFINE z == Create(c)
  <2>1. z \in Row /\ z.status = "PENDING" /\ z.error = None /\ z.started = None
           /\ z.extraction = None /\ z.finished = FALSE
    BY CreateType, CreateColumns
  <2>2. x.status = "absent" /\ x.started = None /\ x.extraction = None
    BY <1>2 DEF NoRow
  <2> HIDE DEF z
  <2>3. ColumnsAgree(z)
    BY <2>1 DEF ColumnsAgree, Terminal
  <2>4. y = AddEvent(z, "uploaded")
    BY <1>2 DEF z
  <2> QED
    BY <2>1, <2>2, <2>3, <2>4, AddEventStatus, AddEventAgrees DEF Transition, Event
<1>3. ASSUME Requeueable(x), y = AddEvent(ResetToPending(x, x), "reprocess_requested")
      PROVE  Transition(x, y) /\ ColumnsAgree(y) /\ Present(y)
  <2> DEFINE z == ResetToPending(x, x)
  <2>1. z \in Row
    BY ResetType
  <2>2. z.status = "PENDING" /\ z.error = None /\ z.started = None
           /\ z.extraction = x.extraction /\ z.finished = FALSE
    BY ResetColumns DEF Row
  <2> HIDE DEF z
  <2>3. ColumnsAgree(z)
    BY <2>2 DEF ColumnsAgree, Terminal
  <2>4. y = AddEvent(z, "reprocess_requested")
    BY <1>3 DEF z
  <2> QED
    BY <1>3, <2>1, <2>2, <2>3, <2>4, AddEventStatus, AddEventAgrees
       DEF Transition, Event, Requeueable
<1>4. ASSUME Claimable(x), NEW r \in Run,
             y = AddEvent(ClaimForProcessing(x, r), "processing_started")
      PROVE  Transition(x, y) /\ ColumnsAgree(y) /\ Present(y)
  <2> DEFINE z == ClaimForProcessing(x, r)
  <2>1. z \in Row
    BY ClaimType
  <2>2. z.status = "PROCESSING" /\ z.error = None /\ z.started = r
           /\ z.extraction = x.extraction /\ z.finished = FALSE
    BY ClaimColumns
  <2> HIDE DEF z
  <2>3. ColumnsAgree(z)
    BY <2>2, NoneIsNull DEF ColumnsAgree, Terminal
  <2>4. y = AddEvent(z, "processing_started")
    BY <1>4 DEF z
  <2> QED
    BY <1>4, <2>1, <2>2, <2>3, <2>4, AddEventStatus, AddEventAgrees
       DEF Transition, Event, Claimable
<1>5. ASSUME x.status = "PROCESSING", x.started \in Run,
             y = AddEvent(MarkCompleted(UpsertExtraction(x, x.started)), "processing_completed")
      PROVE  Transition(x, y) /\ ColumnsAgree(y) /\ Present(y)
  <2> DEFINE z == MarkCompleted(UpsertExtraction(x, x.started))
  <2>1. z \in Row
    BY <1>5, UpsertType, MarkCompletedType
  <2>2. z.status = "COMPLETED" /\ z.error = None /\ z.started = x.started
           /\ z.extraction = x.started /\ z.finished = TRUE
    BY <1>5, CompleteColumns
  <2> HIDE DEF z
  <2>3. ColumnsAgree(z)
    BY <1>5, <2>2, NoneIsNull DEF ColumnsAgree, Terminal
  <2>4. y = AddEvent(z, "processing_completed")
    BY <1>5 DEF z
  <2> QED
    BY <1>5, <2>1, <2>2, <2>3, <2>4, AddEventStatus, AddEventAgrees DEF Transition, Event
<1>6. ASSUME x.status = "PROCESSING", NEW c \in Code,
             NEW e \in {"processing_failed", "processing_interrupted"},
             y = AddEvent(MarkFailed(x, c), e)
      PROVE  Transition(x, y) /\ ColumnsAgree(y) /\ Present(y)
  <2> DEFINE z == MarkFailed(x, c)
  <2>1. z \in Row
    BY MarkFailedType
  <2>2. z.status = "FAILED" /\ z.error = c /\ z.started = x.started
           /\ z.extraction = x.extraction /\ z.finished = TRUE
    BY FailColumns
  <2> HIDE DEF z
  <2>3. ColumnsAgree(z)
    <3>1. c # None
      BY DEF Code, None
    <3> QED
      BY <1>6, <2>2, <3>1 DEF ColumnsAgree, Terminal
  <2>4. y = AddEvent(z, e) /\ e \in Event
    BY <1>6 DEF z, Event
  <2> QED
    BY <1>6, <2>1, <2>2, <2>3, <2>4, AddEventStatus, AddEventAgrees DEF Transition
<1> QED
  BY <1>1, <1>2, <1>3, <1>4, <1>5, <1>6 DEF Legal

LEMMA InterruptTransition ==
    ASSUME NEW x \in Row, x.status = "PROCESSING", ColumnsAgree(x)
    PROVE  LET y == Interrupt(x) IN
           /\ y.status = "FAILED" /\ y.started = x.started /\ y.extraction = x.extraction
           /\ ColumnsAgree(y) /\ Present(y)
<1> DEFINE z == MarkFailed(x, "worker_interrupted")
<1>1. z \in Row /\ Interrupt(x) = AddEvent(z, "processing_interrupted")
  BY MarkFailedType DEF Code, Interrupt
<1>2. z.status = "FAILED" /\ z.error = "worker_interrupted" /\ z.started = x.started
           /\ z.extraction = x.extraction /\ z.finished = TRUE
  BY FailColumns
<1> HIDE DEF z
<1>3. ColumnsAgree(z)
  BY <1>2 DEF ColumnsAgree, Terminal, None
<1> QED
  BY <1>1, <1>2, <1>3, AddEventStatus, AddEventAgrees DEF Event, Present

-----------------------------------------------------------------------------
(* The invariant of the lifecycle. *)

LifeInv == WriteInv /\ ColumnsMatchStatus

LEMMA ColumnsByRow == ColumnsMatchStatus <=> \A d \in Upload : ColumnsAgree(row[d])
BY DEF ColumnsMatchStatus, ColumnsAgree

LEMMA LifeInvInit == Init => LifeInv
<1>1. ColumnsAgree(NoRow)
  BY DEF ColumnsAgree, NoRow, Terminal
<1> QED
  BY <1>1, ClaimInvInit, ColumnsByRow
     DEF Init, LifeInv, WriteInv, AbsentIsEmpty, SweptIsStuck

\* Only the steps of a replica change its phase.
LEMMA OthersKeepPhase ==
    ASSUME ClaimInv, [Next]_vars
    PROVE  (phase' = phase /\ stuck' = stuck) \/ \E p \in Replica : ReplicaStep(p)
<1> USE DEF Moves, Arrives, Writes, Deletes, Goes, Rests
<1>1. ASSUME NEW u \in Upload, UploadStep(u) PROVE phase' = phase /\ stuck' = stuck
  BY <1>1, UploadSteps
<1>2. ASSUME NEW r \in Reprocess, ReprocessStep(r) PROVE phase' = phase /\ stuck' = stuck
  BY <1>2, ReprocessSteps
<1>3. ASSUME NEW x \in Delete, DeleteStep(x) PROVE phase' = phase /\ stuck' = stuck
  BY <1>3, DeleteSteps
<1>4. ASSUME NEW r \in Run, RunStep(r) PROVE phase' = phase /\ stuck' = stuck
  BY <1>4, RunSteps
<1>5. ASSUME NEW r \in Request, TransactionFails(r) PROVE phase' = phase /\ stuck' = stuck
  BY <1>5, RollbackSteps
<1> QED
  BY <1>1, <1>2, <1>3, <1>4, <1>5 DEF Next, vars, replicaVars

LEMMA LifeInvNext == Serial /\ LifeInv /\ [Next]_vars => LifeInv'
<1> SUFFICES ASSUME Serial, LifeInv, [Next]_vars PROVE LifeInv'
  OBVIOUS
<1> USE DEF LifeInv, WriteInv
<1>1. ClaimInv' /\ TypeOK
  BY ClaimInvNext DEF ClaimInv
<1>2. \A d \in Upload : row[d] \in Row /\ ColumnsAgree(row[d])
  BY <1>1, ColumnsByRow DEF TypeOK
<1>3. \A d \in Upload :
         /\ ColumnsAgree(row'[d])
         /\ Present(row'[d]) \/ row'[d] = NoRow
  <2>1. CASE row' = row
    BY <1>2, <2>1 DEF AbsentIsEmpty
  <2>2. CASE WritesOne
    BY <1>1, <1>2, <2>2, LegalTransition DEF WritesOne, AbsentIsEmpty, TypeOK
  <2>3. CASE SweepsAll
    BY <1>2, <2>3, InterruptTransition DEF SweepsAll, AbsentIsEmpty
  <2> QED
    BY <2>1, <2>2, <2>3, LegalWrites
<1>4. AbsentIsEmpty'
  BY <1>3 DEF AbsentIsEmpty
<1>5. ColumnsMatchStatus'
  BY <1>3 DEF ColumnsMatchStatus, ColumnsAgree
<1>6. SweptIsStuck'
  <2> SUFFICES ASSUME NEW p \in Replica, phase'[p] = "sweeping", NEW d \in stuck'[p],
                      Present(row'[d])
               PROVE  row'[d].status = "PROCESSING"
    BY DEF SweptIsStuck
  <2>1. CASE phase' = phase /\ stuck' = stuck
    <3>1. ~WritesOne
      BY <2>1, SweepIsAlone DEF WritesOne
    <3>2. ~\E q \in Replica : SweepWrite(q)
      BY <1>1, <2>1 DEF SweepWrite, TypeOK
    <3>3. row' = row
      BY <3>1, <3>2, LegalWrites
    <3> QED
      BY <2>1, <3>3 DEF SweptIsStuck
  <2>2. ASSUME NEW q \in Replica, ReplicaStep(q)
        PROVE  row'[d].status = "PROCESSING"
    <3>1. q = p
      BY DEF Serial
    <3>2. SweepRead(p)
      BY <1>1, <2>2, <3>1 DEF ReplicaStep, Crash, BeginDrain, FinishDrain, Start, SweepWrite,
                         HousekeepingFails, TypeOK
    <3> QED
      BY <1>1, <3>2 DEF SweepRead, Stuck, TypeOK
  <2> QED
    BY <2>1, <2>2, OthersKeepPhase
<1> QED
  BY <1>1, <1>4, <1>5, <1>6

\* The columns of a row agree with its status: an error exactly when FAILED, a
\* duration exactly when terminal, a claim exactly when it has been started.
THEOREM ColumnsMatch == ASSUME Serial PROVE Spec => []ColumnsMatchStatus
<1>1. LifeInv /\ [Next]_vars => LifeInv'
  BY LifeInvNext
<1>2. LifeInv => ColumnsMatchStatus
  BY DEF LifeInv
<1> QED
  BY <1>1, <1>2, LifeInvInit, PTL DEF Spec

-----------------------------------------------------------------------------
(* Refinement: the documents lead the life that the abstract specification    *)
(* promises.  The mapping is that of the INSTANCE in DocumentPipeline.        *)

LEMMA LifecycleInit == Init => Lifecycle!LInit
BY DEF Init, Lifecycle!LInit, NoRow

\* One transaction is one step of one document.
LEMMA LifecycleWrite ==
    ASSUME LifeInv, NEW d \in Upload, NEW y, Transition(row[d], y),
           row' = [row EXCEPT ![d] = y]
    PROVE  Lifecycle!LNext
<1>1. row \in [Upload -> Row]
  BY DEF LifeInv, WriteInv, ClaimInv, TypeOK
<1> DEFINE st == [e \in Upload |-> row[e].status]
           ow == [e \in Upload |-> row[e].started]
           re == [e \in Upload |-> row[e].extraction]
<1>2. /\ [e \in Upload |-> row'[e].status]     = [st EXCEPT ![d] = y.status]
      /\ [e \in Upload |-> row'[e].started]    = [ow EXCEPT ![d] = y.started]
      /\ [e \in Upload |-> row'[e].extraction] = [re EXCEPT ![d] = y.extraction]
  BY <1>1
<1>3. CASE row[d].status = "absent" /\ y.status = "PENDING"
              /\ y.started = row[d].started /\ y.extraction = row[d].extraction
  <2>1. Lifecycle!Create(d)
    BY <1>2, <1>3 DEF Lifecycle!Create
  <2> QED
    BY <2>1 DEF Lifecycle!LNext
<1>4. CASE row[d].status = "PENDING" /\ y.status = "PROCESSING"
              /\ y.started \in Run /\ y.extraction = row[d].extraction
  <2>1. Lifecycle!Claim(d, y.started)
    BY <1>2, <1>4 DEF Lifecycle!Claim
  <2> QED
    BY <1>4, <2>1 DEF Lifecycle!LNext
<1>5. CASE row[d].status = "PROCESSING" /\ y.status = "COMPLETED"
              /\ y.started = row[d].started /\ y.extraction = row[d].started
  <2>1. Lifecycle!Complete(d)
    BY <1>2, <1>5 DEF Lifecycle!Complete
  <2> QED
    BY <2>1 DEF Lifecycle!LNext
<1>6. CASE row[d].status = "PROCESSING" /\ y.status = "FAILED"
              /\ y.started = row[d].started /\ y.extraction = row[d].extraction
  <2>1. Lifecycle!Fail({d})
    BY <1>2, <1>6 DEF Lifecycle!Fail
  <2> QED
    BY <2>1 DEF Lifecycle!LNext
<1>7. CASE row[d].status \in Terminal /\ y.status = "PENDING"
              /\ y.started = None /\ y.extraction = row[d].extraction
  <2>1. Lifecycle!Retry(d)
    BY <1>2, <1>7 DEF Lifecycle!Retry, Terminal
  <2> QED
    BY <2>1 DEF Lifecycle!LNext
<1>8. CASE y.status = "absent" /\ y.started = None /\ y.extraction = None
  <2>1. Lifecycle!Remove(d)
    BY <1>2, <1>8 DEF Lifecycle!Remove
  <2> QED
    BY <2>1 DEF Lifecycle!LNext
<1> QED
  BY <1>3, <1>4, <1>5, <1>6, <1>7, <1>8 DEF Transition

LEMMA LifecycleNext ==
    Serial /\ LifeInv /\ [Next]_vars => [Lifecycle!LNext]_(Lifecycle!lvars)
<1> SUFFICES ASSUME Serial, LifeInv, [Next]_vars
             PROVE  Lifecycle!LNext \/ UNCHANGED Lifecycle!lvars
  OBVIOUS
<1> USE DEF LifeInv, WriteInv
<1>1. \A d \in Upload : row[d] \in Row /\ ColumnsAgree(row[d])
  BY ColumnsByRow DEF ClaimInv, TypeOK
<1>2. CASE row' = row
  BY <1>2 DEF Lifecycle!lvars
<1>3. CASE WritesOne
  <2>1. PICK w, y : /\ target[w] \in Upload /\ Legal(row[target[w]], y)
                     /\ row' = [row EXCEPT ![target[w]] = y]
    BY <1>3 DEF WritesOne
  <2>2. Transition(row[target[w]], y)
    BY <1>1, <2>1, LegalTransition
  <2> QED
    BY <2>1, <2>2, LifecycleWrite
<1>4. CASE SweepsAll
  <2>1. PICK D \in SUBSET Upload :
           /\ \A d \in D : row[d].status = "PROCESSING"
           /\ row' = [d \in Upload |-> IF d \in D THEN Interrupt(row[d]) ELSE row[d]]
    BY <1>4 DEF SweepsAll
  <2>2. \A d \in D : /\ Interrupt(row[d]).status = "FAILED"
                     /\ Interrupt(row[d]).started = row[d].started
                     /\ Interrupt(row[d]).extraction = row[d].extraction
    BY <1>1, <2>1, InterruptTransition
  <2>3. Lifecycle!Fail(D)
    BY <2>1, <2>2 DEF Lifecycle!Fail
  <2> QED
    BY <2>3 DEF Lifecycle!LNext
<1> QED
  BY <1>2, <1>3, <1>4, LegalWrites

\* Every behaviour of the pipeline is one of the promised lifecycle: the status
\* makes legal transitions only, a document in PROCESSING keeps its owner, and a
\* COMPLETED document shows the result of its own last run.
THEOREM PipelineImplementsLifecycle == ASSUME Serial PROVE Spec => ImplementsLifecycle
<1>1. LifeInv /\ [Next]_vars => LifeInv'
  BY LifeInvNext
<1>2. LifeInv /\ [Next]_vars => [Lifecycle!LNext]_(Lifecycle!lvars)
  BY LifecycleNext
<1> QED
  BY <1>1, <1>2, LifeInvInit, LifecycleInit, PTL DEF Spec, ImplementsLifecycle, Lifecycle!LSpec
=============================================================================
