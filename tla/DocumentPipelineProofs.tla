----------------------- MODULE DocumentPipelineProofs -----------------------
(***************************************************************************)
(* Machine-checked proofs about DocumentPipeline for every value of its    *)
(* constants.                                                              *)
(***************************************************************************)
EXTENDS DocumentPipeline, TLAPS

-----------------------------------------------------------------------------
(* What the statements of the repository layer return is a row again. *)

LEMMA NoRowType == NoRow \in Row
BY DEF NoRow, Row, Status

LEMMA CreateType == ASSUME NEW c \in Content \cup {None} PROVE Create(c) \in Row
BY DEF Create, NoRow, Row, Status

LEMMA AddEventType ==
    ASSUME NEW x \in Row, NEW e \in Event PROVE AddEvent(x, e) \in Row
<1> DEFINE s == x.starts + (IF e = "processing_started" THEN 1 ELSE 0)
           q == x.requests + (IF e = "reprocess_requested" THEN 1 ELSE 0)
<1>1. s \in Nat /\ q \in Nat
  BY DEF Row
<1>2. AddEvent(x, e) = [x EXCEPT !.last = e, !.starts = s, !.requests = q]
  BY DEF AddEvent
<1> HIDE DEF s, q
<1> QED
  BY <1>1, <1>2 DEF Row

LEMMA ClaimType ==
    ASSUME NEW x \in Row, NEW r \in Run PROVE ClaimForProcessing(x, r) \in Row
<1> DEFINE n == x.attempts + 1
<1>1. n \in Nat
  BY DEF Row
<1>2. ClaimForProcessing(x, r)
        = [x EXCEPT !.status = "PROCESSING", !.started = r, !.finished = FALSE,
                    !.attempts = n, !.error = None]
  BY DEF ClaimForProcessing
<1> HIDE DEF n
<1> QED
  BY <1>1, <1>2 DEF Row, Status

LEMMA MarkCompletedType == ASSUME NEW x \in Row PROVE MarkCompleted(x) \in Row
BY DEF MarkCompleted, Row, Status

LEMMA MarkFailedType ==
    ASSUME NEW x \in Row, NEW c \in Code \cup {None} PROVE MarkFailed(x, c) \in Row
BY DEF MarkFailed, Row, Status

LEMMA UpsertType ==
    ASSUME NEW x \in Row, NEW r \in Run PROVE UpsertExtraction(x, r) \in Row
BY DEF UpsertExtraction, Row

LEMMA ResetType ==
    ASSUME NEW x \in Row, NEW seenRow \in Row PROVE ResetToPending(x, seenRow) \in Row
<1> DEFINE e == IF seenRow.error   # None THEN None  ELSE x.error
           s == IF seenRow.started # None THEN None  ELSE x.started
           f == IF seenRow.finished       THEN FALSE ELSE x.finished
<1>1. e \in Code \cup {None} /\ s \in Run \cup {None}
  BY DEF Row
<1>2. f \in BOOLEAN
  BY DEF Row
<1>3. ResetToPending(x, seenRow)
        = [x EXCEPT !.status = "PENDING", !.error = e, !.started = s, !.finished = f]
  BY DEF ResetToPending
<1> HIDE DEF e, s, f
<1> QED
  BY <1>1, <1>2, <1>3 DEF Row, Status

-----------------------------------------------------------------------------
(* Type correctness. *)

LEMMA TypeInit == Init => TypeOK
BY NoRowType, Bounds DEF Init, TypeOK, Pc, Phase

\* Where an action may send a request is always a place of the program.
LEMMA GotoType ==
    ASSUME TypeOK, NEW r \in Request, NEW at \in Pc, Goto(r, at)
    PROVE  pc' \in [Request -> Pc]
BY DEF TypeOK, Goto

LEMMA ReceiveType ==
    ASSUME TypeOK, NEW r \in Request, NEW p \in Replica, NEW d \in Upload,
           Receive(r, p, d)
    PROVE  /\ host' \in [Request -> Replica \cup {None}]
           /\ target' \in [Request -> Upload \cup {None}]
BY DEF TypeOK, Receive

LEMMA FaultType == ASSUME TypeOK, Fault PROVE faults' \in 0 .. MaxFaults
BY Bounds DEF TypeOK, Fault

LEMMA EndAllType == ASSUME TypeOK, NEW p, EndAll(p) PROVE pc' \in [Request -> Pc]
BY DEF TypeOK, EndAll, Pc, Ended

\* A statement that rewrites one row keeps the table a table, whatever row the
\* request thinks it works on.
LEMMA RowUpdateType ==
    ASSUME TypeOK, NEW d, NEW x, d \in Upload => x \in Row,
           row' = [row EXCEPT ![d] = x]
    PROVE  row' \in [Upload -> Row]
<1>1. CASE d \in Upload
  BY <1>1 DEF TypeOK
<1>2. CASE d \notin Upload
  <2>1. row' = row
    BY <1>2 DEF TypeOK
  <2> QED
    BY <2>1 DEF TypeOK
<1> QED
  BY <1>1, <1>2

\* The steps of a request that leave the documents table alone.
LEMMA TypeHandler ==
    ASSUME TypeOK,
           \/ \E u \in Upload, p \in Replica, c \in Content :
                 UploadDuplicate(u, p, c) \/ UploadNew(u, p, c)
           \/ \E u \in Upload : StoreBlob(u) \/ StoreFails(u)
           \/ \E r \in Reprocess, p \in Replica, d \in Upload :
                 LoadForReprocess(r, p, d) \/ RejectReprocess(r, p, d)
           \/ \E x \in Delete, p \in Replica, d \in Upload : LoadForDelete(x, p, d)
           \/ \E x \in Delete : DeleteBlob(x) \/ DeleteBlobFails(x)
           \/ \E r \in Request : TransactionFails(r)
    PROVE  TypeOK'
<1> USE DEF reqVars, replicaVars, budgets, Request, Run, Pc, Handling, Ended
<1>1. ASSUME NEW u \in Upload, NEW p \in Replica, NEW c \in Content,
             UploadDuplicate(u, p, c)
      PROVE  TypeOK'
  BY <1>1, GotoType, ReceiveType DEF TypeOK, UploadDuplicate
<1>2. ASSUME NEW u \in Upload, NEW p \in Replica, NEW c \in Content,
             UploadNew(u, p, c)
      PROVE  TypeOK'
  BY <1>2, GotoType, ReceiveType DEF TypeOK, UploadNew
<1>3. ASSUME NEW u \in Upload, StoreBlob(u) PROVE TypeOK'
  BY <1>3, GotoType DEF TypeOK, StoreBlob
<1>4. ASSUME NEW u \in Upload, StoreFails(u) PROVE TypeOK'
  BY <1>4, GotoType, FaultType DEF TypeOK, StoreFails
<1>5. ASSUME NEW r \in Reprocess, NEW p \in Replica, NEW d \in Upload,
             LoadForReprocess(r, p, d)
      PROVE  TypeOK'
  BY <1>5, GotoType, ReceiveType DEF TypeOK, LoadForReprocess
<1>6. ASSUME NEW r \in Reprocess, NEW p \in Replica, NEW d \in Upload,
             RejectReprocess(r, p, d)
      PROVE  TypeOK'
  BY <1>6, GotoType, ReceiveType DEF TypeOK, RejectReprocess
<1>7. ASSUME NEW x \in Delete, NEW p \in Replica, NEW d \in Upload,
             LoadForDelete(x, p, d)
      PROVE  TypeOK'
  BY <1>7, GotoType, ReceiveType DEF TypeOK, LoadForDelete
<1>8. ASSUME NEW x \in Delete, DeleteBlob(x) PROVE TypeOK'
  BY <1>8, GotoType DEF TypeOK, DeleteBlob
<1>9. ASSUME NEW x \in Delete, DeleteBlobFails(x) PROVE TypeOK'
  BY <1>9, GotoType, FaultType DEF TypeOK, DeleteBlobFails
<1>10. ASSUME NEW r \in Request, TransactionFails(r) PROVE TypeOK'
  BY <1>10, GotoType, FaultType DEF TypeOK, TransactionFails
<1> QED
  BY <1>1, <1>2, <1>3, <1>4, <1>5, <1>6, <1>7, <1>8, <1>9, <1>10

\* The steps of a task that leave the documents table alone.
LEMMA TypeTask ==
    ASSUME TypeOK, NEW r \in Run,
           \/ Submit(r) \/ Acquire(r) \/ ClaimLost(r) \/ StageDone(r)
           \/ StageFails(r) \/ FetchFails(r) \/ Timeout(r) \/ Tick(r)
    PROVE  TypeOK'
<1> USE DEF reqVars, replicaVars, budgets, Request, Pc, Permit, Active, Stage, Ended
<1>1. CASE Submit(r)
  BY <1>1, GotoType DEF TypeOK, Submit
<1>2. CASE Acquire(r)
  BY <1>2, GotoType DEF TypeOK, Acquire
<1>3. CASE ClaimLost(r)
  BY <1>3, GotoType DEF TypeOK, ClaimLost
<1>4. CASE StageDone(r)
  <2>1. NextStage[pc[r]] \in Pc
    BY <1>4 DEF StageDone, NextStage
  <2> QED
    BY <1>4, <2>1, GotoType DEF TypeOK, StageDone
<1>5. CASE StageFails(r)
  BY <1>5, GotoType DEF TypeOK, StageFails, Code
<1>6. CASE FetchFails(r)
  BY <1>6, GotoType, FaultType DEF TypeOK, FetchFails, Code
<1>7. CASE Timeout(r)
  BY <1>7, GotoType DEF TypeOK, Timeout, Code
<1>8. CASE Tick(r)
  BY <1>8 DEF TypeOK, Tick
<1> QED
  BY <1>1, <1>2, <1>3, <1>4, <1>5, <1>6, <1>7, <1>8

\* The transactions that write a row.
LEMMA TypeTransaction ==
    ASSUME TypeOK,
           \/ \E u \in Upload : InsertRow(u)
           \/ \E r \in Reprocess : Requeue(r)
           \/ \E x \in Delete : CommitDelete(x)
           \/ \E r \in Run : ClaimWon(r) \/ Persist(r) \/ RecordFailure(r)
    PROVE  TypeOK'
<1> USE DEF reqVars, replicaVars, budgets, Request, Pc, Permit, Active, Stage, Handling, Ended
<1>1. ASSUME NEW u \in Upload, InsertRow(u) PROVE TypeOK'
  <2>1. CASE Duplicate(content[u])
    BY <1>1, <2>1, GotoType DEF TypeOK, InsertRow, Run
  <2>2. CASE ~Duplicate(content[u])
    <3>1. AddEvent(Create(content[u]), "uploaded") \in Row
      BY CreateType, AddEventType DEF TypeOK, Event
    <3>2. row' \in [Upload -> Row]
      BY <1>1, <2>2, <3>1 DEF TypeOK, InsertRow
    <3> QED
      BY <1>1, <2>2, <3>2, GotoType DEF TypeOK, InsertRow, Run
  <2> QED
    BY <2>1, <2>2
<1>2. ASSUME NEW r \in Reprocess, Requeue(r) PROVE TypeOK'
  <2> DEFINE d == target[r]
             x == AddEvent(ResetToPending(row[d], seen[r]), "reprocess_requested")
  <2>1. d \in Upload => x \in Row
    BY ResetType, AddEventType DEF TypeOK, Event
  <2>2. seen' \in [Reprocess -> Row]
    BY <1>2, NoRowType DEF TypeOK, Requeue
  <2>3. CASE Present(row[d])
    <3>1. row' = [row EXCEPT ![d] = x]
      BY <1>2, <2>3 DEF Requeue
    <3>2. row' \in [Upload -> Row]
      <4> HIDE DEF d, x
      <4> QED
        BY <2>1, <3>1, RowUpdateType
    <3> QED
      BY <1>2, <2>2, <2>3, <3>2, GotoType DEF TypeOK, Requeue, Run
  <2>4. CASE ~Present(row[d])
    BY <1>2, <2>2, <2>4, GotoType DEF TypeOK, Requeue, Run
  <2> QED
    BY <2>3, <2>4
<1>3. ASSUME NEW x \in Delete, CommitDelete(x) PROVE TypeOK'
  <2>1. row' \in [Upload -> Row]
    BY <1>3, NoRowType, RowUpdateType DEF CommitDelete
  <2> QED
    BY <1>3, <2>1, GotoType DEF TypeOK, CommitDelete, Run
<1>4. ASSUME NEW r \in Run, ClaimWon(r) PROVE TypeOK'
  <2> DEFINE d == target[r]
             x == AddEvent(ClaimForProcessing(row[d], r), "processing_started")
  <2>1. d \in Upload => x \in Row
    BY ClaimType, AddEventType DEF TypeOK, Event
  <2>2. row' = [row EXCEPT ![d] = x]
    BY <1>4 DEF ClaimWon
  <2>3. row' \in [Upload -> Row]
    <3> HIDE DEF d, x
    <3> QED
      BY <2>1, <2>2, RowUpdateType
  <2> QED
    BY <1>4, <2>3, GotoType DEF TypeOK, ClaimWon
<1>5. ASSUME NEW r \in Run, Persist(r) PROVE TypeOK'
  <2> DEFINE d == target[r]
             x == AddEvent(MarkCompleted(UpsertExtraction(row[d], r)), "processing_completed")
  <2>1. d \in Upload => x \in Row
    BY UpsertType, MarkCompletedType, AddEventType DEF TypeOK, Event
  <2>2. CASE Present(row[d])
    <3>1. row' = [row EXCEPT ![d] = x]
      BY <1>5, <2>2 DEF Persist
    <3>2. row' \in [Upload -> Row]
      <4> HIDE DEF d, x
      <4> QED
        BY <2>1, <3>1, RowUpdateType
    <3> QED
      BY <1>5, <2>2, <3>2, GotoType DEF TypeOK, Persist
  <2>3. CASE ~Present(row[d])
    BY <1>5, <2>3, GotoType DEF TypeOK, Persist
  <2> QED
    BY <2>2, <2>3
<1>6. ASSUME NEW r \in Run, RecordFailure(r) PROVE TypeOK'
  <2> DEFINE d == target[r]
             x == AddEvent(MarkFailed(row[d], code[r]), "processing_failed")
  <2>1. d \in Upload => x \in Row
    BY MarkFailedType, AddEventType DEF TypeOK, Event
  <2>2. row' \in [Upload -> Row]
    <3>1. CASE Present(row[d])
      <4>1. row' = [row EXCEPT ![d] = x]
        BY <1>6, <3>1 DEF RecordFailure
      <4> HIDE DEF d, x
      <4> QED
        BY <2>1, <4>1, RowUpdateType
    <3>2. CASE ~Present(row[d])
      BY <1>6, <3>2 DEF RecordFailure, TypeOK
    <3> QED
      BY <3>1, <3>2
  <2> QED
    BY <1>6, <2>2, GotoType DEF TypeOK, RecordFailure
<1> QED
  BY <1>1, <1>2, <1>3, <1>4, <1>5, <1>6

\* The steps of a replica.
LEMMA TypeReplica ==
    ASSUME TypeOK, NEW p \in Replica, ReplicaStep(p)
    PROVE  TypeOK'
<1> USE DEF reqVars, replicaVars, budgets, Phase
<1>1. CASE Crash(p)
  BY <1>1, EndAllType, Bounds DEF TypeOK, Crash
<1>2. CASE BeginDrain(p)
  BY <1>2, Bounds DEF TypeOK, BeginDrain
<1>3. CASE FinishDrain(p)
  BY <1>3, EndAllType DEF TypeOK, FinishDrain
<1>4. CASE Start(p)
  BY <1>4 DEF TypeOK, Start
<1>5. CASE SweepRead(p)
  BY <1>5 DEF TypeOK, SweepRead
<1>6. CASE SweepWrite(p)
  <2>1. \A d \in Upload : Interrupt(row[d]) \in Row
    BY MarkFailedType, AddEventType DEF TypeOK, Interrupt, Code, Event
  <2>2. row' \in [Upload -> Row]
    BY <1>6, <2>1 DEF TypeOK, SweepWrite
  <2> QED
    BY <1>6, <2>2 DEF TypeOK, SweepWrite
<1>7. CASE HousekeepingFails(p)
  BY <1>7, FaultType DEF TypeOK, HousekeepingFails
<1> QED
  BY <1>1, <1>2, <1>3, <1>4, <1>5, <1>6, <1>7 DEF ReplicaStep

LEMMA TypeNext == TypeOK /\ [Next]_vars => TypeOK'
<1> SUFFICES ASSUME TypeOK, [Next]_vars PROVE TypeOK'
  OBVIOUS
<1>1. ASSUME NEW u \in Upload, UploadStep(u) PROVE TypeOK'
  BY <1>1, TypeHandler, TypeTransaction DEF UploadStep
<1>2. ASSUME NEW r \in Reprocess, ReprocessStep(r) PROVE TypeOK'
  BY <1>2, TypeHandler, TypeTransaction DEF ReprocessStep
<1>3. ASSUME NEW x \in Delete, DeleteStep(x) PROVE TypeOK'
  BY <1>3, TypeHandler, TypeTransaction DEF DeleteStep
<1>4. ASSUME NEW r \in Run, RunStep(r) PROVE TypeOK'
  BY <1>4, TypeTask, TypeTransaction DEF RunStep
<1>5. ASSUME NEW r \in Request, TransactionFails(r) PROVE TypeOK'
  BY <1>5, TypeHandler
<1>6. ASSUME NEW p \in Replica, ReplicaStep(p) PROVE TypeOK'
  BY <1>6, TypeReplica
<1>7. CASE UNCHANGED vars
  BY <1>7 DEF TypeOK, vars, reqVars, replicaVars, budgets
<1> QED
  BY <1>1, <1>2, <1>3, <1>4, <1>5, <1>6, <1>7 DEF Next

\* Every variable keeps its type: no step of a request, a task or a replica
\* leaves the documents table, the requests or the replicas in a shape that the
\* code has no name for.
THEOREM TypeCorrect == Spec => []TypeOK
BY TypeInit, TypeNext, PTL DEF Spec

-----------------------------------------------------------------------------
(* What each statement does to the columns the invariants speak of. *)

LEMMA AddEventColumns ==
    ASSUME NEW x \in Row, NEW e \in Event
    PROVE  LET y == AddEvent(x, e) IN
           /\ y.status = x.status /\ y.content = x.content /\ y.attempts = x.attempts
           /\ y.started = x.started /\ y.finished = x.finished
           /\ y.error = x.error /\ y.extraction = x.extraction
           /\ y.last = e
           /\ y.starts = x.starts + (IF e = "processing_started" THEN 1 ELSE 0)
           /\ y.requests = x.requests + (IF e = "reprocess_requested" THEN 1 ELSE 0)
<1> DEFINE s == x.starts + (IF e = "processing_started" THEN 1 ELSE 0)
           q == x.requests + (IF e = "reprocess_requested" THEN 1 ELSE 0)
<1>1. AddEvent(x, e) = [x EXCEPT !.last = e, !.starts = s, !.requests = q]
  BY DEF AddEvent
<1> HIDE DEF s, q
<1>2. LET y == AddEvent(x, e) IN
      /\ y.status = x.status /\ y.content = x.content /\ y.attempts = x.attempts
      /\ y.started = x.started /\ y.finished = x.finished
      /\ y.error = x.error /\ y.extraction = x.extraction
      /\ y.last = e /\ y.starts = s /\ y.requests = q
  BY <1>1 DEF Row
<1> QED
  BY <1>2 DEF s, q

LEMMA AddEventContent ==
    ASSUME NEW x \in Row, NEW e \in Event PROVE AddEvent(x, e).content = x.content
BY AddEventColumns

LEMMA AddEventStatus ==
    ASSUME NEW x \in Row, NEW e \in Event
    PROVE  AddEvent(x, e).status = x.status /\ AddEvent(x, e).started = x.started
              /\ AddEvent(x, e).extraction = x.extraction
BY AddEventColumns

LEMMA CreateColumns ==
    ASSUME NEW c
    PROVE  LET y == Create(c) IN
           /\ y.status = "PENDING" /\ y.content = c /\ y.attempts = 0 /\ y.starts = 0
           /\ y.requests = 0 /\ y.error = None /\ y.started = None /\ y.extraction = None
           /\ y.finished = FALSE
BY DEF Create, NoRow

LEMMA ClaimColumns ==
    ASSUME NEW x \in Row, NEW r \in Run
    PROVE  LET y == ClaimForProcessing(x, r) IN
           /\ y.status = "PROCESSING" /\ y.started = r /\ y.attempts = x.attempts + 1
           /\ y.error = None /\ y.finished = FALSE
           /\ y.content = x.content /\ y.extraction = x.extraction
           /\ y.starts = x.starts /\ y.requests = x.requests
<1> DEFINE n == x.attempts + 1
<1>1. ClaimForProcessing(x, r)
        = [x EXCEPT !.status = "PROCESSING", !.started = r, !.finished = FALSE,
                    !.attempts = n, !.error = None]
  BY DEF ClaimForProcessing
<1> HIDE DEF n
<1>2. LET y == ClaimForProcessing(x, r) IN
      /\ y.status = "PROCESSING" /\ y.started = r /\ y.attempts = n
      /\ y.error = None /\ y.finished = FALSE
      /\ y.content = x.content /\ y.extraction = x.extraction
      /\ y.starts = x.starts /\ y.requests = x.requests
  BY <1>1 DEF Row
<1> QED
  BY <1>2 DEF n

LEMMA CompleteColumns ==
    ASSUME NEW x \in Row, NEW r \in Run
    PROVE  LET y == MarkCompleted(UpsertExtraction(x, r)) IN
           /\ y.status = "COMPLETED" /\ y.error = None /\ y.extraction = r
           /\ y.finished = TRUE
           /\ y.started = x.started /\ y.content = x.content /\ y.attempts = x.attempts
           /\ y.starts = x.starts /\ y.requests = x.requests
BY DEF MarkCompleted, UpsertExtraction, Row

LEMMA FailColumns ==
    ASSUME NEW x \in Row, NEW c
    PROVE  LET y == MarkFailed(x, c) IN
           /\ y.status = "FAILED" /\ y.error = c /\ y.finished = TRUE
           /\ y.started = x.started /\ y.content = x.content /\ y.attempts = x.attempts
           /\ y.extraction = x.extraction
           /\ y.starts = x.starts /\ y.requests = x.requests
BY DEF MarkFailed, Row

LEMMA ResetColumns ==
    ASSUME NEW x \in Row, NEW s \in Row
    PROVE  LET y == ResetToPending(x, s) IN
           /\ y.status = "PENDING"
           /\ y.error    = IF s.error   # None THEN None  ELSE x.error
           /\ y.started  = IF s.started # None THEN None  ELSE x.started
           /\ y.finished = IF s.finished       THEN FALSE ELSE x.finished
           /\ y.content = x.content /\ y.attempts = x.attempts
           /\ y.extraction = x.extraction
           /\ y.starts = x.starts /\ y.requests = x.requests
<1> DEFINE e == IF s.error   # None THEN None  ELSE x.error
           t == IF s.started # None THEN None  ELSE x.started
           f == IF s.finished       THEN FALSE ELSE x.finished
<1>1. ResetToPending(x, s)
        = [x EXCEPT !.status = "PENDING", !.error = e, !.started = t, !.finished = f]
  BY DEF ResetToPending
<1> HIDE DEF e, t, f
<1>2. LET y == ResetToPending(x, s) IN
      /\ y.status = "PENDING" /\ y.error = e /\ y.started = t /\ y.finished = f
      /\ y.content = x.content /\ y.attempts = x.attempts
      /\ y.extraction = x.extraction
      /\ y.starts = x.starts /\ y.requests = x.requests
  BY <1>1 DEF Row
<1> QED
  BY <1>2 DEF e, t, f

-----------------------------------------------------------------------------
(* Every step either inserts one row, or applies to each row at most one of *)
(* the repository's statements; so an invariant of single rows need only be *)
(* checked against the statements.                                          *)

\* Row x becomes y by a statement that a request, a task or a sweep executes.
Statement(x, y) ==
    \/ y = x
    \/ y = NoRow
    \/ /\ Present(x)
       /\ \E s \in Row : y = AddEvent(ResetToPending(x, s), "reprocess_requested")
    \/ /\ Claimable(x)
       /\ \E r \in Run : y = AddEvent(ClaimForProcessing(x, r), "processing_started")
    \/ /\ Present(x)
       /\ \E r \in Run :
             y = AddEvent(MarkCompleted(UpsertExtraction(x, r)), "processing_completed")
    \/ /\ Present(x)
       /\ \E c \in Code, e \in {"processing_failed", "processing_interrupted"} :
             y = AddEvent(MarkFailed(x, c), e)

Inserted(d) ==
    /\ ~Duplicate(content[d])
    /\ row' = [row EXCEPT ![d] = AddEvent(Create(content[d]), "uploaded")]

\* A run that is about to record its failure knows the error code.
FailureHasCode == \A r \in Run : pc[r] = "failing" => code[r] # None

LEMMA FailureHasCodeInit == Init => FailureHasCode
BY DEF Init, FailureHasCode, Run, Request

LEMMA FailureHasCodeNext ==
    TypeOK /\ FailureHasCode /\ [Next]_vars => FailureHasCode'
<1> SUFFICES ASSUME TypeOK, FailureHasCode, [Next]_vars PROVE FailureHasCode'
  OBVIOUS
<1> USE DEF Run, Request, Goto
<1>1. ASSUME code' = code, NEW r \in Request, NEW at \in Pc \ {"failing"}, Goto(r, at)
      PROVE  FailureHasCode'
  BY <1>1 DEF TypeOK, FailureHasCode
<1>2. ASSUME NEW u \in Upload, UploadStep(u) PROVE FailureHasCode'
  <2> USE DEF Pc, Handling, Ended
  <2>1. ASSUME NEW p \in Replica, NEW c \in Content,
               UploadDuplicate(u, p, c) \/ UploadNew(u, p, c)
        PROVE  FailureHasCode'
    BY <1>1, <2>1 DEF UploadDuplicate, UploadNew
  <2>2. CASE StoreBlob(u) \/ StoreFails(u) \/ InsertRow(u)
    BY <1>1, <2>2 DEF StoreBlob, StoreFails, InsertRow
  <2> QED
    BY <1>2, <2>1, <2>2 DEF UploadStep
<1>3. ASSUME NEW r \in Reprocess, ReprocessStep(r) PROVE FailureHasCode'
  <2> USE DEF Pc, Handling, Ended
  <2>1. ASSUME NEW p \in Replica, NEW d \in Upload,
               LoadForReprocess(r, p, d) \/ RejectReprocess(r, p, d)
        PROVE  FailureHasCode'
    BY <1>1, <2>1 DEF LoadForReprocess, RejectReprocess
  <2>2. CASE Requeue(r)
    BY <1>1, <2>2 DEF Requeue
  <2> QED
    BY <1>3, <2>1, <2>2 DEF ReprocessStep
<1>4. ASSUME NEW x \in Delete, DeleteStep(x) PROVE FailureHasCode'
  <2> USE DEF Pc, Handling, Ended
  <2>1. ASSUME NEW p \in Replica, NEW d \in Upload, LoadForDelete(x, p, d)
        PROVE  FailureHasCode'
    BY <1>1, <2>1 DEF LoadForDelete
  <2>2. CASE DeleteBlob(x) \/ DeleteBlobFails(x) \/ CommitDelete(x)
    BY <1>1, <2>2 DEF DeleteBlob, DeleteBlobFails, CommitDelete
  <2> QED
    BY <1>4, <2>1, <2>2 DEF DeleteStep
<1>5. ASSUME NEW r \in Run, RunStep(r) PROVE FailureHasCode'
  <2>1. CASE Submit(r) \/ Acquire(r) \/ ClaimWon(r) \/ ClaimLost(r) \/ StageDone(r)
                \/ Persist(r)
    <3>1. NextStage["fetching"] = "extracting" /\ NextStage["extracting"] = "analysing"
             /\ NextStage["analysing"] = "persisting"
      BY DEF NextStage
    <3> QED
      BY <1>1, <2>1, <3>1 DEF Submit, Acquire, ClaimWon, ClaimLost, StageDone, Persist,
                         Pc, Permit, Active, Stage, Ended
  <2>2. CASE StageFails(r) \/ FetchFails(r) \/ Timeout(r)
    <3>1. \E c \in Code : code' = [code EXCEPT ![r] = c]
      BY <2>2 DEF StageFails, FetchFails, Timeout, Code
    <3>2. pc' = [pc EXCEPT ![r] = "failing"] /\ None \notin Code
      BY <2>2 DEF StageFails, FetchFails, Timeout, Code, None
    <3> QED
      BY <3>1, <3>2 DEF TypeOK, FailureHasCode
  <2>3. CASE Tick(r)
    BY <2>3 DEF Tick, reqVars, FailureHasCode
  <2>4. CASE RecordFailure(r)
    BY <2>4 DEF RecordFailure, FailureHasCode, TypeOK
  <2> QED
    BY <1>5, <2>1, <2>2, <2>3, <2>4 DEF RunStep
<1>6. ASSUME NEW r \in Request, TransactionFails(r) PROVE FailureHasCode'
  <2>1. PICK at \in Ended : Goto(r, at)
    BY <1>6 DEF TransactionFails, Ended
  <2>2. at \in Pc \ {"failing"} /\ code' = code
    BY <1>6, <2>1 DEF TransactionFails, Pc, Ended
  <2> HIDE DEF Goto
  <2> QED
    BY <1>1, <2>1, <2>2
<1>7. ASSUME NEW p \in Replica, ReplicaStep(p) PROVE FailureHasCode'
  <2>1. CASE Crash(p) \/ FinishDrain(p)
    BY <2>1 DEF Crash, FinishDrain, EndAll, FailureHasCode, TypeOK
  <2>2. CASE BeginDrain(p) \/ Start(p) \/ SweepRead(p) \/ SweepWrite(p) \/ HousekeepingFails(p)
    BY <2>2 DEF BeginDrain, Start, SweepRead, SweepWrite, HousekeepingFails, reqVars,
                FailureHasCode
  <2> QED
    BY <1>7, <2>1, <2>2 DEF ReplicaStep
<1>8. CASE UNCHANGED vars
  BY <1>8 DEF vars, reqVars, FailureHasCode
<1> QED
  BY <1>2, <1>3, <1>4, <1>5, <1>6, <1>7, <1>8 DEF Next

\* How a step reaches the table.
LEMMA RowChanges ==
    ASSUME TypeOK, FailureHasCode, [Next]_vars
    PROVE  \/ \E d \in Upload : pc[d] = "inserting" /\ Inserted(d)
           \/ \A d \in Upload : Statement(row[d], row'[d])
<1> DEFINE Goal == \/ \E d \in Upload : pc[d] = "inserting" /\ Inserted(d)
                   \/ \A d \in Upload : Statement(row[d], row'[d])
<1>1. ASSUME row' = row PROVE Goal
  BY <1>1 DEF Statement
\* A statement by primary key, on a row that may have been deleted meanwhile.
<1>2. ASSUME NEW t, NEW y, row' = [row EXCEPT ![t] = y],
             t \in Upload => Statement(row[t], y)
      PROVE  Goal
  BY <1>2 DEF TypeOK, Statement
<1> HIDE DEF Goal
<1>3. ASSUME NEW u \in Upload, UploadStep(u) PROVE Goal
  <2>1. CASE InsertRow(u) /\ ~Duplicate(content[u])
    BY <2>1 DEF InsertRow, Inserted, Goal
  <2>2. CASE ~InsertRow(u) \/ Duplicate(content[u])
    BY <1>1, <1>3, <2>2
       DEF UploadStep, UploadDuplicate, UploadNew, StoreBlob, StoreFails, InsertRow
  <2> QED
    BY <2>1, <2>2
<1>4. ASSUME NEW r \in Reprocess, ReprocessStep(r) PROVE Goal
  <2>1. CASE Requeue(r) /\ Present(row[target[r]])
    <3> DEFINE t == target[r]
               y == AddEvent(ResetToPending(row[t], seen[r]), "reprocess_requested")
    <3>1. seen[r] \in Row
      BY DEF TypeOK
    <3>2. Statement(row[t], y)
      BY <2>1, <3>1 DEF Statement
    <3>3. row' = [row EXCEPT ![t] = y]
      BY <2>1 DEF Requeue
    <3> QED
      BY <1>2, <3>2, <3>3
  <2>2. CASE ~Requeue(r) \/ ~Present(row[target[r]])
    BY <1>1, <1>4, <2>2 DEF ReprocessStep, LoadForReprocess, RejectReprocess, Requeue
  <2> QED
    BY <2>1, <2>2
<1>5. ASSUME NEW x \in Delete, DeleteStep(x) PROVE Goal
  <2>1. CASE CommitDelete(x)
    BY <1>2, <2>1 DEF CommitDelete, Statement
  <2>2. CASE ~CommitDelete(x)
    BY <1>1, <1>5, <2>2 DEF DeleteStep, LoadForDelete, DeleteBlob, DeleteBlobFails
  <2> QED
    BY <2>1, <2>2
<1>6. ASSUME NEW r \in Run, RunStep(r) PROVE Goal
  <2> DEFINE t == target[r]
  <2>1. CASE ClaimWon(r)
    <3> DEFINE y == AddEvent(ClaimForProcessing(row[t], r), "processing_started")
    <3>1. Statement(row[t], y) /\ row' = [row EXCEPT ![t] = y]
      BY <2>1 DEF ClaimWon, Statement
    <3> QED
      BY <1>2, <3>1
  <2>2. CASE Persist(r) /\ Present(row[t])
    <3> DEFINE y == AddEvent(MarkCompleted(UpsertExtraction(row[t], r)), "processing_completed")
    <3>1. Statement(row[t], y) /\ row' = [row EXCEPT ![t] = y]
      BY <2>2 DEF Persist, Statement
    <3> QED
      BY <1>2, <3>1
  <2>3. CASE RecordFailure(r) /\ Present(row[t])
    <3> DEFINE y == AddEvent(MarkFailed(row[t], code[r]), "processing_failed")
    <3>1. code[r] \in Code
      BY <2>3 DEF RecordFailure, FailureHasCode, TypeOK
    <3>2. Statement(row[t], y) /\ row' = [row EXCEPT ![t] = y]
      BY <2>3, <3>1 DEF RecordFailure, Statement
    <3> QED
      BY <1>2, <3>2
  <2>4. CASE Persist(r) /\ ~Present(row[t])
    BY <1>1, <2>4 DEF Persist
  <2>5. CASE RecordFailure(r) /\ ~Present(row[t])
    BY <1>1, <2>5 DEF RecordFailure
  <2>6. CASE Submit(r) \/ Acquire(r) \/ ClaimLost(r) \/ StageDone(r) \/ StageFails(r)
                \/ FetchFails(r) \/ Timeout(r) \/ Tick(r)
    BY <1>1, <2>6 DEF Submit, Acquire, ClaimLost, StageDone, StageFails, FetchFails,
                      Timeout, Tick
  <2> QED
    BY <1>6, <2>1, <2>2, <2>3, <2>4, <2>5, <2>6 DEF RunStep
<1>7. ASSUME NEW r \in Request, TransactionFails(r) PROVE Goal
  BY <1>1, <1>7 DEF TransactionFails
<1>8. ASSUME NEW p \in Replica, ReplicaStep(p) PROVE Goal
  <2>1. CASE SweepWrite(p) /\ \A d \in stuck[p] : Present(row[d])
    <3>1. \A d \in Upload : Present(row[d]) => Statement(row[d], Interrupt(row[d]))
      BY DEF Statement, Interrupt, Code
    <3>2. \A d \in Upload : Statement(row[d], row'[d])
      BY <2>1, <3>1 DEF SweepWrite, Statement
    <3> QED
      BY <3>2 DEF Goal
  <2>2. CASE SweepWrite(p) /\ ~\A d \in stuck[p] : Present(row[d])
    BY <1>1, <2>2 DEF SweepWrite
  <2>3. CASE Crash(p) \/ BeginDrain(p) \/ FinishDrain(p) \/ Start(p) \/ SweepRead(p)
                \/ HousekeepingFails(p)
    BY <1>1, <2>3 DEF Crash, BeginDrain, FinishDrain, Start, SweepRead, HousekeepingFails
  <2> QED
    BY <1>8, <2>1, <2>2, <2>3 DEF ReplicaStep
<1>9. CASE UNCHANGED vars
  BY <1>1, <1>9 DEF vars, Goal
<1> QED
  BY <1>3, <1>4, <1>5, <1>6, <1>7, <1>8, <1>9 DEF Next, Goal

\* A row as the table's own invariants describe it; ColumnsOK is what
\* EveryRunWasRequested, TrailExplainsStatus, SweepSeesProcessing and
\* SettledRowIsReadable say of one row.
ColumnsOK(x) ==
    /\ x.attempts = x.starts
    /\ x.starts + (IF x.status = "PENDING" THEN 1 ELSE 0) <= 1 + x.requests
    /\ Present(x) => x.status = Explains[x.last]
    /\ x.status = "PROCESSING" => x.started # None
    /\ x.status = "COMPLETED" => x.extraction # None /\ x.error = None
    /\ x.status = "FAILED" => x.error # None

LEMMA InsertKeepsColumns ==
    ASSUME NEW c \in Content \cup {None} PROVE ColumnsOK(AddEvent(Create(c), "uploaded"))
<1> DEFINE x == Create(c)
           y == AddEvent(x, "uploaded")
<1>1. x \in Row /\ x.status = "PENDING" /\ x.attempts = 0 /\ x.starts = 0 /\ x.requests = 0
  BY CreateType, CreateColumns
<1> HIDE DEF x
<1>2. y.status = "PENDING" /\ y.attempts = 0 /\ y.starts = 0 /\ y.requests = 0
         /\ y.last = "uploaded"
  BY <1>1, AddEventColumns DEF Event
<1> QED
  BY <1>2 DEF ColumnsOK, Present, Explains, x

LEMMA StatementKeepsColumns ==
    ASSUME NEW x \in Row, NEW y, ColumnsOK(x), Statement(x, y) PROVE ColumnsOK(y)
<1> USE DEF Present
<1>1. CASE y = x
  BY <1>1
<1>2. CASE y = NoRow
  BY <1>2 DEF ColumnsOK, NoRow
<1>3. ASSUME NEW s \in Row, Present(x),
             y = AddEvent(ResetToPending(x, s), "reprocess_requested")
      PROVE  ColumnsOK(y)
  <2> DEFINE z == ResetToPending(x, s)
  <2>1. z \in Row /\ z.status = "PENDING" /\ z.attempts = x.attempts
           /\ z.starts = x.starts /\ z.requests = x.requests
    BY ResetType, ResetColumns
  <2> HIDE DEF z
  <2>2. y.status = "PENDING" /\ y.attempts = x.attempts /\ y.last = "reprocess_requested"
           /\ y.starts = x.starts + 0 /\ y.requests = x.requests + 1
    BY <1>3, <2>1, AddEventColumns DEF Event, z
  <2>3. x.starts \in Nat /\ x.requests \in Nat /\ x.starts <= 1 + x.requests
    BY DEF ColumnsOK, Row
  <2> QED
    BY <2>2, <2>3 DEF ColumnsOK, Explains
<1>4. ASSUME Claimable(x), NEW r \in Run,
             y = AddEvent(ClaimForProcessing(x, r), "processing_started")
      PROVE  ColumnsOK(y)
  <2> DEFINE z == ClaimForProcessing(x, r)
  <2>1. z \in Row /\ z.status = "PROCESSING" /\ z.attempts = x.attempts + 1
           /\ z.started = r /\ z.starts = x.starts /\ z.requests = x.requests
    BY ClaimType, ClaimColumns
  <2> HIDE DEF z
  <2>2. y.status = "PROCESSING" /\ y.attempts = x.attempts + 1 /\ y.started = r
           /\ y.last = "processing_started"
           /\ y.starts = x.starts + 1 /\ y.requests = x.requests + 0
    BY <1>4, <2>1, AddEventColumns DEF Event, z
  <2>3. x.starts \in Nat /\ x.requests \in Nat /\ x.starts + 1 <= 1 + x.requests
           /\ x.attempts = x.starts
    BY <1>4 DEF ColumnsOK, Row, Claimable
  <2> QED
    BY <2>2, <2>3, NoneIsNull DEF ColumnsOK, Explains
<1>5. ASSUME NEW r \in Run, Present(x),
             y = AddEvent(MarkCompleted(UpsertExtraction(x, r)), "processing_completed")
      PROVE  ColumnsOK(y)
  <2> DEFINE z == MarkCompleted(UpsertExtraction(x, r))
  <2>1. z \in Row /\ z.status = "COMPLETED" /\ z.error = None /\ z.extraction = r
           /\ z.attempts = x.attempts /\ z.starts = x.starts /\ z.requests = x.requests
    BY UpsertType, MarkCompletedType, CompleteColumns
  <2> HIDE DEF z
  <2>2. y.status = "COMPLETED" /\ y.error = None /\ y.extraction = r
           /\ y.attempts = x.attempts /\ y.last = "processing_completed"
           /\ y.starts = x.starts + 0 /\ y.requests = x.requests + 0
    BY <1>5, <2>1, AddEventColumns DEF Event, z
  <2>3. x.starts \in Nat /\ x.requests \in Nat /\ x.starts <= 1 + x.requests
    BY DEF ColumnsOK, Row
  <2> QED
    BY <2>2, <2>3, NoneIsNull DEF ColumnsOK, Explains
<1>6. ASSUME NEW c \in Code, NEW e \in {"processing_failed", "processing_interrupted"},
             Present(x), y = AddEvent(MarkFailed(x, c), e)
      PROVE  ColumnsOK(y)
  <2> DEFINE z == MarkFailed(x, c)
  <2>1. z \in Row /\ z.status = "FAILED" /\ z.error = c
           /\ z.attempts = x.attempts /\ z.starts = x.starts /\ z.requests = x.requests
    BY MarkFailedType, FailColumns
  <2> HIDE DEF z
  <2>2. y.status = "FAILED" /\ y.error = c
           /\ y.attempts = x.attempts /\ y.last = e
           /\ y.starts = x.starts + 0 /\ y.requests = x.requests + 0
    BY <1>6, <2>1, AddEventColumns DEF Event, z
  <2>3. x.starts \in Nat /\ x.requests \in Nat /\ x.starts <= 1 + x.requests
    BY DEF ColumnsOK, Row
  <2>4. c # None
    BY DEF Code, None
  <2> QED
    BY <2>2, <2>3, <2>4 DEF ColumnsOK, Explains
<1> QED
  BY <1>1, <1>2, <1>3, <1>4, <1>5, <1>6 DEF Statement

\* The inductive invariant of the table.
TableInv == TypeOK /\ FailureHasCode /\ \A d \in Upload : ColumnsOK(row[d])

LEMMA TableInvInductive == Spec => []TableInv
<1>1. Init => TableInv
  <2>1. ColumnsOK(NoRow)
    BY DEF ColumnsOK, NoRow, Present
  <2> QED
    BY <2>1, TypeInit, FailureHasCodeInit DEF Init, TableInv
<1>2. TableInv /\ [Next]_vars => TableInv'
  <2> SUFFICES ASSUME TableInv, [Next]_vars PROVE \A d \in Upload : ColumnsOK(row'[d])
    BY TypeNext, FailureHasCodeNext DEF TableInv
  <2>1. ASSUME NEW u \in Upload, Inserted(u) PROVE \A d \in Upload : ColumnsOK(row'[d])
    <3>1. row' = [row EXCEPT ![u] = AddEvent(Create(content[u]), "uploaded")]
      BY <2>1 DEF Inserted
    <3>2. ColumnsOK(AddEvent(Create(content[u]), "uploaded"))
      BY InsertKeepsColumns DEF TableInv, TypeOK
    <3> QED
      BY <3>1, <3>2 DEF TableInv, TypeOK
  <2>2. CASE \A d \in Upload : Statement(row[d], row'[d])
    BY <2>2, StatementKeepsColumns DEF TableInv, TypeOK
  <2> QED
    BY <2>1, <2>2, RowChanges DEF TableInv
<1> QED
  BY <1>1, <1>2, PTL DEF Spec

\* Billing: however requests, retries, crashes and sweeps interleave, a document
\* is run at most once for its upload and once for each accepted reprocess, and
\* attempt_count counts the runs (claim_for_processing, reset_to_pending).
THEOREM RunsAreRequested == Spec => []EveryRunWasRequested
<1>1. TableInv => EveryRunWasRequested
  BY DEF TableInv, ColumnsOK, EveryRunWasRequested
<1> QED
  BY <1>1, TableInvInductive, PTL

\* The audit trail never disagrees with the row (add_event is in the transaction
\* of the status change it reports).
THEOREM TrailIsRight == Spec => []TrailExplainsStatus
<1>1. TableInv => TrailExplainsStatus
  BY DEF TableInv, ColumnsOK, TrailExplainsStatus
<1> QED
  BY <1>1, TableInvInductive, PTL

\* No PROCESSING row is without the processing_started_at that the startup sweep
\* selects by, even when reprocess requests race a running pipeline.
THEOREM SweepMissesNone == Spec => []SweepSeesProcessing
<1>1. TableInv => SweepSeesProcessing
  BY DEF TableInv, ColumnsOK, SweepSeesProcessing
<1> QED
  BY <1>1, TableInvInductive, PTL

\* A COMPLETED document has an extraction and no error, a FAILED one an error:
\* _fail never records a run without its code, and _persist writes the extraction
\* in the transaction that completes the document.
THEOREM SettledIsReadable == Spec => []SettledRowIsReadable
<1>1. TableInv => SettledRowIsReadable
  BY DEF TableInv, ColumnsOK, SettledRowIsReadable
<1> QED
  BY <1>1, TableInvInductive, PTL

-----------------------------------------------------------------------------
(* Deduplication. *)

LEMMA StatementKeepsContent ==
    ASSUME NEW x \in Row, NEW y, Statement(x, y), Present(y)
    PROVE  Present(x) /\ y.content = x.content
<1> USE DEF Present
<1>1. CASE y = x
  BY <1>1
<1>2. CASE y = NoRow
  BY <1>2 DEF NoRow
<1>3. ASSUME NEW s \in Row, y = AddEvent(ResetToPending(x, s), "reprocess_requested")
      PROVE  y.content = x.content
  <2>1. ResetToPending(x, s) \in Row /\ ResetToPending(x, s).content = x.content
    BY ResetType, ResetColumns
  <2> QED
    BY <1>3, <2>1, AddEventContent DEF Event
<1>4. ASSUME NEW r \in Run, y = AddEvent(ClaimForProcessing(x, r), "processing_started")
      PROVE  y.content = x.content
  <2>1. ClaimForProcessing(x, r) \in Row /\ ClaimForProcessing(x, r).content = x.content
    BY ClaimType, ClaimColumns
  <2> QED
    BY <1>4, <2>1, AddEventContent DEF Event
<1>5. ASSUME NEW r \in Run,
             y = AddEvent(MarkCompleted(UpsertExtraction(x, r)), "processing_completed")
      PROVE  y.content = x.content
  <2> DEFINE z == MarkCompleted(UpsertExtraction(x, r))
  <2>1. z \in Row /\ z.content = x.content
    BY UpsertType, MarkCompletedType, CompleteColumns
  <2> QED
    BY <1>5, <2>1, AddEventContent DEF Event
<1>6. ASSUME NEW c \in Code, NEW e \in {"processing_failed", "processing_interrupted"},
             y = AddEvent(MarkFailed(x, c), e)
      PROVE  y.content = x.content
  <2>1. MarkFailed(x, c) \in Row /\ MarkFailed(x, c).content = x.content
    BY MarkFailedType, FailColumns
  <2> QED
    BY <1>6, <2>1, AddEventContent DEF Event
<1> QED
  BY <1>1, <1>2, <1>3, <1>4, <1>5, <1>6 DEF Statement, Claimable

\* No two documents ever hold the same bytes of the same owner: get_by_checksum
\* alone would let two uploads race, the unique constraint does not.
THEOREM Deduplicated == Spec => []OneRowPerContent
<1> DEFINE Inv == TableInv /\ OneRowPerContent
<1>1. Init => OneRowPerContent
  BY DEF Init, OneRowPerContent, NoRow, Present
<1>2. TableInv /\ OneRowPerContent /\ [Next]_vars => OneRowPerContent'
  <2> SUFFICES ASSUME TableInv, OneRowPerContent, [Next]_vars PROVE OneRowPerContent'
    OBVIOUS
  <2>1. ASSUME NEW u \in Upload, Inserted(u) PROVE OneRowPerContent'
    <3> DEFINE y == AddEvent(Create(content[u]), "uploaded")
    <3>1. Create(content[u]) \in Row /\ Create(content[u]).content = content[u]
      BY CreateType, CreateColumns DEF TableInv, TypeOK
    <3>2. y.content = content[u]
      BY <3>1, AddEventContent DEF Event
    <3>3. row' = [row EXCEPT ![u] = y] /\ ~Duplicate(content[u])
      BY <2>1 DEF Inserted
    <3> HIDE DEF y
    <3> QED
      BY <3>2, <3>3 DEF OneRowPerContent, Duplicate, TableInv, TypeOK
  <2>2. CASE \A d \in Upload : Statement(row[d], row'[d])
    <3>1. \A d \in Upload : Present(row'[d]) =>
             Present(row[d]) /\ row'[d].content = row[d].content
      BY <2>2, StatementKeepsContent DEF TableInv, TypeOK
    <3> QED
      BY <3>1 DEF OneRowPerContent
  <2> QED
    BY <2>1, <2>2, RowChanges DEF TableInv
<1> QED
  BY <1>1, <1>2, TableInvInductive, PTL DEF Spec
=============================================================================
