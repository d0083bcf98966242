-------------------------- MODULE DocumentLifecycle --------------------------
(***************************************************************************)
(* What the service promises about a document, as app/models/document.py   *)
(* draws it: PENDING -> PROCESSING -> COMPLETED | FAILED -> PENDING, with  *)
(* one worker owning a document while it is PROCESSING, and that worker's  *)
(* result, and no other, being the one a COMPLETED document shows.         *)
(***************************************************************************)
CONSTANTS Document, Worker, Nobody

VARIABLES
    status,   \* "absent" or a member of DocumentStatus
    owner,    \* the worker of the current or last run
    result    \* the worker whose result is stored

lvars == <<status, owner, result>>

LInit ==
    /\ status = [d \in Document |-> "absent"]
    /\ owner  = [d \in Document |-> Nobody]
    /\ result = [d \in Document |-> Nobody]

Create(d) ==
    /\ status[d] = "absent"
    /\ status' = [status EXCEPT ![d] = "PENDING"]
    /\ UNCHANGED <<owner, result>>

Claim(d, w) ==
    /\ status[d] = "PENDING"
    /\ status' = [status EXCEPT ![d] = "PROCESSING"]
    /\ owner'  = [owner EXCEPT ![d] = w]
    /\ UNCHANGED result

Complete(d) ==
    /\ status[d] = "PROCESSING"
    /\ status' = [status EXCEPT ![d] = "COMPLETED"]
    /\ result' = [result EXCEPT ![d] = owner[d]]
    /\ UNCHANGED owner

\* Documents fail one by one, or all that a sweep reclaims together.
Fail(D) ==
    /\ \A d \in D : status[d] = "PROCESSING"
    /\ status' = [d \in Document |-> IF d \in D THEN "FAILED" ELSE status[d]]
    /\ UNCHANGED <<owner, result>>

Retry(d) ==
    /\ status[d] \in {"COMPLETED", "FAILED"}
    /\ status' = [status EXCEPT ![d] = "PENDING"]
    /\ owner'  = [owner EXCEPT ![d] = Nobody]
    /\ UNCHANGED result

Remove(d) ==
    /\ status' = [status EXCEPT ![d] = "absent"]
    /\ owner'  = [owner EXCEPT ![d] = Nobody]
    /\ result' = [result EXCEPT ![d] = Nobody]

LNext ==
    \/ \E d \in Document :
          \/ Create(d) \/ Complete(d) \/ Retry(d) \/ Remove(d)
          \/ \E w \in Worker : Claim(d, w)
    \/ \E D \in SUBSET Document : Fail(D)

LSpec == LInit /\ [][LNext]_lvars
=============================================================================
