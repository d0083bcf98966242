---------------------------- MODULE DocumentRow ----------------------------
(***************************************************************************)
(* A row of the `documents` table and the statements the repository layer  *)
(* (app/repositories/document.py) executes against it, each as a function  *)
(* from the row before to the row after.  The extraction row and the event *)
(* trail belong to the document (both cascade with it), so they are fields *)
(* of the same record.                                                     *)
(*                                                                         *)
(* Abstractions.  A document's bytes are its `content`: the (owner,        *)
(* checksum) pair of the unique constraint.  The instant stored in         *)
(* processing_started_at and the text stored in document_extractions are   *)
(* identified by the pipeline run that wrote them.  Of the event trail we  *)
(* keep the last event and how often a run was requested and started.      *)
(* document_type and page_count are copied out of the extraction by the    *)
(* same transaction and are not separate fields.                           *)
(*                                                                         *)
(* An operator Name_Variant is Name with a plausible mistake; no action    *)
(* uses it.  The README says which property each of them breaks.           *)
(***************************************************************************)
EXTENDS Naturals

CONSTANTS
    Content,    \* (owner, checksum) pairs that clients upload
    Upload,     \* POST /documents requests
    Reprocess   \* POST /documents/{id}/reprocess requests

\* A pipeline run is named after the request that submits it, and a document
\* (its id and its storage key) after the upload that creates it.
Run == Upload \cup Reprocess

None == "none"  \* SQL NULL

ASSUME NoneIsNull == None \notin Content /\ None \notin Run

Status   == {"PENDING", "PROCESSING", "COMPLETED", "FAILED"}
Terminal == {"COMPLETED", "FAILED"}

Code  == {"processing_timeout", "app_error", "worker_interrupted"}
Event == {"uploaded", "reprocess_requested", "processing_started",
          "processing_completed", "processing_failed", "processing_interrupted"}

Row == [ status     : Status \cup {"absent"},
         content    : Content \cup {None},
         attempts   : Nat,                  \* attempt_count
         started    : Run \cup {None},      \* processing_started_at
         finished   : BOOLEAN,              \* processing_finished_at is set
         error      : Code \cup {None},
         extraction : Run \cup {None},
         last       : Event \cup {None},
         starts     : Nat,                  \* processing_started events
         requests   : Nat ]                 \* reprocess_requested events

\* The row does not exist: not inserted yet, or deleted.
NoRow == [ status |-> "absent", content |-> None, attempts |-> 0,
           started |-> None, finished |-> FALSE, error |-> None,
           extraction |-> None, last |-> None, starts |-> 0, requests |-> 0 ]

Present(x) == x.status # "absent"

AddEvent(x, e) ==
    [x EXCEPT !.last     = e,
              !.starts   = @ + (IF e = "processing_started"  THEN 1 ELSE 0),
              !.requests = @ + (IF e = "reprocess_requested" THEN 1 ELSE 0)]

Create(c) == [NoRow EXCEPT !.status = "PENDING", !.content = c]

\* UPDATE ... WHERE id = ? AND status = 'pending': the claim is won exactly
\* when the statement matches the row.
Claimable(x) == x.status = "PENDING"

ClaimForProcessing_Unstamped(x, r) ==
    [x EXCEPT !.status = "PROCESSING", !.finished = FALSE,
              !.attempts = @ + 1, !.error = None]

ClaimForProcessing(x, r) ==
    [x EXCEPT !.status = "PROCESSING", !.started = r, !.finished = FALSE,
              !.attempts = @ + 1, !.error = None]

MarkCompleted_KeepsError(x) ==
    [x EXCEPT !.status = "COMPLETED", !.finished = TRUE]

\* mark_completed and mark_failed: UPDATE ... WHERE id = ?, whatever the status.
MarkCompleted(x) ==
    [x EXCEPT !.status = "COMPLETED", !.finished = TRUE, !.error = None]

MarkFailed(x, c) ==
    [x EXCEPT !.status = "FAILED", !.finished = TRUE, !.error = c]

UpsertExtraction_FirstWins(x, r) ==
    [x EXCEPT !.extraction = IF @ = None THEN r ELSE @]

UpsertExtraction(x, r) == [x EXCEPT !.extraction = r]

\* POST .../reprocess refuses a document that is queued or in progress.
Requeueable_Processing(x) == x.status \in Terminal \cup {"PROCESSING"}

Requeueable(x) == x.status \in Terminal

ResetToPending_KeepsFinished(x, seen) ==
    [x EXCEPT !.status  = "PENDING",
              !.error   = IF seen.error   # None THEN None  ELSE @,
              !.started = IF seen.started # None THEN None  ELSE @]

\* The unit of work writes the columns that differ from what was loaded: a
\* column that was already NULL in the loaded instance `seen` is not written.
ResetToPending(x, seen) ==
    [x EXCEPT !.status   = "PENDING",
              !.error    = IF seen.error   # None THEN None  ELSE @,
              !.started  = IF seen.started # None THEN None  ELSE @,
              !.finished = IF seen.finished       THEN FALSE ELSE @]

\* Rows the startup sweep selects: PROCESSING since longer than the timeout.
Stuck(x, due) ==
    x.status = "PROCESSING" /\ x.started # None /\ x.started \in due
=============================================================================
