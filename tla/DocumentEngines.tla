-------------------------- MODULE DocumentEngines --------------------------
(***************************************************************************)
(* What happens to a document between its claim and its result: the choice *)
(* of engines, the OCR job with its staged file, the call of the analyser  *)
(* and its fallback (app/services/document_processor.py,                   *)
(* app/services/ai/textract.py, claude_analyzer.py, openai_analyzer.py),   *)
(* and the administrator's selection that steers it                        *)
(* (app/services/settings_service.py, api/v1/endpoints/admin_settings.py). *)
(*                                                                         *)
(* DocumentPipeline has the claims and the rows; here a document is        *)
(* claimed once, and its stages are taken apart.  Time is counted in ticks *)
(* from the claim.  A tick does not pass while a timeout is due: the event *)
(* loop is not blocked.  ai stands for AIProviderError in error codes.     *)
(***************************************************************************)
EXTENDS EngineRegistry, Integers

CONSTANTS
    Document, Replica, Admin,
    Fleet,          \* the ways replicas may be configured, alike or during a rollout
    Choice,         \* what administrators choose from; None clears the selection
    MaxPuts,        \* bound: selections they make
    Patience,       \* PROCESSING_TIMEOUT_SECONDS, in ticks
    MaxFaults       \* bound: crashes of a replica, cleanups that fail

\* Error codes.  The first three are AIProviderError and its subclasses.
ProviderError == {"ai_provider_error", "ai_provider_unavailable", "ai_auth_failed"}
Code == ProviderError \cup
    {"extraction_failed", "rate_limited", "internal_error", "processing_timeout", "gave_up"}

ASSUME EngineConstants ==
    /\ Fleet \subseteq [Replica -> Config]
    /\ Choice \subseteq Policy \cup {None}
    /\ MaxPuts \in Nat /\ Patience \in Nat \ {0} /\ MaxFaults \in Nat
    /\ None \notin Policy \cup Admin \cup Replica \cup Code

VARIABLES
    config,     \* what each replica is configured with
    setting,    \* the analysis_provider row of app_settings
    put,        \* each administrator's PUT /settings/ai
    puts,
    pc,         \* where each document's pipeline stands
    job,        \* its locals
    elapsed,    \* ticks since the claim
    uploads,    \* put_object calls in flight, each in a worker thread
    staged,     \* objects in the staging bucket
    orphaned,   \* history: objects whose cleanup a crash, a fault or a timeout prevented
    faults

settingVars == <<setting, put, puts>>
stagingVars == <<uploads, staged, orphaned>>
vars == <<config, settingVars, pc, job, elapsed, stagingVars, faults>>

\* author and torn are history: who made the last selection, and whether another
\* one was committed between its load and its write.
Selection == [value : Policy \cup {None}, by : Admin \cup {None},
              author : Admin \cup {None}, torn : BOOLEAN]
NoSetting == [value |-> None, by |-> None, author |-> None, torn |-> FALSE]

\* insert: the row did not exist; value and by are written where the flags say so.
Put   == [busy : BOOLEAN, insert : BOOLEAN, value : Policy \cup {None}, newValue : BOOLEAN,
          newBy : BOOLEAN, torn : BOOLEAN]
NoPut == [busy |-> FALSE, insert |-> FALSE, value |-> None, newValue |-> FALSE,
          newBy |-> FALSE, torn |-> FALSE]

\* asked: the selection as snapshotted by the claim; engine: the primary analyser;
\* since: when polling began; outcome: what the OCR job ends with, or the error;
\* provider, warned: the result.
Asked == [value : Policy \cup {None}, torn : BOOLEAN]
Job == [host : Replica \cup {None}, asked : Asked, type : FileType,
        since : Nat, engine : Engine \cup {None}, outcome : Code \cup {"text", None},
        provider : Engine \cup {None}, warned : BOOLEAN]
NoJob == [host |-> None, asked |-> [value |-> None, torn |-> FALSE],
          type |-> "other", since |-> 0, engine |-> None,
          outcome |-> None, provider |-> None, warned |-> FALSE]

Staging == {"uploading", "starting", "polling", "paging", "cleaning"}
Stage   == {"extracting", "reading", "analysing", "calling", "falling_back"} \cup Staging
Ended   == {"completed", "failed", "lost"}
Timed   == Stage \ {"cleaning"}

TypeOK ==
    /\ config \in [Replica -> Config]
    /\ setting \in Selection /\ put \in [Admin -> Put] /\ puts \in 0 .. MaxPuts
    /\ pc \in [Document -> Stage \cup Ended \cup {"pending"}]
    /\ job \in [Document -> Job] /\ \A d \in Document : job[d].since <= Patience + 1
    /\ elapsed \in [Document -> 0 .. Patience + 1]
    /\ uploads \subseteq Document /\ staged \subseteq Document /\ orphaned \subseteq Document
    /\ faults \in 0 .. MaxFaults

Init ==
    /\ config \in Fleet
    /\ setting = NoSetting /\ put = [a \in Admin |-> NoPut] /\ puts = 0
    /\ pc = [d \in Document |-> "pending"] /\ job = [d \in Document |-> NoJob]
    /\ elapsed = [d \in Document |-> 0]
    /\ uploads = {} /\ staged = {} /\ orphaned = {} /\ faults = 0

-----------------------------------------------------------------------------
Goto(d, at)   == pc' = [pc EXCEPT ![d] = at]
Settle(d, code) ==
    /\ Goto(d, "failed")
    /\ job' = [job EXCEPT ![d].outcome = code, ![d].since = 0]
Fault == faults < MaxFaults /\ faults' = faults + 1

------------------------------------------------------------- (* the selection *)
\* update_ai_settings validates against the configuration of the replica that
\* serves it, then loads the row.  Of the two columns the ORM will write those that
\* differ from the row as loaded.  (Bounds: MaxPuts, and none when all is over.)
LoadSetting_ByOnce(a, p, v) ==
    /\ ~put[a].busy
    /\ puts < MaxPuts /\ puts' = puts + 1
    /\ \E d \in Document : pc[d] \notin Ended
    /\ v # None => v \in Offered(config[p])
    /\ put' = [put EXCEPT ![a] =
           [NoPut EXCEPT !.busy = TRUE, !.value = v, !.insert = (setting = NoSetting),
                !.newValue = (setting.value # v), !.newBy = (setting.by = None)]]
    /\ UNCHANGED <<config, setting, pc, job, elapsed, stagingVars, faults>>

LoadSetting(a, p, v) ==
    /\ ~put[a].busy
    /\ puts < MaxPuts /\ puts' = puts + 1
    /\ \E d \in Document : pc[d] \notin Ended
    /\ v # None => v \in Offered(config[p])
    /\ put' = [put EXCEPT ![a] =
           [NoPut EXCEPT !.busy = TRUE, !.value = v, !.insert = (setting = NoSetting),
                !.newValue = (setting.value # v), !.newBy = (setting.by # a)]]
    /\ UNCHANGED <<config, setting, pc, job, elapsed, stagingVars, faults>>

\* Two first selections both insert: the second violates the primary key (500).
CommitSetting(a) ==
    LET w == put[a] IN
    /\ w.busy
    /\ IF w.insert /\ setting # NoSetting
       THEN setting' = setting /\ put' = [put EXCEPT ![a] = NoPut]
       ELSE /\ setting' = [value  |-> IF w.newValue THEN w.value ELSE setting.value,
                           by     |-> IF w.newBy THEN a ELSE setting.by,
                           author |-> a, torn |-> w.torn]
            /\ put' = [b \in Admin |-> IF b = a THEN NoPut
                                       ELSE [put[b] EXCEPT !.torn = put[b].busy]]
    /\ UNCHANGED <<config, puts, pc, job, elapsed, stagingVars, faults>>

--------------------------------------------------------------- (* extraction *)
\* _claim snapshots the selection into the job.
Claim(d, p, type) ==
    /\ pc[d] = "pending"
    /\ Goto(d, "extracting")
    /\ job' = [job EXCEPT ![d] = [NoJob EXCEPT !.host = p, !.type = type,
           !.asked = [value |-> setting.value, torn |-> setting.torn]]]
    /\ UNCHANGED <<config, settingVars, elapsed, stagingVars, faults>>

ReaderOf(d) == TextExtractor(config[job[d].host], job[d].type)
NeedsAsync(d) == job[d].type = "large_pdf"

\* Whether some engine is there for the file, and for Textract a way to hand it over.
Refused(d) ==
    \/ ReaderOf(d) \notin Reader
    \/ ReaderOf(d) = "textract" /\ job[d].type \notin Supports["textract"]
    \/ ReaderOf(d) = "textract" /\ NeedsAsync(d) /\ ~config[job[d].host].bucket

RefuseFile(d) ==
    /\ pc[d] = "extracting" /\ Refused(d)
    /\ Settle(d, IF ReaderOf(d) \in Code THEN ReaderOf(d) ELSE "extraction_failed")
    /\ UNCHANGED <<config, settingVars, elapsed, stagingVars, faults>>

BeginReading(d) ==
    /\ pc[d] = "extracting" /\ ~Refused(d)
    /\ ReaderOf(d) = "local" \/ ~NeedsAsync(d)
    /\ Goto(d, "reading")
    /\ UNCHANGED <<config, settingVars, job, elapsed, stagingVars, faults>>

\* The local reader, or one synchronous Textract call on the bytes.
ReadText(d) ==
    /\ pc[d] = "reading"
    /\ Goto(d, "analysing")
    /\ UNCHANGED <<config, settingVars, job, elapsed, stagingVars, faults>>

\* Unparseable, encrypted or without text; or what _translate_error makes of AWS.
ReadFails(d) ==
    /\ pc[d] = "reading"
    /\ \E code \in {"extraction_failed"} \cup
            (IF ReaderOf(d) = "textract" THEN {"ai_provider_error"} ELSE {"internal_error"}) :
          Settle(d, code)
    /\ UNCHANGED <<config, settingVars, elapsed, stagingVars, faults>>

------------------------------------------------------------ (* the OCR job *)
BeginUpload(d) ==
    /\ pc[d] = "extracting" /\ ~Refused(d)
    /\ ReaderOf(d) = "textract" /\ NeedsAsync(d)
    /\ Goto(d, "uploading")
    /\ uploads' = uploads \cup {d}
    /\ UNCHANGED <<config, settingVars, job, elapsed, staged, orphaned, faults>>

\* The thread ends; nobody may be waiting for it any more.
UploadDone(d) ==
    /\ d \in uploads
    /\ uploads' = uploads \ {d}
    /\ staged' = staged \cup {d}
    /\ pc' = IF pc[d] = "uploading" THEN [pc EXCEPT ![d] = "starting"] ELSE pc
    /\ UNCHANGED <<config, settingVars, job, elapsed, orphaned, faults>>

\* except Exception translates whatever _upload, _start and _collect_job raise,
\* the ExtractionErrors of the latter included; finally cleans up.
EndOcr(d, outcome) ==
    /\ Goto(d, "cleaning")
    /\ job' = [job EXCEPT ![d].outcome = outcome, ![d].since = 0]

UploadFails(d) ==
    /\ d \in uploads /\ pc[d] = "uploading"
    /\ uploads' = uploads \ {d}
    /\ EndOcr(d, "ai_provider_error")
    /\ UNCHANGED <<config, settingVars, elapsed, staged, orphaned, faults>>

StartJob(d) ==
    /\ pc[d] = "starting"
    /\ Goto(d, "polling")
    /\ job' = [job EXCEPT ![d].since = elapsed[d]]
    /\ UNCHANGED <<config, settingVars, elapsed, stagingVars, faults>>

DeadlinePassed_Half(d) == elapsed[d] - job[d].since > Patience \div 2

\* time.monotonic() > deadline
DeadlinePassed(d) == elapsed[d] - job[d].since > Patience

\* SUCCEEDED or PARTIAL_SUCCESS; IN_PROGRESS changes nothing.
JobSucceeds(d) ==
    /\ pc[d] = "polling"
    /\ Goto(d, "paging")
    /\ UNCHANGED <<config, settingVars, job, elapsed, stagingVars, faults>>

\* FAILED, a throttled or refused call, bytes Textract cannot read; or the job is
\* still in progress when the deadline of the poll itself has passed.
OcrFails(d) ==
    /\ pc[d] \in {"starting", "polling", "paging"}
    /\ \E code \in {"ai_provider_error", "extraction_failed"} \cup
            (IF pc[d] = "polling" /\ DeadlinePassed(d) THEN {"gave_up"} ELSE {}) : EndOcr(d, code)
    /\ UNCHANGED <<config, settingVars, elapsed, stagingVars, faults>>

\* The last page of results, or the deadline with what there is.
LastPage(d) ==
    /\ pc[d] = "paging"
    /\ EndOcr(d, "text")
    /\ UNCHANGED <<config, settingVars, elapsed, stagingVars, faults>>

AfterCleanup(d) ==
    IF job[d].outcome = "text" THEN Goto(d, "analysing") /\ job' = [job EXCEPT ![d].outcome = None]
    ELSE Settle(d, job[d].outcome)

Cleanup(d) ==
    /\ pc[d] = "cleaning"
    /\ staged' = staged \ {d}
    /\ orphaned' = IF d \in uploads THEN orphaned \cup {d} ELSE orphaned
    /\ AfterCleanup(d)
    /\ UNCHANGED <<config, settingVars, elapsed, uploads, faults>>

\* delete_object errors are logged and swallowed.
CleanupFails(d) ==
    /\ pc[d] = "cleaning"
    /\ Fault
    /\ orphaned' = orphaned \cup {d}
    /\ AfterCleanup(d)
    /\ UNCHANGED <<config, settingVars, elapsed, uploads, staged>>

----------------------------------------------------------------- (* analysis *)
AnalyzerOf_Current(d) == Analyzer(config[job[d].host], setting.value)

AnalyzerOf(d) == Analyzer(config[job[d].host], job[d].asked.value)

\* get_analyzer_with_fallback runs outside the try of _analyse.
NoAnalyzer(d) ==
    /\ pc[d] = "analysing" /\ AnalyzerOf(d) \notin Engine
    /\ Settle(d, AnalyzerOf(d))
    /\ UNCHANGED <<config, settingVars, elapsed, stagingVars, faults>>

CallAnalyzer_Unchecked(d) ==
    /\ pc[d] = "analysing"
    /\ Goto(d, "calling")
    /\ job' = [job EXCEPT ![d].engine = AnalyzerOf(d)]
    /\ UNCHANGED <<config, settingVars, elapsed, stagingVars, faults>>

CallAnalyzer(d) ==
    /\ pc[d] = "analysing" /\ AnalyzerOf(d) \in Engine
    /\ Goto(d, "calling")
    /\ job' = [job EXCEPT ![d].engine = AnalyzerOf(d)]
    /\ UNCHANGED <<config, settingVars, elapsed, stagingVars, faults>>

Complete(d, provider, warned) ==
    /\ Goto(d, "completed")
    /\ job' = [job EXCEPT ![d].provider = provider, ![d].warned = warned]

AnalysisSucceeds(d) ==
    /\ pc[d] = "calling"
    /\ Complete(d, job[d].engine, FALSE)
    /\ UNCHANGED <<config, settingVars, elapsed, stagingVars, faults>>

\* Refused key, unreachable, refusal, cut off, malformed, failed validation ...:
\* only AIProviderError engages the fallback.
ProviderFails(d) ==
    /\ pc[d] = "calling" /\ job[d].engine \in Llm
    /\ IF Fallback(config[job[d].host], job[d].asked.value) = None
       THEN \E code \in ProviderError : Settle(d, code)
       ELSE Goto(d, "falling_back") /\ UNCHANGED job
    /\ UNCHANGED <<config, settingVars, elapsed, stagingVars, faults>>

\* RateLimitedError is an AppError of its own; an unforeseen exception is neither.
QuotaExhausted(d) ==
    /\ pc[d] = "calling" /\ job[d].engine \in Llm
    /\ Settle(d, "rate_limited")
    /\ UNCHANGED <<config, settingVars, elapsed, stagingVars, faults>>

AnalyzerBreaks(d) ==
    /\ pc[d] \in {"calling", "falling_back"}
    /\ Settle(d, "internal_error")
    /\ UNCHANGED <<config, settingVars, elapsed, stagingVars, faults>>

FallBack(d) ==
    /\ pc[d] = "falling_back"
    /\ Complete(d, "heuristic", TRUE)
    /\ UNCHANGED <<config, settingVars, elapsed, stagingVars, faults>>

-------------------------------------------------------- (* time and failures *)
TimeoutDue_ReadingOnly(d) ==
    pc[d] \in Timed \ {"analysing", "calling", "falling_back"} /\ elapsed[d] >= Patience

TimeoutDue(d) == pc[d] \in Timed /\ elapsed[d] >= Patience

Timeout_Abrupt(d) ==
    /\ TimeoutDue(d)
    /\ Settle(d, "processing_timeout")
    /\ UNCHANGED <<config, settingVars, elapsed, stagingVars, faults>>

\* asyncio.timeout cancels the await; a thread it was waiting for goes on.  The
\* cleanup of the OCR job runs all the same, and is itself not cut short here.
Timeout(d) ==
    /\ TimeoutDue(d)
    /\ IF pc[d] \in Staging THEN EndOcr(d, "processing_timeout")
                            ELSE Settle(d, "processing_timeout")
    /\ UNCHANGED <<config, settingVars, elapsed, stagingVars, faults>>

Running == {d \in Document : pc[d] \in Stage}

Tick ==
    /\ Running # {}
    /\ \A d \in Document : ~TimeoutDue(d)
    /\ \A d \in Running : elapsed[d] <= Patience
    /\ elapsed' = [d \in Document |-> IF d \in Running THEN elapsed[d] + 1 ELSE elapsed[d]]
    /\ UNCHANGED <<config, settingVars, pc, job, stagingVars, faults>>

\* The pipelines of a replica end where they stand; S3 may still have received
\* what was being uploaded.
Crash(p) ==
    LET hit == {d \in Running : job[d].host = p} IN
    /\ hit # {} /\ Fault
    /\ pc' = [d \in Document |-> IF d \in hit THEN "lost" ELSE pc[d]]
    /\ orphaned' = orphaned \cup {d \in hit : pc[d] \in Staging}
    /\ UNCHANGED <<config, settingVars, job, elapsed, uploads, staged>>

-----------------------------------------------------------------------------
Work(d) ==
    \/ RefuseFile(d) \/ BeginReading(d) \/ ReadText(d) \/ ReadFails(d)
    \/ BeginUpload(d) \/ UploadFails(d) \/ StartJob(d) \/ JobSucceeds(d)
    \/ OcrFails(d) \/ LastPage(d) \/ Cleanup(d) \/ CleanupFails(d)
    \/ NoAnalyzer(d) \/ CallAnalyzer(d) \/ AnalysisSucceeds(d) \/ ProviderFails(d)
    \/ QuotaExhausted(d) \/ AnalyzerBreaks(d) \/ FallBack(d)

Next ==
    \/ \E a \in Admin :
          \/ CommitSetting(a)
          \/ \E p \in Replica, v \in Choice : LoadSetting(a, p, v)
    \/ \E d \in Document :
          \/ \E p \in Replica, type \in FileType : Claim(d, p, type)
          \/ Work(d) \/ UploadDone(d) \/ Timeout(d)
    \/ \E p \in Replica : Crash(p)
    \/ Tick

Spec == Init /\ [][Next]_vars

\* Time passes, timeouts fire, and a cleanup answers.  Nothing else is assumed of
\* the engines: an upload, a poll or a model call may take forever.
Fairness ==
    /\ WF_vars(Tick)
    /\ \A d \in Document : WF_vars(Timeout(d)) /\ WF_vars(Cleanup(d))
FairSpec == Spec /\ Fairness

-----------------------------------------------------------------------------
\* update_ai_settings: "a document already in the pipeline finishes on the engine
\* it started with" - the one its replica resolves the selection of the claim to,
\* whatever administrators choose meanwhile - or on the rule engine, with a
\* warning so that "a consumer can tell a rule-based analysis from a
\* model-generated one".
FinishesOnItsEngine ==
    \A d \in Document : pc[d] = "completed" =>
        LET chosen == Analyzer(config[job[d].host], job[d].asked.value) IN
        \/ job[d].provider = chosen /\ ~job[d].warned
        \/ job[d].provider = "heuristic" /\ job[d].warned /\ chosen \in Llm

\* _analyse: "A provider outage should degrade the quality of a result, not lose
\* the document" - whether the engine was chosen or found by auto.
OutageKeepsTheDocument ==
    \A d \in Document : pc[d] = "failed" /\ job[d].engine \in Llm =>
        job[d].outcome \notin ProviderError

\* analysis_options: "an option is never offered that would fail on the next
\* upload" - true of replicas that are configured alike, not during a rollout.
OfferedEnginesRun ==
    \A d \in Document :
        LET j == job[d] IN
        /\ pc[d] = "failed" /\ j.outcome = "ai_provider_unavailable"
        /\ ReaderOf(d) \in Reader /\ j.asked.value \notin {None, "none"} /\ ~j.asked.torn
        => \E p \in Replica : config[p] # config[j.host]

\* AppSetting: "Who changed it last, for the audit trail" - as long as the row did
\* not change between the load and the write of that change (settings_service.py:70).
AuditNamesTheWriter == ~setting.torn => setting.by = setting.author

\* textract.py: "stages the file into S3 itself and cleans up afterwards" - after
\* success, failure and timeout, but for a crash, a failed delete, and a timeout
\* that leaves the upload running (textract.py:183).
StagingIsTemporary ==
    \A d \in staged : pc[d] \in Staging \/ d \in orphaned

\* The deadline of the poll begins later than the pipeline's timeout and has the
\* same length: a slow job always ends as processing_timeout.
OwnDeadlineNeverDecides ==
    \A d \in Document : job[d].outcome # "gave_up"

\* Whatever an engine does, and if it never answers, the pipeline ends.
EveryJobEnds == \A d \in Document : pc[d] \in Stage ~> pc[d] \in Ended

-----------------------------------------------------------------------------
\* What comments of the code say and instances of this module refute.
\* get_analyzer_with_fallback: "That converts an outage or an exhausted quota from
\* every upload fails into documents still get processed, with a warning attached".
QuotaKeepsTheDocument ==
    \A d \in Document : pc[d] = "failed" => job[d].outcome # "rate_limited"
=============================================================================
