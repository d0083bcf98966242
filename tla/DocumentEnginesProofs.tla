----------------------- MODULE DocumentEnginesProofs -----------------------
(***************************************************************************)
(* Theorems about DocumentEngines, for any fleet of replicas, any number   *)
(* of administrators and documents, and any timeout.                       *)
(***************************************************************************)
EXTENDS DocumentEngines, TLAPS

-----------------------------------------------------------------------------
\* Some replica would have let an administrator choose v.
SomeOffers(v) == \E p \in Replica : v \in Offered(config[p])

\* The row, and what each administrator is about to write to it: a PUT that nobody
\* overtook writes the columns that differ from the row.
RowInv ==
    /\ setting.value # None /\ ~setting.torn => SomeOffers(setting.value)
    /\ ~setting.torn => setting.by = setting.author

PutInv(a) ==
    LET w == put[a] IN
    w.busy =>
      /\ w.value # None => SomeOffers(w.value)
      /\ ~w.torn => /\ w.newValue = (setting.value # w.value)
                    /\ w.newBy = (setting.by # a)

\* Where nothing has been cleaned up yet, the timeout of the pipeline has not passed.
Early == {"extracting", "reading", "uploading", "starting", "polling", "paging"}

TimeInv(d) ==
    /\ pc[d] = "pending" => elapsed[d] = 0
    /\ pc[d] \in Early => elapsed[d] <= Patience

\* What the locals of a pipeline hold at each of its stages.
JobInv(d) ==
    LET j == job[d] IN
    /\ pc[d] # "pending" => j.host \in Replica
    /\ j.asked.value # None /\ ~j.asked.torn => SomeOffers(j.asked.value)
    /\ pc[d] \notin {"calling", "falling_back"} \cup Ended => j.engine = None
    /\ pc[d] = "calling" => j.engine = AnalyzerOf(d) /\ j.engine \in Engine
    /\ pc[d] = "falling_back" => AnalyzerOf(d) \in Llm
    /\ pc[d] \notin {"cleaning"} \cup Ended => j.outcome = None
    /\ pc[d] = "cleaning" =>
           j.outcome \in {"text", "ai_provider_error", "extraction_failed", "processing_timeout"}

\* How a pipeline may have ended.
EndInv(d) ==
    LET j == job[d] IN
    /\ j.outcome # "gave_up"
    /\ pc[d] = "failed" /\ j.engine \in Llm => j.outcome \notin ProviderError
    /\ pc[d] = "failed" /\ j.outcome = "ai_provider_unavailable" /\ ReaderOf(d) \in Reader
           => AnalyzerOf(d) \notin Engine
    /\ pc[d] = "completed" =>
           \/ j.provider = AnalyzerOf(d) /\ ~j.warned
           \/ j.provider = "heuristic" /\ j.warned /\ AnalyzerOf(d) \in Llm

StagingInv(d) ==
    /\ d \in uploads => pc[d] \in {"uploading", "cleaning"} \/ d \in orphaned
    /\ d \in staged  => pc[d] \in Staging \/ d \in orphaned

DocumentInv(d) == TimeInv(d) /\ JobInv(d) /\ EndInv(d) /\ StagingInv(d)

EngineInv ==
    /\ RowInv
    /\ \A a \in Admin : PutInv(a)
    /\ \A d \in Document : DocumentInv(d)

-----------------------------------------------------------------------------
\* The parts of TypeOK and of a step that concern the pipelines.
JobsTyped ==
    /\ pc \in [Document -> Stage \cup Ended \cup {"pending"}]
    /\ job \in [Document -> Job] /\ \A d \in Document : job[d].since <= Patience + 1

Keeps(d) ==
    /\ job'[d].host = job[d].host /\ job'[d].asked = job[d].asked /\ job'[d].type = job[d].type

OthersWait(d) ==
    \A n \in Document \ {d} : pc'[n] = pc[n] /\ job'[n] = job[n]

Moves(d, at) ==
    /\ JobsTyped' /\ Keeps(d) /\ OthersWait(d)
    /\ pc'[d] = at

LEMMA Goes ==
    ASSUME TypeOK, NEW d \in Document, NEW at \in Stage \cup Ended, Goto(d, at), job' = job
    PROVE  Moves(d, at) /\ job'[d] = job[d]
  BY DEF TypeOK, Goto, JobsTyped, Keeps, OthersWait, Moves

LEMMA Updates ==
    ASSUME TypeOK, NEW d \in Document, NEW at \in Stage \cup Ended, Goto(d, at),
           NEW k \in Job, k.since <= Patience + 1, job' = [job EXCEPT ![d] = k]
    PROVE  /\ JobsTyped' /\ OthersWait(d)
           /\ pc'[d] = at /\ job'[d] = k
  BY DEF TypeOK, Goto, JobsTyped, OthersWait

-----------------------------------------------------------------------------
\* What the updates of a job change.
Concludes(j, o) == [j EXCEPT !.outcome = o, !.since = 0]

LEMMA Concluded ==
    ASSUME NEW j \in Job, NEW o \in Code \cup {"text", None}
    PROVE  LET k == Concludes(j, o) IN
           /\ k \in Job /\ k.since = 0 /\ k.outcome = o
           /\ k.host = j.host /\ k.asked = j.asked /\ k.type = j.type
           /\ k.engine = j.engine /\ k.provider = j.provider /\ k.warned = j.warned
  BY DEF Job, Concludes

Concluding(d, o) == job' = [job EXCEPT ![d] = Concludes(job[d], o)]

LEMMA EndsConclude ==
    ASSUME NEW d \in Document, NEW o
    PROVE  /\ Settle(d, o) => Goto(d, "failed") /\ Concluding(d, o)
           /\ EndOcr(d, o) => Goto(d, "cleaning") /\ Concluding(d, o)
  BY DEF Settle, EndOcr, Concluding, Concludes

Resumes(j) == [j EXCEPT !.outcome = None]

LEMMA Resumed ==
    ASSUME NEW j \in Job
    PROVE  LET k == Resumes(j) IN
           /\ k \in Job /\ k.since = j.since /\ k.outcome = None
           /\ k.host = j.host /\ k.asked = j.asked /\ k.type = j.type
           /\ k.engine = j.engine
  BY DEF Job, Resumes

Polls(j, t) == [j EXCEPT !.since = t]

LEMMA Polled ==
    ASSUME NEW j \in Job, NEW t \in Nat
    PROVE  LET k == Polls(j, t) IN
           /\ k \in Job /\ k.since = t /\ k.outcome = j.outcome
           /\ k.host = j.host /\ k.asked = j.asked /\ k.type = j.type
           /\ k.engine = j.engine
  BY DEF Job, Polls

Calls(j, e) == [j EXCEPT !.engine = e]

LEMMA Called ==
    ASSUME NEW j \in Job, NEW e \in Engine
    PROVE  LET k == Calls(j, e) IN
           /\ k \in Job /\ k.since = j.since /\ k.outcome = j.outcome
           /\ k.host = j.host /\ k.asked = j.asked /\ k.type = j.type
           /\ k.engine = e
  BY DEF Job, Calls

Answers(j, p, w) == [j EXCEPT !.provider = p, !.warned = w]

LEMMA Answered ==
    ASSUME NEW j \in Job, NEW p \in Engine, NEW w \in BOOLEAN
    PROVE  LET k == Answers(j, p, w) IN
           /\ k \in Job /\ k.since = j.since /\ k.outcome = j.outcome
           /\ k.host = j.host /\ k.asked = j.asked /\ k.type = j.type
           /\ k.engine = j.engine /\ k.provider = p /\ k.warned = w
  BY DEF Job, Answers

Starts(p, type, a) == [NoJob EXCEPT !.host = p, !.type = type, !.asked = a]

LEMMA Started ==
    ASSUME NEW p \in Replica, NEW type \in FileType, NEW a \in Asked
    PROVE  LET k == Starts(p, type, a) IN
           /\ k \in Job /\ k.since = 0 /\ k.outcome = None
           /\ k.host = p /\ k.asked = a /\ k.type = type
           /\ k.engine = None
  BY DEF Job, NoJob, Asked, Starts

-----------------------------------------------------------------------------
LEMMA Settled ==
    ASSUME TypeOK, NEW d \in Document, NEW at \in Stage \cup Ended, Goto(d, at),
           NEW o \in Code \cup {"text", None}, Concluding(d, o)
    PROVE  /\ Moves(d, at)
           /\ job'[d].outcome = o /\ job'[d].engine = job[d].engine
           /\ job'[d].provider = job[d].provider /\ job'[d].warned = job[d].warned
<1> DEFINE k == Concludes(job[d], o)
<1>1. job[d] \in Job /\ Patience \in Nat
  BY EngineConstants DEF TypeOK
<1>2. /\ k \in Job /\ k.since = 0 /\ k.outcome = o
      /\ k.host = job[d].host /\ k.asked = job[d].asked /\ k.type = job[d].type
      /\ k.engine = job[d].engine /\ k.provider = job[d].provider /\ k.warned = job[d].warned
  BY <1>1, Concluded
<1>3. job' = [job EXCEPT ![d] = k]
  BY DEF Concluding
<1> HIDE DEF k
<1>4. k.since <= Patience + 1
  BY <1>1, <1>2
<1>5. JobsTyped' /\ OthersWait(d) /\ pc'[d] = at /\ job'[d] = k
  BY <1>1, <1>2, <1>3, <1>4, Updates
<1> QED
  BY <1>2, <1>5 DEF Moves, Keeps

LEMMA Resuming ==
    ASSUME TypeOK, NEW d \in Document, Goto(d, "analysing"),
           job' = [job EXCEPT ![d].outcome = None]
    PROVE  /\ Moves(d, "analysing")
           /\ job'[d].outcome = None /\ job'[d].engine = job[d].engine
<1> DEFINE k == Resumes(job[d])
<1>1. job[d] \in Job /\ job[d].since <= Patience + 1
  BY DEF TypeOK
<1>2. /\ k \in Job /\ k.since = job[d].since /\ k.outcome = None
      /\ k.host = job[d].host /\ k.asked = job[d].asked /\ k.type = job[d].type
      /\ k.engine = job[d].engine
  BY <1>1, Resumed
<1>3. job' = [job EXCEPT ![d] = k]
  BY DEF Resumes
<1> HIDE DEF k
<1>4. k.since <= Patience + 1
  BY <1>1, <1>2
<1>5. JobsTyped' /\ OthersWait(d) /\ pc'[d] = "analysing" /\ job'[d] = k
  BY <1>1, <1>2, <1>3, <1>4, Updates DEF Stage
<1> QED
  BY <1>2, <1>5 DEF Moves, Keeps

LEMMA Polling ==
    ASSUME TypeOK, NEW d \in Document, StartJob(d)
    PROVE  /\ Moves(d, "polling")
           /\ job'[d].outcome = job[d].outcome /\ job'[d].engine = job[d].engine
<1> DEFINE k == Polls(job[d], elapsed[d])
<1>1. job[d] \in Job /\ elapsed[d] \in Nat /\ elapsed[d] <= Patience + 1
  BY EngineConstants DEF TypeOK
<1>2. /\ k \in Job /\ k.since = elapsed[d] /\ k.outcome = job[d].outcome
      /\ k.host = job[d].host /\ k.asked = job[d].asked /\ k.type = job[d].type
      /\ k.engine = job[d].engine
  BY <1>1, Polled
<1>3. job' = [job EXCEPT ![d] = k] /\ Goto(d, "polling")
  BY DEF Polls, StartJob
<1> HIDE DEF k
<1>4. k.since <= Patience + 1
  BY <1>1, <1>2
<1>5. JobsTyped' /\ OthersWait(d) /\ pc'[d] = "polling" /\ job'[d] = k
  BY <1>1, <1>2, <1>3, <1>4, Updates DEF Stage, Staging
<1> QED
  BY <1>2, <1>5 DEF Moves, Keeps

LEMMA Calling ==
    ASSUME TypeOK, NEW d \in Document, CallAnalyzer(d)
    PROVE  /\ Moves(d, "calling")
           /\ job'[d].outcome = job[d].outcome /\ job'[d].engine = AnalyzerOf(d)
<1> DEFINE k == Calls(job[d], AnalyzerOf(d))
<1>1. job[d] \in Job /\ job[d].since <= Patience + 1 /\ AnalyzerOf(d) \in Engine
  BY DEF TypeOK, CallAnalyzer
<1>2. /\ k \in Job /\ k.since = job[d].since /\ k.outcome = job[d].outcome
      /\ k.host = job[d].host /\ k.asked = job[d].asked /\ k.type = job[d].type
      /\ k.engine = AnalyzerOf(d)
  BY <1>1, Called
<1>3. job' = [job EXCEPT ![d] = k] /\ Goto(d, "calling")
  BY DEF Calls, CallAnalyzer
<1> HIDE DEF k
<1>4. k.since <= Patience + 1
  BY <1>1, <1>2
<1>5. JobsTyped' /\ OthersWait(d) /\ pc'[d] = "calling" /\ job'[d] = k
  BY <1>1, <1>2, <1>3, <1>4, Updates DEF Stage
<1> QED
  BY <1>2, <1>5 DEF Moves, Keeps

LEMMA Completing ==
    ASSUME TypeOK, NEW d \in Document, NEW p \in Engine, NEW w \in BOOLEAN, Complete(d, p, w)
    PROVE  /\ Moves(d, "completed")
           /\ job'[d].outcome = job[d].outcome /\ job'[d].engine = job[d].engine
           /\ job'[d].provider = p /\ job'[d].warned = w
<1> DEFINE k == Answers(job[d], p, w)
<1>1. job[d] \in Job /\ job[d].since <= Patience + 1
  BY DEF TypeOK
<1>2. /\ k \in Job /\ k.since = job[d].since /\ k.outcome = job[d].outcome
      /\ k.host = job[d].host /\ k.asked = job[d].asked /\ k.type = job[d].type
      /\ k.engine = job[d].engine /\ k.provider = p /\ k.warned = w
  BY <1>1, Answered
<1>3. job' = [job EXCEPT ![d] = k] /\ Goto(d, "completed")
  BY DEF Answers, Complete
<1> HIDE DEF k
<1>4. k.since <= Patience + 1
  BY <1>1, <1>2
<1>5. JobsTyped' /\ OthersWait(d) /\ pc'[d] = "completed" /\ job'[d] = k
  BY <1>1, <1>2, <1>3, <1>4, Updates DEF Ended
<1> QED
  BY <1>2, <1>5 DEF Moves, Keeps

LEMMA Claiming ==
    ASSUME TypeOK, NEW d \in Document, NEW p \in Replica, NEW type \in FileType, Claim(d, p, type)
    PROVE  /\ JobsTyped' /\ OthersWait(d) /\ pc'[d] = "extracting"
           /\ job'[d].host = p /\ job'[d].outcome = None /\ job'[d].engine = None
           /\ job'[d].asked.value = setting.value /\ job'[d].asked.torn = setting.torn
<1> DEFINE a == [value |-> setting.value, torn |-> setting.torn]
           k == Starts(p, type, a)
<1>1. a \in Asked /\ a.value = setting.value /\ a.torn = setting.torn /\ Patience \in Nat
  BY EngineConstants DEF TypeOK, Selection, Asked
<1> HIDE DEF a
<1>2. /\ k \in Job /\ k.since = 0 /\ k.outcome = None
      /\ k.host = p /\ k.asked = a /\ k.engine = None
  BY <1>1, Started
<1>3. job' = [job EXCEPT ![d] = k] /\ Goto(d, "extracting")
  BY DEF Claim, Starts, a
<1> HIDE DEF k
<1>4. k.since <= Patience + 1
  BY <1>1, <1>2
<1>5. JobsTyped' /\ OthersWait(d) /\ pc'[d] = "extracting" /\ job'[d] = k
  BY <1>1, <1>2, <1>3, <1>4, Updates DEF Stage
<1> QED
  BY <1>1, <1>2, <1>5

-----------------------------------------------------------------------------
\* The registry returns an engine or one code, and every engine but the rules has
\* the rules behind it.
LEMMA Registry ==
    ASSUME NEW c \in Config, NEW v
    PROVE  /\ Analyzer(c, v) \in Engine \cup {"ai_provider_unavailable"}
           /\ Analyzer(c, v) \in Llm => Fallback(c, v) = "heuristic"
  BY DEF Config, Analyzer, Fallback, Engine

LEMMA Hosted ==
    ASSUME TypeOK, NEW d \in Document, JobInv(d), pc[d] # "pending"
    PROVE  /\ AnalyzerOf(d) \in Engine \cup {"ai_provider_unavailable"}
           /\ AnalyzerOf(d) \in Llm =>
                  Fallback(config[job[d].host], job[d].asked.value) = "heuristic"
<1>1. config[job[d].host] \in Config
  BY DEF TypeOK, JobInv
<1> QED
  BY <1>1, Registry DEF AnalyzerOf

\* What a step of one pipeline leaves alone.
Rest(d) ==
    /\ UNCHANGED <<config, settingVars, elapsed>>
    /\ uploads' \subseteq Document /\ staged' \subseteq Document /\ orphaned' \subseteq Document
    /\ \A n \in Document \ {d} : /\ n \in uploads' <=> n \in uploads
                                 /\ n \in staged'  <=> n \in staged
                                 /\ n \in orphaned => n \in orphaned'
    /\ faults' \in 0 .. MaxFaults

LEMMA WorkRests ==
    ASSUME TypeOK, NEW d \in Document,
           \/ \E p \in Replica, type \in FileType : Claim(d, p, type)
           \/ Work(d) \/ UploadDone(d) \/ Timeout(d)
    PROVE  Rest(d)
<1> USE DEF Rest, stagingVars
<1>1. CASE UploadDone(d) \/ UploadFails(d) \/ BeginUpload(d)
  BY <1>1 DEF TypeOK, UploadDone, UploadFails, BeginUpload
<1>2. CASE Cleanup(d)
  BY <1>2 DEF TypeOK, Cleanup
<1>3. CASE CleanupFails(d)
  BY <1>3, EngineConstants DEF TypeOK, CleanupFails, Fault
<1>4. CASE \E p \in Replica, type \in FileType : Claim(d, p, type)
  BY <1>4 DEF TypeOK, Claim
<1>5. CASE RefuseFile(d) \/ BeginReading(d) \/ ReadText(d) \/ ReadFails(d)
  BY <1>5 DEF TypeOK, RefuseFile, BeginReading, ReadText, ReadFails
<1>6. CASE StartJob(d) \/ JobSucceeds(d) \/ OcrFails(d) \/ LastPage(d) \/ Timeout(d)
  BY <1>6 DEF TypeOK, StartJob, JobSucceeds, OcrFails, LastPage, Timeout
<1>7. CASE \/ NoAnalyzer(d) \/ CallAnalyzer(d) \/ AnalysisSucceeds(d) \/ ProviderFails(d)
           \/ QuotaExhausted(d) \/ AnalyzerBreaks(d) \/ FallBack(d)
  BY <1>7 DEF TypeOK, NoAnalyzer, CallAnalyzer, AnalysisSucceeds, ProviderFails,
              QuotaExhausted, AnalyzerBreaks, FallBack
<1> QED
  BY <1>1, <1>2, <1>3, <1>4, <1>5, <1>6, <1>7 DEF Work

\* The pipelines that wait keep what holds of them.
LEMMA OthersKeep ==
    ASSUME NEW d \in Document, OthersWait(d), Rest(d), NEW n \in Document \ {d}, DocumentInv(n)
    PROVE  DocumentInv(n)'
<1>1. /\ pc'[n] = pc[n] /\ job'[n] = job[n] /\ elapsed' = elapsed /\ config' = config
      /\ n \in uploads' <=> n \in uploads
      /\ n \in staged'  <=> n \in staged
      /\ n \in orphaned => n \in orphaned'
  BY DEF OthersWait, Rest
<1>2. ReaderOf(n)' = ReaderOf(n) /\ AnalyzerOf(n)' = AnalyzerOf(n)
  BY <1>1 DEF ReaderOf, AnalyzerOf
<1>3. TimeInv(n)' /\ JobInv(n)' /\ StagingInv(n)'
  BY <1>1, <1>2 DEF DocumentInv, TimeInv, JobInv, StagingInv, SomeOffers
<1>4. EndInv(n)'
  BY <1>1, <1>2 DEF DocumentInv, EndInv
<1> QED
  BY <1>3, <1>4 DEF DocumentInv

-----------------------------------------------------------------------------
LEMMA SameEngines ==
    ASSUME NEW d \in Document, Rest(d), Keeps(d)
    PROVE  /\ config' = config /\ elapsed' = elapsed
           /\ ReaderOf(d)' = ReaderOf(d) /\ AnalyzerOf(d)' = AnalyzerOf(d)
           /\ \A v : SomeOffers(v) => SomeOffers(v)'
  BY DEF Rest, Keeps, ReaderOf, AnalyzerOf, SomeOffers

\* A step that ends a pipeline in failure: the code says which engine failed.
LEMMA Failing ==
    ASSUME TypeOK, NEW d \in Document, DocumentInv(d), Rest(d), pc[d] \in Stage \ Staging,
           NEW o \in Code \ {"gave_up"}, Settle(d, o), UNCHANGED stagingVars,
           o \in ProviderError => job[d].engine = None,
           o = "ai_provider_unavailable" => ReaderOf(d) \notin Reader \/ AnalyzerOf(d) \notin Engine
    PROVE  JobsTyped' /\ OthersWait(d) /\ DocumentInv(d)'
<1>1. /\ Moves(d, "failed")
      /\ job'[d].outcome = o /\ job'[d].engine = job[d].engine
  BY EndsConclude, Settled DEF Ended
<1>2. /\ pc'[d] = "failed" /\ Keeps(d)
      /\ config' = config /\ elapsed' = elapsed
      /\ ReaderOf(d)' = ReaderOf(d) /\ AnalyzerOf(d)' = AnalyzerOf(d)
      /\ \A v : SomeOffers(v) => SomeOffers(v)'
  BY <1>1, SameEngines DEF Moves
<1>3. pc[d] \notin {"pending", "cleaning", "uploading"} /\ pc[d] \notin Staging
  BY DEF Stage, Staging
<1>4. TimeInv(d)' /\ JobInv(d)'
  BY <1>1, <1>2, <1>3 DEF DocumentInv, TimeInv, JobInv, Early, Ended, Keeps
<1>5. EndInv(d)'
  BY <1>1, <1>2, EngineConstants DEF EndInv, Llm, Policy
<1>6. StagingInv(d)'
  BY <1>3, <1>2 DEF DocumentInv, StagingInv, stagingVars
<1> QED
  BY <1>1, <1>4, <1>5, <1>6 DEF Moves, DocumentInv

\* A step on the way, of a pipeline that has not called an engine yet.
LEMMA Advancing ==
    ASSUME TypeOK, NEW d \in Document, DocumentInv(d), Rest(d),
           pc[d] \in Early \cup {"cleaning"},
           NEW at \in {"reading", "analysing", "uploading", "starting", "polling", "paging"},
           pc[d] = "cleaning" => at = "analysing",
           Moves(d, at), job'[d].outcome = None, job'[d].engine = job[d].engine,
           d \in uploads' => at = "uploading" \/ d \in orphaned',
           d \in staged'  => at \in Staging \/ d \in orphaned'
    PROVE  JobsTyped' /\ OthersWait(d) /\ DocumentInv(d)'
<1>1. /\ pc'[d] = at /\ Keeps(d)
      /\ config' = config /\ elapsed' = elapsed
      /\ AnalyzerOf(d)' = AnalyzerOf(d)
      /\ \A v : SomeOffers(v) => SomeOffers(v)'
  BY SameEngines DEF Moves
<1>2. pc[d] \notin {"pending", "calling", "falling_back"} \cup Ended
  BY DEF Early, Ended
<1>3. TimeInv(d)'
  BY <1>1, <1>2 DEF DocumentInv, TimeInv, Early
<1>4. JobInv(d)'
  BY <1>1, <1>2 DEF DocumentInv, JobInv, Ended, Keeps
<1>5. EndInv(d)' /\ StagingInv(d)'
  BY <1>1, EngineConstants DEF EndInv, StagingInv, Ended, Code
<1> QED
  BY <1>3, <1>4, <1>5 DEF Moves, DocumentInv

\* The OCR job ends, with its text or with an error.
LEMMA Collecting ==
    ASSUME TypeOK, NEW d \in Document, DocumentInv(d), Rest(d), pc[d] \in Staging \ {"cleaning"},
           NEW o \in {"text", "ai_provider_error", "extraction_failed", "processing_timeout"},
           EndOcr(d, o)
    PROVE  /\ JobsTyped' /\ OthersWait(d)
           /\ (d \in uploads' => d \in uploads) /\ UNCHANGED <<staged, orphaned>> => DocumentInv(d)'
<1>1. /\ Moves(d, "cleaning")
      /\ job'[d].outcome = o /\ job'[d].engine = job[d].engine
  BY EndsConclude, Settled DEF Stage, Staging, Code, ProviderError
<1>2. /\ pc'[d] = "cleaning" /\ Keeps(d)
      /\ config' = config /\ elapsed' = elapsed
      /\ AnalyzerOf(d)' = AnalyzerOf(d)
      /\ \A v : SomeOffers(v) => SomeOffers(v)'
  BY <1>1, SameEngines DEF Moves
<1>3. pc[d] \notin {"pending", "calling", "falling_back"} \cup Ended
  BY DEF Staging, Ended
<1>4. TimeInv(d)' /\ JobInv(d)'
  BY <1>1, <1>2, <1>3 DEF DocumentInv, TimeInv, JobInv, Early, Ended, Keeps
<1>5. EndInv(d)'
  BY <1>1, <1>2 DEF EndInv
<1>6. (d \in uploads' => d \in uploads) /\ UNCHANGED <<staged, orphaned>> => StagingInv(d)'
  BY <1>2 DEF DocumentInv, StagingInv, Staging
<1> QED
  BY <1>1, <1>4, <1>5, <1>6 DEF Moves, DocumentInv

-----------------------------------------------------------------------------
LEMMA ClaimStep ==
    ASSUME TypeOK, RowInv, NEW d \in Document, DocumentInv(d), Rest(d),
           NEW p \in Replica, NEW type \in FileType, Claim(d, p, type)
    PROVE  JobsTyped' /\ OthersWait(d) /\ DocumentInv(d)'
<1>1. /\ JobsTyped' /\ OthersWait(d) /\ pc'[d] = "extracting"
      /\ job'[d].host = p /\ job'[d].outcome = None /\ job'[d].engine = None
      /\ job'[d].asked.value = setting.value /\ job'[d].asked.torn = setting.torn
  BY Claiming
<1>2. /\ pc[d] = "pending" /\ uploads' = uploads /\ staged' = staged /\ orphaned' = orphaned
  BY DEF Claim, stagingVars
<1>3. /\ elapsed' = elapsed /\ \A v : SomeOffers(v) => SomeOffers(v)'
  BY DEF Rest, SomeOffers
<1>4. TimeInv(d)'
  BY <1>1, <1>2, <1>3, EngineConstants DEF DocumentInv, TimeInv
<1>5. JobInv(d)'
  BY <1>1, <1>3 DEF JobInv, Ended, RowInv
<1>6. EndInv(d)' /\ StagingInv(d)'
  BY <1>1, <1>2, EngineConstants DEF DocumentInv, EndInv, StagingInv, Code, Staging
<1> QED
  BY <1>1, <1>4, <1>5, <1>6 DEF DocumentInv

LEMMA ReadingStep ==
    ASSUME TypeOK, NEW d \in Document, DocumentInv(d), Rest(d),
           RefuseFile(d) \/ BeginReading(d) \/ ReadText(d) \/ ReadFails(d)
    PROVE  JobsTyped' /\ OthersWait(d) /\ DocumentInv(d)'
<1>1. CASE RefuseFile(d)
  <2>1. job[d].engine = None /\ UNCHANGED stagingVars /\ pc[d] \in Stage \ Staging
    BY <1>1 DEF RefuseFile, DocumentInv, JobInv, Stage, Staging, Ended
  <2>2. ReaderOf(d) \in Reader => ReaderOf(d) \notin Code
    BY DEF Reader, Code, ProviderError
  <2> DEFINE o == IF ReaderOf(d) \in Code THEN ReaderOf(d) ELSE "extraction_failed"
  <2>3. Settle(d, o) /\ o \in Code
    BY <1>1 DEF RefuseFile, Code
  <2>4. o # "gave_up"
    BY DEF ReaderOf, TextExtractor
  <2>5. o = "ai_provider_unavailable" => ReaderOf(d) \notin Reader
    BY <2>2
  <2> HIDE DEF o
  <2> QED
    BY <2>1, <2>3, <2>4, <2>5, Failing
<1>2. CASE BeginReading(d)
  <2>1. /\ pc[d] = "extracting" /\ Goto(d, "reading") /\ job' = job /\ UNCHANGED stagingVars
    BY <1>2 DEF BeginReading
  <2>2. Moves(d, "reading") /\ job'[d] = job[d]
    BY <2>1, Goes DEF Stage
  <2>3. /\ job'[d].outcome = None /\ job'[d].engine = job[d].engine
        /\ d \notin uploads' \ orphaned' /\ d \notin staged' \ orphaned'
    BY <2>1, <2>2 DEF DocumentInv, JobInv, StagingInv, Ended, Staging, stagingVars
  <2> QED
    BY <2>1, <2>2, <2>3, Advancing DEF Early
<1>3. CASE ReadText(d)
  <2>1. /\ pc[d] = "reading" /\ Goto(d, "analysing") /\ job' = job /\ UNCHANGED stagingVars
    BY <1>3 DEF ReadText
  <2>2. Moves(d, "analysing") /\ job'[d] = job[d]
    BY <2>1, Goes DEF Stage
  <2>3. /\ job'[d].outcome = None /\ job'[d].engine = job[d].engine
        /\ d \notin uploads' \ orphaned' /\ d \notin staged' \ orphaned'
    BY <2>1, <2>2 DEF DocumentInv, JobInv, StagingInv, Ended, Staging, stagingVars
  <2> QED
    BY <2>1, <2>2, <2>3, Advancing DEF Early
<1>4. CASE ReadFails(d)
  <2>1. PICK o \in {"extraction_failed", "ai_provider_error", "internal_error"} : Settle(d, o)
    BY <1>4 DEF ReadFails
  <2>2. job[d].engine = None /\ UNCHANGED stagingVars /\ pc[d] \in Stage \ Staging
    BY <1>4 DEF ReadFails, DocumentInv, JobInv, Stage, Staging, Ended
  <2> QED
    BY <2>1, <2>2, Failing DEF Code, ProviderError
<1> QED
  BY <1>1, <1>2, <1>3, <1>4

LEMMA StagingStep ==
    ASSUME TypeOK, NEW d \in Document, DocumentInv(d), Rest(d),
           BeginUpload(d) \/ UploadFails(d) \/ StartJob(d) \/ JobSucceeds(d) \/ OcrFails(d) \/ LastPage(d)
    PROVE  JobsTyped' /\ OthersWait(d) /\ DocumentInv(d)'
<1>1. CASE BeginUpload(d)
  <2>1. /\ pc[d] = "extracting" /\ Goto(d, "uploading") /\ job' = job
        /\ staged' = staged /\ orphaned' = orphaned
    BY <1>1 DEF BeginUpload
  <2>2. Moves(d, "uploading") /\ job'[d] = job[d]
    BY <2>1, Goes DEF Stage, Staging
  <2>3. job'[d].outcome = None /\ job'[d].engine = job[d].engine
    BY <2>1, <2>2 DEF DocumentInv, JobInv, Ended
  <2> QED
    BY <2>1, <2>2, <2>3, Advancing DEF Early, Staging
<1>2. CASE UploadFails(d)
  BY <1>2, Collecting DEF UploadFails, Staging
<1>3. CASE StartJob(d)
  <2>1. /\ pc[d] = "starting" /\ UNCHANGED stagingVars
    BY <1>3 DEF StartJob
  <2>2. Moves(d, "polling") /\ job'[d].outcome = job[d].outcome /\ job'[d].engine = job[d].engine
    BY <1>3, Polling
  <2>3. job'[d].outcome = None /\ (d \in uploads' => d \in orphaned')
    BY <2>1, <2>2 DEF DocumentInv, JobInv, StagingInv, Ended, stagingVars
  <2> QED
    BY <2>1, <2>2, <2>3, Advancing DEF Early, Staging
<1>4. CASE JobSucceeds(d)
  <2>1. /\ pc[d] = "polling" /\ Goto(d, "paging") /\ job' = job /\ UNCHANGED stagingVars
    BY <1>4 DEF JobSucceeds
  <2>2. Moves(d, "paging") /\ job'[d] = job[d]
    BY <2>1, Goes DEF Stage, Staging
  <2>3. /\ job'[d].outcome = None /\ job'[d].engine = job[d].engine
        /\ d \in uploads' => d \in orphaned'
    BY <2>1, <2>2 DEF DocumentInv, JobInv, StagingInv, Ended, stagingVars
  <2> QED
    BY <2>1, <2>2, <2>3, Advancing DEF Early, Staging
\* The deadline of the poll has not passed where the pipeline's timeout has not.
<1>5. CASE OcrFails(d)
  <2>1. pc[d] \in Staging \ {"cleaning"} /\ UNCHANGED stagingVars
    BY <1>5 DEF OcrFails, Staging
  <2>2. ~(pc[d] = "polling" /\ DeadlinePassed(d))
    <3>1. elapsed[d] \in Nat /\ job[d].since \in Nat /\ Patience \in Nat
      BY EngineConstants DEF TypeOK, Job
    <3>2. pc[d] = "polling" => elapsed[d] <= Patience
      BY DEF DocumentInv, TimeInv, Early
    <3> QED
      BY <3>1, <3>2 DEF DeadlinePassed
  <2>3. PICK o \in {"ai_provider_error", "extraction_failed"} : EndOcr(d, o)
    BY <1>5, <2>2 DEF OcrFails
  <2> QED
    BY <2>1, <2>3, Collecting DEF stagingVars
<1>6. CASE LastPage(d)
  <2>1. pc[d] \in Staging \ {"cleaning"} /\ UNCHANGED stagingVars /\ EndOcr(d, "text")
    BY <1>6 DEF LastPage, Staging
  <2> QED
    BY <2>1, Collecting DEF stagingVars
<1> QED
  BY <1>1, <1>2, <1>3, <1>4, <1>5, <1>6

\* A failed job fails the document with the code of the job.
LEMMA CleanupStep ==
    ASSUME TypeOK, NEW d \in Document, DocumentInv(d), Rest(d), Cleanup(d) \/ CleanupFails(d)
    PROVE  JobsTyped' /\ OthersWait(d) /\ DocumentInv(d)'
<1>1. /\ pc[d] = "cleaning" /\ AfterCleanup(d)
      /\ d \in uploads' => d \in orphaned'
      /\ d \in staged' => d \in orphaned'
  BY DEF Cleanup, CleanupFails
<1>2. /\ job[d].engine = None
      /\ job[d].outcome \in {"text", "ai_provider_error", "extraction_failed", "processing_timeout"}
  BY <1>1 DEF DocumentInv, JobInv, Ended
<1>3. CASE job[d].outcome = "text"
  <2>1. Goto(d, "analysing") /\ job' = [job EXCEPT ![d].outcome = None]
    BY <1>1, <1>3 DEF AfterCleanup
  <2>2. Moves(d, "analysing") /\ job'[d].outcome = None /\ job'[d].engine = job[d].engine
    BY <2>1, Resuming
  <2> QED
    BY <1>1, <2>2, Advancing
<1>4. CASE job[d].outcome # "text"
  <2> DEFINE o == job[d].outcome
  <2>1. /\ Settle(d, o)
        /\ o \in {"ai_provider_error", "extraction_failed", "processing_timeout"}
    BY <1>1, <1>2, <1>4 DEF AfterCleanup
  <2> HIDE DEF o
  <2>2. /\ Moves(d, "failed")
        /\ job'[d].outcome = o /\ job'[d].engine = job[d].engine
    BY <2>1, EndsConclude, Settled DEF Ended, Code, ProviderError
  <2>3. /\ pc'[d] = "failed" /\ Keeps(d)
        /\ config' = config /\ elapsed' = elapsed
        /\ \A v : SomeOffers(v) => SomeOffers(v)'
    BY <2>2, SameEngines DEF Moves
  <2>4. TimeInv(d)' /\ JobInv(d)'
    BY <1>1, <2>2, <2>3 DEF DocumentInv, TimeInv, JobInv, Early, Ended, Keeps
  <2>5. EndInv(d)'
    BY <1>2, <2>1, <2>2, <2>3, EngineConstants DEF EndInv, Llm, Policy
  <2>6. StagingInv(d)'
    BY <1>1 DEF StagingInv
  <2> QED
    BY <2>2, <2>4, <2>5, <2>6 DEF Moves, DocumentInv
<1> QED
  BY <1>3, <1>4

\* A step of the analysis that goes on or completes.
LEMMA Analysing ==
    ASSUME TypeOK, NEW d \in Document, DocumentInv(d), Rest(d), UNCHANGED stagingVars,
           pc[d] \in {"analysing", "calling", "falling_back"},
           NEW at \in {"calling", "falling_back", "completed"},
           Moves(d, at), job'[d].outcome = job[d].outcome,
           at = "calling" => job'[d].engine = AnalyzerOf(d) /\ AnalyzerOf(d) \in Engine,
           at = "falling_back" => AnalyzerOf(d) \in Llm,
           at = "completed" =>
               \/ job'[d].provider = AnalyzerOf(d) /\ ~job'[d].warned
               \/ job'[d].provider = "heuristic" /\ job'[d].warned /\ AnalyzerOf(d) \in Llm
    PROVE  JobsTyped' /\ OthersWait(d) /\ DocumentInv(d)'
<1>1. /\ pc'[d] = at /\ Keeps(d)
      /\ config' = config /\ elapsed' = elapsed
      /\ ReaderOf(d)' = ReaderOf(d) /\ AnalyzerOf(d)' = AnalyzerOf(d)
      /\ \A v : SomeOffers(v) => SomeOffers(v)'
  BY SameEngines DEF Moves
<1>2. TimeInv(d)'
  BY <1>1 DEF TimeInv, Early
<1>3. JobInv(d)'
  BY <1>1 DEF DocumentInv, JobInv, Ended, Keeps
<1>4. EndInv(d)'
  BY <1>1 DEF DocumentInv, EndInv
<1>5. StagingInv(d)'
  BY <1>1 DEF DocumentInv, StagingInv, stagingVars, Staging
<1> QED
  BY <1>2, <1>3, <1>4, <1>5 DEF Moves, DocumentInv

LEMMA AnalysisStep ==
    ASSUME TypeOK, NEW d \in Document, DocumentInv(d), Rest(d),
           \/ NoAnalyzer(d) \/ CallAnalyzer(d) \/ AnalysisSucceeds(d) \/ ProviderFails(d)
           \/ QuotaExhausted(d) \/ AnalyzerBreaks(d) \/ FallBack(d)
    PROVE  JobsTyped' /\ OthersWait(d) /\ DocumentInv(d)'
<1>0. /\ pc[d] \in {"analysing", "calling", "falling_back"} /\ UNCHANGED stagingVars
      /\ pc[d] \in Stage \ Staging
  BY DEF NoAnalyzer, CallAnalyzer, AnalysisSucceeds, ProviderFails, QuotaExhausted,
         AnalyzerBreaks, FallBack, Stage, Staging
<1>1. CASE NoAnalyzer(d)
  <2>1. /\ pc[d] = "analysing" /\ Settle(d, AnalyzerOf(d)) /\ AnalyzerOf(d) \notin Engine
        /\ job[d].engine = None
    BY <1>1 DEF NoAnalyzer, DocumentInv, JobInv, Ended
  <2>2. AnalyzerOf(d) = "ai_provider_unavailable"
    BY <2>1, Hosted DEF DocumentInv
  <2> DEFINE o == AnalyzerOf(d)
  <2>3. /\ o \in Code \ {"gave_up"} /\ Settle(d, o)
    BY <2>1, <2>2 DEF Code, ProviderError
  <2> HIDE DEF o
  <2> QED
    BY <1>0, <2>1, <2>3, Failing
<1>2. CASE CallAnalyzer(d)
  BY <1>0, <1>2, Calling, Analysing DEF CallAnalyzer
<1>3. CASE AnalysisSucceeds(d)
  <2>1. /\ job[d].engine = AnalyzerOf(d) /\ job[d].engine \in Engine
        /\ Complete(d, job[d].engine, FALSE)
    BY <1>3 DEF AnalysisSucceeds, DocumentInv, JobInv
  <2>2. /\ Moves(d, "completed") /\ job'[d].outcome = job[d].outcome
        /\ job'[d].provider = AnalyzerOf(d) /\ job'[d].warned = FALSE
    BY <2>1, Completing
  <2> QED
    BY <1>0, <2>2, Analysing
\* The engine that failed is the one that was resolved, so it has a fallback.
<1>4. CASE ProviderFails(d)
  <2>1. /\ pc[d] = "calling" /\ AnalyzerOf(d) \in Llm
    BY <1>4 DEF ProviderFails, DocumentInv, JobInv
  <2>2. Fallback(config[job[d].host], job[d].asked.value) # None
    BY <2>1, Hosted, EngineConstants DEF DocumentInv, Policy
  <2>3. Goto(d, "falling_back") /\ job' = job
    BY <1>4, <2>2 DEF ProviderFails
  <2>4. Moves(d, "falling_back") /\ job'[d] = job[d]
    BY <2>3, Goes DEF Stage
  <2> QED
    BY <1>0, <2>1, <2>4, Analysing
<1>5. CASE QuotaExhausted(d)
  <2>1. Settle(d, "rate_limited")
    BY <1>5 DEF QuotaExhausted
  <2> QED
    BY <1>0, <2>1, Failing DEF Code, ProviderError
<1>6. CASE AnalyzerBreaks(d)
  <2>1. Settle(d, "internal_error")
    BY <1>6 DEF AnalyzerBreaks
  <2> QED
    BY <1>0, <2>1, Failing DEF Code, ProviderError
<1>7. CASE FallBack(d)
  <2>1. Complete(d, "heuristic", TRUE) /\ AnalyzerOf(d) \in Llm
    BY <1>7 DEF FallBack, DocumentInv, JobInv
  <2>2. /\ Moves(d, "completed") /\ job'[d].outcome = job[d].outcome
        /\ job'[d].provider = "heuristic" /\ job'[d].warned = TRUE
    BY <2>1, Completing DEF Engine
  <2> QED
    BY <1>0, <2>1, <2>2, Analysing
<1> QED
  BY <1>1, <1>2, <1>3, <1>4, <1>5, <1>6, <1>7

LEMMA TimeoutStep ==
    ASSUME TypeOK, NEW d \in Document, DocumentInv(d), Rest(d), Timeout(d)
    PROVE  JobsTyped' /\ OthersWait(d) /\ DocumentInv(d)'
<1>1. pc[d] \in Stage \ {"cleaning"} /\ UNCHANGED stagingVars
  BY DEF Timeout, TimeoutDue, Timed
<1>2. CASE pc[d] \in Staging
  BY <1>1, <1>2, Collecting DEF Timeout, stagingVars
<1>3. CASE pc[d] \notin Staging
  <2>1. Settle(d, "processing_timeout")
    BY <1>3 DEF Timeout
  <2> QED
    BY <1>1, <1>3, <2>1, Failing DEF Code, ProviderError
<1> QED
  BY <1>2, <1>3

\* The thread ends, and the pipeline goes on if it still waits.
LEMMA UploadStep ==
    ASSUME TypeOK, NEW d \in Document, DocumentInv(d), Rest(d), UploadDone(d)
    PROVE  JobsTyped' /\ OthersWait(d) /\ DocumentInv(d)'
<1>1. CASE pc[d] = "uploading"
  <2>1. Goto(d, "starting") /\ job' = job /\ d \notin uploads'
    BY <1>1 DEF UploadDone, Goto
  <2>2. Moves(d, "starting") /\ job'[d] = job[d]
    BY <2>1, Goes DEF Stage, Staging
  <2>3. job'[d].outcome = None /\ job'[d].engine = job[d].engine
    BY <1>1, <2>2 DEF DocumentInv, JobInv, Ended
  <2> QED
    BY <1>1, <2>1, <2>2, <2>3, Advancing DEF Early, Staging
<1>2. CASE pc[d] # "uploading"
  <2>1. pc' = pc /\ job' = job /\ d \notin uploads' /\ d \in uploads /\ orphaned' = orphaned
    BY <1>2 DEF UploadDone
  <2>2. JobsTyped' /\ OthersWait(d) /\ Keeps(d)
    BY <2>1 DEF TypeOK, JobsTyped, OthersWait, Keeps
  <2>3. /\ config' = config /\ elapsed' = elapsed
        /\ ReaderOf(d)' = ReaderOf(d) /\ AnalyzerOf(d)' = AnalyzerOf(d)
        /\ \A v : SomeOffers(v) => SomeOffers(v)'
    BY <2>2, SameEngines
  <2>4. TimeInv(d)' /\ JobInv(d)' /\ EndInv(d)'
    BY <2>1, <2>3 DEF DocumentInv, TimeInv, JobInv, EndInv
  <2>5. StagingInv(d)'
    BY <1>2, <2>1 DEF DocumentInv, StagingInv, Staging
  <2> QED
    BY <2>2, <2>4, <2>5 DEF DocumentInv
<1> QED
  BY <1>1, <1>2

-----------------------------------------------------------------------------
\* A step of one pipeline, whichever it is, disturbs only what holds of that one.
LEMMA PipelineStep ==
    ASSUME TypeOK, EngineInv, NEW d \in Document,
           \/ \E p \in Replica, type \in FileType : Claim(d, p, type)
           \/ Work(d) \/ UploadDone(d) \/ Timeout(d)
    PROVE  TypeOK' /\ EngineInv'
<1>1. Rest(d) /\ DocumentInv(d) /\ RowInv
  BY WorkRests DEF EngineInv
<1>2. JobsTyped' /\ OthersWait(d) /\ DocumentInv(d)'
  BY <1>1, ClaimStep, ReadingStep, StagingStep, CleanupStep, AnalysisStep, TimeoutStep,
     UploadStep DEF Work
<1>3. \A n \in Document : DocumentInv(n)'
  BY <1>1, <1>2, OthersKeep DEF EngineInv
<1>4. RowInv' /\ \A a \in Admin : PutInv(a)'
  BY <1>1 DEF Rest, settingVars, EngineInv, RowInv, PutInv, SomeOffers
<1>5. TypeOK'
  BY <1>1, <1>2 DEF TypeOK, Rest, settingVars, JobsTyped
<1> QED
  BY <1>3, <1>4, <1>5 DEF EngineInv

\* A step of the administrators leaves the pipelines alone.
LEMMA PipelinesKeep ==
    ASSUME EngineInv, UNCHANGED <<config, pc, job, elapsed, stagingVars>>
    PROVE  \A d \in Document : DocumentInv(d)'
<1> SUFFICES ASSUME NEW d \in Document
             PROVE  DocumentInv(d)'
  OBVIOUS
<1>1. DocumentInv(d)
  BY DEF EngineInv
<1>2. /\ ReaderOf(d)' = ReaderOf(d) /\ AnalyzerOf(d)' = AnalyzerOf(d)
      /\ \A v : SomeOffers(v)' = SomeOffers(v)
  BY DEF ReaderOf, AnalyzerOf, SomeOffers
<1>3. TimeInv(d)' /\ JobInv(d)'
  BY <1>1, <1>2 DEF DocumentInv, TimeInv, JobInv
<1>4. EndInv(d)' /\ StagingInv(d)'
  BY <1>1, <1>2 DEF DocumentInv, EndInv, StagingInv, stagingVars
<1> QED
  BY <1>3, <1>4 DEF DocumentInv

\* The PUT that an administrator begins.
Begins(a, v) == [NoPut EXCEPT !.busy = TRUE, !.value = v, !.insert = (setting = NoSetting),
                              !.newValue = (setting.value # v), !.newBy = (setting.by # a)]

LEMMA Begun ==
    ASSUME NEW a \in Admin, NEW v \in Policy \cup {None}
    PROVE  LET w == Begins(a, v) IN
           /\ w \in Put /\ w.busy = TRUE /\ w.value = v /\ w.torn = FALSE
           /\ w.newValue = (setting.value # v) /\ w.newBy = (setting.by # a)
  BY DEF Put, NoPut, Begins

LEMMA LoadStep ==
    ASSUME TypeOK, EngineInv,
           NEW a \in Admin, NEW p \in Replica, NEW v \in Choice, LoadSetting(a, p, v)
    PROVE  TypeOK' /\ EngineInv'
<1> DEFINE w == Begins(a, v)
<1>1. v \in Policy \cup {None} /\ MaxPuts \in Nat
  BY EngineConstants
<1>2. /\ w \in Put /\ w.busy = TRUE /\ w.value = v /\ w.torn = FALSE
      /\ w.newValue = (setting.value # v) /\ w.newBy = (setting.by # a)
  BY <1>1, Begun
<1>3. /\ put' = [put EXCEPT ![a] = w] /\ puts < MaxPuts /\ puts' = puts + 1
      /\ v # None => SomeOffers(v)
      /\ UNCHANGED <<config, setting, pc, job, elapsed, stagingVars, faults>>
  BY DEF LoadSetting, Begins, SomeOffers
<1> HIDE DEF w
<1>4. TypeOK'
  BY <1>1, <1>2, <1>3 DEF TypeOK, stagingVars
<1>5. \A q : SomeOffers(q)' = SomeOffers(q)
  BY <1>3 DEF SomeOffers
<1>6. RowInv'
  BY <1>3, <1>5 DEF EngineInv, RowInv
<1>7. ASSUME NEW b \in Admin
      PROVE  PutInv(b)'
  <2>1. put'[b] = IF b = a THEN w ELSE put[b]
    BY <1>3 DEF TypeOK
  <2>2. PutInv(b)
    BY DEF EngineInv
  <2>3. CASE b = a
    BY <1>2, <1>3, <1>5, <2>1, <2>3 DEF PutInv
  <2>4. CASE b # a
    BY <1>3, <1>5, <2>1, <2>2, <2>4 DEF PutInv
  <2> QED
    BY <2>3, <2>4
<1>8. \A d \in Document : DocumentInv(d)'
  BY <1>3, PipelinesKeep
<1> QED
  BY <1>4, <1>6, <1>7, <1>8 DEF EngineInv

LEMMA Overtaken ==
    ASSUME NEW w \in Put
    PROVE  LET x == [w EXCEPT !.torn = w.busy] IN
           /\ x \in Put /\ x.busy = w.busy /\ x.torn = w.busy /\ x.value = w.value
  BY DEF Put

\* The PUTs that a commit overtakes are torn; the row has what the other one meant.
LEMMA CommitStep ==
    ASSUME TypeOK, EngineInv, NEW a \in Admin, CommitSetting(a)
    PROVE  TypeOK' /\ EngineInv'
<1> DEFINE w == put[a]
<1>1. /\ w \in Put /\ w.busy /\ setting \in Selection
      /\ UNCHANGED <<config, puts, pc, job, elapsed, stagingVars, faults>>
  BY DEF CommitSetting, TypeOK
<1>2. \A q : SomeOffers(q)' = SomeOffers(q)
  BY <1>1 DEF SomeOffers
<1>3. PutInv(a) /\ RowInv
  BY DEF EngineInv
<1>4. NoPut \in Put /\ NoPut.busy = FALSE
  BY DEF NoPut, Put
<1>5. \A d \in Document : DocumentInv(d)'
  BY <1>1, PipelinesKeep
<1>6. CASE w.insert /\ setting # NoSetting
  <2>1. setting' = setting /\ put' = [put EXCEPT ![a] = NoPut]
    BY <1>6 DEF CommitSetting
  <2>2. TypeOK'
    BY <1>1, <1>4, <2>1 DEF TypeOK, stagingVars
  <2>3. RowInv'
    BY <1>2, <1>3, <2>1 DEF RowInv
  <2>4. ASSUME NEW b \in Admin
        PROVE  PutInv(b)'
    <3>1. put'[b] = IF b = a THEN NoPut ELSE put[b]
      BY <2>1 DEF TypeOK
    <3>2. PutInv(b)
      BY DEF EngineInv
    <3> QED
      BY <1>2, <1>4, <2>1, <3>1, <3>2 DEF PutInv
  <2> QED
    BY <1>5, <2>2, <2>3, <2>4 DEF EngineInv
<1>7. CASE ~(w.insert /\ setting # NoSetting)
  <2>1. /\ setting' = [value  |-> IF w.newValue THEN w.value ELSE setting.value,
                       by     |-> IF w.newBy THEN a ELSE setting.by,
                       author |-> a, torn |-> w.torn]
        /\ put' = [b \in Admin |-> IF b = a THEN NoPut
                                   ELSE [put[b] EXCEPT !.torn = put[b].busy]]
    BY <1>7 DEF CommitSetting
  <2>2. setting' \in Selection /\ setting'.torn = w.torn /\ setting'.author = a
    BY <1>1, <2>1 DEF Selection, Put
  <2>3. ~w.torn => setting'.value = w.value /\ setting'.by = a
    BY <1>1, <1>3, <2>1 DEF PutInv
  <2>4. RowInv'
    BY <1>1, <1>2, <1>3, <2>2, <2>3 DEF RowInv, PutInv
  <2>5. ASSUME NEW b \in Admin
        PROVE  put'[b] \in Put /\ PutInv(b)'
    <3>1. put[b] \in Put /\ PutInv(b)
      BY DEF TypeOK, EngineInv
    <3>2. CASE b = a
      BY <1>4, <2>1, <3>2 DEF PutInv
    <3>3. CASE b # a
      <4>1. put'[b] = [put[b] EXCEPT !.torn = put[b].busy]
        BY <2>1, <3>3
      <4>2. /\ put'[b] \in Put /\ put'[b].busy = put[b].busy /\ put'[b].torn = put[b].busy
            /\ put'[b].value = put[b].value
        BY <3>1, <4>1, Overtaken
      <4> QED
        BY <1>2, <3>1, <4>2 DEF PutInv
    <3> QED
      BY <3>2, <3>3
  <2>6. TypeOK'
    BY <1>1, <2>1, <2>2, <2>5 DEF TypeOK, stagingVars
  <2> QED
    BY <1>5, <2>4, <2>5, <2>6 DEF EngineInv
<1> QED
  BY <1>6, <1>7

LEMMA TickStep ==
    ASSUME TypeOK, EngineInv, Tick
    PROVE  TypeOK' /\ EngineInv'
<1>1. /\ UNCHANGED <<config, settingVars, pc, job, stagingVars, faults>>
      /\ elapsed' = [d \in Document |-> IF d \in Running THEN elapsed[d] + 1 ELSE elapsed[d]]
  BY DEF Tick
<1>2. Patience \in Nat
  BY EngineConstants
<1>3. TypeOK'
  BY <1>1, <1>2 DEF TypeOK, Tick, settingVars, stagingVars
<1>4. ASSUME NEW d \in Document
      PROVE  DocumentInv(d)'
  <2>1. DocumentInv(d) /\ elapsed[d] \in Nat /\ ~TimeoutDue(d)
    BY DEF EngineInv, TypeOK, Tick
  <2>2. elapsed'[d] = IF d \in Running THEN elapsed[d] + 1 ELSE elapsed[d]
    BY <1>1
  <2>3. /\ ReaderOf(d)' = ReaderOf(d) /\ AnalyzerOf(d)' = AnalyzerOf(d)
        /\ \A v : SomeOffers(v)' = SomeOffers(v)
    BY <1>1 DEF ReaderOf, AnalyzerOf, SomeOffers
  <2>4. Early \subseteq Timed /\ "pending" \notin Stage /\ "cleaning" \notin Early
    BY DEF Early, Timed, Stage, Staging
  <2>5. TimeInv(d)'
    BY <1>1, <1>2, <2>1, <2>2, <2>4 DEF DocumentInv, TimeInv, TimeoutDue, Running
  <2>6. JobInv(d)' /\ EndInv(d)' /\ StagingInv(d)'
    BY <1>1, <2>1, <2>3 DEF DocumentInv, JobInv, EndInv, StagingInv, stagingVars
  <2> QED
    BY <2>5, <2>6 DEF DocumentInv
<1>5. RowInv' /\ \A a \in Admin : PutInv(a)'
  BY <1>1 DEF EngineInv, RowInv, PutInv, settingVars, SomeOffers
<1> QED
  BY <1>3, <1>4, <1>5 DEF EngineInv

LEMMA CrashStep ==
    ASSUME TypeOK, EngineInv, NEW p \in Replica, Crash(p)
    PROVE  TypeOK' /\ EngineInv'
<1> DEFINE hit == {d \in Running : job[d].host = p}
<1>1. /\ UNCHANGED <<config, settingVars, job, elapsed, uploads, staged>>
      /\ pc' = [d \in Document |-> IF d \in hit THEN "lost" ELSE pc[d]]
      /\ orphaned' = orphaned \cup {d \in hit : pc[d] \in Staging}
      /\ faults' \in 0 .. MaxFaults
  BY EngineConstants DEF Crash, Fault, TypeOK
<1>2. hit \subseteq Document /\ \A d \in hit : pc[d] \in Stage
  BY DEF Running
<1> HIDE DEF hit
<1>3. TypeOK'
  BY <1>1, <1>2 DEF TypeOK, settingVars, Ended
<1>4. ASSUME NEW d \in Document
      PROVE  DocumentInv(d)'
  <2>1. DocumentInv(d)
    BY DEF EngineInv
  <2>2. pc'[d] = IF d \in hit THEN "lost" ELSE pc[d]
    BY <1>1
  <2>3. /\ ReaderOf(d)' = ReaderOf(d) /\ AnalyzerOf(d)' = AnalyzerOf(d)
        /\ \A v : SomeOffers(v)' = SomeOffers(v)
    BY <1>1 DEF ReaderOf, AnalyzerOf, SomeOffers
  <2>4. d \in hit => pc[d] # "pending"
    BY <1>2 DEF Stage, Staging
  <2>5. TimeInv(d)' /\ JobInv(d)'
    BY <1>1, <2>1, <2>2, <2>3, <2>4 DEF DocumentInv, TimeInv, JobInv, Early, Ended
  <2>6. EndInv(d)'
    BY <1>1, <2>1, <2>2, <2>3 DEF DocumentInv, EndInv
  <2>7. StagingInv(d)'
    BY <1>1, <2>1, <2>2 DEF DocumentInv, StagingInv, Staging
  <2> QED
    BY <2>5, <2>6, <2>7 DEF DocumentInv
<1>5. RowInv' /\ \A a \in Admin : PutInv(a)'
  BY <1>1 DEF EngineInv, RowInv, PutInv, settingVars, SomeOffers
<1> QED
  BY <1>3, <1>4, <1>5 DEF EngineInv

LEMMA EngineInit == Init => TypeOK /\ EngineInv
<1> SUFFICES ASSUME Init PROVE TypeOK /\ EngineInv
  OBVIOUS
<1>1. /\ NoSetting \in Selection /\ NoSetting.value = None /\ NoSetting.by = NoSetting.author
      /\ NoPut \in Put /\ NoPut.busy = FALSE
  BY DEF NoSetting, Selection, NoPut, Put
<1>2. /\ NoJob \in Job /\ NoJob.since = 0 /\ NoJob.asked.value = None
      /\ NoJob.engine = None /\ NoJob.outcome = None
  BY DEF NoJob, Job, Asked, FileType
<1>3. TypeOK
  BY <1>1, <1>2, EngineConstants DEF Init, TypeOK
<1>4. RowInv /\ \A a \in Admin : PutInv(a)
  BY <1>1 DEF Init, RowInv, PutInv
<1>5. ASSUME NEW d \in Document
      PROVE  DocumentInv(d)
  <2>1. pc[d] = "pending" /\ job[d] = NoJob /\ elapsed[d] = 0 /\ uploads = {} /\ staged = {}
    BY DEF Init
  <2>2. TimeInv(d) /\ StagingInv(d)
    BY <2>1 DEF TimeInv, StagingInv, Early
  <2>3. JobInv(d) /\ EndInv(d)
    BY <1>2, <2>1, EngineConstants DEF JobInv, EndInv, Ended, Code
  <2> QED
    BY <2>2, <2>3 DEF DocumentInv
<1> QED
  BY <1>3, <1>4, <1>5 DEF EngineInv

LEMMA EngineNext == TypeOK /\ EngineInv /\ [Next]_vars => TypeOK' /\ EngineInv'
<1> SUFFICES ASSUME TypeOK, EngineInv, [Next]_vars
             PROVE  TypeOK' /\ EngineInv'
  OBVIOUS
<1>1. CASE UNCHANGED vars
  <2>1. UNCHANGED <<config, setting, put, puts, pc, job, elapsed, uploads, staged, orphaned, faults>>
    BY <1>1 DEF vars, settingVars, stagingVars
  <2>2. TypeOK'
    BY <2>1 DEF TypeOK
  <2>3. \A d \in Document : DocumentInv(d)'
    BY <2>1, PipelinesKeep DEF stagingVars
  <2>4. RowInv' /\ \A a \in Admin : PutInv(a)'
    BY <2>1 DEF EngineInv, RowInv, PutInv, SomeOffers
  <2> QED
    BY <2>2, <2>3, <2>4 DEF EngineInv
<1>2. CASE Next
  BY <1>2, CommitStep, LoadStep, PipelineStep, CrashStep, TickStep DEF Next
<1> QED
  BY <1>1, <1>2

LEMMA EngineInvariance == Spec => [](TypeOK /\ EngineInv)
<1>1. Init => TypeOK /\ EngineInv
  BY EngineInit
<1>2. (TypeOK /\ EngineInv) /\ [Next]_vars => (TypeOK /\ EngineInv)'
  BY EngineNext
<1> QED
  BY <1>1, <1>2, PTL DEF Spec

-----------------------------------------------------------------------------
\* What a replica offers, but for turning the analysis off, it can run.
LEMMA OfferedRuns ==
    ASSUME NEW c \in Config, NEW v \in Offered(c), v # "none"
    PROVE  Analyzer(c, v) \in Engine
<1>1. c.keys \subseteq Llm
  BY DEF Config
<1>2. v \in Policy /\ EffectivePolicy(c, v) = v
  BY <1>1 DEF Offered, EffectivePolicy, Policy, Llm
<1>3. CASE v = "heuristic"
  BY <1>2, <1>3 DEF Analyzer, Engine
<1>4. CASE v \in c.keys
  BY <1>1, <1>2, <1>4 DEF Analyzer, Engine, Llm
<1>5. CASE v = "auto"
  <2>1. "claude" \in c.keys \/ c.keys = {"openai"} \/ c.keys = {}
    BY <1>1 DEF Llm
  <2> QED
    BY <1>2, <1>5, <2>1 DEF Analyzer, Engine, Llm
<1> QED
  BY <1>3, <1>4, <1>5 DEF Offered

\* The locals of every pipeline, and every write under way, have their types.
THEOREM EnginesTypeOK == Spec => []TypeOK
  BY EngineInvariance, PTL

\* A document finishes on the engine that its replica resolves the selection of its
\* claim to, whatever administrators choose meanwhile, or on the rule engine with a
\* warning (document_processor.py, _analyse).
THEOREM DocumentsFinishOnTheirEngine == Spec => []FinishesOnItsEngine
<1>1. TypeOK /\ EngineInv => FinishesOnItsEngine
  BY DEF EngineInv, DocumentInv, EndInv, FinishesOnItsEngine, AnalyzerOf
<1> QED
  BY <1>1, EngineInvariance, PTL

\* The failure of a paid engine never fails a document with the provider's code:
\* every engine that can be resolved to has the rules behind it.
THEOREM OutagesKeepTheDocument == Spec => []OutageKeepsTheDocument
<1>1. TypeOK /\ EngineInv => OutageKeepsTheDocument
  BY DEF EngineInv, DocumentInv, EndInv, OutageKeepsTheDocument
<1> QED
  BY <1>1, EngineInvariance, PTL

\* A document that fails because no engine was there had a selection that was torn
\* by two writers, or that a replica offered which was configured differently.
THEOREM OfferedEnginesAreThere == Spec => []OfferedEnginesRun
<1>1. ASSUME TypeOK, EngineInv, NEW d \in Document,
             pc[d] = "failed", job[d].outcome = "ai_provider_unavailable",
             ReaderOf(d) \in Reader, job[d].asked.value \notin {None, "none"}, ~job[d].asked.torn
      PROVE  \E p \in Replica : config[p] # config[job[d].host]
  <2>1. JobInv(d) /\ EndInv(d)
    BY <1>1 DEF EngineInv, DocumentInv
  <2>2. AnalyzerOf(d) \notin Engine
    BY <1>1, <2>1 DEF EndInv
  <2>3. PICK p \in Replica : job[d].asked.value \in Offered(config[p])
    BY <1>1, <2>1 DEF JobInv, SomeOffers
  <2>4. Analyzer(config[p], job[d].asked.value) \in Engine
    BY <1>1, <2>3, OfferedRuns DEF TypeOK
  <2> QED
    BY <2>2, <2>4 DEF AnalyzerOf
<1>2. TypeOK /\ EngineInv => OfferedEnginesRun
  BY <1>1 DEF OfferedEnginesRun
<1> QED
  BY <1>2, EngineInvariance, PTL

\* The row names the administrator who wrote it last, unless another commit came
\* between the load and the write (settings_service.py:70).
THEOREM AuditNamesWriters == Spec => []AuditNamesTheWriter
<1>1. TypeOK /\ EngineInv => AuditNamesTheWriter
  BY DEF EngineInv, RowInv, AuditNamesTheWriter
<1> QED
  BY <1>1, EngineInvariance, PTL

\* What lies in the staging bucket belongs to a job under way, or is left over from
\* a crash, a failed delete or a timeout with the upload still running.
THEOREM StagedFilesAreTemporary == Spec => []StagingIsTemporary
<1>1. TypeOK /\ EngineInv => StagingIsTemporary
  BY DEF EngineInv, DocumentInv, StagingInv, StagingIsTemporary, TypeOK
<1> QED
  BY <1>1, EngineInvariance, PTL

\* The deadline of the OCR poll never fires before the timeout of the pipeline.
THEOREM PollDeadlineNeverDecides == Spec => []OwnDeadlineNeverDecides
<1>1. TypeOK /\ EngineInv => OwnDeadlineNeverDecides
  BY DEF EngineInv, DocumentInv, EndInv, OwnDeadlineNeverDecides
<1> QED
  BY <1>1, EngineInvariance, PTL
=============================================================================
