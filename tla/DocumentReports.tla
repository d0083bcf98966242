-------------------------- MODULE DocumentReports --------------------------
(***************************************************************************)
(* The documents table as the readers of its figures see it: documents are *)
(* uploaded, analysed by a model or by the built-in rules, fail, run again *)
(* and are deleted, while a client pages through the list or asks a        *)
(* question.  It composes AnalysisContract and RuleEngine, which decide    *)
(* what is stored, with Reports, which computes the figures.               *)
(*                                                                         *)
(* DocumentPipeline has the races about a row and DocumentEngines the      *)
(* engines; here a run of the pipeline is its claim and its result.  Each  *)
(* figure is computed from one state of the table: the snapshot a request  *)
(* has under REPEATABLE READ.                                              *)
(***************************************************************************)
EXTENDS RuleEngine

CONSTANTS
    Owner,
    File,          \* what may be uploaded: [filename, size], as Reports has them
    Text,          \* named texts, as RuleEngine describes them, with their boundary
    Reading,       \* what reading a file may give: [text, ocr, ms, pages, detected]
    Response,      \* what a model may answer, see AnalysisContract, and its tokens
    FailCode,      \* the errors that end a run
    Question, Reply,       \* questions, and what a model may reply to them
    MaxInputChars,         \* LLM_MAX_INPUT_CHARS
    DayLength, MonthLength, StartMonth,
    WindowLength, PageSize, TopUploaders,
    Months,                \* lengths of the series a client may ask for
    Filter,                \* the lists a client may walk: [owner, status, sort, dir]
    MaxDocs, MaxRuns, MaxTime,  \* bounds: uploads, claims, ticks
    Skew                   \* bound: ticks between the stamp of a row and its commit

R == INSTANCE Reports

ASSUME ReportConstants ==
    /\ MaxInputChars \in Nat \ {0} /\ DayLength \in Nat \ {0} /\ MonthLength \in Nat \ {0}
    /\ StartMonth \in Nat /\ Months \subseteq 1 .. 12
    /\ WindowLength \in Nat \ {0} /\ PageSize \in Nat \ {0}
    /\ MaxDocs \in Nat /\ MaxRuns \in Nat /\ MaxTime \in Nat /\ Skew \in Nat
    /\ IsFiniteSet(Owner) /\ TopUploaders \in Nat \ {0} /\ MaxFloat \in Nat
    /\ None \notin Owner \cup FailCode \cup Nat /\ "internal_error" \notin FailCode \cup {None}

ASSUME TextAndAnswers ==
    /\ \A t \in DOMAIN Text :
          IsText(Text[t]) /\ Text[t].boundary \in Int /\ Text[t].boundary < Text[t].chars
    /\ \A r \in Reading : r.text \in DOMAIN Text /\ r.ms \in Nat /\ r.pages \in Nat \cup {None}
                          /\ r.detected \in Nat
    /\ \A response \in Response : IsResponse(response) /\ response.tokens \in Nat \cup {None}
    /\ \A file \in File : file.filename \in Nat /\ file.size \in Nat
    /\ \A filter \in Filter : filter.sort \in R!SortColumns
    /\ \A question \in Question : IsFiniteSet(question)
    /\ \A reply \in Reply : {reply.blank, reply.found} \subseteq BOOLEAN /\ reply.quotes \in Nat

VARIABLES
    docs,    \* the rows of documents, with their extraction, by id
    nextId,
    now,
    runs,    \* claims so far
    client   \* what the client has in front of it

vars == <<docs, nextId, now, runs, client>>

Engines == {"model", "heuristic"}
Status  == {"pending", "processing", "completed", "failed"}

\* discarded: the answer of a model that failed validation, and whether the model
\* was given the whole text.
Extraction == [text : DOMAIN Text, ocr : {r.ocr : r \in Reading}, ms : Nat, pages : Nat \cup {None},
               provider : Engines, tokens : Nat \cup {None}, confidence : 0 .. Unit,
               fields : 0 .. 101,
               discarded : [response : Response, truncated : BOOLEAN] \cup {None}]

\* What an unexpected exception in the analysis ended: no column, it says for which
\* text and in which engine the error of the row was raised.
Crash == [text : DOMAIN Text, engine : Engines]

ASSUME NoneIsNoRecord == None \notin Extraction \cup Crash

Row == [owner : Owner, filename : Nat, size : Nat, created : 0 .. MaxTime, updated : 0 .. MaxTime,
        status : Status, kind : Kind \cup {None},
        code : FailCode \cup {"internal_error", None}, crash : Crash \cup {None},
        pages : Nat \cup {None}, attempts : 0 .. MaxRuns, ex : Extraction \cup {None}]

\* A walk through the list: the page just read, what has been seen, and the history
\* of the table since the first page: stayed are the documents on the list ever since
\* that kept their sort key.
Idle == [view |-> "idle"]
Walking == client.view = "list"

TypeOK ==
    /\ DOMAIN docs \subseteq 1 .. nextId - 1 /\ nextId \in 1 .. MaxDocs + 1
    /\ \A d \in DOMAIN docs : docs[d] \in Row
    /\ now \in 0 .. MaxTime /\ runs \in 0 .. MaxRuns
    /\ client.view \in {"idle", "list"}

Init == docs = [d \in {} |-> None] /\ nextId = 1 /\ now = 0 /\ runs = 0 /\ client = Idle

-----------------------------------------------------------------------------
Listed(table) == R!Matching(table, client.status, client.owner)

\* The sort key of a document in a table, for the walk in progress.
Key(table, d) == R!SortKey(table[d], client.sort)

\* The documents that keep their place on the list, and those that move to a later one.
Moved(table) == {d \in Listed(docs) \cap Listed(table) : Key(table, d) # Key(docs, d)}
Sunk(table)  == {d \in Moved(table) : R!Precedes(Key(docs, d), Key(table, d), client.dir)}

\* Every change of the table is noted by a walk in progress.
Write(table) ==
    /\ docs' = table
    /\ client' = IF ~Walking THEN client
                 ELSE [client EXCEPT
                     !.stayed = (@ \cap Listed(table)) \ Moved(table),
                     !.left   = @ \/ ~(Listed(docs) \subseteq Listed(table)) \/ Sunk(table) # {},
                     !.joined = @ \/ ~(Listed(table) \subseteq Listed(docs)) \/ Moved(table) # {}]

\* A replica stamps what it writes before its commit makes it visible.
Stamps == Max({0, now - Skew}) .. now

\* Every UPDATE of a row stamps updated_at (onupdate of models/base.py).
Update(d, row) == \E updated \in Stamps : Write([docs EXCEPT ![d] = [row EXCEPT !.updated = updated]])

Tick ==
    /\ now < MaxTime /\ now' = now + 1
    /\ UNCHANGED <<docs, nextId, runs, client>>

Upload(owner, file, created) ==
    /\ nextId <= MaxDocs /\ nextId' = nextId + 1
    /\ Write([d \in DOMAIN docs \cup {nextId} |-> IF d # nextId THEN docs[d] ELSE
           [owner |-> owner, filename |-> file.filename, size |-> file.size,
            created |-> created, updated |-> created, status |-> "pending", kind |-> None,
            code |-> None, crash |-> None, pages |-> None, attempts |-> 0, ex |-> None]])
    /\ UNCHANGED <<now, runs>>

Claim(d) ==
    /\ docs[d].status = "pending"
    /\ runs < MaxRuns /\ runs' = runs + 1
    /\ Update(d, [docs[d] EXCEPT !.status = "processing", !.code = None, !.crash = None,
                                 !.attempts = @ + 1])
    /\ UNCHANGED <<nextId, now>>

\* _persist writes the extraction and what the row copies from it.
Persisted(d, r, a, provider, tokens, discarded) ==
    [docs[d] EXCEPT !.status = "completed", !.code = None, !.crash = None,
        !.kind = a.kind, !.pages = r.pages,
        !.ex = [text |-> r.text, ocr |-> r.ocr, ms |-> r.ms, pages |-> r.pages,
                provider |-> provider, tokens |-> tokens, confidence |-> a.confidence,
                fields |-> MergeExtractorFields(a.fields, r.detected), discarded |-> discarded]]

\* mark_failed for an exception that is no error of the application: type, pages and
\* extraction of an earlier run stay.
Crashed(d, r, engine) ==
    [docs[d] EXCEPT !.status = "failed", !.code = "internal_error",
                    !.crash = [text |-> r.text, engine |-> engine]]

Truncated(t) == TruncateForModel(Text[t].chars, Text[t].boundary, MaxInputChars) < Text[t].chars

AnalysedByModel(d, r, response) ==
    /\ docs[d].status = "processing"
    /\ ~Raises(response) /\ Valid(Analysis(response, Truncated(r.text)))
    /\ Update(d, Persisted(d, r, Analysis(response, Truncated(r.text)), "model", response.tokens, None))
    /\ UNCHANGED <<nextId, now, runs>>

RulesFor == [t \in DOMAIN Text |-> RuleAnalysis(Text[t])]

\* What the rules return is validated as well: outside of the AIProviderErrors.
ByRules(d, r, discarded) ==
    IF Valid(RulesFor[r.text])
    THEN Persisted(d, r, RulesFor[r.text], "heuristic", None, discarded)
    ELSE Crashed(d, r, "heuristic")

\* An answer that fails validation is an AIProviderError: the rules stand in.
ModelDiscarded(d, r, response) ==
    /\ docs[d].status = "processing"
    /\ ~Raises(response) /\ ~Valid(Analysis(response, Truncated(r.text)))
    /\ Update(d, ByRules(d, r, [response |-> response, truncated |-> Truncated(r.text)]))
    /\ UNCHANGED <<nextId, now, runs>>

\* The repair of an answer is outside of the adapter's try block, and what it raises is
\* no AIProviderError.
ModelCrashes(d, r, response) ==
    /\ docs[d].status = "processing"
    /\ Raises(response)
    /\ Update(d, Crashed(d, r, "model"))
    /\ UNCHANGED <<nextId, now, runs>>

\* By selection, without an API key, or because the model did not answer.
AnalysedByRules(d, r) ==
    /\ docs[d].status = "processing"
    /\ Update(d, ByRules(d, r, None))
    /\ UNCHANGED <<nextId, now, runs>>

\* mark_failed: type, pages and extraction of an earlier run stay.
Fail(d, code) ==
    /\ docs[d].status = "processing"
    /\ Update(d, [docs[d] EXCEPT !.status = "failed", !.code = code, !.crash = None])
    /\ UNCHANGED <<nextId, now, runs>>

Reprocess(d) ==
    /\ docs[d].status \in {"completed", "failed"} /\ runs < MaxRuns
    /\ Update(d, [docs[d] EXCEPT !.status = "pending", !.code = None, !.crash = None])
    /\ UNCHANGED <<nextId, now, runs>>

Delete(d) ==
    /\ Write([e \in DOMAIN docs \ {d} |-> docs[e]])
    /\ UNCHANGED <<nextId, now, runs>>

-----------------------------------------------------------------------------
\* One GET of the list; has_next is computed from the total of the same request.
Read(order, page, view) ==
    LET ids == {R!PageOf(order, page, PageSize)[i] : i \in DOMAIN R!PageOf(order, page, PageSize)}
    IN [view EXCEPT !.page = page, !.again = @ \/ ids \cap view.seen # {},
                    !.seen = @ \cup ids, !.more = page < R!TotalPages(Len(order), PageSize)]

OpenList(filter) ==
    /\ client = Idle
    /\ LET listed == R!Matching(docs, filter.status, filter.owner) IN
       \E order \in R!ListOrders(docs, listed, filter.sort, filter.dir) :
          client' = Read(order, 1,
              [view |-> "list", owner |-> filter.owner, status |-> filter.status,
               sort |-> filter.sort, dir |-> filter.dir, page |-> 0,
               seen |-> {}, more |-> TRUE, again |-> FALSE,
               stayed |-> listed, left |-> FALSE, joined |-> FALSE])
    /\ UNCHANGED <<docs, nextId, now, runs>>

NextPage ==
    /\ Walking /\ client.more
    /\ \E order \in R!ListOrders(docs, Listed(docs), client.sort, client.dir) :
          client' = Read(order, client.page + 1, client)
    /\ UNCHANGED <<docs, nextId, now, runs>>

Leave ==
    /\ client # Idle
    /\ client' = Idle
    /\ UNCHANGED <<docs, nextId, now, runs>>

-----------------------------------------------------------------------------
\* ask_document: 409 unless the document is completed and its text is stored; the
\* analyser is that of the environment, and its failure is a 502.
Askable(d) == docs[d].status = "completed" /\ docs[d].ex # None

AnswerTo == [t \in DOMAIN Text |-> [question \in Question |-> Answer(Text[t], question)]]

Next ==
    \/ Tick \/ NextPage \/ Leave
    \/ \E owner \in Owner, file \in File, created \in Stamps : Upload(owner, file, created)
    \/ \E filter \in Filter : OpenList(filter)
    \/ \E d \in DOMAIN docs :
          \/ Claim(d) \/ Reprocess(d) \/ Delete(d)
          \/ \E code \in FailCode : Fail(d, code)
          \/ \E r \in Reading :
                \/ AnalysedByRules(d, r)
                \/ \E response \in Response :
                      \/ AnalysedByModel(d, r, response) \/ ModelDiscarded(d, r, response)
                      \/ ModelCrashes(d, r, response)

Spec == Init /\ [][Next]_vars

-----------------------------------------------------------------------------
\* "Repairing those here keeps one bad value from discarding an otherwise good
\* analysis" (analysis_contract.py:226): whatever a model answers within the schema,
\* only twenty warnings of its own on a truncated text discard it, by the one the
\* adapter adds (claude_analyzer.py:135).
OnlyTruncationDiscards ==
    \A d \in DOMAIN docs :
        docs[d].ex # None /\ docs[d].ex.discarded # None =>
            docs[d].ex.discarded.truncated /\ docs[d].ex.discarded.response.warnings >= 20

\* heuristic.py:30 calls the rules "a floor on quality", and _analyse lets them stand in
\* for a model "not [to] lose the document".  They are that but for one gap: they end a
\* document in internal_error exactly for a text with an amount longer than a field may
\* be, under a key that no label has (heuristic.py:458).  No other cap of the schema is
\* ever exceeded, and where that one is nothing is stored.
CrashesAreExplained ==
    \A d \in DOMAIN docs :
        /\ docs[d].code = "internal_error" =>
              /\ docs[d].status = "failed" /\ docs[d].crash # None
              /\ docs[d].crash.engine = "heuristic" => Overlong(Text[docs[d].crash.text])
        /\ docs[d].ex # None /\ docs[d].ex.provider = "heuristic" => ~Overlong(Text[docs[d].ex.text])

SumOf(f) == Total(f, DOMAIN f)

\* The panels of one window describe the same documents (analytics.py: "a share of
\* failures that does not sum to 100% ... gets a dashboard distrusted"): whatever they
\* group by and join, each adds up to the totals, and each extraction is counted once
\* per stage, has a confidence in exactly one bucket, and cost tokens only with a model.
PanelsAgree ==
    \A owner \in Owner \cup {None} :
        LET D == R!Window(docs, now - WindowLength, now, owner)
            totals == R!Totals(docs, D)
            types == R!ByType(docs, D)
            daily == R!Daily(docs, D)
            perf == R!Performance(docs, D)
        IN /\ totals.documents = totals.completed + totals.failed + totals.in_progress
           /\ totals.documents = SumOf([k \in DOMAIN types |-> types[k].documents])
           /\ totals.failed = SumOf([k \in DOMAIN types |-> types[k].failed])
           /\ totals.failed = SumOf(R!Failures(docs, D))
           /\ totals.documents = SumOf([x \in DOMAIN daily |-> daily[x].documents])
           /\ totals.completed = SumOf([x \in DOMAIN daily |-> daily[x].completed])
           /\ totals.completed <= perf.samples /\ perf.samples <= totals.documents
           /\ perf.samples = SumOf(R!Confidence(docs, D))
           /\ perf.samples = SumOf(R!Providers(docs, D).text_extraction)
           /\ perf.samples = SumOf(R!Providers(docs, D).analysis)
           /\ R!Tokens(docs, D).documents <=
                  Cardinality({d \in R!Extracted(docs, D) : docs[d].ex.provider = "model"})
           /\ \A top \in R!Uploaders(docs, D, TopUploaders) :
                 /\ SumOf(top) <= totals.documents
                 /\ totals.documents <= SumOf(top) * Cardinality(Owner)
                 /\ Cardinality(Owner) <= TopUploaders => totals.documents = SumOf(top)

\* _percentile, "clamped to the last index": a percentile exists whenever there is a
\* sample, no more than that part of the samples lies below it, the rest does not lie
\* above the next, and the median, p95 and the slowest are in order.
PercentilesBracket ==
    \A owner \in Owner \cup {None} :
        LET D == R!Window(docs, now - WindowLength, now, owner)
            ms == [d \in R!Extracted(docs, D) |-> docs[d].ex.ms]
            perf == R!Performance(docs, D)
            n == Cardinality(DOMAIN ms)
            brackets(p, percent) ==
                /\ p # None
                /\ 100 * Cardinality({d \in DOMAIN ms : ms[d] < p}) <= percent * n
                /\ 100 * Cardinality({d \in DOMAIN ms : ms[d] <= p}) >= percent * n
        IN n > 0 => /\ brackets(perf.p50, 50) /\ brackets(perf.p95, 95)
                    /\ perf.p50 <= perf.p95 /\ perf.p95 <= perf.slowest

\* _overall_confidence: "a rule-based engine should never claim the confidence of a
\* real model" - in every window the top bucket holds no more documents than a model
\* has analysed.
RulesNeverOutrank ==
    \A owner \in Owner \cup {None} :
        LET D == R!Window(docs, now - WindowLength, now, owner)
            by == R!Providers(docs, D).analysis
        IN R!Confidence(docs, D)[4] <= IF "model" \in DOMAIN by THEN by["model"] ELSE 0

\* The stat cards compare adjoining windows: a document is in at most one of them,
\* together they are the double window, they show what the analytics page shows for
\* the same window, and an arrow points down exactly for a decrease.
DashboardsAgree ==
    \A owner \in Owner \cup {None} :
        LET current  == R!WindowMetrics(docs, now - WindowLength, now, owner)
            previous == R!WindowMetrics(docs, now - 2 * WindowLength, now - WindowLength, owner)
            totals   == R!Totals(docs, R!Window(docs, now - WindowLength, now, owner))
            stats    == R!Stats(docs, now, WindowLength, owner)
        IN /\ current.documents + previous.documents =
                  Cardinality(R!Window(docs, now - 2 * WindowLength, now, owner))
           /\ <<current.documents, current.completed, current.failed, current.pages>> =
                  <<totals.documents, totals.completed, totals.failed, totals.pages>>
           /\ R!SuccessRate(current) = R!Share(totals.completed, totals.completed + totals.failed)
           /\ stats.documents.trend = "down" <=> current.documents < previous.documents
           /\ stats.pages.trend = "down" <=> current.pages < previous.pages

MonthsUpTo == [t \in 0 .. MaxTime |-> [n \in Months |-> R!MonthBuckets(t, n)]]

\* month_buckets and monthly_document_counts: the months are the n last ones without a
\* gap, across the turn of the year, no label occurs twice, and every document of
\* those months is in exactly one bar.
SeriesIsComplete ==
    \A months \in Months :
        LET buckets == MonthsUpTo[now][months] IN
        /\ Len(buckets) = months
        /\ buckets[months].start <= now /\ now < buckets[months].end
        /\ \A i \in 1 .. months - 1 : buckets[i].end = buckets[i + 1].start
        /\ Cardinality({buckets[i].label : i \in 1 .. months}) = months
        /\ \A owner \in Owner \cup {None} :
              SumOf(R!Series(docs, buckets, owner)) =
                  Cardinality({d \in R!Scope(docs, owner) :
                      docs[d].created \div MonthLength > (now \div MonthLength) - months})

\* list_documents: "Tie-break on the primary key so paging is stable".  A client that reads
\* page after page sees every document that was on the list all the time with the same
\* sort key, unless some document left the list meanwhile or moved to a later place; and
\* it sees one twice only if some document joined the list or moved.  Only a list by
\* updated_at has documents that move, with every change of their status.
PagingIsComplete ==
    Walking => /\ ~client.more /\ ~client.left => client.stayed \subseteq client.seen
               /\ client.again => client.joined

\* answer_found stands for something: the model's with a non-empty answer, "a confident
\* blank" otherwise; that of the rules with at most three quotes, among them a passage
\* that has a third of the words of the question, or nearly so.
AnswersAreGrounded ==
    \A d \in {e \in DOMAIN docs : Askable(e)} :
        /\ \A reply \in Reply : CoerceAnswer(reply).found =>
              ~CoerceAnswer(reply).blank /\ CoerceAnswer(reply).quotes <= 5
        /\ \A question \in Question :
              LET answer == AnswerTo[docs[d].ex.text][question]
                  words(i) == Text[docs[d].ex.text].sentences[i].words
              IN answer.found =>
                    /\ Cardinality(answer.quotes) \in 1 .. 3
                    /\ \E i \in answer.quotes :
                          4 * Cardinality(words(i) \cap question) > Cardinality(question)
=============================================================================
