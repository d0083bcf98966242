----------------------- MODULE DocumentReportsProofs -----------------------
(***************************************************************************)
(* Theorems about DocumentReports: for any texts and answers of a model,   *)
(* any uploads, windows and page sizes, every figure agrees with the       *)
(* others, every walk through the list is complete as long as nothing      *)
(* leaves or moves, and no row has an internal error without its cause.    *)
(*                                                                         *)
(* The invariant is ReportsInv: what a run leaves in a row, and where the  *)
(* documents of a walk stand in the order of its list.                     *)
(***************************************************************************)
EXTENDS DocumentReports, AnalysisProofs

-----------------------------------------------------------------------------
(* What a run leaves behind.                                                *)

\* Only a model costs tokens, only a model is sure, and only twenty warnings discard it;
\* the rules store nothing for a text with an overlong amount.
ExtractionOK(ex) ==
    /\ ex.provider = "heuristic" => ex.tokens = None /\ ex.confidence <= 7800 /\ ~Overlong(Text[ex.text])
    /\ ex.discarded # None => ex.discarded.truncated /\ ex.discarded.response.warnings >= 20

Explained(crash) == crash \in Crash /\ (crash.engine = "heuristic" => Overlong(Text[crash.text]))

\* A completed document has its extraction, a failed one its error, an internal error
\* its cause.
RowOK(row) ==
    /\ row.status = "completed" => row.ex # None
    /\ row.status = "failed" => row.code # None
    /\ row.code = "internal_error" => row.status = "failed" /\ Explained(row.crash)
    /\ row.ex # None => ExtractionOK(row.ex)

GoodRow(row) == row \in Row /\ RowOK(row)

LEMMA RowFields ==
    ASSUME NEW row \in Row
    PROVE  /\ row.owner \in Owner /\ row.created \in 0 .. MaxTime /\ row.status \in Status
           /\ row.updated \in 0 .. MaxTime /\ row.filename \in Nat /\ row.size \in Nat
           /\ row.kind \in Kind \cup {None} /\ row.code \in FailCode \cup {"internal_error", None}
           /\ row.pages \in Nat \cup {None} /\ row.attempts \in 0 .. MaxRuns
           /\ row.ex \in Extraction \cup {None}
           /\ row.ex = None \/ row.ex \in Extraction
  BY DEF Row

LEMMA ExtractionFields ==
    ASSUME NEW ex \in Extraction
    PROVE  /\ ex # None /\ ex.text \in DOMAIN Text /\ ex.ms \in Nat /\ ex.provider \in Engines
           /\ ex.tokens \in Nat \cup {None} /\ ex.confidence \in 0 .. Unit
  BY NoneIsNoRecord DEF Extraction

\* A claim, a failure and a reprocess change these four fields only.
Restated(row, status, code, attempts) ==
    [row EXCEPT !.status = status, !.code = code, !.crash = None, !.attempts = attempts]

LEMMA RestatedFields ==
    ASSUME NEW row \in Row, NEW status \in Status, NEW code \in FailCode \cup {None},
           NEW attempts \in 0 .. MaxRuns
    PROVE  LET new == Restated(row, status, code, attempts) IN
           /\ new \in Row
           /\ new.status = status /\ new.code = code /\ new.attempts = attempts
           /\ new.ex = row.ex /\ new.owner = row.owner
           /\ new.created = row.created
  BY DEF Restated, Row

LEMMA RestatedGood ==
    ASSUME NEW row, GoodRow(row), NEW status \in Status \ {"completed"}, NEW code \in FailCode \cup {None},
           status = "failed" => code \in FailCode, NEW attempts \in 0 .. MaxRuns
    PROVE  /\ GoodRow(Restated(row, status, code, attempts))
           /\ Restated(row, status, code, attempts).attempts = attempts
           /\ Restated(row, status, code, attempts).created = row.created
<1> DEFINE new == Restated(row, status, code, attempts)
<1>1. row \in Row /\ status \in Status
  BY DEF GoodRow
<1>2. /\ new \in Row
      /\ new.status = status /\ new.code = code /\ new.attempts = attempts
      /\ new.ex = row.ex
      /\ new.created = row.created
  BY <1>1, RestatedFields
<1>3. code # "internal_error" /\ None \notin FailCode
  BY ReportConstants
<1> HIDE DEF new
<1>4. RowOK(new)
  BY <1>2, <1>3 DEF RowOK, GoodRow
<1> USE DEF new
<1> QED
  BY <1>2, <1>4 DEF GoodRow

-----------------------------------------------------------------------------
\* A completion changes these.
Filed(row, kind, pages, ex) ==
    [row EXCEPT !.status = "completed", !.code = None, !.crash = None,
                !.kind = kind, !.pages = pages, !.ex = ex]

LEMMA FiledFields ==
    ASSUME NEW row \in Row, NEW kind \in Kind, NEW pages \in Nat \cup {None}, NEW ex \in Extraction
    PROVE  LET new == Filed(row, kind, pages, ex) IN
           /\ new \in Row
           /\ new.status = "completed" /\ new.code = None /\ new.ex = ex
           /\ new.attempts = row.attempts
           /\ new.created = row.created
  BY DEF Filed, Row, Status

\* What a run may store: an analysis of a text, whose it is and what of a model was
\* discarded.
Storable(text, a, provider, tokens, discarded) ==
    /\ a.kind \in Kind /\ a.confidence \in 0 .. Unit /\ a.fields \in 0 .. 100
    /\ provider \in Engines /\ tokens \in Nat \cup {None}
    /\ provider = "heuristic" => tokens = None /\ a.confidence <= 7800 /\ ~Overlong(Text[text])
    /\ discarded \in [response : Response, truncated : BOOLEAN] \cup {None}
    /\ discarded # None => discarded.truncated /\ discarded.response.warnings >= 20

Stored(r, a, provider, tokens, discarded) ==
    [text |-> r.text, ocr |-> r.ocr, ms |-> r.ms, pages |-> r.pages,
     provider |-> provider, tokens |-> tokens, confidence |-> a.confidence,
     fields |-> MergeExtractorFields(a.fields, r.detected), discarded |-> discarded]

LEMMA ReadingFields ==
    ASSUME NEW r \in Reading
    PROVE  /\ r.text \in DOMAIN Text /\ r.ms \in Nat /\ r.pages \in Nat \cup {None} /\ r.detected \in Nat
           /\ r.ocr \in {q.ocr : q \in Reading}
  BY TextAndAnswers

LEMMA StoredGood ==
    ASSUME NEW r \in Reading, NEW a, NEW provider, NEW tokens, NEW discarded,
           Storable(r.text, a, provider, tokens, discarded)
    PROVE  LET ex == Stored(r, a, provider, tokens, discarded) IN
           ex \in Extraction /\ ExtractionOK(ex) /\ ex # None
<1> DEFINE ex == Stored(r, a, provider, tokens, discarded)
<1>1. a.fields \in 0 .. 100 /\ r.detected \in Nat
  BY ReadingFields DEF Storable
<1>2. MergeExtractorFields(a.fields, r.detected) \in 0 .. 101
  BY <1>1, MergeBounded
<1>3. /\ a.confidence \in 0 .. Unit /\ provider \in Engines /\ tokens \in Nat \cup {None}
      /\ discarded \in [response : Response, truncated : BOOLEAN] \cup {None}
  BY DEF Storable
<1> DEFINE fields == MergeExtractorFields(a.fields, r.detected)
           confidence == a.confidence
<1>4. ex = [text |-> r.text, ocr |-> r.ocr, ms |-> r.ms, pages |-> r.pages,
            provider |-> provider, tokens |-> tokens, confidence |-> confidence,
            fields |-> fields, discarded |-> discarded]
  BY DEF Stored
<1>5. fields \in 0 .. 101 /\ confidence \in 0 .. Unit
  BY <1>2, <1>3
<1> HIDE DEF fields, confidence, ex
<1>6. ex \in Extraction
  BY <1>3, <1>4, <1>5, ReadingFields DEF Extraction
<1>7. /\ ex.provider = provider /\ ex.tokens = tokens /\ ex.confidence = confidence
      /\ ex.discarded = discarded /\ ex.text = r.text
  BY <1>4
<1>8. /\ provider = "heuristic" => tokens = None /\ confidence <= 7800 /\ ~Overlong(Text[r.text])
      /\ discarded # None => discarded.truncated /\ discarded.response.warnings >= 20
  BY DEF Storable, confidence
<1>9. ExtractionOK(ex)
  BY <1>7, <1>8 DEF ExtractionOK
<1>10. ex # None
  BY <1>6, ExtractionFields
<1> USE DEF ex
<1> QED
  BY <1>6, <1>9, <1>10

\* What _persist writes is good.
LEMMA PersistedGood ==
    ASSUME NEW d \in DOMAIN docs, GoodRow(docs[d]), NEW r \in Reading,
           NEW a, NEW provider, NEW tokens, NEW discarded,
           Storable(r.text, a, provider, tokens, discarded)
    PROVE  LET new == Persisted(d, r, a, provider, tokens, discarded) IN
           GoodRow(new) /\ new.attempts = docs[d].attempts /\ new.created = docs[d].created
<1> DEFINE ex == Stored(r, a, provider, tokens, discarded)
           row == docs[d]
           kind == a.kind
           pages == r.pages
           new == Persisted(d, r, a, provider, tokens, discarded)
<1>1. ex \in Extraction /\ ExtractionOK(ex) /\ ex # None
  BY StoredGood
<1>2. new = Filed(row, kind, pages, ex)
  BY DEF Persisted, Filed, Stored
<1>3. row \in Row /\ kind \in Kind /\ pages \in Nat \cup {None}
  BY ReadingFields DEF GoodRow, Storable
<1> HIDE DEF row, kind, pages, ex, new
<1>4. /\ new \in Row /\ new.status = "completed" /\ new.code = None /\ new.ex = ex
      /\ new.attempts = row.attempts
      /\ new.created = row.created
  BY <1>1, <1>2, <1>3, FiledFields
<1>5. None # "internal_error"
  BY ReportConstants
<1>6. RowOK(new)
  BY <1>1, <1>4, <1>5 DEF RowOK
<1>7. GoodRow(new) /\ new.attempts = row.attempts /\ new.created = row.created
  BY <1>4, <1>6 DEF GoodRow
<1> USE DEF new, row
<1> QED
  BY <1>7

\* What an unexpected exception leaves is good, when it has its cause.
LEMMA CrashedGood ==
    ASSUME NEW d \in DOMAIN docs, GoodRow(docs[d]), NEW r \in Reading, NEW engine \in Engines,
           engine = "heuristic" => Overlong(Text[r.text])
    PROVE  LET new == Crashed(d, r, engine) IN
           GoodRow(new) /\ new.attempts = docs[d].attempts /\ new.created = docs[d].created
<1> DEFINE row == docs[d]
           crash == [text |-> r.text, engine |-> engine]
           new == [row EXCEPT !.status = "failed", !.code = "internal_error", !.crash = crash]
<1>1. crash \in Crash /\ crash.text = r.text /\ crash.engine = engine
  BY ReadingFields DEF Crash
<1>2. row \in Row /\ RowOK(row)
  BY DEF GoodRow
<1>3. Explained(crash)
  BY <1>1 DEF Explained
<1>4. new = Crashed(d, r, engine)
  BY DEF Crashed
<1> HIDE DEF row, crash
<1>5. /\ new \in Row /\ new.status = "failed" /\ new.code = "internal_error" /\ new.crash = crash
      /\ new.ex = row.ex /\ new.attempts = row.attempts
      /\ new.created = row.created
  BY <1>1, <1>2 DEF Row, Status
<1> HIDE DEF new
<1>6. "internal_error" # None
  BY ReportConstants
<1>7. RowOK(new)
  BY <1>2, <1>3, <1>5, <1>6 DEF RowOK
<1>8. GoodRow(new) /\ new.attempts = row.attempts /\ new.created = row.created
  BY <1>5, <1>7 DEF GoodRow
<1> USE DEF row
<1> QED
  BY <1>4, <1>8

-----------------------------------------------------------------------------
(* The steps, by what they do to the table.                                 *)

\* Each document is as a run left it, has been claimed no more often than there were
\* claims, and was uploaded before now.
TableInv ==
    /\ TypeOK
    /\ docs = [d \in DOMAIN docs |-> docs[d]]
    /\ \A d \in DOMAIN docs :
          GoodRow(docs[d]) /\ docs[d].attempts <= runs /\ docs[d].created <= now

\* new is the row as it is written, with its stamp.
Updates(d, new) ==
    /\ d \in DOMAIN docs /\ Write([docs EXCEPT ![d] = new])
    /\ GoodRow(new) /\ new.created = docs[d].created
    /\ runs' \in runs .. MaxRuns /\ new.attempts <= runs'
    /\ nextId' = nextId /\ now' = now

LEMMA StampsArePast == ASSUME TypeOK, NEW stamp \in Stamps PROVE stamp \in 0 .. MaxTime /\ stamp <= now
<1>1. now \in 0 .. MaxTime /\ MaxTime \in Nat /\ Skew \in Nat
  BY ReportConstants DEF TypeOK
<1> DEFINE low == now - Skew
<1>2. low \in Int /\ 0 \in Int
  BY <1>1
<1>3. Stamps = Max({0, low}) .. now
  BY DEF Stamps
<1> HIDE DEF low
<1>4. Max({0, low}) = IF 0 >= low THEN 0 ELSE low
  BY <1>2, MaxOfTwo
<1> QED
  BY <1>1, <1>2, <1>3, <1>4

LEMMA StampedGood ==
    ASSUME NEW row, GoodRow(row), NEW updated \in 0 .. MaxTime
    PROVE  LET new == [row EXCEPT !.updated = updated] IN
           GoodRow(new) /\ new.attempts = row.attempts /\ new.created = row.created
<1> DEFINE new == [row EXCEPT !.updated = updated]
<1>1. row \in Row /\ RowOK(row)
  BY DEF GoodRow
<1>2. /\ new \in Row /\ new.status = row.status /\ new.code = row.code /\ new.crash = row.crash
      /\ new.ex = row.ex /\ new.attempts = row.attempts
      /\ new.created = row.created
  BY <1>1 DEF Row
<1> HIDE DEF new
<1>3. RowOK(new)
  BY <1>1, <1>2 DEF RowOK
<1> USE DEF new
<1> QED
  BY <1>2, <1>3 DEF GoodRow

\* An UPDATE of a good row writes a good row.
LEMMA UpdateIs ==
    ASSUME TableInv, NEW d \in DOMAIN docs, NEW row, Update(d, row),
           GoodRow(row), row.created = docs[d].created,
           runs' \in runs .. MaxRuns, row.attempts <= runs', nextId' = nextId, now' = now
    PROVE  \E new : Updates(d, new)
<1>1. PICK updated \in Stamps : Write([docs EXCEPT ![d] = [row EXCEPT !.updated = updated]])
  BY DEF Update
<1>2. updated \in 0 .. MaxTime
  BY <1>1, StampsArePast DEF TableInv
<1> DEFINE new == [row EXCEPT !.updated = updated]
<1>3. GoodRow(new) /\ new.attempts = row.attempts /\ new.created = row.created
  BY <1>2, StampedGood
<1>4. Write([docs EXCEPT ![d] = new])
  BY <1>1
<1> HIDE DEF new
<1>5. new.created = docs[d].created
  BY <1>3
<1> QED
  BY <1>3, <1>4, <1>5 DEF Updates

LEMMA ClaimUpdates ==
    ASSUME TableInv, NEW d \in DOMAIN docs, Claim(d)
    PROVE  \E new : Updates(d, new)
<1> DEFINE row == docs[d]
           new == Restated(row, "processing", None, row.attempts + 1)
<1>1. GoodRow(row) /\ row.attempts <= runs /\ row.attempts \in 0 .. MaxRuns /\ runs \in 0 .. MaxRuns
  BY RowFields DEF TableInv, TypeOK, GoodRow
<1>2. runs < MaxRuns /\ runs' = runs + 1 /\ nextId' = nextId /\ now' = now
  BY DEF Claim
<1>3. Update(d, [docs[d] EXCEPT !.status = "processing", !.code = None, !.crash = None,
                                !.attempts = @ + 1])
  BY DEF Claim
<1>4. Update(d, new)
  BY <1>3 DEF Restated
<1>5. row.attempts + 1 \in 0 .. MaxRuns /\ row.attempts + 1 <= runs' /\ runs' \in runs .. MaxRuns
  BY <1>1, <1>2, ReportConstants
<1> DEFINE n == row.attempts + 1
<1>6. "processing" \in Status \ {"completed"} /\ None \in FailCode \cup {None} /\ n \in 0 .. MaxRuns
  BY <1>5 DEF Status
<1>7. new = Restated(row, "processing", None, n)
  OBVIOUS
<1> HIDE DEF row, new, n
<1>8. GoodRow(new) /\ new.attempts = n /\ new.created = row.created
  BY <1>1, <1>6, <1>7, RestatedGood
<1> USE DEF n, row
<1> QED
  BY <1>2, <1>4, <1>5, <1>8, UpdateIs

LEMMA RestUpdates ==
    ASSUME TableInv, NEW d \in DOMAIN docs, NEW status \in Status \ {"completed"},
           NEW code \in FailCode \cup {None}, status = "failed" => code \in FailCode,
           Update(d, [docs[d] EXCEPT !.status = status, !.code = code, !.crash = None]),
           UNCHANGED <<nextId, now, runs>>
    PROVE  \E new : Updates(d, new)
<1> DEFINE row == docs[d]
           n == row.attempts
           new == Restated(row, status, code, n)
<1>1. GoodRow(row) /\ n <= runs /\ n \in 0 .. MaxRuns /\ runs \in 0 .. MaxRuns
  BY RowFields DEF TableInv, TypeOK, GoodRow
<1>2. Update(d, new)
  <2>1. row \in Row
    BY <1>1 DEF GoodRow
  <2>2. new = [row EXCEPT !.status = status, !.code = code, !.crash = None]
    BY <2>1 DEF Restated, Row
  <2> QED
    BY <2>2
<1> HIDE DEF row, new, n
<1>3. GoodRow(new) /\ new.attempts = n /\ new.created = row.created
  BY <1>1, RestatedGood DEF new
<1>4. runs' \in runs .. MaxRuns /\ new.attempts <= runs'
  BY <1>1, <1>3
<1> USE DEF row
<1> QED
  BY <1>2, <1>3, <1>4, UpdateIs

LEMMA FailUpdates ==
    ASSUME TableInv, NEW d \in DOMAIN docs, NEW code \in FailCode, Fail(d, code)
    PROVE  \E new : Updates(d, new)
<1>1. /\ Update(d, [docs[d] EXCEPT !.status = "failed", !.code = code, !.crash = None])
      /\ UNCHANGED <<nextId, now, runs>>
  BY DEF Fail
<1>2. "failed" \in Status \ {"completed"} /\ code \in FailCode \cup {None}
  BY DEF Status
<1> QED
  BY <1>1, <1>2, RestUpdates

LEMMA ReprocessUpdates ==
    ASSUME TableInv, NEW d \in DOMAIN docs, Reprocess(d)
    PROVE  \E new : Updates(d, new)
<1>1. /\ Update(d, [docs[d] EXCEPT !.status = "pending", !.code = None, !.crash = None])
      /\ UNCHANGED <<nextId, now, runs>>
  BY DEF Reprocess
<1>2. "pending" \in Status \ {"completed"} /\ None \in FailCode \cup {None}
  BY DEF Status
<1> QED
  BY <1>1, <1>2, RestUpdates

\* A result of a run, whichever it is.
LEMMA ResultUpdates ==
    ASSUME TableInv, NEW d \in DOMAIN docs, NEW new,
           GoodRow(new), new.attempts = docs[d].attempts, new.created = docs[d].created,
           Update(d, new), UNCHANGED <<nextId, now, runs>>
    PROVE  \E row : Updates(d, row)
<1>1. GoodRow(docs[d]) /\ docs[d].attempts <= runs /\ docs[d].attempts \in 0 .. MaxRuns /\ runs \in 0 .. MaxRuns
  BY RowFields DEF TableInv, TypeOK, GoodRow
<1>2. runs' \in runs .. MaxRuns /\ new.attempts <= runs'
  BY <1>1
<1> QED
  BY <1>2, UpdateIs

LEMMA PersistUpdates ==
    ASSUME TableInv, NEW d \in DOMAIN docs, NEW r \in Reading,
           NEW a, NEW provider, NEW tokens, NEW discarded,
           Storable(r.text, a, provider, tokens, discarded),
           Update(d, Persisted(d, r, a, provider, tokens, discarded)),
           UNCHANGED <<nextId, now, runs>>
    PROVE  \E new : Updates(d, new)
<1> DEFINE new == Persisted(d, r, a, provider, tokens, discarded)
<1>1. GoodRow(docs[d])
  BY DEF TableInv
<1>2. GoodRow(new) /\ new.attempts = docs[d].attempts /\ new.created = docs[d].created
  BY <1>1, PersistedGood
<1>3. Update(d, new)
  OBVIOUS
<1> HIDE DEF new
<1> QED
  BY <1>2, <1>3, ResultUpdates

LEMMA CrashUpdates ==
    ASSUME TableInv, NEW d \in DOMAIN docs, NEW r \in Reading, NEW engine \in Engines,
           engine = "heuristic" => Overlong(Text[r.text]),
           Update(d, Crashed(d, r, engine)), UNCHANGED <<nextId, now, runs>>
    PROVE  \E new : Updates(d, new)
<1> DEFINE new == Crashed(d, r, engine)
<1>1. GoodRow(docs[d])
  BY DEF TableInv
<1>2. GoodRow(new) /\ new.attempts = docs[d].attempts /\ new.created = docs[d].created
  BY <1>1, CrashedGood
<1>3. Update(d, new)
  OBVIOUS
<1> HIDE DEF new
<1> QED
  BY <1>2, <1>3, ResultUpdates

LEMMA TextFits ==
    ASSUME NEW r \in Reading
    PROVE  /\ IsText(Text[r.text]) /\ RulesFor[r.text] = RuleAnalysis(Text[r.text])
           /\ Truncated(r.text) \in BOOLEAN
<1>1. r.text \in DOMAIN Text /\ IsText(Text[r.text])
  BY TextAndAnswers
<1> QED
  BY <1>1 DEF RulesFor, Truncated

LEMMA ModelUpdates ==
    ASSUME TableInv, NEW d \in DOMAIN docs, NEW r \in Reading, NEW response \in Response,
           AnalysedByModel(d, r, response)
    PROVE  \E new : Updates(d, new)
<1> DEFINE a == Analysis(response, Truncated(r.text))
<1>1. /\ Update(d, Persisted(d, r, a, "model", response.tokens, None))
      /\ UNCHANGED <<nextId, now, runs>> /\ ~Raises(response)
  BY DEF AnalysedByModel
<1>2. IsResponse(response) /\ response.tokens \in Nat \cup {None} /\ Truncated(r.text) \in BOOLEAN
  BY TextAndAnswers, TextFits
<1>3. a.kind \in Kind /\ a.confidence \in 0 .. Unit /\ a.fields \in 0 .. 100
  BY <1>1, <1>2, AnswersRepaired
<1> HIDE DEF a
<1>4. Storable(r.text, a, "model", response.tokens, None)
  BY <1>2, <1>3 DEF Storable, Engines
<1> QED
  BY <1>1, <1>4, PersistUpdates

\* The rules, whether or not they stand in for a model: they store what they find, or
\* an amount is too long.
LEMMA RulesUpdate ==
    ASSUME TableInv, NEW d \in DOMAIN docs, NEW r \in Reading,
           NEW discarded \in [response : Response, truncated : BOOLEAN] \cup {None},
           discarded # None => discarded.truncated /\ discarded.response.warnings >= 20,
           Update(d, ByRules(d, r, discarded)), UNCHANGED <<nextId, now, runs>>
    PROVE  \E new : Updates(d, new)
<1> DEFINE a == RulesFor[r.text]
<1>1. /\ Valid(a) <=> ~Overlong(Text[r.text])
      /\ a.kind \in Kind /\ a.fields \in 0 .. 100
      /\ a.confidence \in Nat /\ a.confidence <= 7800
  BY TextFits, RulesAreValid
<1>2. CASE Valid(a)
  <2>1. Update(d, Persisted(d, r, a, "heuristic", None, discarded))
    BY <1>2 DEF ByRules
  <2>2. Unit \in Nat /\ 7800 <= Unit
    BY DEF Unit
  <2> HIDE DEF a
  <2>3. a.confidence \in 0 .. Unit
    BY <1>1, <2>2
  <2>4. Storable(r.text, a, "heuristic", None, discarded)
    BY <1>1, <1>2, <2>3 DEF Storable, Engines
  <2> QED
    BY <2>1, <2>4, PersistUpdates
<1>3. CASE ~Valid(a)
  <2>1. Update(d, Crashed(d, r, "heuristic"))
    BY <1>3 DEF ByRules
  <2> QED
    BY <1>1, <1>3, <2>1, CrashUpdates DEF Engines
<1> QED
  BY <1>2, <1>3

LEMMA DiscardUpdates ==
    ASSUME TableInv, NEW d \in DOMAIN docs, NEW r \in Reading, NEW response \in Response,
           ModelDiscarded(d, r, response)
    PROVE  \E new : Updates(d, new)
<1> DEFINE cut == Truncated(r.text)
           discarded == [response |-> response, truncated |-> cut]
<1>1. IsResponse(response) /\ cut \in BOOLEAN
  BY TextAndAnswers, TextFits
<1>2. ~Raises(response) /\ ~Valid(Analysis(response, cut))
  BY DEF ModelDiscarded
<1>3. cut /\ response.warnings >= 20
  BY <1>1, <1>2, AnswersRepaired
<1>4. Update(d, ByRules(d, r, discarded)) /\ UNCHANGED <<nextId, now, runs>>
  BY DEF ModelDiscarded
<1>5. /\ discarded \in [response : Response, truncated : BOOLEAN]
      /\ discarded.truncated = cut /\ discarded.response = response
  BY <1>1
<1> HIDE DEF cut, discarded
<1>6. discarded.truncated /\ discarded.response.warnings >= 20
  BY <1>3, <1>5
<1> QED
  BY <1>4, <1>5, <1>6, RulesUpdate

LEMMA ModelCrashUpdates ==
    ASSUME TableInv, NEW d \in DOMAIN docs, NEW r \in Reading, NEW response \in Response,
           ModelCrashes(d, r, response)
    PROVE  \E new : Updates(d, new)
<1>1. Update(d, Crashed(d, r, "model")) /\ UNCHANGED <<nextId, now, runs>>
  BY DEF ModelCrashes
<1> QED
  BY <1>1, CrashUpdates DEF Engines

LEMMA RulesOnlyUpdate ==
    ASSUME TableInv, NEW d \in DOMAIN docs, NEW r \in Reading, AnalysedByRules(d, r)
    PROVE  \E new : Updates(d, new)
<1>1. Update(d, ByRules(d, r, None)) /\ UNCHANGED <<nextId, now, runs>>
  BY DEF AnalysedByRules
<1> QED
  BY <1>1, RulesUpdate

\* What a step is: time passes, a document arrives, changes or goes, or a page is read.
StepKind ==
    \/ Tick
    \/ \E owner \in Owner, file \in File, created \in Stamps : Upload(owner, file, created)
    \/ \E d \in DOMAIN docs : Delete(d) \/ \E new : Updates(d, new)
    \/ NextPage \/ Leave \/ \E filter \in Filter : OpenList(filter)

LEMMA Kinds == ASSUME TableInv, Next PROVE StepKind
<1>1. ASSUME NEW d \in DOMAIN docs,
             \/ Claim(d) \/ Reprocess(d)
             \/ \E code \in FailCode : Fail(d, code)
             \/ \E r \in Reading :
                   \/ AnalysedByRules(d, r)
                   \/ \E response \in Response :
                         \/ AnalysedByModel(d, r, response) \/ ModelDiscarded(d, r, response)
                         \/ ModelCrashes(d, r, response)
      PROVE  \E new : Updates(d, new)
  <2>1. CASE Claim(d)
    BY <2>1, ClaimUpdates
  <2>2. CASE Reprocess(d)
    BY <2>2, ReprocessUpdates
  <2>3. ASSUME NEW code \in FailCode, Fail(d, code) PROVE \E new : Updates(d, new)
    BY <2>3, FailUpdates
  <2>4. ASSUME NEW r \in Reading, AnalysedByRules(d, r) PROVE \E new : Updates(d, new)
    BY <2>4, RulesOnlyUpdate
  <2>5. ASSUME NEW r \in Reading, NEW response \in Response, AnalysedByModel(d, r, response)
        PROVE \E new : Updates(d, new)
    BY <2>5, ModelUpdates
  <2>6. ASSUME NEW r \in Reading, NEW response \in Response, ModelDiscarded(d, r, response)
        PROVE \E new : Updates(d, new)
    BY <2>6, DiscardUpdates
  <2>7. ASSUME NEW r \in Reading, NEW response \in Response, ModelCrashes(d, r, response)
        PROVE \E new : Updates(d, new)
    BY <2>7, ModelCrashUpdates
  <2> QED
    BY <1>1, <2>1, <2>2, <2>3, <2>4, <2>5, <2>6, <2>7
<1> QED
  BY <1>1 DEF Next, StepKind

-----------------------------------------------------------------------------
(* Inherited operators are the same whether extended or instantiated.       *)

LEMMA SameOperators ==
    /\ \A S : R!Min(S) = Min(S) /\ R!Max(S) = Max(S)
    /\ \A S : R!Cardinality(S) = Cardinality(S)
    /\ \A f, I : R!Total(f, I) = Total(f, I)
<1>1. \A S : R!Min(S) = Min(S) /\ R!Max(S) = Max(S)
  BY DEF R!Min, Min, R!Max, Max
<1>2. \A f, I : R!Total(f, I) = Total(f, I)
  BY DEF R!Total, Total, R!FoldSet, FoldSet, R!MapThenFoldSet, MapThenFoldSet
<1>3. \A S : R!Cardinality(S) = Cardinality(S)
  BY DEF R!Cardinality, Cardinality
<1> QED
  BY <1>1, <1>2, <1>3

LEMMA UpTo == ASSUME NEW n \in Nat PROVE IsFiniteSet(1 .. n) /\ Cardinality(1 .. n) = n
<1>1. 1 \in Int /\ n \in Int
  OBVIOUS
<1>2. IsFiniteSet(1 .. n) /\ Cardinality(1 .. n) = IF 1 > n THEN 0 ELSE n - 1 + 1
  BY <1>1, FS_Interval
<1> QED
  BY <1>2

LEMMA OrderIsInjective ==
    ASSUME NEW table, NEW sort, NEW dir, NEW D, NEW s \in R!ListOrders(table, D, sort, dir)
    PROVE  /\ s \in [1 .. Cardinality(D) -> D]
           /\ \A i, j \in 1 .. Cardinality(D) : i # j => s[i] # s[j]
<1>1. s \in R!SetToSeqs(D)
  BY DEF R!ListOrders
<1> QED
  BY <1>1, SameOperators DEF R!SetToSeqs

LEMMA PageIs ==
    ASSUME NEW s, NEW page, NEW size
    PROVE  R!PageOf(s, page, size) =
               SubSeq(s, (page - 1) * size + 1, R!Min({page * size, Len(s)}))
  BY DEF R!PageOf

LEMMA PartOfSequence ==
    ASSUME NEW D, NEW s \in Seq(D), NEW m \in Nat, NEW l \in Nat, l <= Len(s)
    PROVE  /\ DOMAIN SubSeq(s, m + 1, l) = 1 .. l - m
           /\ \A i \in 1 .. l - m : SubSeq(s, m + 1, l)[i] = s[m + i]
  OBVIOUS

-----------------------------------------------------------------------------
(* A document has a rank in the list, whatever order the database delivers. *)

\* The value of the column the list is sorted by.
At(table, sort, e) == R!SortKey(table[e], sort)

\* e is listed before d.
Earlier(table, sort, dir, e, d) ==
    \/ R!Precedes(At(table, sort, e), At(table, sort, d), dir)
    \/ At(table, sort, e) = At(table, sort, d) /\ e > d

Before(table, sort, dir, D, d) == {e \in D : Earlier(table, sort, dir, e, d)}
Rank(table, sort, dir, D, d) == Cardinality(Before(table, sort, dir, D, d))

LEMMA RankNat ==
    ASSUME NEW table, NEW sort, NEW dir, NEW D, IsFiniteSet(D), NEW d
    PROVE  IsFiniteSet(Before(table, sort, dir, D, d)) /\ Rank(table, sort, dir, D, d) \in Nat
<1>1. Before(table, sort, dir, D, d) \in SUBSET D
  BY DEF Before
<1> QED
  BY <1>1, FS_Subset, FS_CardinalityType DEF Rank

LEMMA RankBelow ==
    ASSUME NEW table, NEW sort, NEW dir, NEW D \in SUBSET Int, IsFiniteSet(D), NEW d \in D,
           \A e \in D : At(table, sort, e) \in Int
    PROVE  Rank(table, sort, dir, D, d) < Cardinality(D)
<1> DEFINE B == Before(table, sort, dir, D, d)
<1>1. B \in SUBSET D /\ d \notin B
  BY DEF Before, Earlier, R!Precedes
<1>2. Cardinality(D) \in Nat
  BY FS_CardinalityType
<1> HIDE DEF B
<1>3. Cardinality(B) <= Cardinality(D) /\ Cardinality(B) # Cardinality(D) /\ Cardinality(B) \in Nat
  BY <1>1, FS_Subset, FS_CardinalityType
<1> USE DEF B
<1>4. Rank(table, sort, dir, D, d) = Cardinality(B)
  BY DEF Rank
<1> QED
  BY <1>2, <1>3, <1>4

\* Where nothing leaves and nothing moves to a later place, the rank of what keeps its
\* key does not decrease.
LEMMA RankGrows ==
    ASSUME NEW t1, NEW t2, NEW sort, NEW dir, NEW D1, NEW D2, IsFiniteSet(D2), D1 \subseteq D2,
           NEW d \in D1, At(t1, sort, d) = At(t2, sort, d),
           \A e \in D1 : /\ At(t1, sort, e) \in Int /\ At(t2, sort, e) \in Int
                         /\ ~R!Precedes(At(t1, sort, e), At(t2, sort, e), dir)
    PROVE  Rank(t1, sort, dir, D1, d) <= Rank(t2, sort, dir, D2, d)
<1>1. ASSUME NEW e \in D1, Earlier(t1, sort, dir, e, d) PROVE Earlier(t2, sort, dir, e, d)
  <2> DEFINE k == At(t1, sort, e)
             l == At(t2, sort, e)
             m == At(t1, sort, d)
  <2>1. k \in Int /\ l \in Int /\ m \in Int /\ ~R!Precedes(k, l, dir) /\ At(t2, sort, d) = m
    OBVIOUS
  <2>2. R!Precedes(k, m, dir) \/ (k = m /\ e > d)
    BY <1>1 DEF Earlier
  <2> HIDE DEF k, l, m
  <2>3. R!Precedes(l, m, dir) \/ (l = m /\ e > d)
    BY <2>1, <2>2 DEF R!Precedes
  <2> USE DEF l
  <2> QED
    BY <2>1, <2>3 DEF Earlier
<1>2. Before(t1, sort, dir, D1, d) \in SUBSET Before(t2, sort, dir, D2, d)
  BY <1>1 DEF Before
<1>3. IsFiniteSet(Before(t2, sort, dir, D2, d))
  BY RankNat
<1> QED
  BY <1>2, <1>3, FS_Subset DEF Rank

LEMMA OrderRanks ==
    ASSUME NEW table, NEW sort, NEW dir, NEW D \in SUBSET Int, IsFiniteSet(D),
           \A e \in D : At(table, sort, e) \in Int,
           NEW s \in R!ListOrders(table, D, sort, dir)
    PROVE  /\ DOMAIN s = 1 .. Cardinality(D) /\ Len(s) = Cardinality(D) /\ Cardinality(D) \in Nat
           /\ \A d \in D : \E i \in DOMAIN s : s[i] = d
           /\ \A i \in DOMAIN s : s[i] \in D /\ Rank(table, sort, dir, D, s[i]) = i - 1
<1> DEFINE n == Cardinality(D)
           I == 1 .. n
<1>0. n \in Nat
  BY FS_CardinalityType
<1>1. s \in [I -> D] /\ \A i, j \in I : i # j => s[i] # s[j]
  BY OrderIsInjective
<1>2. \A i, j \in I : i < j => Earlier(table, sort, dir, s[i], s[j])
  BY <1>1 DEF R!ListOrders, Earlier, At
<1>3. IsFiniteSet(I) /\ Cardinality(I) = n
  <2> HIDE DEF n
  <2> QED
    BY <1>0, UpTo
<1>4. s \in Injection(I, D)
  BY <1>1 DEF Injection, IsInjective
<1>5. s \in Surjection(I, D)
  <2> HIDE DEF I
  <2> QED
    BY <1>3, <1>4, FS_Injection
<1>6. \A d \in D : \E i \in I : s[i] = d
  BY <1>5 DEF Surjection
<1>7. ASSUME NEW i \in I PROVE Rank(table, sort, dir, D, s[i]) = i - 1
  <2> DEFINE J == 1 .. i - 1
             P == {s[j] : j \in J}
             f == [j \in J |-> s[j]]
  <2>0. J \in SUBSET I /\ i \in Int /\ i - 1 \in Nat
    BY <1>0
  <2>1. Before(table, sort, dir, D, s[i]) = P
    <3>1. ASSUME NEW d \in D, Earlier(table, sort, dir, d, s[i]) PROVE d \in P
      <4>1. PICK j \in I : s[j] = d
        BY <1>6
      <4>2. s[i] \in D /\ At(table, sort, d) \in Int /\ At(table, sort, s[i]) \in Int /\ d \in Int /\ s[i] \in Int
        BY <1>1
      <4>3. ~Earlier(table, sort, dir, s[i], d) /\ d # s[i]
        BY <3>1, <4>2 DEF Earlier, R!Precedes
      <4>4. ~(i < j) /\ i # j
        BY <1>2, <4>1, <4>3
      <4>5. j \in J
        BY <1>0, <4>4
      <4> QED
        BY <4>1, <4>5
    <3>2. ASSUME NEW j \in J PROVE s[j] \in D /\ Earlier(table, sort, dir, s[j], s[i])
      <4>1. j \in I /\ j < i
        BY <1>0
      <4> QED
        BY <1>1, <1>2, <4>1
    <3> QED
      BY <3>1, <3>2 DEF Before
  <2>2. f \in Injection(J, P) /\ f \in Surjection(J, P)
    BY <1>1, <2>0 DEF Injection, IsInjective, Surjection
  <2>3. IsFiniteSet(J) /\ Cardinality(J) = i - 1
    <3> DEFINE k == i - 1
    <3>1. k \in Nat
      BY <2>0
    <3> HIDE DEF k
    <3>2. IsFiniteSet(1 .. k) /\ Cardinality(1 .. k) = k
      BY <3>1, UpTo
    <3> USE DEF k
    <3> QED
      BY <3>2
  <2>4. Cardinality(P) = i - 1
    <3> HIDE DEF J, P, f
    <3> QED
      BY <2>2, <2>3, FS_Surjection
  <2> QED
    BY <2>1, <2>4 DEF Rank
<1>8. DOMAIN s = I
  BY <1>1
<1>9. Len(s) = n
  BY <1>0, <1>1
<1> HIDE DEF I
<1>10. \A i \in DOMAIN s : s[i] \in D /\ Rank(table, sort, dir, D, s[i]) = i - 1
  BY <1>1, <1>7, <1>8
<1> USE DEF I
<1> QED
  BY <1>0, <1>6, <1>8, <1>9, <1>10

\* The documents of a page are those of the ranks of the page.
LEMMA PageRanks ==
    ASSUME NEW table, NEW sort, NEW dir, NEW D \in SUBSET Int, IsFiniteSet(D),
           \A e \in D : At(table, sort, e) \in Int,
           NEW s \in R!ListOrders(table, D, sort, dir), NEW page \in Nat, NEW size \in Nat \ {0}
    PROVE  LET p == R!PageOf(s, page + 1, size) IN
           {p[i] : i \in DOMAIN p} =
               {d \in D : page * size <= Rank(table, sort, dir, D, d) /\ Rank(table, sort, dir, D, d) < page * size + size}
<1> DEFINE n == Cardinality(D)
           m == page * size
           p == R!PageOf(s, page + 1, size)
           last == IF m + size <= n THEN m + size ELSE n
           rank(d) == Rank(table, sort, dir, D, d)
<1>1. /\ DOMAIN s = 1 .. n /\ Len(s) = n /\ n \in Nat
      /\ \A d \in D : \E i \in DOMAIN s : s[i] = d
      /\ \A i \in DOMAIN s : s[i] \in D /\ rank(s[i]) = i - 1
  BY OrderRanks
<1>2. m \in Nat /\ (page + 1) * size = m + size /\ (page + 1 - 1) * size = m
  OBVIOUS
<1>3. p = SubSeq(s, m + 1, last)
  <2>1. R!Min({m + size, n}) = last
    <3> HIDE DEF m, n
    <3>1. m + size \in Int /\ n \in Int
      BY <1>1, <1>2
    <3>2. Min({m + size, n}) = IF m + size <= n THEN m + size ELSE n
      BY <3>1, MinOfTwo
    <3> QED
      BY <3>2, SameOperators
  <2> DEFINE k == page + 1
             from == (k - 1) * size
             to == k * size
  <2>2. p = SubSeq(s, from + 1, R!Min({to, Len(s)}))
    <3>1. p = R!PageOf(s, k, size)
      OBVIOUS
    <3> HIDE DEF k, p
    <3> QED
      BY <3>1, PageIs
  <2>3. from = m /\ to = m + size /\ Len(s) = n
    BY <1>1, <1>2
  <2> HIDE DEF from, to, p, n, m, last
  <2> QED
    BY <2>1, <2>2, <2>3
<1>4. last \in Nat /\ last <= n /\ last <= m + size /\ (last = n \/ last = m + size)
  <2> HIDE DEF m, n
  <2> QED
    BY <1>1, <1>2
<1> HIDE DEF m, n, last, p, rank
<1>5. /\ DOMAIN p = 1 .. last - m
      /\ \A i \in 1 .. last - m : p[i] = s[m + i]
  <2>1. s \in [1 .. n -> D]
    BY OrderIsInjective DEF n
  <2>2. s \in Seq(D) /\ Len(s) = n
    BY <1>1, <2>1
  <2>3. m \in Nat /\ last \in Nat /\ last <= Len(s)
    BY <1>2, <1>4, <2>2
  <2> QED
    BY ONLY <1>3, <2>2, <2>3, PartOfSequence
<1>6. ASSUME NEW i \in DOMAIN p
      PROVE  p[i] \in D /\ m <= rank(p[i]) /\ rank(p[i]) < m + size
  <2>1. i \in Nat /\ i >= 1 /\ i <= last - m
    BY <1>2, <1>4, <1>5
  <2>2. m + i \in DOMAIN s
    BY <1>1, <1>2, <1>4, <2>1
  <2>3. p[i] = s[m + i]
    BY <1>5
  <2> DEFINE k == m + i
  <2>4. k \in DOMAIN s /\ k \in Int
    BY <1>2, <2>1, <2>2
  <2> HIDE DEF k
  <2>5. s[k] \in D /\ rank(s[k]) = k - 1
    BY <1>1, <2>4
  <2>6. p[i] \in D /\ rank(p[i]) = k - 1
    BY <2>3, <2>5 DEF k
  <2> USE DEF k
  <2> QED
    BY <1>2, <1>4, <2>1, <2>6
<1>7. ASSUME NEW d \in D, m <= rank(d), rank(d) < m + size
      PROVE  \E i \in DOMAIN p : p[i] = d
  <2>1. PICK k \in DOMAIN s : s[k] = d
    BY <1>1
  <2>2. rank(d) = k - 1 /\ k \in Nat /\ k <= n /\ k >= 1
    BY <1>1, <2>1
  <2>3. k - m \in 1 .. last - m /\ m + (k - m) = k
    BY <1>1, <1>2, <1>4, <1>7, <2>2
  <2> QED
    BY <1>5, <2>1, <2>3
<1>8. {p[i] : i \in DOMAIN p} = {d \in D : m <= rank(d) /\ rank(d) < m + size}
  BY <1>6, <1>7
<1> USE DEF m, p, rank
<1> QED
  BY <1>8

\* Past the last page there is no rank left.
LEMMA LastPage ==
    ASSUME NEW page \in Nat, NEW size \in Nat \ {0}, NEW n \in Nat,
           ~(page + 1 < R!TotalPages(n, size))
    PROVE  n <= page * size + size
<1> DEFINE q == (n + size - 1) \div size
<1>0. n + size - 1 \in Int /\ size \in Nat /\ size # 0
  OBVIOUS
<1>1. q \in Int /\ n + size - 1 < size * q + size
  <2> DEFINE a == n + size - 1
  <2>1. a \in Int
    BY <1>0
  <2> HIDE DEF a
  <2>2. a \div size \in Int /\ a < size * (a \div size) + size
    BY <1>0, <2>1, Division
  <2> USE DEF a
  <2> QED
    BY <2>2
<1>2. R!TotalPages(n, size) = R!Max({1, q})
  BY DEF R!TotalPages
<1> HIDE DEF q
<1>3. Max({1, q}) = IF 1 >= q THEN 1 ELSE q
  BY <1>1, MaxOfTwo
<1>4. q <= page + 1
  BY <1>1, <1>2, <1>3, SameOperators
<1>5. size * q <= size * (page + 1)
  BY <1>0, <1>1, <1>4, Monotone
<1>6. size * (page + 1) = page * size + size
  OBVIOUS
<1> DEFINE x == size * q
           y == page * size
<1>7. x \in Int /\ y \in Int /\ x <= y + size /\ n + size - 1 < x + size
  BY <1>1, <1>5, <1>6
<1> HIDE DEF x, y
<1>8. n <= y + size
  BY <1>7
<1> USE DEF y
<1> QED
  BY <1>8

-----------------------------------------------------------------------------
(* The client.                                                              *)

WalkFields == {"view", "owner", "status", "sort", "dir", "page", "seen", "more", "again",
               "stayed", "left", "joined"}

ClientShape == client = Idle \/ (Walking /\ DOMAIN client = WalkFields)

LEMMA IdleView == Idle.view = "idle"
  BY DEF Idle

\* Which documents a walk is about does not change while it goes on.
Wanted(table, c) == R!Matching(table, c.status, c.owner)

LEMMA WriteFields ==
    ASSUME ClientShape, NEW table, Write(table)
    PROVE  /\ docs' = table /\ ClientShape' /\ client'.view = client.view /\ Walking' = Walking
           /\ Walking =>
                 /\ client'.owner = client.owner /\ client'.status = client.status
                 /\ client'.sort = client.sort /\ client'.dir = client.dir /\ client'.page = client.page
                 /\ client'.seen = client.seen /\ client'.more = client.more
                 /\ client'.again = client.again
                 /\ client'.stayed = (client.stayed \cap Wanted(table, client)) \ Moved(table)
                 /\ client'.left = (client.left \/ ~(Wanted(docs, client) \subseteq Wanted(table, client))
                                               \/ Sunk(table) # {})
                 /\ client'.joined = (client.joined \/ ~(Wanted(table, client) \subseteq Wanted(docs, client))
                                                   \/ Moved(table) # {})
<1> DEFINE here == Wanted(docs, client)
           there == Wanted(table, client)
           stayed == (client.stayed \cap there) \ Moved(table)
           left == client.left \/ ~(here \subseteq there) \/ Sunk(table) # {}
           joined == client.joined \/ ~(there \subseteq here) \/ Moved(table) # {}
<1>1. docs' = table
  BY DEF Write
<1>2. CASE ~Walking
  <2>1. client' = client
    BY <1>2 DEF Write
  <2> QED
    BY <1>1, <1>2, <2>1 DEF ClientShape, Walking
<1>3. CASE Walking
  <2>1. client' = [client EXCEPT !.stayed = stayed, !.left = left, !.joined = joined]
    BY <1>3 DEF Write, Wanted, Listed
  <2>2. DOMAIN client = WalkFields /\ client.view = "list"
    BY <1>3, IdleView DEF ClientShape, Walking
  <2> HIDE DEF stayed, left, joined
  <2>3. /\ DOMAIN client' = WalkFields /\ client'.view = "list"
        /\ client'.owner = client.owner /\ client'.status = client.status
        /\ client'.sort = client.sort /\ client'.dir = client.dir /\ client'.page = client.page
        /\ client'.seen = client.seen /\ client'.more = client.more
        /\ client'.again = client.again
        /\ client'.stayed = stayed /\ client'.left = left /\ client'.joined = joined
    BY <2>1, <2>2 DEF WalkFields
  <2>4. ClientShape' /\ Walking'
    BY <2>3 DEF ClientShape, Walking
  <2> USE DEF stayed, left, joined
  <2> QED
    BY <1>1, <1>3, <2>2, <2>3, <2>4
<1> QED
  BY <1>2, <1>3

\* The documents of a page.
Page(order, page) ==
    {R!PageOf(order, page, PageSize)[i] : i \in DOMAIN R!PageOf(order, page, PageSize)}

LEMMA ReadFields ==
    ASSUME NEW order, NEW page, NEW view, DOMAIN view = WalkFields
    PROVE  LET new == Read(order, page, view) IN
           /\ DOMAIN new = WalkFields /\ new.view = view.view
           /\ new.owner = view.owner /\ new.status = view.status /\ new.sort = view.sort /\ new.dir = view.dir
           /\ new.page = page /\ new.seen = view.seen \cup Page(order, page)
           /\ new.more = (page < R!TotalPages(Len(order), PageSize))
           /\ new.again = (view.again \/ Page(order, page) \cap view.seen # {})
           /\ new.stayed = view.stayed /\ new.left = view.left /\ new.joined = view.joined
<1> DEFINE ids == Page(order, page)
           seen == view.seen \cup ids
           more == page < R!TotalPages(Len(order), PageSize)
           again == view.again \/ ids \cap view.seen # {}
<1>1. Read(order, page, view) = [view EXCEPT !.page = page, !.again = again, !.seen = seen, !.more = more]
  BY DEF Read, Page
<1> HIDE DEF ids, seen, more, again
<1>2. LET new == [view EXCEPT !.page = page, !.again = again, !.seen = seen, !.more = more] IN
      /\ DOMAIN new = WalkFields /\ new.view = view.view
      /\ new.owner = view.owner /\ new.status = view.status /\ new.sort = view.sort /\ new.dir = view.dir
      /\ new.page = page /\ new.seen = seen /\ new.more = more /\ new.again = again
      /\ new.stayed = view.stayed /\ new.left = view.left /\ new.joined = view.joined
  BY DEF WalkFields
<1> DEFINE new == Read(order, page, view)
<1>3. /\ DOMAIN new = WalkFields /\ new.view = view.view
      /\ new.owner = view.owner /\ new.status = view.status /\ new.sort = view.sort /\ new.dir = view.dir
      /\ new.page = page /\ new.seen = seen /\ new.more = more /\ new.again = again
      /\ new.stayed = view.stayed /\ new.left = view.left /\ new.joined = view.joined
  BY <1>1, <1>2
<1> HIDE DEF new
<1> USE DEF seen, more, again, ids
<1>4. /\ new.seen = view.seen \cup Page(order, page)
      /\ new.more = (page < R!TotalPages(Len(order), PageSize))
      /\ new.again = (view.again \/ Page(order, page) \cap view.seen # {})
  BY <1>3
<1> USE DEF new
<1> QED
  BY <1>3, <1>4

\* What the client has before its first page.
Fresh(filter, listed) ==
    [view |-> "list", owner |-> filter.owner, status |-> filter.status,
     sort |-> filter.sort, dir |-> filter.dir, page |-> 0, seen |-> {}, more |-> TRUE, again |-> FALSE,
     stayed |-> listed, left |-> FALSE, joined |-> FALSE]

\* OpenList and NextPage read a page of a view on the documents of now.
Reads(view) ==
    \E order \in R!ListOrders(docs, Wanted(docs, view), view.sort, view.dir) :
        client' = Read(order, view.page + 1, view)

LEMMA OpenReads ==
    ASSUME NEW filter, OpenList(filter)
    PROVE  LET view == Fresh(filter, R!Matching(docs, filter.status, filter.owner)) IN
           Reads(view) /\ UNCHANGED <<docs, nextId, now, runs>>
<1> DEFINE listed == R!Matching(docs, filter.status, filter.owner)
           view == Fresh(filter, listed)
<1>1. PICK order \in R!ListOrders(docs, listed, filter.sort, filter.dir) : client' = Read(order, 1, view)
  BY DEF OpenList, Fresh
<1> HIDE DEF listed
<1>2. view.owner = filter.owner /\ view.status = filter.status /\ view.sort = filter.sort /\ view.dir = filter.dir /\ view.page = 0
  BY DEF Fresh
<1> USE DEF listed
<1>3. Wanted(docs, view) = listed
  BY <1>2 DEF Wanted
<1>4. view.page + 1 = 1
  BY <1>2
<1>5. UNCHANGED <<docs, nextId, now, runs>>
  BY DEF OpenList
<1> HIDE DEF view, listed
<1>6. Reads(view)
  BY <1>1, <1>2, <1>3, <1>4 DEF Reads
<1> USE DEF view, listed
<1> QED
  BY <1>5, <1>6

LEMMA NextReads ==
    ASSUME NextPage
    PROVE  Walking /\ client.more /\ Reads(client) /\ UNCHANGED <<docs, nextId, now, runs>>
  BY DEF NextPage, Reads, Listed, Wanted

LEMMA ReadShape ==
    ASSUME NEW view, DOMAIN view = WalkFields, view.view = "list", Reads(view)
    PROVE  ClientShape' /\ Walking'
<1>1. PICK order : client' = Read(order, view.page + 1, view)
  BY DEF Reads
<1>2. DOMAIN client' = WalkFields /\ client'.view = "list"
  BY <1>1, ReadFields
<1> QED
  BY <1>2 DEF ClientShape, Walking

-----------------------------------------------------------------------------
(* The table through a step.                                                *)

LEMMA TableInit == Init => TableInv /\ ClientShape
<1> SUFFICES ASSUME Init PROVE TableInv /\ ClientShape
  OBVIOUS
<1>1. DOMAIN docs = {} /\ docs = [d \in DOMAIN docs |-> docs[d]]
  BY DEF Init
<1>2. nextId = 1 /\ now = 0 /\ runs = 0 /\ client = Idle
  BY DEF Init
<1>3. nextId \in 1 .. MaxDocs + 1 /\ now \in 0 .. MaxTime /\ runs \in 0 .. MaxRuns
  BY <1>2, ReportConstants
<1>4. client.view \in {"idle", "list"}
  BY <1>2, IdleView
<1> QED
  BY <1>1, <1>2, <1>3, <1>4 DEF TableInv, TypeOK, ClientShape

LEMMA TickTable == ASSUME TableInv, ClientShape, Tick PROVE TableInv' /\ ClientShape'
<1>1. docs' = docs /\ nextId' = nextId /\ runs' = runs /\ client' = client /\ now' = now + 1 /\ now < MaxTime
  BY DEF Tick
<1>2. now \in 0 .. MaxTime /\ runs \in 0 .. MaxRuns
  BY DEF TableInv, TypeOK
<1>3. now' \in 0 .. MaxTime
  BY <1>1, <1>2, ReportConstants
<1>4. ASSUME NEW d \in DOMAIN docs PROVE GoodRow(docs[d]) /\ docs[d].attempts <= runs /\ docs[d].created <= now'
  <2>1. GoodRow(docs[d]) /\ docs[d].attempts <= runs /\ docs[d].created <= now
    BY DEF TableInv
  <2>2. docs[d].created \in Int
    BY <2>1, RowFields DEF GoodRow
  <2> QED
    BY <1>1, <1>2, <2>1, <2>2
<1>5. TypeOK'
  BY <1>1, <1>3 DEF TableInv, TypeOK, GoodRow
<1>6. TableInv'
  BY <1>1, <1>4, <1>5 DEF TableInv
<1> QED
  BY <1>1, <1>6 DEF ClientShape, Walking

\* What every writer leaves: rows that are good, for the counters of the new state.
LEMMA WriteTable ==
    ASSUME TableInv, ClientShape, NEW table, Write(table),
           table = [d \in DOMAIN table |-> table[d]],
           now' = now, nextId' \in nextId .. MaxDocs + 1, runs' \in runs .. MaxRuns,
           DOMAIN table \subseteq 1 .. nextId' - 1,
           \A d \in DOMAIN table : GoodRow(table[d]) /\ table[d].attempts <= runs' /\ table[d].created <= now
    PROVE  TableInv' /\ ClientShape'
<1>1. docs' = table /\ ClientShape' /\ client'.view = client.view
  BY WriteFields
<1>2. /\ nextId \in 1 .. MaxDocs + 1 /\ now \in 0 .. MaxTime /\ runs \in 0 .. MaxRuns
      /\ client.view \in {"idle", "list"}
  BY DEF TableInv, TypeOK
<1>3. nextId' \in 1 .. MaxDocs + 1 /\ now' \in 0 .. MaxTime /\ runs' \in 0 .. MaxRuns
  BY <1>2, ReportConstants
<1>4. \A d \in DOMAIN docs' : docs'[d] \in Row
  BY <1>1 DEF GoodRow
<1>5. TypeOK'
  BY <1>1, <1>2, <1>3, <1>4 DEF TypeOK
<1>6. docs' = [d \in DOMAIN docs' |-> docs'[d]]
  BY <1>1
<1>7. \A d \in DOMAIN docs' : GoodRow(docs'[d]) /\ docs'[d].attempts <= runs' /\ docs'[d].created <= now'
  BY <1>1
<1> QED
  BY <1>1, <1>5, <1>6, <1>7 DEF TableInv

LEMMA UploadTable ==
    ASSUME TableInv, ClientShape, NEW owner \in Owner, NEW file \in File, NEW created \in Stamps,
           Upload(owner, file, created)
    PROVE  TableInv' /\ ClientShape'
<1> DEFINE row == [owner |-> owner, filename |-> file.filename, size |-> file.size,
                   created |-> created, updated |-> created, status |-> "pending", kind |-> None,
                   code |-> None, crash |-> None, pages |-> None, attempts |-> 0, ex |-> None]
           table == [d \in DOMAIN docs \cup {nextId} |-> IF d # nextId THEN docs[d] ELSE row]
<1>1. Write(table) /\ nextId <= MaxDocs /\ nextId' = nextId + 1 /\ now' = now /\ runs' = runs
  BY DEF Upload
<1>2. /\ DOMAIN docs \subseteq 1 .. nextId - 1 /\ nextId \in 1 .. MaxDocs + 1
      /\ now \in 0 .. MaxTime /\ runs \in 0 .. MaxRuns
      /\ \A d \in DOMAIN docs : GoodRow(docs[d]) /\ docs[d].attempts <= runs /\ docs[d].created <= now
  BY DEF TableInv, TypeOK
<1>3. created \in 0 .. MaxTime /\ created <= now /\ file.filename \in Nat /\ file.size \in Nat
  BY StampsArePast, TextAndAnswers DEF TableInv
<1>4. row \in Row /\ row.attempts = 0 /\ row.created = created
  BY <1>3, ReportConstants DEF Row, Status
<1>5. RowOK(row)
  BY ReportConstants DEF RowOK
<1> HIDE DEF row
<1>6. GoodRow(row) /\ row.attempts <= runs' /\ row.created <= now
  BY <1>1, <1>2, <1>3, <1>4, <1>5 DEF GoodRow
<1>7. DOMAIN table = DOMAIN docs \cup {nextId}
  OBVIOUS
<1>8. \A d \in DOMAIN table : GoodRow(table[d]) /\ table[d].attempts <= runs' /\ table[d].created <= now
  BY <1>1, <1>2, <1>6
<1>9. DOMAIN table \subseteq 1 .. nextId' - 1 /\ nextId' \in nextId .. MaxDocs + 1 /\ runs' \in runs .. MaxRuns
  BY <1>1, <1>2, <1>7, ReportConstants
<1>10. table = [d \in DOMAIN table |-> table[d]]
  OBVIOUS
<1> HIDE DEF table
<1> QED
  BY <1>1, <1>8, <1>9, <1>10, WriteTable

LEMMA UpdateTable ==
    ASSUME TableInv, ClientShape, NEW d \in DOMAIN docs, NEW new, Updates(d, new)
    PROVE  TableInv' /\ ClientShape'
<1> DEFINE table == [docs EXCEPT ![d] = new]
<1>1. /\ Write(table) /\ nextId' = nextId /\ now' = now /\ runs' \in runs .. MaxRuns
      /\ GoodRow(new) /\ new.attempts <= runs' /\ new.created = docs[d].created
  BY DEF Updates
<1>2. /\ DOMAIN docs \subseteq 1 .. nextId - 1 /\ nextId \in 1 .. MaxDocs + 1
      /\ now \in 0 .. MaxTime /\ runs \in 0 .. MaxRuns
      /\ \A e \in DOMAIN docs : GoodRow(docs[e]) /\ docs[e].attempts <= runs /\ docs[e].created <= now
  BY DEF TableInv, TypeOK
<1>3. \A e \in DOMAIN docs : docs[e].attempts \in Int
  BY <1>2, RowFields DEF GoodRow
<1>4. DOMAIN table = DOMAIN docs /\ table = [e \in DOMAIN table |-> table[e]]
  OBVIOUS
<1>5. \A e \in DOMAIN table : GoodRow(table[e]) /\ table[e].attempts <= runs' /\ table[e].created <= now
  <2> SUFFICES ASSUME NEW e \in DOMAIN docs
               PROVE  GoodRow(table[e]) /\ table[e].attempts <= runs' /\ table[e].created <= now
    BY <1>4
  <2>1. CASE e = d
    BY <1>1, <1>2, <2>1
  <2>2. CASE e # d
    <3>1. table[e] = docs[e]
      BY <2>2
    <3>2. docs[e].attempts <= runs'
      BY <1>1, <1>2, <1>3
    <3> QED
      BY <1>2, <3>1, <3>2
  <2> QED
    BY <2>1, <2>2
<1>6. DOMAIN table \subseteq 1 .. nextId' - 1 /\ nextId' \in nextId .. MaxDocs + 1
  BY <1>1, <1>2, <1>4, ReportConstants
<1> HIDE DEF table
<1> QED
  BY <1>1, <1>4, <1>5, <1>6, WriteTable

LEMMA DeleteTable ==
    ASSUME TableInv, ClientShape, NEW d \in DOMAIN docs, Delete(d)
    PROVE  TableInv' /\ ClientShape'
<1> DEFINE table == [e \in DOMAIN docs \ {d} |-> docs[e]]
<1>1. Write(table) /\ nextId' = nextId /\ now' = now /\ runs' = runs
  BY DEF Delete
<1>2. /\ DOMAIN docs \subseteq 1 .. nextId - 1 /\ nextId \in 1 .. MaxDocs + 1
      /\ now \in 0 .. MaxTime /\ runs \in 0 .. MaxRuns
      /\ \A e \in DOMAIN docs : GoodRow(docs[e]) /\ docs[e].attempts <= runs /\ docs[e].created <= now
  BY DEF TableInv, TypeOK
<1>3. DOMAIN table = DOMAIN docs \ {d} /\ table = [e \in DOMAIN table |-> table[e]]
  OBVIOUS
<1>4. \A e \in DOMAIN table : GoodRow(table[e]) /\ table[e].attempts <= runs' /\ table[e].created <= now
  BY <1>1, <1>2
<1>5. DOMAIN table \subseteq 1 .. nextId' - 1 /\ nextId' \in nextId .. MaxDocs + 1 /\ runs' \in runs .. MaxRuns
  BY <1>1, <1>2, <1>3, ReportConstants
<1> HIDE DEF table
<1> QED
  BY <1>1, <1>3, <1>4, <1>5, WriteTable

\* Reading changes the client only.
LEMMA ClientTable ==
    ASSUME TableInv, ClientShape', UNCHANGED <<docs, nextId, now, runs>>
    PROVE  TableInv'
<1>1. client'.view \in {"idle", "list"}
  BY IdleView DEF ClientShape, Walking, Idle
<1>2. docs' = docs /\ nextId' = nextId /\ now' = now /\ runs' = runs
  OBVIOUS
<1>3. TypeOK'
  BY <1>1, <1>2 DEF TableInv, TypeOK
<1> QED
  BY <1>2, <1>3 DEF TableInv

LEMMA TableNext == TableInv /\ ClientShape /\ [Next]_vars => TableInv' /\ ClientShape'
<1> SUFFICES ASSUME TableInv, ClientShape, [Next]_vars PROVE TableInv' /\ ClientShape'
  OBVIOUS
<1>1. CASE UNCHANGED vars
  <2>1. docs' = docs /\ nextId' = nextId /\ now' = now /\ runs' = runs /\ client' = client
    BY <1>1 DEF vars
  <2>2. ClientShape'
    BY <2>1 DEF ClientShape, Walking
  <2> QED
    BY <2>1, <2>2, ClientTable
<1>2. CASE Next
  <2>1. StepKind
    BY <1>2, Kinds
  <2>2. CASE Tick
    BY <2>2, TickTable
  <2>3. ASSUME NEW owner \in Owner, NEW file \in File, NEW created \in Stamps, Upload(owner, file, created)
        PROVE  TableInv' /\ ClientShape'
    BY <2>3, UploadTable
  <2>4. ASSUME NEW d \in DOMAIN docs, Delete(d) PROVE TableInv' /\ ClientShape'
    BY <2>4, DeleteTable
  <2>5. ASSUME NEW d \in DOMAIN docs, NEW new, Updates(d, new) PROVE TableInv' /\ ClientShape'
    BY <2>5, UpdateTable
  <2>6. CASE NextPage
    <3>1. DOMAIN client = WalkFields /\ client.view = "list"
      BY <2>6, NextReads, IdleView DEF ClientShape, Walking
    <3> QED
      BY <2>6, <3>1, NextReads, ReadShape, ClientTable
  <2>7. CASE Leave
    BY <2>7, ClientTable DEF Leave, ClientShape
  <2>8. ASSUME NEW filter, OpenList(filter) PROVE TableInv' /\ ClientShape'
    <3> DEFINE listed == R!Matching(docs, filter.status, filter.owner)
               view == Fresh(filter, listed)
    <3>1. Reads(view) /\ UNCHANGED <<docs, nextId, now, runs>>
      BY <2>8, OpenReads
    <3> HIDE DEF listed
    <3>2. DOMAIN view = WalkFields /\ view.view = "list"
      BY DEF Fresh, WalkFields
    <3> HIDE DEF view
    <3> QED
      BY <3>1, <3>2, ReadShape, ClientTable
  <2> QED
    BY <2>1, <2>2, <2>3, <2>4, <2>5, <2>6, <2>7, <2>8 DEF StepKind
<1> QED
  BY <1>1, <1>2

-----------------------------------------------------------------------------
(* The walk.                                                                *)

\* While no document left the list, those that stayed and are still to come have ranks
\* past the pages read; while none joined it, those seen have ranks before that.
ViewInv(table, view, next) ==
    LET L == Wanted(table, view)
        rank(d) == Rank(table, view.sort, view.dir, L, d)
        read == view.page * PageSize
    IN /\ view.sort \in R!SortColumns
       /\ view.page \in Nat /\ view.seen \subseteq 1 .. next - 1 /\ view.stayed \subseteq L
       /\ ~view.left => \A d \in view.stayed \ view.seen : rank(d) >= read
       /\ ~view.joined => \A d \in view.seen \cap L : rank(d) < read
       /\ view.again => view.joined

WalkInv ==
    Walking => /\ ViewInv(docs, client, nextId)
               /\ ~client.left /\ ~client.more => client.stayed \subseteq client.seen

LEMMA WantedFacts ==
    ASSUME TableInv, NEW view
    PROVE  LET L == Wanted(docs, view) IN
           /\ L \in SUBSET Int /\ IsFiniteSet(L) /\ L \subseteq DOMAIN docs
           /\ L \subseteq 1 .. nextId - 1
<1> DEFINE L == Wanted(docs, view)
<1>1. L \subseteq DOMAIN docs
  BY DEF Wanted, R!Matching, R!Scope
<1>2. DOMAIN docs \subseteq 1 .. nextId - 1 /\ nextId \in 1 .. MaxDocs + 1
  BY DEF TableInv, TypeOK
<1>3. nextId \in Int /\ nextId - 1 \in Nat
  BY <1>2, ReportConstants
<1> DEFINE k == nextId - 1
<1>4. IsFiniteSet(1 .. k)
  <2>1. k \in Nat
    BY <1>3
  <2> HIDE DEF k
  <2> QED
    BY <2>1, UpTo
<1> HIDE DEF L
<1>5. L \subseteq 1 .. nextId - 1
  BY <1>1, <1>2
<1>6. IsFiniteSet(L)
  BY <1>4, <1>5, FS_Subset
<1>7. L \in SUBSET Int
  BY <1>3, <1>5
<1> USE DEF L
<1> QED
  BY <1>1, <1>5, <1>6, <1>7

LEMMA KeyIsInt == ASSUME NEW row \in Row, NEW sort \in R!SortColumns PROVE R!SortKey(row, sort) \in Int
<1>1. row.created \in Int /\ row.updated \in Int /\ row.filename \in Int /\ row.size \in Int
  BY RowFields
<1>2. CASE sort = "created_at"
  BY <1>1, <1>2 DEF R!SortKey
<1>3. CASE sort = "updated_at"
  BY <1>1, <1>3 DEF R!SortKey
<1>4. CASE sort = "filename"
  BY <1>1, <1>4 DEF R!SortKey
<1>5. CASE sort = "size_bytes"
  BY <1>1, <1>5 DEF R!SortKey
<1> QED
  BY <1>2, <1>3, <1>4, <1>5 DEF R!SortColumns

LEMMA ReadInv ==
    ASSUME TableInv, NEW view, DOMAIN view = WalkFields, ViewInv(docs, view, nextId), Reads(view),
           docs' = docs, nextId' = nextId
    PROVE  WalkInv'
<1> DEFINE L == Wanted(docs, view)
           rank(d) == Rank(docs, view.sort, view.dir, L, d)
           r == view.page * PageSize
           n == Cardinality(L)
<1>1. PICK order \in R!ListOrders(docs, L, view.sort, view.dir) : client' = Read(order, view.page + 1, view)
  BY DEF Reads
<1> DEFINE P == Page(order, view.page + 1)
<1>2. /\ L \in SUBSET Int /\ IsFiniteSet(L) /\ L \subseteq 1 .. nextId - 1
      /\ view.sort \in R!SortColumns /\ \A e \in L : At(docs, view.sort, e) \in Int
  <2>1. L \in SUBSET Int /\ IsFiniteSet(L) /\ L \subseteq 1 .. nextId - 1 /\ L \subseteq DOMAIN docs
    BY WantedFacts
  <2>2. view.sort \in R!SortColumns
    BY DEF ViewInv
  <2>3. \A e \in DOMAIN docs : docs[e] \in Row
    BY DEF TableInv, TypeOK
  <2> HIDE DEF L
  <2> QED
    BY <2>1, <2>2, <2>3, KeyIsInt DEF At
<1>3. /\ view.page \in Nat /\ view.seen \subseteq 1 .. nextId - 1 /\ view.stayed \subseteq L
      /\ ~view.left => \A d \in view.stayed \ view.seen : rank(d) >= r
      /\ ~view.joined => \A d \in view.seen \cap L : rank(d) < r
      /\ view.again => view.joined
  BY DEF ViewInv
<1>4. PageSize \in Nat \ {0}
  BY ReportConstants
<1>5. P = {d \in L : r <= rank(d) /\ rank(d) < r + PageSize}
  <2> HIDE DEF L
  <2>1. LET p == R!PageOf(order, view.page + 1, PageSize) IN
        {p[i] : i \in DOMAIN p} =
            {d \in L : view.page * PageSize <= Rank(docs, view.sort, view.dir, L, d)
                       /\ Rank(docs, view.sort, view.dir, L, d) < view.page * PageSize + PageSize}
    BY <1>1, <1>2, <1>3, <1>4, PageRanks
  <2> QED
    BY <2>1 DEF Page
<1>6. Len(order) = n /\ n \in Nat
  <2> HIDE DEF L
  <2> QED
    BY <1>1, <1>2, OrderRanks
<1>7. \A d \in L : rank(d) \in Nat /\ rank(d) < n
  <2> HIDE DEF L
  <2> QED
    BY <1>2, RankNat, RankBelow
<1>8. r \in Nat /\ (view.page + 1) * PageSize = r + PageSize /\ view.page + 1 \in Nat
  BY <1>3, <1>4
<1>9. /\ client'.owner = view.owner /\ client'.status = view.status /\ client'.sort = view.sort /\ client'.dir = view.dir
      /\ client'.page = view.page + 1 /\ client'.seen = view.seen \cup P
      /\ client'.more = (view.page + 1 < R!TotalPages(Len(order), PageSize))
      /\ client'.again = (view.again \/ P \cap view.seen # {})
      /\ client'.stayed = view.stayed /\ client'.left = view.left /\ client'.joined = view.joined
  BY <1>1, ReadFields
<1>10. ~client'.more => n <= r + PageSize
  BY <1>3, <1>4, <1>6, <1>9, LastPage
<1>11. Wanted(docs', client') = L
  BY <1>9 DEF Wanted
<1>12. \A d : Rank(docs', client'.sort, client'.dir, Wanted(docs', client'), d) = rank(d)
  BY <1>9, <1>11
<1> HIDE DEF L, rank, r, n, P
<1>13. client'.seen \subseteq 1 .. nextId' - 1
  BY <1>2, <1>3, <1>5, <1>9
<1>14. ASSUME ~client'.left, NEW d \in client'.stayed \ client'.seen
       PROVE  d \in L /\ rank(d) >= r + PageSize
  <2>1. d \in L /\ d \in view.stayed \ view.seen /\ d \notin P /\ ~view.left
    BY <1>3, <1>9, <1>14
  <2>2. rank(d) >= r
    BY <1>3, <2>1
  <2>3. rank(d) \in Nat
    BY <1>7, <2>1
  <2> QED
    BY <1>4, <1>5, <1>8, <2>1, <2>2, <2>3
<1>15. ASSUME ~client'.joined, NEW d \in client'.seen \cap L
       PROVE  rank(d) < r + PageSize
  <2>1. CASE d \in P
    BY <1>5, <2>1
  <2>2. CASE d \in view.seen
    <3>1. rank(d) < r /\ rank(d) \in Nat
      BY <1>3, <1>7, <1>9, <1>15, <2>2
    <3> QED
      BY <1>4, <1>8, <3>1
  <2> QED
    BY <1>9, <1>15, <2>1, <2>2
<1>16. client'.again => client'.joined
  <2> SUFFICES ASSUME client'.again, ~client'.joined PROVE FALSE
    OBVIOUS
  <2>1. ~view.joined /\ P \cap view.seen # {}
    BY <1>3, <1>9
  <2>2. PICK d : d \in P /\ d \in view.seen
    BY <2>1
  <2>3. d \in L /\ r <= rank(d)
    BY <1>5, <2>2
  <2>4. rank(d) < r
    BY <1>3, <2>1, <2>2, <2>3
  <2>5. rank(d) \in Nat
    BY <1>7, <2>3
  <2> QED
    BY <1>8, <2>3, <2>4, <2>5
<1>17. ~client'.left /\ ~client'.more => client'.stayed \subseteq client'.seen
  <2> SUFFICES ASSUME ~client'.left, ~client'.more, NEW d \in client'.stayed \ client'.seen PROVE FALSE
    OBVIOUS
  <2>1. d \in L /\ rank(d) >= r + PageSize
    BY <1>14
  <2>2. n <= r + PageSize /\ rank(d) < n /\ rank(d) \in Nat
    BY <1>7, <1>10, <2>1
  <2> QED
    BY <1>4, <1>6, <1>8, <2>1, <2>2
<1>18. ViewInv(docs', client', nextId')
  <2>1. client'.sort \in R!SortColumns
    BY <1>2, <1>9
  <2>2. client'.page \in Nat /\ client'.stayed \subseteq L /\ client'.page * PageSize = r + PageSize
    BY <1>3, <1>8, <1>9
  <2> QED
    BY <1>11, <1>12, <1>13, <1>14, <1>15, <1>16, <2>1, <2>2 DEF ViewInv
<1> QED
  BY <1>17, <1>18 DEF WalkInv

LEMMA WriteInv ==
    ASSUME TableInv, TableInv', ClientShape, WalkInv, Write(docs'),
           nextId' >= nextId
    PROVE  WalkInv'
<1> SUFFICES ASSUME Walking' PROVE WalkInv'
  BY DEF WalkInv
<1> DEFINE L == Wanted(docs, client)
           M == Wanted(docs', client)
           sort == client.sort
           dir == client.dir
           moved == Moved(docs')
           sunk == Sunk(docs')
           r == client.page * PageSize
<1>1. /\ Walking
      /\ client'.owner = client.owner /\ client'.status = client.status
      /\ client'.sort = client.sort /\ client'.dir = client.dir /\ client'.page = client.page
      /\ client'.seen = client.seen /\ client'.more = client.more
      /\ client'.again = client.again
      /\ client'.stayed = (client.stayed \cap M) \ moved
      /\ client'.left = (client.left \/ ~(L \subseteq M) \/ sunk # {})
      /\ client'.joined = (client.joined \/ ~(M \subseteq L) \/ moved # {})
  <2> DEFINE table == docs'
  <2>1. Write(table)
    OBVIOUS
  <2> HIDE DEF table
  <2>2. Walking' = Walking
    BY <2>1, WriteFields
  <2>3. /\ client'.owner = client.owner /\ client'.status = client.status
        /\ client'.sort = client.sort /\ client'.dir = client.dir /\ client'.page = client.page
        /\ client'.seen = client.seen /\ client'.more = client.more
        /\ client'.again = client.again
        /\ client'.stayed = (client.stayed \cap Wanted(table, client)) \ Moved(table)
        /\ client'.left = (client.left \/ ~(Wanted(docs, client) \subseteq Wanted(table, client)) \/ Sunk(table) # {})
        /\ client'.joined = (client.joined \/ ~(Wanted(table, client) \subseteq Wanted(docs, client)) \/ Moved(table) # {})
    BY <2>1, <2>2, WriteFields
  <2> USE DEF table
  <2> QED
    BY <2>2, <2>3
<1>2. /\ sort \in R!SortColumns
      /\ client.page \in Nat /\ client.seen \subseteq 1 .. nextId - 1 /\ client.stayed \subseteq L
      /\ ~client.left => \A d \in client.stayed \ client.seen : Rank(docs, sort, dir, L, d) >= r
      /\ ~client.joined => \A d \in client.seen \cap L : Rank(docs, sort, dir, L, d) < r
      /\ client.again => client.joined
      /\ ~client.left /\ ~client.more => client.stayed \subseteq client.seen
  BY <1>1 DEF WalkInv, ViewInv
<1>3. IsFiniteSet(L) /\ L \subseteq DOMAIN docs
  BY WantedFacts
<1>4. Wanted(docs', client') = M
  BY <1>1 DEF Wanted
<1>5. IsFiniteSet(M) /\ M \subseteq DOMAIN docs'
  <2>1. M \subseteq DOMAIN docs'
    BY DEF Wanted, R!Matching, R!Scope
  <2>2. DOMAIN docs' \subseteq 1 .. nextId' - 1 /\ nextId' \in 1 .. MaxDocs + 1
    BY DEF TableInv, TypeOK
  <2>3. nextId' - 1 \in Nat
    BY <2>2, ReportConstants
  <2> DEFINE k == nextId' - 1
  <2>4. k \in Nat
    BY <2>3
  <2> HIDE DEF M, k
  <2>5. IsFiniteSet(1 .. k)
    BY <2>4, UpTo
  <2>6. M \subseteq 1 .. k
    BY <2>1, <2>2 DEF k
  <2> QED
    BY <2>1, <2>5, <2>6, FS_Subset
\* What keeps its key, and what does not sink.
<1>17. ASSUME NEW d \in L \cap M
      PROVE  /\ At(docs, sort, d) \in Int /\ At(docs', sort, d) \in Int
             /\ d \notin moved => At(docs', sort, d) = At(docs, sort, d)
             /\ d \notin sunk => ~R!Precedes(At(docs, sort, d), At(docs', sort, d), dir)
  <2>1. docs[d] \in Row /\ docs'[d] \in Row
    BY <1>3, <1>5 DEF TableInv, TypeOK
  <2> DEFINE k == At(docs, sort, d)
             l == At(docs', sort, d)
  <2>2. k \in Int /\ l \in Int
    BY <1>2, <2>1, KeyIsInt DEF At
  <2>3. d \notin moved => l = k
    BY DEF Moved, Listed, Wanted, Key, At
  <2>4. d \notin sunk => d \notin moved \/ ~R!Precedes(k, l, dir)
    BY DEF Sunk, Key, At
  <2> HIDE DEF k, l, moved, sunk, dir
  <2>5. d \notin sunk => ~R!Precedes(k, l, dir)
    BY <2>2, <2>3, <2>4 DEF R!Precedes
  <2> USE DEF k, l
  <2> QED
    BY <2>2, <2>3, <2>5
<1>6. ASSUME L \subseteq M, sunk = {}, NEW d \in L, d \notin moved
      PROVE  Rank(docs, sort, dir, L, d) <= Rank(docs', sort, dir, M, d)
  <2> DEFINE table == docs'
  <2>1. /\ At(docs, sort, d) = At(table, sort, d)
        /\ \A e \in L : /\ At(docs, sort, e) \in Int /\ At(table, sort, e) \in Int
                         /\ ~R!Precedes(At(docs, sort, e), At(table, sort, e), dir)
    BY <1>6, <1>17
  <2> HIDE DEF L, M, sort, dir, table
  <2>2. Rank(docs, sort, dir, L, d) <= Rank(table, sort, dir, M, d)
    BY <1>5, <1>6, <2>1, RankGrows
  <2> QED
    BY <2>2 DEF table
<1>7. ASSUME M \subseteq L, moved = {}, NEW d \in M
      PROVE  Rank(docs', sort, dir, M, d) <= Rank(docs, sort, dir, L, d)
  <2> DEFINE table == docs'
  <2>1. /\ At(table, sort, d) = At(docs, sort, d)
        /\ \A e \in M : /\ At(table, sort, e) \in Int /\ At(docs, sort, e) \in Int
                         /\ At(table, sort, e) = At(docs, sort, e)
    BY <1>7, <1>17
  <2> HIDE DEF L, M, sort, dir, table
  <2>2. \A e \in M : ~R!Precedes(At(table, sort, e), At(docs, sort, e), dir)
    BY <2>1 DEF R!Precedes
  <2>3. Rank(table, sort, dir, M, d) <= Rank(docs, sort, dir, L, d)
    BY <1>3, <1>7, <2>1, <2>2, RankGrows
  <2> QED
    BY <2>3 DEF table
<1>8. /\ \A d : Rank(docs, sort, dir, L, d) \in Nat
      /\ \A d : Rank(docs', sort, dir, M, d) \in Nat
  <2> DEFINE table == docs'
  <2> HIDE DEF L, M, sort, dir, table
  <2>1. \A d : Rank(docs, sort, dir, L, d) \in Nat
    BY <1>3, RankNat
  <2>2. \A d : Rank(table, sort, dir, M, d) \in Nat
    BY <1>5, RankNat
  <2> QED
    BY <2>1, <2>2 DEF table
<1>9. r \in Nat /\ client'.page * PageSize = r
  BY <1>1, <1>2, ReportConstants
<1> DEFINE before(d) == Rank(docs, sort, dir, L, d)
           after(d) == Rank(docs', sort, dir, M, d)
<1>10. \A d : Rank(docs', client'.sort, client'.dir, Wanted(docs', client'), d) = after(d)
  BY <1>1, <1>4
<1>11. /\ \A d : before(d) \in Nat /\ after(d) \in Nat
       /\ L \subseteq M /\ sunk = {} => \A d \in L \ moved : before(d) <= after(d)
       /\ M \subseteq L /\ moved = {} => \A d \in M : after(d) <= before(d)
       /\ ~client.left => \A d \in client.stayed \ client.seen : before(d) >= r
       /\ ~client.joined => \A d \in client.seen \cap L : before(d) < r
  BY <1>2, <1>6, <1>7, <1>8
<1> HIDE DEF L, M, sort, dir, moved, sunk, r, before, after
<1>12. ASSUME ~client'.left, NEW d \in client'.stayed \ client'.seen PROVE after(d) >= r
  <2>1. /\ ~client.left /\ L \subseteq M /\ sunk = {}
        /\ d \in client.stayed \ client.seen /\ d \in L \ moved
    BY <1>1, <1>2, <1>12
  <2>2. before(d) >= r /\ before(d) <= after(d) /\ before(d) \in Nat /\ after(d) \in Nat
    BY <1>11, <2>1
  <2> QED
    BY <1>9, <2>2
<1>13. ASSUME ~client'.joined, NEW d \in client'.seen \cap M PROVE after(d) < r
  <2>1. ~client.joined /\ M \subseteq L /\ moved = {} /\ d \in client.seen \cap L
    BY <1>1, <1>13
  <2>2. before(d) < r /\ after(d) <= before(d) /\ before(d) \in Nat /\ after(d) \in Nat
    BY <1>11, <2>1
  <2> QED
    BY <1>9, <2>2
<1>14. client'.seen \subseteq 1 .. nextId' - 1
  <2>1. nextId \in Int /\ nextId' \in Int
    BY DEF TableInv, TypeOK
  <2> QED
    BY <1>1, <1>2, <2>1
<1>15. ViewInv(docs', client', nextId')
  <2>1. client'.sort \in R!SortColumns
    BY <1>1, <1>2 DEF sort
  <2>2. client'.page \in Nat /\ client'.stayed \subseteq M /\ (client'.again => client'.joined)
    BY <1>1, <1>2
  <2> QED
    BY <1>4, <1>9, <1>10, <1>12, <1>13, <1>14, <2>1, <2>2 DEF ViewInv
<1>16. ~client'.left /\ ~client'.more => client'.stayed \subseteq client'.seen
  BY <1>1, <1>2
<1> QED
  BY <1>15, <1>16 DEF WalkInv

LEMMA SameInv ==
    ASSUME WalkInv, docs' = docs, nextId' = nextId, client' = client
    PROVE  WalkInv'
  BY DEF WalkInv, Walking, ViewInv, Wanted

LEMMA WalkInit == Init => WalkInv
  BY IdleView DEF Init, WalkInv, Walking

LEMMA WalkNext ==
    TableInv /\ ClientShape /\ WalkInv /\ [Next]_vars => WalkInv'
<1> SUFFICES ASSUME TableInv, ClientShape, WalkInv, [Next]_vars PROVE WalkInv'
  OBVIOUS
<1>1. TableInv' /\ ClientShape'
  BY TableNext
<1>2. CASE UNCHANGED vars
  BY <1>2, SameInv DEF vars
<1>3. CASE Next
  <2>1. StepKind
    BY <1>3, Kinds
  <2>2. CASE Tick
    BY <2>2, SameInv DEF Tick
  <2>3. ASSUME NEW owner \in Owner, NEW file \in File, NEW created \in Stamps, Upload(owner, file, created)
        PROVE  WalkInv'
    <3> DEFINE row == [owner |-> owner, filename |-> file.filename, size |-> file.size,
                       created |-> created, updated |-> created, status |-> "pending", kind |-> None,
                       code |-> None, crash |-> None, pages |-> None, attempts |-> 0, ex |-> None]
               table == [d \in DOMAIN docs \cup {nextId} |-> IF d # nextId THEN docs[d] ELSE row]
    <3>1. Write(table) /\ nextId' = nextId + 1
      BY <2>3 DEF Upload
    <3>2. nextId \in Int
      BY DEF TableInv, TypeOK
    <3> HIDE DEF table
    <3>3. docs' = table
      BY <3>1, WriteFields
    <3> QED
      BY <1>1, <3>1, <3>2, <3>3, WriteInv
  <2>4. ASSUME NEW d \in DOMAIN docs, Delete(d) PROVE WalkInv'
    <3> DEFINE table == [e \in DOMAIN docs \ {d} |-> docs[e]]
    <3>1. Write(table) /\ nextId' = nextId
      BY <2>4 DEF Delete
    <3>2. nextId \in Int
      BY DEF TableInv, TypeOK
    <3> HIDE DEF table
    <3>3. docs' = table
      BY <3>1, WriteFields
    <3> QED
      BY <1>1, <3>1, <3>2, <3>3, WriteInv
  <2>5. ASSUME NEW d \in DOMAIN docs, NEW new, Updates(d, new) PROVE WalkInv'
    <3> DEFINE table == [docs EXCEPT ![d] = new]
    <3>1. Write(table) /\ nextId' = nextId
      BY <2>5 DEF Updates
    <3>2. nextId \in Int
      BY DEF TableInv, TypeOK
    <3> HIDE DEF table
    <3>3. docs' = table
      BY <3>1, WriteFields
    <3> QED
      BY <1>1, <3>1, <3>2, <3>3, WriteInv
  <2>6. CASE NextPage
    <3>1. Walking /\ Reads(client) /\ UNCHANGED <<docs, nextId, now, runs>>
      BY <2>6, NextReads
    <3>2. DOMAIN client = WalkFields
      BY <3>1, IdleView DEF ClientShape, Walking
    <3>3. ViewInv(docs, client, nextId)
      BY <3>1 DEF WalkInv
    <3> QED
      BY <3>1, <3>2, <3>3, ReadInv
  <2>7. CASE Leave
    BY <2>7, IdleView DEF Leave, WalkInv, Walking
  <2>8. ASSUME NEW filter \in Filter, OpenList(filter) PROVE WalkInv'
    <3> DEFINE listed == R!Matching(docs, filter.status, filter.owner)
               view == Fresh(filter, listed)
    <3>1. Reads(view) /\ UNCHANGED <<docs, nextId, now, runs>>
      BY <2>8, OpenReads
    <3> HIDE DEF listed
    <3>2. /\ DOMAIN view = WalkFields
          /\ view.owner = filter.owner /\ view.status = filter.status /\ view.sort = filter.sort
          /\ view.page = 0 /\ view.seen = {} /\ view.again = FALSE /\ view.stayed = listed
      BY DEF Fresh, WalkFields
    <3> HIDE DEF view
    <3> USE DEF listed
    <3>3. Wanted(docs, view) = view.stayed
      BY <3>2 DEF Wanted
    <3>4. \A d : Rank(docs, view.sort, view.dir, Wanted(docs, view), d) >= 0
      <4> DEFINE L == Wanted(docs, view)
                 sort == view.sort
                 dir == view.dir
      <4>1. IsFiniteSet(L)
        BY WantedFacts
      <4> HIDE DEF L, sort, dir
      <4>2. \A d : Rank(docs, sort, dir, L, d) \in Nat
        BY <4>1, RankNat
      <4>3. \A d : Rank(docs, sort, dir, L, d) >= 0
        BY <4>2
      <4> USE DEF L, sort, dir
      <4> QED
        BY <4>3
    <3>5. view.page * PageSize = 0 /\ view.page \in Nat
      BY <3>2, ReportConstants
    <3>6. view.sort \in R!SortColumns
      BY <3>2, TextAndAnswers
    <3>7. ViewInv(docs, view, nextId)
      BY <3>2, <3>3, <3>4, <3>5, <3>6 DEF ViewInv
    <3> QED
      BY <3>1, <3>2, <3>7, ReadInv
  <2> QED
    BY <2>1, <2>2, <2>3, <2>4, <2>5, <2>6, <2>7, <2>8 DEF StepKind
<1> QED
  BY <1>2, <1>3

ReportsInv == TableInv /\ ClientShape /\ WalkInv

LEMMA ReportsInvInit == Init => ReportsInv
  BY TableInit, WalkInit DEF ReportsInv

LEMMA ReportsInvNext == ReportsInv /\ [Next]_vars => ReportsInv'
  BY TableNext, WalkNext DEF ReportsInv

LEMMA Reported == Spec => []ReportsInv
  BY ReportsInvInit, ReportsInvNext, PTL DEF Spec

-----------------------------------------------------------------------------
(* What is stored, and the walk.                                            *)

\* Rows, clock and client have their types: no run stores a figure out of range.
THEOREM ReportsTypeOK == Spec => []TypeOK
<1>1. ReportsInv => TypeOK
  BY DEF ReportsInv, TableInv
<1> QED
  BY <1>1, Reported, PTL

\* Only twenty warnings on a truncated text discard what a model answered within the
\* schema, with numbers that a float can hold (analysis_contract.py:226): the repair
\* leaves nothing else to fail on.
THEOREM OnlyTruncation == Spec => []OnlyTruncationDiscards
<1>1. ReportsInv => OnlyTruncationDiscards
  BY DEF ReportsInv, TableInv, GoodRow, RowOK, ExtractionOK, OnlyTruncationDiscards
<1> QED
  BY <1>1, Reported, PTL

\* process_document: where the rules raise the internal error of a row, an amount of the
\* text is longer than a field may be (heuristic.py:458); and what they store is of a text
\* without one.
THEOREM CrashesExplained == Spec => []CrashesAreExplained
<1>1. ASSUME ReportsInv PROVE CrashesAreExplained
  <2>1. \A d \in DOMAIN docs : RowOK(docs[d]) /\ docs[d] \in Row
    BY <1>1 DEF ReportsInv, TableInv, GoodRow
  <2>2. \A crash \in Crash : crash # None
    BY NoneIsNoRecord
  <2> QED
    BY <2>1, <2>2 DEF RowOK, ExtractionOK, Explained, CrashesAreExplained
<1> QED
  BY <1>1, Reported, PTL

\* list_documents, by any of its columns: a client that reads to the last page has seen
\* every document that was on the list all the time with the same sort key, unless some
\* document left it or moved to a later place, and sees one twice only if some document
\* joined it or moved.
THEOREM WalksAreComplete == Spec => []PagingIsComplete
<1>1. ReportsInv => PagingIsComplete
  BY DEF ReportsInv, WalkInv, ViewInv, PagingIsComplete
<1> QED
  BY <1>1, Reported, PTL

\* answer_question: an answer said to be found is not blank, or has at most three
\* quotes, one of them with a third of the words of the question, or nearly so.
THEOREM AnswersGrounded == Spec => []AnswersAreGrounded
<1>1. ASSUME ReportsInv PROVE AnswersAreGrounded
  <2> SUFFICES ASSUME NEW d \in DOMAIN docs, Askable(d)
               PROVE  /\ \A reply \in Reply : CoerceAnswer(reply).found =>
                            ~CoerceAnswer(reply).blank /\ CoerceAnswer(reply).quotes <= 5
                      /\ \A question \in Question :
                            LET answer == AnswerTo[docs[d].ex.text][question]
                                words(i) == Text[docs[d].ex.text].sentences[i].words
                            IN answer.found =>
                                  /\ Cardinality(answer.quotes) \in 1 .. 3
                                  /\ \E i \in answer.quotes :
                                        4 * Cardinality(words(i) \cap question) > Cardinality(question)
    BY DEF AnswersAreGrounded
  <2>1. ASSUME NEW reply \in Reply, CoerceAnswer(reply).found
        PROVE  ~CoerceAnswer(reply).blank /\ CoerceAnswer(reply).quotes <= 5
    <3>1. reply.quotes \in Nat
      BY TextAndAnswers
    <3>2. AtMost(reply.quotes, 5) <= 5
      BY <3>1, Capped
    <3> QED
      BY <2>1, <3>2 DEF CoerceAnswer
  <2> DEFINE t == docs[d].ex.text
  <2>2. t \in DOMAIN Text
    <3>0. docs[d] \in Row /\ docs[d].ex # None
      BY <1>1 DEF ReportsInv, TableInv, GoodRow, Askable
    <3>1. docs[d].ex \in Extraction
      BY <3>0, RowFields
    <3> QED
      BY <3>1, ExtractionFields
  <2>3. IsText(Text[t])
    BY <2>2, TextAndAnswers
  <2> HIDE DEF t
  <2>4. ASSUME NEW question \in Question, AnswerTo[t][question].found
        PROVE  /\ Cardinality(AnswerTo[t][question].quotes) \in 1 .. 3
               /\ \E i \in AnswerTo[t][question].quotes :
                     4 * Cardinality(Text[t].sentences[i].words \cap question) > Cardinality(question)
    <3>1. AnswerTo[t][question] = Answer(Text[t], question)
      BY <2>2 DEF AnswerTo
    <3>2. IsFiniteSet(question)
      BY TextAndAnswers
    <3> QED
      BY <2>3, <2>4, <3>1, <3>2, AnswersHold
  <2> USE DEF t
  <2> QED
    BY <2>1, <2>4
<1>2. ReportsInv => AnswersAreGrounded
  BY <1>1
<1> QED
  BY <1>2, Reported, PTL

-----------------------------------------------------------------------------
(* The documents of a window.                                               *)

LEMMA Rows ==
    ASSUME TableInv
    PROVE  \A d \in DOMAIN docs :
              /\ RowOK(docs[d]) /\ docs[d].owner \in Owner /\ docs[d].created \in Nat
              /\ docs[d].status \in Status /\ docs[d].pages \in Nat \cup {None}
              /\ docs[d].ex # None =>
                    /\ docs[d].ex.confidence \in 0 .. Unit /\ docs[d].ex.provider \in Engines
                    /\ docs[d].ex.ms \in Nat
<1> SUFFICES ASSUME NEW d \in DOMAIN docs
             PROVE  /\ RowOK(docs[d]) /\ docs[d].owner \in Owner /\ docs[d].created \in Nat
                    /\ docs[d].status \in Status /\ docs[d].pages \in Nat \cup {None}
                    /\ docs[d].ex # None =>
                          /\ docs[d].ex.confidence \in 0 .. Unit /\ docs[d].ex.provider \in Engines
                          /\ docs[d].ex.ms \in Nat
  OBVIOUS
<1>1. docs[d] \in Row /\ RowOK(docs[d])
  BY DEF TableInv, GoodRow
<1> QED
  BY <1>1, RowFields, ExtractionFields

LEMMA DocsFinite == ASSUME TableInv PROVE IsFiniteSet(DOMAIN docs)
<1> DEFINE k == nextId - 1
<1>1. k \in Nat /\ DOMAIN docs \subseteq 1 .. k
  BY ReportConstants DEF TableInv, TypeOK
<1> HIDE DEF k
<1> QED
  BY <1>1, UpTo, FS_Subset

LEMMA WindowFacts ==
    ASSUME TableInv, NEW start, NEW end, NEW owner
    PROVE  LET D == R!Window(docs, start, end, owner) IN
           D \in SUBSET DOMAIN docs /\ IsFiniteSet(D)
<1>1. R!Window(docs, start, end, owner) \in SUBSET DOMAIN docs
  BY DEF R!Window, R!Scope
<1> QED
  BY <1>1, DocsFinite, FS_Subset

LEMMA PartCount ==
    ASSUME NEW D, IsFiniteSet(D), NEW P \in SUBSET D
    PROVE  /\ IsFiniteSet(P) /\ IsFiniteSet(D \ P)
           /\ Cardinality(P) \in Nat /\ Cardinality(D) \in Nat /\ Cardinality(D \ P) \in Nat
           /\ Cardinality(P) <= Cardinality(D)
           /\ Cardinality(D) = Cardinality(P) + Cardinality(D \ P)
<1>1. D \cap P = P
  OBVIOUS
<1>2. Cardinality(D \ P) = Cardinality(D) - Cardinality(P) /\ IsFiniteSet(D \ P)
  <2>1. Cardinality(D \ P) = Cardinality(D) - Cardinality(D \cap P) /\ IsFiniteSet(D \ P)
    BY FS_Difference
  <2> QED
    BY <1>1, <2>1
<1>3. IsFiniteSet(P) /\ Cardinality(P) <= Cardinality(D)
  BY FS_Subset
<1>4. Cardinality(P) \in Nat /\ Cardinality(D) \in Nat /\ Cardinality(D \ P) \in Nat
  BY <1>2, <1>3, FS_CardinalityType
<1> QED
  BY <1>2, <1>3, <1>4

-----------------------------------------------------------------------------
\* _overall_confidence: in every window the top bucket of confidence holds no more
\* documents than a model has analysed.
THEOREM RulesStayBelow == Spec => []RulesNeverOutrank
<1>1. ASSUME ReportsInv PROVE RulesNeverOutrank
  <2> SUFFICES ASSUME NEW owner \in Owner \cup {None}
               PROVE  LET D == R!Window(docs, now - WindowLength, now, owner)
                          by == R!Providers(docs, D).analysis
                      IN R!Confidence(docs, D)[4] <= IF "model" \in DOMAIN by THEN by["model"] ELSE 0
    BY DEF RulesNeverOutrank
  <2> DEFINE D == R!Window(docs, now - WindowLength, now, owner)
             E == R!Extracted(docs, D)
             top == {d \in E : docs[d].ex.confidence >= 8500 /\ docs[d].ex.confidence < 10100}
             modelled == {d \in E : docs[d].ex.provider = "model"}
             by == R!Providers(docs, D).analysis
  <2>1. TableInv
    BY <1>1 DEF ReportsInv
  <2>2. D \in SUBSET DOMAIN docs /\ IsFiniteSet(D)
    BY <2>1, WindowFacts
  <2>3. R!Confidence(docs, D)[4] = Cardinality(top)
    BY SameOperators DEF R!Confidence, R!Buckets
  <2>4. /\ DOMAIN by = {docs[d].ex.provider : d \in E}
        /\ "model" \in DOMAIN by => by["model"] = Cardinality(modelled)
    BY SameOperators DEF R!Providers
  <2> HIDE DEF D
  <2>5. E \in SUBSET D /\ \A d \in E : docs[d].ex # None
    BY DEF R!Extracted
  <2>6. ASSUME NEW d \in top PROVE d \in modelled
    <3>1. d \in DOMAIN docs /\ docs[d].ex # None /\ docs[d].ex.confidence >= 8500
      BY <2>2, <2>5
    <3>2. docs[d].ex.provider \in Engines /\ docs[d].ex.confidence \in 0 .. Unit /\ ExtractionOK(docs[d].ex)
      BY <2>1, <3>1, Rows DEF RowOK
    <3>3. docs[d].ex.provider # "heuristic"
      BY <3>1, <3>2 DEF ExtractionOK
    <3> QED
      BY <3>2, <3>3 DEF Engines
  <2> HIDE DEF E
  <2>7. IsFiniteSet(modelled)
    <3>1. modelled \in SUBSET D
      BY <2>5
    <3> QED
      BY <2>2, <3>1, FS_Subset
  <2>8. Cardinality(top) <= Cardinality(modelled)
    <3> HIDE DEF top, modelled
    <3>1. top \in SUBSET modelled
      BY <2>6
    <3> QED
      BY <2>7, <3>1, FS_Subset
  <2>9. CASE "model" \in DOMAIN by
    <3> HIDE DEF by, top, modelled
    <3> QED
      BY <2>3, <2>4, <2>8, <2>9 DEF D, by
  <2>10. CASE "model" \notin DOMAIN by
    <3>1. modelled = {}
      BY <2>4, <2>10
    <3>2. top = {}
      BY <2>6, <3>1
    <3>3. Cardinality(top) = 0
      BY <3>2, FS_EmptySet
    <3> HIDE DEF by, top, modelled
    <3> QED
      BY <2>3, <2>10, <3>3 DEF D, by
  <2> QED
    BY <2>9, <2>10
<1>2. ReportsInv => RulesNeverOutrank
  BY <1>1
<1> QED
  BY <1>2, Reported, PTL

-----------------------------------------------------------------------------
(* The panels of one window.                                                *)

\* Grouping and counting loses nothing: a panel adds up to what it groups.
LEMMA PanelAddsUp ==
    ASSUME NEW D, IsFiniteSet(D), NEW K, IsFiniteSet(K), NEW h, \A d \in D : h[d] \in K,
           NEW g, DOMAIN g = K, \A k \in K : g[k] = Cardinality({d \in D : h[d] = k})
    PROVE  SumOf(g) = Cardinality(D)
  BY Groups DEF SumOf

\* The documents of a window, whatever was done to them.
WindowOf(D) ==
    /\ TableInv
    /\ D \in SUBSET DOMAIN docs /\ IsFiniteSet(D)

LEMMA Parts ==
    ASSUME NEW D, WindowOf(D)
    PROVE  /\ \A status : R!Of(docs, D, status) \in SUBSET D /\ IsFiniteSet(R!Of(docs, D, status))
           /\ R!Extracted(docs, D) \in SUBSET D /\ IsFiniteSet(R!Extracted(docs, D))
<1>1. \A status : R!Of(docs, D, status) \in SUBSET D
  BY DEF R!Of
<1>2. R!Extracted(docs, D) \in SUBSET D
  BY DEF R!Extracted
<1>3. IsFiniteSet(D)
  BY DEF WindowOf
<1> QED
  BY <1>1, <1>2, <1>3, FS_Subset

LEMMA TotalsFields ==
    ASSUME NEW D
    PROVE  /\ R!Totals(docs, D).documents = Cardinality(D)
           /\ R!Totals(docs, D).completed = Cardinality(R!Of(docs, D, {"completed"}))
           /\ R!Totals(docs, D).failed = Cardinality(R!Of(docs, D, {"failed"}))
           /\ R!Totals(docs, D).in_progress = Cardinality(R!Of(docs, D, {"pending", "processing"}))
           /\ R!Totals(docs, D).pages = R!PagesIn(docs, D)
  BY SameOperators DEF R!Totals

LEMMA StatusesSplit ==
    ASSUME NEW D, WindowOf(D)
    PROVE  LET totals == R!Totals(docs, D) IN
           totals.documents = totals.completed + totals.failed + totals.in_progress
<1> DEFINE C == R!Of(docs, D, {"completed"})
           F == R!Of(docs, D, {"failed"})
           P == R!Of(docs, D, {"pending", "processing"})
           B == D \ C
<1>1. \A d \in D : docs[d].status \in Status
  BY Rows DEF WindowOf
<1>2. C \in SUBSET D /\ F \in SUBSET B /\ P = B \ F
  BY <1>1 DEF R!Of, Status
<1>3. IsFiniteSet(D)
  BY DEF WindowOf
<1> HIDE DEF C, F, P, B
<1>4. IsFiniteSet(B)
  BY <1>2, <1>3, FS_Subset DEF B
<1>5. Cardinality(D) = Cardinality(C) + Cardinality(B) /\ Cardinality(C) \in Nat
  BY <1>2, <1>3, PartCount DEF B
<1>6. Cardinality(B) = Cardinality(F) + Cardinality(P) /\ Cardinality(F) \in Nat /\ Cardinality(P) \in Nat
  BY <1>2, <1>4, PartCount
<1>7. Cardinality(D) = Cardinality(C) + Cardinality(F) + Cardinality(P)
  BY <1>5, <1>6
<1> QED
  BY <1>7, TotalsFields DEF C, F, P

LEMMA TypesAddUp ==
    ASSUME NEW D, WindowOf(D)
    PROVE  LET types == R!ByType(docs, D) IN
           /\ SumOf([k \in DOMAIN types |-> types[k].documents]) = Cardinality(D)
           /\ SumOf([k \in DOMAIN types |-> types[k].failed]) = Cardinality(R!Of(docs, D, {"failed"}))
<1> DEFINE types == R!ByType(docs, D)
           F == R!Of(docs, D, {"failed"})
           h == [d \in D |-> docs[d].kind]
           K == {docs[d].kind : d \in D}
           g == [k \in DOMAIN types |-> types[k].documents]
           f == [k \in DOMAIN types |-> types[k].failed]
<1>1. IsFiniteSet(D) /\ F \in SUBSET D /\ IsFiniteSet(F)
  BY Parts DEF WindowOf
<1>2. K = {h[d] : d \in D}
  OBVIOUS
<1>3. IsFiniteSet(K)
  <2>1. IsFiniteSet({h[d] : d \in D})
    <3> HIDE DEF h
    <3> QED
      BY <1>1, ImageFinite
  <2> QED
    BY <1>2, <2>1
<1>4. DOMAIN types = K
  BY DEF R!ByType
<1>5. \A k \in K : types[k].documents = Cardinality({d \in D : docs[d].kind = k})
  BY SameOperators DEF R!ByType
<1>6. \A k \in K : types[k].failed = Cardinality({d \in D : docs[d].kind = k /\ docs[d].status = "failed"})
  <2>1. \A k \in K : types[k].failed = Cardinality(R!Of(docs, {d \in D : docs[d].kind = k}, {"failed"}))
    BY SameOperators DEF R!ByType
  <2>2. \A k : R!Of(docs, {d \in D : docs[d].kind = k}, {"failed"})
                   = {d \in D : docs[d].kind = k /\ docs[d].status = "failed"}
    BY DEF R!Of
  <2> HIDE DEF types, K
  <2> QED
    BY <2>1, <2>2
<1>7. \A d \in D : h[d] \in K
  OBVIOUS
<1>8. \A k \in K : g[k] = Cardinality({d \in D : h[d] = k})
  <2>1. \A k : {d \in D : docs[d].kind = k} = {d \in D : h[d] = k}
    OBVIOUS
  <2> HIDE DEF types, K, h
  <2> QED
    BY <1>4, <1>5, <2>1
<1>9. \A k \in K : f[k] = Cardinality({d \in F : h[d] = k})
  <2>1. \A k : {d \in D : docs[d].kind = k /\ docs[d].status = "failed"} = {d \in F : h[d] = k}
    BY DEF R!Of
  <2> HIDE DEF types, K, h, F
  <2> QED
    BY <1>4, <1>6, <2>1
<1>10. DOMAIN g = K /\ DOMAIN f = K
  BY <1>4
<1> HIDE DEF types, h, K, g, f, F
<1>11. SumOf(g) = Cardinality(D)
  BY <1>1, <1>3, <1>7, <1>8, <1>10, PanelAddsUp
<1>12. SumOf(f) = Cardinality(F)
  BY <1>1, <1>3, <1>7, <1>9, <1>10, PanelAddsUp
<1> USE DEF types, g, f, F
<1> QED
  BY <1>11, <1>12

LEMMA FailuresAddUp ==
    ASSUME NEW D, WindowOf(D)
    PROVE  SumOf(R!Failures(docs, D)) = Cardinality(R!Of(docs, D, {"failed"}))
<1> DEFINE F == R!Of(docs, D, {"failed"})
           h == [d \in F |-> docs[d].code]
           K == {docs[d].code : d \in F} \ {None}
           g == R!Failures(docs, D)
<1>1. IsFiniteSet(D) /\ F \in SUBSET D /\ IsFiniteSet(F)
  BY Parts DEF WindowOf
<1>2. \A d \in F : docs[d].code # None
  <2>1. \A d \in F : RowOK(docs[d]) /\ docs[d].status = "failed"
    BY Rows DEF WindowOf, R!Of
  <2> QED
    BY <2>1, ReportConstants DEF RowOK
<1>3. DOMAIN g = K
  BY DEF R!Failures
<1>4. \A k \in K : g[k] = Cardinality({d \in F : docs[d].code = k})
  BY SameOperators DEF R!Failures
<1> HIDE DEF F, g
<1>5. K = {h[d] : d \in F} /\ \A d \in F : h[d] \in K
  BY <1>2
<1>6. IsFiniteSet(K)
  <2> HIDE DEF h, K
  <2> QED
    BY <1>1, <1>5, ImageFinite
<1>7. \A k \in K : g[k] = Cardinality({d \in F : h[d] = k})
  <2>1. \A k : {d \in F : docs[d].code = k} = {d \in F : h[d] = k}
    OBVIOUS
  <2> HIDE DEF K, h
  <2> QED
    BY <1>4, <2>1
<1> HIDE DEF h, K
<1>8. SumOf(g) = Cardinality(F)
  BY <1>1, <1>3, <1>5, <1>6, <1>7, PanelAddsUp
<1> QED
  BY <1>8 DEF F, g

LEMMA DaysAddUp ==
    ASSUME NEW D, WindowOf(D)
    PROVE  LET daily == R!Daily(docs, D) IN
           /\ SumOf([x \in DOMAIN daily |-> daily[x].documents]) = Cardinality(D)
           /\ SumOf([x \in DOMAIN daily |-> daily[x].completed]) = Cardinality(R!Of(docs, D, {"completed"}))
<1> DEFINE daily == R!Daily(docs, D)
           C == R!Of(docs, D, {"completed"})
           day(d) == docs[d].created \div DayLength
           h == [d \in D |-> day(d)]
           K == {day(d) : d \in D}
           g == [x \in DOMAIN daily |-> daily[x].documents]
           f == [x \in DOMAIN daily |-> daily[x].completed]
<1>1. IsFiniteSet(D) /\ C \in SUBSET D /\ IsFiniteSet(C)
  BY Parts DEF WindowOf
<1>2. DOMAIN daily = K
  BY DEF R!Daily
<1>3. \A x \in K : daily[x].documents = Cardinality({d \in D : day(d) = x})
  BY SameOperators DEF R!Daily
<1>4. \A x \in K : daily[x].completed = Cardinality({d \in C : day(d) = x})
  BY SameOperators DEF R!Daily
<1> HIDE DEF daily, C, day
<1>5. K = {h[d] : d \in D} /\ \A d \in D : h[d] \in K
  OBVIOUS
<1>6. IsFiniteSet(K)
  <2> HIDE DEF h, K
  <2> QED
    BY <1>1, <1>5, ImageFinite
<1>7. \A x \in K : g[x] = Cardinality({d \in D : h[d] = x})
  <2>1. \A x : {d \in D : day(d) = x} = {d \in D : h[d] = x}
    OBVIOUS
  <2> HIDE DEF K, h
  <2> QED
    BY <1>2, <1>3, <2>1
<1>8. \A x \in K : f[x] = Cardinality({d \in C : h[d] = x})
  <2>1. \A x : {d \in C : day(d) = x} = {d \in C : h[d] = x}
    BY <1>1
  <2> HIDE DEF K, h
  <2> QED
    BY <1>2, <1>4, <2>1
<1>9. DOMAIN g = K /\ DOMAIN f = K
  BY <1>2
<1> HIDE DEF h, K, g, f
<1>10. SumOf(g) = Cardinality(D)
  BY <1>1, <1>5, <1>6, <1>7, <1>9, PanelAddsUp
<1>11. SumOf(f) = Cardinality(C)
  BY <1>1, <1>5, <1>6, <1>8, <1>9, PanelAddsUp
<1> USE DEF daily, C, g, f
<1> QED
  BY <1>10, <1>11

\* The extractions, counted by what produced them and by how sure it was.
LEMMA ProvidersAddUp ==
    ASSUME NEW D, WindowOf(D)
    PROVE  LET providers == R!Providers(docs, D) IN
           /\ SumOf(providers.text_extraction) = Cardinality(R!Extracted(docs, D))
           /\ SumOf(providers.analysis) = Cardinality(R!Extracted(docs, D))
<1> DEFINE E == R!Extracted(docs, D)
           ocr == R!Providers(docs, D).text_extraction
           by == R!Providers(docs, D).analysis
           h1 == [d \in E |-> docs[d].ex.ocr]
           h2 == [d \in E |-> docs[d].ex.provider]
           K1 == {h1[d] : d \in E}
           K2 == {h2[d] : d \in E}
<1>1. IsFiniteSet(E)
  BY Parts
<1>2. /\ ocr = [p \in {docs[d].ex.ocr : d \in E} |-> Cardinality({d \in E : docs[d].ex.ocr = p})]
      /\ by = [p \in {docs[d].ex.provider : d \in E} |-> Cardinality({d \in E : docs[d].ex.provider = p})]
  BY SameOperators DEF R!Providers
<1> HIDE DEF E, ocr, by
<1>3. DOMAIN ocr = K1 /\ DOMAIN by = K2
  BY <1>2
<1>4. /\ \A p : {d \in E : docs[d].ex.ocr = p} = {d \in E : h1[d] = p}
      /\ \A p : {d \in E : docs[d].ex.provider = p} = {d \in E : h2[d] = p}
  OBVIOUS
<1>5. /\ \A p \in K1 : ocr[p] = Cardinality({d \in E : h1[d] = p})
      /\ \A p \in K2 : by[p] = Cardinality({d \in E : h2[d] = p})
  <2>1. /\ \A p \in DOMAIN ocr : ocr[p] = Cardinality({d \in E : docs[d].ex.ocr = p})
        /\ \A p \in DOMAIN by : by[p] = Cardinality({d \in E : docs[d].ex.provider = p})
    BY <1>2
  <2> HIDE DEF K1, K2, h1, h2
  <2> QED
    BY <1>3, <1>4, <2>1
<1>6. \A d \in E : h1[d] \in K1 /\ h2[d] \in K2
  OBVIOUS
<1> HIDE DEF h1, h2
<1>7. IsFiniteSet(K1) /\ IsFiniteSet(K2)
  BY <1>1, ImageFinite
<1> HIDE DEF K1, K2
<1>8. SumOf(ocr) = Cardinality(E)
  BY <1>1, <1>3, <1>5, <1>6, <1>7, PanelAddsUp
<1>9. SumOf(by) = Cardinality(E)
  BY <1>1, <1>3, <1>5, <1>6, <1>7, PanelAddsUp
<1> USE DEF E, ocr, by
<1> QED
  BY <1>8, <1>9

LEMMA ConfidenceAddsUp ==
    ASSUME NEW D, WindowOf(D)
    PROVE  SumOf(R!Confidence(docs, D)) = Cardinality(R!Extracted(docs, D))
<1> DEFINE E == R!Extracted(docs, D)
           c(d) == docs[d].ex.confidence
           g == R!Confidence(docs, D)
           h == [d \in E |-> IF c(d) < 5000 THEN 1 ELSE IF c(d) < 7000 THEN 2
                             ELSE IF c(d) < 8500 THEN 3 ELSE 4]
           K == 1 .. 4
<1>1. IsFiniteSet(E)
  BY Parts
<1>2. \A d \in E : c(d) \in Nat /\ c(d) < 10100
  <2>1. \A d \in E : d \in DOMAIN docs /\ docs[d].ex # None
    BY DEF R!Extracted, WindowOf
  <2>2. \A d \in E : c(d) \in 0 .. Unit
    BY <2>1, Rows DEF WindowOf
  <2>3. Unit \in Nat /\ Unit < 10100
    BY DEF Unit
  <2> HIDE DEF E, c
  <2> QED
    BY <2>2, <2>3
<1>3. DOMAIN g = K
  BY DEF R!Confidence, R!Buckets
<1>4. /\ g[1] = Cardinality({d \in E : c(d) >= 0 /\ c(d) < 5000})
      /\ g[2] = Cardinality({d \in E : c(d) >= 5000 /\ c(d) < 7000})
      /\ g[3] = Cardinality({d \in E : c(d) >= 7000 /\ c(d) < 8500})
      /\ g[4] = Cardinality({d \in E : c(d) >= 8500 /\ c(d) < 10100})
  <2>1. g[1] = Cardinality({d \in E : c(d) >= 0 /\ c(d) < 5000})
    BY SameOperators DEF R!Confidence, R!Buckets
  <2>2. g[2] = Cardinality({d \in E : c(d) >= 5000 /\ c(d) < 7000})
    BY SameOperators DEF R!Confidence, R!Buckets
  <2>3. g[3] = Cardinality({d \in E : c(d) >= 7000 /\ c(d) < 8500})
    BY SameOperators DEF R!Confidence, R!Buckets
  <2>4. g[4] = Cardinality({d \in E : c(d) >= 8500 /\ c(d) < 10100})
    BY SameOperators DEF R!Confidence, R!Buckets
  <2> QED
    BY <2>1, <2>2, <2>3, <2>4
<1> HIDE DEF E, c, g
<1>5. /\ {d \in E : c(d) >= 0 /\ c(d) < 5000} = {d \in E : h[d] = 1}
      /\ {d \in E : c(d) >= 5000 /\ c(d) < 7000} = {d \in E : h[d] = 2}
      /\ {d \in E : c(d) >= 7000 /\ c(d) < 8500} = {d \in E : h[d] = 3}
      /\ {d \in E : c(d) >= 8500 /\ c(d) < 10100} = {d \in E : h[d] = 4}
  <2>1. \A d \in E : (c(d) >= 0 /\ c(d) < 5000) <=> h[d] = 1
    BY <1>2
  <2>2. \A d \in E : (c(d) >= 5000 /\ c(d) < 7000) <=> h[d] = 2
    BY <1>2
  <2>3. \A d \in E : (c(d) >= 7000 /\ c(d) < 8500) <=> h[d] = 3
    BY <1>2
  <2>4. \A d \in E : (c(d) >= 8500 /\ c(d) < 10100) <=> h[d] = 4
    BY <1>2
  <2> HIDE DEF h
  <2> QED
    BY <2>1, <2>2, <2>3, <2>4
<1>6. \A d \in E : h[d] \in K
  OBVIOUS
<1>7. \A k \in K : g[k] = Cardinality({d \in E : h[d] = k})
  <2>1. \A k \in K : k = 1 \/ k = 2 \/ k = 3 \/ k = 4
    OBVIOUS
  <2> HIDE DEF h, K
  <2> QED
    BY <1>4, <1>5, <2>1
<1>8. IsFiniteSet(K)
  BY UpTo
<1> HIDE DEF h, K
<1>9. SumOf(g) = Cardinality(E)
  BY <1>1, <1>3, <1>6, <1>7, <1>8, PanelAddsUp
<1> QED
  BY <1>9 DEF g, E

LEMMA SamplesAre ==
    ASSUME NEW D, WindowOf(D)
    PROVE  /\ R!Performance(docs, D).samples = Cardinality(R!Extracted(docs, D))
           /\ Cardinality(R!Of(docs, D, {"completed"})) <= Cardinality(R!Extracted(docs, D))
           /\ Cardinality(R!Extracted(docs, D)) <= Cardinality(D)
<1> DEFINE E == R!Extracted(docs, D)
           C == R!Of(docs, D, {"completed"})
<1>1. IsFiniteSet(E) /\ IsFiniteSet(D) /\ E \in SUBSET D
  BY Parts DEF WindowOf
<1>2. C \in SUBSET E
  <2>1. \A d \in C : d \in D /\ RowOK(docs[d]) /\ docs[d].status = "completed"
    BY Rows DEF R!Of, WindowOf
  <2> QED
    BY <2>1 DEF R!Extracted, RowOK
<1>3. R!Performance(docs, D).samples = IF E = {} THEN 0 ELSE Cardinality(E)
  BY SameOperators DEF R!Performance
<1> HIDE DEF E, C
<1>4. E = {} => Cardinality(E) = 0
  BY FS_EmptySet
<1>5. Cardinality(C) <= Cardinality(E) /\ Cardinality(E) <= Cardinality(D)
  BY <1>1, <1>2, FS_Subset
<1> QED
  BY <1>3, <1>4, <1>5 DEF E, C

LEMMA TokensAreOfModels ==
    ASSUME NEW D, WindowOf(D)
    PROVE  R!Tokens(docs, D).documents <=
               Cardinality({d \in R!Extracted(docs, D) : docs[d].ex.provider = "model"})
<1> DEFINE E == R!Extracted(docs, D)
           paid == {d \in E : docs[d].ex.tokens # None}
           modelled == {d \in E : docs[d].ex.provider = "model"}
<1>1. IsFiniteSet(E)
  BY Parts
<1>2. R!Tokens(docs, D).documents = Cardinality(paid)
  BY SameOperators DEF R!Tokens
<1>3. \A d \in E : d \in DOMAIN docs /\ docs[d].ex # None
  BY DEF R!Extracted, WindowOf
<1>4. \A d \in E : docs[d].ex.provider \in Engines /\ ExtractionOK(docs[d].ex)
  BY <1>3, Rows DEF WindowOf, RowOK
<1> HIDE DEF E
<1>5. paid \in SUBSET modelled
  BY <1>4 DEF ExtractionOK, Engines
<1>6. modelled \in SUBSET E
  OBVIOUS
<1> HIDE DEF paid, modelled
<1>7. IsFiniteSet(modelled)
  BY <1>1, <1>6, FS_Subset
<1>8. Cardinality(paid) <= Cardinality(modelled)
  BY <1>5, <1>7, FS_Subset
<1> USE DEF E, modelled
<1> QED
  BY <1>2, <1>8

-----------------------------------------------------------------------------
(* The uploaders shown have their share.                                    *)

LEMMA UploaderGroups ==
    ASSUME NEW D, WindowOf(D)
    PROVE  LET K == {docs[d].owner : d \in D}
               count == [o \in K |-> Cardinality({d \in D : docs[d].owner = o})]
           IN /\ K \in SUBSET Owner /\ IsFiniteSet(K) /\ Cardinality(K) <= Cardinality(Owner)
              /\ \A o \in K : count[o] \in Nat
              /\ Total(count, K) = Cardinality(D)
<1> DEFINE K == {docs[d].owner : d \in D}
           count == [o \in K |-> Cardinality({d \in D : docs[d].owner = o})]
           h == [d \in D |-> docs[d].owner]
<1>1. IsFiniteSet(D) /\ \A d \in D : docs[d].owner \in Owner
  BY Rows DEF WindowOf
<1>2. K \in SUBSET Owner /\ \A d \in D : h[d] \in K
  BY <1>1
<1>3. IsFiniteSet(K) /\ Cardinality(K) <= Cardinality(Owner)
  <2> HIDE DEF K
  <2> QED
    BY <1>2, ReportConstants, FS_Subset
<1>4. \A o \in K : count[o] = Cardinality({d \in D : h[d] = o})
  <2>1. \A o : {d \in D : docs[d].owner = o} = {d \in D : h[d] = o}
    OBVIOUS
  <2>2. \A o \in K : count[o] = Cardinality({d \in D : docs[d].owner = o})
    OBVIOUS
  <2> HIDE DEF K, h, count
  <2> QED
    BY <2>1, <2>2
<1>5. \A o \in K : count[o] \in Nat
  <2>1. \A o : {d \in D : h[d] = o} \in SUBSET D
    OBVIOUS
  <2> HIDE DEF K, h, count
  <2>2. \A o : IsFiniteSet({d \in D : h[d] = o})
    BY <1>1, <2>1, FS_Subset
  <2> QED
    BY <1>4, <2>2, FS_CardinalityType
<1>6. Total(count, K) = Cardinality(D)
  <2>1. DOMAIN count = K
    OBVIOUS
  <2> HIDE DEF K, h, count
  <2> QED
    BY <1>1, <1>2, <1>3, <1>4, <2>1, PanelAddsUp DEF SumOf
<1> HIDE DEF K
<1>7. /\ K \in SUBSET Owner /\ IsFiniteSet(K) /\ Cardinality(K) <= Cardinality(Owner)
      /\ \A o \in K : count[o] \in Nat
      /\ Total(count, K) = Cardinality(D)
  BY <1>2, <1>3, <1>5, <1>6
<1> USE DEF K
<1> QED
  BY <1>7

LEMMA PartTotal ==
    ASSUME NEW K, IsFiniteSet(K), NEW f, \A i \in K : f[i] \in Nat, NEW T \in SUBSET K
    PROVE  Total(f, T) \in Nat /\ Total(f, T) <= Total(f, K) /\ Total(f, K) \in Nat
<1> DEFINE G == {U \in SUBSET (K \ T) : Total(f, T) <= Total(f, T \cup U)}
<1>1. IsFiniteSet(K \ T)
  BY FS_Subset
<1>2. \A U \in SUBSET (K \ T) : IsFiniteSet(T \cup U) /\ Total(f, T \cup U) \in Nat
  <2> SUFFICES ASSUME NEW U \in SUBSET (K \ T)
               PROVE  IsFiniteSet(T \cup U) /\ Total(f, T \cup U) \in Nat
    OBVIOUS
  <2> DEFINE V == T \cup U
  <2>1. V \in SUBSET K
    OBVIOUS
  <2> HIDE DEF V
  <2>2. IsFiniteSet(V)
    BY <2>1, FS_Subset
  <2>3. Total(f, V) \in Nat
    BY <2>1, <2>2, TotalNat
  <2> USE DEF V
  <2> QED
    BY <2>2, <2>3
<1>3. {} \in G
  <2>1. T \cup {} = T /\ {} \in SUBSET (K \ T)
    OBVIOUS
  <2>2. Total(f, T) \in Nat
    BY <1>2, <2>1
  <2>3. Total(f, T) <= Total(f, T \cup {})
    BY <2>1, <2>2
  <2> QED
    BY <2>1, <2>3
<1>4. ASSUME NEW U \in SUBSET (K \ T), NEW x \in (K \ T) \ U, U \in G PROVE U \cup {x} \in G
  <2> DEFINE V == T \cup U
             W == T \cup (U \cup {x})
  <2>1. W = V \cup {x} /\ x \notin V /\ V \in SUBSET K /\ x \in K /\ U \cup {x} \in SUBSET (K \ T)
    OBVIOUS
  <2>2. IsFiniteSet(V) /\ Total(f, V) \in Nat /\ Total(f, T) <= Total(f, V)
    BY <1>2, <1>4
  <2> HIDE DEF V, W
  <2>3. Total(f, W) = f[x] + Total(f, V)
    BY <2>1, <2>2, TotalAdds
  <2>4. Total(f, T) \in Nat /\ f[x] \in Nat
    BY <1>2, <1>3, <2>1, FS_Subset, TotalNat
  <2>5. Total(f, T) <= Total(f, W)
    BY <2>2, <2>3, <2>4
  <2> USE DEF W
  <2> QED
    BY <2>1, <2>5
<1> HIDE DEF G
<1>5. K \ T \in G
  BY <1>1, <1>3, <1>4, SubsetInduction
<1>6. Total(f, T) <= Total(f, T \cup (K \ T)) /\ T \cup (K \ T) = K
  BY <1>5 DEF G
<1>7. Total(f, T) \in Nat /\ Total(f, K) \in Nat
  <2>1. IsFiniteSet(T)
    BY FS_Subset
  <2> QED
    BY <2>1, TotalNat
<1>8. Total(f, T) <= Total(f, K)
  BY <1>6
<1> QED
  BY <1>7, <1>8

\* The most frequent of a set of groups account for their share of the whole.
LEMMA TopShare ==
    ASSUME NEW K, IsFiniteSet(K), NEW f, \A i \in K : f[i] \in Nat,
           NEW limit \in Nat \ {0}, NEW T \in SUBSET K,
           Cardinality(T) = Min({limit, Cardinality(K)}),
           \A o \in T, p \in K \ T : f[o] >= f[p]
    PROVE  /\ Total(f, T) <= Total(f, K)
           /\ Total(f, K) <= Total(f, T) * Cardinality(K)
           /\ Cardinality(K) <= limit => Total(f, K) = Total(f, T)
<1> DEFINE n == Cardinality(K)
<1>1. n \in Nat /\ IsFiniteSet(T) /\ Cardinality(T) <= n /\ (Cardinality(T) = n => T = K)
  BY FS_CardinalityType, FS_Subset
<1>2. Cardinality(T) = IF limit <= n THEN limit ELSE n
  <2>1. limit \in Int /\ n \in Int
    BY <1>1
  <2>2. Cardinality(T) = Min({limit, n})
    OBVIOUS
  <2> HIDE DEF n
  <2> QED
    BY <2>1, <2>2, MinOfTwo
<1>3. Total(f, T) \in Nat /\ Total(f, T) <= Total(f, K) /\ Total(f, K) \in Nat
  BY PartTotal
<1>4. n <= limit => Total(f, K) = Total(f, T)
  <2>1. n <= limit => Cardinality(T) = n
    BY <1>1, <1>2
  <2> QED
    BY <1>1, <2>1
<1>5. Total(f, K) <= Total(f, T) * n
  <2>1. CASE K = {}
    <3>1. T = {} /\ n = 0
      BY <2>1, FS_EmptySet
    <3>2. Total(f, K) = 0
      BY <2>1, TotalEmpty
    <3> QED
      BY <1>3, <3>1, <3>2
  <2>2. CASE K # {}
    <3>1. n # 0
      BY <2>2, FS_EmptySet
    <3>2. Cardinality(T) # 0
      BY <1>1, <1>2, <3>1
    <3>3. T # {}
      BY <3>2, FS_EmptySet
    <3> DEFINE V == {f[i] : i \in T}
    <3>4. V \in SUBSET Int /\ V # {}
      BY <3>3
    <3>5. IsFiniteSet(V)
      BY <1>1, ImageFinite
    <3>6. PICK m \in V : \A y \in V : m >= y
      <4> HIDE DEF V
      <4> QED
        BY <3>4, <3>5, HasGreatest
    <3>7. PICK x \in T : m = f[x]
      BY <3>6
    <3>8. m \in Nat
      BY <3>7
    <3>9. \A i \in K : f[i] \in 0 .. m
      <4> SUFFICES ASSUME NEW i \in K PROVE f[i] <= m
        BY <3>8
      <4>1. CASE i \in T
        BY <3>6, <4>1
      <4>2. CASE i \notin T
        BY <3>7, <4>2
      <4> QED
        BY <4>1, <4>2
    <3> HIDE DEF V
    <3>10. Total(f, K) <= m * n
      BY <3>8, <3>9, TotalBounded
    <3>11. m <= Total(f, T)
      BY <1>1, <3>7, TotalHasTerm
    <3> DEFINE s == Total(f, T)
    <3>12. n * m <= n * s
      <4>1. n \in Nat /\ m \in Int /\ s \in Int /\ m <= s
        BY <1>1, <1>3, <3>8, <3>11
      <4> HIDE DEF n, s
      <4> QED
        BY <4>1, Monotone
    <3>13. n \in Nat /\ s \in Nat
      BY <1>1, <1>3
    <3> HIDE DEF n, s
    <3>14. m * n = n * m /\ n * s = s * n
      BY <3>8, <3>13
    <3> DEFINE a == m * n
               b == s * n
    <3>15. a \in Int /\ b \in Int /\ a <= b
      BY <3>8, <3>12, <3>13, <3>14
    <3>16. Total(f, K) <= a
      BY <3>10 DEF n
    <3> HIDE DEF a, b
    <3>17. Total(f, K) <= b
      BY <1>3, <3>15, <3>16
    <3> USE DEF n, s, b
    <3> QED
      BY <3>17
  <2> QED
    BY <2>1, <2>2
<1> QED
  BY <1>3, <1>4, <1>5

LEMMA UploadersShare ==
    ASSUME NEW D, WindowOf(D), NEW top \in R!Uploaders(docs, D, TopUploaders)
    PROVE  /\ SumOf(top) <= Cardinality(D)
           /\ Cardinality(D) <= SumOf(top) * Cardinality(Owner)
           /\ Cardinality(Owner) <= TopUploaders => Cardinality(D) = SumOf(top)
<1> DEFINE K == {docs[d].owner : d \in D}
           count == [o \in K |-> Cardinality({d \in D : docs[d].owner = o})]
<1>1. /\ K \in SUBSET Owner /\ IsFiniteSet(K) /\ Cardinality(K) <= Cardinality(Owner)
      /\ \A o \in K : count[o] \in Nat
      /\ Total(count, K) = Cardinality(D)
  BY UploaderGroups
<1>2. DOMAIN count = K
  OBVIOUS
<1>3. PICK T \in SUBSET K : /\ top = [o \in T |-> count[o]]
                            /\ Cardinality(T) = Min({TopUploaders, Cardinality(K)})
                            /\ \A o \in T, p \in K \ T : count[o] >= count[p]
  <2> DEFINE same == [o \in K |-> R!Cardinality({d \in D : docs[d].owner = o})]
  <2>1. same = count
    BY SameOperators
  <2>2. \E T \in R!kSubset(R!Min({TopUploaders, R!Cardinality(DOMAIN same)}), DOMAIN same) :
           /\ top = R!Restrict(same, T)
           /\ \A o \in T, p \in DOMAIN same \ T : same[o] >= same[p]
    BY DEF R!Uploaders
  <2> HIDE DEF K, count, same
  <2> QED
    BY <1>2, <2>1, <2>2, SameOperators DEF R!kSubset, R!Restrict
<1> HIDE DEF K, count
<1>4. IsFiniteSet(T) /\ TopUploaders \in Nat \ {0}
  BY <1>1, FS_Subset, ReportConstants
<1>5. SumOf(top) = Total(count, T)
  <2>1. DOMAIN top = T /\ \A o \in T : top[o] = count[o] /\ top[o] \in Nat
    BY <1>1, <1>3
  <2>2. Total(top, T) = Total(count, T)
    BY <1>4, <2>1, TotalSame
  <2> QED
    BY <2>1, <2>2 DEF SumOf
<1>6. /\ Total(count, T) <= Total(count, K)
      /\ Total(count, K) <= Total(count, T) * Cardinality(K)
      /\ Cardinality(K) <= TopUploaders => Total(count, K) = Total(count, T)
  BY <1>1, <1>3, <1>4, TopShare
<1> DEFINE s == SumOf(top)
           k == Cardinality(K)
           o == Cardinality(Owner)
           n == Cardinality(D)
<1>7. s \in Nat /\ k \in Nat /\ o \in Nat /\ k <= o /\ n \in Nat
  BY <1>1, <1>4, <1>5, PartTotal, FS_CardinalityType, ReportConstants DEF WindowOf
<1>8. s <= n /\ n <= s * k /\ (k <= TopUploaders => n = s)
  BY <1>1, <1>5, <1>6
<1> HIDE DEF s, k, o, n
<1>9. s * k <= s * o
  BY <1>7, Monotone
<1> DEFINE a == s * k
           b == s * o
<1>10. a \in Int /\ b \in Int
  BY <1>7
<1> HIDE DEF a, b
<1>11. n <= b
  BY <1>7, <1>8, <1>9, <1>10 DEF a, b
<1>12. o <= TopUploaders => n = s
  BY <1>4, <1>7, <1>8
<1> USE DEF s, o, n, b
<1> QED
  BY <1>8, <1>11, <1>12

-----------------------------------------------------------------------------
\* analytics.py: the panels of one window add up to its totals, whatever they group by
\* and join, and the uploaders shown have their share of the documents.
THEOREM PanelsAddUp == Spec => []PanelsAgree
<1>1. ASSUME ReportsInv PROVE PanelsAgree
  <2> SUFFICES ASSUME NEW owner \in Owner \cup {None}
        PROVE  LET D == R!Window(docs, now - WindowLength, now, owner)
                   totals == R!Totals(docs, D)
                   types == R!ByType(docs, D)
                   daily == R!Daily(docs, D)
                   perf == R!Performance(docs, D)
               IN /\ totals.documents = totals.completed + totals.failed + totals.in_progress
                  /\ totals.documents = SumOf([k \in DOMAIN types |-> types[k].documents])
                  /\ totals.failed = SumOf([k \in DOMAIN types |-> types[k].failed])
                  /\ totals.failed = SumOf(R!Failures(docs, D))
                  /\ totals.documents = SumOf([x \in DOMAIN daily |-> daily[x].documents])
                  /\ totals.completed = SumOf([x \in DOMAIN daily |-> daily[x].completed])
                  /\ totals.completed <= perf.samples /\ perf.samples <= totals.documents
                  /\ perf.samples = SumOf(R!Confidence(docs, D))
                  /\ perf.samples = SumOf(R!Providers(docs, D).text_extraction)
                  /\ perf.samples = SumOf(R!Providers(docs, D).analysis)
                  /\ R!Tokens(docs, D).documents <= Cardinality({d \in R!Extracted(docs, D) : docs[d].ex.provider = "model"})
                  /\ \A top \in R!Uploaders(docs, D, TopUploaders) :
                        /\ SumOf(top) <= totals.documents /\ totals.documents <= SumOf(top) * Cardinality(Owner)
                        /\ Cardinality(Owner) <= TopUploaders => totals.documents = SumOf(top)
    BY DEF PanelsAgree
  <2> DEFINE D == R!Window(docs, now - WindowLength, now, owner)
  <2>1. WindowOf(D)
    BY <1>1, WindowFacts DEF WindowOf, ReportsInv
  <2> HIDE DEF D
  <2> DEFINE totals == R!Totals(docs, D)
             types == R!ByType(docs, D)
             daily == R!Daily(docs, D)
             perf == R!Performance(docs, D)
             E == R!Extracted(docs, D)
  <2>2. /\ totals.documents = Cardinality(D)
        /\ totals.completed = Cardinality(R!Of(docs, D, {"completed"}))
        /\ totals.failed = Cardinality(R!Of(docs, D, {"failed"}))
    BY TotalsFields
  <2>3. totals.documents = totals.completed + totals.failed + totals.in_progress
    BY <2>1, StatusesSplit
  <2>4. /\ SumOf([k \in DOMAIN types |-> types[k].documents]) = Cardinality(D)
        /\ SumOf([k \in DOMAIN types |-> types[k].failed]) = Cardinality(R!Of(docs, D, {"failed"}))
    BY <2>1, TypesAddUp
  <2>5. SumOf(R!Failures(docs, D)) = Cardinality(R!Of(docs, D, {"failed"}))
    BY <2>1, FailuresAddUp
  <2>6. /\ SumOf([x \in DOMAIN daily |-> daily[x].documents]) = Cardinality(D)
        /\ SumOf([x \in DOMAIN daily |-> daily[x].completed]) = Cardinality(R!Of(docs, D, {"completed"}))
    BY <2>1, DaysAddUp
  <2>7. /\ perf.samples = Cardinality(E)
        /\ Cardinality(R!Of(docs, D, {"completed"})) <= Cardinality(E) /\ Cardinality(E) <= Cardinality(D)
    BY <2>1, SamplesAre
  <2>8. SumOf(R!Confidence(docs, D)) = Cardinality(E)
    BY <2>1, ConfidenceAddsUp
  <2>9. /\ SumOf(R!Providers(docs, D).text_extraction) = Cardinality(E)
        /\ SumOf(R!Providers(docs, D).analysis) = Cardinality(E)
    BY <2>1, ProvidersAddUp
  <2>10. R!Tokens(docs, D).documents <= Cardinality({d \in E : docs[d].ex.provider = "model"})
    BY <2>1, TokensAreOfModels
  <2>11. \A top \in R!Uploaders(docs, D, TopUploaders) :
            /\ SumOf(top) <= Cardinality(D) /\ Cardinality(D) <= SumOf(top) * Cardinality(Owner)
            /\ Cardinality(Owner) <= TopUploaders => Cardinality(D) = SumOf(top)
    BY <2>1, UploadersShare
  <2> HIDE DEF totals, perf
  <2>12. /\ totals.documents = totals.completed + totals.failed + totals.in_progress
         /\ totals.documents = SumOf([k \in DOMAIN types |-> types[k].documents])
         /\ totals.failed = SumOf([k \in DOMAIN types |-> types[k].failed])
         /\ totals.failed = SumOf(R!Failures(docs, D))
         /\ totals.documents = SumOf([x \in DOMAIN daily |-> daily[x].documents])
         /\ totals.completed = SumOf([x \in DOMAIN daily |-> daily[x].completed])
    BY <2>2, <2>3, <2>4, <2>5, <2>6
  <2>13. /\ totals.completed <= perf.samples /\ perf.samples <= totals.documents
         /\ perf.samples = SumOf(R!Confidence(docs, D))
         /\ perf.samples = SumOf(R!Providers(docs, D).text_extraction)
         /\ perf.samples = SumOf(R!Providers(docs, D).analysis)
    BY <2>2, <2>7, <2>8, <2>9
  <2>14. \A top \in R!Uploaders(docs, D, TopUploaders) :
            /\ SumOf(top) <= totals.documents /\ totals.documents <= SumOf(top) * Cardinality(Owner)
            /\ Cardinality(Owner) <= TopUploaders => totals.documents = SumOf(top)
    BY <2>2, <2>11
  <2> USE DEF totals, perf, D
  <2> QED
    BY <2>10, <2>12, <2>13, <2>14, Zenon
<1>2. ReportsInv => PanelsAgree
  BY <1>1
<1> QED
  BY <1>2, Reported, PTL

-----------------------------------------------------------------------------
(* The stat cards.                                                          *)

\* The sign of a change is that of its percentage.
LEMMA ChangeSign ==
    ASSUME NEW c \in Nat, NEW p \in Nat
    PROVE  R!PercentChange(c, p) \in Int /\ (R!PercentChange(c, p) < 0 <=> c < p)
<1>1. CASE p = 0 /\ c > 0
  BY <1>1 DEF R!PercentChange
<1>2. CASE p = 0 /\ c = 0
  BY <1>2 DEF R!PercentChange
<1>3. CASE p # 0
  <2> DEFINE a == (c - p) * 1000
             q == a \div p
  <2>1. a \in Int /\ (a < 0 <=> c < p)
    OBVIOUS
  <2>2. R!PercentChange(c, p) = q
    BY <1>3 DEF R!PercentChange
  <2> HIDE DEF a
  <2>3. q \in Int /\ p * q <= a /\ a < p * q + p
    BY <1>3, <2>1, Division
  <2> HIDE DEF q
  <2>4. q < 0 => a < 0
    <3> SUFFICES ASSUME q < 0 PROVE a < 0
      OBVIOUS
    <3>1. q \in Int /\ -1 \in Int /\ q <= -1 /\ p \in Nat
      BY <2>3
    <3>2. p * q <= p * (-1)
      BY <3>1, Monotone
    <3>3. p * (-1) = -p
      OBVIOUS
    <3> DEFINE x == p * q
    <3>4. x \in Int /\ x <= -p /\ a < x + p
      BY <2>3, <3>1, <3>2, <3>3
    <3> HIDE DEF x
    <3> QED
      BY <2>1, <3>4
  <2>5. a < 0 => q < 0
    <3> SUFFICES ASSUME q >= 0 PROVE a >= 0
      BY <2>1, <2>3
    <3>1. p * 0 <= p * q
      <4>1. p \in Nat /\ 0 \in Int /\ q \in Int /\ 0 <= q
        BY <2>3
      <4> QED
        BY <4>1, Monotone
    <3>2. p * 0 = 0
      OBVIOUS
    <3> DEFINE x == p * q
    <3>3. x \in Int /\ 0 <= x /\ x <= a
      BY <2>3, <3>1, <3>2
    <3> HIDE DEF x
    <3> QED
      BY <2>1, <3>3
  <2> QED
    BY <2>1, <2>2, <2>3, <2>4, <2>5
<1> QED
  BY <1>1, <1>2, <1>3

LEMMA PagesNat ==
    ASSUME NEW D, WindowOf(D)
    PROVE  R!PagesIn(docs, D) \in Nat
<1> DEFINE f == [d \in D |-> R!PagesOf(docs[d])]
<1>1. R!PagesIn(docs, D) = Total(f, D)
  BY SameOperators DEF R!PagesIn
<1>2. \A d \in D : f[d] \in Nat
  <2>1. \A d \in D : docs[d].pages \in Nat \cup {None}
    BY Rows DEF WindowOf
  <2> QED
    BY <2>1 DEF R!PagesOf
<1>3. IsFiniteSet(D)
  BY DEF WindowOf
<1> HIDE DEF f
<1> QED
  BY <1>1, <1>2, <1>3, TotalNat

\* What the cards are computed from is what the panels are.
LEMMA MetricsAreTotals ==
    ASSUME TableInv, NEW start, NEW end, NEW owner
    PROVE  LET m == R!WindowMetrics(docs, start, end, owner)
               D == R!Window(docs, start, end, owner)
               totals == R!Totals(docs, D)
           IN /\ m.documents = Cardinality(D)
              /\ m.documents = totals.documents /\ m.completed = totals.completed
              /\ m.failed = totals.failed /\ m.pages = totals.pages
              /\ m.documents \in Nat /\ m.completed \in Nat /\ m.failed \in Nat /\ m.pages \in Nat
<1> DEFINE m == R!WindowMetrics(docs, start, end, owner)
           D == R!Window(docs, start, end, owner)
<1>1. /\ m.documents = Cardinality(D) /\ m.completed = Cardinality(R!Of(docs, D, {"completed"}))
      /\ m.failed = Cardinality(R!Of(docs, D, {"failed"})) /\ m.pages = R!PagesIn(docs, D)
  BY SameOperators DEF R!WindowMetrics, R!Window
<1>2. WindowOf(D)
  BY WindowFacts DEF WindowOf
<1> HIDE DEF m, D
<1>3. m.pages \in Nat
  BY <1>1, <1>2, PagesNat
<1>4. IsFiniteSet(D) /\ \A status : IsFiniteSet(R!Of(docs, D, status))
  BY <1>2, Parts DEF WindowOf
<1>5. m.documents \in Nat /\ m.completed \in Nat /\ m.failed \in Nat
  BY <1>1, <1>4, FS_CardinalityType
<1>6. /\ m.documents = R!Totals(docs, D).documents /\ m.completed = R!Totals(docs, D).completed
      /\ m.failed = R!Totals(docs, D).failed /\ m.pages = R!Totals(docs, D).pages
  BY <1>1, TotalsFields
<1>7. /\ m.documents = Cardinality(D)
      /\ m.documents = R!Totals(docs, D).documents /\ m.completed = R!Totals(docs, D).completed
      /\ m.failed = R!Totals(docs, D).failed /\ m.pages = R!Totals(docs, D).pages
      /\ m.documents \in Nat /\ m.completed \in Nat /\ m.failed \in Nat /\ m.pages \in Nat
  BY <1>1, <1>3, <1>5, <1>6
<1> USE DEF m, D
<1> QED
  BY <1>7

\* Two adjoining windows make one.
LEMMA WindowsAdjoin ==
    ASSUME TableInv, NEW a \in Int, NEW b \in Int, NEW c \in Int, a <= b, b <= c, NEW owner
    PROVE  Cardinality(R!Window(docs, b, c, owner)) + Cardinality(R!Window(docs, a, b, owner)) =
               Cardinality(R!Window(docs, a, c, owner))
<1> DEFINE W == R!Window(docs, a, c, owner)
           P == R!Window(docs, a, b, owner)
           Q == R!Window(docs, b, c, owner)
<1>1. \A d \in R!Scope(docs, owner) : docs[d].created \in Int
  BY Rows DEF R!Scope
<1>2. P \in SUBSET W /\ Q = W \ P
  BY <1>1 DEF R!Window
<1>3. IsFiniteSet(W)
  BY WindowFacts
<1> HIDE DEF W, P, Q
<1>4. Cardinality(W) = Cardinality(P) + Cardinality(Q) /\ Cardinality(P) \in Nat /\ Cardinality(Q) \in Nat
  BY <1>2, <1>3, PartCount
<1>5. Cardinality(Q) + Cardinality(P) = Cardinality(W)
  BY <1>4
<1> USE DEF W, P, Q
<1> QED
  BY <1>5

\* The stat cards compare adjoining windows, show what the analytics page shows, and
\* an arrow points down exactly for a decrease.
THEOREM DashboardAgrees == Spec => []DashboardsAgree
<1>1. ASSUME ReportsInv PROVE DashboardsAgree
  <2> SUFFICES ASSUME NEW owner \in Owner \cup {None}
        PROVE  LET current  == R!WindowMetrics(docs, now - WindowLength, now, owner)
                   previous == R!WindowMetrics(docs, now - 2 * WindowLength, now - WindowLength, owner)
                   totals   == R!Totals(docs, R!Window(docs, now - WindowLength, now, owner))
                   stats    == R!Stats(docs, now, WindowLength, owner)
               IN /\ current.documents + previous.documents =
                         Cardinality(R!Window(docs, now - 2 * WindowLength, now, owner))
                  /\ <<current.documents, current.completed, current.failed, current.pages>> =
                         <<totals.documents, totals.completed, totals.failed, totals.pages>>
                  /\ R!SuccessRate(current) = R!Share(totals.completed, totals.completed + totals.failed)
                  /\ stats.documents.trend = "down" <=> current.documents < previous.documents
                  /\ stats.pages.trend = "down" <=> current.pages < previous.pages
    BY DEF DashboardsAgree
  <2> DEFINE a == now - 2 * WindowLength
             b == now - WindowLength
             current == R!WindowMetrics(docs, b, now, owner)
             previous == R!WindowMetrics(docs, a, b, owner)
             totals == R!Totals(docs, R!Window(docs, b, now, owner))
             stats == R!Stats(docs, now, WindowLength, owner)
  <2>1. TableInv
    BY <1>1 DEF ReportsInv
  <2>2. a \in Int /\ b \in Int /\ now \in Int /\ a <= b /\ b <= now
    BY <2>1, ReportConstants DEF TableInv, TypeOK
  <2>3. /\ stats.documents.trend = (IF R!PercentChange(current.documents, previous.documents) >= 0 THEN "up" ELSE "down")
        /\ stats.pages.trend = (IF R!PercentChange(current.pages, previous.pages) >= 0 THEN "up" ELSE "down")
    BY DEF R!Stats, R!Card
  <2>4. R!SuccessRate(current) = IF current.completed + current.failed = 0 THEN 0
                                 ELSE (current.completed * 1000) \div (current.completed + current.failed)
    BY DEF R!SuccessRate
  <2> HIDE DEF a, b, stats
  <2>5. /\ current.documents = Cardinality(R!Window(docs, b, now, owner))
        /\ current.documents = totals.documents /\ current.completed = totals.completed
        /\ current.failed = totals.failed /\ current.pages = totals.pages
        /\ current.documents \in Nat /\ current.completed \in Nat /\ current.failed \in Nat /\ current.pages \in Nat
    BY <2>1, MetricsAreTotals
  <2>6. /\ previous.documents = Cardinality(R!Window(docs, a, b, owner))
        /\ previous.documents \in Nat /\ previous.pages \in Nat
    BY <2>1, MetricsAreTotals
  <2>7. current.documents + previous.documents = Cardinality(R!Window(docs, a, now, owner))
    <3>1. Cardinality(R!Window(docs, b, now, owner)) + Cardinality(R!Window(docs, a, b, owner)) =
              Cardinality(R!Window(docs, a, now, owner))
      BY <2>1, <2>2, WindowsAdjoin
    <3> QED
      BY <2>5, <2>6, <3>1
  <2> HIDE DEF current, previous, totals
  <2>8. <<current.documents, current.completed, current.failed, current.pages>> =
            <<totals.documents, totals.completed, totals.failed, totals.pages>>
    BY <2>5
  <2>9. R!SuccessRate(current) = R!Share(totals.completed, totals.completed + totals.failed)
    <3> DEFINE x == current.completed
               y == current.failed
    <3>1. x \in Nat /\ y \in Nat /\ totals.completed = x /\ totals.failed = y
      BY <2>5
    <3>2. R!SuccessRate(current) = IF x + y = 0 THEN 0 ELSE (x * 1000) \div (x + y)
      BY <2>4
    <3> HIDE DEF x, y
    <3>3. x + y <= 0 <=> x + y = 0
      BY <3>1
    <3>4. R!Share(x, x + y) = IF x + y <= 0 THEN 0 ELSE (x * 1000) \div (x + y)
      BY DEF R!Share
    <3> QED
      BY <3>1, <3>2, <3>3, <3>4
  <2>10. stats.documents.trend = "down" <=> current.documents < previous.documents
    <3>1. /\ R!PercentChange(current.documents, previous.documents) \in Int
          /\ R!PercentChange(current.documents, previous.documents) < 0
                 <=> current.documents < previous.documents
      BY <2>5, <2>6, ChangeSign
    <3> QED
      BY <2>3, <3>1
  <2>11. stats.pages.trend = "down" <=> current.pages < previous.pages
    <3>1. /\ R!PercentChange(current.pages, previous.pages) \in Int
          /\ R!PercentChange(current.pages, previous.pages) < 0 <=> current.pages < previous.pages
      BY <2>5, <2>6, ChangeSign
    <3> QED
      BY <2>3, <3>1
  <2> USE DEF a, b, current, previous, totals, stats
  <2> QED
    BY <2>7, <2>8, <2>9, <2>10, <2>11, Zenon
<1>2. ReportsInv => DashboardsAgree
  BY <1>1
<1> QED
  BY <1>2, Reported, PTL

-----------------------------------------------------------------------------
(* The monthly series.                                                      *)

\* The year and the month of the k-th month since the year 0.
LabelOf(k) == (k % 12) + 1
MonthOf(k) == <<k \div 12, LabelOf(k)>>

LEMMA NextOf == ASSUME NEW k \in Int PROVE R!NextMonth(MonthOf(k)) = MonthOf(k + 1)
  BY DEF R!NextMonth, MonthOf, LabelOf

LEMMA FirstOf ==
    ASSUME NEW q \in Int, NEW n \in Int
    PROVE  R!FirstMonth(q \div 12, (q % 12) + 1, n) = MonthOf(q - n + 1)
<1> DEFINE year == q \div 12
           month == (q % 12) + 1
           offset == month - n
<1>1. year \in Int /\ month \in Int /\ q = 12 * year + month - 1
  OBVIOUS
<1>2. R!FirstMonth(year, month, n) = <<year + offset \div 12, (offset % 12) + 1>>
  BY DEF R!FirstMonth
<1> HIDE DEF year, month
<1>3. offset \in Int /\ q - n + 1 = 12 * year + offset
  BY <1>1
<1> HIDE DEF offset
<1>4. (12 * year + offset) \div 12 = year + offset \div 12 /\ (12 * year + offset) % 12 = offset % 12
  BY <1>1, <1>3
<1>5. MonthOf(q - n + 1) = <<year + offset \div 12, (offset % 12) + 1>>
  BY <1>3, <1>4 DEF MonthOf, LabelOf
<1> USE DEF year, month
<1> QED
  BY <1>2, <1>5

\* The instant at which the k-th month since tick 0 begins.
Begin(k) == k * MonthLength

LEMMA StartOf ==
    ASSUME NEW k \in Int
    PROVE  R!MonthStart(MonthOf(k)[1], MonthOf(k)[2]) = Begin(k - StartMonth)
<1> DEFINE y == MonthOf(k)[1]
           m == MonthOf(k)[2]
           x == 12 * y + m - 1 - StartMonth
<1>1. StartMonth \in Int
  BY ReportConstants
<1>2. x = k - StartMonth
  BY <1>1 DEF MonthOf, LabelOf
<1>3. R!MonthStart(y, m) = x * MonthLength
  BY DEF R!MonthStart
<1> QED
  BY <1>2, <1>3 DEF Begin

\* The walk of month_buckets from the first month on.
IsMonthWalk(g, first, n) == g = [i \in 1 .. n |-> IF i = 1 THEN first ELSE R!NextMonth(g[i - 1])]

LEMMA WalkOfMonths ==
    ASSUME NEW n \in Nat, n >= 1, NEW k \in Int
    PROVE  LET g == CHOOSE h : IsMonthWalk(h, MonthOf(k), n) IN
           \A i \in 1 .. n : g[i] = MonthOf(k + i - 1)
<1> DEFINE g == CHOOSE h : IsMonthWalk(h, MonthOf(k), n)
           w == [i \in 1 .. n |-> MonthOf(k + i - 1)]
<1>1. IsMonthWalk(w, MonthOf(k), n)
  <2> DEFINE v == [i \in 1 .. n |-> IF i = 1 THEN MonthOf(k) ELSE R!NextMonth(w[i - 1])]
  <2>1. \A i \in 1 .. n : w[i] = v[i]
    <3> SUFFICES ASSUME NEW i \in 1 .. n PROVE w[i] = v[i]
      OBVIOUS
    <3>1. CASE i = 1
      <4>1. k + 1 - 1 = k
        OBVIOUS
      <4> QED
        BY <3>1, <4>1
    <3>2. CASE i # 1
      <4>1. i - 1 \in 1 .. n /\ k + (i - 1) - 1 \in Int /\ k + (i - 1) - 1 + 1 = k + i - 1
        BY <3>2
      <4>2. w[i - 1] = MonthOf(k + (i - 1) - 1)
        BY <4>1
      <4>3. R!NextMonth(w[i - 1]) = MonthOf(k + i - 1)
        BY <4>1, <4>2, NextOf
      <4> QED
        BY <3>2, <4>3
    <3> QED
      BY <3>1, <3>2
  <2>2. w = v
    BY <2>1
  <2> QED
    BY <2>2 DEF IsMonthWalk
<1>2. IsMonthWalk(g, MonthOf(k), n)
  BY <1>1
<1> HIDE DEF g
<1>3. /\ g[1] = MonthOf(k)
      /\ \A i \in 1 .. n : i # 1 => g[i] = R!NextMonth(g[i - 1])
  BY <1>2 DEF IsMonthWalk
<1> DEFINE G == {i \in Nat : i + 1 \in 1 .. n => g[i + 1] = MonthOf(k + i)}
<1>4. 0 \in G
  BY <1>3
<1>5. ASSUME NEW i \in Nat, i \in G PROVE i + 1 \in G
  <2> SUFFICES ASSUME i + 1 + 1 \in 1 .. n PROVE g[i + 1 + 1] = MonthOf(k + (i + 1))
    OBVIOUS
  <2>1. i + 1 \in 1 .. n /\ g[i + 1] = MonthOf(k + i)
    BY <1>5
  <2>2. g[i + 1 + 1] = R!NextMonth(g[i + 1])
    <3> DEFINE j == i + 1 + 1
    <3>1. j \in 1 .. n /\ j # 1 /\ j - 1 = i + 1
      OBVIOUS
    <3> HIDE DEF j
    <3>2. g[j] = R!NextMonth(g[i + 1])
      BY <1>3, <3>1
    <3> USE DEF j
    <3> QED
      BY <3>2
  <2>3. R!NextMonth(MonthOf(k + i)) = MonthOf(k + i + 1) /\ k + i + 1 = k + (i + 1)
    <3> DEFINE j == k + i
    <3>1. j \in Int
      OBVIOUS
    <3> HIDE DEF j
    <3>2. R!NextMonth(MonthOf(j)) = MonthOf(j + 1)
      BY <3>1, NextOf
    <3> USE DEF j
    <3> QED
      BY <3>2
  <2> QED
    BY <2>1, <2>2, <2>3
<1> HIDE DEF G
<1>6. Nat \subseteq G
  BY <1>4, <1>5, NatInductionSet
<1>7. ASSUME NEW i \in 1 .. n PROVE g[i] = MonthOf(k + i - 1)
  <2>1. i - 1 \in G /\ i - 1 + 1 = i /\ k + (i - 1) = k + i - 1
    BY <1>6
  <2> QED
    BY <2>1 DEF G
<1> USE DEF g
<1> QED
  BY <1>7

\* A month bucket knows its place: the months end with the one of t.
LEMMA BucketsAre ==
    ASSUME NEW t \in Nat, NEW n \in 1 .. 12
    PROVE  LET b == R!MonthBuckets(t, n)
               first == t \div MonthLength - n
           IN /\ DOMAIN b = 1 .. n /\ Len(b) = n
              /\ \A i \in 1 .. n :
                    /\ b[i].label = LabelOf(StartMonth + first + i)
                    /\ b[i].start = Begin(first + i)
                    /\ b[i].end = Begin(first + i + 1)
<1> DEFINE m == t \div MonthLength
           first == m - n
           q == StartMonth + m
           k == q - n + 1
           ym == CHOOSE g : IsMonthWalk(g, MonthOf(k), n)
           b == R!MonthBuckets(t, n)
<1>1. MonthLength \in Nat /\ MonthLength # 0 /\ StartMonth \in Int /\ n \in Nat /\ n >= 1 /\ n <= 12
  BY ReportConstants
<1>2. m \in Int
  BY <1>1, Division
<1> HIDE DEF m
<1>3. q \in Int /\ k \in Int
  BY <1>1, <1>2
<1>4. R!Max({1, R!Min({n, 12})}) = n
  <2>1. n \in Int /\ 12 \in Int /\ 1 \in Int
    BY <1>1
  <2>2. Min({n, 12}) = n
    <3>1. Min({n, 12}) = IF n <= 12 THEN n ELSE 12
      BY <2>1, MinOfTwo
    <3> QED
      BY <1>1, <3>1
  <2>3. Max({1, n}) = n
    <3>1. Max({1, n}) = IF 1 >= n THEN 1 ELSE n
      BY <2>1, MaxOfTwo
    <3> QED
      BY <1>1, <3>1
  <2> QED
    BY <2>2, <2>3, SameOperators
<1>5. R!MonthIndex(t) = q
  BY DEF R!MonthIndex, m
<1>6. R!FirstMonth(R!MonthIndex(t) \div 12, (R!MonthIndex(t) % 12) + 1, n) = MonthOf(k)
  <2> HIDE DEF q
  <2>1. R!FirstMonth(q \div 12, (q % 12) + 1, n) = MonthOf(q - n + 1)
    BY <1>1, <1>3, FirstOf
  <2> QED
    BY <1>5, <2>1
<1> HIDE DEF k
<1>7. b = [i \in 1 .. n |-> [label |-> ym[i][2], year |-> ym[i][1],
                             start |-> R!MonthStart(ym[i][1], ym[i][2]),
                             end   |-> R!MonthStart(R!NextMonth(ym[i])[1], R!NextMonth(ym[i])[2])]]
  <2> DEFINE N == R!Max({1, R!Min({n, 12})})
             F == R!FirstMonth(R!MonthIndex(t) \div 12, (R!MonthIndex(t) % 12) + 1, N)
             w == CHOOSE g : IsMonthWalk(g, F, N)
  <2>1. b = [i \in 1 .. N |-> [label |-> w[i][2], year |-> w[i][1],
                               start |-> R!MonthStart(w[i][1], w[i][2]),
                               end   |-> R!MonthStart(R!NextMonth(w[i])[1], R!NextMonth(w[i])[2])]]
    BY DEF R!MonthBuckets, IsMonthWalk
  <2>2. N = n /\ F = MonthOf(k)
    BY <1>4, <1>6
  <2> HIDE DEF N, F, b
  <2>3. w = ym
    BY <2>2
  <2> HIDE DEF w, ym
  <2> QED
    BY <2>1, <2>2, <2>3
<1>8. \A i \in 1 .. n : ym[i] = MonthOf(k + i - 1)
  BY <1>1, <1>3, WalkOfMonths
<1> HIDE DEF ym, b
<1>9. DOMAIN b = 1 .. n /\ Len(b) = n
  BY <1>1, <1>7
<1>10. ASSUME NEW i \in 1 .. n
       PROVE  /\ b[i].label = LabelOf(StartMonth + first + i)
              /\ b[i].start = Begin(first + i)
              /\ b[i].end = Begin(first + i + 1)
  <2> DEFINE j == k + i - 1
  <2>1. j \in Int /\ j = StartMonth + first + i /\ j - StartMonth = first + i /\ j + 1 - StartMonth = first + i + 1
    BY <1>1, <1>2, <1>3 DEF k
  <2>2. ym[i] = MonthOf(j)
    BY <1>8
  <2>3. /\ b[i].label = ym[i][2]
        /\ b[i].start = R!MonthStart(ym[i][1], ym[i][2])
        /\ b[i].end = R!MonthStart(R!NextMonth(ym[i])[1], R!NextMonth(ym[i])[2])
    BY <1>7
  <2> HIDE DEF j
  <2>4. R!NextMonth(ym[i]) = MonthOf(j + 1)
    BY <2>1, <2>2, NextOf
  <2>5. R!MonthStart(MonthOf(j)[1], MonthOf(j)[2]) = Begin(j - StartMonth)
    BY <2>1, StartOf
  <2>6. \A l \in Int : R!MonthStart(MonthOf(l)[1], MonthOf(l)[2]) = Begin(l - StartMonth)
    BY StartOf
  <2>7. MonthOf(j)[2] = LabelOf(j)
    BY DEF MonthOf
  <2>8. b[i].label = LabelOf(StartMonth + first + i)
    BY <2>1, <2>2, <2>3, <2>7
  <2>9. b[i].start = Begin(first + i)
    BY <2>1, <2>2, <2>3, <2>5
  <2>10. b[i].end = Begin(first + i + 1)
    <3> DEFINE l == j + 1
    <3>1. l \in Int /\ l - StartMonth = first + i + 1
      BY <1>1, <1>2, <2>1
    <3>2. R!NextMonth(ym[i]) = MonthOf(l)
      BY <2>4
    <3> HIDE DEF l
    <3> QED
      BY <2>3, <2>6, <3>1, <3>2
  <2> QED
    BY <2>8, <2>9, <2>10
<1> USE DEF b, m
<1> QED
  BY <1>9, <1>10

\* An instant is past the begin of a month exactly if its month is.
LEMMA FromMonth ==
    ASSUME NEW x \in Int, NEW k \in Int
    PROVE  x \div MonthLength \in Int /\ (Begin(k) <= x <=> k <= x \div MonthLength) /\ Begin(k) \in Int
<1> DEFINE q == x \div MonthLength
           w == MonthLength
<1>1. w \in Nat /\ w # 0
  BY ReportConstants
<1>2. q \in Int /\ w * q <= x /\ x < w * q + w
  BY <1>1, Division
<1>3. Begin(k) = w * k /\ Begin(k) \in Int
  BY <1>1 DEF Begin
<1> HIDE DEF q, w
<1>4. k <= q => Begin(k) <= x
  <2> SUFFICES ASSUME k <= q PROVE Begin(k) <= x
    OBVIOUS
  <2>1. w * k <= w * q
    BY <1>1, <1>2, Monotone
  <2> DEFINE a == w * k
             c == w * q
  <2>2. a \in Int /\ c \in Int /\ a <= c /\ c <= x
    BY <1>1, <1>2, <2>1
  <2> HIDE DEF a, c
  <2>3. a <= x
    BY <2>2
  <2> USE DEF a
  <2> QED
    BY <1>3, <2>3
<1>5. ~(k <= q) => x < Begin(k)
  <2> SUFFICES ASSUME ~(k <= q) PROVE x < Begin(k)
    OBVIOUS
  <2>1. q + 1 \in Int /\ q + 1 <= k
    BY <1>2
  <2>2. w * (q + 1) <= w * k
    BY <1>1, <2>1, Monotone
  <2>3. w * (q + 1) = w * q + w
    BY <1>1, <1>2
  <2> DEFINE a == w * k
             c == w * q
  <2>4. a \in Int /\ c \in Int /\ c + w <= a /\ x < c + w
    BY <1>1, <1>2, <2>2, <2>3
  <2> HIDE DEF a, c
  <2>5. x < a
    BY <1>1, <2>4
  <2> USE DEF a
  <2> QED
    BY <1>3, <2>5
<1>6. Begin(k) <= x <=> k <= q
  BY <1>3, <1>4, <1>5
<1> USE DEF q
<1> QED
  BY <1>2, <1>3, <1>6

\* Of at most twelve months in a row no two have the same name.
LEMMA LabelsDiffer ==
    ASSUME NEW n \in 1 .. 12, NEW a \in Int, NEW b, \A i \in 1 .. n : b[i].label = LabelOf(a + i)
    PROVE  Cardinality({b[i].label : i \in 1 .. n}) = n
<1> DEFINE I == 1 .. n
           L == {b[i].label : i \in 1 .. n}
           f == [i \in I |-> b[i].label]
<1>1. \A i, j \in I : i # j => f[i] # f[j]
  <2> SUFFICES ASSUME NEW i \in I, NEW j \in I, i # j PROVE f[i] # f[j]
    OBVIOUS
  <2>1. /\ i \in Int /\ j \in Int /\ i - j <= 11 /\ j - i <= 11
        /\ f[i] = ((a + i) % 12) + 1 /\ f[j] = ((a + j) % 12) + 1
    BY DEF LabelOf
  <2> HIDE DEF f, I
  <2>2. (a + i) % 12 # (a + j) % 12
    BY <2>1
  <2>3. (a + i) % 12 \in Int /\ (a + j) % 12 \in Int
    BY <2>1
  <2> QED
    BY <2>1, <2>2, <2>3
<1>2. f \in Injection(I, L) /\ f \in Surjection(I, L)
  BY <1>1 DEF Injection, IsInjective, Surjection
<1>3. n \in Nat
  OBVIOUS
<1>4. IsFiniteSet(I) /\ Cardinality(I) = n
  BY <1>3, UpTo
<1> HIDE DEF I, L, f
<1>5. Cardinality(L) = n
  BY <1>2, <1>4, FS_Surjection
<1> USE DEF L
<1> QED
  BY <1>5

LEMMA SeriesSum ==
    ASSUME TableInv, NEW n \in 1 .. 12, NEW owner
    PROVE  SumOf(R!Series(docs, R!MonthBuckets(now, n), owner)) =
               Cardinality({d \in R!Scope(docs, owner) :
                   docs[d].created \div MonthLength > (now \div MonthLength) - n})
<1> DEFINE b == R!MonthBuckets(now, n)
           m == now \div MonthLength
           first == m - n
           I == 1 .. n
           month(d) == docs[d].created \div MonthLength
           D == {d \in R!Scope(docs, owner) : month(d) > first}
           W == R!Window(docs, b[1].start, R!Last(b).end, owner)
           g == R!Series(docs, b, owner)
           h == [d \in D |-> month(d) - first]
<1>1. now \in Nat
  BY ReportConstants DEF TableInv, TypeOK
<1>2. /\ DOMAIN b = I /\ Len(b) = n
      /\ \A i \in I : b[i].start = Begin(first + i) /\ b[i].end = Begin(first + i + 1)
  BY <1>1, BucketsAre
<1>3. m \in Int
  BY <1>1, FromMonth
<1>4. n \in Int /\ 1 \in I /\ n \in I /\ first \in Int
  BY <1>3
<1>5. R!Last(b) = b[n]
  BY <1>2 DEF R!Last
<1>6. DOMAIN g = I /\ \A i \in I :
         g[i] = Cardinality({d \in W : docs[d].created >= b[i].start /\ docs[d].created < b[i].end})
  <2> HIDE DEF b
  <2> QED
    BY <1>2, SameOperators DEF R!Series
<1>7. \A d \in R!Scope(docs, owner) : docs[d].created \in Int /\ docs[d].created <= now
  BY Rows DEF R!Scope, TableInv
<1> HIDE DEF b, m
<1>8. \A d \in R!Scope(docs, owner) : month(d) \in Int /\ month(d) <= m
  <2> SUFFICES ASSUME NEW d \in R!Scope(docs, owner) PROVE month(d) \in Int /\ month(d) <= m
    OBVIOUS
  <2> DEFINE x == docs[d].created
  <2>1. x \in Int /\ x <= now /\ now \in Int
    BY <1>1, <1>7
  <2> HIDE DEF x
  <2>2. month(d) = x \div MonthLength
    BY DEF x
  <2> DEFINE y == x \div MonthLength
  <2>3. y \in Int
    BY <2>1, FromMonth
  <2> HIDE DEF y
  <2>4. Begin(y) <= x /\ Begin(y) \in Int
    BY <2>1, <2>3, FromMonth DEF y
  <2>5. Begin(y) <= now
    BY <2>1, <2>4
  <2>6. y <= m
    BY <2>1, <2>3, <2>5, FromMonth DEF m
  <2> USE DEF y
  <2> QED
    BY <2>2, <2>3, <2>6
<1>9. ASSUME NEW d \in R!Scope(docs, owner), NEW k \in Int
      PROVE  /\ docs[d].created >= Begin(k) <=> month(d) >= k
             /\ docs[d].created < Begin(k) <=> month(d) < k
  <2> DEFINE x == docs[d].created
  <2>1. x \in Int
    BY <1>7
  <2>2. month(d) = x \div MonthLength
    OBVIOUS
  <2> HIDE DEF x, month
  <2>3. month(d) \in Int /\ (Begin(k) <= x <=> k <= month(d)) /\ Begin(k) \in Int
    BY <2>1, <2>2, FromMonth
  <2>4. (x >= Begin(k) <=> month(d) >= k) /\ (x < Begin(k) <=> month(d) < k)
    BY <2>1, <2>3
  <2> USE DEF x
  <2> QED
    BY <2>4
<1> HIDE DEF month, first
<1>10. W = D
  <2>1. b[1].start = Begin(first + 1) /\ b[n].end = Begin(first + n + 1)
    BY <1>2, <1>4
  <2>2. first + 1 \in Int /\ first + n + 1 \in Int /\ first + n = m
    BY <1>3, <1>4 DEF first
  <2>3. \A d \in R!Scope(docs, owner) :
           (docs[d].created >= b[1].start /\ docs[d].created < b[n].end) <=> month(d) > first
    <3> SUFFICES ASSUME NEW d \in R!Scope(docs, owner)
                 PROVE  (docs[d].created >= b[1].start /\ docs[d].created < b[n].end) <=> month(d) > first
      OBVIOUS
    <3>1. (docs[d].created >= b[1].start <=> month(d) >= first + 1)
      BY <1>9, <2>1, <2>2
    <3>2. (docs[d].created < b[n].end <=> month(d) < first + n + 1)
      BY <1>9, <2>1, <2>2
    <3>3. month(d) \in Int /\ month(d) <= m
      BY <1>8
    <3> QED
      BY <1>3, <1>4, <2>2, <3>1, <3>2, <3>3
  <2> QED
    BY <1>5, <2>3 DEF R!Window
<1>11. \A d \in D : h[d] \in I
  <2> SUFFICES ASSUME NEW d \in D PROVE h[d] \in I
    OBVIOUS
  <2>1. month(d) \in Int /\ month(d) <= m /\ month(d) > first /\ h[d] = month(d) - first
    BY <1>8
  <2> QED
    BY <1>3, <1>4, <2>1 DEF first
<1>12. ASSUME NEW i \in I
       PROVE  {d \in W : docs[d].created >= b[i].start /\ docs[d].created < b[i].end} = {d \in D : h[d] = i}
  <2>1. first + i \in Int /\ first + i + 1 \in Int /\ i \in Int
    BY <1>4
  <2>2. ASSUME NEW d \in D
        PROVE  (docs[d].created >= b[i].start /\ docs[d].created < b[i].end) <=> h[d] = i
    <3>1. d \in R!Scope(docs, owner) /\ h[d] = month(d) - first
      OBVIOUS
    <3>2. docs[d].created >= b[i].start <=> month(d) >= first + i
      BY <1>2, <1>9, <2>1, <3>1
    <3>3. docs[d].created < b[i].end <=> month(d) < first + i + 1
      BY <1>2, <1>9, <2>1, <3>1
    <3>4. month(d) \in Int
      BY <1>8, <3>1
    <3> QED
      BY <1>4, <2>1, <3>1, <3>2, <3>3, <3>4
  <2> HIDE DEF D, h, W
  <2> QED
    BY <1>10, <2>2
<1>13. IsFiniteSet(D)
  <2>1. D \in SUBSET DOMAIN docs
    BY DEF R!Scope
  <2> HIDE DEF D
  <2> QED
    BY <2>1, DocsFinite, FS_Subset
<1>14. IsFiniteSet(I)
  BY UpTo
<1> HIDE DEF D, h, W, g, I
<1>15. \A i \in I : g[i] = Cardinality({d \in D : h[d] = i})
  BY <1>6, <1>12
<1>16. SumOf(g) = Cardinality(D)
  BY <1>6, <1>11, <1>13, <1>14, <1>15, PanelAddsUp
<1> USE DEF D, g, b, month, first, m
<1> QED
  BY <1>16

\* month_buckets: the months of a series are the last ones without a gap, no label
\* occurs twice, and every document of those months is in exactly one bar.
THEOREM SeriesComplete == Spec => []SeriesIsComplete
<1>1. ASSUME ReportsInv PROVE SeriesIsComplete
  <2> SUFFICES ASSUME NEW months \in Months
        PROVE  LET buckets == MonthsUpTo[now][months] IN
               /\ Len(buckets) = months
               /\ buckets[months].start <= now /\ now < buckets[months].end
               /\ \A i \in 1 .. months - 1 : buckets[i].end = buckets[i + 1].start
               /\ Cardinality({buckets[i].label : i \in 1 .. months}) = months
               /\ \A owner \in Owner \cup {None} :
                     SumOf(R!Series(docs, buckets, owner)) =
                         Cardinality({d \in R!Scope(docs, owner) :
                             docs[d].created \div MonthLength > (now \div MonthLength) - months})
    BY DEF SeriesIsComplete
  <2> DEFINE b == R!MonthBuckets(now, months)
             m == now \div MonthLength
             first == m - months
  <2>1. TableInv /\ months \in 1 .. 12
    BY <1>1, ReportConstants DEF ReportsInv
  <2>2. now \in 0 .. MaxTime /\ now \in Nat
    BY <2>1, ReportConstants DEF TableInv, TypeOK
  <2>3. MonthsUpTo[now][months] = b
    BY <2>2 DEF MonthsUpTo
  <2>4. /\ Len(b) = months
        /\ \A i \in 1 .. months :
              /\ b[i].label = LabelOf(StartMonth + first + i)
              /\ b[i].start = Begin(first + i)
              /\ b[i].end = Begin(first + i + 1)
    BY <2>1, <2>2, BucketsAre
  <2>5. \A owner : SumOf(R!Series(docs, b, owner)) =
                       Cardinality({d \in R!Scope(docs, owner) : docs[d].created \div MonthLength > first})
    BY <2>1, SeriesSum
  <2>6. m \in Int /\ now \in Int
    BY <2>2, FromMonth
  <2>7. Begin(m) <= now /\ now < Begin(m + 1)
    <3> HIDE DEF m
    <3>1. m + 1 \in Int /\ ~(m + 1 <= m) /\ m <= m
      BY <2>6
    <3>2. Begin(m) <= now
      BY <2>6, <3>1, FromMonth DEF m
    <3> DEFINE k == m + 1
    <3> HIDE DEF k
    <3>3. k \in Int /\ ~(k <= m)
      BY <3>1 DEF k
    <3>4. ~(Begin(k) <= now) /\ Begin(k) \in Int
      BY <2>6, <3>3, FromMonth DEF m
    <3>5. now < Begin(k)
      BY <2>6, <3>4
    <3> USE DEF k
    <3> QED
      BY <3>2, <3>5
  <2> HIDE DEF b, m
  <2>8. b[months].start <= now /\ now < b[months].end
    <3>1. first + months = m /\ first + months + 1 = m + 1 /\ months \in 1 .. months
      BY <2>1, <2>6
    <3>2. b[months].start = Begin(m) /\ b[months].end = Begin(m + 1)
      <4> HIDE DEF first
      <4> QED
        BY <2>4, <3>1
    <3> QED
      BY <2>7, <3>2
  <2>9. \A i \in 1 .. months - 1 : b[i].end = b[i + 1].start
    <3> SUFFICES ASSUME NEW i \in 1 .. months - 1 PROVE b[i].end = b[i + 1].start
      OBVIOUS
    <3>1. i \in 1 .. months /\ i + 1 \in 1 .. months /\ first + i + 1 = first + (i + 1)
      BY <2>1, <2>6
    <3> HIDE DEF first
    <3>2. b[i].end = Begin(first + i + 1)
      BY <2>4, <3>1
    <3>3. b[i + 1].start = Begin(first + (i + 1))
      BY <2>4, <3>1
    <3> QED
      BY <3>1, <3>2, <3>3
  <2>10. Cardinality({b[i].label : i \in 1 .. months}) = months
    <3> DEFINE a == StartMonth + first
    <3>1. a \in Int
      BY <2>1, <2>6, ReportConstants
    <3>2. \A i \in 1 .. months : b[i].label = LabelOf(a + i)
      BY <2>4
    <3> HIDE DEF a, first
    <3>3. Cardinality({b[i].label : i \in 1 .. months}) = months
      BY <2>1, <3>1, <3>2, LabelsDiffer
    <3> QED
      BY <3>3
  <2> USE DEF m
  <2> QED
    BY <2>3, <2>4, <2>5, <2>8, <2>9, <2>10
<1>2. ReportsInv => SeriesIsComplete
  BY <1>1
<1> QED
  BY <1>2, Reported, PTL

-----------------------------------------------------------------------------
(* Percentiles.                                                             *)

LEMMA RankClimbs ==
    ASSUME NEW table, NEW sort, NEW dir, NEW D \in SUBSET Int, IsFiniteSet(D),
           \A e \in D : At(table, sort, e) \in Int,
           NEW a \in D, NEW b \in D, Earlier(table, sort, dir, a, b)
    PROVE  Rank(table, sort, dir, D, a) < Rank(table, sort, dir, D, b)
<1> DEFINE A == Before(table, sort, dir, D, a)
           B == Before(table, sort, dir, D, b)
<1>1. A \in SUBSET B /\ a \in B /\ a \notin A
  <2>1. ASSUME NEW e \in D, Earlier(table, sort, dir, e, a) PROVE Earlier(table, sort, dir, e, b)
    <3>1. /\ At(table, sort, e) \in Int /\ At(table, sort, a) \in Int /\ At(table, sort, b) \in Int
          /\ e \in Int /\ a \in Int /\ b \in Int
      OBVIOUS
    <3>2. CASE dir = "desc"
      BY <2>1, <3>1, <3>2 DEF Earlier, R!Precedes
    <3>3. CASE dir # "desc"
      BY <2>1, <3>1, <3>3 DEF Earlier, R!Precedes
    <3> QED
      BY <3>2, <3>3
  <2>2. ~Earlier(table, sort, dir, a, a)
    <3>1. At(table, sort, a) \in Int /\ a \in Int
      OBVIOUS
    <3>2. CASE dir = "desc"
      BY <3>1, <3>2 DEF Earlier, R!Precedes
    <3>3. CASE dir # "desc"
      BY <3>1, <3>3 DEF Earlier, R!Precedes
    <3> QED
      BY <3>2, <3>3
  <2> QED
    BY <2>1, <2>2 DEF Before
<1>2. IsFiniteSet(B)
  BY RankNat
<1> HIDE DEF A, B
<1>3. Cardinality(A) <= Cardinality(B) /\ Cardinality(A) # Cardinality(B)
  BY <1>1, <1>2, FS_Subset
<1>4. Cardinality(A) \in Nat /\ Cardinality(B) \in Nat
  BY <1>1, <1>2, FS_Subset, FS_CardinalityType
<1>5. Cardinality(A) < Cardinality(B)
  BY <1>3, <1>4
<1> USE DEF A, B
<1> QED
  BY <1>5 DEF Rank

\* s lists the documents of E once each by ascending times.
Sorted(s, E, ms) ==
    /\ s \in R!SetToSeqs(E)
    /\ \A i, j \in DOMAIN s : i < j => ms[s[i]] <= ms[s[j]]

LEMMA SortedExists ==
    ASSUME NEW E \in SUBSET Int, IsFiniteSet(E), NEW ms, \A d \in E : ms[d] \in Nat
    PROVE  \E s : Sorted(s, E, ms)
<1> DEFINE n == Cardinality(E)
           I == 1 .. n
           sort == "created_at"
           table == [e \in E |-> [created |-> ms[e]]]
           rank(d) == Rank(table, sort, "asc", E, d)
           f == [d \in E |-> rank(d) + 1]
<1>0. n \in Nat
  BY FS_CardinalityType
<1>1. \A e \in E : At(table, sort, e) \in Int /\ At(table, sort, e) = ms[e]
  BY DEF At, R!SortKey
<1> HIDE DEF table, sort
<1>2. \A d \in E : rank(d) \in Nat /\ rank(d) < n
  BY <1>1, RankNat, RankBelow
<1>3. \A a, b \in E : Earlier(table, sort, "asc", a, b) => rank(a) < rank(b)
  BY <1>1, RankClimbs
<1>4. \A a, b \in E : a # b => Earlier(table, sort, "asc", a, b) \/ Earlier(table, sort, "asc", b, a)
  <2> SUFFICES ASSUME NEW a \in E, NEW b \in E, a # b
               PROVE  Earlier(table, sort, "asc", a, b) \/ Earlier(table, sort, "asc", b, a)
    OBVIOUS
  <2>1. a \in Int /\ b \in Int /\ At(table, sort, a) \in Int /\ At(table, sort, b) \in Int
    BY <1>1
  <2>2. "asc" # "desc"
    OBVIOUS
  <2> QED
    BY <2>1, <2>2 DEF Earlier, R!Precedes
<1>5. \A a, b \in E : ms[a] < ms[b] => Earlier(table, sort, "asc", a, b)
  BY <1>1 DEF Earlier, R!Precedes
<1> HIDE DEF rank
<1>6. f \in Injection(E, I)
  <2>1. f \in [E -> I]
    BY <1>0, <1>2
  <2>2. \A a, b \in E : a # b => f[a] # f[b]
    <3> SUFFICES ASSUME NEW a \in E, NEW b \in E, a # b PROVE f[a] # f[b]
      OBVIOUS
    <3>1. rank(a) < rank(b) \/ rank(b) < rank(a)
      BY <1>3, <1>4
    <3>2. f[a] = rank(a) + 1 /\ f[b] = rank(b) + 1 /\ rank(a) \in Nat /\ rank(b) \in Nat
      BY <1>2
    <3> HIDE DEF f
    <3> QED
      BY <3>1, <3>2
  <2> HIDE DEF f
  <2> QED
    BY <2>1, <2>2 DEF Injection, IsInjective
<1>7. f \in Surjection(E, I)
  <2>1. IsFiniteSet(I) /\ Cardinality(I) = n
    <3> HIDE DEF n
    <3> QED
      BY <1>0, UpTo
  <2> HIDE DEF I, f
  <2> QED
    BY <1>6, <2>1, FS_Injection DEF n
<1> DEFINE s == [i \in I |-> CHOOSE d \in E : f[d] = i]
<1>8. \A i \in I : s[i] \in E /\ f[s[i]] = i
  <2>1. \A i \in I : \E d \in E : f[d] = i
    BY <1>7 DEF Surjection
  <2> HIDE DEF f, I
  <2> QED
    BY <2>1
<1>9. s \in [I -> E] /\ \A i, j \in I : i # j => s[i] # s[j]
  <2> HIDE DEF f
  <2>1. s \in [I -> E]
    BY <1>8
  <2> HIDE DEF s
  <2> QED
    BY <1>8, <2>1
<1>10. s \in R!SetToSeqs(E)
  <2> HIDE DEF s
  <2> QED
    BY <1>9, SameOperators DEF R!SetToSeqs
<1>11. \A i, j \in I : i < j => ms[s[i]] <= ms[s[j]]
  <2> SUFFICES ASSUME NEW i \in I, NEW j \in I, i < j, ~(ms[s[i]] <= ms[s[j]]) PROVE FALSE
    OBVIOUS
  <2> DEFINE a == s[i]
             b == s[j]
  <2>1. a \in E /\ b \in E /\ f[a] = i /\ f[b] = j
    BY <1>8
  <2> HIDE DEF a, b
  <2>2. ms[b] < ms[a]
    <3>1. ~(ms[a] <= ms[b])
      BY DEF a, b
    <3> QED
      BY <2>1, <3>1
  <2>3. rank(b) < rank(a) /\ rank(a) \in Nat /\ rank(b) \in Nat
    BY <1>2, <1>3, <1>5, <2>1, <2>2
  <2>4. rank(a) + 1 = i /\ rank(b) + 1 = j
    BY <2>1
  <2> QED
    BY <2>3, <2>4
<1>12. DOMAIN s = I
  OBVIOUS
<1> HIDE DEF s, I
<1> QED
  BY <1>10, <1>11, <1>12 DEF Sorted

\* What a position of a sorted list has before it and up to it.
\* The documents whose time is less than p, and those whose time is at most p.
Under(E, ms, p) == {d \in E : ms[d] < p}
Until(E, ms, p) == {d \in E : ms[d] <= p}

LEMMA SortedSplits ==
    ASSUME NEW E, IsFiniteSet(E), NEW ms, \A d \in E : ms[d] \in Nat, NEW s, Sorted(s, E, ms),
           NEW at \in DOMAIN s
    PROVE  /\ at \in 1 .. Cardinality(E) /\ s[at] \in E
           /\ Cardinality(Under(E, ms, ms[s[at]])) <= at - 1
           /\ Cardinality(Until(E, ms, ms[s[at]])) >= at
<1> DEFINE n == Cardinality(E)
           I == 1 .. n
           v == ms[s[at]]
           Low == Under(E, ms, v)
           Up == Until(E, ms, v)
           f == [i \in I |-> s[i]]
<1>0. n \in Nat
  BY FS_CardinalityType
<1>1. s \in [I -> E] /\ \A i, j \in I : i # j => s[i] # s[j]
  BY SameOperators DEF Sorted, R!SetToSeqs
<1>2. DOMAIN s = I
  BY <1>1
<1>3. \A i, j \in I : i < j => ms[s[i]] <= ms[s[j]]
  BY <1>2 DEF Sorted
<1>4. at \in I /\ at \in Nat /\ at - 1 \in Nat /\ v \in Nat
  BY <1>0, <1>1, <1>2
<1>5. s \in Injection(I, E)
  BY <1>1 DEF Injection, IsInjective
<1>6. s \in Surjection(I, E)
  <2>1. IsFiniteSet(I) /\ Cardinality(I) = n
    <3> HIDE DEF n
    <3> QED
      BY <1>0, UpTo
  <2> HIDE DEF I
  <2> QED
    BY <1>5, <2>1, FS_Injection DEF n
<1>7. \A d \in E : \E i \in I : s[i] = d
  BY <1>6 DEF Surjection
<1> HIDE DEF v
<1>8. Cardinality(Low) <= at - 1
  <2> DEFINE k == at - 1
             J == 1 .. k
             P == {s[j] : j \in J}
  <2>1. \A d \in Low : d \in P
    <3> SUFFICES ASSUME NEW d \in Low PROVE d \in P
      OBVIOUS
    <3>0. d \in E /\ ms[d] < v
      BY DEF Under
    <3> HIDE DEF Low
    <3>1. PICK i \in I : s[i] = d
      BY <1>7, <3>0
    <3>2. ms[s[i]] < v /\ ms[s[i]] \in Nat
      BY <3>0, <3>1
    <3>3. ~(at < i) /\ at # i
      BY <1>3, <1>4, <3>2 DEF v
    <3>4. i \in J
      BY <1>0, <1>4, <3>3
    <3> QED
      BY <3>1, <3>4
  <2>2. IsFiniteSet(J) /\ Cardinality(J) = k
    <3> HIDE DEF k
    <3>1. k \in Nat
      BY <1>4 DEF k
    <3> QED
      BY <3>1, UpTo
  <2> HIDE DEF J
  <2>3. IsFiniteSet(P) /\ Cardinality(P) <= Cardinality(J)
    BY <2>2, ImageFinite
  <2> HIDE DEF P, Low
  <2>4. Cardinality(Low) <= Cardinality(P)
    BY <2>1, <2>3, FS_Subset
  <2>5. IsFiniteSet(Low)
    BY <2>1, <2>3, FS_Subset
  <2>6. Cardinality(Low) \in Nat /\ Cardinality(P) \in Nat
    BY <2>3, <2>5, FS_CardinalityType
  <2> QED
    BY <1>4, <2>2, <2>3, <2>4, <2>6
<1>9. Cardinality(Up) >= at
  <2> DEFINE J == 1 .. at
             P == {s[j] : j \in J}
             g == [j \in J |-> s[j]]
  <2>1. J \in SUBSET I
    BY <1>0, <1>4
  <2>2. \A j \in J : s[j] \in Up
    <3> SUFFICES ASSUME NEW j \in J PROVE s[j] \in Up
      OBVIOUS
    <3>1. j \in I /\ s[j] \in E
      BY <1>1, <2>1
    <3>2. j = at \/ j < at
      BY <1>4
    <3>3. ms[s[j]] <= v
      <4>1. CASE j = at
        BY <1>4, <4>1 DEF v
      <4>2. CASE j < at
        BY <1>3, <1>4, <3>1, <4>2 DEF v
      <4> QED
        BY <3>2, <4>1, <4>2
    <3> QED
      BY <3>1, <3>3 DEF Until
  <2>3. g \in Injection(J, P) /\ g \in Surjection(J, P)
    BY <1>1, <2>1 DEF Injection, IsInjective, Surjection
  <2>4. IsFiniteSet(J) /\ Cardinality(J) = at
    BY <1>4, UpTo
  <2>5. P \in SUBSET Up /\ Up \in SUBSET E
    BY <2>2 DEF Until
  <2> HIDE DEF J, P, g, Up
  <2>6. Cardinality(P) = at
    BY <2>3, <2>4, FS_Surjection
  <2>7. IsFiniteSet(Up)
    BY <2>5, FS_Subset
  <2>8. Cardinality(P) <= Cardinality(Up) /\ Cardinality(Up) \in Nat
    BY <2>5, <2>7, FS_Subset, FS_CardinalityType
  <2> QED
    BY <1>4, <2>6, <2>8
<1> USE DEF v
<1> QED
  BY <1>1, <1>4, <1>8, <1>9

\* The offset is within the list and not past the percentage.
LEMMA OffsetFits ==
    ASSUME NEW n \in Nat, n > 0, NEW percent \in Nat, percent <= 100
    PROVE  LET at == R!Offset(n, percent) IN
           /\ at \in 0 .. n - 1
           /\ 100 * at <= percent * n /\ 100 * (at + 1) >= percent * n
<1> DEFINE x == n * percent
           q == x \div 100
           at == R!Offset(n, percent)
<1>1. x \in Nat /\ x = percent * n
  OBVIOUS
<1>2. x <= 100 * n
  <2>1. n * percent <= n * 100
    BY Monotone
  <2>2. n * 100 = 100 * n
    OBVIOUS
  <2> QED
    BY <2>1, <2>2
<1>3. at = R!Min({n - 1, q})
  BY DEF R!Offset
<1> HIDE DEF x, at
<1>4. q \in Int /\ 100 * q <= x /\ x < 100 * q + 100 /\ q >= 0
  BY <1>1
<1> HIDE DEF q
<1>5. at = IF n - 1 <= q THEN n - 1 ELSE q
  <2> DEFINE k == n - 1
  <2>1. k \in Int
    OBVIOUS
  <2> HIDE DEF k
  <2>2. Min({k, q}) = IF k <= q THEN k ELSE q
    BY <1>4, <2>1, MinOfTwo
  <2>3. R!Min({k, q}) = IF k <= q THEN k ELSE q
    BY <2>2, SameOperators
  <2> USE DEF k
  <2> QED
    BY <1>3, <2>3
<1>6. at \in 0 .. n - 1 /\ 100 * at <= x /\ 100 * (at + 1) >= x
  BY <1>1, <1>2, <1>4, <1>5
<1> USE DEF at
<1> QED
  BY <1>1, <1>6

LEMMA PercentilesAre ==
    ASSUME NEW D, WindowOf(D), R!Extracted(docs, D) # {}
    PROVE  LET E == R!Extracted(docs, D)
               ms == [d \in E |-> docs[d].ex.ms]
               n == Cardinality(E)
           IN /\ n \in Nat /\ n > 0
              /\ \E s : /\ Sorted(s, E, ms)
                        /\ \A percent \in {50, 95} :
                              R!Percentile(docs, E, percent) = ms[s[R!Offset(n, percent) + 1]]
<1> DEFINE E == R!Extracted(docs, D)
           ms == [d \in E |-> docs[d].ex.ms]
           n == Cardinality(E)
           Good(s) == /\ s \in R!SetToSeqs(E)
                      /\ \A i, j \in DOMAIN s : i < j => R!PipelineMs(docs[s[i]]) <= R!PipelineMs(docs[s[j]])
           c == CHOOSE s : Good(s)
<1>1. E \in SUBSET D /\ IsFiniteSet(E) /\ \A d \in E : docs[d].ex # None
  BY Parts DEF R!Extracted
<1>2. \A d \in E : ms[d] \in Nat /\ ms[d] = R!PipelineMs(docs[d])
  <2>1. \A d \in E : docs[d].ex.ms \in Nat
    BY <1>1, Rows DEF WindowOf
  <2> QED
    BY <2>1 DEF R!PipelineMs
<1>3. E \in SUBSET Int
  <2>1. DOMAIN docs \subseteq 1 .. nextId - 1
    BY DEF WindowOf, TableInv, TypeOK
  <2>2. E \in SUBSET DOMAIN docs
    BY <1>1 DEF WindowOf
  <2> HIDE DEF E
  <2> QED
    BY <2>1, <2>2
<1>4. n \in Nat /\ n > 0
  <2>1. E # {}
    OBVIOUS
  <2> HIDE DEF E
  <2> QED
    BY <1>1, <2>1, FS_EmptySet, FS_CardinalityType
<1>5. \A percent : R!Percentile(docs, E, percent) =
          LET at == R!Offset(n, percent) + 1 IN
          IF at \in DOMAIN c THEN R!PipelineMs(docs[c[at]]) ELSE None
  <2> HIDE DEF E
  <2> QED
    BY SameOperators DEF R!Percentile
<1> HIDE DEF E, ms
<1>6. ASSUME NEW s, s \in R!SetToSeqs(E) PROVE s \in [1 .. n -> E]
  BY <1>6, SameOperators DEF R!SetToSeqs
<1>7. \A s : Good(s) <=> Sorted(s, E, ms)
  <2> SUFFICES ASSUME NEW s, s \in R!SetToSeqs(E) PROVE Good(s) <=> Sorted(s, E, ms)
    BY DEF Sorted
  <2>1. \A i \in DOMAIN s : ms[s[i]] = R!PipelineMs(docs[s[i]])
    BY <1>2, <1>6
  <2> QED
    BY <2>1 DEF Sorted
<1>8. Sorted(c, E, ms)
  <2>1. \E s : Sorted(s, E, ms)
    BY <1>1, <1>2, <1>3, SortedExists
  <2>2. \E s : Good(s)
    BY <1>7, <2>1
  <2>3. Good(c)
    BY <2>2
  <2> QED
    BY <1>7, <2>3
<1> HIDE DEF c, n
<1>9. ASSUME NEW percent \in {50, 95}
      PROVE  R!Percentile(docs, E, percent) = ms[c[R!Offset(n, percent) + 1]]
  <2> DEFINE at == R!Offset(n, percent) + 1
  <2>1. percent \in Nat /\ percent <= 100
    OBVIOUS
  <2>2. R!Offset(n, percent) \in 0 .. n - 1
    BY <1>4, <2>1, OffsetFits
  <2>3. at \in 1 .. n
    BY <1>4, <2>2
  <2>4. c \in [1 .. n -> E]
    BY <1>6, <1>8 DEF Sorted
  <2> HIDE DEF at
  <2>5. at \in DOMAIN c /\ c[at] \in E
    BY <2>3, <2>4
  <2>6. R!Percentile(docs, E, percent) = IF at \in DOMAIN c THEN R!PipelineMs(docs[c[at]]) ELSE None
    BY <1>5 DEF at
  <2>7. R!Percentile(docs, E, percent) = ms[c[at]]
    BY <1>2, <2>5, <2>6
  <2> USE DEF at
  <2> QED
    BY <2>7
<1>10. \E s : /\ Sorted(s, E, ms)
              /\ \A percent \in {50, 95} : R!Percentile(docs, E, percent) = ms[s[R!Offset(n, percent) + 1]]
  BY <1>8, <1>9
<1> USE DEF E, ms, n
<1> QED
  BY <1>4, <1>10

\* _percentile: a percentile is there for every sample, divides the samples as it says,
\* and the median, p95 and the slowest run are in order.
THEOREM PercentilesHold == Spec => []PercentilesBracket
<1>1. ASSUME ReportsInv PROVE PercentilesBracket
  <2> SUFFICES ASSUME NEW owner \in Owner \cup {None}
        PROVE  LET D == R!Window(docs, now - WindowLength, now, owner)
                   ms == [d \in R!Extracted(docs, D) |-> docs[d].ex.ms]
                   perf == R!Performance(docs, D)
                   n == Cardinality(DOMAIN ms)
                   brackets(p, percent) ==
                       /\ p # None
                       /\ 100 * Cardinality({d \in DOMAIN ms : ms[d] < p}) <= percent * n
                       /\ 100 * Cardinality({d \in DOMAIN ms : ms[d] <= p}) >= percent * n
               IN n > 0 => /\ brackets(perf.p50, 50) /\ brackets(perf.p95, 95)
                           /\ perf.p50 <= perf.p95 /\ perf.p95 <= perf.slowest
    BY DEF PercentilesBracket
  <2> DEFINE D == R!Window(docs, now - WindowLength, now, owner)
             E == R!Extracted(docs, D)
             ms == [d \in E |-> docs[d].ex.ms]
             perf == R!Performance(docs, D)
             n == Cardinality(E)
             Below(p) == Under(E, ms, p)
             NotAbove(p) == Until(E, ms, p)
             brackets(p, percent) ==
                 /\ p # None
                 /\ 100 * Cardinality(Below(p)) <= percent * n
                 /\ 100 * Cardinality(NotAbove(p)) >= percent * n
  <2>1. WindowOf(D)
    BY <1>1, WindowFacts DEF WindowOf, ReportsInv
  <2> HIDE DEF D
  <2> SUFFICES ASSUME n > 0
               PROVE  /\ brackets(perf.p50, 50) /\ brackets(perf.p95, 95)
                      /\ perf.p50 <= perf.p95 /\ perf.p95 <= perf.slowest
    <3>1. DOMAIN ms = E
      OBVIOUS
    <3> HIDE DEF E, ms, perf
    <3> QED
      BY <3>1 DEF D, E, ms, perf, Under, Until
  <2>2. E # {} /\ IsFiniteSet(E) /\ E \in SUBSET D
    <3>1. IsFiniteSet(E) /\ E \in SUBSET D
      BY <2>1, Parts
    <3> HIDE DEF E
    <3> QED
      BY <3>1, FS_EmptySet
  <2>3. /\ n \in Nat
        /\ \E s : /\ Sorted(s, E, ms)
                  /\ \A percent \in {50, 95} : R!Percentile(docs, E, percent) = ms[s[R!Offset(n, percent) + 1]]
    BY <2>1, <2>2, PercentilesAre
  <2>4. \A d \in E : ms[d] \in Nat /\ ms[d] = R!PipelineMs(docs[d])
    <3>1. \A d \in E : docs[d].ex.ms \in Nat
      BY <2>1, Rows DEF WindowOf, R!Extracted
    <3> QED
      BY <3>1 DEF R!PipelineMs
  <2>5. /\ perf.p50 = R!Percentile(docs, E, 50) /\ perf.p95 = R!Percentile(docs, E, 95)
        /\ perf.slowest = Max({R!PipelineMs(docs[d]) : d \in E})
    BY <2>2, SameOperators DEF R!Performance
  <2> HIDE DEF E, ms, perf, n
  <2>6. PICK s : /\ Sorted(s, E, ms)
                 /\ \A percent \in {50, 95} : R!Percentile(docs, E, percent) = ms[s[R!Offset(n, percent) + 1]]
    BY <2>3
  <2>7. DOMAIN s = 1 .. n
    BY <2>6, SameOperators DEF Sorted, R!SetToSeqs, n
  <2>8. ASSUME NEW percent \in {50, 95}
        PROVE  /\ R!Offset(n, percent) + 1 \in DOMAIN s
               /\ s[R!Offset(n, percent) + 1] \in E
               /\ brackets(ms[s[R!Offset(n, percent) + 1]], percent)
    <3> DEFINE o == R!Offset(n, percent)
               at == o + 1
    <3>0. percent \in Nat /\ percent <= 100
      OBVIOUS
    <3>1. o \in 0 .. n - 1 /\ 100 * o <= percent * n /\ 100 * (o + 1) >= percent * n
      BY <2>3, <3>0, OffsetFits
    <3> HIDE DEF o
    <3>2. at \in DOMAIN s /\ at - 1 = o /\ at \in Nat /\ o \in Nat
      BY <2>3, <2>7, <3>1
    <3> HIDE DEF at
    <3>3. /\ s[at] \in E
          /\ Cardinality(Under(E, ms, ms[s[at]])) <= at - 1
          /\ Cardinality(Until(E, ms, ms[s[at]])) >= at
      <4>1. IsFiniteSet(E)
        BY <2>2
      <4>2. \A d \in E : ms[d] \in Nat
        BY <2>4
      <4>3. Sorted(s, E, ms)
        BY <2>6
      <4> HIDE DEF brackets, Below, NotAbove
      <4> QED
        BY ONLY <4>1, <4>2, <4>3, <3>2, SortedSplits
    <3> DEFINE v == ms[s[at]]
               lo == Cardinality(Below(v))
               up == Cardinality(NotAbove(v))
    <3>4. v \in Nat /\ v # None
      BY <2>4, <3>3, ReportConstants
    <3>5. lo \in Nat /\ up \in Nat
      <4>1. Below(v) \in SUBSET E /\ NotAbove(v) \in SUBSET E
        BY DEF Under, Until
      <4> HIDE DEF Below, NotAbove, v
      <4> QED
        BY <2>2, <4>1, FS_Subset, FS_CardinalityType
    <3>6. lo <= o /\ up >= o + 1
      BY <3>2, <3>3 DEF at
    <3> HIDE DEF lo, up
    <3>7. 100 * lo <= percent * n /\ 100 * up >= percent * n
      <4> DEFINE x == percent * n
      <4>1. x \in Int
        BY <2>3
      <4>2. 100 * o <= x /\ 100 * (o + 1) >= x
        BY <3>1
      <4> HIDE DEF x
      <4>3. 100 * lo <= x /\ 100 * up >= x
        BY <3>2, <3>5, <3>6, <4>1, <4>2
      <4> USE DEF x
      <4> QED
        BY <4>3
    <3>8. brackets(v, percent)
      BY <3>4, <3>7 DEF lo, up
    <3> HIDE DEF brackets
    <3> USE DEF at, o, v
    <3> QED
      BY <3>2, <3>3, <3>8
  <2> DEFINE a50 == R!Offset(n, 50) + 1
             a95 == R!Offset(n, 95) + 1
  <2>9. a50 \in DOMAIN s /\ s[a50] \in E /\ brackets(ms[s[a50]], 50)
    BY <2>8
  <2>10. a95 \in DOMAIN s /\ s[a95] \in E /\ brackets(ms[s[a95]], 95)
    BY <2>8
  <2>11. perf.p50 = ms[s[a50]] /\ perf.p95 = ms[s[a95]]
    BY <2>5, <2>6
  <2>12. a50 <= a95
    <3> DEFINE x == (n * 50) \div 100
               y == (n * 95) \div 100
               k == n - 1
    <3>1. x \in Int /\ y \in Int /\ x <= y /\ k \in Int
      BY <2>3
    <3>2. R!Offset(n, 50) = R!Min({k, x}) /\ R!Offset(n, 95) = R!Min({k, y})
      BY DEF R!Offset
    <3> HIDE DEF x, y, k
    <3>3. Min({k, x}) = (IF k <= x THEN k ELSE x) /\ Min({k, y}) = (IF k <= y THEN k ELSE y)
      BY <3>1, MinOfTwo
    <3>4. R!Offset(n, 50) = (IF k <= x THEN k ELSE x) /\ R!Offset(n, 95) = (IF k <= y THEN k ELSE y)
      BY <3>2, <3>3, SameOperators
    <3> QED
      BY <3>1, <3>4
  <2> HIDE DEF a50, a95, brackets
  <2>13. ms[s[a50]] <= ms[s[a95]]
    <3>1. CASE a50 = a95
      BY <2>4, <2>9, <3>1
    <3>2. CASE a50 < a95
      BY <2>6, <2>9, <2>10, <3>2 DEF Sorted
    <3>3. a50 \in Int /\ a95 \in Int
      BY <2>7, <2>9, <2>10
    <3> QED
      BY <2>12, <3>1, <3>2, <3>3
  <2>14. ms[s[a95]] <= perf.slowest
    <3> DEFINE f == [d \in E |-> R!PipelineMs(docs[d])]
               S == {f[d] : d \in E}
    <3>1. S = {R!PipelineMs(docs[d]) : d \in E}
      OBVIOUS
    <3>2. \A d \in E : f[d] = ms[d] /\ f[d] \in Nat
      BY <2>4
    <3>3. S \in SUBSET Int /\ ms[s[a95]] \in S
      BY <2>10, <3>2
    <3> HIDE DEF f
    <3>4. IsFiniteSet(S)
      BY <2>2, ImageFinite
    <3> HIDE DEF S
    <3>5. Max(S) \in S /\ \A y \in S : Max(S) >= y
      BY <3>3, <3>4, MaxIsGreatest
    <3>6. perf.slowest = Max(S)
      BY <2>5, <3>1
    <3>7. Max(S) \in Int /\ ms[s[a95]] \in Int /\ Max(S) >= ms[s[a95]]
      BY <3>3, <3>5
    <3> QED
      BY <3>6, <3>7
  <2> QED
    BY <2>9, <2>10, <2>11, <2>13, <2>14
<1>2. ReportsInv => PercentilesBracket
  BY <1>1
<1> QED
  BY <1>2, Reported, PTL
=============================================================================
