------------------------------- MODULE Reports -------------------------------
(***************************************************************************)
(* The figures computed from the documents table: the panels of the        *)
(* analytics page (app/repositories/analytics.py and                       *)
(* api/v1/endpoints/analytics.py), the stat cards and the monthly series   *)
(* of the dashboard (app/repositories/dashboard.py and                     *)
(* api/v1/endpoints/dashboard.py), and the pages of the document list      *)
(* (list_documents of app/repositories/document.py, Page of                *)
(* app/schemas/common.py).                                                 *)
(*                                                                         *)
(* docs maps the ids of the existing documents to their rows.  A row has   *)
(* owner, filename (its place in the collation), size, created, updated,   *)
(* status, kind, code, pages, attempts and ex, the joined extraction or    *)
(* None.  Instants are ticks.  Shares are in 1/1000 and rounded down;      *)
(* messages and labels are left out.                                       *)
(* An operator Name_Variant is Name with a plausible mistake, see README.  *)
(***************************************************************************)
EXTENDS Integers, Sequences, FiniteSetsExt, SequencesExt

CONSTANTS None, DayLength, MonthLength,
          StartMonth  \* the month of tick 0, counted from the year 0

Total(f, D) == FoldSet(LAMBDA d, sum : f[d] + sum, 0, D)
Share(part, whole) == IF whole <= 0 THEN 0 ELSE (part * 1000) \div whole

\* owner is None for an administrator.
Scope(docs, owner) == {d \in DOMAIN docs : owner = None \/ docs[d].owner = owner}

Window(docs, start, end, owner) ==
    {d \in Scope(docs, owner) : docs[d].created >= start /\ docs[d].created < end}

Of(docs, D, status) == {d \in D : docs[d].status \in status}
Extracted(docs, D)  == {d \in D : docs[d].ex # None}

PagesOf(row) == IF row.pages = None THEN 0 ELSE row.pages
PagesIn(docs, D) == Total([d \in D |-> PagesOf(docs[d])], D)

------------------------------------------------------------- (* analytics *)
Totals(docs, D) ==
    [documents   |-> Cardinality(D),
     completed   |-> Cardinality(Of(docs, D, {"completed"})),
     failed      |-> Cardinality(Of(docs, D, {"failed"})),
     in_progress |-> Cardinality(Of(docs, D, {"pending", "processing"})),
     pages       |-> PagesIn(docs, D),
     reprocessed |-> Cardinality({d \in D : docs[d].attempts > 1})]

ByType_Inner(docs, D) ==
    LET of(kind) == {d \in Extracted(docs, D) : docs[d].kind = kind} IN
    [kind \in {docs[d].kind : d \in Extracted(docs, D)} |->
        [documents |-> Cardinality(of(kind)), failed |-> Cardinality(Of(docs, of(kind), {"failed"}))]]

\* An outer join: the documents without a type have a group of their own.
ByType(docs, D) ==
    LET of(kind) == {d \in D : docs[d].kind = kind} IN
    [kind \in {docs[d].kind : d \in D} |->
        [documents |-> Cardinality(of(kind)), failed |-> Cardinality(Of(docs, of(kind), {"failed"}))]]

Failures(docs, D) ==
    LET of(code) == {d \in Of(docs, D, {"failed"}) : docs[d].code = code} IN
    [code \in {docs[d].code : d \in Of(docs, D, {"failed"})} \ {None} |-> Cardinality(of(code))]

PipelineMs(row) == row.ex.ms

Offset_NearestRank(n, percent) == (n * percent + 99) \div 100

\* min(samples - 1, int(samples * fraction))
Offset(n, percent) == Min({n - 1, (n * percent) \div 100})

\* ORDER BY ... OFFSET ... LIMIT 1: nothing past the end.
Percentile(docs, E, percent) ==
    LET sorted == CHOOSE s \in SetToSeqs(E) : \A i, j \in DOMAIN s :
                      i < j => PipelineMs(docs[s[i]]) <= PipelineMs(docs[s[j]])
        at == Offset(Cardinality(E), percent) + 1
    IN IF at \in DOMAIN sorted THEN PipelineMs(docs[sorted[at]]) ELSE None

Performance(docs, D) ==
    LET E == Extracted(docs, D) IN
    IF E = {} THEN [samples |-> 0, p50 |-> None, p95 |-> None, slowest |-> None]
    ELSE [samples |-> Cardinality(E),
          p50     |-> Percentile(docs, E, 50),
          p95     |-> Percentile(docs, E, 95),
          slowest |-> Max({PipelineMs(docs[d]) : d \in E})]

Providers(docs, D) ==
    LET E == Extracted(docs, D) IN
    [text_extraction |-> [p \in {docs[d].ex.ocr : d \in E} |->
                             Cardinality({d \in E : docs[d].ex.ocr = p})],
     analysis        |-> [p \in {docs[d].ex.provider : d \in E} |->
                             Cardinality({d \in E : docs[d].ex.provider = p})]]

Tokens(docs, D) ==
    LET paid == {d \in Extracted(docs, D) : docs[d].ex.tokens # None} IN
    [total     |-> Total([d \in paid |-> docs[d].ex.tokens], paid),
     documents |-> Cardinality(paid)]

\* The last bound is past 1, so that a full confidence is counted.
Buckets == <<<<0, 5000>>, <<5000, 7000>>, <<7000, 8500>>, <<8500, 10100>>>>

Confidence(docs, D) ==
    [b \in DOMAIN Buckets |-> Cardinality({d \in Extracted(docs, D) :
        docs[d].ex.confidence >= Buckets[b][1] /\ docs[d].ex.confidence < Buckets[b][2]})]

\* The busiest uploaders, for administrators: at most limit rows; which of two equally
\* busy ones is cut off is left to the database.
Uploaders(docs, D, limit) ==
    LET count == [o \in {docs[d].owner : d \in D} |-> Cardinality({d \in D : docs[d].owner = o})] IN
    {Restrict(count, S) : S \in {T \in kSubset(Min({limit, Cardinality(DOMAIN count)}), DOMAIN count) :
        \A o \in T, p \in DOMAIN count \ T : count[o] >= count[p]}}

Daily(docs, D) ==
    LET day(d) == docs[d].created \div DayLength
        on(D1, x) == {d \in D1 : day(d) = x}
    IN [x \in {day(d) : d \in D} |->
           [documents |-> Cardinality(on(D, x)),
            completed |-> Cardinality(on(Of(docs, D, {"completed"}), x)),
            failed    |-> Cardinality(on(Of(docs, D, {"failed"}), x))]]

------------------------------------------------------------- (* dashboard *)
WindowMetrics_Closed(docs, start, end, owner) ==
    LET D == {d \in Scope(docs, owner) : docs[d].created >= start /\ docs[d].created <= end} IN
    [documents |-> Cardinality(D), completed |-> Cardinality(Of(docs, D, {"completed"})),
     failed |-> Cardinality(Of(docs, D, {"failed"})), pages |-> PagesIn(docs, D)]

WindowMetrics(docs, start, end, owner) ==
    LET D == {d \in Scope(docs, owner) : docs[d].created >= start /\ docs[d].created < end} IN
    [documents |-> Cardinality(D), completed |-> Cardinality(Of(docs, D, {"completed"})),
     failed |-> Cardinality(Of(docs, D, {"failed"})), pages |-> PagesIn(docs, D)]

SuccessRate(m) == IF m.completed + m.failed = 0 THEN 0
                  ELSE (m.completed * 1000) \div (m.completed + m.failed)

\* In 1/1000 of the previous value.
PercentChange(current, previous) ==
    CASE previous = 0 /\ current > 0 -> 1000
      [] previous = 0 /\ current = 0 -> 0
      [] OTHER -> ((current - previous) * 1000) \div previous

Card(value, change) == [value |-> value, delta |-> change, trend |-> IF change >= 0 THEN "up" ELSE "down"]

Stats(docs, now, length, owner) ==
    LET current  == WindowMetrics(docs, now - length, now, owner)
        previous == WindowMetrics(docs, now - 2 * length, now - length, owner)
    IN [documents    |-> Card(current.documents, PercentChange(current.documents, previous.documents)),
        pages        |-> Card(current.pages, PercentChange(current.pages, previous.pages)),
        success_rate |-> Card(SuccessRate(current), SuccessRate(current) - SuccessRate(previous))]

MonthIndex(instant)    == StartMonth + instant \div MonthLength
MonthStart(year, month) == (12 * year + month - 1 - StartMonth) * MonthLength

FirstMonth_Late(year, month, n) ==
    LET offset == month - n + 1 IN <<year + offset \div 12, (offset % 12) + 1>>

FirstMonth(year, month, n) ==
    LET offset == month - n IN <<year + offset \div 12, (offset % 12) + 1>>

NextMonth(ym) == IF ym[2] = 12 THEN <<ym[1] + 1, 1>> ELSE <<ym[1], ym[2] + 1>>

\* At most twelve months, walked forward from the first.
MonthBuckets(now, months) ==
    LET n     == Max({1, Min({months, 12})})
        year  == MonthIndex(now) \div 12
        month == (MonthIndex(now) % 12) + 1
        ym[i \in 1 .. n] == IF i = 1 THEN FirstMonth(year, month, n) ELSE NextMonth(ym[i - 1])
    IN [i \in 1 .. n |-> [label |-> ym[i][2], year |-> ym[i][1],
                          start |-> MonthStart(ym[i][1], ym[i][2]),
                          end   |-> MonthStart(NextMonth(ym[i])[1], NextMonth(ym[i])[2])]]

Series(docs, buckets, owner) ==
    LET inRange == Window(docs, buckets[1].start, Last(buckets).end, owner) IN
    [i \in DOMAIN buckets |-> Cardinality({d \in inRange :
           docs[d].created >= buckets[i].start /\ docs[d].created < buckets[i].end})]

-------------------------------------------------------- (* the document list *)
\* A filter on the status, None for all documents.
Matching(docs, status, owner) ==
    {d \in Scope(docs, owner) : status = None \/ docs[d].status = status}

\* _SORT_COLUMNS
SortColumns == {"created_at", "updated_at", "filename", "size_bytes"}

SortKey(row, sort) ==
    CASE sort = "created_at" -> row.created
      [] sort = "updated_at" -> row.updated
      [] sort = "filename"   -> row.filename
      [] sort = "size_bytes" -> row.size

\* A row with key k is listed before one with key l.
Precedes(k, l, dir) == IF dir = "desc" THEN k > l ELSE k < l

ListOrders_NoTieBreak(docs, D, sort, dir) ==
    {s \in SetToSeqs(D) : \A i, j \in DOMAIN s :
        i < j => ~Precedes(SortKey(docs[s[j]], sort), SortKey(docs[s[i]], sort), dir)}

\* The orders the database may deliver: by the column, then the newest id first.
ListOrders(docs, D, sort, dir) ==
    {s \in SetToSeqs(D) : \A i, j \in DOMAIN s : i < j =>
        \/ Precedes(SortKey(docs[s[i]], sort), SortKey(docs[s[j]], sort), dir)
        \/ SortKey(docs[s[i]], sort) = SortKey(docs[s[j]], sort) /\ s[i] > s[j]}

PageOf(order, page, size) ==
    SubSeq(order, (page - 1) * size + 1, Min({page * size, Len(order)}))

TotalPages(total, size) == Max({1, (total + size - 1) \div size})
=============================================================================
