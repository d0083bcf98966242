------------------------- MODULE DocumentReportsMC -------------------------
(* Model-checking instance of DocumentReports.                               *)
EXTENDS DocumentReports, TLC

Scores(f) == [k \in Kind \ {"other"} |-> IF k \in DOMAIN f THEN f[k] ELSE 0]
Sentence(words, tokens, chars) == [words |-> words, tokens |-> tokens, chars |-> chars]

Match(class, value, chars, digits, part) ==
    [class |-> class, value |-> value, chars |-> chars, digits |-> digits, part |-> part]

\* Longer than the model is given, and more of everything than is kept: of the 121
\* matches 110 are admitted, and the labels with a hint and few words are 106.
Long == [chars |-> 2600, boundary |-> 2300,
         scores |-> Scores([invoice |-> 14, receipt |-> 14]),
         matches |-> {Match("money", <<"amount", i>>, IF i > 110 THEN 513 ELSE 5, 5, None) : i \in 1 .. 121},
         labels |-> {[key |-> ToString(i), words |-> 1 + (i % 5), hinted |-> (i % 3) # 0, chars |-> 9] : i \in 1 .. 200},
         amounts |-> [key \in {"subtotal"} |-> 2048], ranked |-> [i \in 1 .. 14 |-> i],
         sentences |-> [i \in 1 .. 6 |-> Sentence({i, 2 * i}, 3 + i, 900)]]

\* A line that matches as an amount, in it a phone number; two weak signals; a total
\* that its label has cut already.
Short == [chars |-> 400, boundary |-> -1, scores |-> Scores([receipt |-> 3, letter |-> 2]),
          matches |-> {Match("date", <<"date", 1>>, 8, 8, None), Match("phone", <<"phone", 1>>, 8, 8, <<"date", 1>>),
                       Match("phone", <<"phone", 2>>, 9, 9, None), Match("phone", <<"phone", 3>>, 1, 9, None)},
          labels |-> {[key |-> "total_amount", words |-> 2, hinted |-> TRUE, chars |-> 300]},
          amounts |-> [key \in {"total_amount"} |-> 4000], ranked |-> <<1, 2>>,
          sentences |-> <<Sentence({1, 2}, 6, 60), Sentence({}, 5, 20), Sentence({2}, 2, 9)>>]

\* Nothing but "Total" and more digits than a field may have characters.
Digits == [chars |-> 2060, boundary |-> -1, scores |-> Scores([receipt |-> 3]), matches |-> {},
           labels |-> {}, amounts |-> [key \in {"total_amount"} |-> 2049],
           ranked |-> <<>>, sentences |-> <<Sentence({}, 1, 2060)>>]

Texts     == [long |-> Long, short |-> Short, digits |-> Digits]
Questions == {{1, 2, 15}, {1, 15, 16, 17}, {}}

\* One that answers in percent and knows no confidence, one that keeps to no bound, and
\* one with a number that no float can hold.
Modest == [kind |-> "invoice", language |-> 2, summary |-> 300, keywords |-> 5,
           entities |-> 3, text |-> 30, fields |-> 5, key |-> 20, value |-> 60,
           item |-> 92 * Unit, confidence |-> None, warnings |-> 19, tokens |-> 7]
Wild   == [kind |-> "spreadsheet", language |-> 30, summary |-> 30000, keywords |-> 40,
           entities |-> 150, text |-> 900, fields |-> 150, key |-> 200, value |-> 9000,
           item |-> 14000, confidence |-> 150 * Unit, warnings |-> 30, tokens |-> None]
Huge   == [Modest EXCEPT !.item = MaxFloat + 1]

Responses == {Modest, Wild, Huge}
Replies   == {[blank |-> TRUE, found |-> TRUE, quotes |-> 0], [blank |-> FALSE, found |-> TRUE, quotes |-> 9],
              [blank |-> FALSE, found |-> FALSE, quotes |-> 1]}

Result(text, ocr, ms, pages, detected) ==
    [text |-> text, ocr |-> ocr, ms |-> ms, pages |-> pages, detected |-> detected]

Readings == {Result("long", "textract", 8, None, 2), Result("short", "local", 3, 2, 0),
             Result("digits", "local", 3, 1, 0)}

\* A column that every change of a row moves, and one that never changes.
Lists(status, sort, dir) == [owner |-> None, status |-> status, sort |-> sort, dir |-> dir]
Filters == {Lists(None, "updated_at", "asc"), Lists("completed", "created_at", "desc")}

Files == {[filename |-> 1, size |-> 1]}

\* Of a walk that has ended only its result is kept: what follows cannot change it.
Ended == Walking /\ ~client.more
View  == <<docs, nextId, now, runs,
           IF Ended THEN <<"ended", PagingIsComplete>> ELSE <<"open", client>>>>

OwnerSymmetry == Permutations(Owner)
=============================================================================
