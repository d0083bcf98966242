----------------------------- MODULE RuleEngine -----------------------------
(***************************************************************************)
(* The built-in analyser (app/services/ai/heuristic.py).  A text is what   *)
(* its patterns find in it:                                                *)
(*   chars      characters of the stripped body                            *)
(*   scores     per document type, the weights of the signals it contains  *)
(*   matches    in order of precision, [class, value, chars, digits,       *)
(*              part]: chars of the cleaned value, part the longer match   *)
(*              it lies inside, or None                                    *)
(*   labels     the "Label: value" lines, [key, words, hinted, chars]:     *)
(*              chars of the value; of those that are kept under one key   *)
(*              only the first                                             *)
(*   amounts    the labelled amounts, with a colon or without: from the    *)
(*              keys found to the chars of their values                    *)
(*   ranked     its words by frequency                                     *)
(*   sentences  [words: the content words, tokens, chars]                  *)
(* Which substrings match is the business of the patterns and left out.    *)
(***************************************************************************)
EXTENDS AnalysisContract, Sequences, FiniteSets

\* The keys of the labelled amounts that are looked for.
AmountKey == {"total_amount", "subtotal", "tax_amount"}

\* A text is finite, and so is what is found in it.
IsText(t) ==
    /\ t.chars \in Nat
    /\ t.scores \in [Kind \ {"other"} -> Nat]
    /\ \A found \in {t.matches, t.labels} : IsFiniteSet(found) /\ \A m \in found : m.chars \in Nat
    /\ DOMAIN t.amounts \subseteq AmountKey /\ \A key \in DOMAIN t.amounts : t.amounts[key] \in Nat
    /\ Len(t.ranked) \in Nat /\ DOMAIN t.ranked = 1 .. Len(t.ranked)
    /\ Len(t.sentences) \in Nat /\ DOMAIN t.sentences = 1 .. Len(t.sentences)
    /\ \A i \in DOMAIN t.sentences :
          /\ IsFiniteSet(t.sentences[i].words)
          /\ t.sentences[i].tokens \in Nat /\ t.sentences[i].chars \in Nat

\* _TYPE_SIGNALS, in the order of the table.
KindOrder == <<"invoice", "receipt", "contract", "resume", "report", "letter", "form",
               "identity_document", "bank_statement">>

\* The first of the best types, unless all it has is one weak signal.
Classify(t) ==
    LET best == Max({t.scores[k] : k \in DOMAIN t.scores})
        first == Min({i \in DOMAIN KindOrder : t.scores[KindOrder[i]] = best})
    IN [kind |-> IF best >= 4 THEN KindOrder[first] ELSE "other", score |-> best]

\* What add admits.
Kept(t) == {m \in t.matches : m.chars \in 2 .. 512}

\* A phone number must not lie in anything found before; identifiers come last.
Claimed(t) == {m.value : m \in {n \in Kept(t) : n.class \notin {"phone", "identifier"}}}

Accepted(t) ==
    {m \in Kept(t) : m.class = "phone" =>
        m.digits \in 7 .. 15 /\ m.value \notin Claimed(t) /\ m.part \notin Claimed(t)}

FindEntities_Uncut(t) == Cardinality({<<m.value, m.class>> : m \in Accepted(t)})

FindEntities(t) == AtMost(Cardinality({<<m.value, m.class>> : m \in Accepted(t)}), 100)

Labelled(t) == {l \in t.labels : l.words <= 4 /\ l.hinted}

\* An amount is a field of its own unless a label has its key.
Unlabelled(t) == DOMAIN t.amounts \ {l.key : l \in Labelled(t)}

FindFields(t) == AtMost(Cardinality({l.key : l \in Labelled(t)} \cup Unlabelled(t)), 100)

\* The values of labels are cut, those of amounts are not; a field is validated when
\* it is built, whether or not it is among the hundred that are returned.
ValueLengths(t) == {AtMost(l.chars, 2048) : l \in Labelled(t)} \cup {t.amounts[k] : k \in Unlabelled(t)}

Overlong(t) == \E k \in Unlabelled(t) : t.amounts[k] > 2048

TopKeywords(t) == SubSeq(t.ranked, 1, AtMost(Len(t.ranked), 12))

-----------------------------------------------------------------------------
\* The n first of the indexes i \in I by descending weight[i], then by position.
TopBy(I, weight, n) ==
    {i \in I : Cardinality({j \in I : weight[j] > weight[i] \/ (weight[j] = weight[i] /\ j < i)}) < n}

Total(f, I) == FoldSet(LAMBDA i, sum : f[i] + sum, 0, I)

\* Sentences are weighed by keyword density and position, in 1/100.
Summarise(t) ==
    LET prose == {i \in DOMAIN t.sentences : t.sentences[i].tokens >= 5}
        place(i) == Cardinality({j \in prose : j < i})
        scored == {i \in prose : place(i) < 200 /\ t.sentences[i].words # {}}
        keywords == {TopKeywords(t)[k] : k \in DOMAIN TopKeywords(t)}
        weight == [i \in scored |->
            (100 * Cardinality(t.sentences[i].words \cap keywords)) \div Cardinality(t.sentences[i].words)
            + (CASE place(i) < 3 -> 35 [] place(i) \in 3 .. 7 -> 15 [] OTHER -> 0)]
        length == [i \in DOMAIN t.sentences |-> t.sentences[i].chars + 2]
    IN CASE prose = {} -> AtMost(t.chars, 403)
         [] prose # {} /\ scored = {} -> AtMost(length[Min(prose)], 400)
         [] OTHER -> AtMost(Total(length, TopBy(scored, weight, 4)), 4000)

OverallConfidence_Uncapped(t) ==
    LET parts == 30 * 12 * AtMost(t.chars, 2000) + 30 * 2000 * AtMost(Classify(t).score, 12)
                 + 25 * 3000 * AtMost(FindFields(t), 8) + 15 * 2400 * AtMost(FindEntities(t), 10)
    IN 100 * Max({5, (2 * parts + 24000) \div 48000})

\* Text, type, fields and entities weigh 30, 30, 25 and 15 percent; the sum is
\* rounded to a percent and kept within 5 and 78.
OverallConfidence(t) ==
    LET parts == 30 * 12 * AtMost(t.chars, 2000) + 30 * 2000 * AtMost(Classify(t).score, 12)
                 + 25 * 3000 * AtMost(FindFields(t), 8) + 15 * 2400 * AtMost(FindEntities(t), 10)
    IN 100 * Min({78, Max({5, (2 * parts + 24000) \div 48000})})

\* A language is a code of two letters, _snake_case leaves a key at most 128 characters
\* and no confidence of an item exceeds 0.97.
RuleAnalysis(t) ==
    [kind       |-> Classify(t).kind,
     language   |-> 2,
     summary    |-> Summarise(t),
     keywords   |-> Len(TopKeywords(t)),
     entities   |-> FindEntities(t),
     text       |-> Max({0} \cup {m.chars : m \in Accepted(t)}),
     fields     |-> FindFields(t),
     key        |-> 128,
     value      |-> Max({0} \cup ValueLengths(t)),
     item       |-> 9700,
     confidence |-> OverallConfidence(t),
     warnings   |-> IF t.chars < 200 THEN 2 ELSE 1]

-----------------------------------------------------------------------------
\* answer_question: overlap with the question, with a bonus of up to 15 percent for
\* sentences of at most 20 content words, in units of 1/10000.
Density(t, question) ==
    LET hits(i) == Cardinality(t.sentences[i].words \cap question)
        bonus(i) == IF Cardinality(t.sentences[i].words) <= 20 THEN 1500
                    ELSE 30000 \div Cardinality(t.sentences[i].words)
    IN [i \in {k \in DOMAIN t.sentences : hits(k) > 0} |->
            (hits(i) * (Unit + bonus(i))) \div Cardinality(question)]

\* quotes: the three best passages, given in the order of the document.
Answer(t, question) ==
    LET density == Density(t, question)
        quotes == TopBy(DOMAIN density, density, 3)
    IN [blank  |-> FALSE,
        found  |-> \E i \in quotes : density[i] >= 3400,
        quotes |-> quotes]
=============================================================================
