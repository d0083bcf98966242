-------------------------- MODULE AnalysisContract --------------------------
(***************************************************************************)
(* What a model may answer and what the pipeline makes of it               *)
(* (app/services/ai/analysis_contract.py, truncate_for_model of base.py,   *)
(* the analyze methods of both adapters, DocumentAnalysis of               *)
(* app/schemas/document.py).  Lists are their lengths, texts those of the  *)
(* longest of their kind: text of an entity, key and value of a field;     *)
(* item is the most extreme confidence of an entity or a field.  A         *)
(* confidence is in units of 1/10000, None standing for null, NaN and what *)
(* is no number; one beyond MaxFloat is an integer of JSON that no float   *)
(* can hold (a literal with an exponent is read as infinity: MaxFloat).    *)
(* An operator Name_Variant is Name with a plausible mistake, see README.  *)
(***************************************************************************)
EXTENDS Integers, FiniteSetsExt

CONSTANTS None, MaxFloat

Kind == {"invoice", "receipt", "contract", "resume", "report", "letter", "form",
         "identity_document", "bank_statement", "other"}

Unit == 10000

AtMost(n, cap) == IF n > cap THEN cap ELSE n

\* The shape of what a model may answer: any kind, sizes and confidence.
IsResponse(r) ==
    /\ \A size \in {r.language, r.summary, r.keywords, r.entities, r.text, r.fields, r.key, r.value,
                     r.warnings} : size \in Nat
    /\ \A confidence \in {r.item, r.confidence} : confidence \in Int \cup {None}

-----------------------------------------------------------------------------
\* The cut is at the last paragraph break, where one is in the last fifth.
TruncateForModel(chars, boundary, max) ==
    CASE chars <= max -> chars
      [] chars > max /\ boundary > (max * 8) \div 10 -> boundary
      [] OTHER -> max

ClampConfidence_Open(v) ==
    IF v = None THEN None ELSE Max({0, IF Unit < v /\ v <= 100 * Unit THEN v \div 100 ELSE v})

\* Percentages become fractions; what is still out of range is clamped.
ClampConfidence(v) ==
    IF v = None THEN None
    ELSE Max({0, Min({Unit, IF Unit < v /\ v <= 100 * Unit THEN v \div 100 ELSE v})})

\* float(value) raises OverflowError, which clamp_confidence does not catch.
Unrepresentable(v) == v # None /\ (v > MaxFloat \/ v < -MaxFloat)

\* coerce_analysis and with it analyze end in an exception; otherwise CoerceAnalysis(r)
\* is the result.
Raises(r) == Unrepresentable(r.item) \/ Unrepresentable(r.confidence)

CoerceAnalysis(r) ==
    [kind       |-> IF r.kind \in Kind THEN r.kind ELSE "other",
     language   |-> AtMost(r.language, 16),
     summary    |-> AtMost(r.summary, 4000),
     keywords   |-> AtMost(r.keywords, 25),
     entities   |-> AtMost(r.entities, 100),
     text       |-> AtMost(r.text, 512),
     fields     |-> AtMost(r.fields, 100),
     key        |-> AtMost(r.key, 128),
     value      |-> AtMost(r.value, 2048),
     item       |-> ClampConfidence(r.item),
     confidence |-> IF ClampConfidence(r.confidence) = None THEN 0 ELSE ClampConfidence(r.confidence),
     warnings   |-> AtMost(r.warnings, 20)]

\* DocumentAnalysis.model_validate, with ExtractedEntity and ExtractedField
Valid(a) ==
    /\ a.kind \in Kind /\ a.language <= 16 /\ a.summary <= 4000 /\ a.keywords <= 25
    /\ a.entities <= 100 /\ a.text <= 512
    /\ a.fields <= 100 /\ a.key <= 128 /\ a.value <= 2048 /\ a.warnings <= 20
    /\ a.item = None \/ a.item \in 0 .. Unit
    /\ a.confidence \in 0 .. Unit

\* analyze: the truncation warning comes after the warnings were cut to 20.
Analysis(r, truncated) ==
    [CoerceAnalysis(r) EXCEPT !.warnings = IF truncated THEN @ + 1 ELSE @]

CoerceAnswer_Trusting(p) ==
    [blank |-> p.blank, found |-> p.found, quotes |-> AtMost(p.quotes, 5)]

CoerceAnswer(p) ==
    [blank |-> p.blank, found |-> p.found /\ ~p.blank, quotes |-> AtMost(p.quotes, 5)]

MergeExtractorFields_Uncapped(fields, detected) == fields + detected

\* _merge_extractor_fields: the cap is looked at after a pair was added.
MergeExtractorFields(fields, detected) ==
    AtMost(fields + detected, Max({100, fields + 1}))
=============================================================================
