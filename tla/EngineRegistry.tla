--------------------------- MODULE EngineRegistry ---------------------------
(***************************************************************************)
(* Which engine reads a document and which one analyses it                 *)
(* (app/services/ai/registry.py, and the supports methods of local_text.py *)
(* and textract.py), as functions of what a replica is configured with:    *)
(*   llm      LLM_PROVIDER            keys      the API keys that are set  *)
(*   ocr      OCR_PROVIDER            textract  TEXTRACT_ENABLED           *)
(*   bucket   S3_BUCKET is set                                             *)
(* Values an operator may return besides an engine are error codes.        *)
(* An operator Name_Variant is Name with a plausible mistake, see README.  *)
(***************************************************************************)
CONSTANT None

Policy   == {"auto", "claude", "openai", "heuristic", "none"}
Llm      == {"claude", "openai"}
Engine   == Llm \cup {"heuristic"}
Reader   == {"local", "textract"}
FileType == {"pdf", "large_pdf", "text", "image", "other"}

Config == [llm : Policy, keys : SUBSET Llm, ocr : {"auto", "local", "textract", "none"},
           textract : BOOLEAN, bucket : BOOLEAN]

TextractEnabled(c) == c.textract \/ c.ocr = "textract"

Supports == [local |-> {"pdf", "large_pdf", "text"}, textract |-> {"pdf", "large_pdf", "image"}]

\* get_text_extractor: the local reader first even where Textract is on; the
\* textract policy asks nothing about the type, its adapter does.
AutoReaders(c) == IF TextractEnabled(c) THEN Reader ELSE {"local"}

TextExtractor(c, type) ==
    IF c.ocr = "none" THEN "ai_provider_unavailable"
    ELSE IF c.ocr = "textract" THEN "textract"
    ELSE IF type \in Supports["local"] THEN "local"
    ELSE IF c.ocr = "auto" /\ "textract" \in AutoReaders(c) /\ type \in Supports["textract"] THEN "textract"
    ELSE "extraction_failed"

\* effective_analysis_policy: a stored value that is no policy counts as unset.
EffectivePolicy(c, override) == IF override \in Policy THEN override ELSE c.llm

\* get_analyzer: auto is the best configured engine, Claude first.
Analyzer(c, override) ==
    LET policy == EffectivePolicy(c, override) IN
    CASE policy = "heuristic" -> "heuristic"
      [] policy \in Llm /\ policy \in c.keys -> policy
      [] policy = "auto" /\ "claude" \in c.keys -> "claude"
      [] policy = "auto" /\ c.keys = {"openai"} -> "openai"
      [] policy = "auto" /\ c.keys = {} -> "heuristic"
      [] OTHER -> "ai_provider_unavailable"

Fallback_AutoOnly(c, override) ==
    IF EffectivePolicy(c, override) = "auto" /\ Analyzer(c, override) \in Llm
    THEN "heuristic" ELSE None

\* get_analyzer_with_fallback: any paid engine, also one chosen explicitly.
Fallback(c, override) == IF Analyzer(c, override) \in Llm THEN "heuristic" ELSE None

Offered_All(c) == Policy

\* analysis_options: what the picker of the admin panel lets an admin select.
Offered(c) == {"auto", "heuristic", "none"} \cup c.keys
=============================================================================
