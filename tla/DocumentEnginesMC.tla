------------------------- MODULE DocumentEnginesMC -------------------------
(* Model-checking instances of DocumentEngines.                              *)
EXTENDS DocumentEngines, TLC

Full  == [llm |-> "auto", keys |-> Llm, ocr |-> "auto", textract |-> TRUE, bucket |-> TRUE]
Bare  == [llm |-> "auto", keys |-> {}, ocr |-> "auto", textract |-> FALSE, bucket |-> FALSE]
Scans == [llm |-> "openai", keys |-> {"openai"}, ocr |-> "textract", textract |-> FALSE, bucket |-> TRUE]
Small == [llm |-> "claude", keys |-> {"claude"}, ocr |-> "textract", textract |-> FALSE, bucket |-> FALSE]
Local == [llm |-> "none", keys |-> {}, ocr |-> "local", textract |-> TRUE, bucket |-> TRUE]
Off   == [llm |-> "claude", keys |-> {}, ocr |-> "none", textract |-> FALSE, bucket |-> FALSE]

Alike  == {[p \in Replica |-> c] : c \in {Full, Bare, Scans, Small, Local, Off}}
Fleets == Alike \cup {f \in [Replica -> {Full, Bare}] : \E p, q \in Replica : f[p] # f[q]}
=============================================================================
