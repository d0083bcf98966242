------------------------- MODULE RefreshSessionsMC -------------------------
(* Model-checking instances of RefreshSessions.                              *)
EXTENDS RefreshSessions, TLC

\* Handlers are interchangeable, and so are addresses that may all be configured.
Symmetry == Permutations(Handler) \cup Permutations(Email)

\* States are told apart by what an action or a property reads: of a revoked
\* token, whether a rotation spent it; of the history, what concerns a token that
\* is live or is being exchanged; of the accounts made by themselves, how many.
Seen(t) == << tokens[t].owner, tokens[t].parent, Revoked(t), tokens[t].reason = "rotated" >>
Matters == {t \in Token : Live(t) \/ \E h \in Handler : call[h].token = t}
View == << users, [t \in Token |-> Seen(t)], registered, issued, expired, pc,
           [h \in Handler |-> IF pc[h] = "signing_out" THEN call[h].user ELSE call[h]],
           Cardinality(selfMade), voided \cap Matters, overtaken, escaped \cap Matters >>
=============================================================================
