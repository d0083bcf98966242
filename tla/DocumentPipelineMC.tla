------------------------- MODULE DocumentPipelineMC -------------------------
(* Model-checking instances of DocumentPipeline.                             *)
EXTENDS DocumentPipeline, TLC

\* Requests of one kind, replicas and contents are interchangeable in the
\* specification and in its safety properties.
Symmetry ==
    Permutations(Upload) \cup Permutations(Reprocess) \cup Permutations(Delete)
        \cup Permutations(Replica) \cup Permutations(Content)

\* Safety runs tell states apart by what an action or a property reads: the
\* locals of a request that has ended, and of a handler past their last use,
\* are not part of the view.
Live(r) == pc[r] \notin Ended
View == << row, blobs, pc, seen, due, phase, stuck, stops, faults,
           [r \in Request |-> IF Live(r) THEN <<target[r], host[r]>> ELSE <<None, None>>],
           [u \in Upload |-> IF pc[u] \in {"storing", "inserting"} THEN content[u] ELSE None],
           [r \in Run |-> IF pc[r] = "failing" THEN code[r] ELSE None] >>
=============================================================================
