--------------------------- MODULE MCPromptedJson ---------------------------
(* Two callers, each with one of two questions of one schema.  The semantic *)
(* cache and the audit share nothing, so a run has one of them or neither.  *)
EXTENDS PromptedJson, TLC

CONSTANTS c1, c2

MCSchemas  == {"plan"}
MCSchemaOf == [p \in Prompts |-> "plan"]
MCFits     == [s \in MCSchemas |-> {"good"}]
MCDistance == [m \in LastMessages \X LastMessages |-> IF m[1] = m[2] THEN 0 ELSE 1]
Symmetry   == Permutations(Callers)

MCInit == Init /\ ~(embedder /\ recorder)
MCSpec == MCInit /\ [][Next]_vars
=============================================================================
