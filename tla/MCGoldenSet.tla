----------------------------- MODULE MCGoldenSet -----------------------------
(* Three questions: for one two chunks are retrieved, for one none, and the *)
(* third is out of scope though a chunk was retrieved.                      *)
EXTENDS GoldenSet

CONSTANTS a, b

MCTypeOf == <<"factual_lookup", "role_scoped", "out_of_scope">>
MCPoolOf == <<{a, b}, {}, {b}>>
=============================================================================
