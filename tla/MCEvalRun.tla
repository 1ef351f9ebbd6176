----------------------------- MODULE MCEvalRun -----------------------------
(* Five golden items: one relevant chunk, an out-of-scope question, two     *)
(* relevant chunks, and two whose tag and ground truth disagree.  The first *)
(* two go through the graph.                                                *)
EXTENDS EvalRun

CONSTANTS a, b, c

Item(out, rel) == [out_of_scope |-> out, relevant |-> rel]
MCGolden == <<Item(FALSE, {a}), Item(TRUE, {}), Item(FALSE, {a, b}), Item(TRUE, {c}), Item(FALSE, {})>>
MCGain   == <<1000, 631, 500, 431>>
=============================================================================
