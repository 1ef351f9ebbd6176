---------------------------- MODULE MCAgentGraph ----------------------------
(***************************************************************************)
(* Instances of AgentGraph: two chunks of which one is kept, caps on       *)
(* either side of the planner's budget, and a negative one.                *)
(***************************************************************************)
EXTENDS AgentGraph

\* A request may ask for any integer, below zero too.
SomeRetries == {0 - 1, 0, 2, 3}
=============================================================================
