---------------------------- MODULE EventStream ----------------------------
(***************************************************************************)
(* What api.graph.streaming.stream_graph_events promises the route that    *)
(* consumes it: an opening event, progress, and one event that says how    *)
(* the run came out; after that at most the news that saving it failed.    *)
(* AgentGraph implements it, StreamRoute relies on it.                     *)
(***************************************************************************)

\* GraphErrorEvent, by its reason ("over_request" is the reason None).
Errors    == {"provider_exhausted", "budget_exhausted", "over_request", "internal_error"}
Terminals == {"interrupted", "completed"} \cup Errors

\* NodeStarted and NodeCompleted events are both "progress".
Events == {"started", "progress", "retry_loop"} \cup Terminals

\* The events that may come after the last one sent ("nothing" at first).
After(event) ==
  CASE event = "nothing"     -> {"started"}
    [] event = "started"     -> {"progress"} \cup Errors
    [] event = "progress"    -> {"progress", "retry_loop"} \cup Terminals
    [] event = "retry_loop"  -> {"progress"} \cup Errors
    [] event = "interrupted" -> {"internal_error"}
    [] OTHER                 -> {}

\* The stream may end by returning once it has told how the run came out; it
\* may raise only where aget_state is awaited, all nodes having run.
MayReturn(event) == event \in Terminals
MayRaise(event)  == event = "progress"

VARIABLES
  last,  \* the last event sent
  over   \* "no", or how the stream ended

streamVars == <<last, over>>

Init == last = "nothing" /\ over = "no"

Send ==
  /\ over = "no"
  /\ last' \in After(last)
  /\ UNCHANGED over

Return == over = "no" /\ MayReturn(last) /\ over' = "returned" /\ UNCHANGED last
Raise  == over = "no" /\ MayRaise(last)  /\ over' = "raised"   /\ UNCHANGED last

\* The process dies, or the consumer goes away.
Lose   == over = "no" /\ over' = "lost" /\ UNCHANGED last

Next == Send \/ Return \/ Raise \/ Lose

Spec == Init /\ [][Next]_streamVars
=============================================================================
