----------------------------- MODULE WebClient -----------------------------
(***************************************************************************)
(* The browser side of a query (apps/web): runQuery of app/page.tsx with   *)
(* its latch, abort controllers and timers, the two event sources          *)
(* (sse-client, replay-client), and AgentGraph with graphReducer and       *)
(* selectTerminal.  Handlers, timers and continuations of an await run to  *)
(* completion one at a time, so each is a step; effects run after a        *)
(* render, as steps of their own.                                          *)
(***************************************************************************)
EXTENDS Integers, Sequences, SequencesExt

CONSTANTS
  Asks,     \* calls of runQuery, by the form or by an example, numbered as made
  MaxLoops, \* bound: retry loops are begun only in logs shorter than this
  MaxLag    \* bound: events that may wait for the next render

ASSUME ClientAssumption ==
  /\ IsFiniteSet(Asks)
  /\ Asks = 1 .. Cardinality(Asks)
  /\ MaxLoops \in Nat
  /\ MaxLag \in Nat \ {0}

NodeOrder == <<"planner", "retriever", "reranker", "generator", "critic", "hitl_gate">>
NodeNames == Range(NodeOrder)
Rank(n)   == CHOOSE i \in DOMAIN NodeOrder : NodeOrder[i] = n

Statuses == {"idle", "active", "completed", "pending_review", "abstain", "error"}

\* Events by type and by what tells them apart on the screen: the node, the
\* kind of interrupt or answer, or who reports an error.
InterruptKinds == {"review", "empty", "abstained", "out_of_scope"}
AnswerKinds    == {"answer", "abstained"}
ServerFaults   == {"friendly", "fault"}
ClientFaults   == {"ended_early", "timed_out", "failed"}

Bodies ==
  [type : {"started"}, of : {"query"}]
    \cup [type : {"node_started", "node_completed"}, of : NodeNames]
    \cup [type : {"retry_loop"}, of : {"critic"}]
    \cup [type : {"interrupted"}, of : InterruptKinds]
    \cup [type : {"completed"}, of : AnswerKinds]
    \cup [type : {"error"}, of : ServerFaults \cup ClientFaults]

Silence == [type |-> "nothing", of |-> "query"]

Event(type, of) == [type |-> type, of |-> of]

\* "ask" is history: the call whose stream, or whose handler, logged it.
Logged(a, body) == [type |-> body.type, of |-> body.of, ask |-> a]
Events == {Logged(a, body) : a \in Asks, body \in Bodies}

VARIABLES
  hasStarted,   \* the graph is on the screen, not the landing page
  log,          \* the events of Home
  isStreaming,
  controller,   \* abortRef: the call that made it, as a set of at most one
  inFlight,     \* inFlightRef
  timedOut,     \* timedOutRef
  viz,          \* AgentGraph's GraphVizState
  applied,      \* appliedCount
  at,           \* where each call is
  sent,         \* the last event its source yielded, while it has one
  aborted,      \* the calls whose signal is aborted
  timer         \* the hard timeout of each call

page   == <<isStreaming, controller, inFlight, timedOut>>
screen == <<viz, applied>>
calls  == <<at, sent, aborted, timer>>
vars   == <<hasStarted, log, page, screen, calls>>

\* initialGraphVizState; what may be null is a set of at most one.
InitialViz ==
  [nodes     |-> [n \in NodeNames |-> "idle"],
   edge      |-> {},
   drawn     |-> {},
   retry     |-> FALSE,
   fanOut    |-> "idle",
   interrupt |-> {},
   completed |-> {},
   error     |-> {}]

Edges == NodeNames \X NodeNames

TypeOK ==
  /\ hasStarted \in BOOLEAN
  /\ log \in Seq(Events)
  /\ isStreaming \in BOOLEAN
  /\ controller \subseteq Asks
  /\ inFlight \in BOOLEAN
  /\ timedOut \in BOOLEAN
  /\ viz \in [nodes : [NodeNames -> Statuses], edge : SUBSET Edges, drawn : SUBSET Edges,
              retry : BOOLEAN, fanOut : {"idle", "fanned", "collapsing"},
              interrupt : SUBSET Events, completed : SUBSET Events, error : SUBSET Events]
  /\ applied \in 0 .. Len(log)
  /\ at \in [Asks -> {"unasked", "fetching", "reading", "replaying", "ended"}]
  /\ sent \in [Asks -> Bodies \cup {Silence}]
  /\ aborted \subseteq Asks
  /\ timer \in [Asks -> {"none", "set", "fired", "cleared"}]

Init ==
  /\ hasStarted = FALSE
  /\ log = <<>>
  /\ isStreaming = FALSE
  /\ controller = {}
  /\ inFlight = FALSE
  /\ timedOut = FALSE
  /\ viz = InitialViz
  /\ applied = 0
  /\ at = [a \in Asks |-> "unasked"]
  /\ sent = [a \in Asks |-> Silence]
  /\ aborted = {}
  /\ timer = [a \in Asks |-> "none"]

----------------------------------------------------------------------------
\* graphReducer

\* Mutant: a new run is drawn over the last one.
OnStartedKeep(state) == state

OnStarted(state) == InitialViz

\* lastCompletedNode: the node before n that completed and is nearest to it.
CompletedBefore(state, n) ==
  {i \in 1 .. Rank(n) - 1 : state.nodes[NodeOrder[i]] = "completed"}

OnNodeStarted(state, n) ==
  LET before == CompletedBefore(state, n)
  IN [state EXCEPT !.nodes[n] = "active",
                   !.edge = IF before = {} THEN @ ELSE {<<NodeOrder[Max(before)], n>>}]

OnNodeCompleted(state, n) ==
  [state EXCEPT !.nodes[n] = "completed",
                !.fanOut = CASE n = "retriever" -> "fanned"
                             [] n = "reranker"  -> "collapsing"
                             [] OTHER           -> @,
                !.drawn = @ \cup state.edge]

\* Either way of abstaining is drawn as one; a draft without text is not.
OnInterrupted(state, event) ==
  [state EXCEPT
     !.interrupt = {event},
     !.nodes["hitl_gate"] =
        IF event.of \in {"out_of_scope", "abstained"} THEN "abstain" ELSE "pending_review"]

OnCompleted(state, event) ==
  [state EXCEPT !.completed = {event}, !.nodes["hitl_gate"] = "completed"]

\* Mutant: the error is noted, the node goes on pulsing.
OnErrorNoted(state, event) == [state EXCEPT !.error = {event}]

\* The node at work, the first if there are more, is where the run broke.
OnError(state, event) ==
  LET active == {i \in DOMAIN NodeOrder : state.nodes[NodeOrder[i]] = "active"}
  IN [state EXCEPT
        !.error = {event},
        !.nodes = IF active = {} THEN @ ELSE [@ EXCEPT ![NodeOrder[Min(active)]] = "error"]]

Reduce(state, event) ==
  CASE event.type = "started"        -> OnStarted(state)
    [] event.type = "node_started"   -> OnNodeStarted(state, event.of)
    [] event.type = "node_completed" -> OnNodeCompleted(state, event.of)
    [] event.type = "retry_loop"     -> [state EXCEPT !.retry = TRUE]
    [] event.type = "interrupted"    -> OnInterrupted(state, event)
    [] event.type = "completed"      -> OnCompleted(state, event)
    [] event.type = "error"          -> OnError(state, event)

\* selectTerminal: the kind of panel, and the event it is drawn from.
InterruptPanel(event) ==
  CASE event.of = "out_of_scope" -> "out_of_scope"
    [] event.of = "review"       -> "review"
    [] OTHER                     -> "abstain"

Shown ==
  CASE viz.error # {}     -> [kind |-> "error", from |-> viz.error]
    [] viz.error = {} /\ viz.interrupt # {} ->
         [kind |-> InterruptPanel(CHOOSE e \in viz.interrupt : TRUE), from |-> viz.interrupt]
    [] viz.error = {} /\ viz.interrupt = {} /\ viz.completed # {} ->
         [kind |-> IF \E e \in viz.completed : e.of = "answer" THEN "answer" ELSE "abstain",
          from |-> viz.completed]
    [] OTHER -> [kind |-> IF isStreaming THEN "streaming" ELSE "no_terminal", from |-> {}]

----------------------------------------------------------------------------
\* What the backend sends: EventStream with its nodes in the graph's order, the
\* scope guard's answer, and the route's own error frame.

Follows(n) ==
  CASE n = "planner"   -> {"retriever", "hitl_gate"}
    [] n = "retriever" -> {"reranker"}
    [] n = "reranker"  -> {"generator"}
    [] n = "generator" -> {"critic"}
    [] n = "critic"    -> {"retriever", "hitl_gate"}
    [] n = "hitl_gate" -> {}

StartOf(nodes) == [type : {"node_started"}, of : nodes]
Faults         == [type : {"error"}, of : ServerFaults]
Verdicts       == [type : {"interrupted"}, of : InterruptKinds]
                    \cup [type : {"completed"}, of : AnswerKinds]

\* A second pass is begun in short logs only.
Upcoming(nodes) == IF Len(log) < MaxLoops THEN nodes ELSE nodes \ {"retriever"}

NextOnWire(last) ==
  CASE last.type = "nothing"  -> {Event("started", "query")} \cup Faults
    [] last.type = "started"  ->
         StartOf({"planner"}) \cup {Event("interrupted", "out_of_scope")} \cup Faults
    [] last.type = "node_started" -> {Event("node_completed", last.of)} \cup Faults
    [] last.type = "node_completed" /\ last.of = "planner" -> StartOf(Follows(last.of)) \cup Faults
    [] last.type = "node_completed" /\ last.of = "critic" ->
         StartOf(Upcoming(Follows(last.of)) \ {"retriever"})
           \cup {Event("retry_loop", "critic")} \cup Faults
    [] last.type = "node_completed" /\ last.of = "hitl_gate" -> Verdicts \cup Faults
    [] last.type = "node_completed" /\ last.of \in {"retriever", "reranker", "generator"} ->
         StartOf(Follows(last.of)) \cup Faults
    [] last.type = "retry_loop"  -> StartOf(Upcoming(Follows("critic"))) \cup Faults
    [] last.type = "interrupted" -> Faults
    [] OTHER -> {}

\* A recorded run: no errors, and both clients stop at its verdict.
NextInFixture(last) ==
  IF last.type = "nothing" THEN {Event("started", "query")}
  ELSE IF last.type = "interrupted" THEN {}
  ELSE NextOnWire(last) \ (Faults \cup {Event("interrupted", "out_of_scope")})

\* sawTerminal
SawTerminal(a) == sent[a].type \in {"completed", "interrupted", "error"}

----------------------------------------------------------------------------
\* Mutant: React state in place of the ref, not read back before the render.
LatchNotSeen == TRUE

\* The single-flight latch.
LatchOpen == ~inFlight

\* The first line of AgentGraph's effect: a shorter log is a new one.
AppliedOf(new) == IF Len(new) < applied THEN 0 ELSE applied

\* runQuery up to its first await.  The click's own render shows the emptied
\* log before anything else happens, in the graph as it was left or mounted anew.
Ask(a) ==
  /\ at[a] = "unasked"
  /\ \A b \in Asks : b < a => at[b] # "unasked"
  /\ LatchOpen
  /\ inFlight' = TRUE
  /\ timedOut' = FALSE
  /\ hasStarted' = TRUE
  /\ aborted' = aborted \cup controller
  /\ controller' = {a}
  /\ log' = <<>>
  /\ isStreaming' = TRUE
  /\ timer' = [timer EXCEPT ![a] = "set"]
  /\ \E source \in {"fetching", "replaying"} : at' = [at EXCEPT ![a] = source]
  /\ applied' = AppliedOf(<<>>)
  /\ UNCHANGED <<viz, sent>>

\* fetch resolves: the response is there and its body can be read.
Respond(a) ==
  /\ at[a] = "fetching"
  /\ a \notin aborted
  /\ at' = [at EXCEPT ![a] = "reading"]
  /\ UNCHANGED <<hasStarted, log, page, screen, sent, aborted, timer>>

\* An event comes out of the source and is appended to the log.
Receive(a, body) ==
  /\ a \notin aborted
  /\ \/ at[a] = "reading" /\ body \in NextOnWire(sent[a])
     \/ at[a] = "replaying" /\ body \in NextInFixture(sent[a])
  /\ hasStarted => Len(log) - applied < MaxLag
  /\ sent' = [sent EXCEPT ![a] = body]
  /\ log' = Append(log, Logged(a, body))
  /\ UNCHANGED <<hasStarted, page, screen, at, aborted, timer>>

\* Mutant: the timers of a call outlive it.
TimersLeft(a) == UNCHANGED timer

\* clearTimeout
TimersCleared(a) ==
  timer' = [timer EXCEPT ![a] = IF @ = "fired" THEN "fired" ELSE "cleared"]

\* The end of runQuery, with the fault the reader is told of or none; then its
\* finally.
Settle(a, fault) ==
  /\ log' = IF fault = "none" THEN log ELSE Append(log, Logged(a, Event("error", fault)))
  /\ at' = [at EXCEPT ![a] = "ended"]
  /\ sent' = [sent EXCEPT ![a] = Silence]
  /\ TimersCleared(a)
  /\ isStreaming' = FALSE
  /\ inFlight' = FALSE
  /\ UNCHANGED <<hasStarted, controller, timedOut, screen, aborted>>

\* The source is exhausted: the body was closed, after whatever it had sent, or
\* the recorded run is over, or was given up because its signal is aborted.
SourceEnds(a) ==
  /\ \/ at[a] = "reading" /\ a \notin aborted
     \/ at[a] = "replaying" /\ (a \in aborted \/ NextInFixture(sent[a]) = {})
  /\ Settle(a, IF ~SawTerminal(a) /\ a \notin aborted THEN "ended_early" ELSE "none")

\* The source throws: fetch or a read rejects, with an AbortError once the
\* signal is aborted, the response is not ok, or a frame is not JSON.
SourceThrows(a) ==
  /\ at[a] \in {"fetching", "reading"}
  /\ Settle(a, CASE timedOut                    -> "timed_out"
                 [] ~timedOut /\ a \notin aborted -> "failed"
                 [] OTHER                       -> "none")

\* Mutant: the hard cap leaves the request alone.
AbortNothing(a) == UNCHANGED aborted

AbortCall(a) == aborted' = aborted \cup {a}

\* The hard cap of ninety seconds.  A replay is over before it: the delays of a
\* recorded run are capped, and add up to less.  The other two timers change the
\* wording of the wait.
TimerFires(a) ==
  /\ timer[a] = "set"
  /\ at[a] # "replaying"
  /\ timer' = [timer EXCEPT ![a] = "fired"]
  /\ timedOut' = TRUE
  /\ AbortCall(a)
  /\ UNCHANGED <<hasStarted, log, isStreaming, controller, inFlight, screen, at, sent>>

----------------------------------------------------------------------------
\* Mutant: each render takes the newest event, as if one came at a time.
NewestOnly == <<Last(log)>>

Unapplied == SubSeq(log, applied + 1, Len(log))

\* AgentGraph's effect: what is new in the log goes through the reducer.
Render ==
  /\ hasStarted
  /\ applied < Len(log)
  /\ viz' = FoldLeft(Reduce, viz, Unapplied)
  /\ applied' = Len(log)
  /\ UNCHANGED <<hasStarted, log, page, calls>>

\* resolveFanOutIdle, when the collapse has been drawn.
FanOutSettles ==
  /\ hasStarted
  /\ viz.fanOut = "collapsing"
  /\ viz' = [viz EXCEPT !.fanOut = "idle"]
  /\ UNCHANGED <<hasStarted, log, page, applied, calls>>

\* onBackToExamples, on every panel that has no answer: the graph is unmounted
\* and its state is gone; the call, if there is one, goes on.
DeadEnds == {"abstain", "out_of_scope", "error", "no_terminal"}

Back ==
  /\ hasStarted
  /\ Shown.kind \in DeadEnds
  /\ hasStarted' = FALSE
  /\ viz' = InitialViz
  /\ applied' = 0
  /\ UNCHANGED <<log, page, calls>>

Deliver(a) == \E body \in Bodies : Receive(a, body)

\* What the browser does for a call without anybody's help.
Continue(a) ==
  \/ TimerFires(a)
  \/ at[a] = "replaying" /\ (Deliver(a) \/ SourceEnds(a))
  \/ a \in aborted /\ SourceThrows(a)

Next ==
  \/ \E a \in Asks :
       Ask(a) \/ Respond(a) \/ Deliver(a) \/ SourceEnds(a) \/ SourceThrows(a) \/ TimerFires(a)
  \/ Render
  \/ FanOutSettles
  \/ Back

Spec == Init /\ [][Next]_vars

\* Timers fire, recorded events come, an aborted request rejects, and React
\* renders what has changed; the backend owes the browser nothing.
FairSpec == Spec /\ (\A a \in Asks : WF_vars(Continue(a))) /\ WF_vars(Render)

----------------------------------------------------------------------------
Running == {a \in Asks : at[a] \in {"fetching", "reading", "replaying"}}

\* Nothing is under way and the screen has caught up.
AtRest == hasStarted /\ ~isStreaming /\ applied = Len(log)

(***************************************************************************)
(* At rest the panel on the screen is drawn from an event of the last      *)
(* query, however that and the queries before it ended, whenever the       *)
(* reader went back to the examples, and although the graph keeps its      *)
(* state from query to query until a new run's first event clears it       *)
(* (AgentGraph's effect, graph_started in graphReducer, selectTerminal).   *)
(***************************************************************************)
RestShowsOwn ==
  AtRest => \E e \in Shown.from : controller = {e.ask}

(***************************************************************************)
(* Once a run has begun the drawing is what its log draws from scratch:    *)
(* each event went through the reducer exactly once, in order, whatever    *)
(* the renders batched and whichever runs the graph had drawn before       *)
(* (appliedCount; "a fresh query self-cleans on replay").                  *)
(***************************************************************************)
Settled(state) == [state EXCEPT !.fanOut = "idle"]

ScreenFollowsLog ==
  applied > 0 /\ log[1].type = "started" =>
    Settled(viz) = Settled(FoldLeft(Reduce, InitialViz, SubSeq(log, 1, applied)))

(***************************************************************************)
(* At rest no node pulses as if it were still at work: whatever the run    *)
(* broke off on, its node says so (graphReducer's error case, and the      *)
(* client's own error events).                                             *)
(***************************************************************************)
NothingLeftActive == AtRest => \A n \in NodeNames : viz.nodes[n] # "active"

(***************************************************************************)
(* The page is streaming exactly while a call is under way, one at most,   *)
(* and its log holds that call's events alone: clicks in quick succession, *)
(* superseded calls and late finallys never mix two runs (inFlightRef).    *)
(***************************************************************************)
OneRunAtATime ==
  /\ isStreaming = (Running # {})
  /\ Running \subseteq controller
  /\ \A i \in DOMAIN log : controller = {log[i].ask}

(***************************************************************************)
(* The reader is told of a timeout only for a call whose own ninety        *)
(* seconds are over, not for what the timers of an earlier call did        *)
(* (timedOutRef, the finally of runQuery).                                 *)
(***************************************************************************)
TimeoutIsOwn ==
  \A i \in DOMAIN log : log[i].of = "timed_out" => timer[log[i].ask] = "fired"

(***************************************************************************)
(* Every call ends, also when the backend never answers, stops half-way or *)
(* never closes the stream (the hard timeout).                             *)
(***************************************************************************)
EveryAskEnds == \A a \in Asks : (at[a] # "unasked") ~> (at[a] = "ended")
=============================================================================
