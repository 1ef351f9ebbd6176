-------------------------- MODULE WebClientProofs --------------------------
(***************************************************************************)
(* Theorems about WebClient, for any number of queries.                    *)
(***************************************************************************)
EXTENDS WebClient, WellFoundedInduction, TLAPS

Places == {"unasked", "fetching", "reading", "replaying", "ended"}
Timers == {"none", "set", "fired", "cleared"}

\* What TypeOK says of the calls and the log; the drawing plays no part.
CallsTyped ==
  /\ isStreaming \in BOOLEAN
  /\ inFlight \in BOOLEAN
  /\ timedOut \in BOOLEAN
  /\ controller \subseteq Asks
  /\ log \in Seq(Events)
  /\ at \in [Asks -> Places]
  /\ sent \in [Asks -> Bodies \cup {Silence}]
  /\ timer \in [Asks -> Timers]

\* The latch, the flag on the screen and the calls agree; there is one call at
\* most, the one whose controller abortRef holds.
Latched ==
  /\ isStreaming = inFlight
  /\ inFlight = (Running # {})
  /\ Running \subseteq controller
  /\ \A a, b \in controller : a = b

\* The log is the latest call's, and timers and flag belong to it.
Owned ==
  /\ \A i \in DOMAIN log : controller = {log[i].ask}
  /\ \A a \in Asks : timer[a] = "set" => a \in Running
  /\ timedOut => \A a \in Running : timer[a] = "fired"
  /\ \A i \in DOMAIN log : log[i].of = "timed_out" => timer[log[i].ask] = "fired"

Kept == CallsTyped /\ Latched /\ Owned

\* The first page keeps the latch and owns its empty log.
LEMMA KeptInit == Init => Kept
<1> SUFFICES ASSUME Init PROVE Kept
  OBVIOUS
<1>1. Running = {}
  BY DEF Init, Running
<1>2. CallsTyped
  <2>1. <<>> \in Seq(Events)
    OBVIOUS
  <2>2. /\ at \in [Asks -> Places] /\ timer \in [Asks -> Timers]
        /\ sent \in [Asks -> Bodies \cup {Silence}]
    BY DEF Init, Places, Timers
  <2> QED BY <2>1, <2>2 DEF Init, CallsTyped
<1>3. DOMAIN log = {}
  BY DEF Init
<1> QED BY <1>1, <1>2, <1>3 DEF Init, Kept, Latched, Owned

\* What a source yields is an event, and no report of a timeout.
LEMMA SourceYields ==
  ASSUME NEW last \in Bodies \cup {Silence},
         NEW body \in Bodies,
         body \in NextOnWire(last) \/ body \in NextInFixture(last)
  PROVE  body.of # "timed_out"
<1>1. body \in NextOnWire(last) \/ body = Event("started", "query")
  BY DEF NextInFixture
<1>2. ASSUME body.of = "timed_out" PROVE body.type = "error"
  BY <1>2 DEF Bodies, NodeNames, NodeOrder, Range, InterruptKinds, AnswerKinds
<1>3. ASSUME body \in NextOnWire(last), body.type = "error"
      PROVE  body.of \in ServerFaults
  BY <1>3 DEF NextOnWire, Faults, Verdicts, StartOf, Event, Bodies, Silence
<1> QED BY <1>1, <1>2, <1>3 DEF ServerFaults, Event

\* One more event of the call under way keeps the log its own.
LEMMA LogGrows ==
  ASSUME Kept, NEW a \in Running, NEW body \in Bodies
  PROVE  /\ Append(log, Logged(a, body)) \in Seq(Events)
         /\ \A i \in DOMAIN Append(log, Logged(a, body)) :
              \/ i \in DOMAIN log /\ Append(log, Logged(a, body))[i] = log[i]
              \/ Append(log, Logged(a, body))[i] = Logged(a, body)
         /\ controller = {a}
<1>1. Logged(a, body) \in Events
  BY DEF Events, Running
<1>2. log \in Seq(Events)
  BY DEF Kept, CallsTyped
<1>3. controller = {a}
  BY DEF Kept, Latched
<1> QED BY <1>1, <1>2, <1>3

\* Every handler, timer and continuation keeps them.
LEMMA KeptNext == Kept /\ [Next]_vars => Kept'
<1> SUFFICES ASSUME Kept, [Next]_vars PROVE Kept'
  OBVIOUS
<1> USE DEF Kept
<1>1. ASSUME NEW a \in Asks, Ask(a) PROVE Kept'
  <2>1. Running = {} /\ Running' = {a}
    <3>1. Running = {}
      BY <1>1 DEF Ask, LatchOpen, Latched
    <3>2. PICK source \in {"fetching", "replaying"} : at' = [at EXCEPT ![a] = source]
      BY <1>1 DEF Ask
    <3> QED BY <3>1, <3>2 DEF CallsTyped, Running
  <2>2. CallsTyped'
    <3>1. <<>> \in Seq(Events)
      OBVIOUS
    <3>2. /\ at' \in [Asks -> Places] /\ timer' \in [Asks -> Timers]
          /\ sent' = sent
      BY <1>1 DEF Ask, CallsTyped, Places, Timers
    <3> QED BY <1>1, <3>1, <3>2 DEF Ask, CallsTyped
  <2>3. Latched'
    BY <1>1, <2>1 DEF Ask, Latched
  <2>4. log' = <<>> /\ DOMAIN log' = {}
    BY <1>1 DEF Ask
  <2>5. \A b \in Asks : timer'[b] = "set" => b = a
    BY <1>1, <2>1 DEF Ask, CallsTyped, Owned
  <2>6. Owned'
    BY <1>1, <2>1, <2>4, <2>5 DEF Ask, Owned
  <2> QED BY <2>2, <2>3, <2>6
<1>2. ASSUME NEW a \in Asks, Respond(a) PROVE Kept'
  BY <1>2 DEF Respond, page, CallsTyped, Latched, Owned, Running, Places
<1>3. ASSUME NEW a \in Asks, Deliver(a) PROVE Kept'
  <2>1. PICK body \in Bodies : Receive(a, body)
    BY <1>3 DEF Deliver
  <2>2. a \in Running
    BY <2>1 DEF Receive, Running
  <2>3. body.of # "timed_out"
    BY <2>1, SourceYields DEF Receive, CallsTyped
  <2>4. CallsTyped'
    BY <2>1, <2>2, LogGrows DEF Receive, page, CallsTyped
  <2>5. Latched'
    BY <2>1 DEF Receive, page, Latched, Running
  <2>6. Owned'
    BY <2>1, <2>2, <2>3, LogGrows DEF Receive, page, Owned, Running, Logged
  <2> QED BY <2>4, <2>5, <2>6
<1>4. ASSUME NEW a \in Running, NEW fault \in ClientFaults \cup {"none"}, Settle(a, fault),
             fault = "timed_out" => timedOut
      PROVE  Kept'
  <2>1. a \in Asks /\ (timedOut => timer[a] = "fired")
    BY DEF Running, Owned
  <2>2. ASSUME fault # "none" PROVE Event("error", fault) \in Bodies
    BY <2>2 DEF Event, Bodies
  <2>3. CallsTyped'
    <3>1. log' \in Seq(Events)
      BY <1>4, <2>2, LogGrows DEF Settle, CallsTyped
    <3>2. /\ timer' \in [Asks -> Timers] /\ at' \in [Asks -> Places]
          /\ sent' \in [Asks -> Bodies \cup {Silence}]
      BY <1>4, <2>1 DEF Settle, TimersCleared, CallsTyped, Timers, Places
    <3> QED BY <1>4, <3>1, <3>2 DEF Settle, CallsTyped
  <2>4. Running' = {} /\ Latched'
    <3>1. Running = {a}
      BY DEF Latched
    <3>2. Running' = {}
      BY <1>4, <2>1, <3>1 DEF Settle, Running, CallsTyped
    <3> QED BY <1>4, <3>2 DEF Settle, Latched
  <2>5. \A i \in DOMAIN log' :
          \/ i \in DOMAIN log /\ log'[i] = log[i]
          \/ fault # "none" /\ log'[i] = Logged(a, Event("error", fault))
    BY <1>4, <2>2, LogGrows DEF Settle
  <2>6. controller = {a}
    BY DEF Latched
  <2>7. \A b \in Asks : /\ timer[b] = "fired" => timer'[b] = "fired"
                        /\ timer'[b] # "set"
    BY <1>4, <2>1, <2>6 DEF Settle, TimersCleared, CallsTyped, Latched, Owned
  <2>8. Owned'
    <3>1. \A i \in DOMAIN log' : controller = {log'[i].ask}
      BY <2>5, <2>6 DEF Owned, Logged
    <3>2. ASSUME NEW i \in DOMAIN log', log'[i].of = "timed_out"
          PROVE  timer'[log'[i].ask] = "fired"
      <4>1. log'[i].ask = a
        BY <3>1, <2>6
      <4>2. timer[a] = "fired"
        BY <3>2, <4>1, <2>5, <2>1, <1>4 DEF Owned, Logged, Event
      <4> QED BY <4>1, <4>2, <2>7, <2>1
    <3> QED BY <1>4, <2>4, <2>7, <3>1, <3>2 DEF Owned, Settle
  <2> QED BY <2>3, <2>4, <2>8
<1>5. ASSUME NEW a \in Asks, SourceEnds(a) PROVE Kept'
  BY <1>4, <1>5 DEF SourceEnds, Running, ClientFaults
<1>6. ASSUME NEW a \in Asks, SourceThrows(a) PROVE Kept'
  BY <1>4, <1>6 DEF SourceThrows, Running, ClientFaults
<1>7. ASSUME NEW a \in Asks, TimerFires(a) PROVE Kept'
  BY <1>7 DEF TimerFires, screen, CallsTyped, Latched, Owned, Running, Timers
<1>8. ASSUME UNCHANGED <<log, isStreaming, controller, inFlight, timedOut, at, sent, timer>>
      PROVE  Kept'
  BY <1>8 DEF CallsTyped, Latched, Owned, Running
<1>9. ASSUME Render \/ FanOutSettles PROVE Kept'
  BY <1>8, <1>9 DEF Render, FanOutSettles, page, calls
<1>10. ASSUME Back \/ UNCHANGED vars PROVE Kept'
  BY <1>8, <1>10 DEF Back, vars, page, calls
<1> QED BY <1>1, <1>2, <1>3, <1>5, <1>6, <1>7, <1>9, <1>10 DEF Next

\* For any number of queries the latch, the calls and the log agree (runQuery).
THEOREM KeptAlways == Spec => []Kept
BY KeptInit, KeptNext, PTL DEF Spec

\* For any number of queries, clicks and trips back: the page streams exactly
\* while one call is under way, and the log is that call's (inFlightRef).
THEOREM OneRunCorrect == Spec => []OneRunAtATime
<1>1. Kept => OneRunAtATime
  BY DEF Kept, Latched, Owned, OneRunAtATime
<1> QED BY <1>1, KeptAlways, PTL

\* For any number of queries a timeout is reported only for the call whose own
\* ninety seconds are over (timedOutRef and the clearing of the timers).
THEOREM TimeoutCorrect == Spec => []TimeoutIsOwn
<1>1. Kept => TimeoutIsOwn
  BY DEF Kept, Owned, TimeoutIsOwn
<1> QED BY <1>1, KeptAlways, PTL

----------------------------------------------------------------------------
\* Induction, and what a fold of the log computes.

\* A set of naturals has a least member: their order is well-founded.
LEMMA LeastNatural ==
  ASSUME NEW T, T \subseteq Nat, T # {}
  PROVE  \E m \in T : \A k \in T : m <= k
<1> DEFINE R == OpToRel(<, Nat)
<1>1. IsWellFoundedOn(R, Nat)
  BY NatLessThanWellFounded
<1> HIDE DEF R
<1>2. PICK m \in T : \A k \in T : <<k, m>> \notin R
  BY <1>1, WFMin
<1>3. ASSUME NEW k \in T PROVE m <= k
  <2>1. <<k, m>> \notin R
    BY <1>2
  <2> QED BY <2>1 DEF R, OpToRel
<1> QED BY <1>3

\* Induction over the naturals, by the set of which they are to be members.
LEMMA InductionBySet ==
  ASSUME NEW G, 0 \in G, \A n \in Nat : n \in G => n + 1 \in G
  PROVE  \A n \in Nat : n \in G
<1> SUFFICES ASSUME NEW n \in Nat, n \notin G PROVE FALSE
  OBVIOUS
<1> DEFINE T == {k \in Nat : k \notin G}
<1>1. PICK m \in T : \A k \in T : m <= k
  <2>1. T # {} /\ T \subseteq Nat
    OBVIOUS
  <2> HIDE DEF T
  <2> QED BY <2>1, LeastNatural
<1>2. m - 1 \in Nat /\ m - 1 \notin T
  BY <1>1
<1> QED BY <1>2

\* The CHOOSE of Max and of Min finds what it looks for in a set of positions.
LEMMA MaxIsTop ==
  ASSUME NEW k \in Nat, NEW T, T \subseteq 1 .. k, k \in T
  PROVE  Max(T) = k
<1>1. \A y \in T : k >= y
  OBVIOUS
<1>2. \A x \in T : (\A y \in T : x >= y) => x = k
  OBVIOUS
<1> DEFINE M == CHOOSE x \in T : \A y \in T : x >= y
<1>3. M \in T /\ \A y \in T : M >= y
  BY <1>1
<1> QED BY <1>2, <1>3, Zenon DEF Max

LEMMA MaxWithin ==
  ASSUME NEW k \in Nat, NEW T \in SUBSET (1 .. k), T # {}
  PROVE  Max(T) \in T
<1> DEFINE U == {k - i : i \in T}
<1>1. \A i \in T : i \in Nat /\ k - i \in Nat /\ k - i \in U
  <2>1. \A i \in 1 .. k : i \in Nat /\ k - i \in Nat
    OBVIOUS
  <2> QED BY <2>1
<1>2. PICK m \in U : \A j \in U : m <= j
  <2>1. U \subseteq Nat /\ U # {}
    BY <1>1
  <2> HIDE DEF U
  <2> QED BY <2>1, LeastNatural
<1>3. PICK x \in T : m = k - x
  BY <1>2
<1>4. \A y \in T : k - x <= k - y
  BY <1>1, <1>2, <1>3
<1>5. \A y \in T : x >= y
  BY <1>1, <1>4
<1> QED BY <1>5, Zenon DEF Max

LEMMA MinWithin ==
  ASSUME NEW k \in Nat, NEW T \in SUBSET (1 .. k), T # {}
  PROVE  Min(T) \in T
<1>1. PICK m \in T : \A j \in T : m <= j
  <2>1. T \subseteq Nat
    OBVIOUS
  <2> QED BY <2>1, LeastNatural
<1> QED BY <1>1, Zenon DEF Min

\* The fold is computed from the left: some f gives its value after each event.
FoldSteps(f, st, s, n) ==
  /\ f = [k \in 0 .. n |-> f[k]]
  /\ f[0] = st
  /\ \A k \in 1 .. n : f[k] = Reduce(f[k - 1], s[k])

\* The equation of the fold over sets of positions that FoldLeft is built on.
Iterates(g, S, st, s) ==
  g = [T \in SUBSET S |-> IF T = {} THEN st ELSE Reduce(g[T \ {Max(T)}], s[Max(T)])]

\* The equation has a solution for any length: one over 1 .. k extends to k + 1.
LEMMA IterateExists ==
  ASSUME NEW st, NEW s, NEW n \in Nat
  PROVE  \E g : Iterates(g, 1 .. n, st, s)
<1> DEFINE G == {k \in Nat : \E g : Iterates(g, 1 .. k, st, s)}
<1>1. 0 \in G
  <2> DEFINE g == [T \in SUBSET (1 .. 0) |-> st]
  <2>1. Iterates(g, 1 .. 0, st, s)
    BY DEF Iterates
  <2> QED BY <2>1
<1>2. ASSUME NEW k \in Nat, k \in G PROVE k + 1 \in G
  <2>1. PICK g : Iterates(g, 1 .. k, st, s)
    BY <1>2
  <2> DEFINE h == [T \in SUBSET (1 .. k + 1) |->
                     IF k + 1 \in T THEN Reduce(g[T \ {k + 1}], s[k + 1]) ELSE g[T]]
             val(T) == IF T = {} THEN st ELSE Reduce(h[T \ {Max(T)}], s[Max(T)])
  <2>2. ASSUME NEW T \in SUBSET (1 .. k + 1) PROVE h[T] = val(T)
    <3>1. CASE k + 1 \in T
      <4>1. Max(T) = k + 1
        <5>1. k + 1 \in Nat /\ T \subseteq 1 .. k + 1
          OBVIOUS
        <5> QED BY <3>1, <5>1, MaxIsTop
      <4>2. T \ {k + 1} \in SUBSET (1 .. k + 1) /\ k + 1 \notin T \ {k + 1} /\ T # {}
        BY <3>1
      <4>3. h[T \ {k + 1}] = g[T \ {k + 1}]
        BY <4>2
      <4>4. h[T] = Reduce(g[T \ {k + 1}], s[k + 1])
        BY <3>1
      <4> HIDE DEF h
      <4> QED BY <4>1, <4>2, <4>3, <4>4
    <3>2. CASE k + 1 \notin T
      <4>1. T \in SUBSET (1 .. k)
        BY <3>2
      <4>2. h[T] = g[T]
        BY <3>2
      <4>3. CASE T = {}
        BY <4>1, <4>2, <4>3, <2>1 DEF Iterates
      <4>4. CASE T # {}
        <5>1. Max(T) \in T /\ k + 1 # Max(T)
          BY <4>1, <4>4, <3>2, MaxWithin
        <5>2. T \ {Max(T)} \in SUBSET (1 .. k) /\ k + 1 \notin T \ {Max(T)}
          BY <4>1, <3>2
        <5>3. h[T \ {Max(T)}] = g[T \ {Max(T)}]
          BY <5>2
        <5>4. g[T] = Reduce(g[T \ {Max(T)}], s[Max(T)])
          BY <2>1, <4>1, <4>4 DEF Iterates
        <5> HIDE DEF h
        <5> QED BY <4>2, <4>4, <5>3, <5>4
      <4> QED BY <4>3, <4>4
    <3> QED BY <3>1, <3>2
  <2>3. Iterates(h, 1 .. k + 1, st, s)
    <3>1. h = [T \in SUBSET (1 .. k + 1) |-> h[T]]
      OBVIOUS
    <3> HIDE DEF h
    <3> QED BY <2>2, <3>1 DEF Iterates
  <2> QED BY <2>3
<1> HIDE DEF G
<1>3. n \in G
  BY <1>1, <1>2, InductionBySet
<1> QED BY <1>3 DEF G

\* The recursive function of the community fold is one of these iterations, so
\* FoldLeft returns the last value computed from the left.
LEMMA FoldDef ==
  ASSUME NEW st, NEW s, NEW n \in Nat, DOMAIN s = 1 .. n
  PROVE  \E f : FoldSteps(f, st, s, n) /\ FoldLeft(Reduce, st, s) = f[n]
<1>1. PICK g : Iterates(g, 1 .. n, st, s) /\ FoldLeft(Reduce, st, s) = g[1 .. n]
  <2> DEFINE g[T \in SUBSET (DOMAIN s)] ==
               IF T = {} THEN st ELSE Reduce(g[T \ {Max(T)}], s[Max(T)])
  <2>1. PICK h : Iterates(h, DOMAIN s, st, s)
    BY IterateExists
  <2>2. g = [T \in SUBSET (DOMAIN s) |->
               IF T = {} THEN st ELSE Reduce(g[T \ {Max(T)}], s[Max(T)])]
    BY <2>1, Zenon DEF Iterates
  <2>3. FoldLeft(Reduce, st, s) = g[DOMAIN s]
    BY Zenon DEF FoldLeft, MapThenFoldSet
  <2> HIDE DEF g
  <2> QED BY <2>2, <2>3 DEF Iterates
<1> DEFINE f == [k \in 0 .. n |-> g[1 .. k]]
<1>2. f[0] = st
  <2>1. 1 .. 0 = {} /\ {} \in SUBSET (1 .. n)
    OBVIOUS
  <2> QED BY <1>1, <2>1 DEF Iterates
<1>3. ASSUME NEW k \in 1 .. n PROVE f[k] = Reduce(f[k - 1], s[k])
  <2>1. 1 .. k \in SUBSET (1 .. n) /\ k - 1 \in 0 .. n /\ k \in 0 .. n
    OBVIOUS
  <2>2. k \in 1 .. k /\ 1 .. k # {}
    OBVIOUS
  <2>3. Max(1 .. k) = k
    BY <2>2, MaxIsTop
  <2>4. (1 .. k) \ {k} = 1 .. k - 1
    OBVIOUS
  <2>5. g[1 .. k] = Reduce(g[(1 .. k) \ {Max(1 .. k)}], s[Max(1 .. k)])
    BY <1>1, <2>1, <2>2 DEF Iterates
  <2>6. f[k] = g[1 .. k] /\ f[k - 1] = g[1 .. k - 1]
    BY <2>1
  <2> QED BY <2>3, <2>4, <2>5, <2>6
<1>4. f[n] = g[1 .. n] /\ f = [k \in 0 .. n |-> f[k]]
  OBVIOUS
<1> HIDE DEF f
<1> QED BY <1>1, <1>2, <1>3, <1>4 DEF FoldSteps

----------------------------------------------------------------------------
\* Drawings, and the nodes that pulse in one.
Vizes ==
  [nodes : [NodeNames -> Statuses], edge : SUBSET Edges, drawn : SUBSET Edges,
   retry : BOOLEAN, fanOut : {"idle", "fanned", "collapsing"},
   interrupt : SUBSET Events, completed : SUBSET Events, error : SUBSET Events]

ActiveNodes(v) == {n \in NodeNames : v.nodes[n] = "active"}

\* NodeOrder names six nodes, each once.
LEMMA NamesInOrder ==
  /\ NodeNames = {"planner", "retriever", "reranker", "generator", "critic", "hitl_gate"}
  /\ DOMAIN NodeOrder = 1 .. 6
  /\ \A i \in 1 .. 6 : NodeOrder[i] \in NodeNames
  /\ \A i, j \in 1 .. 6 : NodeOrder[i] = NodeOrder[j] => i = j
  /\ \A n \in NodeNames : Rank(n) \in 1 .. 6
<1>1. DOMAIN NodeOrder = 1 .. 6
  BY DEF NodeOrder
<1>2. /\ NodeOrder[1] = "planner" /\ NodeOrder[2] = "retriever" /\ NodeOrder[3] = "reranker"
      /\ NodeOrder[4] = "generator" /\ NodeOrder[5] = "critic" /\ NodeOrder[6] = "hitl_gate"
  BY DEF NodeOrder
<1>3. 1 .. 6 = {1, 2, 3, 4, 5, 6}
  OBVIOUS
<1>4. NodeNames = {"planner", "retriever", "reranker", "generator", "critic", "hitl_gate"}
  BY <1>1, <1>2, <1>3 DEF NodeNames, Range
<1>5. \A i \in 1 .. 6 : NodeOrder[i] \in NodeNames
  BY <1>2, <1>3, <1>4
<1>6. \A i, j \in 1 .. 6 : NodeOrder[i] = NodeOrder[j] => i = j
  BY <1>2, <1>3
<1>7. ASSUME NEW n \in NodeNames PROVE Rank(n) \in 1 .. 6
  <2>1. \E i \in DOMAIN NodeOrder : NodeOrder[i] = n
    BY DEF NodeNames, Range
  <2> QED BY <1>1, <2>1 DEF Rank
<1> QED BY <1>1, <1>4, <1>5, <1>6, <1>7

\* What an event may be.
LEMMA EventTypes ==
  ASSUME NEW e \in Events
  PROVE  /\ e.type \in {"started", "node_started", "node_completed", "retry_loop",
                        "interrupted", "completed", "error"}
         /\ e.type \in {"node_started", "node_completed"} => e.of \in NodeNames
         /\ e.ask \in Asks
<1>1. PICK a \in Asks, body \in Bodies : e = Logged(a, body)
  BY DEF Events
<1> QED BY <1>1 DEF Bodies, Logged

\* One node drawn otherwise, and the parts of a drawing.
LEMMA NodesChanged ==
  ASSUME NEW v \in Vizes, NEW n \in NodeNames, NEW status \in Statuses
  PROVE  [v.nodes EXCEPT ![n] = status] \in [NodeNames -> Statuses]
<1>1. v.nodes \in [NodeNames -> Statuses]
  BY DEF Vizes
<1> QED BY <1>1

LEMMA VizParts ==
  ASSUME NEW v \in Vizes
  PROVE  /\ v.nodes \in [NodeNames -> Statuses] /\ v.edge \in SUBSET Edges
         /\ v.drawn \in SUBSET Edges /\ v.fanOut \in {"idle", "fanned", "collapsing"}
BY DEF Vizes

\* graphReducer turns a drawing into a drawing.
LEMMA ReduceType ==
  ASSUME NEW v \in Vizes, NEW e \in Events
  PROVE  Reduce(v, e) \in Vizes
<1>1. CASE e.type = "started"
  <2>1. InitialViz \in Vizes
    BY DEF InitialViz, Vizes, Statuses
  <2> QED BY <1>1, <2>1 DEF Reduce, OnStarted
<1>2. CASE e.type = "node_started"
  <2>1. e.of \in NodeNames
    BY <1>2, EventTypes
  <2> DEFINE before == CompletedBefore(v, e.of)
  <2>2. before # {} => <<NodeOrder[Max(before)], e.of>> \in Edges
    <3>1. SUFFICES ASSUME before # {} PROVE <<NodeOrder[Max(before)], e.of>> \in Edges
      OBVIOUS
    <3>2. before \in SUBSET (1 .. 5)
      BY <2>1, NamesInOrder DEF CompletedBefore
    <3>3. Max(before) \in before
      <4> HIDE DEF before
      <4> QED BY <3>1, <3>2, MaxWithin
    <3>4. Max(before) \in 1 .. 6
      BY <3>2, <3>3
    <3> QED BY <2>1, <3>4, NamesInOrder DEF Edges
  <2>3. Reduce(v, e) =
          [v EXCEPT !.nodes[e.of] = "active",
                    !.edge = IF before = {} THEN @ ELSE {<<NodeOrder[Max(before)], e.of>>}]
    BY <1>2 DEF Reduce, OnNodeStarted
  <2>4. [v.nodes EXCEPT ![e.of] = "active"] \in [NodeNames -> Statuses]
    BY <2>1, NodesChanged DEF Statuses
  <2> DEFINE nodes == [v.nodes EXCEPT ![e.of] = "active"]
             edge  == IF before = {} THEN v.edge ELSE {<<NodeOrder[Max(before)], e.of>>}
  <2>5. edge \in SUBSET Edges
    BY <2>2, VizParts
  <2>6. Reduce(v, e) = [v EXCEPT !.nodes = nodes, !.edge = edge]
    BY <2>3
  <2>7. nodes \in [NodeNames -> Statuses]
    BY <2>4
  <2> HIDE DEF nodes, edge
  <2> QED BY <2>5, <2>6, <2>7 DEF Vizes
<1>3. CASE e.type = "node_completed"
  <2>1. e.of \in NodeNames
    BY <1>3, EventTypes
  <2>2. Reduce(v, e) = OnNodeCompleted(v, e.of)
    BY <1>3 DEF Reduce
  <2>3. [v.nodes EXCEPT ![e.of] = "completed"] \in [NodeNames -> Statuses]
    BY <2>1, NodesChanged DEF Statuses
  <2> DEFINE nodes == [v.nodes EXCEPT ![e.of] = "completed"]
             fan   == CASE e.of = "retriever" -> "fanned"
                        [] e.of = "reranker"  -> "collapsing"
                        [] OTHER              -> v.fanOut
             drawn == v.drawn \cup v.edge
  <2>4. fan \in {"idle", "fanned", "collapsing"} /\ drawn \in SUBSET Edges
    BY VizParts
  <2>5. Reduce(v, e) = [v EXCEPT !.nodes = nodes, !.fanOut = fan, !.drawn = drawn]
    BY <2>2 DEF OnNodeCompleted
  <2>6. nodes \in [NodeNames -> Statuses]
    BY <2>3
  <2> HIDE DEF nodes, fan, drawn
  <2> QED BY <2>4, <2>5, <2>6 DEF Vizes
<1>4. CASE e.type = "retry_loop"
  BY <1>4 DEF Reduce, Vizes
<1>5. CASE e.type = "interrupted"
  <2>1. Reduce(v, e) = OnInterrupted(v, e)
    BY <1>5 DEF Reduce
  <2>2. \A status \in Statuses :
          [v.nodes EXCEPT !["hitl_gate"] = status] \in [NodeNames -> Statuses]
    BY NodesChanged, NamesInOrder
  <2>3. "abstain" \in Statuses /\ "pending_review" \in Statuses
    BY DEF Statuses
  <2> DEFINE nodes == [v.nodes EXCEPT !["hitl_gate"] =
                         IF e.of \in {"out_of_scope", "abstained"} THEN "abstain" ELSE "pending_review"]
  <2>4. nodes \in [NodeNames -> Statuses]
    BY <2>2, <2>3
  <2>5. Reduce(v, e) = [v EXCEPT !.interrupt = {e}, !.nodes = nodes]
    BY <2>1 DEF OnInterrupted
  <2>6. {e} \in SUBSET Events
    OBVIOUS
  <2> HIDE DEF nodes
  <2> QED BY <2>4, <2>5, <2>6 DEF Vizes
<1>6. CASE e.type = "completed"
  <2>1. Reduce(v, e) = OnCompleted(v, e)
    BY <1>6 DEF Reduce
  <2>2. [v.nodes EXCEPT !["hitl_gate"] = "completed"] \in [NodeNames -> Statuses]
    BY NodesChanged, NamesInOrder DEF Statuses
  <2> DEFINE nodes == [v.nodes EXCEPT !["hitl_gate"] = "completed"]
  <2>3. Reduce(v, e) = [v EXCEPT !.completed = {e}, !.nodes = nodes]
    BY <2>1 DEF OnCompleted
  <2>4. nodes \in [NodeNames -> Statuses]
    BY <2>2
  <2>5. {e} \in SUBSET Events
    OBVIOUS
  <2> HIDE DEF nodes
  <2> QED BY <2>3, <2>4, <2>5 DEF Vizes
<1>7. CASE e.type = "error"
  <2> DEFINE active == {i \in DOMAIN NodeOrder : v.nodes[NodeOrder[i]] = "active"}
  <2>1. Reduce(v, e) =
          [v EXCEPT !.error = {e},
                    !.nodes = IF active = {} THEN @ ELSE [@ EXCEPT ![NodeOrder[Min(active)]] = "error"]]
    BY <1>7 DEF Reduce, OnError
  <2>2. active # {} => NodeOrder[Min(active)] \in NodeNames
    <3>1. active \in SUBSET (1 .. 6)
      BY NamesInOrder
    <3> HIDE DEF active
    <3> QED BY <3>1, MinWithin, NamesInOrder
  <2>3. active # {} =>
          [v.nodes EXCEPT ![NodeOrder[Min(active)]] = "error"] \in [NodeNames -> Statuses]
    BY <2>2, NodesChanged DEF Statuses
  <2> DEFINE nodes == IF active = {} THEN v.nodes
                      ELSE [v.nodes EXCEPT ![NodeOrder[Min(active)]] = "error"]
  <2>4. nodes \in [NodeNames -> Statuses]
    BY <2>3, VizParts
  <2>5. Reduce(v, e) = [v EXCEPT !.error = {e}, !.nodes = nodes]
    BY <2>1
  <2>6. {e} \in SUBSET Events
    OBVIOUS
  <2> HIDE DEF nodes
  <2> QED BY <2>4, <2>5, <2>6 DEF Vizes
<1> QED BY EventTypes, <1>1, <1>2, <1>3, <1>4, <1>5, <1>6, <1>7

\* An event changes what is drawn alike, whatever the fan-out animation shows.
LEMMA ReduceSettled ==
  ASSUME NEW v \in Vizes, NEW w \in Vizes, NEW e \in Events, Settled(v) = Settled(w)
  PROVE  Settled(Reduce(v, e)) = Settled(Reduce(w, e))
<1>1. /\ v.nodes = w.nodes /\ v.edge = w.edge /\ v.drawn = w.drawn /\ v.retry = w.retry
      /\ v.interrupt = w.interrupt /\ v.completed = w.completed /\ v.error = w.error
  BY DEF Settled, Vizes
<1>2. Reduce(v, e) \in Vizes /\ Reduce(w, e) \in Vizes
  BY ReduceType
<1>3. ASSUME NEW x \in Vizes, NEW y \in Vizes,
             x.nodes = y.nodes, x.edge = y.edge, x.drawn = y.drawn, x.retry = y.retry,
             x.interrupt = y.interrupt, x.completed = y.completed, x.error = y.error
      PROVE  Settled(x) = Settled(y)
  BY <1>3 DEF Settled, Vizes
<1>4. CompletedBefore(v, e.of) = CompletedBefore(w, e.of)
  BY <1>1 DEF CompletedBefore
<1>5. e.type \in {"started", "node_started", "node_completed", "retry_loop",
                  "interrupted", "completed", "error"}
  BY EventTypes
<1>6. LET x == Reduce(v, e)  y == Reduce(w, e)
      IN  /\ x.nodes = y.nodes /\ x.edge = y.edge /\ x.drawn = y.drawn /\ x.retry = y.retry
          /\ x.interrupt = y.interrupt /\ x.completed = y.completed /\ x.error = y.error
  <2>1. CASE e.type = "started"
    BY <2>1 DEF Reduce, OnStarted
  <2>2. CASE e.type = "node_started"
    BY <2>2, <1>1, <1>4 DEF Reduce, OnNodeStarted, Vizes
  <2>3. CASE e.type = "node_completed"
    BY <2>3, <1>1 DEF Reduce, OnNodeCompleted, Vizes
  <2>4. CASE e.type = "retry_loop"
    BY <2>4, <1>1 DEF Reduce, Vizes
  <2>5. CASE e.type = "interrupted"
    BY <2>5, <1>1 DEF Reduce, OnInterrupted, Vizes
  <2>6. CASE e.type = "completed"
    BY <2>6, <1>1 DEF Reduce, OnCompleted, Vizes
  <2>7. CASE e.type = "error"
    <3> DEFINE broken(x) == {i \in DOMAIN NodeOrder : x.nodes[NodeOrder[i]] = "active"}
               marked(x) == IF broken(x) = {} THEN x.nodes
                            ELSE [x.nodes EXCEPT ![NodeOrder[Min(broken(x))]] = "error"]
    <3>1. marked(v) = marked(w)
      <4>1. broken(v) = broken(w)
        BY <1>1
      <4> QED BY <1>1, <4>1
    <3>2. /\ Reduce(v, e) = [v EXCEPT !.error = {e}, !.nodes = marked(v)]
          /\ Reduce(w, e) = [w EXCEPT !.error = {e}, !.nodes = marked(w)]
      BY <2>7 DEF Reduce, OnError
    <3> HIDE DEF marked
    <3> QED BY <1>1, <3>1, <3>2 DEF Vizes
  <2> QED BY <1>5, <2>1, <2>2, <2>3, <2>4, <2>5, <2>6, <2>7
<1> QED BY <1>2, <1>3, <1>6

\* What holds of the first value, and goes on holding from event to event, holds
\* of what the fold returns.
LEMMA FoldThrough ==
  ASSUME NEW st, NEW n \in Nat, NEW s, DOMAIN s = 1 .. n, NEW J,
         st \in J[0],
         \A k \in 1 .. n : \A x \in J[k - 1] : Reduce(x, s[k]) \in J[k]
  PROVE  FoldLeft(Reduce, st, s) \in J[n]
<1>1. PICK f : FoldSteps(f, st, s, n) /\ FoldLeft(Reduce, st, s) = f[n]
  BY FoldDef
<1> DEFINE G == {k \in Nat : k <= n => f[k] \in J[k]}
<1>2. 0 \in G
  BY <1>1 DEF FoldSteps
<1>3. ASSUME NEW k \in Nat, k \in G PROVE k + 1 \in G
  <2>1. SUFFICES ASSUME k + 1 <= n PROVE f[k + 1] \in J[k + 1]
    OBVIOUS
  <2>2. k + 1 \in 1 .. n /\ (k + 1) - 1 = k
    BY <2>1
  <2>3. f[k + 1] = Reduce(f[(k + 1) - 1], s[k + 1])
    BY <1>1, <2>2 DEF FoldSteps
  <2>4. f[k] \in J[k]
    BY <1>3, <2>1
  <2>5. Reduce(f[(k + 1) - 1], s[k + 1]) \in J[k + 1]
    BY <2>2, <2>4
  <2> QED BY <2>3, <2>5
<1> HIDE DEF G
<1>4. n \in G
  BY <1>2, <1>3, InductionBySet
<1> QED BY <1>1, <1>4 DEF G

\* The drawing of a log's beginning is a stage of the drawing of the log.
LEMMA FoldOfPrefix ==
  ASSUME NEW s \in Seq(Events), NEW f, FoldSteps(f, InitialViz, s, Len(s)),
         NEW m \in 0 .. Len(s)
  PROVE  FoldLeft(Reduce, InitialViz, SubSeq(s, 1, m)) = f[m]
<1> DEFINE t == SubSeq(s, 1, m)
           J == [k \in 0 .. m |-> {f[k]}]
<1>1. m \in Nat /\ DOMAIN t = 1 .. m /\ \A k \in 1 .. m : t[k] = s[k]
  OBVIOUS
<1>2. InitialViz \in J[0]
  BY DEF FoldSteps
<1>3. ASSUME NEW k \in 1 .. m, NEW x \in J[k - 1] PROVE Reduce(x, t[k]) \in J[k]
  <2>1. x = f[k - 1] /\ k \in 1 .. Len(s) /\ J[k] = {f[k]}
    BY <1>3
  <2>2. f[k] = Reduce(f[k - 1], s[k])
    BY <2>1 DEF FoldSteps
  <2> QED BY <1>1, <2>1, <2>2
<1>4. J[m] = {f[m]}
  OBVIOUS
<1> HIDE DEF t, J
<1>5. FoldLeft(Reduce, InitialViz, t) \in J[m]
  BY <1>1, <1>2, <1>3, FoldThrough
<1> QED BY <1>4, <1>5 DEF t

\* Every stage is a drawing.
LEMMA FoldTyped ==
  ASSUME NEW st \in Vizes, NEW s \in Seq(Events)
  PROVE  FoldLeft(Reduce, st, s) \in Vizes
<1> DEFINE J == [k \in 0 .. Len(s) |-> Vizes]
<1>1. Len(s) \in Nat /\ DOMAIN s = 1 .. Len(s) /\ \A k \in 1 .. Len(s) : s[k] \in Events
  OBVIOUS
<1>2. \A k \in 0 .. Len(s) : J[k] = Vizes
  OBVIOUS
<1> HIDE DEF J
<1>3. \A k \in 1 .. Len(s) : \A x \in J[k - 1] : Reduce(x, s[k]) \in J[k]
  BY <1>1, <1>2, ReduceType
<1>4. st \in J[0]
  BY <1>1, <1>2
<1>5. FoldLeft(Reduce, st, s) \in J[Len(s)]
  BY <1>1, <1>3, <1>4, FoldThrough
<1> QED BY <1>1, <1>2, <1>5

\* Nothing is at work in the first drawing.
LEMMA InitialTyped == InitialViz \in Vizes /\ ActiveNodes(InitialViz) = {}
<1>1. InitialViz \in Vizes
  BY DEF InitialViz, Vizes, Statuses
<1>2. \A n \in NodeNames : InitialViz.nodes[n] = "idle"
  BY DEF InitialViz
<1> QED BY <1>1, <1>2 DEF ActiveNodes

\* The stages of a log's drawing are drawings.
LEMMA StagesTyped ==
  ASSUME NEW s \in Seq(Events), NEW f, FoldSteps(f, InitialViz, s, Len(s)), NEW m \in 0 .. Len(s)
  PROVE  f[m] \in Vizes
<1>1. SubSeq(s, 1, m) \in Seq(Events)
  OBVIOUS
<1> QED BY <1>1, FoldOfPrefix, FoldTyped, InitialTyped

----------------------------------------------------------------------------
\* What one event does to the nodes at work and to the panel's events.

LEMMA ActiveAfter ==
  ASSUME NEW v \in Vizes, NEW e \in Events
  PROVE  /\ e.type = "started" => ActiveNodes(Reduce(v, e)) = {}
         /\ e.type = "node_started" => ActiveNodes(Reduce(v, e)) = ActiveNodes(v) \cup {e.of}
         /\ e.type = "node_completed" => ActiveNodes(Reduce(v, e)) = ActiveNodes(v) \ {e.of}
         /\ e.type = "retry_loop" => ActiveNodes(Reduce(v, e)) = ActiveNodes(v)
         /\ e.type \in {"interrupted", "completed"} =>
              ActiveNodes(Reduce(v, e)) = ActiveNodes(v) \ {"hitl_gate"}
         /\ e.type = "error" /\ (\A m, n \in ActiveNodes(v) : m = n) =>
              ActiveNodes(Reduce(v, e)) = {}
<1>1. e.type \in {"node_started", "node_completed"} => e.of \in NodeNames
  BY EventTypes
<1>2. "hitl_gate" \in NodeNames
  BY NamesInOrder
<1>3. CASE e.type = "started"
  BY <1>3, InitialTyped DEF Reduce, OnStarted
<1>4. CASE e.type = "node_started"
  BY <1>1, <1>4 DEF Reduce, OnNodeStarted, ActiveNodes, Vizes
<1>5. CASE e.type = "node_completed"
  BY <1>1, <1>5 DEF Reduce, OnNodeCompleted, ActiveNodes, Vizes
<1>6. CASE e.type = "retry_loop"
  BY <1>6 DEF Reduce, ActiveNodes, Vizes
<1>7. CASE e.type = "interrupted"
  BY <1>2, <1>7 DEF Reduce, OnInterrupted, ActiveNodes, Vizes
<1>8. CASE e.type = "completed"
  BY <1>2, <1>8 DEF Reduce, OnCompleted, ActiveNodes, Vizes
<1>9. CASE e.type = "error"
  <2> DEFINE active == {i \in DOMAIN NodeOrder : v.nodes[NodeOrder[i]] = "active"}
             marked == IF active = {} THEN v.nodes
                       ELSE [v.nodes EXCEPT ![NodeOrder[Min(active)]] = "error"]
  <2>1. Reduce(v, e).nodes = marked
    BY <1>9 DEF Reduce, OnError, Vizes
  <2>2. SUFFICES ASSUME \A m, n \in ActiveNodes(v) : m = n,
                        NEW n \in NodeNames, marked[n] = "active"
                 PROVE  FALSE
    BY <1>9, <2>1 DEF ActiveNodes
  <2>3. PICK i \in 1 .. 6 : NodeOrder[i] = n
    BY NamesInOrder DEF NodeNames, Range
  <2>4. CASE active = {}
    BY <2>2, <2>3, <2>4, NamesInOrder
  <2>5. CASE active # {}
    <3>1. Min(active) \in active
      <4>1. active \in SUBSET (1 .. 6)
        BY NamesInOrder
      <4> HIDE DEF active
      <4> QED BY <2>5, <4>1, MinWithin
    <3>2. NodeOrder[Min(active)] \in ActiveNodes(v)
      BY <3>1, NamesInOrder DEF ActiveNodes
    <3>3. v.nodes \in [NodeNames -> Statuses]
      BY VizParts
    <3>4. n # NodeOrder[Min(active)] /\ v.nodes[n] = "active"
      <4>1. marked = [v.nodes EXCEPT ![NodeOrder[Min(active)]] = "error"]
        BY <2>5
      <4> HIDE DEF active, marked
      <4> QED BY <2>2, <3>3, <4>1
    <3> QED BY <2>2, <3>2, <3>4 DEF ActiveNodes
  <2> QED BY <2>4, <2>5
<1> QED BY <1>3, <1>4, <1>5, <1>6, <1>7, <1>8, <1>9, EventTypes

LEMMA PanelAfter ==
  ASSUME NEW v \in Vizes, NEW e \in Events
  PROVE  LET x == Reduce(v, e)
         IN  /\ x.interrupt \subseteq v.interrupt \cup {e}
             /\ x.completed \subseteq v.completed \cup {e}
             /\ x.error \subseteq v.error \cup {e}
             /\ e.type = "interrupted" => e \in x.interrupt
             /\ e.type = "completed" => e \in x.completed
             /\ e.type = "error" => x.error = {e}
<1>1. CASE e.type = "started"
  BY <1>1 DEF Reduce, OnStarted, InitialViz, Vizes
<1>2. CASE e.type = "node_started"
  BY <1>2 DEF Reduce, OnNodeStarted, Vizes
<1>3. CASE e.type = "node_completed"
  BY <1>3 DEF Reduce, OnNodeCompleted, Vizes
<1>4. CASE e.type = "retry_loop"
  BY <1>4 DEF Reduce, Vizes
<1>5. CASE e.type = "interrupted"
  BY <1>5 DEF Reduce, OnInterrupted, Vizes
<1>6. CASE e.type = "completed"
  BY <1>6 DEF Reduce, OnCompleted, Vizes
<1>7. CASE e.type = "error"
  BY <1>7 DEF Reduce, OnError, Vizes
<1> QED BY <1>1, <1>2, <1>3, <1>4, <1>5, <1>6, <1>7, EventTypes

----------------------------------------------------------------------------
\* The log's order, the calls' ends and the drawing.

Verdict == {"interrupted", "completed", "error"}

\* A run is told from its start, one node at a time; a log that begins with an
\* error tells of errors only.
Ordered(s) ==
  /\ s # <<>> => s[1].type \in {"started", "error"}
  /\ s # <<>> /\ s[1].type = "error" => \A i \in DOMAIN s : s[i].type = "error"
  /\ \A i \in DOMAIN s \ {1} :
       /\ s[i].type # "started"
       /\ s[i - 1].type = "node_started" =>
            \/ s[i].type = "error"
            \/ s[i].type = "node_completed" /\ s[i].of = s[i - 1].of

\* What the call under way yielded last is what was logged last.
Told ==
  \A a \in Asks : IF a \in Running /\ log # <<>> THEN log[Len(log)] = Logged(a, sent[a])
                  ELSE sent[a] = Silence

\* Only calls that were made are aborted, and one under way by its timer alone.
CutOff ==
  /\ aborted \cup controller \subseteq {a \in Asks : at[a] # "unasked"}
  /\ \A a \in Running \cap aborted : timedOut /\ at[a] # "replaying"

\* The graph is on the screen since a query, and no call leaves its log open.
Concluded ==
  /\ hasStarted \in BOOLEAN
  /\ hasStarted => controller # {}
  /\ ~isStreaming /\ controller # {} => log # <<>> /\ log[Len(log)].type \in Verdict

\* The screen shows what of the log was rendered, or, before any of it was, what
\* a log before it left there; either way one node is at work at most.
Drawn ==
  /\ viz \in Vizes
  /\ applied \in 0 .. Len(log)
  /\ \A m, n \in ActiveNodes(viz) : m = n
  /\ applied > 0 /\ log[1].type = "started" =>
       Settled(viz) = Settled(FoldLeft(Reduce, InitialViz, SubSeq(log, 1, applied)))
  /\ applied > 0 /\ log[1].type = "error" =>
       viz.error = {log[applied]} /\ ActiveNodes(viz) = {}

Sound == Ordered(log) /\ Told /\ CutOff /\ Concluded /\ Drawn

\* The first page is sound.
LEMMA SoundInit == Init => Sound
<1> SUFFICES ASSUME Init PROVE Sound
  OBVIOUS
<1>1. Running = {} /\ log = <<>> /\ DOMAIN log = {} /\ Len(log) = 0
  BY DEF Init, Running
<1>2. Ordered(log)
  BY <1>1 DEF Ordered
<1>3. Told /\ CutOff /\ Concluded
  BY <1>1 DEF Init, Told, CutOff, Concluded
<1>4. Drawn
  BY <1>1, InitialTyped DEF Init, Drawn
<1> QED BY <1>2, <1>3, <1>4 DEF Sound

\* What may come after an event.
LEMMA WireOrder ==
  ASSUME NEW last \in Bodies \cup {Silence}, NEW body \in Bodies,
         body \in NextOnWire(last) \/ body \in NextInFixture(last)
  PROVE  /\ last = Silence => body.type \in {"started", "error"}
         /\ last # Silence => body.type # "started"
         /\ last.type = "node_started" =>
              body.type = "error" \/ (body.type = "node_completed" /\ body.of = last.of)
         /\ last.type # "error"
<1>1. body \in NextOnWire(last)
  BY DEF NextInFixture, NextOnWire, Silence
<1>2. \A x \in Faults : x.type = "error"
  BY DEF Faults
<1>3. \A nodes : \A x \in StartOf(nodes) : x.type = "node_started"
  BY DEF StartOf
<1>4. \A x \in Verdicts : x.type \in {"interrupted", "completed"}
  BY DEF Verdicts
<1>5. last = Silence => NextOnWire(last) = {Event("started", "query")} \cup Faults
  BY DEF NextOnWire, Silence
<1>6. last # Silence => last.type # "nothing"
  BY DEF Bodies, Silence
<1>7. last.type = "node_started" => NextOnWire(last) = {Event("node_completed", last.of)} \cup Faults
  BY DEF NextOnWire
<1>8. last.type = "error" => NextOnWire(last) = {}
  BY DEF NextOnWire
<1>9. last # Silence => body.type # "started"
  BY <1>1, <1>2, <1>3, <1>4, <1>6 DEF NextOnWire, Event
<1> QED BY <1>1, <1>2, <1>5, <1>7, <1>8, <1>9 DEF Event

\* One more event in its turn keeps a log in order.
LEMMA OrderedGrows ==
  ASSUME NEW s \in Seq(Events), NEW e \in Events, Ordered(s),
         s = <<>> => e.type \in {"started", "error"},
         s # <<>> => e.type # "started",
         s # <<>> /\ s[Len(s)].type = "node_started" =>
           e.type = "error" \/ (e.type = "node_completed" /\ e.of = s[Len(s)].of),
         s # <<>> /\ s[Len(s)].type = "error" => e.type = "error"
  PROVE  Ordered(Append(s, e))
<1> DEFINE t == Append(s, e)
<1>1. /\ Len(s) \in Nat /\ DOMAIN s = 1 .. Len(s) /\ DOMAIN t = 1 .. Len(s) + 1
      /\ \A i \in 1 .. Len(s) : t[i] = s[i]
      /\ t[Len(s) + 1] = e
      /\ s # <<>> => Len(s) >= 1
  OBVIOUS
<1> HIDE DEF t
<1>2. s = <<>> => Len(s) = 0
  OBVIOUS
<1>3. t[1].type \in {"started", "error"}
  <2>1. CASE s = <<>>
    BY <1>1, <1>2, <2>1
  <2>2. CASE s # <<>>
    BY <1>1, <2>2 DEF Ordered
  <2> QED BY <2>1, <2>2
<1>4. t[1].type = "error" => \A i \in DOMAIN t : t[i].type = "error"
  <2>1. CASE s = <<>>
    BY <1>1, <1>2, <2>1
  <2>2. CASE s # <<>>
    BY <1>1, <2>2 DEF Ordered
  <2> QED BY <2>1, <2>2
<1>5. ASSUME NEW i \in DOMAIN t \ {1}
      PROVE  /\ t[i].type # "started"
             /\ t[i - 1].type = "node_started" =>
                  \/ t[i].type = "error"
                  \/ t[i].type = "node_completed" /\ t[i].of = t[i - 1].of
  <2>1. CASE i = Len(s) + 1
    <3>1. s # <<>>
      BY <1>2, <2>1
    <3> QED BY <1>1, <2>1, <3>1
  <2>2. CASE i # Len(s) + 1
    <3>1. i \in DOMAIN s \ {1} /\ i - 1 \in 1 .. Len(s)
      BY <1>1, <2>2
    <3>2. t[i] = s[i] /\ t[i - 1] = s[i - 1]
      BY <1>1, <3>1
    <3> QED BY <3>1, <3>2 DEF Ordered
  <2> QED BY <2>1, <2>2
<1>6. Ordered(t)
  BY <1>3, <1>4, <1>5 DEF Ordered
<1> QED BY <1>6 DEF t

\* A log that grows leaves what is drawn as it was.
LEMMA DrawnStays ==
  ASSUME Drawn, log \in Seq(Events), viz' = viz, applied' = applied,
         \/ log' = log
         \/ \E e \in Events : log' = Append(log, e)
  PROVE  Drawn'
<1>1. CASE log' = log
  BY <1>1 DEF Drawn, ActiveNodes, Settled
<1>2. ASSUME NEW e \in Events, log' = Append(log, e) PROVE Drawn'
  <2>1. /\ Len(log) \in Nat /\ Len(log') = Len(log) + 1
        /\ \A i \in 1 .. Len(log) : log'[i] = log[i]
    BY <1>2
  <2>2. SubSeq(log', 1, applied) = SubSeq(log, 1, applied)
    BY <1>2 DEF Drawn
  <2>3. applied' \in 0 .. Len(log')
    BY <2>1 DEF Drawn
  <2>4. applied > 0 => log'[1] = log[1] /\ log'[applied] = log[applied]
    BY <2>1 DEF Drawn
  <2> QED BY <2>2, <2>3, <2>4 DEF Drawn, ActiveNodes, Settled
<1> QED BY <1>1, <1>2

\* The stages of a run's drawing: the node that was started last is the one at
\* work, and what the panel shows is of this log.
AtWork(s, k) == IF k > 0 /\ s[k].type = "node_started" THEN {s[k].of} ELSE {}

LEMMA StagesOfRun ==
  ASSUME NEW s \in Seq(Events), Ordered(s), s # <<>>, s[1].type = "started",
         NEW f, FoldSteps(f, InitialViz, s, Len(s)),
         NEW m \in 1 .. Len(s)
  PROVE  /\ ActiveNodes(f[m]) = AtWork(s, m)
         /\ \A e \in f[m].interrupt \cup f[m].completed \cup f[m].error :
              \E i \in 1 .. m : e = s[i]
         /\ s[m].type = "interrupted" => f[m].interrupt # {}
         /\ s[m].type = "completed" => f[m].completed # {}
         /\ s[m].type = "error" => f[m].error # {}
<1> DEFINE Panel(k) == f[k].interrupt \cup f[k].completed \cup f[k].error
           G == {k \in Nat : k <= Len(s) =>
                   /\ ActiveNodes(f[k]) = AtWork(s, k)
                   /\ \A e \in Panel(k) : \E i \in 1 .. k : e = s[i]}
<1>1. Len(s) \in Nat /\ DOMAIN s = 1 .. Len(s)
      /\ \A k \in 1 .. Len(s) : s[k] \in Events
  OBVIOUS
<1>2. \A k \in 0 .. Len(s) : f[k] \in Vizes
  BY StagesTyped
<1>3. 0 \in G
  <2>1. f[0] = InitialViz
    BY DEF FoldSteps
  <2>2. Panel(0) = {}
    BY <2>1 DEF InitialViz
  <2> QED BY <2>1, <2>2, InitialTyped DEF AtWork
<1>4. ASSUME NEW k \in Nat, k \in G PROVE k + 1 \in G
  <2>1. SUFFICES ASSUME k + 1 <= Len(s)
                 PROVE  /\ ActiveNodes(f[k + 1]) = AtWork(s, k + 1)
                        /\ \A e \in Panel(k + 1) : \E i \in 1 .. k + 1 : e = s[i]
    OBVIOUS
  <2>2. /\ k \in 0 .. Len(s) /\ k + 1 \in 1 .. Len(s) /\ (k + 1) - 1 = k
        /\ k + 1 \in DOMAIN s
    BY <1>1, <2>1
  <2>3. f[k + 1] = Reduce(f[k], s[k + 1])
    BY <2>2 DEF FoldSteps
  <2>4. f[k] \in Vizes /\ s[k + 1] \in Events
    BY <1>1, <1>2, <2>2
  <2>5. ActiveNodes(f[k]) = AtWork(s, k) /\ \A e \in Panel(k) : \E i \in 1 .. k : e = s[i]
    BY <1>4, <2>1
  <2>6. \A e \in Panel(k + 1) : \E i \in 1 .. k + 1 : e = s[i]
    <3>1. Panel(k + 1) \subseteq Panel(k) \cup {s[k + 1]}
      BY <2>3, <2>4, PanelAfter
    <3> HIDE DEF Panel
    <3> QED BY <2>5, <3>1
  <2>7. ActiveNodes(f[k + 1]) = AtWork(s, k + 1)
    <3>1. \A m1, m2 \in AtWork(s, k) : m1 = m2
      BY DEF AtWork
    <3>2. AtWork(s, k + 1) = IF s[k + 1].type = "node_started" THEN {s[k + 1].of} ELSE {}
      BY DEF AtWork
    <3>3. CASE k = 0
      <4>1. s[k + 1].type = "started"
        BY <3>3
      <4>2. ActiveNodes(f[k + 1]) = {}
        BY <2>3, <2>4, <4>1, ActiveAfter
      <4> QED BY <3>2, <4>1, <4>2
    <3>4. CASE k > 0
      <4>1. k + 1 \in DOMAIN s \ {1} /\ s[(k + 1) - 1] = s[k]
        BY <2>2, <3>4
      <4>2. /\ s[k + 1].type # "started"
            /\ s[k].type = "node_started" =>
                 \/ s[k + 1].type = "error"
                 \/ s[k + 1].type = "node_completed" /\ s[k + 1].of = s[k].of
        BY <4>1, <2>2 DEF Ordered
      <4>3. CASE s[k + 1].type = "error"
        <5>1. ActiveNodes(f[k + 1]) = {}
          BY <2>3, <2>4, <2>5, <3>1, <4>3, ActiveAfter
        <5> QED BY <3>2, <4>3, <5>1
      <4>4. CASE s[k + 1].type # "error" /\ s[k].type = "node_started"
        <5>1. ActiveNodes(f[k]) = {s[k].of}
          BY <2>5, <3>4, <4>4 DEF AtWork
        <5>2. s[k + 1].type = "node_completed" /\ s[k + 1].of = s[k].of
          BY <4>2, <4>4
        <5>3. ActiveNodes(f[k + 1]) = ActiveNodes(f[k]) \ {s[k + 1].of}
          BY <2>3, <2>4, <5>2, ActiveAfter
        <5> QED BY <3>2, <5>1, <5>2, <5>3
      <4>5. CASE s[k + 1].type # "error" /\ s[k].type # "node_started"
        <5>1. ActiveNodes(f[k]) = {}
          BY <2>5, <4>5 DEF AtWork
        <5>2. CASE s[k + 1].type = "node_started"
          <6>1. ActiveNodes(f[k + 1]) = {s[k + 1].of}
            BY <2>3, <2>4, <5>1, <5>2, ActiveAfter
          <6> QED BY <3>2, <5>2, <6>1
        <5>3. CASE s[k + 1].type # "node_started"
          <6>1. s[k + 1].type \in {"node_completed", "retry_loop", "interrupted", "completed"}
            BY <2>4, <4>2, <4>5, <5>3, EventTypes
          <6>2. ActiveNodes(f[k + 1]) = {}
            BY <2>3, <2>4, <5>1, <6>1, ActiveAfter
          <6> QED BY <3>2, <5>3, <6>2
        <5> QED BY <5>2, <5>3
      <4> QED BY <4>3, <4>4, <4>5
    <3> QED BY <3>3, <3>4
  <2> QED BY <2>6, <2>7
<1> HIDE DEF G
<1>5. m \in G
  BY <1>3, <1>4, InductionBySet
<1>6. f[m] = Reduce(f[m - 1], s[m]) /\ f[m - 1] \in Vizes /\ s[m] \in Events
  BY <1>1, <1>2 DEF FoldSteps
<1>7. /\ s[m].type = "interrupted" => f[m].interrupt # {}
      /\ s[m].type = "completed" => f[m].completed # {}
      /\ s[m].type = "error" => f[m].error # {}
  BY <1>6, PanelAfter
<1> QED BY <1>5, <1>7 DEF G

\* Drawings that differ in the fan-out alone show the same panel and nodes.
LEMMA SettledParts ==
  ASSUME NEW v \in Vizes, NEW w \in Vizes, Settled(v) = Settled(w)
  PROVE  /\ v.interrupt = w.interrupt /\ v.completed = w.completed /\ v.error = w.error
         /\ ActiveNodes(v) = ActiveNodes(w)
<1>1. /\ v.nodes = w.nodes /\ v.interrupt = w.interrupt /\ v.completed = w.completed
      /\ v.error = w.error
  BY DEF Settled, Vizes
<1> QED BY <1>1 DEF ActiveNodes

\* A render leaves what all of the log draws: the first event of a run clears
\* what another left, and the later ones go on from where the last render ended.
LEMMA RenderDraws ==
  ASSUME log \in Seq(Events), Ordered(log), Drawn, Render
  PROVE  Drawn'
<1> DEFINE n == Len(log)
           m == n - applied
           rest == SubSeq(log, applied + 1, n)
<1>1. /\ n \in Nat /\ DOMAIN log = 1 .. n /\ applied \in Nat /\ applied < n
      /\ log # <<>> /\ viz \in Vizes /\ applied' = n /\ log' = log
      /\ viz' = FoldLeft(Reduce, viz, rest)
  BY DEF Render, Drawn, Unapplied
<1>2. /\ m \in Nat /\ m > 0 /\ DOMAIN rest = 1 .. m /\ rest \in Seq(Events)
      /\ \A k \in 1 .. m : rest[k] = log[applied + k] /\ rest[k] \in Events
  BY <1>1
<1>3. viz' \in Vizes
  BY <1>1, <1>2, FoldTyped
<1>4. log[1].type \in {"started", "error"}
  BY <1>1 DEF Ordered
<1>5. CASE log[1].type = "started"
  <2>1. PICK f : FoldSteps(f, InitialViz, log, n)
    BY <1>1, FoldDef
  <2>2. FoldLeft(Reduce, InitialViz, SubSeq(log, 1, n)) = f[n] /\ f[n] \in Vizes
    BY <1>1, <2>1, FoldOfPrefix, StagesTyped
  <2>3. f[applied] \in Vizes
    BY <1>1, <2>1, StagesTyped
  <2> DEFINE J == [k \in 0 .. m |->
                     {x \in Vizes : applied + k > 0 => Settled(x) = Settled(f[applied + k])}]
  <2>4. viz \in J[0]
    <3>1. applied > 0 => Settled(viz) = Settled(f[applied])
      BY <1>1, <1>5, <2>1, FoldOfPrefix DEF Drawn
    <3> QED BY <1>1, <1>2, <3>1
  <2>5. ASSUME NEW k \in 1 .. m, NEW x \in J[k - 1] PROVE Reduce(x, rest[k]) \in J[k]
    <3>1. /\ k - 1 \in 0 .. m /\ k \in 0 .. m /\ applied + k \in 1 .. n
          /\ applied + (k - 1) = (applied + k) - 1
          /\ applied + (k - 1) \in 0 .. n
      BY <1>1, <1>2
    <3>2. f[applied + k] = Reduce(f[applied + (k - 1)], rest[k])
      BY <1>2, <2>1, <3>1 DEF FoldSteps
    <3>3. f[applied + (k - 1)] \in Vizes
      BY <1>1, <2>1, <3>1, StagesTyped
    <3>4. x \in Vizes /\ (applied + (k - 1) > 0 => Settled(x) = Settled(f[applied + (k - 1)]))
      BY <2>5, <3>1
    <3>5. Reduce(x, rest[k]) \in Vizes
      BY <1>2, <3>4, ReduceType
    <3>6. Settled(Reduce(x, rest[k])) = Settled(f[applied + k])
      <4>1. CASE applied + (k - 1) > 0
        BY <1>2, <3>2, <3>3, <3>4, <4>1, ReduceSettled
      <4>2. CASE applied + (k - 1) = 0
        <5>1. rest[k] = log[1]
          BY <1>1, <1>2, <4>2
        <5>2. Reduce(x, rest[k]) = InitialViz /\ f[applied + k] = InitialViz
          BY <1>5, <3>2, <5>1 DEF Reduce, OnStarted
        <5> QED BY <5>2
      <4> QED BY <1>1, <3>1, <4>1, <4>2
    <3>7. J[k] = {y \in Vizes : applied + k > 0 => Settled(y) = Settled(f[applied + k])}
      BY <3>1
    <3> HIDE DEF J
    <3> QED BY <3>5, <3>6, <3>7
  <2>6. J[m] = {x \in Vizes : applied + m > 0 => Settled(x) = Settled(f[applied + m])}
    BY <1>2
  <2> HIDE DEF J
  <2>7. viz' \in J[m]
    BY <1>1, <1>2, <2>4, <2>5, FoldThrough
  <2>8. applied + m = n /\ n > 0
    BY <1>1
  <2>9. Settled(viz') = Settled(f[n])
    BY <2>6, <2>7, <2>8
  <2>10. \A m1, m2 \in ActiveNodes(viz') : m1 = m2
    <3>1. ActiveNodes(viz') = AtWork(log, n)
      BY <1>1, <1>3, <1>5, <2>1, <2>2, <2>8, <2>9, SettledParts, StagesOfRun
    <3> QED BY <3>1 DEF AtWork
  <2> QED BY <1>1, <1>3, <1>5, <2>2, <2>9, <2>10 DEF Drawn, Settled, ActiveNodes
<1>6. CASE log[1].type = "error"
  <2>1. \A k \in 1 .. m : rest[k].type = "error"
    BY <1>1, <1>2, <1>6 DEF Ordered
  <2> DEFINE J == [k \in 0 .. m |->
                     {x \in Vizes : IF k = 0 THEN \A m1, m2 \in ActiveNodes(x) : m1 = m2
                                    ELSE x.error = {rest[k]} /\ ActiveNodes(x) = {}}]
  <2>2. viz \in J[0]
    BY <1>1, <1>2 DEF Drawn
  <2>3. ASSUME NEW k \in 1 .. m, NEW x \in J[k - 1] PROVE Reduce(x, rest[k]) \in J[k]
    <3>1. k - 1 \in 0 .. m /\ k \in 0 .. m /\ k # 0
      BY <1>2
    <3>2. x \in Vizes /\ \A m1, m2 \in ActiveNodes(x) : m1 = m2
      BY <2>3, <3>1
    <3>3. Reduce(x, rest[k]) \in Vizes
      BY <1>2, <3>2, ReduceType
    <3>4. Reduce(x, rest[k]).error = {rest[k]} /\ ActiveNodes(Reduce(x, rest[k])) = {}
      <4>1. rest[k] \in Events /\ rest[k].type = "error"
        BY <1>2, <2>1
      <4>2. ActiveNodes(Reduce(x, rest[k])) = {}
        BY <3>2, <4>1, ActiveAfter
      <4>3. Reduce(x, rest[k]).error = {rest[k]}
        <5> HIDE DEF J, rest
        <5> QED BY <3>2, <4>1, PanelAfter
      <4> QED BY <4>2, <4>3
    <3>5. J[k] = {y \in Vizes : y.error = {rest[k]} /\ ActiveNodes(y) = {}}
      BY <3>1
    <3> HIDE DEF J
    <3> QED BY <3>3, <3>4, <3>5
  <2>4. J[m] = {x \in Vizes : x.error = {rest[m]} /\ ActiveNodes(x) = {}}
    BY <1>2
  <2> HIDE DEF J
  <2>5. viz' \in J[m]
    BY <1>1, <1>2, <2>2, <2>3, FoldThrough
  <2>6. rest[m] = log[n]
    BY <1>1, <1>2
  <2>7. viz'.error = {log[n]} /\ ActiveNodes(viz') = {}
    BY <2>4, <2>5, <2>6
  <2>8. ActiveNodes(viz)' = ActiveNodes(viz')
    BY DEF ActiveNodes
  <2> QED BY <1>1, <1>3, <1>6, <2>7, <2>8 DEF Drawn
<1> QED BY <1>4, <1>5, <1>6

\* Every step keeps the log in order, the calls' ends reported and the drawing true.
LEMMA SoundNext == Kept /\ Sound /\ [Next]_vars => Sound'
<1> SUFFICES ASSUME Kept, Sound, [Next]_vars PROVE Sound'
  OBVIOUS
<1> USE DEF Sound
<1>1. log \in Seq(Events) /\ sent \in [Asks -> Bodies \cup {Silence}] /\ at \in [Asks -> Places]
  BY DEF Kept, CallsTyped
<1>2. ASSUME NEW a \in Asks, Ask(a) PROVE Sound'
  <2>1. Running = {} /\ log' = <<>> /\ Len(log') = 0 /\ DOMAIN log' = {}
    <3>1. Running = {} /\ log' = <<>>
      BY <1>2 DEF Ask, LatchOpen, Kept, Latched
    <3> QED BY <3>1
  <2>2. PICK source \in {"fetching", "replaying"} : at' = [at EXCEPT ![a] = source]
    BY <1>2 DEF Ask
  <2>3. at[a] = "unasked" /\ Running' = {a}
    BY <1>1, <1>2, <2>1, <2>2 DEF Ask, Running
  <2>4. Ordered(log')
    BY <2>1 DEF Ordered
  <2>5. Told'
    BY <1>2, <2>1 DEF Ask, Told
  <2>6. CutOff'
    BY <1>1, <1>2, <2>2, <2>3 DEF Ask, CutOff
  <2>7. Concluded'
    BY <1>2 DEF Ask, Concluded
  <2>8. applied' = 0 /\ viz' = viz
    BY <1>1, <1>2, <2>1 DEF Ask, AppliedOf, Drawn
  <2>9. Drawn'
    BY <2>1, <2>8 DEF Drawn, ActiveNodes
  <2> QED BY <2>4, <2>5, <2>6, <2>7, <2>9
<1>3. ASSUME NEW a \in Asks, Respond(a) PROVE Sound'
  <2>1. Running' = Running
    BY <1>1, <1>3 DEF Respond, Running
  <2>2. Ordered(log') /\ Told'
    BY <1>3, <2>1 DEF Respond, Told
  <2>3. CutOff'
    BY <1>1, <1>3, <2>1 DEF Respond, page, CutOff
  <2>4. Concluded'
    BY <1>3 DEF Respond, page, Concluded
  <2>5. Drawn'
    BY <1>1, <1>3, DrawnStays DEF Respond, screen
  <2> QED BY <2>2, <2>3, <2>4, <2>5
<1>4. ASSUME NEW a \in Asks, Deliver(a) PROVE Sound'
  <2>1. PICK body \in Bodies : Receive(a, body)
    BY <1>4 DEF Deliver
  <2>2. a \in Running /\ Running' = Running /\ Running = {a}
    BY <2>1 DEF Receive, Running, Kept, Latched
  <2>3. Logged(a, body) \in Events /\ log' = Append(log, Logged(a, body))
    BY <2>1, <2>2 DEF Receive, Events
  <2>4. Ordered(log')
    <3>1. body \in NextOnWire(sent[a]) \/ body \in NextInFixture(sent[a])
      BY <2>1 DEF Receive
    <3>2. log = <<>> => sent[a] = Silence
      BY DEF Told
    <3>3. ASSUME log # <<>> PROVE log[Len(log)] = Logged(a, sent[a]) /\ sent[a] # Silence
      <4>1. log[Len(log)] = Logged(a, sent[a])
        BY <2>2, <3>3 DEF Told
      <4>2. log[Len(log)] \in Events
        BY <1>1, <3>3
      <4> QED BY <4>1, <4>2, EventTypes DEF Logged, Silence
    <3>4. Logged(a, body).type = body.type /\ Logged(a, body).of = body.of
      BY DEF Logged
    <3>5. log # <<>> => /\ log[Len(log)].type = sent[a].type
                        /\ log[Len(log)].of = sent[a].of
      BY <3>3 DEF Logged
    <3>6. sent[a] \in Bodies \cup {Silence}
      BY <1>1
    <3> HIDE DEF Sound
    <3>7. Ordered(log)
      BY DEF Sound
    <3> QED BY <1>1, <2>3, <3>1, <3>2, <3>3, <3>4, <3>5, <3>6, <3>7, WireOrder, OrderedGrows
  <2>5. Told'
    <3>1. log' # <<>> /\ log'[Len(log')] = Logged(a, body) /\ sent'[a] = body
      BY <1>1, <2>1, <2>3 DEF Receive
    <3>2. \A b \in Asks \ {a} : sent'[b] = sent[b]
      BY <1>1, <2>1 DEF Receive
    <3> QED BY <2>2, <3>1, <3>2 DEF Told
  <2>6. CutOff' /\ Concluded'
    <3>1. UNCHANGED <<hasStarted, controller, timedOut, aborted, at, isStreaming>>
      BY <2>1 DEF Receive, page
    <3>2. isStreaming = TRUE
      BY <2>2 DEF Kept, Latched
    <3> QED BY <2>2, <3>1, <3>2 DEF CutOff, Concluded
  <2>7. Drawn'
    BY <1>1, <2>1, <2>3, DrawnStays DEF Receive, screen
  <2> QED BY <2>4, <2>5, <2>6, <2>7
<1>5. ASSUME NEW a \in Running, NEW fault \in ClientFaults \cup {"none"}, Settle(a, fault),
             fault = "none" => SawTerminal(a)
      PROVE  Sound'
  <2>1. a \in Asks /\ Running = {a}
    BY DEF Running, Kept, Latched
  <2>2. Running' = {}
    BY <1>1, <1>5, <2>1 DEF Settle, Running
  <2> DEFINE e == Logged(a, Event("error", fault))
  <2>3. fault # "none" => e \in Events /\ e.type = "error" /\ log' = Append(log, e)
    <3>1. SUFFICES ASSUME fault # "none" PROVE e \in Events /\ e.type = "error" /\ log' = Append(log, e)
      OBVIOUS
    <3>2. Event("error", fault) \in Bodies
      BY <3>1 DEF Event, Bodies
    <3>3. e \in Events /\ e.type = "error"
      BY <2>1, <3>2 DEF Events, Logged, Event
    <3> QED BY <1>5, <3>1, <3>3 DEF Settle
  <2>4. fault = "none" => log' = log
    BY <1>5 DEF Settle
  <2> HIDE DEF e
  <2>5. Ordered(log')
    BY <1>1, <2>3, <2>4, OrderedGrows
  <2>6. Told'
    BY <1>1, <1>5, <2>1, <2>2 DEF Settle, Told
  <2>7. CutOff'
    <3>1. at'[a] = "ended" /\ \A b \in Asks : b # a => at'[b] = at[b]
      BY <1>1, <1>5, <2>1 DEF Settle
    <3> QED BY <1>5, <2>1, <2>2, <3>1 DEF Settle, CutOff
  <2>8. log' # <<>> /\ log'[Len(log')].type \in Verdict
    <3>1. CASE fault = "none"
      <4>1. sent[a].type \in Verdict /\ sent[a] # Silence
        BY <1>5, <3>1 DEF SawTerminal, Verdict, Silence
      <4>2. log # <<>> /\ log[Len(log)] = Logged(a, sent[a])
        BY <2>1, <4>1 DEF Told
      <4> QED BY <2>4, <3>1, <4>1, <4>2 DEF Logged
    <3>2. CASE fault # "none"
      <4>1. log' # <<>> /\ log'[Len(log')] = e
        BY <1>1, <2>3, <3>2
      <4> QED BY <2>3, <3>2, <4>1 DEF Verdict
    <3> QED BY <3>1, <3>2
  <2>9. Concluded'
    BY <1>5, <2>8 DEF Settle, Concluded
  <2>10. Drawn'
    BY <1>1, <1>5, <2>3, <2>4, DrawnStays DEF Settle, screen
  <2> QED BY <2>5, <2>6, <2>7, <2>9, <2>10
<1>6. ASSUME NEW a \in Asks, SourceEnds(a) PROVE Sound'
  <2>1. a \in Running /\ a \notin aborted
    BY <1>6 DEF SourceEnds, Running, CutOff
  <2>2. CASE SawTerminal(a)
    BY <1>5, <1>6, <2>1, <2>2 DEF SourceEnds
  <2>3. CASE ~SawTerminal(a)
    BY <1>5, <1>6, <2>1, <2>3 DEF SourceEnds, ClientFaults
  <2> QED BY <2>2, <2>3
<1>7. ASSUME NEW a \in Asks, SourceThrows(a) PROVE Sound'
  <2>1. a \in Running /\ (a \in aborted => timedOut)
    BY <1>7 DEF SourceThrows, Running, CutOff
  <2>2. CASE timedOut
    BY <1>5, <1>7, <2>1, <2>2 DEF SourceThrows, ClientFaults
  <2>3. CASE ~timedOut
    BY <1>5, <1>7, <2>1, <2>3 DEF SourceThrows, ClientFaults
  <2> QED BY <2>2, <2>3
<1>8. ASSUME NEW a \in Asks, TimerFires(a) PROVE Sound'
  <2>1. Running' = Running /\ a \in Running /\ Running = {a}
    BY <1>8 DEF TimerFires, Running, Kept, Owned, Latched
  <2>2. Ordered(log') /\ Told'
    BY <1>8, <2>1 DEF TimerFires, Told
  <2>3. CutOff'
    BY <1>8, <2>1 DEF TimerFires, AbortCall, CutOff, Running
  <2>4. Concluded'
    BY <1>8 DEF TimerFires, Concluded
  <2>5. Drawn'
    BY <1>1, <1>8, DrawnStays DEF TimerFires, screen
  <2> QED BY <2>2, <2>3, <2>4, <2>5
<1>9. ASSUME UNCHANGED <<log, page, calls>>, hasStarted' = hasStarted \/ hasStarted' = FALSE
      PROVE  Ordered(log') /\ Told' /\ CutOff' /\ Concluded'
  <2>1. UNCHANGED <<log, isStreaming, controller, inFlight, timedOut, at, sent, aborted, timer>>
    BY <1>9 DEF page, calls
  <2>2. Running' = Running
    BY <2>1 DEF Running
  <2>3. Ordered(log') /\ Told'
    BY <2>1, <2>2 DEF Told
  <2>4. CutOff'
    BY <2>1, <2>2 DEF CutOff
  <2>5. Concluded'
    <3>1. hasStarted' \in BOOLEAN /\ (hasStarted' => hasStarted)
      <4>1. CASE hasStarted' = hasStarted
        BY <4>1 DEF Concluded
      <4>2. CASE hasStarted' = FALSE
        BY <4>2
      <4> QED BY <1>9, <4>1, <4>2
    <3> QED BY <2>1, <3>1 DEF Concluded
  <2> QED BY <2>3, <2>4, <2>5
<1>10. ASSUME Render PROVE Sound'
  BY <1>1, <1>9, <1>10, RenderDraws DEF Render
<1>11. ASSUME FanOutSettles PROVE Sound'
  <2>1. /\ viz' \in Vizes /\ viz'.error = viz.error /\ viz'.nodes = viz.nodes
        /\ Settled(viz') = Settled(viz)
    BY <1>11 DEF FanOutSettles, Drawn, Vizes, Settled
  <2>2. ActiveNodes(viz') = ActiveNodes(viz) /\ applied' = applied /\ log' = log
    BY <1>11, <2>1 DEF FanOutSettles, ActiveNodes
  <2>3. Drawn'
    BY <2>1, <2>2 DEF Drawn, ActiveNodes, Settled
  <2> QED BY <1>9, <1>11, <2>3 DEF FanOutSettles
<1>12. ASSUME Back PROVE Sound'
  <2>1. viz' = InitialViz /\ applied' = 0 /\ log' = log
    BY <1>12 DEF Back
  <2>2. Drawn'
    BY <1>1, <2>1, InitialTyped DEF Drawn, ActiveNodes
  <2> QED BY <1>9, <1>12, <2>2 DEF Back
<1>13. ASSUME UNCHANGED vars PROVE Sound'
  <2>1. Drawn'
    BY <1>1, <1>13, DrawnStays DEF vars, screen
  <2> QED BY <1>9, <1>13, <2>1 DEF vars
<1> QED BY <1>2, <1>3, <1>4, <1>6, <1>7, <1>8, <1>10, <1>11, <1>12, <1>13 DEF Next

\* For any number of queries: what the server told, what was logged of it and
\* what of that is drawn agree, however calls end (runQuery, AgentGraph).
THEOREM SoundAlways == Spec => [](Kept /\ Sound)
BY KeptInit, KeptNext, SoundInit, SoundNext, PTL DEF Spec

\* The type invariant, for any number of queries.
THEOREM TypeCorrect == Spec => []TypeOK
<1>1. Kept /\ Sound => TypeOK
  BY DEF Kept, CallsTyped, Sound, CutOff, Concluded, Drawn, TypeOK, Vizes, Places, Timers
<1> QED BY <1>1, SoundAlways, PTL

\* However the queries ended and whatever the renders batched, once a run has
\* begun the screen shows what its log draws from scratch (AgentGraph's effect).
THEOREM ScreenCorrect == Spec => []ScreenFollowsLog
<1>1. Sound => ScreenFollowsLog
  BY DEF Sound, Drawn, ScreenFollowsLog
<1> QED BY <1>1, SoundAlways, PTL

\* At rest the log of the last query is drawn to its end, which is a verdict.
LEMMA RestDrawn ==
  ASSUME Kept, Sound, AtRest
  PROVE  /\ ActiveNodes(viz) = {}
         /\ viz.interrupt \cup viz.completed \cup viz.error # {}
         /\ \/ \A e \in viz.interrupt \cup viz.completed \cup viz.error : controller = {e.ask}
            \/ viz.error # {} /\ \A e \in viz.error : controller = {e.ask}
<1> DEFINE n == Len(log)
<1>1. log \in Seq(Events) /\ \A i \in 1 .. n : controller = {log[i].ask}
  BY DEF Kept, CallsTyped, Owned
<1>2. log # <<>> /\ log[n].type \in Verdict /\ applied = n
  BY DEF AtRest, Sound, Concluded
<1>3. n \in Nat /\ n > 0 /\ n \in 1 .. n
  BY <1>1, <1>2
<1>4. log[1].type \in {"started", "error"} /\ viz \in Vizes
  BY <1>2 DEF Sound, Ordered, Drawn
<1>5. CASE log[1].type = "error"
  <2>1. viz.error = {log[n]} /\ ActiveNodes(viz) = {}
    BY <1>2, <1>3, <1>5 DEF Sound, Drawn
  <2> QED BY <1>1, <1>3, <2>1
<1>6. CASE log[1].type = "started"
  <2>1. PICK f : FoldSteps(f, InitialViz, log, n)
    <3>1. DOMAIN log = 1 .. n
      BY <1>1
    <3> QED BY <1>3, <3>1, FoldDef
  <2>2. f[n] \in Vizes /\ FoldLeft(Reduce, InitialViz, SubSeq(log, 1, n)) = f[n]
    BY <1>1, <1>3, <2>1, StagesTyped, FoldOfPrefix
  <2>3. Settled(viz) = Settled(f[n])
    BY <1>2, <1>3, <1>6, <2>2 DEF Sound, Drawn
  <2>4. /\ viz.interrupt = f[n].interrupt /\ viz.completed = f[n].completed
        /\ viz.error = f[n].error /\ ActiveNodes(viz) = ActiveNodes(f[n])
    BY <1>4, <2>2, <2>3, SettledParts
  <2>5. /\ ActiveNodes(f[n]) = AtWork(log, n)
        /\ \A e \in f[n].interrupt \cup f[n].completed \cup f[n].error : \E i \in 1 .. n : e = log[i]
        /\ f[n].interrupt \cup f[n].completed \cup f[n].error # {}
    <3>1. Ordered(log)
      BY DEF Sound
    <3> QED BY <1>1, <1>2, <1>3, <1>6, <2>1, <3>1, StagesOfRun DEF Verdict
  <2>6. AtWork(log, n) = {}
    BY <1>2 DEF AtWork, Verdict
  <2> QED BY <1>1, <2>4, <2>5, <2>6
<1> QED BY <1>4, <1>5, <1>6

\* For any number of queries, at rest the panel is drawn from an event of the
\* last of them, never from one an earlier query left (selectTerminal).
THEOREM RestCorrect == Spec => []RestShowsOwn
<1>1. ASSUME Kept, Sound, AtRest PROVE \E e \in Shown.from : controller = {e.ask}
  <2>1. CASE viz.error # {}
    <3>1. Shown.from = viz.error
      BY <2>1 DEF Shown
    <3> QED BY <1>1, <2>1, <3>1, RestDrawn
  <2>2. CASE viz.error = {} /\ viz.interrupt # {}
    <3>1. Shown.from = viz.interrupt
      BY <2>2 DEF Shown
    <3> QED BY <1>1, <2>2, <3>1, RestDrawn
  <2>3. CASE viz.error = {} /\ viz.interrupt = {}
    <3>1. viz.completed # {}
      BY <1>1, <2>3, RestDrawn
    <3>2. Shown.from = viz.completed
      BY <2>3, <3>1 DEF Shown
    <3> QED BY <1>1, <2>3, <3>1, <3>2, RestDrawn
  <2> QED BY <2>1, <2>2, <2>3
<1>2. Kept /\ Sound => RestShowsOwn
  BY <1>1 DEF RestShowsOwn
<1> QED BY <1>2, SoundAlways, PTL

\* For any number of queries, at rest no node is drawn as at work, whatever the
\* run broke off on (graphReducer's error case).
THEOREM StillCorrect == Spec => []NothingLeftActive
<1>1. Kept /\ Sound => NothingLeftActive
  BY RestDrawn DEF NothingLeftActive, ActiveNodes
<1> QED BY <1>1, SoundAlways, PTL
=============================================================================
