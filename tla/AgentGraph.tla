----------------------------- MODULE AgentGraph -----------------------------
(***************************************************************************)
(* One run of the six-node LangGraph graph of apps/api (api.graph.nodes,   *)
(* api.graph.build) with the event stream drawn from it                    *)
(* (api.graph.streaming.stream_graph_events), and the human decision that  *)
(* resumes a run paused in hitl_gate.  A node reads the state when it      *)
(* starts and its update is applied when it ends, with nobody else writing *)
(* in between, so a node is one step.                                      *)
(***************************************************************************)
EXTENDS Integers, FiniteSets

CONSTANTS
  ChunkIds,          \* the chunks of the corpus
  Invented,          \* an id no chunk has
  TopN,              \* rerank_top_n
  Confidences,       \* the confidences a model may state
  Threshold,         \* confidence_threshold
  RequestedRetries,  \* StreamQueryRequest.max_retries, or its default
  PlannedRetries     \* PlannerDecision.retry_budget

\* A confidence nobody has stated yet: None in the code.
NoConfidence == 0 - 1

ASSUME GraphAssumption ==
  /\ IsFiniteSet(ChunkIds)
  /\ Invented \notin ChunkIds
  /\ TopN \in Nat \ {0}
  /\ Confidences \subseteq Nat
  /\ 0 \in Confidences
  /\ Threshold \in Nat \ {0}
  /\ RequestedRetries \subseteq Int
  /\ PlannedRetries \subseteq Nat

VARIABLES
  next,             \* the node to run, or where the run stands
  intent,           \* AgentState, the channels its routing depends on
  retrieved_chunks,
  reranked_chunks,
  citations,
  confidence,
  abstained,
  needs_retry,
  retry_count,
  max_retries,
  retry_budget,
  human_approved,
  last,             \* the last event sent, see EventStream
  over,             \* "no", or how the event stream ended
  passes,           \* history: retriever runs, counted to one past the cap
  verdict,          \* history: the critic's word on the present draft
  decision          \* history: the payload the run was resumed with

plan     == <<intent, max_retries, retry_budget>>
evidence == <<retrieved_chunks, reranked_chunks, passes>>
draft    == <<citations, confidence, abstained>>
review   == <<needs_retry, retry_count, verdict>>
approval == <<human_approved, decision>>
vars     == <<next, plan, evidence, draft, review, approval, last, over>>

Stream == INSTANCE EventStream

LLMNodes == {"planner", "generator", "critic"}
Nodes    == LLMNodes \cup {"retriever", "reranker", "hitl_gate"}
Places   == Nodes \cup {"start", "asking", "closing", "reading", "told", "end", "paused",
                         "failed", "lost"}

Intents == {"none", "in_scope", "out_of_scope"}

\* Resume payloads: a bool, some other bare value, or a dict by its "decision".
Bools     == {"true", "false"}
Decisions == Bools \cup {"text", "accept", "reject", "edit", "other"}

TypeOK ==
  /\ next \in Places
  /\ intent \in Intents
  /\ retrieved_chunks \subseteq ChunkIds
  /\ reranked_chunks \subseteq ChunkIds
  /\ Cardinality(reranked_chunks) <= TopN
  /\ citations \subseteq ChunkIds \cup {Invented}
  /\ confidence \in Confidences \cup {NoConfidence}
  /\ abstained \in BOOLEAN
  /\ needs_retry \in BOOLEAN
  /\ retry_count \in Nat
  /\ max_retries \in Int
  /\ retry_budget \in Int
  /\ human_approved \in {"none", "yes", "no"}
  /\ last \in Stream!Events \cup {"nothing"}
  /\ over \in {"no", "returned", "raised", "lost"}
  /\ passes \in Nat
  /\ verdict \in {"none", "faithful", "unfaithful"}
  /\ decision \in Decisions \cup {"none"}

\* initial_state: the budget is the hard cap until the planner lowers it.
Init ==
  /\ next = "start"
  /\ intent = "none"
  /\ retrieved_chunks = {}
  /\ reranked_chunks = {}
  /\ citations = {}
  /\ confidence = NoConfidence
  /\ abstained = FALSE
  /\ needs_retry = FALSE
  /\ retry_count = 0
  /\ max_retries \in RequestedRetries
  /\ retry_budget = max_retries
  /\ human_approved = "none"
  /\ last = "nothing"
  /\ over = "no"
  /\ passes = 0
  /\ verdict = "none"
  /\ decision = "none"

----------------------------------------------------------------------------
Larger(a, b)  == IF a >= b THEN a ELSE b
Smaller(a, b) == IF a <= b THEN a ELSE b

\* route_after_critic's effective_cap, and the passes it leaves room for: the
\* first one is never denied.
EffectiveCap  == Smaller(retry_budget, max_retries)
PassesAllowed == Larger(1, EffectiveCap)

\* GraphStartedEvent goes out before the graph is entered.
Begin ==
  /\ next = "start"
  /\ next' = "planner"
  /\ last' = "started"
  /\ UNCHANGED <<plan, evidence, draft, review, approval, over>>

\* planner_node and route_after_planner: an out-of-scope query is an
\* abstention at once and goes straight to the gate.
Planner(planned, scope) ==
  /\ next = "planner"
  /\ intent' = scope
  /\ retry_budget' = Larger(0, Smaller(planned, max_retries))
  /\ \/ /\ scope = "out_of_scope"
        /\ abstained' = TRUE
        /\ citations' = {}
        /\ confidence' = 0
        /\ next' = "hitl_gate"
     \/ /\ scope # "out_of_scope"
        /\ UNCHANGED draft
        /\ next' = "retriever"
  /\ last' = "progress"
  /\ UNCHANGED <<max_retries, evidence, review, approval, over>>

Retriever(found) ==
  /\ next = "retriever"
  /\ retrieved_chunks' = found
  /\ passes' = IF passes > PassesAllowed THEN passes ELSE passes + 1
  /\ next' = "reranker"
  /\ last' = "progress"
  /\ UNCHANGED <<plan, reranked_chunks, draft, review, approval, over>>

\* How many of n ranked candidates the node keeps.
Kept(n) == Smaller(TopN, n)

\* The Reranker port returns its candidates rescored; the node keeps the best.
Reranker(best) ==
  /\ next = "reranker"
  /\ best \subseteq retrieved_chunks
  /\ Cardinality(best) = Kept(Cardinality(retrieved_chunks))
  /\ reranked_chunks' = best
  /\ next' = "generator"
  /\ last' = "progress"
  /\ UNCHANGED <<plan, retrieved_chunks, passes, draft, review, approval, over>>

----------------------------------------------------------------------------
\* What the generator's model may answer (GeneratedAnswer).
Answers == [citations  : SUBSET (ChunkIds \cup {Invented}),
            confidence : Confidences,
            abstained  : BOOLEAN]

\* Mutant: ids are checked against everything that was retrieved.
ValidateAgainstRetrieved(answer) ==
  IF answer.citations \subseteq retrieved_chunks \/ answer.abstained
    THEN answer
    ELSE [answer EXCEPT !.abstained = TRUE, !.confidence = 0]

\* _validate_citations: an id that was not shown turns the answer into an
\* abstention; the ids stay as they are.
ValidateCitations(answer) ==
  IF answer.citations \subseteq reranked_chunks \/ answer.abstained
    THEN answer
    ELSE [answer EXCEPT !.abstained = TRUE, !.confidence = 0]

\* generator_node's update; a new draft has no verdict yet.
Draft(answer) ==
  /\ citations' = answer.citations
  /\ confidence' = answer.confidence
  /\ abstained' = answer.abstained
  /\ verdict' = "none"
  /\ next' = "critic"
  /\ last' = "progress"
  /\ UNCHANGED <<plan, evidence, needs_retry, retry_count, approval, over>>

\* With nothing to ground an answer in, the model is not asked.
GenerateNothing ==
  /\ next = "generator"
  /\ reranked_chunks = {}
  /\ Draft([citations |-> {}, confidence |-> 0, abstained |-> TRUE])

Generate(answer) ==
  /\ next = "generator"
  /\ reranked_chunks # {}
  /\ Draft(ValidateCitations(answer))

----------------------------------------------------------------------------
\* Mutants: one pass too many, and one too few.
MayRetryAtCap(count) == count <= EffectiveCap
MayRetryOnceLess(count) == count + 1 < EffectiveCap

MayRetry(count) == count < EffectiveCap

\* Mutant: a verdict against the draft is not counted.
CountNothing == retry_count

CountRetry == retry_count + 1

\* Mutant: the flag of an earlier pass stays.
FlagOfEarlierPass == needs_retry

\* What the critic sets needs_retry to when there is nothing to check.
FlagForAbstention == FALSE

\* route_after_critic, on the state the critic has just updated.
RouteAfterCritic ==
  next' = IF needs_retry' /\ MayRetry(retry_count') THEN "retriever" ELSE "hitl_gate"

\* An abstention is not fact-checked.
CriticSkips ==
  /\ next = "critic"
  /\ abstained
  /\ needs_retry' = FlagForAbstention
  /\ UNCHANGED <<plan, evidence, draft, retry_count, verdict, approval, over>>
  /\ RouteAfterCritic
  /\ last' = "progress"

CriticApproves ==
  /\ next = "critic"
  /\ ~abstained
  /\ needs_retry' = FALSE
  /\ verdict' = "faithful"
  /\ UNCHANGED <<plan, evidence, draft, retry_count, approval, over>>
  /\ RouteAfterCritic
  /\ last' = "progress"

\* stream_graph_events tells of a loop whenever the flag is set.
CriticObjects ==
  /\ next = "critic"
  /\ ~abstained
  /\ needs_retry' = TRUE
  /\ retry_count' = CountRetry
  /\ verdict' = "unfaithful"
  /\ RouteAfterCritic
  /\ last' = "retry_loop"
  /\ UNCHANGED <<plan, evidence, draft, approval, over>>

Critic == CriticSkips \/ CriticApproves \/ CriticObjects

----------------------------------------------------------------------------
\* Mutant: the confidence alone is asked.
NeedsReviewByConfidence == confidence = NoConfidence \/ confidence < Threshold

\* _needs_human_review
NeedsHumanReview ==
  abstained \/ confidence = NoConfidence \/ confidence < Threshold

\* The gate lets the answer pass on its own.
AutoApprove ==
  /\ next = "hitl_gate"
  /\ ~NeedsHumanReview
  /\ human_approved' = "yes"
  /\ next' = "closing"
  /\ last' = "progress"
  /\ UNCHANGED <<plan, evidence, draft, review, decision, over>>

\* interrupt() inside the gate: the node is reported, then the interrupt.
Interrupt ==
  /\ next = "hitl_gate"
  /\ NeedsHumanReview
  /\ next' = "asking"
  /\ last' = "progress"
  /\ UNCHANGED <<plan, evidence, draft, review, approval, over>>

Ask ==
  /\ next = "asking"
  /\ next' = "closing"
  /\ last' = "interrupted"
  /\ UNCHANGED <<plan, evidence, draft, review, approval, over>>

\* Mutant: the stream forgets that the run was interrupted.
NeverInterrupted == FALSE

Interrupted == last = "interrupted"

\* astream is exhausted, the last checkpoint written: a paused run is left to
\* its reviewer, a finished one is read back with aget_state.
LoopEnds ==
  /\ next = "closing"
  /\ \/ /\ Interrupted
        /\ next' = "paused"
        /\ over' = "returned"
     \/ /\ ~Interrupted
        /\ next' = "reading"
        /\ UNCHANGED over
  /\ UNCHANGED <<plan, evidence, draft, review, approval, last>>

Complete ==
  /\ next = "reading"
  /\ next' = "told"
  /\ last' = "completed"
  /\ UNCHANGED <<plan, evidence, draft, review, approval, over>>

\* aget_state fails: it is awaited outside the try.
ReadFails ==
  /\ next = "reading"
  /\ next' = "failed"
  /\ over' = "raised"
  /\ UNCHANGED <<plan, evidence, draft, review, approval, last>>

\* What a node, or writing its checkpoint, may raise, as the reason of the
\* error event it becomes: gateway errors come out of the LLM nodes alone.
Reasons == IF next \in LLMNodes THEN Stream!Errors ELSE {"internal_error"}

Fail(reason) ==
  /\ next \in Nodes \cup {"closing"}
  /\ next' = "failed"
  /\ last' = reason
  /\ UNCHANGED <<plan, evidence, draft, review, approval, over>>

Finish ==
  /\ over = "no"
  /\ next \in {"told", "failed"}
  /\ next' = IF next = "told" THEN "end" ELSE "failed"
  /\ over' = "returned"
  /\ UNCHANGED <<plan, evidence, draft, review, approval, last>>

\* The process stops, or the client is gone: nothing picks the run up.
Lose ==
  /\ over = "no"
  /\ next' = "lost"
  /\ over' = "lost"
  /\ UNCHANGED <<plan, evidence, draft, review, approval, last>>

\* _apply_hitl_decision: a dict is taken at its word, anything else for its
\* truth; an edit may bring other citations.  The gate runs again from its
\* first line on the saved state, so NeedsHumanReview holds as it did.
Accepting == {"true", "text", "accept", "edit"}

Resume(payload, cited) ==
  /\ next = "paused"
  /\ decision' = payload
  /\ human_approved' = IF payload \in Accepting THEN "yes" ELSE "no"
  /\ citations' = IF payload = "edit" THEN cited ELSE citations
  /\ next' = "end"
  /\ UNCHANGED <<plan, evidence, confidence, abstained, review, last, over>>

\* Nothing happens to a run that is over, unless a reviewer resumes it.
Done == over # "no" /\ UNCHANGED vars

Step ==
  \/ Begin
  \/ \E planned \in PlannedRetries, scope \in Intents \ {"none"} : Planner(planned, scope)
  \/ \E found \in SUBSET ChunkIds : Retriever(found)
  \/ \E best \in SUBSET ChunkIds : Reranker(best)
  \/ GenerateNothing
  \/ \E answer \in Answers : Generate(answer)
  \/ Critic
  \/ AutoApprove \/ Interrupt \/ Ask \/ LoopEnds \/ Complete \/ ReadFails \/ Finish
  \/ \E reason \in Reasons : Fail(reason)

Next ==
  \/ Step
  \/ Lose
  \/ \E payload \in Decisions, cited \in SUBSET (ChunkIds \cup {Invented}) :
       Resume(payload, cited)
  \/ Done

Spec == Init /\ [][Next]_vars

\* The event loop runs the request's task as long as the process lives; every
\* node's own await ends, in an answer or in an exception.
FairSpec == Spec /\ WF_vars(Step)

----------------------------------------------------------------------------
(***************************************************************************)
(* The retriever runs at most once more than the critic may send a draft   *)
(* back: never more often than both caps allow, and once when they allow   *)
(* nothing (route_after_critic).                                           *)
(***************************************************************************)
PassesCapped == passes <= PassesAllowed

(***************************************************************************)
(* An answer that reaches the reader without a human's word is not an      *)
(* abstention, is confident, and cites only chunks its last draft was      *)
(* shown (_validate_citations, _needs_human_review over several passes).   *)
(***************************************************************************)
Unreviewed == human_approved = "yes" /\ decision = "none"

AutoApprovedGrounded ==
  Unreviewed => /\ ~abstained
                /\ confidence >= Threshold
                /\ citations \subseteq reranked_chunks

(***************************************************************************)
(* Such an answer was fact-checked as it stands, and an objection to it is *)
(* overridden only by the caps (critic_node, route_after_critic).          *)
(***************************************************************************)
VetoStands ==
  Unreviewed => \/ verdict = "faithful"
                \/ verdict = "unfaithful" /\ retry_count >= EffectiveCap

(***************************************************************************)
(* An abstention is never sent back for another draft, whatever an earlier *)
(* pass of the same run left in needs_retry (critic_node).                 *)
(***************************************************************************)
AbstentionStands == [][next = "critic" /\ abstained => next' # "retriever"]_vars

(***************************************************************************)
(* A run comes to an end: it goes round the critic's loop finitely often   *)
(* and closes its stream.                                                  *)
(***************************************************************************)
RunEnds == <>(over # "no")

\* The events of a run are those EventStream promises, in its order.
ImplementsEventStream == Stream!Spec

----------------------------------------------------------------------------
(***************************************************************************)
(* "Anything unrecognized falls back to reject" (nodes.py:356): only a     *)
(* bare True, or a dict that accepts or edits, approves an answer.         *)
(***************************************************************************)
UnrecognizedIsReject ==
  human_approved = "yes" => decision \in {"none", "true", "accept", "edit"}
=============================================================================
