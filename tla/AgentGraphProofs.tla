-------------------------- MODULE AgentGraphProofs --------------------------
(***************************************************************************)
(* Theorems about AgentGraph, for any corpus, any caps and any answers of  *)
(* the models.                                                             *)
(***************************************************************************)
EXTENDS AgentGraph, FiniteSetTheorems, TLAPS

\* A new run is well typed.
LEMMA GraphTypeInit == Init => TypeOK
<1> SUFFICES ASSUME Init PROVE TypeOK
  OBVIOUS
<1>1. Cardinality(reranked_chunks) <= TopN
  <2>1. Cardinality(reranked_chunks) = 0
    BY FS_EmptySet DEF Init
  <2> QED BY <2>1, GraphAssumption
<1>2. max_retries \in Int /\ retry_budget \in Int
  BY GraphAssumption DEF Init
<1> QED BY <1>1, <1>2 DEF Init, TypeOK, Places, Intents

\* Every node, and every end of a run, keeps the types.
LEMMA GraphTypeNext == TypeOK /\ [Next]_vars => TypeOK'
<1> SUFFICES ASSUME TypeOK, [Next]_vars PROVE TypeOK'
  OBVIOUS
<1> USE DEF TypeOK, Places, Nodes, LLMNodes, plan, evidence, draft, review, approval
<1>1. {"started", "progress", "retry_loop", "interrupted", "completed", "internal_error"}
        \subseteq Stream!Events /\ Stream!Errors \subseteq Stream!Events
  BY DEF Stream!Events, Stream!Terminals, Stream!Errors
<1>2. CASE Begin
  BY <1>1, <1>2 DEF Begin
<1>3. ASSUME NEW planned \in PlannedRetries, NEW scope \in Intents \ {"none"},
             Planner(planned, scope)
      PROVE  TypeOK'
  <2>1. retry_budget' \in Int
    BY <1>3, GraphAssumption DEF Planner, Larger, Smaller
  <2>2. draft' = draft \/ (abstained' = TRUE /\ citations' = {} /\ confidence' = 0)
    BY <1>3 DEF Planner
  <2>3. next' \in {"hitl_gate", "retriever"}
    BY <1>3 DEF Planner
  <2> QED BY <1>1, <1>3, <2>1, <2>2, <2>3, GraphAssumption DEF Planner, Intents
<1>4. ASSUME NEW found \in SUBSET ChunkIds, Retriever(found) PROVE TypeOK'
  BY <1>1, <1>4 DEF Retriever
<1>5. ASSUME NEW best \in SUBSET ChunkIds, Reranker(best) PROVE TypeOK'
  <2>1. Cardinality(best) <= TopN
    <3>1. IsFiniteSet(retrieved_chunks)
      BY FS_Subset, GraphAssumption
    <3>2. Cardinality(retrieved_chunks) \in Nat
      BY <3>1, FS_CardinalityType
    <3> QED BY <1>5, <3>2, GraphAssumption DEF Reranker, Kept, Smaller
  <2> QED BY <1>1, <1>5, <2>1 DEF Reranker
<1>6. ASSUME NEW answer \in Answers, Draft(answer) PROVE TypeOK'
  BY <1>1, <1>6 DEF Draft, Answers
<1>7. CASE GenerateNothing
  <2>1. [citations |-> {}, confidence |-> 0, abstained |-> TRUE] \in Answers
    BY GraphAssumption DEF Answers
  <2> QED BY <1>6, <1>7, <2>1 DEF GenerateNothing
<1>8. ASSUME NEW answer \in Answers, Generate(answer) PROVE TypeOK'
  <2>1. ValidateCitations(answer) \in Answers
    BY GraphAssumption DEF ValidateCitations, Answers
  <2> QED BY <1>6, <1>8, <2>1 DEF Generate
<1>9. CASE Critic
  <2>1. next' \in Places
    BY <1>9 DEF Critic, CriticSkips, CriticApproves, CriticObjects, RouteAfterCritic
  <2>2. CASE CriticSkips
    BY <1>1, <2>1, <2>2 DEF CriticSkips, FlagForAbstention
  <2>3. CASE CriticApproves
    BY <1>1, <2>1, <2>3 DEF CriticApproves
  <2>4. CASE CriticObjects
    BY <1>1, <2>1, <2>4 DEF CriticObjects, CountRetry
  <2> QED BY <1>9, <2>2, <2>3, <2>4 DEF Critic
<1>10. CASE AutoApprove \/ Interrupt \/ Ask \/ LoopEnds \/ Complete \/ ReadFails \/ Finish
  BY <1>1, <1>10 DEF AutoApprove, Interrupt, Ask, LoopEnds, Complete, ReadFails, Finish
<1>11. ASSUME NEW reason \in Reasons, Fail(reason) PROVE TypeOK'
  BY <1>1, <1>11 DEF Fail, Reasons
<1>12. CASE Lose
  BY <1>12 DEF Lose
<1>13. ASSUME NEW payload \in Decisions, NEW cited \in SUBSET (ChunkIds \cup {Invented}),
              Resume(payload, cited)
       PROVE  TypeOK'
  BY <1>13 DEF Resume
<1>14. CASE UNCHANGED vars
  BY <1>14 DEF vars
<1> QED
  BY <1>2, <1>3, <1>4, <1>5, <1>7, <1>8, <1>9, <1>10, <1>11, <1>12, <1>13, <1>14
     DEF Next, Step, Done

\* Every channel of the graph's state keeps its type.
THEOREM GraphTypeCorrect == Spec => []TypeOK
BY GraphTypeInit, GraphTypeNext, PTL DEF Spec

----------------------------------------------------------------------------
\* How the passes run ahead of the critic's count: a pass behind its draft,
\* and only as far as the cap.
PassesCounted ==
  /\ passes <= PassesAllowed
  /\ next \in {"start", "planner"} => passes = 0 /\ retry_count = 0
  /\ next = "retriever" =>
       passes = retry_count /\ (passes = 0 \/ retry_count < EffectiveCap)
  /\ next \in {"reranker", "generator", "critic"} => passes = retry_count + 1

\* Every step keeps the retriever runs in step with the objections counted.
LEMMA PassesNext == TypeOK /\ PassesCounted /\ [Next]_vars => PassesCounted'
<1> SUFFICES ASSUME TypeOK, PassesCounted, [Next]_vars PROVE PassesCounted'
  OBVIOUS
<1> USE DEF plan, evidence, draft, review, approval
<1>1. /\ retry_count \in Nat /\ passes \in Nat
      /\ retry_budget \in Int /\ max_retries \in Int
  BY DEF TypeOK
<1>2. EffectiveCap \in Int /\ PassesAllowed \in Int /\ PassesAllowed >= 1
        /\ PassesAllowed >= EffectiveCap
  BY <1>1 DEF PassesAllowed, EffectiveCap, Larger, Smaller
\* Steps that leave the count and the caps alone, and do not enter the loop.
<1>3. ASSUME UNCHANGED <<passes, retry_count, plan>>,
             next' \notin {"retriever", "reranker", "generator", "critic"},
             next' \in {"start", "planner"} => next = "start"
      PROVE  PassesCounted'
  <2>1. PassesAllowed' = PassesAllowed /\ EffectiveCap' = EffectiveCap
    BY <1>3 DEF PassesAllowed, EffectiveCap
  <2> QED BY <1>3, <2>1 DEF PassesCounted
<1>4. ASSUME NEW planned \in PlannedRetries, NEW scope \in Intents \ {"none"},
             Planner(planned, scope)
      PROVE  PassesCounted'
  <2>1. passes' = 0 /\ retry_count' = 0 /\ next' \in {"retriever", "hitl_gate"}
    BY <1>4 DEF Planner, PassesCounted
  <2>2. PassesAllowed' >= 1
    <3>1. retry_budget' \in Int /\ max_retries' \in Int
      BY <1>1, <1>4, GraphAssumption DEF Planner, Larger, Smaller
    <3> QED BY <3>1 DEF PassesAllowed, EffectiveCap, Larger, Smaller
  <2>3. PassesAllowed' \in Int
    <3>1. retry_budget' \in Int /\ max_retries' \in Int
      BY <1>1, <1>4, GraphAssumption DEF Planner, Larger, Smaller
    <3> QED BY <3>1 DEF PassesAllowed, EffectiveCap, Larger, Smaller
  <2> QED BY <2>1, <2>2, <2>3 DEF PassesCounted
\* The pass that is about to begin was allowed, or is the first.
<1>5. ASSUME NEW found \in SUBSET ChunkIds, Retriever(found) PROVE PassesCounted'
  <2>1. /\ UNCHANGED <<retry_count, plan>> /\ next' = "reranker"
        /\ next = "retriever"
    BY <1>5 DEF Retriever
  <2>2. PassesAllowed' = PassesAllowed
    BY <2>1 DEF PassesAllowed, EffectiveCap
  <2>3. passes' = passes + 1
    BY <1>1, <1>2, <1>5 DEF Retriever, PassesCounted
  <2>4. passes + 1 <= PassesAllowed
    BY <1>1, <1>2, <2>1 DEF PassesCounted
  <2> QED BY <2>1, <2>2, <2>3, <2>4 DEF PassesCounted
<1>6. ASSUME UNCHANGED <<passes, retry_count, plan>>, next' \in {"generator", "critic"},
             next \in {"reranker", "generator"}
      PROVE  PassesCounted'
  <2>1. PassesAllowed' = PassesAllowed
    BY <1>6 DEF PassesAllowed, EffectiveCap
  <2> QED BY <1>6, <2>1 DEF PassesCounted
<1>7. ASSUME NEW best \in SUBSET ChunkIds, Reranker(best) PROVE PassesCounted'
  BY <1>6, <1>7 DEF Reranker
<1>8. ASSUME NEW answer, Draft(answer), next = "generator" PROVE PassesCounted'
  BY <1>6, <1>8 DEF Draft
<1>9. CASE CriticSkips \/ CriticApproves
  <2>1. next' = "hitl_gate" /\ UNCHANGED <<passes, retry_count, plan>>
    BY <1>9 DEF CriticSkips, CriticApproves, FlagForAbstention, RouteAfterCritic
  <2> QED BY <1>3, <2>1
\* An objection counts the pass it objects to.
<1>10. CASE CriticObjects
  <2>1. /\ UNCHANGED <<passes, plan>> /\ next = "critic" /\ retry_count' = retry_count + 1
        /\ next' \in {"retriever", "hitl_gate"}
        /\ next' = "retriever" => MayRetry(retry_count')
    BY <1>10 DEF CriticObjects, RouteAfterCritic, CountRetry
  <2>2. PassesAllowed' = PassesAllowed /\ EffectiveCap' = EffectiveCap
    BY <2>1 DEF PassesAllowed, EffectiveCap
  <2>3. passes' = retry_count'
    BY <2>1 DEF PassesCounted
  <2>4. next' = "retriever" => retry_count' < EffectiveCap'
    BY <2>1, <2>2 DEF MayRetry
  <2> QED BY <2>1, <2>2, <2>3, <2>4 DEF PassesCounted
<1>11. CASE Begin \/ AutoApprove \/ Interrupt \/ Ask \/ LoopEnds \/ Complete \/ ReadFails
            \/ Finish \/ Lose
  BY <1>3, <1>11 DEF Begin, AutoApprove, Interrupt, Ask, LoopEnds, Complete, ReadFails,
                     Finish, Lose
<1>12. ASSUME NEW reason, Fail(reason) PROVE PassesCounted'
  BY <1>3, <1>12 DEF Fail
<1>13. ASSUME NEW payload, NEW cited, Resume(payload, cited) PROVE PassesCounted'
  BY <1>3, <1>13 DEF Resume
<1>14. CASE UNCHANGED vars
  <2>1. PassesAllowed' = PassesAllowed /\ EffectiveCap' = EffectiveCap
    BY <1>14 DEF vars, PassesAllowed, EffectiveCap
  <2> QED BY <1>14, <2>1 DEF vars, PassesCounted
<1> QED
  BY <1>4, <1>5, <1>7, <1>8, <1>9, <1>10, <1>11, <1>12, <1>13, <1>14
     DEF Next, Step, Done, Critic, GenerateNothing, Generate

(***************************************************************************)
(* For any request, any plan and any verdicts, the retriever runs no more  *)
(* often than the caps allow.                                              *)
(***************************************************************************)
THEOREM PassesCorrect == Spec => []PassesCapped
<1>1. Init => PassesCounted
  <2> SUFFICES ASSUME Init PROVE PassesCounted
    OBVIOUS
  <2>1. max_retries \in Int /\ retry_budget \in Int
    BY GraphAssumption DEF Init
  <2>2. PassesAllowed \in Int /\ PassesAllowed >= 1
    BY <2>1 DEF PassesAllowed, EffectiveCap, Larger, Smaller
  <2> QED BY <2>2 DEF Init, PassesCounted
<1>2. PassesCounted => PassesCapped
  BY DEF PassesCounted, PassesCapped
<1> QED BY <1>1, <1>2, PassesNext, GraphTypeCorrect, PTL DEF Spec

----------------------------------------------------------------------------
\* The critic's word on the present draft, or what is left of its veto.
Vetted == \/ verdict = "faithful"
          \/ verdict = "unfaithful" /\ retry_count >= EffectiveCap

\* From the generator on, a draft is an abstention or cites what it was
\* shown; at the gate it has been vetted too; and what the gate lets pass on
\* its own is behind the nodes that could change it.
Gated ==
  /\ next \in {"critic", "hitl_gate"} => abstained \/ citations \subseteq reranked_chunks
  /\ next = "hitl_gate" => abstained \/ Vetted
  /\ Unreviewed => /\ ~abstained /\ confidence >= Threshold
                   /\ citations \subseteq reranked_chunks
                   /\ Vetted
                   /\ next \in {"closing", "reading", "told", "end", "paused", "failed", "lost"}

\* Every step keeps what the gate has checked.
LEMMA GatedNext == TypeOK /\ Gated /\ [Next]_vars => Gated'
<1> SUFFICES ASSUME TypeOK, Gated, [Next]_vars PROVE Gated'
  OBVIOUS
<1> USE DEF plan, evidence, draft, review, approval
\* Nodes run before anybody approved anything.
<1>1. next \in Nodes \cup {"start", "asking"} => ~Unreviewed
  BY DEF Gated, Nodes, LLMNodes
<1>2. ASSUME next \in Nodes \cup {"start", "asking"}, UNCHANGED approval,
             next' \notin {"critic", "hitl_gate"}
      PROVE  Gated'
  BY <1>1, <1>2 DEF Gated, Unreviewed
<1>3. CASE Begin \/ Interrupt \/ Ask
  BY <1>2, <1>3 DEF Begin, Interrupt, Ask, Nodes
<1>4. ASSUME NEW planned, NEW scope, Planner(planned, scope) PROVE Gated'
  <2>1. CASE scope = "out_of_scope"
    BY <1>1, <1>4, <2>1 DEF Planner, Gated, Unreviewed, Nodes, LLMNodes
  <2>2. CASE scope # "out_of_scope"
    BY <1>2, <1>4, <2>2 DEF Planner, Nodes, LLMNodes
  <2> QED BY <2>1, <2>2
<1>5. ASSUME NEW found, Retriever(found) PROVE Gated'
  BY <1>2, <1>5 DEF Retriever, Nodes
<1>6. ASSUME NEW best, Reranker(best) PROVE Gated'
  BY <1>2, <1>6 DEF Reranker, Nodes
<1>7. ASSUME NEW answer, next = "generator", Draft(answer),
             answer.abstained \/ answer.citations \subseteq reranked_chunks
      PROVE  Gated'
  BY <1>1, <1>7 DEF Draft, Gated, Unreviewed, Nodes, LLMNodes
<1>8. CASE GenerateNothing
  BY <1>7, <1>8 DEF GenerateNothing
<1>9. ASSUME NEW answer \in Answers, Generate(answer) PROVE Gated'
  <2>1. \/ ValidateCitations(answer).abstained
        \/ ValidateCitations(answer).citations \subseteq reranked_chunks
    BY DEF ValidateCitations, Answers
  <2> QED BY <1>7, <1>9, <2>1 DEF Generate
<1>10. CASE Critic
  <2>1. /\ next = "critic" /\ UNCHANGED <<plan, draft, evidence, approval>>
        /\ next' \in {"retriever", "hitl_gate"}
    BY <1>10 DEF Critic, CriticSkips, CriticApproves, CriticObjects, RouteAfterCritic
  <2>2. next' = "hitl_gate" => abstained' \/ Vetted'
    <3>1. CASE CriticSkips
      BY <3>1 DEF CriticSkips
    <3>2. CASE CriticApproves
      BY <3>2 DEF CriticApproves, Vetted
    <3>3. CASE CriticObjects
      <4>1. needs_retry' = TRUE /\ verdict' = "unfaithful" /\ RouteAfterCritic
            /\ retry_count' \in Int
        BY <3>3 DEF CriticObjects, CountRetry, TypeOK
      <4>2. EffectiveCap' = EffectiveCap /\ EffectiveCap \in Int
        BY <2>1 DEF EffectiveCap, Smaller, TypeOK
      <4> QED BY <4>1, <4>2 DEF RouteAfterCritic, MayRetry, Vetted
    <3> QED BY <1>10, <3>1, <3>2, <3>3 DEF Critic
  <2> QED BY <1>1, <2>1, <2>2 DEF Gated, Unreviewed, Nodes, LLMNodes
<1>11. CASE AutoApprove
  <2>1. /\ next = "hitl_gate" /\ next' = "closing" /\ ~NeedsHumanReview
        /\ UNCHANGED <<plan, evidence, draft, review>>
    BY <1>11 DEF AutoApprove
  <2>2. ~abstained /\ confidence >= Threshold
    <3>1. confidence \in Int /\ Threshold \in Int
      BY <2>1, GraphAssumption DEF TypeOK, NeedsHumanReview
    <3> QED BY <2>1, <3>1 DEF NeedsHumanReview
  <2>3. Vetted' = Vetted
    BY <2>1 DEF Vetted, EffectiveCap
  <2> QED BY <2>1, <2>2, <2>3 DEF Gated
\* What comes after the gate touches neither the draft nor its review.
<1>12. ASSUME UNCHANGED <<plan, evidence, draft, review, approval>>,
              next' \in {"closing", "reading", "told", "end", "paused", "failed", "lost"}
       PROVE  Gated'
  <2>1. Vetted' = Vetted /\ Unreviewed' = Unreviewed
    BY <1>12 DEF Vetted, EffectiveCap, Unreviewed
  <2> QED BY <1>12, <2>1 DEF Gated
<1>13. CASE LoopEnds \/ Complete \/ ReadFails \/ Finish \/ Lose
  BY <1>12, <1>13 DEF LoopEnds, Complete, ReadFails, Finish, Lose
<1>14. ASSUME NEW reason, Fail(reason) PROVE Gated'
  BY <1>12, <1>14 DEF Fail
<1>15. ASSUME NEW payload \in Decisions, NEW cited, Resume(payload, cited) PROVE Gated'
  BY <1>15 DEF Resume, Gated, Unreviewed, Decisions, Bools
<1>16. CASE UNCHANGED vars
  <2>1. Vetted' = Vetted /\ Unreviewed' = Unreviewed
    BY <1>16 DEF vars, Vetted, EffectiveCap, Unreviewed
  <2> QED BY <1>16, <2>1 DEF vars, Gated
<1> QED
  BY <1>3, <1>4, <1>5, <1>6, <1>8, <1>9, <1>10, <1>11, <1>13, <1>14, <1>15, <1>16
     DEF Next, Step, Done

\* What the gate has checked holds in every state of a run.
LEMMA GatedAlways == Spec => []Gated
<1>1. Init => Gated
  BY DEF Init, Gated, Unreviewed
<1> QED BY <1>1, GatedNext, GraphTypeCorrect, PTL DEF Spec

(***************************************************************************)
(* Whatever the models answer and however many passes it takes, an answer  *)
(* nobody reviewed is confident, grounded and not an abstention.           *)
(***************************************************************************)
THEOREM GroundedCorrect == Spec => []AutoApprovedGrounded
<1>1. Gated => AutoApprovedGrounded
  BY DEF Gated, AutoApprovedGrounded
<1> QED BY <1>1, GatedAlways, PTL

(***************************************************************************)
(* Such an answer has been fact-checked as it stands, and only the caps    *)
(* can override an objection.                                              *)
(***************************************************************************)
THEOREM VetoCorrect == Spec => []VetoStands
<1>1. Gated => VetoStands
  BY DEF Gated, Vetted, VetoStands
<1> QED BY <1>1, GatedAlways, PTL

(***************************************************************************)
(* No abstention is sent back for another draft.                           *)
(***************************************************************************)
THEOREM AbstentionCorrect == Spec => AbstentionStands
<1>1. ASSUME [Next]_vars, next = "critic", abstained PROVE next' # "retriever"
  <2>1. CASE CriticSkips
    BY <2>1 DEF CriticSkips, FlagForAbstention, RouteAfterCritic
  <2>2. CASE ~CriticSkips
    BY <1>1, <2>2 DEF Next, Step, Begin, Planner, Retriever, Reranker, GenerateNothing,
       Generate, Critic, CriticApproves, CriticObjects, AutoApprove, Interrupt, Ask,
       LoopEnds, Complete, ReadFails, Finish, Fail, Lose, Resume, Done, vars
  <2> QED BY <2>1, <2>2
<1>2. [Next]_vars => [next = "critic" /\ abstained => next' # "retriever"]_vars
  BY <1>1
<1> QED BY <1>2, PTL DEF Spec, AbstentionStands

----------------------------------------------------------------------------
\* The last event sent, by where the run stands.
Told ==
  /\ next \in Nodes \cup {"start", "asking", "closing", "reading", "told"} => over = "no"
  /\ next = "start" => last = "nothing"
  /\ next = "planner" => last = "started"
  /\ next \in {"retriever", "hitl_gate"} => last \in {"progress", "retry_loop"}
  /\ next \in {"reranker", "generator", "critic", "asking", "reading"} => last = "progress"
  /\ next = "closing" => last \in {"progress", "interrupted"}
  /\ next = "told" => last = "completed"
  /\ next = "failed" /\ over = "no" => last \in Stream!Errors

\* Every step of a run keeps to the place of its last event, and is a step of
\* the event stream or none at all.
LEMMA ToldNext == Told /\ [Next]_vars => Told' /\ [Stream!Next]_Stream!streamVars
<1> SUFFICES ASSUME Told, [Next]_vars
             PROVE  Told' /\ [Stream!Next]_Stream!streamVars
  OBVIOUS
<1> USE DEF Nodes, LLMNodes, Stream!streamVars
<1>1. ASSUME over = "no", UNCHANGED over, last' \in Stream!After(last)
      PROVE  [Stream!Next]_Stream!streamVars
  BY <1>1 DEF Stream!Next, Stream!Send
<1>2. /\ "started" \in Stream!After("nothing")
      /\ "progress" \in Stream!After("started")
      /\ "progress" \in Stream!After("progress")
      /\ "retry_loop" \in Stream!After("progress")
      /\ "progress" \in Stream!After("retry_loop")
      /\ "interrupted" \in Stream!After("progress")
      /\ "completed" \in Stream!After("progress")
      /\ \A event \in {"started", "progress", "retry_loop"} :
           \A reason \in Stream!Errors : reason \in Stream!After(event)
      /\ "internal_error" \in Stream!After("interrupted")
  BY DEF Stream!After, Stream!Terminals, Stream!Errors
<1>3. CASE Begin
  BY <1>1, <1>2, <1>3 DEF Begin, Told
<1>4. ASSUME NEW planned, NEW scope, Planner(planned, scope)
      PROVE  Told' /\ [Stream!Next]_Stream!streamVars
  BY <1>1, <1>2, <1>4 DEF Planner, Told
<1>5. ASSUME NEW found, Retriever(found)
      PROVE  Told' /\ [Stream!Next]_Stream!streamVars
  BY <1>1, <1>2, <1>5 DEF Retriever, Told
<1>6. ASSUME NEW best, Reranker(best)
      PROVE  Told' /\ [Stream!Next]_Stream!streamVars
  BY <1>1, <1>2, <1>6 DEF Reranker, Told
<1>7. ASSUME NEW answer, next = "generator", Draft(answer)
      PROVE  Told' /\ [Stream!Next]_Stream!streamVars
  BY <1>1, <1>2, <1>7 DEF Draft, Told
<1>8. CASE Critic
  <2>1. /\ next = "critic" /\ next' \in {"retriever", "hitl_gate"} /\ UNCHANGED over
        /\ last' \in {"progress", "retry_loop"}
    BY <1>8 DEF Critic, CriticSkips, CriticApproves, CriticObjects, RouteAfterCritic
  <2> QED BY <1>1, <1>2, <2>1 DEF Told
<1>9. CASE AutoApprove \/ Interrupt \/ Ask \/ Complete
  BY <1>1, <1>2, <1>9 DEF AutoApprove, Interrupt, Ask, Complete, Told
<1>10. CASE LoopEnds \/ ReadFails \/ Finish
  BY <1>10 DEF LoopEnds, Interrupted, ReadFails, Finish, Told, Stream!Next, Stream!Return,
               Stream!Raise, Stream!MayReturn, Stream!MayRaise, Stream!Terminals
<1>11. ASSUME NEW reason \in Reasons, Fail(reason)
       PROVE  Told' /\ [Stream!Next]_Stream!streamVars
  <2>1. reason \in Stream!Errors
    BY DEF Reasons, Stream!Errors
  <2>2. last = "interrupted" => reason = "internal_error"
    BY <1>11 DEF Told, Fail, Reasons
  <2>3. over = "no" /\ last \in {"started", "progress", "retry_loop", "interrupted"}
    BY <1>11 DEF Told, Fail
  <2> QED BY <1>1, <1>2, <1>11, <2>1, <2>2, <2>3 DEF Fail, Told
<1>12. CASE Lose
  BY <1>12 DEF Lose, Told, Stream!Next, Stream!Lose
<1>13. ASSUME NEW payload, NEW cited, Resume(payload, cited)
       PROVE  Told' /\ [Stream!Next]_Stream!streamVars
  BY <1>13 DEF Resume, Told
<1>14. CASE UNCHANGED vars
  BY <1>14 DEF vars, Told
<1> QED
  BY <1>3, <1>4, <1>5, <1>6, <1>7, <1>8, <1>9, <1>10, <1>11, <1>12, <1>13, <1>14
     DEF Next, Step, Done, GenerateNothing, Generate

(***************************************************************************)
(* A run's events are those the route is promised: one opening, and one    *)
(* word on how it came out before the stream returns.                      *)
(***************************************************************************)
THEOREM StreamCorrect == Spec => ImplementsEventStream
<1>1. Init => Told /\ Stream!Init
  BY DEF Init, Told, Stream!Init, Nodes, LLMNodes
<1> QED BY <1>1, ToldNext, PTL DEF Spec, ImplementsEventStream, Stream!Spec
=============================================================================
