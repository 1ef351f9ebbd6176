---------------------------- MODULE PromptedJson ----------------------------
(***************************************************************************)
(* llm.prompted_json.complete_json over llm.gateway.Gateway, with the      *)
(* contents of the response cache (llm.cache) and the audit record of each *)
(* provider attempt (llm.audit).  Concurrent callers on one event loop; a  *)
(* step runs from one await to the next.  Module Gateway has the budget,   *)
(* the fallback chain and the semaphores; here a gateway call is refused,  *)
(* or makes some attempts of which the last may bring a text.              *)
(***************************************************************************)
EXTENDS Naturals, Sequences

CONSTANTS
  Callers,       \* the calls of complete_json, each made once
  Prompts,       \* what they ask: tier, messages, max_tokens
  Schemas,
  SchemaOf,      \* SchemaOf[p]: the prompt's response_model
  Texts,         \* what a model may reply
  Fits,          \* Fits[s]: the texts that hold a valid object for s
  Distance,      \* Distance[a, b]: of the embeddings of two last messages
  Threshold,     \* cache_semantic_distance_threshold
  MaxCandidates, \* cache_semantic_max_candidates
  MaxAttempts    \* bound: attempts one gateway call makes over its chain

\* The conversations sent: a prompt, or a prompt with a reply to be repaired.
Requests == Seq(Prompts \cup Texts)
First(p) == <<p>>

\* request.messages[-1]: the instruction, which holds the schema and nothing
\* of the question, or the demand for a repair, which quotes the reply.
LastMessages == {<<s>> : s \in Schemas} \cup (Schemas \X Texts)
LastMessage(r) ==
  IF Len(r) = 1 THEN <<SchemaOf[r[1]]>> ELSE <<SchemaOf[r[1]], r[2]>>

ASSUME PromptAssumption ==
  /\ SchemaOf \in [Prompts -> Schemas]
  /\ Texts # {}
  /\ Fits \in [Schemas -> SUBSET Texts]
  /\ Distance \in [LastMessages \X LastMessages -> Nat]
  /\ Threshold \in Nat
  /\ MaxCandidates \in Nat \ {0}
  /\ MaxAttempts \in Nat \ {0}

VARIABLES
  embedder,  \* the gateway was built with an embedder
  recorder,  \* the audit trace is on
  exact,     \* llm:cache:exact: the entries that are set
  nearby,    \* llm:cache:semantic:<tier>: pushed at the front
  prompt,    \* a caller's arguments
  pc,        \* the await a caller stands at
  round,     \* _attempt of complete_json's loop, from 1
  request,   \* working_messages
  best,      \* best_exact_key, none for no candidate
  text,      \* the text of the response, or of the reply shown last
  tries,     \* _AttemptChain.attempt
  lastId,    \* _AttemptChain.last_call_id, 0 for None
  trail,     \* the records of this gateway call, by attempt
  sources,   \* history: for which request each reply shown was generated
  outcome

cacheVars == <<exact, nearby>>
auditVars == <<tries, lastId, trail>>
askVars   == <<round, request, sources, outcome>>
vars == <<embedder, recorder, cacheVars, prompt, pc, best, text, auditVars, askVars>>

None == <<>>

Entries == [request : Requests, text : Texts]

Records == [recorded : BOOLEAN, link : Nat, open : BOOLEAN]

Steps == {"idle", "exact", "scan", "near", "try", "calling", "store", "push", "trim", "end"}

TypeOK ==
  /\ embedder \in BOOLEAN /\ recorder \in BOOLEAN
  /\ exact \subseteq Entries
  /\ nearby \in Seq([last : LastMessages, key : Requests])
  /\ prompt \in [Callers -> Prompts]
  /\ pc \in [Callers -> Steps]
  /\ round \in [Callers -> {1, 2}]
  /\ request \in [Callers -> Requests]
  /\ best \in [Callers -> Requests]
  /\ text \in [Callers -> Texts]
  /\ tries \in [Callers -> Nat]
  /\ lastId \in [Callers -> Nat]
  /\ trail \in [Callers -> Seq(Records)]
  /\ sources \in [Callers -> Seq(Requests)]
  /\ outcome \in [Callers -> {"none", "value", "unparsed", "failed"}]

Init ==
  /\ embedder \in BOOLEAN /\ recorder \in BOOLEAN
  /\ exact = {} /\ nearby = <<>>
  /\ prompt \in [Callers -> Prompts]
  /\ pc = [c \in Callers |-> "idle"]
  /\ round = [c \in Callers |-> 1]
  /\ request = [c \in Callers |-> First(prompt[c])]
  /\ best = [c \in Callers |-> None]
  /\ text = [c \in Callers |-> CHOOSE t \in Texts : TRUE]
  /\ tries = [c \in Callers |-> 0]
  /\ lastId = [c \in Callers |-> 0]
  /\ trail = [c \in Callers |-> <<>>]
  /\ sources = [c \in Callers |-> <<>>]
  /\ outcome = [c \in Callers |-> "none"]

----------------------------------------------------------------------------
At(c, step) == pc[c] = step
Goto(c, step) == pc' = [pc EXCEPT ![c] = step]

End(c, how) ==
  /\ Goto(c, "end")
  /\ outcome' = [outcome EXCEPT ![c] = how]

\* extract_json_object finds an object and response_model accepts it.
Parses(c, t) == t \in Fits[SchemaOf[prompt[c]]]

\* A gateway call begins: a cache lookup, and a new _AttemptChain.
Ask(c) ==
  /\ Goto(c, "exact")
  /\ tries' = [tries EXCEPT ![c] = 0]
  /\ lastId' = [lastId EXCEPT ![c] = 0]
  /\ trail' = [trail EXCEPT ![c] = <<>>]

Begin(c) ==
  /\ At(c, "idle")
  /\ Ask(c)
  /\ UNCHANGED <<embedder, recorder, cacheVars, prompt, best, text, askVars>>

\* Mutant: the repair repeats the question and does not quote the bad reply.
AskAgain(c, t) == request[c]

Repair(c, t) == Append(request[c], t)

\* complete() returns e.text: complete_json parses it, asks once for a
\* repair, and fails.
Receive(c, e) ==
  /\ text' = [text EXCEPT ![c] = e.text]
  /\ sources' = [sources EXCEPT ![c] = Append(@, e.request)]
  /\ \/ /\ Parses(c, e.text)
        /\ End(c, "value")
        /\ UNCHANGED <<round, request, auditVars>>
     \/ /\ ~Parses(c, e.text)
        /\ round[c] = 1
        /\ round' = [round EXCEPT ![c] = 2]
        /\ request' = [request EXCEPT ![c] = Repair(c, e.text)]
        /\ Ask(c)
        /\ UNCHANGED outcome
     \/ /\ ~Parses(c, e.text)
        /\ round[c] = 2
        /\ End(c, "unparsed")
        /\ UNCHANGED <<round, request, auditVars>>

----------------------------------------------------------------------------
\* Mutant: the key is computed from the last message alone.
KeyOfLastMessage(r) == LastMessage(r)

\* _cache_key covers tier, all messages, temperature, max_tokens and model.
CacheKey(r) == r

Stored(r) == {e \in exact : CacheKey(e.request) = CacheKey(r)}

\* ResponseCache.get, the exact layer.
LookExact(c) ==
  /\ At(c, "exact")
  /\ \/ \E e \in Stored(request[c]) : Receive(c, e)
     \/ /\ Stored(request[c]) = {}
        /\ Goto(c, IF embedder THEN "scan" ELSE "try")
        /\ UNCHANGED <<text, auditVars, askVars>>
  /\ UNCHANGED <<embedder, recorder, cacheVars, prompt, best>>

\* The brute-force scan: the first of the candidates at the least distance.
Closest(r) ==
  LET d(i) == Distance[LastMessage(r), nearby[i].last]
  IN  {i \in DOMAIN nearby :
         \A j \in DOMAIN nearby : d(i) < d(j) \/ (d(i) = d(j) /\ i <= j)}

CloseEnough(r, i) == Distance[LastMessage(r), nearby[i].last] <= Threshold

\* embed_query, LRANGE.
Scan(c) ==
  /\ At(c, "scan")
  /\ \/ \E i \in Closest(request[c]) :
          /\ CloseEnough(request[c], i)
          /\ best' = [best EXCEPT ![c] = nearby[i].key]
          /\ Goto(c, "near")
     \/ /\ \A i \in Closest(request[c]) : ~CloseEnough(request[c], i)
        /\ Goto(c, "try")
        /\ UNCHANGED best
  /\ UNCHANGED <<embedder, recorder, cacheVars, prompt, text, auditVars, askVars>>

\* The candidate's exact entry, which may have expired since.
LookNear(c) ==
  /\ At(c, "near")
  /\ \/ \E e \in Stored(best[c]) : Receive(c, e)
     \/ /\ Stored(best[c]) = {}
        /\ Goto(c, "try")
        /\ UNCHANGED <<text, auditVars, askVars>>
  /\ best' = [best EXCEPT ![c] = None]
  /\ UNCHANGED <<embedder, recorder, cacheVars, prompt>>

----------------------------------------------------------------------------
\* Mutant: an attempt without a record leaves the last record's id standing.
KeepId(c, recorded) == IF recorded THEN tries[c] + 1 ELSE lastId[c]

\* handle.call_id: None when the record could not be started.
CallId(c, recorded) == IF recorded THEN tries[c] + 1 ELSE 0

\* AttemptRecorder.start, which catches its own errors, then completion_fn.
Attempt(c, recorded) ==
  /\ At(c, "try")
  /\ tries[c] < MaxAttempts
  /\ recorded => recorder
  /\ tries' = [tries EXCEPT ![c] = @ + 1]
  /\ lastId' = [lastId EXCEPT ![c] = CallId(c, recorded)]
  /\ trail' = [trail EXCEPT ![c] = Append(@,
       [recorded |-> recorded, link |-> IF recorded THEN lastId[c] ELSE 0,
        open |-> recorded])]
  /\ Goto(c, "calling")
  /\ UNCHANGED <<embedder, recorder, cacheVars, prompt, best, text, askVars>>

\* succeed() or fail() stops the span, and swallows an error in doing so.
Close(c) == trail' = [trail EXCEPT ![c][tries[c]].open = FALSE]

\* The response came and is well-formed.
Reply(c, t) ==
  /\ At(c, "calling")
  /\ Close(c)
  /\ text' = [text EXCEPT ![c] = t]
  /\ Goto(c, "store")
  /\ UNCHANGED <<embedder, recorder, cacheVars, prompt, best, tries, lastId, askVars>>

\* The attempt raises: another one follows, on this provider or the next, or
\* the gateway call is over, and complete_json with it.
AttemptFails(c) ==
  /\ At(c, "calling")
  /\ Close(c)
  /\ \/ /\ tries[c] < MaxAttempts
        /\ Goto(c, "try")
        /\ UNCHANGED outcome
     \/ End(c, "failed")
  /\ UNCHANGED <<embedder, recorder, cacheVars, prompt, best, text, tries, lastId,
                 round, request, sources>>

\* Mutant: only an Exception closes the record, a CancelledError does not.
LeaveOpen(c) == UNCHANGED trail

CloseOnCancel(c) == Close(c)

\* The task is cancelled, the budget refuses the call, every provider is
\* skipped, or Redis fails: no repair follows.
Cut(c) ==
  /\ pc[c] \notin {"idle", "end"}
  /\ End(c, "failed")
  /\ IF At(c, "calling") THEN CloseOnCancel(c) ELSE UNCHANGED trail
  /\ UNCHANGED <<embedder, recorder, cacheVars, prompt, best, text, tries, lastId,
                 round, request, sources>>

----------------------------------------------------------------------------
\* ResponseCache.put: SET replaces the entry of the key.
Fresh(c) == [request |-> request[c], text |-> text[c]]

Store(c) ==
  /\ At(c, "store")
  /\ exact' = (exact \ Stored(request[c])) \cup {Fresh(c)}
  /\ IF embedder
       THEN Goto(c, "push") /\ UNCHANGED <<text, auditVars, askVars>>
       ELSE Receive(c, Fresh(c))
  /\ UNCHANGED <<embedder, recorder, nearby, prompt, best>>

\* embed_query, LPUSH.
Push(c) ==
  /\ At(c, "push")
  /\ nearby' = <<[last |-> LastMessage(request[c]), key |-> request[c]]>> \o nearby
  /\ Goto(c, "trim")
  /\ UNCHANGED <<embedder, recorder, exact, prompt, best, text, auditVars, askVars>>

\* LTRIM, EXPIRE; complete() returns.
Trim(c) ==
  /\ At(c, "trim")
  /\ nearby' = SubSeq(nearby, 1, IF Len(nearby) < MaxCandidates THEN Len(nearby)
                                                                ELSE MaxCandidates)
  /\ Receive(c, Fresh(c))
  /\ UNCHANGED <<embedder, recorder, exact, prompt, best>>

\* The time to live of an entry, or of the candidates, runs out.
Expire ==
  /\ \/ \E e \in exact : exact' = exact \ {e} /\ UNCHANGED nearby
     \/ nearby # <<>> /\ nearby' = <<>> /\ UNCHANGED exact
  /\ UNCHANGED <<embedder, recorder, prompt, pc, best, text, auditVars, askVars>>

Done ==
  /\ \A c \in Callers : At(c, "end")
  /\ UNCHANGED vars

Advance(c) ==
  \/ Begin(c) \/ LookExact(c) \/ Scan(c) \/ LookNear(c)
  \/ Store(c) \/ Push(c) \/ Trim(c)

Provider(c) ==
  \/ \E recorded \in BOOLEAN : Attempt(c, recorded)
  \/ \E t \in Texts : Reply(c, t)
  \/ AttemptFails(c)

Next ==
  \/ \E c \in Callers : Advance(c) \/ Provider(c) \/ Cut(c)
  \/ Expire
  \/ Done

Spec == Init /\ [][Next]_vars

----------------------------------------------------------------------------
\* The conversation a caller had sent when it got its i-th reply.
Asked(c, i) == SubSeq(request[c], 1, i)

(***************************************************************************)
(* Every reply a caller is shown, paid for or replayed, was generated for  *)
(* the very conversation it had sent, whichever of two callers stored last *)
(* and whatever expired in between; with the semantic layer on, for one    *)
(* whose last message is within the threshold, and no more can be said:    *)
(* complete_json's first requests of one schema all end on the same        *)
(* message (_cache_key, ResponseCache.get and put, complete_json).         *)
(***************************************************************************)
AnswersBelong ==
  \A c \in Callers : \A i \in DOMAIN sources[c] :
    \/ sources[c][i] = Asked(c, i)
    \/ /\ embedder
       /\ Distance[LastMessage(Asked(c, i)), LastMessage(sources[c][i])] <= Threshold

(***************************************************************************)
(* complete_json gives up only on two replies that do not fit: one to its  *)
(* prompt and one to a request that quotes the first.  A bad text that the *)
(* exact cache goes on replaying is met by a repair, never by the same     *)
(* replay twice (the loop of complete_json).                               *)
(***************************************************************************)
FailureIsRepaired ==
  \A c \in Callers : outcome[c] = "unparsed" =>
    /\ Len(request[c]) = 2 /\ request[c][1] = prompt[c]
    /\ ~Parses(c, request[c][2]) /\ ~Parses(c, text[c])
    /\ Len(sources[c]) = 2
    /\ ~embedder => sources[c][2] = Append(sources[c][1], request[c][2])

(***************************************************************************)
(* The audit of a gateway call: one place per attempt; a record names the  *)
(* attempt just before it, or none when that one has no record; and only   *)
(* the attempt that is under way is open, however the others ended, by     *)
(* retry, fallback or cancellation (_AttemptChain, AttemptRecorder).       *)
(***************************************************************************)
TrailSound ==
  \A c \in Callers :
    /\ Len(trail[c]) = tries[c]
    /\ \A i \in DOMAIN trail[c] :
         /\ trail[c][i].link = IF trail[c][i].recorded /\ i > 1 /\ trail[c][i - 1].recorded
                                 THEN i - 1 ELSE 0
         /\ trail[c][i].open => i = tries[c] /\ At(c, "calling")
=============================================================================
