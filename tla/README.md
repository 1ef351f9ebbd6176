# A formal model of AI_Lab

AI_Lab answers questions about EU regulation. A query arrives at a FastAPI
endpoint, runs through a LangGraph graph of six nodes, and comes back as a stream
of server-sent events; every model call goes through one gateway with a token
budget, retries and fallbacks. Around that core stand ingestion, an evaluation
tool chain and a Next.js client.

This directory models the core, the ingestion and the evaluation tools in TLA+,
checks them with TLC on small instances and proves the main properties of the core
with TLAPS for every value of the constants.

1. [Inventory](#1-inventory)
2. [Modules and how they correspond to the code](#2-modules)
3. [Runs, bounds and what they show](#3-runs)
4. [Fairness](#4-fairness)
5. [Proofs](#5-proofs)
6. [Disagreements between code and documentation](#6-findings)
7. [Abstractions, and what is not modelled](#7-abstractions)
8. [Plan](#8-plan)

Paths are relative to `src/`. `PROJECT.json` lists components, runs, hazards and
theorems, and maps each definition to the lines it stands for.

## 1. Inventory

### LLM gateway (`packages/llm/src/llm/gateway.py`, `registry.py`)

*State*: one `asyncio.Semaphore` per provider name, made on first use; per call
the position in the tier's fallback chain and the attempt counters.
*Operations*: `complete`, the only way any component talks to a model: refuse
uploads bound for a remote tier, look in the cache, price the request, reserve,
walk the chain (skip, attempt, retry, fall back), reconcile or release, count the
request against the provider, store the answer.
*Hard*: many calls share three Redis counters and the semaphores, interleave at
every await, are cancelled, and straddle midnight; retries are counted twice, by
tenacity and by the fallback loop.
*Correct when*: permits are never lost, attempts are bounded, exhaustion means
that everything was tried, every call ends.

### Token budget (`budget.py`) and provider usage (`provider_usage.py`)

*State*: `llm:budget:tokens:<day>`, `llm:provider_usage:<provider>:<day>` in Redis.
*Operations*: `reserve` (INCRBY, then DECRBY if the ceiling is passed),
`reconcile`, `release`; `near_ceiling`, `record_request`.
*Hard*: the booking and its return are two commands; the correction must go to
the day of the booking.
*Correct when*: a day's key holds exactly what its calls stand for, and calls are
let through only within the day's ceiling.

### Response cache, prompted JSON, audit (`cache.py`, `prompted_json.py`, `audit.py`)

*State*: in Redis an answer for each request hash, with a time to live, and per tier
a list of embedded last messages that point at such hashes; per gateway call the
number of its attempts and the id of the last audit record.
*Operations*: `get`, `put`, each of several awaits; `complete_json`: ask, parse, ask
once for a repair, fail; `start`, `succeed`, `fail` of a record.
*Hard*: two callers with one prompt both miss, both pay, and the later one's text
stays; a stored reply need not parse; an entry expires between the scan that found
it and the read; a record cannot be started, or its attempt is cancelled.
*Correct when*: what a caller is shown was generated for what it had sent, it gives up
only after a repair that quotes the bad reply, records link to the attempt before
and none stays open.

### Agent graph (`apps/api/src/api/graph/nodes.py`, `build.py`, `state.py`)

*State*: the channels of `AgentState`, checkpointed in Postgres after every node.
*Operations*: planner, retriever, reranker, generator, critic, HITL gate; the
routers after planner and critic; resuming a paused run with a reviewer's payload.
*Interacts*: LLM nodes call the gateway; retriever and reranker use their ports;
`streaming.py` turns node boundaries into events.
*Hard*: channels survive from one pass of the loop to the next; three nodes in
different passes write what the gate decides on; the loop's exit depends on one
counter and two caps; anything may fail anywhere.
*Correct when*: the loop is bounded, what passes the gate unreviewed is confident,
grounded and checked, abstentions are not redrafted, malformed decisions reject.

### Event stream (`apps/api/src/api/graph/streaming.py`, `events.py`)

*State*: whether an interrupt was seen. *Operations*: `stream_graph_events`.
*Correct when*: one opening event, progress, one verdict; after a verdict nothing
but the news that saving a paused run failed; it raises only at the read-back.

### SSE route and rate limiter (`routes/stream.py`, `ratelimit.py`, `graph/scope_guard.py`)

*State*: `api:ratelimit:<client>:<hour>` in Redis with a time to live; per request
two frame counters, one in each of two nested generators, and the refund flag.
*Operations*: `check` (INCR, EXPIRE), `refund` (a Lua script), `_sse_body`,
`_guarded_sse_body`.
*Hard*: requests of one visitor interleave, the hour turns and the bucket expires
between taking its name and using it, Redis fails before or after doing its work, the
visitor leaves, the refund depends on the last event before the end.
*Correct when*: the limit holds for each life of a bucket, the right runs are refunded, the frames are
numbered without gaps and the response always ends on a verdict.

### Web client (`apps/web`)

*State*: in `Home` the event log, whether it streams, and three refs: latch, abort
controller, timeout flag; in `AgentGraph` the reducer's state and how much of the
log it has applied; per call the timers and the position in its source.
*Operations*: `runQuery` with `streamQuery` or `replayCachedQuery`, the hard timeout,
the effect that feeds `graphReducer`, `selectTerminal`, the way back to the examples.
*Hard*: renders lag behind events, refs are shared by all calls, the graph keeps
its state from query to query, the backend fails, stops or hangs anywhere.
*Correct when*: what is shown is an outcome of the last query, each event is drawn
once, no two runs mix, every query ends.

### Ingestion (`apps/ingest`)

*State*: `<slug>.xhtml` on disk, the table `chunks` in Postgres.
*Operations*: `ingest-corpus`: for each document fetch or read the cache, parse in one
flat scan, cut into chunks, upsert all in one transaction.
*Hard*: the command dies anywhere and is run again, with or without `--force-refresh`
and `--max-items`; editions change; chunk ids are made of numbers that may be missing.
*Correct when*: retrieval sees each part of the text committed last and nothing newer,
and each chunk names the place a flat scan can know.

### Candidate review and golden set (`packages/evals`: `candidates.py`, `review.py`, `promote.py`, `golden.py`)

*State*: `candidates_for_review.jsonl`, `golden_set.jsonl`, the session's list.
*Operations*: `generate-candidates`, `review-candidates`, `promote-candidates`, the
reviewer's own edits.
*Hard*: each decision rewrites the file in place, promotion appends; both may die in
the middle; what is asked and what is promoted are both inferred from three fields.
*Correct when*: no decision is lost by the tools, no question is promoted twice, none
is passed over.

### Scoring (`packages/evals`: `metrics.py`, `scorecard.py`, `generation_*.py`, `judge_agreement.py`)

*State*: the lists a report is made of.
*Operations*: `run-retrieval`, `run-generation-eval`, `judge-agreement-report`.
*Hard*: graph runs and judge calls fail one by one; tags and ground truth disagree;
cuts at k meet short rankings.
*Correct when*: the metrics agree with each other, a report accounts for every item
and makes up no score.

### The rest

| Component | State | Operations | Correct when |
|---|---|---|---|
| Application lifespan, health (`main.py`, `routes/health.py`, `graph/checkpointer.py`) | pool, clients | start, stop, ping | resources are closed in order |
| Retrieval (`packages/retrieval`) | a Postgres table | hybrid search, embed, rerank | results come from the corpus |
| Core (`packages/core`) | none | ports, records, settings | - |
| Telemetry (`packages/telemetry`) | none | logging | - |

### How they interact

```
web client --POST /query/stream--> _guarded_sse_body > _sse_body
                                     |  RateLimiter ------------------> Redis
                                     |  stream_graph_events
                                     |     graph.astream --checkpoint--> Postgres
                                     |        planner, generator, critic
                                     |           Gateway.complete
                                     |             cache, budget, usage > Redis
                                     |             semaphore, completion_fn > providers
                                     v
                          frames 0, 1, 2, ... , a terminal frame
```

## 2. Modules

| Module | Models | Relation |
|---|---|---|
| `Tally` | sums over a finite set, as cardinalities (no recursion, so that they can be proved about) | used by `Gateway` |
| `TokenLedger` | the abstract budget: grant, settle, return, each in one step | implemented by `Gateway` |
| `Gateway` | `Gateway.complete`, `BudgetGuard`, the usage tracker, the exact cache's keys | |
| `PromptedJson` | `complete_json`, both layers of the cache with their contents, the audit trail | a gateway call is the same call as in `Gateway`, without its budget and chain |
| `EventStream` | the abstract stream of events a run produces | implemented by `AgentGraph`, consumed by `StreamRoute` |
| `AgentGraph` | nodes, routers, gate, resume, `stream_graph_events` | one run |
| `StreamRoute` | both generators of the route and the rate limiter | many requests; its runs are `EventStream` |
| `WebClient` | the page's query runner, both event sources, the reducer and the panel shown | reads what `EventStream` and the route send |
| `Ingest` | cache file, parser context, chunk identity, upsert transaction, re-ingestion | fills the table retrieval reads |
| `GoldenSet` | generate, review and promote over two JSONL files | makes the set `EvalRun` scores with |
| `RankMetrics`, `EvalRun` | recall, reciprocal rank, nDCG; the three scoring commands | |
| `MC...` | one instance for TLC for each module checked | |
| `GatewayProofs`, `PromptedJsonProofs`, `AgentGraphProofs`, `StreamRouteProofs`, `WebClientProofs`, `IngestProofs`, `GoldenSetProofs`, `EvalRunProofs` | lemmas and theorems | one for each module a run checks |

`EventStream` is the joint between the graph and the route. `AgentGraph` is shown
to produce only what `EventStream` allows (`StreamCorrect`), and `StreamRoute`
takes its runs' events and endings from the same operators, `After`, `MayReturn`
and `MayRaise`. So the route is checked against every stream the graph can
produce without carrying the graph along.

**Gateway.** A step of a call reaches from one await to the next, since asyncio
interleaves nowhere else. `pc` names the await the call stands at: `lookup`
(`ResponseCache.get`), `reserve` and `rollback` (INCRBY, DECRBY), `choose`
(`near_ceiling`), `acquire` and `calling` (the semaphore and `completion_fn` inside
it), `backoff` (tenacity's sleep), `release`, `reconcile`, `track`, `store`.
`counter`, `usage` and `cached` are Redis; `semaphore` is `Gateway._semaphores`,
whose sizes are set by the first entry that asks, as in the code. `tries` is
tenacity's count, `total` the `total_attempts` that `retry_count` is computed
from, `attempt` the number the audit gives. `made`, the attempts on each entry of the
chain, is history.
`Abort` is a cancellation or a failing Redis command, which no handler of
`_complete` catches: only the `async with` is undone. `Midnight` and `Expire` may
come at any moment.

**AgentGraph.** `next` is the node LangGraph runs next, or where the stream
stands after the loop; the other channels have the names of `AgentState`. The
state a node reads is the state its update is applied to, with no other writer on
the thread, so that a node is one step, and each of its outcomes is a disjunct or
a parameter: every plan, scope, subset of the corpus, answer, verdict, failure.
`passes`, `verdict` and `decision` are history. `last` and `over` are the stream.

**StreamRoute.** `at` is the await or yield at which a request stands. `exists`,
`expires` and `count` are the Redis buckets: a bucket lives for an hour from its hour's
first query, so it expires in the next hour at the earliest, and nothing keeps it for a
request that took its name and has not counted itself. `seq` numbers frames in `_sse_body`,
`frames` in `_guarded_sse_body`; `wire` is what the visitor saw last. The refund
flag of the code is a function of the last event and of whether the stream
raised (`Refundable`, `StreamRaises`). `charged`, `unpaid` and `lives`, how often Redis has made
a bucket, are history.

**WebClient.** A step is what JavaScript runs to completion: a click up to the first
await of `runQuery` (`Ask`), a continuation (`Respond`, `Receive`, `SourceEnds`,
`SourceThrows`), a timer (`TimerFires`) or a render with its effect (`Render`). The
variables have the names of the page's state and refs; `controller` names the call
whose controller `abortRef` holds. `Reduce` is `graphReducer` and `Shown` is
`selectTerminal`. An event is its type and what tells it from others on the
screen. `NextOnWire` is `EventStream!After` with the nodes in the graph's order,
which the client, unlike the route, looks at. `ask` in a logged event is history.

**PromptedJson.** A caller is one call of `complete_json`; `pc` is again the await it
stands at. A request is the sequence of what was said: the prompt, then the reply
that a repair quotes. `exact` and `nearby` are the two Redis structures, `best` is
`best_exact_key`, `round` is `_attempt`, `tries` and `lastId` are `_AttemptChain`;
`trail` is what the recorder wrote. Of the rest of the gateway's work one gateway
call keeps its attempts, at most `MaxAttempts`, and that it may end without a
reply (`Cut`: budget, exhaustion, cancellation, Redis). `sources` is history: the request
for which each reply shown was generated.

**Ingest.** A text is its `<div>`s; a chunk says which `<div>` and which part of it
it was cut from, and of which edition. `at` is the place of the command, `tx` what
the open transaction sees, `rows` what is committed. `Context` is the flat scan of
`parse_document`, which knows only what came before; `up` in a `<div>` is the nesting it
stands for, and `Nested` says no more of it than document order does. `BuildChunks` is
the chunker with its cap. `WriteCut` dies while writing the
cache file, `Die` anywhere else. `last` and `cut` are history.

**GoldenSet.** `file` and `golden` are the two files: their lines, and whether the
end is torn. A session's `items` and `pending` are the list in memory and the loop's
rest. A write that dies leaves one of `Partial` or `Cut`: some whole lines, and perhaps a
part of the next. `decided` and `lossy` are history.

**RankMetrics, EvalRun.** Ratios are left as numerators, logarithms as the scaled table
`Gain`, of which only the order is assumed. A judge's score is 0 or 1, or absent. `verdicts`
and `failures` are history.

Definitions commented `Mutant` are plausible mistakes, used to see that each
property notices a wrong version of the code. No specification uses them.

## 3. Runs

| Run | Instance | Distinct states | Asks |
|---|---|---|---|
| `gateway` | 2 calls, 3 tiers, two of which share providers in opposite orders, with 1 or 2 permits; 2 attempts each, a soft-limited provider, an upload, 2 days, a ceiling of 3 for estimates of 1, 3 and 4, 1 abort | 485 000 | are day keys, ceiling and semaphores exact, does the guard implement the ledger, are attempts bounded, is exhaustion real, does every call end |
| `agent_graph` | 2 chunks, top 1, confidences 0, below and at the threshold, caps -1, 0, 2, 3, plans 0, 1, 3, 4 | 44 500 | is the loop bounded, what passes the gate, does the graph implement the stream, does it end |
| `stream_route` | 3 requests of one visitor, limit 1, an hour change, buckets that expire, symmetric | 2 418 000 | does the limit hold, who is refunded, how do responses end |
| `prompted_json` | 2 callers, 2 questions of one schema, a good and a bad text, 3 attempts, semantic list of 2, symmetric | 663 000 | whose answer does a caller get, when does it give up, is the audit trail linked and closed |
| `web_client` | 2 queries, live or replayed, up to 2 passes of the loop, at most 2 events waiting for a render | 46 000 | is what is shown the last query's, is each event drawn once, does every query end |
| `ingest` | 2 documents, one with 2 editions, cap 1 or none | 479 000 | does the table hold the text committed last, do chunks name their place |
| `golden_set` | 3 questions, 2 crashes, 1 edit by hand | 850 000 | does a decision stand, is the golden set sound, is anything passed over |
| `eval_run` | 5 items, every ranking of 0 to 3 chunks, k 1, 2 and 4, 2 items through the graph, 2 citations | 3 911 000 | do the metrics agree, does the report account for everything |

Four more runs each show one disagreement with the documentation (section 6).

What the passing runs show, property by property:

- `LedgerExact`: each day's key equals the estimates still booked on it plus the
  tokens of reconciled calls, at every moment, through aborts and midnights.
- `DayCeilingHolds`: the calls let through on a day, each up to its estimate, stay
  within the ceiling, although checking and taking back are two commands.
- `SemaphoreExact`: free permits plus calls in flight is the semaphore's size.
- `ImplementsLedger`: hiding pending rollbacks, the guard is `TokenLedger`.
- `AttemptsBounded`, `ExhaustedMeansTried`, `EveryCallEnds`: on each entry of a chain, one
  by one, at most `RetryAttempts` attempts, and at least one on each that may not be skipped
  before a call is exhausted; two independent counts of attempts agree; nobody waits for
  ever for a permit.
- `AnswersBelong`: whichever of two callers stored last and whatever expired, a reply
  was generated for the conversation its caller had sent. With an embedder this weakens
  to "within the threshold": the semantic layer compares last messages, and that of
  `complete_json`'s first request holds the schema and nothing of the question, so that
  one question may be answered with another's answer. Production builds no embedder.
- `FailureIsRepaired`: a bad text that the cache replays is met by a repair that quotes
  it, so the second request is another one.
- `TrailSound`: one place per attempt, links to the attempt just before or to none,
  nothing open but what is under way.
- `PassesCapped`, `VetoStands`, `AutoApprovedGrounded`, `AbstentionStands`: the
  loop respects both caps, and an unreviewed answer is confident, shown only what
  it cites, and is overridden against the critic only by the caps.
- `ImplementsEventStream`, `RunEnds`: the events come in the promised order and
  the stream closes.
- `FramesInOrder`, `EndsTold`: the two generators' numberings fit together, and a
  visitor who stays is always told how it ended.
- `LimitHolds`, `PaidFor`, `OurFaultGivenBack`: each life of a bucket lets through no more
  than the limit, whenever refunds arrive, and while its hour lasts a bucket has one life;
  after that a straggler may begin another (section 6). Answers, abstentions and spent ceilings are
  never given back; our own failures are, unless Redis fails the refund.
- `RestShowsOwn`, `ScreenFollowsLog`, `NothingLeftActive`: at rest the panel is drawn
  from an event of the last query, also where that failed before its first
  event; the drawing is what the log draws from scratch; no node goes on pulsing.
- `OneRunAtATime`, `TimeoutIsOwn`, `EveryAskEnds`: the latch keeps runs apart, a call is
  reported as timed out only after its own ninety seconds, and none hangs.
- `DocumentWhole`: through runs that die, caps and editions, the table has every id once
  and each part of the text committed last, in its own version, or in the place of a leaf
  the one other leaf of its article that takes its id; rows of other texts are never newer.
  That text is an edition, or the beginning of one if its cache file was cut short. Three
  things it cannot say, since they are not so, are in section 6: that nothing older is
  left, that every paragraph has its leaf, and that the text is whole.
- `ChunksFaithful`: chapter and section, which the scan infers from order alone, are
  those the article is nested in, also where rows of several editions lie together. An
  article that lies in none has those of the last one closed before it, but never the
  section of another chapter. A leaf has its parent.
- `DecisionsStand`, `GoldenSound`, `NothingLeftAside`: only a crash while writing costs
  decisions, and only a tail of the file; no question is promoted twice, and the golden set
  loads unless a command died while it wrote; what a session does not ask about is settled.
- `MetricsAgree`: recall, reciprocal rank and nDCG see a hit together and grow as they
  should. `ReportExact`: means are taken over exactly the results they apply to and
  whose judge answered.

### Why the bounds are enough

*gateway.* The budget's conflicts are between a booking and one that does not fit beside
it: two calls and a ceiling that holds one large or several small ones. The second day lets a
correction miss its key. `Usages = {2}` settles below an estimate of 3 and above one of 1.
One abort leaves a booking behind at any await. A cycle of waits needs two calls and two
providers, which the tiers use in opposite orders; with one permit at Gemini and one or two at
Deepseek, as the entry that asks first has it, a call waits for another or does not. Two
attempts distinguish a retry from a fallback.
*agent_graph.* One chunk kept of two separates what was retrieved from what was
shown; `Invented` is a citation of neither. Caps above and below the plan, and
negative, make each side of every minimum and maximum decide once; three passes
let a channel of an earlier pass be stale.
*stream_route.* With a limit of one, one request is let through, another is
refused or counted while a refund is under way, and a third is let through by a
refund. Two hours let names, counts and refunds straddle the change, and in the second the
bucket of the first expires, also under a request that has its name. The buckets of
different visitors share nothing, so one visitor is enough. `MaxFrames` lets every
kind of event occur once before the verdict and leaves room to go on.

*web_client.* What one query can do to another it does to the next, so two are
enough. `MaxLoops = 13` events let a second pass of the loop begin, which finds
nodes that have completed before. Two events in one render show what batching does.

*prompted_json.* Two callers with one prompt race for one entry; with two prompts of one
schema they share a last message. Three attempts are enough for a record to follow an
attempt without one that follows one with one. Embedder and audit share no state, so
an initial state has one of them or neither.
*ingest.* The first edition nests a section and leaves it for the next chapter; the second
drops the recital and a chapter, inserts an unnumbered paragraph, loses leaves, and has an
article that follows the section of its chapter, where the scan errs. A cap of one keeps
less than a document. The second document shares the run and not the rows.
*golden_set.* One question with chunks to select, one with none, one out of scope: every
answer applies to one of them. Two crashes let a torn file be written again, or both
files be torn; one edit makes each combination of fields the tools do not write.
*eval_run.* Tag and ground truth agree in both ways and disagree in both; k is below, at
and above the number of relevant chunks and of chunks in the corpus, and rankings may be
empty or shorter than k. `Pool` keeps the graph's part small: one chunk that
is relevant and one that is not, and `Ghost`, a citation of nothing.

Deadlock is checked in every run but two; where a system stops, `Done` marks the
intended stop. It is off for the route, whose requests all end and whose clock is
bounded, and for the client, whose reader may stop asking.

## 4. Fairness

- `Gateway!FairSpec`: weak fairness of each call's own next step and of the
  provider's response, which comes within `request_timeout_seconds` or raises;
  strong fairness of `Acquire`, since `asyncio.Semaphore` wakes waiters in the order
  they came. No fairness of `Expire`, `Midnight` or `Abort`.
- `AgentGraph!FairSpec`: weak fairness of `Step`, the task of one request on a live
  event loop. `Lose`, `Resume` and outcomes are not forced: a model may object for
  ever, and it is the caps that end the loop.
- `WebClient!FairSpec`: weak fairness, for each call, of what the browser does unaided:
  its timer fires, a replay goes on, an aborted request rejects; and of `Render`.
  None of what the backend sends or of the reader's clicks.
- `StreamRoute`, `PromptedJson`, `Ingest`, `GoldenSet`, `EvalRun`: none; they have safety
  properties only. Whether a person or a scheduler runs a command again is not the code's.

## 5. Proofs

`tlapm` checks every theorem below for every value of the constants, under the
named assumption of each module (`GatewayAssumption`, `GraphAssumption`, `RouteAssumption`,
`ClientAssumption`, `PromptAssumption`, `IngestAssumption`, `SeedAssumption`,
`GainAssumption`, `EvalAssumption`), which TLC
evaluates in the runs. They say what settings and registry guarantee: finite sets of calls,
positive estimates and limits, non-empty chains; a positive `top_n` and threshold; a finite
corpus, `k` of at least 1, discounts that fall with the rank. `IngestAssumption` is about the
input: a published text has unique `id`s (`Identified`), since it is HTML, and its `<div>`s are
in document order (`Nested`), each after the one it lies in, with sections in chapters, and
articles in a section, a chapter or neither, in any sequence.

| Theorem | States |
|---|---|
| `GatewayProofs!TypeCorrect` | `[]TypeOK` |
| `GatewayProofs!PermitsExact` | `[]SemaphoreExact` |
| `GatewayProofs!LedgerCorrect` | `[]LedgerExact` |
| `GatewayProofs!CeilingCorrect` | `[]DayCeilingHolds` |
| `GatewayProofs!LedgerImplemented` | `Ledger!Spec`: the guard implements the ledger |
| `GatewayProofs!AttemptsCorrect` | `[]AttemptsBounded` |
| `GatewayProofs!ExhaustedCorrect` | `[]ExhaustedMeansTried` |
| `PromptedJsonProofs!TrailCorrect` | `[]TrailSound` |
| `PromptedJsonProofs!AnswersCorrect` | `[]AnswersBelong` |
| `PromptedJsonProofs!FailureCorrect` | `[]FailureIsRepaired` |
| `AgentGraphProofs!GraphTypeCorrect` | `[]TypeOK`, which no run repeats |
| `AgentGraphProofs!PassesCorrect` | `[]PassesCapped` |
| `AgentGraphProofs!GroundedCorrect` | `[]AutoApprovedGrounded` |
| `AgentGraphProofs!VetoCorrect` | `[]VetoStands` |
| `AgentGraphProofs!AbstentionCorrect` | `AbstentionStands` |
| `AgentGraphProofs!StreamCorrect` | `Stream!Spec`: the graph implements the stream |
| `StreamRouteProofs!RouteTypeCorrect` | `[]TypeOK` |
| `StreamRouteProofs!NumberingCorrect` | `[]FramesInOrder` |
| `StreamRouteProofs!EndingsCorrect` | `[]EndsTold` |
| `StreamRouteProofs!PaymentCorrect` | `[]PaidFor` |
| `StreamRouteProofs!RefundsCorrect` | `[]OurFaultGivenBack` |
| `StreamRouteProofs!LimitCorrect` | `[]LimitHolds` |
| `WebClientProofs!OneRunCorrect` | `[]OneRunAtATime` |
| `WebClientProofs!TimeoutCorrect` | `[]TimeoutIsOwn` |
| `WebClientProofs!TypeCorrect` | `[]TypeOK` |
| `WebClientProofs!ScreenCorrect` | `[]ScreenFollowsLog` |
| `WebClientProofs!RestCorrect` | `[]RestShowsOwn` |
| `WebClientProofs!StillCorrect` | `[]NothingLeftActive` |
| `IngestProofs!TypeCorrect` | `[]TypeOK` |
| `IngestProofs!WholeCorrect` | `[]DocumentWhole` |
| `IngestProofs!PlacesCorrect` | `[]ChunksFaithful` |
| `GoldenSetProofs!DecisionsCorrect` | `[]DecisionsStand` |
| `GoldenSetProofs!GoldenCorrect` | `[]GoldenSound` |
| `GoldenSetProofs!AsideCorrect` | `[]NothingLeftAside` |
| `EvalRunProofs!TypeCorrect` | `[]TypeOK` |
| `EvalRunProofs!MetricsCorrect` | `[]MetricsAgree` |
| `EvalRunProofs!ReportCorrect` | `[]ReportExact` |

Every invariant that a run checks is among them, and so is every action property and both
refinements.

**Induction.** The library's induction theorems take an operator as a parameter, which the
provers cannot instantiate. Four modules need induction over logs, lines, `<div>`s or ranks,
and get it from the well-foundedness of `<`, which needs none: a set of numbers has a least
member (`LeastNatural`), so a set that holds 0 and with each number the next holds all
(`InductionBySet`). What is to be proved is then written as such a set. A recursive function,
local to its operator, is first shown to exist, by induction over its domain, and then to
meet its equation (`FoldDef`, `ScanExists`, `PicksExist`, `SumsExist`).

**The arguments.**
*Permits.* That the free count is a natural number does not follow from types: it
is `SemaphoreExact` that bounds it. `Typed` therefore strengthens `TypeOK` by `Placed`,
which says that a call at work is at an entry of its chain and has a booking. Then
each action moves at most one call in or out of `InFlight` of its provider.
*Ledger.* `Tally` writes a sum over a set, which has no order to recurse along, as the
cardinality of a set of units. The first lemmas of `GatewayProofs` show that changing one
element's value changes the sum by the difference and that removing an element removes its
value. Each action of the gateway changes the charge of one call, on the day of its booking,
by what it adds to that day's key.
*Ceiling.* When a call is let through, the key after its INCRBY is at most the
ceiling. The key is the sum of all charges (`LedgerExact`), those of the calls
admitted among them, and covered charges are no larger. Afterwards a covered
charge only falls.
*Refinement.* `Committed` is a key less the bookings about to be rolled back. A booking
within the ceiling is a grant, as what is pending is not negative; one above it is pending
at once and its rollback takes it off both sides, so neither is seen. `Corrected` shows
that reconciling and releasing move `Committed` by what they move the key. `Reported`
says that a call reconciles with tokens a provider reported.
*Chain.* `Counted(c)` bounds `attempt` and `total` by the entry the call stands at and by
`tries`, at each place. `Spread(c)` says where the attempts are: none on the entries ahead, `tries`
on the one at work, no more than `RetryAttempts` on any. `LeftBehind(c)` says that each entry
behind has one, or may be skipped: a call leaves an entry by skipping it or after an attempt,
and a count of requests only grows, so an entry once skipped may be skipped for good.
An exhausted call has left them all.
*Prompted JSON.* `Linked(c)` ties `lastId` to the last record and is `TrailSound` made
inductive. `Talks(c)` ties `request` to `round` and to the replies shown; with it `CacheTyped`
says that entries and candidates are requests, so that a hit is a reply to the request
its key was made of.
*Graph.* `PassesCounted` ties `passes` to `retry_count` at each node: the retriever is
entered only when the count is below both caps. `Gated` carries to the gate
what the last generator and critic wrote, for each place between them. `Told`
relates each place to the last event, and is the invariant of the refinement.
*Route.* `Story(r)` says, for each place a request may be at, what it has been
charged, what it was shown last and how its frames are numbered; five theorems are
its consequences.
*Limit.* Refused and failed checks also count, and counts vanish when a bucket
expires, so that `count` is neither the number charged nor always above it. `Fits(k)`
says that those who stand on a bucket's name, let through or about to be, are covered by its
present count and by what its earlier lives may have let through (`Earlier`): a refund for a
query of an earlier life takes one off both. Then a new life adds at most the limit.
`OneLife(k)` says that names are taken in their hour and that no bucket expires within it, so
that until the hour is over it has been made at most once.

*Client.* `Latched` says that latch, flag and calls agree and that only the call of
`abortRef` runs; `Owned`, that log, set timers and the timeout flag are that call's. These
(`Kept`) need nothing of the drawing. `Sound` adds it: the log of a call is in the order the
wire has (`Ordered`); what the call under way yielded last was logged last (`Told`); only
its own timer cuts it off (`CutOff`); no call leaves its log open (`Concluded`); and the
drawing is, but for the fan-out mark, the fold of the part of the log that was rendered
(`Drawn`). `FoldThrough` says that folding a log is folding a beginning of it and then the
rest, so a render of several events draws what one at a time would. `NothingLeftActive`
follows as the last event settles every node, the error the client adds itself included.
*Golden set.* Besides `DecisionsStand` and `GoldenSound`, which are inductive with it, the
invariant says that the chunks selected for a question were retrieved for it (`Selected`),
that nothing is decided before there is a review file (`Unwritten`), that deaths stay counted
(`CrashesGrow`), and that a session
holds what it saved last and passes over only what needs no decision (`InSession`).
`NewLines` is a recursion over the positions of the review file; `NewLinesPicked` says which
lines it gives, and `NewLinesSound` that they repeat no question, of the golden set or of
each other.
*Ingestion.* `DocumentHolds` characterises what `build_chunks` gives as a set, without its
nested concatenations; `IdsTell` says when two chunks of one edition have one id.
`ScanTellsNesting` relates the flat scan, which knows only what came before, to the
nesting: the chapter in force is the last one that began (`LastChapter`), and document order
(`InOrder`) puts nothing between it and an article it encloses that could end it; likewise
a section, unless a chapter came after it. The invariant follows a text through
the command: the cache file, also cut short, is
the beginning of an edition (`Cached`); editions reach cache, transaction and table in their
order (`InTurn`), which is why no row is newer than the text committed; the open transaction
lacks of its text only what is left to be upserted (`Underway`, kept by `TransactionGoes`); and
the table has what was committed last, each row where its own edition has it, older
editions' rows too (`Committed`).
*Scoring.* The metrics are mathematics about one ranking. `GainBound`, by induction over the
ranks, says that the hits up to a rank weigh at most what as many first ranks weigh, and
as much only when they are those; a ranking without repetition has at most as many hits as
`Ideal`. For the report, `Underway` says what is known of a result while its judge calls
come in, `InTurn` that results are judged one after the other, `VerdictsSound` that the judge saw
what it agreed to, and `FailuresPast` that no call is noted as failed before it is made;
`Concluded` is what then stays true of a result that has its scores.

TLC evaluated the invariants of ingestion and scoring on every state of `ingest` and
`eval_run` before they were proved.

**Only model-checked.** The liveness properties (`EveryCallEnds`, `RunEnds`, `EveryAskEnds`), since
fairness and `ENABLED` are out of TLAPS's reach, and the disagreements of section 6.

## 6. Findings

Each is a run in which TLC finds what a line of documentation says to be violated.

| Run | The code | The text |
|---|---|---|
| `agent_graph_resume` | A bare truthy payload, such as the text "reject", approves the answer. | `nodes.py:356`: anything unrecognized is a reject |
| `stream_route_build` | A failing `build_graph` leaves the visitor charged, since it precedes the `try` that refunds. | `stream.py:152`: it is refundable |
| `ingest_rerun` | A part that the next edition drops keeps its row and its old text, and retrieval goes on reading it: nothing is ever deleted (`pipeline.py:45`). | `docs/case-study.md:76`, `README.md:90`, `docs/PRODUCTION_DEPLOY.md:163`: re-running after a source change is safe |
| `golden_dropped` | Promotion asks of an out-of-scope item only whether it is verified, which a skip sets too: a dropped question is promoted, and counted as dropped. | `promote.py:34`: dropped items are silently excluded |

**Short of a run.** These disagreements with a text were met while modelling. They
follow from a line or two of the code, and no run is spent on them.

- A booking about to be rolled back already counts for others, so one that would fit
  beside the bookings let through may be rejected (`budget.py:22`). `TokenLedger` grants
  no such booking and never promises one, which is why `ImplementsLedger` holds.
- The tokens of a failed attempt, which a provider may bill, are never counted: a call
  reconciles with the usage of its last response only.
- A retry event goes out after every insufficient pass, the last one allowed included,
  when no retry follows (`events.py:77`).
- Checks refused by the limiter, and checks that failed after their INCR, stay
  counted (`ratelimit.py:78`); `LimitHolds` bounds what is let through, not the count.
- A request that took the hour's name in time and counts itself once the bucket has
  expired makes a new one and is let through, beyond the hour's limit (`config.py:26`,
  `ratelimit.py:49`: so many an hour). A refund for a query of the first bucket then credits the
  second. The window is one await, on a bucket whose hour is over.
- In an article that mixes numbered and unnumbered paragraphs, two leaves may have one
  chunk id, and the upsert keeps one (`chunks.py:44`). The docstring of `build_chunks` has one
  leaf for each paragraph (`chunks.py:65`), and an integration test counts on as many rows as
  chunks (`test_pipeline_integration.py:51`). `DocumentWhole` admits this by `Hides` alone.
- A cache file that was cut short as the process died is taken for the document by each later
  run that does not force a refresh: `fetch.py:24` has it that a resumed run need not
  refetch a document it already has.
- "A flat preorder scan is sufficient since chapter/section divs always appear before the
  articles they contain" (`parser.py:123`): they do, and it is not. An article that follows a
  section in its chapter without lying in it is given that section, and one after the last
  chapter that chapter. `ChunksFaithful` says just this of them.
- "Nothing is lost if the reviewer stops partway" (`review.py:113`): a session killed while it
  saves has emptied the file first, so earlier decisions may be lost; `DecisionsStand` says
  that what is left is right.
- Until the first event of a second query arrives, its screen is that of the query before, and
  the waiting copy is not seen (`page.tsx:14`). `RestShowsOwn` is about the page at rest.

## 7. Abstractions

- Texts, prompts, costs, spans, logs and latencies are left out. What a model
  answers is any value of the type its schema allows.
- *Gateway*: an estimate is an input. The soft limit is a number of the entry,
  standing for ceiling times fraction. A failed Redis command is `Abort` before its
  effect; one that took effect and lost its reply is the step followed by `Abort`. The
  counting of a request and the renewal of its counter's time to live (`Track`) are one step,
  as the second changes nothing that is read. The
  cache is the set of keys that are set, and a cache that fails aborts the call. Redis
  keeps its counters: a day's key outlives the day, and a Redis that loses data is
  outside.
- *PromptedJson*: budget, chain and semaphores are those of `Gateway`; here a gateway
  call makes up to `MaxAttempts` attempts, or is cut short. A text is a model value, and
  `Fits` says which texts hold an object that `extract_json_object` finds and the schema
  takes. What a record says of a response, and where the sink writes it, are left out.
- *AgentGraph*: a run has its thread to itself. The gateway appears as the four reasons
  a node may fail with. A checkpoint is written with its node, or `Fail` follows.
- *StreamRoute*: the clock has hours only: a bucket made in one hour expires at some moment
  after that hour. `client_key_for` is an input. The scope guard is a choice.
- *WebClient*: the click's own render comes before any other step, since React flushes
  clicks synchronously. A replay is over before the hard timeout: the recorded gaps add
  up to less than a second. The wording of the wait, the retry label's timer, citations
  and layout are left out. A second pass starts only in short logs (`MaxLoops`).
- *GoldenSet*: one command at a time works on the review file, and nobody edits it during
  a session. A file is its lines and whether the last is cut short; the summaries printed
  at the end are left out.
- *Ingest*: chunk texts, embeddings and the cross-references in the metadata are left
  out; what a chunk says is the place in the text it was cut from. The code never deletes
  a row and takes a cache file that was cut short for the document: both are modelled,
  and the properties say what holds all the same. A cut that only shortens the words of the
  last paragraph, or of its article's parent chunk, leaves the same `<div>`s and is left out.
- *EvalRun*: a judge's scores are inputs, the discount of a rank is an integer (`Gain`),
  so that sums and comparisons are exact, and a graph run finds chunks of `Pool`.
  `--ids` picks items elsewhere than at the start: it is a run on a golden set of those items,
  after an unknown id has ended the command with a `ValueError` before anything is run.
  Rendering is left out.
- *Not modelled*: retrieval is one query and model inference, of which `AgentGraph` takes
  any result. Lifespan and health are start-up order; telemetry and the core records
  have no behaviour to order. The scope guard's normalisation and phrase lists are text
  processing. Two runs on one `thread_id` (`streaming.py:193`) need LangGraph's merging of
  checkpoints, which is a library's.

## 8. Plan

Done, in this order: `Tally`, `TokenLedger`, `Gateway`; `EventStream`, `AgentGraph`;
`StreamRoute`; `WebClient`; `PromptedJson` with cache and audit records, each with its
proofs; the gateway's refinement of `TokenLedger` and its chain as theorems;
`GoldenSet`; `Ingest`; `RankMetrics` and `EvalRun`; what the client shows, ingestion, the
golden set and the reports as theorems.

To come, most important first:

1. `SharedThread`: two requests that name one `thread_id` on one checkpoint, where the
   read-back may return the other run's answer, once LangGraph's merging is stated.
2. The scope guard's normalisation as an operator.
