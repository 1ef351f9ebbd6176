---------------------------- MODULE StreamRoute ----------------------------
(***************************************************************************)
(* The SSE endpoint of apps/api (api.routes.stream) with its per-visitor   *)
(* rate limiter (api.ratelimit): many requests of many visitors against    *)
(* one Redis, each running its own event stream (EventStream, which        *)
(* AgentGraph implements).  Every await is a step of its own, so requests  *)
(* interleave there, and there Redis may fail, the hour may turn and the   *)
(* visitor may leave.                                                      *)
(***************************************************************************)
EXTENDS Integers, FiniteSets

CONSTANTS
  Requests,   \* the requests made
  Clients,    \* the rate-limit identities, client_key_for's results
  ClientOf,   \* the client of each request
  Limit,      \* live_query_rate_limit_per_hour
  MaxHour,    \* bound: the last hour looked at
  MaxFrames   \* bound: frames that progress and retry_loop events may take

ASSUME RouteAssumption ==
  /\ IsFiniteSet(Requests)
  /\ ClientOf \in [Requests -> Clients]
  /\ Limit \in Nat
  /\ MaxHour \in Nat
  /\ MaxFrames \in Nat

VARIABLES
  hour,      \* the hour on the wall clock
  exists,    \* the hour buckets Redis has
  expires,   \* the hour in which a bucket's time to live is over, 0 for none
  count,     \* what they hold
  at,        \* where each request is
  key,       \* RateLimitResult.key
  seq,       \* _sse_body's numbering of the run's frames
  frames,    \* _guarded_sse_body's count of frames passed on
  last,      \* the last event of the run, see EventStream
  over,      \* "no", or how the run's stream ended
  wire,      \* history: the last frame the visitor was sent
  charged,   \* history: requests allowed and not refunded since
  unpaid,    \* history: requests whose refund failed
  lives      \* history: how often Redis has made a bucket

buckets == <<exists, expires, count, lives>>
run     == <<key, seq, last, over>>
shown   == <<frames, wire>>
account == <<charged, unpaid>>
vars    == <<hour, buckets, at, run, shown, account>>

Stream == INSTANCE EventStream

Keys  == Clients \X (0..MaxHour)
NoKey == <<"none", 0 - 1>>

Silence == [event |-> "nothing", id |-> 0 - 1]

\* What may stand in a frame: an event of the run or the limiter's refusal.
FrameEvents == Stream!Events \cup {"rate_limited"}
LastWords   == Stream!Terminals \cup {"rate_limited"}

Waiting == {"checking", "counted", "building", "streaming", "refunding", "failing",
            "small_talk", "denied"}
Ended   == {"done", "gone"}

TypeOK ==
  /\ hour \in 0..MaxHour
  /\ exists \subseteq Keys
  /\ expires \in [Keys -> 0 .. MaxHour + 1]
  /\ \A k \in Keys : expires[k] # 0 => k \in exists
  /\ count \in [Keys -> Nat]
  /\ at \in [Requests -> {"new"} \cup Waiting \cup Ended]
  /\ key \in [Requests -> Keys \cup {NoKey}]
  /\ seq \in [Requests -> Nat]
  /\ frames \in [Requests -> Nat]
  /\ last \in [Requests -> Stream!Events \cup {"nothing"}]
  /\ over \in [Requests -> {"no", "returned", "raised"}]
  /\ wire \in [Requests -> [event : FrameEvents, id : Nat] \cup {Silence}]
  /\ charged \subseteq Requests
  /\ unpaid \subseteq Requests
  /\ lives \in [Keys -> Nat]

Init ==
  /\ hour = 0
  /\ exists = {}
  /\ expires = [k \in Keys |-> 0]
  /\ count = [k \in Keys |-> 0]
  /\ at = [r \in Requests |-> "new"]
  /\ key = [r \in Requests |-> NoKey]
  /\ seq = [r \in Requests |-> 0]
  /\ frames = [r \in Requests |-> 0]
  /\ last = [r \in Requests |-> "nothing"]
  /\ over = [r \in Requests |-> "no"]
  /\ wire = [r \in Requests |-> Silence]
  /\ charged = {}
  /\ unpaid = {}
  /\ lives = [k \in Keys |-> 0]

Go(r, place) == at' = [at EXCEPT ![r] = place]

\* A frame goes out: _guarded_sse_body counts it, the visitor sees it.
Show(r, event, id) ==
  /\ frames' = [frames EXCEPT ![r] = @ + 1]
  /\ wire' = [wire EXCEPT ![r] = [event |-> event, id |-> id]]

----------------------------------------------------------------------------
\* _hour_key
KeyNow(r) == <<ClientOf[r], hour>>

\* scope_guard_reason knows the query for small talk: no limiter, no graph.
Recognise(r) ==
  /\ at[r] = "new"
  /\ Go(r, "small_talk")
  /\ UNCHANGED <<hour, buckets, run, shown, account>>

\* RateLimiter.check takes the name of the hour, then awaits the INCR.
Arrive(r) ==
  /\ at[r] = "new"
  /\ key' = [key EXCEPT ![r] = KeyNow(r)]
  /\ Go(r, "checking")
  /\ UNCHANGED <<hour, buckets, seq, last, over, shown, account>>

Allowed(n) == n <= Limit

\* INCR makes the key it does not find.
Increment(k) ==
  /\ exists' = exists \cup {k}
  /\ count' = [count EXCEPT ![k] = @ + 1]
  /\ lives' = [lives EXCEPT ![k] = IF k \in exists THEN @ ELSE @ + 1]
  /\ UNCHANGED expires

\* EXPIRE: 3600 s from now is in the next hour.  It does nothing for a key that
\* is gone.
TimeToLive(k) ==
  /\ expires' = [expires EXCEPT ![k] = IF k \in exists THEN hour + 1 ELSE @]
  /\ UNCHANGED <<exists, count, lives>>

\* check reports on the count it was told; the route turns a refusal into a
\* two-frame answer.
Decide(r, n) ==
  \/ /\ Allowed(n)
     /\ Go(r, "building")
     /\ charged' = charged \cup {r}
     /\ UNCHANGED unpaid
  \/ /\ ~Allowed(n)
     /\ Go(r, "denied")
     /\ UNCHANGED account

\* The first of the hour still has to see to the key's time to live.
Count(r) ==
  /\ at[r] = "checking"
  /\ Increment(key[r])
  /\ \/ /\ count'[key[r]] = 1
        /\ Go(r, "counted")
        /\ UNCHANGED account
     \/ /\ count'[key[r]] # 1
        /\ Decide(r, count'[key[r]])
  /\ UNCHANGED <<hour, run, shown>>

SetExpiry(r) ==
  /\ at[r] = "counted"
  /\ TimeToLive(key[r])
  /\ Decide(r, 1)
  /\ UNCHANGED <<hour, run, shown>>

\* Mutant: the exception escapes, StreamingResponse just stops writing.
Escaped == "done"

\* Where an exception out of _sse_body leaves the request: the wrapper has an
\* error frame to send.
Caught == "failing"

\* Redis fails the limiter, before or after it did what it was asked.
CheckFails(r) ==
  /\ \/ at[r] \in {"checking", "counted"} /\ UNCHANGED buckets
     \/ at[r] = "checking" /\ Increment(key[r])
     \/ at[r] = "counted" /\ TimeToLive(key[r])
  /\ Go(r, Caught)
  /\ UNCHANGED <<hour, run, shown, account>>

----------------------------------------------------------------------------
\* The scope guard's and the limiter's answers: an opening frame, a last one.
Greet(r) ==
  /\ at[r] \in {"small_talk", "denied"}
  /\ frames[r] = 0
  /\ Show(r, "started", 0)
  /\ UNCHANGED <<hour, buckets, at, run, account>>

TurnAway(r) ==
  /\ at[r] \in {"small_talk", "denied"}
  /\ frames[r] = 1
  /\ Show(r, IF at[r] = "denied" THEN "rate_limited" ELSE "interrupted", 1)
  /\ Go(r, "done")
  /\ UNCHANGED <<hour, buckets, run, account>>

\* build_graph and initial_state.
Build(r) ==
  /\ at[r] = "building"
  /\ Go(r, "streaming")
  /\ UNCHANGED <<hour, buckets, run, shown, account>>

\* They run before the try that would refund.
BuildFails(r) ==
  /\ at[r] = "building"
  /\ Go(r, Caught)
  /\ UNCHANGED <<hour, buckets, run, shown, account>>

\* An event of the run becomes a frame.
Emit(r, event) ==
  /\ at[r] = "streaming"
  /\ over[r] = "no"
  /\ event \in Stream!After(last[r])
  /\ event = "progress" => seq[r] < MaxFrames
  /\ event = "retry_loop" => seq[r] + 1 < MaxFrames
  /\ last' = [last EXCEPT ![r] = event]
  /\ Show(r, event, seq[r])
  /\ seq' = [seq EXCEPT ![r] = @ + 1]
  /\ UNCHANGED <<hour, buckets, at, key, over, account>>

\* Mutants: one reason too few, one too many.
RefundableNarrow(event) == event = "internal_error"
RefundableWide(event) == event \in Stream!Errors

\* _REFUNDABLE_ERROR_REASONS, asked of the last event sent.
Refundable(event) == event \in {"internal_error", "provider_exhausted"}

StreamReturns(r) ==
  /\ at[r] = "streaming"
  /\ over[r] = "no"
  /\ Stream!MayReturn(last[r])
  /\ over' = [over EXCEPT ![r] = "returned"]
  /\ Go(r, IF Refundable(last[r]) THEN "refunding" ELSE "done")
  /\ UNCHANGED <<hour, buckets, key, seq, last, shown, account>>

StreamRaises(r) ==
  /\ at[r] = "streaming"
  /\ over[r] = "no"
  /\ Stream!MayRaise(last[r])
  /\ over' = [over EXCEPT ![r] = "raised"]
  /\ Go(r, "refunding")
  /\ UNCHANGED <<hour, buckets, key, seq, last, shown, account>>

----------------------------------------------------------------------------
\* Mutant: the bucket of the hour the refund is made in.
RefundKeyNow(r) == KeyNow(r)

\* The bucket refunded is the one that was charged.
RefundKey(r) == key[r]

\* Mutant: a bare DECR.
DecrBlindly(k) ==
  /\ count' = [count EXCEPT ![k] = @ - 1]
  /\ exists' = exists \cup {k}
  /\ UNCHANGED <<expires, lives>>

\* _REFUND_SCRIPT: nothing for a key that is gone, and never below zero.
RefundScript(k) ==
  /\ \/ /\ k \in exists
        /\ count[k] > 0
        /\ count' = [count EXCEPT ![k] = @ - 1]
     \/ /\ k \notin exists \/ count[k] = 0
        /\ UNCHANGED count
  /\ UNCHANGED <<exists, expires, lives>>

\* The exception that brought the run here goes on to the wrapper.
AfterRefund(r) == Go(r, IF over[r] = "raised" THEN Caught ELSE "done")

Refund(r) ==
  /\ at[r] = "refunding"
  /\ RefundScript(RefundKey(r))
  /\ charged' = charged \ {r}
  /\ AfterRefund(r)
  /\ UNCHANGED <<hour, run, shown, unpaid>>

\* A refund that fails is logged and forgotten; one whose reply is lost has
\* been made all the same, and that is Refund.
RefundFails(r) ==
  /\ at[r] = "refunding"
  /\ unpaid' = unpaid \cup {r}
  /\ AfterRefund(r)
  /\ UNCHANGED <<hour, buckets, run, shown, charged>>

\* Mutant: the numbering _sse_body would have started with.
FaultIdZero(r) == 0

\* The wrapper goes on with the numbers where the frames it passed on stop.
FaultId(r) == frames[r]

ReportFault(r) ==
  /\ at[r] = "failing"
  /\ Show(r, "internal_error", FaultId(r))
  /\ Go(r, "done")
  /\ UNCHANGED <<hour, buckets, run, account>>

\* The visitor leaves: GeneratorExit at a yield, CancelledError at an await.
\* Nothing more is done for the request, a refund that was due included; one
\* that Redis has already made is Refund, followed by this.  The generators
\* and what they hold are gone too.
Leave(r) ==
  /\ at[r] \in Waiting
  /\ Go(r, "gone")
  /\ seq' = [seq EXCEPT ![r] = 0]
  /\ last' = [last EXCEPT ![r] = "nothing"]
  /\ over' = [over EXCEPT ![r] = "no"]
  /\ frames' = [frames EXCEPT ![r] = 0]
  /\ wire' = [wire EXCEPT ![r] = Silence]
  /\ UNCHANGED <<hour, buckets, key, account>>

----------------------------------------------------------------------------
Tick ==
  /\ hour < MaxHour
  /\ hour' = hour + 1
  /\ UNCHANGED <<buckets, at, run, shown, account>>

\* Redis drops a bucket whose time is over.  Nothing holds it back for a query
\* that took its name and still awaits the INCR, which will then make it anew.
Expire(k) ==
  /\ expires[k] # 0
  /\ expires[k] <= hour
  /\ exists' = exists \ {k}
  /\ expires' = [expires EXCEPT ![k] = 0]
  /\ count' = [count EXCEPT ![k] = 0]
  /\ UNCHANGED <<hour, lives, at, run, shown, account>>

\* What the event loop does for a request.
Serve(r) ==
  \/ Count(r)
  \/ SetExpiry(r)
  \/ CheckFails(r)
  \/ Greet(r)
  \/ TurnAway(r)
  \/ Build(r)
  \/ BuildFails(r)
  \/ \E event \in Stream!Events : Emit(r, event)
  \/ StreamReturns(r)
  \/ StreamRaises(r)
  \/ Refund(r)
  \/ RefundFails(r)
  \/ ReportFault(r)

Next ==
  \/ \E r \in Requests : Recognise(r) \/ Arrive(r) \/ Serve(r) \/ Leave(r)
  \/ Tick
  \/ \E k \in Keys : Expire(k)

Spec == Init /\ [][Next]_vars

----------------------------------------------------------------------------
\* The frames of a response are numbered 0, 1, 2, ... with no number twice and
\* none left out, whichever of the two generators sent them: the two count on
\* their own (seq in _sse_body, seq in _guarded_sse_body).
FramesInOrder == \A r \in Requests : wire[r].id = frames[r] - 1

\* _guarded_sse_body's promise: a response whose visitor stayed ends on a frame
\* that says how it came out, whatever failed on the way: Redis in the limiter,
\* the build of the graph, or the read-back after the run.
EndsTold == \A r \in Requests : at[r] = "done" => wire[r].event \in LastWords

\* The requests of an hour bucket that were let through and not refunded.
ChargedTo(k) == {r \in charged : key[r] = k}

\* RateLimiter's promise, as far as it goes: no visitor holds more than the
\* limit of live queries for each time Redis made the hour's bucket, and while
\* the hour lasts it makes it once.  Later, a query that took the name in time
\* and counts itself after the bucket has expired begins it anew, and may be let
\* through beyond the limit.  All that whatever is refunded when: late, in the
\* next hour, on a bucket made since, or while others are being counted.
LimitHolds ==
  \A k \in Keys :
    /\ Cardinality(ChargedTo(k)) <= Limit * lives[k]
    /\ hour = k[2] => lives[k] <= 1

\* Nobody gets back what an answer, an abstention or a spent ceiling cost: a
\* response that ended on one of those was either never charged (small talk) or
\* still is.
PaidFor ==
  \A r \in Requests :
    /\ at[r] = "done"
    /\ over[r] = "returned"
    /\ wire[r].event \in {"completed", "interrupted", "budget_exhausted", "over_request"}
    => r \in charged

\* A run that failed through no fault of the visitor, who stayed to the end, is
\* refunded, unless Redis failed the refund itself.
OurFaultGivenBack ==
  \A r \in Requests :
    /\ at[r] = "done"
    /\ over[r] # "no"
    /\ wire[r].event \in {"internal_error", "provider_exhausted"}
    => r \notin charged \/ r \in unpaid

----------------------------------------------------------------------------
\* stream.py says a run that never reached the graph, build_graph having
\* failed, is refunded.  The build stands before the try that would do it.
FailedBuildRefunded ==
  \A r \in Requests :
    at[r] = "done" /\ last[r] = "nothing" => r \notin charged \/ r \in unpaid
=============================================================================
