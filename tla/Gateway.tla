------------------------------ MODULE Gateway ------------------------------
(***************************************************************************)
(* llm.gateway.Gateway.complete and the token budget behind it             *)
(* (llm.budget.BudgetGuard): concurrent calls on one event loop sharing    *)
(* the budget key of each UTC day, the exact-match response cache and one  *)
(* semaphore per provider.  A step of a call runs from one await to the    *)
(* next, so each Redis command and each provider call is a step, and the   *)
(* other calls, midnight and a failure may fall between any two.           *)
(***************************************************************************)
EXTENDS Integers, Sequences, FiniteSets, Tally

CONSTANTS
  Calls,             \* the calls of Gateway.complete, each made once
  Requests,          \* what they ask: a value of llm.cache._cache_key
  TierOf,            \* TierOf[r], EstimateOf[r]: the request's tier, and its
  EstimateOf,        \*   prompt tokens plus max_tokens
  Uploaded,          \* the requests that carry user-uploaded content
  Tiers, LocalTier,
  Providers,
  Chain,             \* Chain[t]: the tier's fallback chain
  Usages,            \* the total_tokens a provider may report
  RetryAttempts,     \* same_provider_retry_attempts
  PerRequestCeiling,
  PerDayCeiling,
  MaxDay,            \* bound: the days that may pass
  MaxAborts          \* bound: the calls cut short by a failure or cancelled

(***************************************************************************)
(* llm.registry.ProviderModel.  "soft" is daily_request_ceiling times the  *)
(* soft-limit fraction; "tracked" says there is a ceiling at all.          *)
(***************************************************************************)
Entries == [provider : Providers, limit : Nat \ {0}, tracked : BOOLEAN, soft : Nat]

ASSUME GatewayAssumption ==
  /\ IsFiniteSet(Calls)
  /\ LocalTier \in Tiers
  /\ TierOf \in [Requests -> Tiers]
  /\ EstimateOf \in [Requests -> Nat \ {0}]
  /\ Uploaded \subseteq Requests
  /\ Chain \in [Tiers -> Seq(Entries) \ {<<>>}]
  /\ Usages \subseteq Nat \ {0}
  /\ RetryAttempts \in Nat \ {0}
  /\ PerRequestCeiling \in Nat
  /\ PerDayCeiling \in Nat
  /\ MaxDay \in Nat \ {0}
  /\ MaxAborts \in Nat

Days == 1 .. MaxDay

VARIABLES
  today,      \* the UTC day
  counter,    \* counter[d]: the Redis key llm:budget:tokens:<d>
  cached,     \* the requests whose exact-cache key is set
  usage,      \* usage[p][d]: llm:provider_usage:<p>:<d>
  semaphore,  \* semaphore[p]: Gateway._semaphores; size 0 before its first use
  pc,         \* where a call stands; an aborted call stays where it was cut
  outcome,    \* how complete() ended, "none" while it has not
  request,    \* its argument
  bookedOn,   \* Reservation.day_key, 0 before one is booked
  entry,      \* position of the fallback loop in the tier's chain
  tries,      \* attempts made on the current provider (_call_provider)
  attempt,    \* attempts made in all (_AttemptChain.attempt)
  total,      \* total_attempts, what retry_count is computed from
  used,       \* usage.total_tokens of the response that was accepted
  made        \* history: the attempts made on each entry of the call's chain

redisVars == <<counter, cached, usage>>
callVars  == <<request, bookedOn, entry, tries, attempt, total, used, made>>
vars      == <<today, redisVars, semaphore, pc, outcome, callVars>>

Steps == {"idle", "lookup", "reserve", "rollback", "choose", "acquire", "calling",
          "backoff", "release", "reconcile", "track", "store", "end"}

Outcomes == {"none", "refused", "hit", "over_request", "over_day", "ok", "fatal",
             "exhausted", "aborted"}

\* A number of attempts for each entry of a chain.
AttemptCounts == [Calls -> Seq(Nat)]

TypeOK ==
  /\ today \in Days
  /\ counter \in [Days -> Int]
  /\ cached \subseteq Requests
  /\ usage \in [Providers -> [Days -> Nat]]
  /\ semaphore \in [Providers -> [size : Nat, free : Nat]]
  /\ pc \in [Calls -> Steps]
  /\ outcome \in [Calls -> Outcomes]
  /\ request \in [Calls -> Requests]
  /\ bookedOn \in [Calls -> Days \cup {0}]
  /\ entry \in [Calls -> Nat \ {0}]
  /\ tries \in [Calls -> Nat]
  /\ attempt \in [Calls -> Nat]
  /\ total \in [Calls -> Nat]
  /\ used \in [Calls -> Nat]
  /\ made \in AttemptCounts

Init ==
  /\ today = 1
  /\ counter = [d \in Days |-> 0]
  /\ cached = {}
  /\ usage = [p \in Providers |-> [d \in Days |-> 0]]
  /\ semaphore = [p \in Providers |-> [size |-> 0, free |-> 0]]
  /\ pc = [c \in Calls |-> "idle"]
  /\ outcome = [c \in Calls |-> "none"]
  /\ request \in [Calls -> Requests]
  /\ bookedOn = [c \in Calls |-> 0]
  /\ entry = [c \in Calls |-> 1]
  /\ tries = [c \in Calls |-> 0]
  /\ attempt = [c \in Calls |-> 0]
  /\ total = [c \in Calls |-> 0]
  /\ used = [c \in Calls |-> 0]
  /\ made = [c \in Calls |-> [i \in DOMAIN Chain[TierOf[request[c]]] |-> 0]]

----------------------------------------------------------------------------
\* The request's estimate, its chain, and the chain entry the call is at.
Estimate(c) == EstimateOf[request[c]]
ChainOf(c)  == Chain[TierOf[request[c]]]
EntryOf(c)  == ChainOf(c)[entry[c]]
ProviderOf(c) == EntryOf(c).provider

At(c, step) == pc[c] = step /\ outcome[c] = "none"

Goto(c, step) == pc' = [pc EXCEPT ![c] = step]

End(c, how) ==
  /\ pc' = [pc EXCEPT ![c] = "end"]
  /\ outcome' = [outcome EXCEPT ![c] = how]

----------------------------------------------------------------------------
\* complete(): uploaded content is refused unless it is bound for the local
\* tier; anything else goes to the cache.
Start(c) ==
  /\ At(c, "idle")
  /\ IF request[c] \in Uploaded /\ TierOf[request[c]] # LocalTier
       THEN End(c, "refused")
       ELSE Goto(c, "lookup") /\ UNCHANGED outcome
  /\ UNCHANGED <<today, redisVars, semaphore, callVars>>

\* ResponseCache.get: a hit ends the call.  A miss is priced, and a request
\* above the per-request ceiling is turned away before Redis is touched.
Lookup(c) ==
  /\ At(c, "lookup")
  /\ CASE request[c] \in cached             -> End(c, "hit")
       [] request[c] \notin cached /\ Estimate(c) > PerRequestCeiling
                                            -> End(c, "over_request")
       [] OTHER                             -> Goto(c, "reserve") /\ UNCHANGED outcome
  /\ UNCHANGED <<today, redisVars, semaphore, callVars>>

\* Mutant: the ceiling is compared with the total read before the booking.
OverCeilingBefore(total0, tokens) == total0 > PerDayCeiling

\* What INCRBY returns is compared with the ceiling.
OverCeiling(total0, tokens) == total0 + tokens > PerDayCeiling

\* BudgetGuard.reserve: INCRBY by the estimate, then look at the new total.
Reserve(c) ==
  /\ At(c, "reserve")
  /\ counter' = [counter EXCEPT ![today] = @ + Estimate(c)]
  /\ bookedOn' = [bookedOn EXCEPT ![c] = today]
  /\ Goto(c, IF OverCeiling(counter[today], Estimate(c)) THEN "rollback" ELSE "choose")
  /\ UNCHANGED <<today, cached, usage, semaphore, outcome,
                 request, entry, tries, attempt, total, used, made>>

\* Mutant: the key is computed again when a booking is corrected.
KeyOfToday(c) == today

\* Every correction goes to the key the booking was made on.
KeyOfBooking(c) == bookedOn[c]

\* The DECRBY that takes a booking back: above the ceiling, or released.
TakeBack(c) == counter' = [counter EXCEPT ![KeyOfBooking(c)] = @ - Estimate(c)]

Rollback(c) ==
  /\ At(c, "rollback")
  /\ TakeBack(c)
  /\ End(c, "over_day")
  /\ UNCHANGED <<today, cached, usage, semaphore, callVars>>

----------------------------------------------------------------------------
\* The head of the fallback loop: the end of the chain, a provider close to
\* its own daily limit (skipped), or one to call.
NearCeiling(c) ==
  EntryOf(c).tracked /\ usage[ProviderOf(c)][today] >= EntryOf(c).soft

Choose(c) ==
  /\ At(c, "choose")
  /\ \/ /\ entry[c] > Len(ChainOf(c))
        /\ Goto(c, "release")
        /\ UNCHANGED <<entry, tries>>
     \/ /\ entry[c] <= Len(ChainOf(c))
        /\ NearCeiling(c)
        /\ entry' = [entry EXCEPT ![c] = @ + 1]
        /\ UNCHANGED <<pc, tries>>
     \/ /\ entry[c] <= Len(ChainOf(c))
        /\ ~NearCeiling(c)
        /\ tries' = [tries EXCEPT ![c] = 0]
        /\ Goto(c, "acquire")
        /\ UNCHANGED entry
  /\ UNCHANGED <<today, redisVars, semaphore, outcome,
                 request, bookedOn, attempt, total, used, made>>

\* _semaphore_for: one semaphore per provider name, made with the limit of
\* the entry that asks for it first.
SemaphoreFor(c) ==
  IF semaphore[ProviderOf(c)].size = 0
    THEN [size |-> EntryOf(c).limit, free |-> EntryOf(c).limit]
    ELSE semaphore[ProviderOf(c)]

\* Mutant: the semaphore does not hold anybody up.
PermitAssumed(c) == TRUE

PermitFree(c) == SemaphoreFor(c).free > 0

\* One attempt: take the provider's semaphore and send the request.
Acquire(c) ==
  /\ At(c, "acquire")
  /\ PermitFree(c)
  /\ semaphore' = [semaphore EXCEPT ![ProviderOf(c)] =
                     [SemaphoreFor(c) EXCEPT !.free = @ - 1]]
  /\ tries' = [tries EXCEPT ![c] = @ + 1]
  /\ attempt' = [attempt EXCEPT ![c] = @ + 1]
  /\ made' = [made EXCEPT ![c][entry[c]] = @ + 1]
  /\ Goto(c, "calling")
  /\ UNCHANGED <<today, redisVars, outcome, request, bookedOn, entry, total, used>>

\* Mutant: the permit is taken and never given back.
KeepPermit(c) == UNCHANGED semaphore

\* Leaving the async with, whichever way the attempt ended.
GiveBack(c) ==
  semaphore' = [semaphore EXCEPT ![ProviderOf(c)].free = @ + 1]

\* The response came and, where a schema was asked for, it validates.
Succeed(c, tokens) ==
  /\ At(c, "calling")
  /\ GiveBack(c)
  /\ used' = [used EXCEPT ![c] = tokens]
  /\ total' = [total EXCEPT ![c] = @ + tries[c]]
  /\ Goto(c, "reconcile")
  /\ UNCHANGED <<today, redisVars, outcome, request, bookedOn, entry, tries, attempt, made>>

\* Mutant: one retry too many.
RetryOnceMore(c) == tries[c] <= RetryAttempts

RetryAgain(c) == tries[c] < RetryAttempts

\* Mutant: a failed provider ends the chain.
LastEntry(c) == Len(ChainOf(c)) + 1

NextEntry(c) == entry[c] + 1

\* A failure worth retrying: 429, 5xx, a timeout, or a billed
\* response that fails validation.  tenacity retries the same provider until
\* its attempts are used up; then the loop moves on.
FailTransient(c) ==
  /\ At(c, "calling")
  /\ GiveBack(c)
  /\ \/ /\ RetryAgain(c)
        /\ Goto(c, "backoff")
        /\ UNCHANGED <<entry, total>>
     \/ /\ ~RetryAgain(c)
        /\ total' = [total EXCEPT ![c] = @ + RetryAttempts]
        /\ entry' = [entry EXCEPT ![c] = NextEntry(c)]
        /\ Goto(c, "choose")
  /\ UNCHANGED <<today, redisVars, outcome, request, bookedOn, tries, attempt, used, made>>

Backoff(c) ==
  /\ At(c, "backoff")
  /\ Goto(c, "acquire")
  /\ UNCHANGED <<today, redisVars, semaphore, outcome, callVars>>

\* 401, 402, 403, 404: not retried, the next provider is tried.
FailUnavailable(c) ==
  /\ At(c, "calling")
  /\ GiveBack(c)
  /\ total' = [total EXCEPT ![c] = @ + 1]
  /\ entry' = [entry EXCEPT ![c] = NextEntry(c)]
  /\ Goto(c, "choose")
  /\ UNCHANGED <<today, redisVars, outcome, request, bookedOn, tries, attempt, used, made>>

\* Anything else is the caller's own error: no other provider is tried.
FailFatal(c) ==
  /\ At(c, "calling")
  /\ GiveBack(c)
  /\ Goto(c, "release")
  /\ UNCHANGED <<today, redisVars, outcome, callVars>>

\* BudgetGuard.release, then the error that ends the call.
Release(c) ==
  /\ At(c, "release")
  /\ TakeBack(c)
  /\ End(c, IF entry[c] > Len(ChainOf(c)) THEN "exhausted" ELSE "fatal")
  /\ UNCHANGED <<today, cached, usage, semaphore, callVars>>

----------------------------------------------------------------------------
\* _finish: BudgetGuard.reconcile, the provider's request count, the cache.
Reconcile(c) ==
  /\ At(c, "reconcile")
  /\ counter' = [counter EXCEPT ![KeyOfBooking(c)] = @ + (used[c] - Estimate(c))]
  /\ Goto(c, IF EntryOf(c).tracked THEN "track" ELSE "store")
  /\ UNCHANGED <<today, cached, usage, semaphore, outcome, callVars>>

Track(c) ==
  /\ At(c, "track")
  /\ usage' = [usage EXCEPT ![ProviderOf(c)][today] = @ + 1]
  /\ Goto(c, "store")
  /\ UNCHANGED <<today, counter, cached, semaphore, outcome, callVars>>

Store(c) ==
  /\ At(c, "store")
  /\ cached' = cached \cup {request[c]}
  /\ End(c, "ok")
  /\ UNCHANGED <<today, counter, usage, semaphore, callVars>>

----------------------------------------------------------------------------
\* The call's task is cancelled, or a Redis command fails: no handler of
\* _complete catches either, so the call ends where it stands.  Only the
\* semaphore, an async context manager, is given back.
Abort(c) ==
  /\ outcome[c] = "none"
  /\ pc[c] # "idle"
  /\ Cardinality({b \in Calls : outcome[b] = "aborted"}) < MaxAborts
  /\ outcome' = [outcome EXCEPT ![c] = "aborted"]
  /\ IF pc[c] = "calling" THEN GiveBack(c) ELSE UNCHANGED semaphore
  /\ UNCHANGED <<today, redisVars, pc, callVars>>

\* The exact cache entry outlives its TTL.
Expire(r) ==
  /\ r \in cached
  /\ cached' = cached \ {r}
  /\ UNCHANGED <<today, counter, usage, semaphore, pc, outcome, callVars>>

Midnight ==
  /\ today < MaxDay
  /\ today' = today + 1
  /\ UNCHANGED <<redisVars, semaphore, pc, outcome, callVars>>

\* Every call has ended.
Done ==
  /\ \A c \in Calls : outcome[c] # "none"
  /\ UNCHANGED vars

Respond(c) ==
  \/ \E tokens \in Usages : Succeed(c, tokens)
  \/ FailTransient(c)
  \/ FailUnavailable(c)
  \/ FailFatal(c)

Advance(c) ==
  \/ Start(c)   \/ Lookup(c)  \/ Reserve(c)   \/ Rollback(c) \/ Choose(c)
  \/ Backoff(c) \/ Release(c) \/ Reconcile(c) \/ Track(c)    \/ Store(c)

Next ==
  \/ \E c \in Calls : Advance(c) \/ Acquire(c) \/ Respond(c) \/ Abort(c)
  \/ \E r \in Requests : Expire(r)
  \/ Midnight
  \/ Done

Spec == Init /\ [][Next]_vars

(***************************************************************************)
(* A call takes its next step: the loop runs, Redis answers, and           *)
(* completion_fn returns or raises within request_timeout_seconds.         *)
(* asyncio.Semaphore wakes its waiters in arrival order, so a waiter is    *)
(* not passed over for ever.                                               *)
(***************************************************************************)
Fairness ==
  \A c \in Calls : WF_vars(Advance(c)) /\ WF_vars(Respond(c)) /\ SF_vars(Acquire(c))

FairSpec == Spec /\ Fairness

----------------------------------------------------------------------------
\* The call's booking stands at its estimate; it has been corrected to the
\* tokens used.
Granted == {"choose", "acquire", "calling", "backoff", "release", "reconcile"}

Reconciled(c) == pc[c] \in {"track", "store"} \/ outcome[c] = "ok"
Admitted(c)   == pc[c] \in Granted \/ Reconciled(c)

\* What a call has on the budget key of the day it booked, and how much of
\* that its estimate covered.
Charge == [c \in Calls |-> IF pc[c] \in Granted \cup {"rollback"} THEN Estimate(c)
                           ELSE IF Reconciled(c) THEN used[c] ELSE 0]

Covered == [c \in Calls |-> IF Charge[c] <= Estimate(c) THEN Charge[c] ELSE Estimate(c)]

BookedOn(d) == {c \in Calls : bookedOn[c] = d}

InFlight(p) == {c \in Calls : At(c, "calling") /\ ProviderOf(c) = p}

----------------------------------------------------------------------------
(***************************************************************************)
(* Whatever the interleaving, the midnights and the aborted calls, a day's *)
(* Redis key holds the estimates still booked on it plus the tokens of the *)
(* calls reconciled, and nothing else: no booking is returned twice, or on *)
(* another day's key (BudgetGuard.reserve, reconcile, release).            *)
(***************************************************************************)
LedgerExact == \A d \in Days : counter[d] = Total(BookedOn(d), Charge)

(***************************************************************************)
(* The calls let through on a day, each counted up to its own estimate,    *)
(* never exceed the day's ceiling, although the total is read by one       *)
(* Redis command and taken back by another: what a call uses beyond its    *)
(* estimate is the only way past the ceiling (BudgetGuard.reserve).        *)
(***************************************************************************)
DayCeilingHolds ==
  \A d \in Days : Total({c \in BookedOn(d) : Admitted(c)}, Covered) <= PerDayCeiling

(***************************************************************************)
(* Every permit of a provider's semaphore is either free or held by one    *)
(* call in flight, however attempts end: answer, retry, fallback, error or *)
(* cancellation (the async with of _call_provider).                        *)
(***************************************************************************)
SemaphoreExact ==
  \A p \in Providers :
    semaphore[p].free + Cardinality(InFlight(p)) = semaphore[p].size

(***************************************************************************)
(* A call makes at most RetryAttempts attempts on each entry of its chain, *)
(* across retries and fallbacks, and the retry_count it reports never      *)
(* claims an attempt that was not made (_complete and _call_provider count *)
(* apart from each other).                                                 *)
(***************************************************************************)
AttemptsBounded ==
  \A c \in Calls : /\ \A i \in DOMAIN ChainOf(c) : made[c][i] <= RetryAttempts
                    /\ total[c] <= attempt[c]

\* The entry's provider may be passed over: its soft limit was reached on some
\* day the call may have looked.
MayBeSkipped(e) == e.tracked /\ \E d \in Days : usage[e.provider][d] >= e.soft

(***************************************************************************)
(* AllProvidersExhausted is raised only after an attempt on each entry of  *)
(* the chain, save those whose provider had reached its own daily limit    *)
(* (the fallback loop of _complete).                                       *)
(***************************************************************************)
ExhaustedMeansTried ==
  \A c \in Calls : outcome[c] = "exhausted" =>
    \A i \in DOMAIN ChainOf(c) : made[c][i] > 0 \/ MayBeSkipped(ChainOf(c)[i])

(***************************************************************************)
(* Every call ends: no interleaving leaves one waiting for a permit that   *)
(* nobody will give back, or going round the chain for ever.               *)
(***************************************************************************)
EveryCallEnds == \A c \in Calls : <>(outcome[c] # "none")

(***************************************************************************)
(* The guard implements the ledger: the booking of a call that is about to *)
(* be rolled back is on the Redis key and not yet, or never, in the        *)
(* ledger.                                                                 *)
(***************************************************************************)
Pending(d) == {c \in BookedOn(d) : pc[c] = "rollback"}

Committed == [d \in Days |-> counter[d] - Total(Pending(d), Charge)]

Holding == [c \in Calls |->
              CASE pc[c] \in Granted -> "grant"
                [] Reconciled(c)     -> "settled"
                [] outcome[c] \in {"fatal", "exhausted"} -> "returned"
                [] OTHER             -> "nothing"]

Ledger == INSTANCE TokenLedger WITH
            Amounts   <- Usages \cup {EstimateOf[r] : r \in Requests},
            committed <- Committed,
            holding   <- Holding,
            amount    <- [c \in Calls |-> IF Admitted(c) THEN Charge[c] ELSE 0],
            day       <- [c \in Calls |-> IF Holding[c] = "nothing" THEN 0 ELSE bookedOn[c]]

\* Every step of the gateway is a step of the ledger or leaves it alone.
ImplementsLedger == Ledger!Spec

=============================================================================
