------------------------- MODULE StreamRouteProofs -------------------------
(***************************************************************************)
(* Theorems about StreamRoute, for any requests, visitors, limit and hours.*)
(***************************************************************************)
EXTENDS StreamRoute, FiniteSetTheorems, TLAPS

\* Before the run of a request, and while it holds a bucket's name.
Early   == {"new", "checking", "counted", "building"}
Working == {"checking", "counted", "building", "streaming", "refunding"}

GivenBack(r) == r \notin charged \/ r \in unpaid

\* What a request was charged and has been shown, by where it stands.
Story(r) ==
  /\ wire[r].id = frames[r] - 1
  /\ at[r] \in Working => key[r] \in Keys
  /\ at[r] \in {"new", "checking", "counted"} => r \notin charged
  /\ at[r] \in {"building", "streaming", "refunding"} => r \in charged
  /\ at[r] \in Early => frames[r] = 0 /\ seq[r] = 0 /\ last[r] = "nothing"
  /\ at[r] \in Early \cup {"small_talk", "denied", "streaming", "gone"} => over[r] = "no"
  /\ at[r] = "streaming" =>
       frames[r] = seq[r] /\ (last[r] = "nothing" \/ wire[r].event = last[r])
  /\ at[r] = "refunding" =>
       \/ over[r] = "raised"
       \/ over[r] = "returned" /\ wire[r].event = last[r] /\ Refundable(last[r])
  /\ at[r] = "failing" => over[r] # "returned" /\ (over[r] = "raised" => GivenBack(r))
  /\ at[r] = "done" =>
       /\ wire[r].event \in LastWords
       /\ over[r] = "raised" => GivenBack(r)
       /\ over[r] = "returned" =>
            /\ wire[r].event = last[r]
            /\ Refundable(last[r]) => GivenBack(r)
            /\ ~Refundable(last[r]) => r \in charged

Told  == \A r \in Requests : Story(r)
Typed == TypeOK /\ Told

\* The stream's events, written out.
LEMMA EventNames ==
  /\ Stream!Errors = {"provider_exhausted", "budget_exhausted", "over_request", "internal_error"}
  /\ Stream!Terminals = {"interrupted", "completed"} \cup Stream!Errors
  /\ Stream!Events = {"started", "progress", "retry_loop"} \cup Stream!Terminals
  /\ FrameEvents = Stream!Events \cup {"rate_limited"}
  /\ LastWords = Stream!Terminals \cup {"rate_limited"}
BY DEF Stream!Errors, Stream!Terminals, Stream!Events, FrameEvents, LastWords

\* The run of a request begins with nothing shown and nothing charged.
LEMMA RouteInit == Init => Typed
<1> SUFFICES ASSUME Init PROVE Typed
  OBVIOUS
<1>1. TypeOK
  BY RouteAssumption DEF Init, TypeOK, Keys, NoKey, Silence
<1>2. ASSUME NEW r \in Requests PROVE Story(r)
  BY DEF Init, Story, Silence, Working, Early
<1> QED BY <1>1, <1>2 DEF Typed, Told

\* Every step keeps the types.
LEMMA RouteTypeNext == Typed /\ [Next]_vars => TypeOK'
<1> SUFFICES ASSUME Typed, [Next]_vars PROVE TypeOK'
  OBVIOUS
<1> USE DEF TypeOK, Waiting, Ended, Go, buckets, run, shown, account
<1>1. /\ \A r \in Requests : Story(r)
      /\ TypeOK
  BY DEF Typed, Told
<1>2. /\ hour \in Nat
      /\ \A r \in Requests : KeyNow(r) \in Keys
      /\ \A h \in 0 .. MaxHour : h + 1 \in 0 .. MaxHour + 1
  BY <1>1, RouteAssumption DEF KeyNow, Keys
<1>3. ASSUME NEW r \in Requests, at[r] \in Working PROVE key[r] \in Keys
  BY <1>1, <1>3 DEF Story
<1>4. ASSUME NEW r \in Requests, Recognise(r) PROVE TypeOK'
  BY <1>1, <1>4 DEF Recognise
<1>5. ASSUME NEW r \in Requests, Arrive(r) PROVE TypeOK'
  BY <1>1, <1>5, <1>2 DEF Arrive
<1>6. ASSUME NEW r \in Requests, Count(r) PROVE TypeOK'
  BY <1>1, <1>6, <1>3 DEF Count, Working, Increment, Decide
<1>7. ASSUME NEW r \in Requests, SetExpiry(r) PROVE TypeOK'
  <2>1. /\ expires' \in [Keys -> 0 .. MaxHour + 1]
        /\ \A k \in Keys : expires'[k] # 0 => k \in exists'
    BY <1>1, <1>2, <1>7, <1>3 DEF SetExpiry, Working, TimeToLive
  <2>2. UNCHANGED <<hour, exists, count, lives, run, shown>>
    BY <1>7 DEF SetExpiry, TimeToLive
  <2>3. at' \in [Requests -> {"new"} \cup Waiting \cup Ended] /\ charged' \subseteq Requests
        /\ unpaid' = unpaid
    BY <1>1, <1>7 DEF SetExpiry, Decide
  <2> QED BY <1>1, <2>1, <2>2, <2>3
<1>8. ASSUME NEW r \in Requests, CheckFails(r) PROVE TypeOK'
  <2>1. /\ expires' \in [Keys -> 0 .. MaxHour + 1]
        /\ exists' \subseteq Keys
        /\ \A k \in Keys : expires'[k] # 0 => k \in exists'
    BY <1>1, <1>2, <1>8, <1>3 DEF CheckFails, Working, Increment, TimeToLive
  <2>2. count' \in [Keys -> Nat] /\ lives' \in [Keys -> Nat]
    BY <1>1, <1>8, <1>3 DEF CheckFails, Working, Increment, TimeToLive
  <2>3. /\ UNCHANGED <<hour, run, shown, account>>
        /\ at' \in [Requests -> {"new"} \cup Waiting \cup Ended]
    BY <1>1, <1>8 DEF CheckFails, Caught
  <2> QED BY <1>1, <2>1, <2>2, <2>3
<1>9. ASSUME NEW r \in Requests, Greet(r) PROVE TypeOK'
  BY <1>1, <1>9, EventNames DEF Greet, Show
<1>10. ASSUME NEW r \in Requests, TurnAway(r) PROVE TypeOK'
  BY <1>1, <1>10, EventNames DEF TurnAway, Show
<1>11. ASSUME NEW r \in Requests, Build(r) PROVE TypeOK'
  BY <1>1, <1>11 DEF Build
<1>12. ASSUME NEW r \in Requests, BuildFails(r) PROVE TypeOK'
  BY <1>1, <1>12 DEF BuildFails, Caught
<1>13. ASSUME NEW r \in Requests, NEW event \in Stream!Events, Emit(r, event) PROVE TypeOK'
  BY <1>1, <1>13, EventNames DEF Emit, Show
<1>14. ASSUME NEW r \in Requests, StreamReturns(r) PROVE TypeOK'
  BY <1>1, <1>14 DEF StreamReturns
<1>15. ASSUME NEW r \in Requests, StreamRaises(r) PROVE TypeOK'
  BY <1>1, <1>15 DEF StreamRaises
<1>16. ASSUME NEW r \in Requests, Refund(r) PROVE TypeOK'
  BY <1>1, <1>16, <1>3 DEF Refund, Working, RefundScript, RefundKey, AfterRefund, Caught
<1>17. ASSUME NEW r \in Requests, RefundFails(r) PROVE TypeOK'
  BY <1>1, <1>17 DEF RefundFails, AfterRefund, Caught
<1>18. ASSUME NEW r \in Requests, ReportFault(r) PROVE TypeOK'
  BY <1>1, <1>18, EventNames DEF ReportFault, Show, FaultId
<1>19. ASSUME NEW r \in Requests, Leave(r) PROVE TypeOK'
  BY <1>1, <1>19 DEF Leave, Silence
<1>20. CASE Tick
  BY <1>1, <1>20, RouteAssumption DEF Tick
<1>21. ASSUME NEW k \in Keys, Expire(k) PROVE TypeOK'
  <2>1. 0 \in 0 .. MaxHour + 1
    BY RouteAssumption
  <2>2. /\ expires' \in [Keys -> 0 .. MaxHour + 1]
        /\ \A j \in Keys : expires'[j] # 0 => j \in exists'
    BY <1>1, <1>21, <2>1 DEF Expire
  <2> QED BY <1>1, <1>21, <2>2 DEF Expire
<1>22. CASE UNCHANGED vars
  BY <1>1, <1>22 DEF vars
<1> QED BY <1>4, <1>5, <1>6, <1>7, <1>8, <1>9, <1>10, <1>11, <1>12, <1>13, <1>14, <1>15, <1>16, <1>17, <1>18, <1>19, <1>20, <1>21, <1>22 DEF Next, Serve

\* Every step leaves each request with a story that holds together.
LEMMA RouteStoryNext == Typed /\ [Next]_vars => Told'
<1> SUFFICES ASSUME Typed, [Next]_vars, NEW q \in Requests PROVE Story(q)'
  BY DEF Told
<1> USE DEF Story, Working, Early, GivenBack, Go, buckets, run, shown, account
<1>1. /\ Story(q)
      /\ TypeOK
  BY DEF Typed, Told
<1>2. \A r \in Requests : KeyNow(r) \in Keys
  BY <1>1, RouteAssumption DEF KeyNow, Keys, TypeOK
<1>3. ASSUME NEW r \in Requests, Recognise(r) PROVE Story(q)'
  BY <1>1, <1>3 DEF TypeOK, Recognise
<1>4. ASSUME NEW r \in Requests, Arrive(r) PROVE Story(q)'
  BY <1>1, <1>4, <1>2 DEF TypeOK, Arrive
<1>5. ASSUME NEW r \in Requests, Count(r) PROVE Story(q)'
  BY <1>1, <1>5 DEF TypeOK, Count, Increment, Decide
<1>6. ASSUME NEW r \in Requests, SetExpiry(r) PROVE Story(q)'
  BY <1>1, <1>6 DEF TypeOK, SetExpiry, Decide, TimeToLive
<1>7. ASSUME NEW r \in Requests, CheckFails(r) PROVE Story(q)'
  BY <1>1, <1>7 DEF TypeOK, CheckFails, Increment, TimeToLive, Caught
<1>8. ASSUME NEW r \in Requests, Greet(r) PROVE Story(q)'
  BY <1>1, <1>8 DEF TypeOK, Greet, Show
<1>9. ASSUME NEW r \in Requests, TurnAway(r) PROVE Story(q)'
  BY <1>1, <1>9, EventNames DEF TypeOK, TurnAway, Show
<1>10. ASSUME NEW r \in Requests, Build(r) PROVE Story(q)'
  BY <1>1, <1>10 DEF TypeOK, Build
<1>11. ASSUME NEW r \in Requests, BuildFails(r) PROVE Story(q)'
  BY <1>1, <1>11 DEF TypeOK, BuildFails, Caught
<1>12. ASSUME NEW r \in Requests, NEW event \in Stream!Events, Emit(r, event) PROVE Story(q)'
  BY <1>1, <1>12 DEF TypeOK, Emit, Show
<1>13. ASSUME NEW r \in Requests, StreamReturns(r) PROVE Story(q)'
  BY <1>1, <1>13, EventNames DEF TypeOK, StreamReturns, Stream!MayReturn
<1>14. ASSUME NEW r \in Requests, StreamRaises(r) PROVE Story(q)'
  BY <1>1, <1>14 DEF TypeOK, StreamRaises
<1>15. ASSUME NEW r \in Requests, Refund(r) PROVE Story(q)'
  BY <1>1, <1>15, EventNames DEF TypeOK, Refund, AfterRefund, Caught, Refundable
<1>16. ASSUME NEW r \in Requests, RefundFails(r) PROVE Story(q)'
  BY <1>1, <1>16, EventNames DEF TypeOK, RefundFails, AfterRefund, Caught, Refundable
<1>17. ASSUME NEW r \in Requests, ReportFault(r) PROVE Story(q)'
  BY <1>1, <1>17, EventNames DEF TypeOK, ReportFault, Show, FaultId
<1>18. ASSUME NEW r \in Requests, Leave(r) PROVE Story(q)'
  BY <1>1, <1>18 DEF TypeOK, Leave, Silence, Waiting
<1>19. CASE Tick
  BY <1>1, <1>19 DEF Tick
<1>20. ASSUME NEW k \in Keys, Expire(k) PROVE Story(q)'
  BY <1>1, <1>20 DEF Expire
<1>21. CASE UNCHANGED vars
  BY <1>1, <1>21 DEF vars
<1> QED BY <1>3, <1>4, <1>5, <1>6, <1>7, <1>8, <1>9, <1>10, <1>11, <1>12, <1>13, <1>14, <1>15, <1>16, <1>17, <1>18, <1>19, <1>20, <1>21 DEF Next, Serve

----------------------------------------------------------------------------
LEMMA RouteTyped == Spec => []Typed
<1>1. Typed /\ [Next]_vars => Typed'
  BY RouteTypeNext, RouteStoryNext DEF Typed
<1> QED BY <1>1, RouteInit, PTL DEF Spec

\* The buckets and the requests keep their types: no refund, however late,
\* makes a count negative.
THEOREM RouteTypeCorrect == Spec => []TypeOK
<1>1. Typed => TypeOK
  BY DEF Typed
<1> QED BY <1>1, RouteTyped, PTL

\* The frames of a response are numbered without a gap, whatever fails and
\* whichever generator sends them.
THEOREM NumberingCorrect == Spec => []FramesInOrder
<1>1. Typed => FramesInOrder
  BY DEF Typed, Told, Story, FramesInOrder
<1> QED BY <1>1, RouteTyped, PTL

\* A visitor who stays is told how the request came out.
THEOREM EndingsCorrect == Spec => []EndsTold
<1>1. Typed => EndsTold
  BY DEF Typed, Told, Story, EndsTold
<1> QED BY <1>1, RouteTyped, PTL

\* Answers, abstentions and spent ceilings stay charged.
THEOREM PaymentCorrect == Spec => []PaidFor
<1>1. Typed => PaidFor
  BY DEF Typed, Told, Story, PaidFor, Refundable
<1> QED BY <1>1, RouteTyped, PTL

\* What failed through our fault is given back unless the refund failed.
THEOREM RefundsCorrect == Spec => []OurFaultGivenBack
<1>1. Typed => OurFaultGivenBack
  BY DEF Typed, Told, Story, OurFaultGivenBack, Refundable, TypeOK, GivenBack
<1> QED BY <1>1, RouteTyped, PTL

----------------------------------------------------------------------------
\* The limiter: who stands on a bucket.  The first of a life stands on it before
\* it is asked whether the limit is zero.
AboutToBe(k) == {r \in Requests : at[r] = "counted" /\ key[r] = k}  \* counted, not yet answered
Held(k)      == ChargedTo(k) \cup AboutToBe(k)

\* What the lives of a bucket so far may have let through.
Earlier(k) == Limit * (lives[k] - 1)

\* Each life of a bucket adds no more than the limit to those who stand on its
\* name.  In its present life the count says how many it has added: a refund for
\* a query of an earlier life takes one off the count and one off those queries.
Fits(k) ==
  /\ k \notin exists => count[k] = 0
  /\ k \in exists => lives[k] > 0
  /\ Limit = 0 => ChargedTo(k) = {}
  /\ Limit # 0 => /\ Cardinality(Held(k)) <= Limit * lives[k]
                  /\ k \in exists => Cardinality(Held(k)) <= count[k] + Earlier(k)

\* Names are taken in their hour and a bucket outlives it, so it is made anew
\* only after it.
OneLife(k) ==
  /\ \A r \in Requests : key[r] = k => k[2] <= hour
  /\ expires[k] # 0 => k[2] < expires[k]
  /\ hour <= k[2] => lives[k] = IF k \in exists THEN 1 ELSE 0

AllFit == \A k \in Keys : Fits(k) /\ OneLife(k)

\* Sets of requests are finite, and a part of one is no larger.
LEMMA RequestSets ==
  ASSUME NEW S, NEW T, S \subseteq T, T \subseteq Requests
  PROVE  /\ IsFiniteSet(S)
         /\ Cardinality(S) \in Nat /\ Cardinality(T) \in Nat
         /\ Cardinality(S) <= Cardinality(T)
<1>1. IsFiniteSet(T)
  BY RouteAssumption, FS_Subset
<1> QED BY <1>1, FS_Subset, FS_CardinalityType

\* One more request makes a set larger by at most one.
LEMMA OneMore ==
  ASSUME NEW S, NEW T, NEW r, T \subseteq S \cup {r}, S \subseteq Requests, r \in Requests
  PROVE  Cardinality(T) <= Cardinality(S) + 1
<1>1. IsFiniteSet(S)
  BY RouteAssumption, FS_Subset
<1>2. /\ IsFiniteSet(S \cup {r})
      /\ Cardinality(S \cup {r}) = Cardinality(S)
           \/ Cardinality(S \cup {r}) = Cardinality(S) + 1
  BY <1>1, FS_AddElement
<1>3. Cardinality(T) <= Cardinality(S \cup {r})
  BY RequestSets
<1>4. Cardinality(S) \in Nat /\ Cardinality(T) \in Nat
  BY RequestSets
<1> QED BY <1>2, <1>3, <1>4

\* A request taken out makes it smaller by one.
LEMMA OneLess ==
  ASSUME NEW S, NEW T, NEW r \in S, T \subseteq S \ {r}, S \subseteq Requests
  PROVE  Cardinality(T) <= Cardinality(S) - 1
<1>1. IsFiniteSet(S)
  BY RouteAssumption, FS_Subset
<1>2. Cardinality(S \ {r}) = Cardinality(S) - 1
  BY <1>1, FS_RemoveElement
<1>3. Cardinality(T) <= Cardinality(S \ {r})
  BY RequestSets
<1> QED BY <1>2, <1>3

\* One life more is the limit once more.
LEMMA OneLifeMore ==
  ASSUME NEW n \in Nat
  PROVE  /\ Limit * n \in Nat
         /\ Limit * (n + 1) = Limit * n + Limit
         /\ n > 0 => Limit * (n - 1) \in Nat /\ Limit * n = Limit * (n - 1) + Limit
BY RouteAssumption

\* A step after which no more stand on a bucket, and which leaves the bucket
\* alone, counts on it or drops it, keeps it fitting.
Untouched(k) ==
  /\ lives'[k] = lives[k] /\ count'[k] = count[k]
  /\ k \in exists' <=> k \in exists

CountedOn(k) ==
  /\ k \in exists'
  /\ count'[k] = count[k] + 1
  /\ lives'[k] = IF k \in exists THEN lives[k] ELSE lives[k] + 1

Dropped(k) == lives'[k] = lives[k] /\ count'[k] = 0 /\ k \notin exists'

LEMMA NoMoreHeld ==
  ASSUME Typed, TypeOK', NEW k \in Keys, Fits(k),
         ChargedTo(k)' \subseteq ChargedTo(k),
         Held(k)' \subseteq Held(k),
         Untouched(k) \/ CountedOn(k) \/ Dropped(k)
  PROVE  Fits(k)'
<1>1. Held(k) \subseteq Requests
  BY DEF Held, ChargedTo, AboutToBe, Typed, TypeOK
<1>2. /\ count[k] \in Nat /\ count'[k] \in Nat /\ lives[k] \in Nat /\ lives'[k] \in Nat
      /\ Limit \in Nat
  BY RouteAssumption DEF Typed, TypeOK
<1>3. /\ Cardinality(Held(k)') <= Cardinality(Held(k))
      /\ Cardinality(Held(k)') \in Nat /\ Cardinality(Held(k)) \in Nat
  BY <1>1, RequestSets
<1>4. /\ k \notin exists' => count'[k] = 0
      /\ k \in exists' => lives'[k] > 0
      /\ Limit = 0 => ChargedTo(k)' = {}
  BY <1>2 DEF Fits, Untouched, CountedOn, Dropped
<1>5. ASSUME Limit # 0
      PROVE  /\ Cardinality(Held(k)') <= Limit * lives'[k]
             /\ k \in exists' => Cardinality(Held(k)') <= count'[k] + Limit * (lives'[k] - 1)
  <2>1. /\ Cardinality(Held(k)) <= Limit * lives[k]
        /\ k \in exists => Cardinality(Held(k)) <= count[k] + Limit * (lives[k] - 1)
    BY <1>5 DEF Fits, Earlier
  <2>2. /\ Limit * lives[k] \in Nat
        /\ Limit * (lives[k] + 1) = Limit * lives[k] + Limit
        /\ lives[k] > 0 => Limit * (lives[k] - 1) \in Nat
    BY <1>2, OneLifeMore
  <2>3. CASE Untouched(k)
    BY <1>3, <2>1, <2>3, <1>2, <2>2, <1>4 DEF Untouched
  <2>4. CASE CountedOn(k) /\ k \in exists
    <3>1. /\ lives'[k] = lives[k] /\ count'[k] = count[k] + 1 /\ lives[k] > 0
      BY <2>4 DEF CountedOn, Fits
    <3> QED BY <3>1, <1>3, <2>1, <2>4, <1>2, <2>2
  <2>5. CASE CountedOn(k) /\ k \notin exists
    <3>1. lives'[k] = lives[k] + 1 /\ count'[k] = 1
      BY <1>2, <2>5 DEF CountedOn, Fits
    <3>2. lives'[k] - 1 = lives[k]
      BY <3>1, <1>2
    <3>3. Cardinality(Held(k)') <= Limit * lives[k]
      BY <1>3, <2>1, <2>2
    <3>4. Limit * lives'[k] = Limit * lives[k] + Limit
      BY <3>1, <2>2
    <3>5. Cardinality(Held(k)') <= count'[k] + Limit * (lives'[k] - 1)
      BY <3>1, <3>2, <3>3, <1>3, <2>2
    <3>6. Cardinality(Held(k)') <= Limit * lives'[k]
      BY <3>3, <3>4, <1>2, <1>3, <2>2
    <3> QED BY <3>5, <3>6
  <2>6. CASE Dropped(k)
    <3>1. lives'[k] = lives[k] /\ k \notin exists'
      BY <2>6 DEF Dropped
    <3> QED BY <3>1, <1>3, <2>1, <2>2
  <2> QED BY <2>3, <2>4, <2>5, <2>6
<1> QED BY <1>4, <1>5 DEF Fits, Earlier

\* The first requests of an empty Redis.
LEMMA AllFitInit == Init => AllFit
<1> SUFFICES ASSUME Init, NEW k \in Keys PROVE Fits(k) /\ OneLife(k)
  BY DEF AllFit
<1>1. ChargedTo(k) = {} /\ Held(k) = {} /\ lives[k] = 0 /\ k \notin exists /\ count[k] = 0
  BY DEF Init, ChargedTo, Held, AboutToBe
<1>2. Cardinality({}) = 0 /\ Limit * 0 = 0
  BY FS_EmptySet, RouteAssumption
<1>3. Fits(k)
  BY <1>1, <1>2 DEF Fits
<1>4. \A r \in Requests : key[r] # k
  BY DEF Init, NoKey, Keys
<1> QED BY <1>1, <1>3, <1>4 DEF Init, OneLife

\* INCR: a request comes to stand on its bucket only if the count that covers
\* it is within the limit, or is the first of a life.
LEMMA CountFits ==
  ASSUME Typed, TypeOK', NEW k \in Keys, Fits(k), NEW r \in Requests, Count(r)
  PROVE  Fits(k)'
<1>1. /\ TypeOK
      /\ Story(r)
      /\ at[r] = "checking"
      /\ key[r] \in Keys
  BY DEF Typed, Told, Story, Working, Count
<1>2. CASE k # key[r]
  <2>1. ChargedTo(k)' \subseteq ChargedTo(k) /\ Held(k)' \subseteq Held(k)
    BY <1>1, <1>2 DEF Count, Decide, Go, run, account, ChargedTo, Held, AboutToBe, TypeOK
  <2>2. Untouched(k)
    BY <1>1, <1>2 DEF Count, Increment, Untouched, TypeOK
  <2> QED BY <2>1, <2>2, NoMoreHeld
<1>3. CASE k = key[r]
  <2>1. /\ count[k] \in Nat /\ count'[k] \in Nat /\ lives[k] \in Nat /\ lives'[k] \in Nat
        /\ Limit \in Nat
    BY <1>1, RouteAssumption DEF TypeOK
  <2>2. CountedOn(k)
    BY <1>1, <1>3 DEF Count, Increment, CountedOn, TypeOK
  <2>3. /\ k \in exists' /\ lives'[k] > 0 /\ count'[k] > 0 /\ count'[k] = count[k] + 1
    BY <2>1, <2>2 DEF CountedOn, Fits
  <2>4. CASE Limit = 0
    <3>1. ~Allowed(count'[k])
      BY <2>1, <2>3, <2>4 DEF Allowed
    <3>2. ChargedTo(k)' \subseteq ChargedTo(k)
      BY <1>1, <1>3, <3>1 DEF Count, Decide, account, run, ChargedTo
    <3> QED BY <2>3, <2>4, <3>2 DEF Fits
  <2>5. CASE Limit # 0 /\ count'[k] # 1 /\ ~Allowed(count'[k])
    <3>1. ChargedTo(k)' \subseteq ChargedTo(k) /\ Held(k)' \subseteq Held(k)
      BY <1>1, <1>3, <2>5
         DEF Count, Decide, Go, run, account, ChargedTo, Held, AboutToBe, TypeOK
    <3> QED BY <2>2, <3>1, NoMoreHeld
  <2>6. CASE Limit # 0 /\ (count'[k] = 1 \/ Allowed(count'[k]))
    <3>1. Held(k)' \subseteq Held(k) \cup {r} /\ Held(k) \subseteq Requests
      BY <1>1 DEF Count, Decide, Go, run, account, ChargedTo, Held, AboutToBe, TypeOK
    <3>2. /\ Cardinality(Held(k)') <= Cardinality(Held(k)) + 1
          /\ Cardinality(Held(k)) \in Nat /\ Cardinality(Held(k)') \in Nat
      BY <3>1, OneMore, RequestSets
    <3>3. /\ Cardinality(Held(k)) <= Limit * lives[k]
          /\ k \in exists => Cardinality(Held(k)) <= count[k] + Limit * (lives[k] - 1)
      BY <2>6 DEF Fits, Earlier
    <3>4. /\ Limit * lives[k] \in Nat
          /\ Limit * (lives'[k] - 1) \in Nat
          /\ Limit * lives'[k] = Limit * (lives'[k] - 1) + Limit
      BY <2>1, <2>3, OneLifeMore
    <3>5. Cardinality(Held(k)') <= count'[k] + Limit * (lives'[k] - 1)
      <4>1. CASE k \in exists
        <5>1. lives'[k] = lives[k]
          BY <2>2, <4>1 DEF CountedOn
        <5> QED BY <5>1, <4>1, <3>2, <3>3, <3>4, <2>1, <2>3
      <4>2. CASE k \notin exists
        <5>1. lives'[k] - 1 = lives[k] /\ count'[k] = 1
          BY <2>1, <2>2, <2>3, <4>2 DEF CountedOn, Fits
        <5> QED BY <5>1, <3>2, <3>3, <3>4, <2>1
      <4> QED BY <4>1, <4>2
    <3>6. count'[k] <= Limit
      BY <2>1, <2>6 DEF Allowed
    <3>7. Cardinality(Held(k)') <= Limit * lives'[k]
      BY <2>1, <3>2, <3>4, <3>5, <3>6
    <3> QED BY <2>3, <2>6, <3>5, <3>7 DEF Fits, Earlier
  <2> QED BY <2>4, <2>5, <2>6
<1> QED BY <1>2, <1>3

\* EXPIRE: the first of a life, who stood on the bucket, goes on standing on it
\* as one of those let through.
LEMMA SetExpiryFits ==
  ASSUME Typed, TypeOK', NEW k \in Keys, Fits(k), NEW r \in Requests, SetExpiry(r)
  PROVE  Fits(k)'
<1>1. TypeOK
  BY DEF Typed
<1>2. Untouched(k)
  BY <1>1 DEF SetExpiry, TimeToLive, Untouched, TypeOK
<1>3. Held(k)' \subseteq Held(k)
  BY <1>1 DEF SetExpiry, Decide, Go, run, account, ChargedTo, Held, AboutToBe, TypeOK
<1>4. CASE ~Allowed(1)
  <2>1. ChargedTo(k)' \subseteq ChargedTo(k)
    BY <1>4 DEF SetExpiry, Decide, run, account, ChargedTo
  <2> QED BY <1>2, <1>3, <2>1, NoMoreHeld
<1>5. CASE Allowed(1)
  <2>1. Limit # 0
    BY <1>5, RouteAssumption DEF Allowed
  <2>2. Held(k) \subseteq Requests
    BY <1>1 DEF Held, ChargedTo, AboutToBe, TypeOK
  <2>3. /\ Cardinality(Held(k)') <= Cardinality(Held(k))
        /\ Cardinality(Held(k)') \in Nat /\ Cardinality(Held(k)) \in Nat
    BY <1>3, <2>2, RequestSets
  <2>4. /\ lives'[k] = lives[k] /\ count'[k] = count[k] /\ (k \in exists' <=> k \in exists)
        /\ lives[k] \in Nat /\ count[k] \in Nat /\ Limit \in Nat
    BY <1>1, <1>2, RouteAssumption DEF Untouched, TypeOK
  <2>5. /\ Cardinality(Held(k)) <= Limit * lives[k]
        /\ k \in exists => lives[k] > 0
        /\ k \in exists => Cardinality(Held(k)) <= count[k] + Limit * (lives[k] - 1)
    BY <2>1 DEF Fits, Earlier
  <2>6. /\ Limit * lives[k] \in Nat
        /\ lives[k] > 0 => Limit * (lives[k] - 1) \in Nat
    BY <2>4, OneLifeMore
  <2>7. /\ Cardinality(Held(k)') <= Limit * lives'[k]
        /\ k \in exists' => Cardinality(Held(k)') <= count'[k] + Limit * (lives'[k] - 1)
    BY <2>3, <2>4, <2>5, <2>6
  <2>8. /\ k \notin exists' => count'[k] = 0
        /\ k \in exists' => lives'[k] > 0
    BY <2>4, <2>5 DEF Fits
  <2> QED BY <2>1, <2>7, <2>8 DEF Fits, Earlier
<1> QED BY <1>4, <1>5

\* The refund script takes a bucket down by one only as one who stood on it, in
\* this life or an earlier one, steps off.
LEMMA RefundFits ==
  ASSUME Typed, TypeOK', NEW k \in Keys, Fits(k), NEW r \in Requests, Refund(r)
  PROVE  Fits(k)'
<1>1. /\ TypeOK
      /\ at[r] = "refunding"
      /\ key[r] \in Keys
      /\ r \in charged
  BY DEF Typed, Told, Story, Working, Refund
<1>2. ChargedTo(k)' \subseteq ChargedTo(k) /\ Held(k)' \subseteq Held(k)
  BY <1>1 DEF Refund, AfterRefund, Caught, Go, run, ChargedTo, Held, AboutToBe, TypeOK
<1>3. CASE Untouched(k)
  BY <1>2, <1>3, NoMoreHeld
<1>4. CASE ~Untouched(k)
  <2>1. /\ k = key[r] /\ k \in exists /\ k \in exists'
        /\ count'[k] = count[k] - 1 /\ lives'[k] = lives[k]
    BY <1>1, <1>4 DEF Refund, RefundScript, RefundKey, Untouched, TypeOK
  <2>2. /\ r \in Held(k) /\ Held(k)' \subseteq Held(k) \ {r} /\ Held(k) \subseteq Requests
    BY <1>1, <2>1 DEF Refund, AfterRefund, Caught, Go, run, ChargedTo, Held, AboutToBe, TypeOK
  <2>3. /\ Cardinality(Held(k)') <= Cardinality(Held(k)) - 1
        /\ Cardinality(Held(k)') \in Nat /\ Cardinality(Held(k)) \in Nat
    BY <2>2, OneLess, RequestSets
  <2>4. lives[k] \in Nat /\ count[k] \in Nat /\ count'[k] \in Nat /\ Limit \in Nat /\ lives[k] > 0
    BY <1>1, <2>1, RouteAssumption DEF TypeOK, Fits
  <2>5. Limit * lives[k] \in Nat /\ Limit * (lives[k] - 1) \in Nat
    BY <2>4, OneLifeMore
  <2>6. ASSUME Limit # 0
        PROVE  /\ Cardinality(Held(k)') <= Limit * lives'[k]
               /\ Cardinality(Held(k)') <= count'[k] + Limit * (lives'[k] - 1)
    <3>1. /\ Cardinality(Held(k)) <= Limit * lives[k]
          /\ Cardinality(Held(k)) <= count[k] + Limit * (lives[k] - 1)
      BY <2>1, <2>6 DEF Fits, Earlier
    <3> QED BY <2>1, <2>3, <2>4, <2>5, <3>1
  <2>7. Limit = 0 => ChargedTo(k)' = {}
    BY <1>2 DEF Fits
  <2> QED BY <2>1, <2>4, <2>6, <2>7 DEF Fits, Earlier
<1> QED BY <1>3, <1>4

\* No other step lets anybody in, and none lowers a count, save the expiry of
\* the bucket.
LEMMA OthersFit ==
  ASSUME Typed, TypeOK', NEW k \in Keys, Fits(k), [Next]_vars,
         \A r \in Requests : ~Count(r) /\ ~SetExpiry(r) /\ ~Refund(r)
  PROVE  Fits(k)'
<1> USE DEF Go, buckets, run, shown, account
<1>1. /\ TypeOK
      /\ \A r \in Requests : Story(r)
  BY DEF Typed, Told
<1> DEFINE Quiet == /\ ChargedTo(k)' \subseteq ChargedTo(k)
                    /\ Held(k)' \subseteq Held(k)
                    /\ Untouched(k) \/ CountedOn(k) \/ Dropped(k)
<1> USE DEF ChargedTo, Held, AboutToBe, TypeOK
<1>2. ASSUME NEW r \in Requests, Arrive(r) PROVE Quiet
  <2>1. r \notin charged /\ at[r] = "new"
    BY <1>1, <1>2 DEF Arrive, Story
  <2>2. Untouched(k)
    BY <1>2 DEF Arrive, Untouched
  <2> QED BY <1>1, <1>2, <2>1, <2>2 DEF Arrive
<1>3. ASSUME NEW r \in Requests, CheckFails(r) PROVE Quiet
  <2>1. Untouched(k) \/ CountedOn(k)
    BY <1>1, <1>3 DEF CheckFails, Increment, TimeToLive, Untouched, CountedOn
  <2>2. charged' = charged /\ key' = key /\ at' = [at EXCEPT ![r] = "failing"]
    BY <1>3 DEF CheckFails, Caught
  <2> QED BY <1>1, <2>1, <2>2
<1>4. ASSUME NEW r \in Requests,
             \/ Recognise(r) \/ Greet(r) \/ TurnAway(r) \/ Build(r) \/ BuildFails(r)
             \/ StreamReturns(r) \/ StreamRaises(r) \/ RefundFails(r) \/ ReportFault(r)
             \/ Leave(r) \/ \E event \in Stream!Events : Emit(r, event)
      PROVE  Quiet
  <2>1. /\ UNCHANGED <<key, exists, lives, count>>
        /\ charged' = charged
        /\ at' = at \/ \E place \in Waiting \cup Ended :
             at' = [at EXCEPT ![r] = place] /\ place \notin {"checking", "counted"}
    BY <1>4 DEF Recognise, Greet, TurnAway, Build, BuildFails, StreamReturns, StreamRaises,
                RefundFails, ReportFault, Leave, Emit, AfterRefund, Caught, Waiting, Ended
  <2> QED BY <1>1, <2>1 DEF Untouched
<1>5. ASSUME NEW j \in Keys, Expire(j) PROVE Quiet
  <2>1. CASE j = k
    BY <1>1, <1>5, <2>1 DEF Expire, Dropped
  <2>2. CASE j # k
    BY <1>1, <1>5, <2>2 DEF Expire, Untouched
  <2> QED BY <2>1, <2>2
<1>6. ASSUME Tick \/ UNCHANGED vars PROVE Quiet
  BY <1>1, <1>6 DEF Tick, vars, Untouched
<1>7. Quiet
  <2> HIDE DEF Quiet
  <2> QED BY <1>2, <1>3, <1>4, <1>5, <1>6 DEF Next, Serve
<1> HIDE DEF ChargedTo, Held, AboutToBe, TypeOK
<1> QED BY <1>7, NoMoreHeld

\* A bucket outlives its hour, and in it is made once.
LEMMA OneLifeNext ==
  ASSUME Typed, TypeOK', NEW k \in Keys, OneLife(k), [Next]_vars
  PROVE  OneLife(k)'
<1> USE DEF Go, buckets, run, shown, account, TypeOK
<1>1. /\ TypeOK
      /\ \A r \in Requests : Story(r)
      /\ hour \in Nat /\ k[2] \in Nat /\ expires[k] \in Nat /\ lives[k] \in Nat
      /\ k = <<k[1], k[2]>>
  BY RouteAssumption DEF Typed, Told, Keys
<1>2. ASSUME NEW r \in Requests, at[r] \in {"checking", "counted"} PROVE key[r] \in Keys
  BY <1>1, <1>2 DEF Story, Working
<1>3. ASSUME NEW r \in Requests, Arrive(r) PROVE OneLife(k)'
  BY <1>1, <1>3 DEF Arrive, KeyNow, OneLife
<1>4. ASSUME NEW r \in Requests, Increment(key[r]), key[r] \in Keys, UNCHANGED <<hour, key>>
      PROVE  OneLife(k)'
  <2>1. CASE key[r] = k
    <3>1. /\ expires'[k] = expires[k] /\ k \in exists'
          /\ lives'[k] = IF k \in exists THEN lives[k] ELSE lives[k] + 1
      BY <1>1, <1>4, <2>1 DEF Increment
    <3> QED BY <1>1, <1>4, <3>1 DEF OneLife
  <2>2. CASE key[r] # k
    <3>1. /\ expires'[k] = expires[k] /\ (k \in exists' <=> k \in exists)
          /\ lives'[k] = lives[k]
      BY <1>1, <1>4, <2>2 DEF Increment
    <3> QED BY <1>1, <1>4, <3>1 DEF OneLife
  <2> QED BY <2>1, <2>2
<1>5. ASSUME NEW r \in Requests, TimeToLive(key[r]), key[r] \in Keys, UNCHANGED <<hour, key>>
      PROVE  OneLife(k)'
  <2>1. CASE key[r] = k
    <3>1. k[2] <= hour
      BY <2>1 DEF OneLife
    <3>2. expires'[k] = expires[k] \/ expires'[k] = hour + 1
      BY <1>1, <1>5, <2>1 DEF TimeToLive
    <3> QED BY <1>1, <1>5, <3>1, <3>2 DEF TimeToLive, OneLife
  <2>2. CASE key[r] # k
    <3>1. expires'[k] = expires[k]
      BY <1>1, <1>5, <2>2 DEF TimeToLive
    <3> QED BY <1>1, <1>5, <3>1 DEF TimeToLive, OneLife
  <2> QED BY <2>1, <2>2
<1>6. ASSUME NEW r \in Requests, Count(r) PROVE OneLife(k)'
  BY <1>2, <1>4, <1>6 DEF Count
<1>7. ASSUME NEW r \in Requests, SetExpiry(r) PROVE OneLife(k)'
  BY <1>2, <1>5, <1>7 DEF SetExpiry
<1>8. ASSUME UNCHANGED <<hour, key, exists, expires, lives>> PROVE OneLife(k)'
  BY <1>8 DEF OneLife
<1>9. ASSUME NEW r \in Requests, CheckFails(r) PROVE OneLife(k)'
  <2>1. UNCHANGED <<hour, key>>
    BY <1>9 DEF CheckFails
  <2> QED BY <1>2, <1>4, <1>5, <1>8, <1>9, <2>1 DEF CheckFails
<1>10. ASSUME NEW r \in Requests,
              \/ Recognise(r) \/ Greet(r) \/ TurnAway(r) \/ Build(r) \/ BuildFails(r)
              \/ StreamReturns(r) \/ StreamRaises(r) \/ RefundFails(r) \/ ReportFault(r)
              \/ Leave(r) \/ Refund(r) \/ \E event \in Stream!Events : Emit(r, event)
       PROVE  OneLife(k)'
  <2>1. UNCHANGED <<hour, key, exists, expires, lives>>
    BY <1>10 DEF Recognise, Greet, TurnAway, Build, BuildFails, StreamReturns, StreamRaises,
                 RefundFails, ReportFault, Leave, Emit, Refund, RefundScript
  <2> QED BY <1>8, <2>1
<1>11. CASE Tick
  <2>1. hour' = hour + 1 /\ UNCHANGED <<key, exists, expires, lives>>
    BY <1>11 DEF Tick
  <2>2. \A r \in Requests : key[r] = k => k[2] <= hour'
    BY <1>1, <2>1 DEF OneLife
  <2> QED BY <1>1, <2>1, <2>2 DEF OneLife
<1>12. ASSUME NEW j \in Keys, Expire(j) PROVE OneLife(k)'
  <2>1. CASE j = k
    <3>1. k[2] < hour
      BY <1>1, <1>12, <2>1 DEF Expire, OneLife
    <3>2. UNCHANGED <<hour, key, lives>> /\ expires'[k] = 0
      BY <1>1, <1>12, <2>1 DEF Expire
    <3> QED BY <1>1, <3>1, <3>2 DEF OneLife
  <2>2. CASE j # k
    <3>1. /\ UNCHANGED <<hour, key, lives>> /\ expires'[k] = expires[k]
          /\ k \in exists' <=> k \in exists
      BY <1>1, <1>12, <2>2 DEF Expire
    <3> QED BY <1>1, <3>1 DEF OneLife
  <2> QED BY <2>1, <2>2
<1>13. CASE UNCHANGED vars
  BY <1>8, <1>13 DEF vars
<1> QED BY <1>3, <1>6, <1>7, <1>9, <1>10, <1>11, <1>12, <1>13 DEF Next, Serve

\* Every step leaves the limiter with buckets that fit.
LEMMA AllFitNext == Typed /\ Typed' /\ AllFit /\ [Next]_vars => AllFit'
<1> SUFFICES ASSUME Typed, Typed', AllFit, [Next]_vars, NEW k \in Keys
             PROVE  Fits(k)' /\ OneLife(k)'
  BY DEF AllFit, Keys
<1>1. Fits(k) /\ OneLife(k) /\ TypeOK'
  BY DEF AllFit, Typed
<1>2. Fits(k)'
  BY <1>1, CountFits, SetExpiryFits, RefundFits, OthersFit
<1> QED BY <1>1, <1>2, OneLifeNext

\* However the requests of a visitor, the hour, the expiry of buckets, failures
\* and refunds fall: in its hour a visitor has no more live queries than the
\* limit, and later as many more as the bucket has been made anew.
THEOREM LimitCorrect == Spec => []LimitHolds
<1>1. ASSUME Typed, AllFit, NEW k \in Keys
      PROVE  /\ Cardinality(ChargedTo(k)) <= Limit * lives[k]
             /\ hour = k[2] => lives[k] <= 1
  <2>1. /\ ChargedTo(k) \subseteq Held(k) /\ Held(k) \subseteq Requests
        /\ lives[k] \in Nat /\ Limit \in Nat /\ hour \in Nat
    BY <1>1, RouteAssumption DEF Typed, TypeOK, ChargedTo, Held, AboutToBe
  <2>2. /\ Cardinality(ChargedTo(k)) <= Cardinality(Held(k))
        /\ Cardinality(ChargedTo(k)) \in Nat /\ Cardinality(Held(k)) \in Nat
    BY <2>1, RequestSets
  <2>3. Fits(k) /\ OneLife(k)
    BY <1>1 DEF AllFit
  <2>4. Limit * lives[k] \in Nat
    BY <2>1, OneLifeMore
  <2>5. hour = k[2] => lives[k] <= 1
    BY <2>1, <2>3 DEF OneLife
  <2>6. CASE Limit = 0
    <3>1. ChargedTo(k) = {}
      BY <2>3, <2>6 DEF Fits
    <3>2. Cardinality(ChargedTo(k)) = 0
      BY <3>1, FS_EmptySet
    <3>3. Cardinality(ChargedTo(k)) <= Limit * lives[k]
      BY <2>4, <3>2
    <3> QED BY <2>5, <3>3
  <2>7. CASE Limit # 0
    <3>1. Cardinality(Held(k)) <= Limit * lives[k]
      BY <2>3, <2>7 DEF Fits
    <3>2. Cardinality(ChargedTo(k)) <= Limit * lives[k]
      BY <2>2, <2>4, <3>1
    <3> QED BY <2>5, <3>2
  <2> QED BY <2>6, <2>7
<1>2. Typed /\ AllFit => LimitHolds
  BY <1>1 DEF LimitHolds
<1> QED BY <1>2, RouteTyped, AllFitInit, AllFitNext, PTL DEF Spec

=============================================================================
