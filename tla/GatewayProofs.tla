--------------------------- MODULE GatewayProofs ---------------------------
(***************************************************************************)
(* Theorems about Gateway, for any number of calls, any registry and any   *)
(* ceilings: its accounts; the fallback chain, how many attempts a call    *)
(* makes and what it has tried when it gives up; and the budget guard,     *)
(* which implements TokenLedger.                                           *)
(***************************************************************************)
EXTENDS Gateway, FiniteSetTheorems, SequenceTheorems, TLAPS

----------------------------------------------------------------------------
\* The laws of Total that proofs about ledgers need.

\* An element's row has as many units as the element contributes.
LEMMA RowSize ==
  ASSUME NEW x, NEW n \in Nat
  PROVE  IsFiniteSet(Row(x, n)) /\ Cardinality(Row(x, n)) = n
<1>1. IsFiniteSet(1 .. n) /\ Cardinality(1 .. n) = n
  BY FS_Interval
<1>2. IsFiniteSet({x}) /\ Cardinality({x}) = 1
  BY FS_Singleton
<1>3. IsFiniteSet({x} \X (1 .. n)) /\ Cardinality({x} \X (1 .. n)) = 1 * n
  BY <1>1, <1>2, FS_Product
<1> QED BY <1>3 DEF Row

\* A finite set has finitely many units, so a total is a natural number.
LEMMA TotalType ==
  ASSUME NEW S, IsFiniteSet(S), NEW f \in [S -> Nat]
  PROVE  IsFiniteSet(Units(S, f)) /\ Total(S, f) \in Nat
<1> DEFINE rows == {Row(x, f[x]) : x \in S}
           row  == [x \in S |-> Row(x, f[x])]
<1>1. row \in Surjection(S, rows)
  BY DEF Surjection
<1>2. IsFiniteSet(rows)
  <2> HIDE DEF rows, row
  <2> QED BY <1>1, FS_Surjection
<1>3. \A T \in rows : IsFiniteSet(T)
  BY RowSize
<1>4. IsFiniteSet(UNION rows)
  <2> HIDE DEF rows
  <2> QED BY <1>2, <1>3, FS_UNION
<1>5. IsFiniteSet(Units(S, f))
  BY <1>4 DEF Units
<1> QED BY <1>5, FS_CardinalityType DEF Total

\* Taking one element out of the sum.
LEMMA TotalSplit ==
  ASSUME NEW S, IsFiniteSet(S), NEW f \in [S -> Nat], NEW c \in S
  PROVE  Total(S, f) = Total(S \ {c}, f) + f[c]
<1> DEFINE others == S \ {c}
<1>1. IsFiniteSet(others)
  BY FS_RemoveElement
<1>2. IsFiniteSet(Units(others, f)) /\ Total(others, f) \in Nat
  <2>1. Units(others, f) = Units(others, [x \in others |-> f[x]])
    BY DEF Units, Row
  <2>2. [x \in others |-> f[x]] \in [others -> Nat]
    OBVIOUS
  <2> HIDE DEF others
  <2> QED BY <1>1, <2>1, <2>2, TotalType DEF Total
<1>3. IsFiniteSet(Row(c, f[c])) /\ Cardinality(Row(c, f[c])) = f[c]
  BY RowSize
<1>4. Units(S, f) = Units(others, f) \cup Row(c, f[c])
  BY DEF Units
<1>5. Units(others, f) \cap Row(c, f[c]) = {}
  BY DEF Units, Row
<1> QED
  <2> HIDE DEF others
  <2>1. Cardinality(Units(others, f) \cup Row(c, f[c]))
          = Cardinality(Units(others, f)) + Cardinality(Row(c, f[c])) - Cardinality({})
    BY <1>2, <1>3, <1>5, FS_Union
  <2>2. Cardinality({}) = 0
    BY FS_EmptySet
  <2>3. Cardinality(Units(S, f)) = Cardinality(Units(others, f)) + f[c] - 0
    BY <1>3, <1>4, <2>1, <2>2
  <2>4. Total(S, f) = Total(others, f) + f[c]
    BY <1>2, <2>3 DEF Total
  <2> QED BY <2>4 DEF others

\* A sum depends on the values over its own set only.
LEMMA TotalSame ==
  ASSUME NEW S, NEW f, NEW g, \A x \in S : f[x] = g[x]
  PROVE  Total(S, f) = Total(S, g)
<1>1. Units(S, f) = Units(S, g)
  BY DEF Units
<1> QED BY <1>1 DEF Total

\* Changing the contribution of one element changes the sum by as much.
LEMMA TotalUpdate ==
  ASSUME NEW S, IsFiniteSet(S), NEW f \in [S -> Nat], NEW g \in [S -> Nat],
         NEW c \in S, \A x \in S \ {c} : g[x] = f[x]
  PROVE  Total(S, g) = Total(S, f) - f[c] + g[c]
<1> DEFINE others == S \ {c}
<1>1. Total(S, f) = Total(others, f) + f[c]
  BY TotalSplit
<1>2. Total(S, g) = Total(others, g) + g[c]
  BY TotalSplit
<1>3. Total(others, f) = Total(others, g)
  BY TotalSame
<1>4. Total(others, f) \in Nat
  <2>1. IsFiniteSet(others)
    BY FS_RemoveElement
  <2>2. Total(others, f) = Total(others, [x \in others |-> f[x]])
    BY TotalSame
  <2>3. [x \in others |-> f[x]] \in [others -> Nat]
    OBVIOUS
  <2> HIDE DEF others
  <2> QED BY <2>1, <2>2, <2>3, TotalType
<1> HIDE DEF others
<1> QED BY <1>1, <1>2, <1>3, <1>4

\* Fewer elements that contribute less make a smaller sum.
LEMMA TotalMonotonic ==
  ASSUME NEW T, IsFiniteSet(T), NEW S \in SUBSET T,
         NEW f \in [T -> Nat], NEW g \in [T -> Nat],
         \A x \in S : f[x] <= g[x]
  PROVE  Total(S, f) <= Total(T, g)
<1>1. Units(S, f) \subseteq Units(T, g)
  BY DEF Units, Row
<1>2. IsFiniteSet(Units(T, g))
  BY TotalType
<1> QED BY <1>1, <1>2, FS_Subset DEF Total

----------------------------------------------------------------------------
\* The accounts.

\* Where the call's chain entry is read, it is one of the chain's; where its
\* booking is corrected, there is one; a call that has booked nothing is on
\* no day's key; and only a call that reached its end has an outcome of its
\* own.
Placed ==
  \A c \in Calls :
    /\ pc[c] \in {"acquire", "calling", "backoff", "reconcile", "track"} =>
         entry[c] <= Len(ChainOf(c))
    /\ pc[c] \in Granted \cup {"rollback", "track", "store"} => bookedOn[c] \in Days
    /\ pc[c] \in {"idle", "lookup", "reserve"} => bookedOn[c] = 0
    /\ pc[c] # "end" => outcome[c] \in {"none", "aborted"}

Typed == TypeOK /\ Placed

\* The entry a call stands at is an entry of the registry.
LEMMA EntryType ==
  ASSUME Typed, NEW c \in Calls, entry[c] <= Len(ChainOf(c))
  PROVE  /\ EntryOf(c) \in Entries
         /\ ProviderOf(c) \in Providers
         /\ EntryOf(c).limit \in Nat \ {0}
<1>1. request[c] \in Requests /\ entry[c] \in Nat \ {0}
  BY DEF Typed, TypeOK
<1>2. ChainOf(c) \in Seq(Entries)
  BY <1>1, GatewayAssumption DEF ChainOf
<1>3. EntryOf(c) \in Entries
  BY <1>1, <1>2 DEF EntryOf
<1> QED BY <1>3 DEF ProviderOf, Entries

\* The estimate of a request is a positive number.
LEMMA EstimateType ==
  ASSUME Typed, NEW c \in Calls
  PROVE  Estimate(c) \in Nat \ {0}
BY GatewayAssumption DEF Typed, TypeOK, Estimate

\* Calls that have not started are well placed.
LEMMA TypedInit == Init => Typed
<1> SUFFICES ASSUME Init PROVE Typed
  OBVIOUS
<1>1. ASSUME NEW c \in Calls PROVE made[c] \in Seq(Nat)
  <2> DEFINE s == Chain[TierOf[request[c]]]
  <2>1. s \in Seq(Entries)
    BY GatewayAssumption DEF Init
  <2>2. made[c] = [i \in DOMAIN s |-> 0]
    BY DEF Init
  <2> HIDE DEF s
  <2>3. Len(s) \in Nat /\ DOMAIN s = 1..Len(s)
    BY <2>1
  <2>4. made[c] \in [1..Len(s) -> Nat]
    BY <2>2, <2>3
  <2> QED BY <2>3, <2>4
<1>2. made \in AttemptCounts
  BY <1>1 DEF Init, AttemptCounts
<1> QED
  BY <1>2, GatewayAssumption
     DEF Init, Typed, TypeOK, Placed, Days, Steps, Outcomes, Granted

\* The permit taken, or given back, is one of an existing provider.
LEMMA PermitType ==
  ASSUME Typed, NEW c \in Calls, entry[c] <= Len(ChainOf(c))
  PROVE  /\ GiveBack(c) => semaphore' \in [Providers -> [size : Nat, free : Nat]]
         /\ SemaphoreFor(c) \in [size : Nat, free : Nat]
         /\ Acquire(c) => semaphore' \in [Providers -> [size : Nat, free : Nat]]
<1> DEFINE p == ProviderOf(c)
<1>1. p \in Providers /\ EntryOf(c).limit \in Nat \ {0}
  BY EntryType
<1>2. semaphore \in [Providers -> [size : Nat, free : Nat]]
  BY DEF Typed, TypeOK
<1>3. SemaphoreFor(c) \in [size : Nat, free : Nat]
  BY <1>1, <1>2 DEF SemaphoreFor
<1>4. ASSUME GiveBack(c)
      PROVE  semaphore' \in [Providers -> [size : Nat, free : Nat]]
  <2>1. semaphore' = [semaphore EXCEPT ![p] = [semaphore[p] EXCEPT !.free = @ + 1]]
    BY <1>1, <1>2, <1>4 DEF GiveBack
  <2>2. [semaphore[p] EXCEPT !.free = @ + 1] \in [size : Nat, free : Nat]
    BY <1>1, <1>2
  <2> QED BY <1>1, <1>2, <2>1, <2>2
<1>5. ASSUME Acquire(c)
      PROVE  semaphore' \in [Providers -> [size : Nat, free : Nat]]
  <2>1. [SemaphoreFor(c) EXCEPT !.free = @ - 1] \in [size : Nat, free : Nat]
    BY <1>3, <1>5 DEF Acquire, PermitFree
  <2> QED BY <1>1, <1>2, <1>5, <2>1 DEF Acquire
<1> QED BY <1>3, <1>4, <1>5

\* An element of a sequence is of the kind the sequence is made of.
LEMMA ElementOf ==
  ASSUME NEW D, NEW q \in Seq(D), NEW i \in DOMAIN q
  PROVE  q[i] \in D
OBVIOUS

\* One attempt more on one entry.
LEMMA MadeType ==
  ASSUME Typed, NEW c \in Calls, made' = [made EXCEPT ![c][entry[c]] = @ + 1]
  PROVE  made' \in AttemptCounts
<1> DEFINE q == made[c]
           i == entry[c]
<1>1. q \in Seq(Nat) /\ made \in [Calls -> Seq(Nat)]
  BY DEF Typed, TypeOK, AttemptCounts
<1>2. [q EXCEPT ![i] = q[i] + 1] \in Seq(Nat)
  <2> HIDE DEF q, i
  <2>1. CASE i \in 1..Len(q)
    <3>1. q[i] + 1 \in Nat
      BY <1>1, <2>1, ElementOf
    <3> QED BY <1>1, <2>1, <3>1, ExceptSeq
  <2>2. CASE i \notin 1..Len(q)
    <3>1. DOMAIN q = 1..Len(q)
      BY <1>1
    <3>2. [q EXCEPT ![i] = q[i] + 1] = q
      BY <1>1, <2>2, <3>1
    <3> QED BY <1>1, <3>2
  <2> QED BY <2>1, <2>2
<1>3. made' = [made EXCEPT ![c] = [q EXCEPT ![i] = q[i] + 1]]
  OBVIOUS
<1> HIDE DEF q, i
<1> QED BY <1>1, <1>2, <1>3 DEF AttemptCounts

\* Every step of a call, and of the world around it, keeps the types.
LEMMA TypeNext == Typed /\ [Next]_vars => TypeOK'
<1> SUFFICES ASSUME Typed, [Next]_vars PROVE TypeOK'
  OBVIOUS
<1> USE DEF Typed, TypeOK, At, Goto, End, Steps, Outcomes, redisVars, callVars
<1>1. ASSUME NEW c \in Calls, Start(c) PROVE TypeOK'
  BY <1>1 DEF Start
<1>2. ASSUME NEW c \in Calls, Lookup(c) PROVE TypeOK'
  BY <1>2 DEF Lookup
<1>3. ASSUME NEW c \in Calls, Reserve(c) PROVE TypeOK'
  <2>1. Estimate(c) \in Nat
    BY EstimateType
  <2>2. /\ counter' = [counter EXCEPT ![today] = @ + Estimate(c)]
        /\ bookedOn' = [bookedOn EXCEPT ![c] = today]
        /\ \E p \in Steps : pc' = [pc EXCEPT ![c] = p]
        /\ UNCHANGED <<today, cached, usage, semaphore, outcome, request>>
        /\ UNCHANGED <<entry, tries, attempt, total, used, made>>
    BY <1>3 DEF Reserve
  <2>3. counter' \in [Days -> Int] /\ bookedOn' \in [Calls -> Days \cup {0}]
        /\ pc' \in [Calls -> Steps]
    <3>1. /\ today \in Days /\ counter \in [Days -> Int]
          /\ bookedOn \in [Calls -> Days \cup {0}] /\ pc \in [Calls -> Steps]
      OBVIOUS
    <3> HIDE DEF Typed, TypeOK, Steps
    <3> QED BY <2>1, <2>2, <3>1
  <2> QED BY <2>2, <2>3
<1>4. ASSUME NEW c \in Calls, pc[c] \in {"rollback", "release"}, TakeBack(c)
      PROVE  counter' \in [Days -> Int]
  <2>1. Estimate(c) \in Nat /\ bookedOn[c] \in Days
    BY <1>4, EstimateType DEF Placed, Granted
  <2> QED BY <1>4, <2>1 DEF TakeBack, KeyOfBooking
<1>5. ASSUME NEW c \in Calls, Rollback(c) PROVE TypeOK'
  BY <1>4, <1>5 DEF Rollback
<1>6. ASSUME NEW c \in Calls, Choose(c) PROVE TypeOK'
  <2>1. pc' \in [Calls -> Steps]
    BY <1>6 DEF Choose
  <2>2. entry' = entry \/ entry' = [entry EXCEPT ![c] = @ + 1]
    BY <1>6 DEF Choose
  <2>3. tries' = tries \/ tries' = [tries EXCEPT ![c] = 0]
    BY <1>6 DEF Choose
  <2>4. entry' \in [Calls -> Nat \ {0}]
    BY <2>2
  <2>6. tries' \in [Calls -> Nat]
    <3>1. tries \in [Calls -> Nat]
      OBVIOUS
    <3> HIDE DEF Typed, TypeOK
    <3> QED BY <2>3, <3>1
  <2>5. /\ UNCHANGED <<today, counter, cached, usage, semaphore, outcome>>
        /\ UNCHANGED <<request, bookedOn, attempt, total, used, made>>
    BY <1>6 DEF Choose
  <2> QED BY <2>1, <2>4, <2>5, <2>6
<1>7. ASSUME NEW c \in Calls, Acquire(c) PROVE TypeOK'
  <2>1. semaphore' \in [Providers -> [size : Nat, free : Nat]]
    BY <1>7, PermitType DEF Placed, Acquire
  <2>2. made' \in AttemptCounts
    BY <1>7, MadeType DEF Acquire
  <2>3. /\ tries' = [tries EXCEPT ![c] = @ + 1]
        /\ attempt' = [attempt EXCEPT ![c] = @ + 1]
        /\ pc' = [pc EXCEPT ![c] = "calling"]
        /\ UNCHANGED <<today, counter, cached, usage, outcome>>
        /\ UNCHANGED <<request, bookedOn, entry, total, used>>
    BY <1>7 DEF Acquire
  <2>4. tries' \in [Calls -> Nat] /\ attempt' \in [Calls -> Nat] /\ pc' \in [Calls -> Steps]
    <3>1. tries \in [Calls -> Nat] /\ attempt \in [Calls -> Nat] /\ pc \in [Calls -> Steps]
      OBVIOUS
    <3>2. "calling" \in Steps
      OBVIOUS
    <3> HIDE DEF Typed, TypeOK, Steps
    <3> QED BY <2>3, <3>1, <3>2
  <2> QED BY <2>1, <2>2, <2>3, <2>4
<1>8. ASSUME NEW c \in Calls, At(c, "calling"), GiveBack(c)
      PROVE  semaphore' \in [Providers -> [size : Nat, free : Nat]]
  BY <1>8, PermitType DEF Placed
<1>9. ASSUME NEW c \in Calls, NEW tokens \in Usages, Succeed(c, tokens) PROVE TypeOK'
  <2>1. tokens \in Nat
    BY GatewayAssumption
  <2> QED BY <1>8, <1>9, <2>1 DEF Succeed
<1>10. ASSUME NEW c \in Calls, FailTransient(c)
       PROVE  TypeOK'
  <2>1. RetryAttempts \in Nat
    BY GatewayAssumption
  <2>2. pc' \in [Calls -> Steps]
    BY <1>10, <2>1 DEF FailTransient
  <2>3. entry' = entry \/ entry' = [entry EXCEPT ![c] = @ + 1]
    BY <1>10 DEF FailTransient, NextEntry
  <2>4. total' = total \/ total' = [total EXCEPT ![c] = @ + RetryAttempts]
    BY <1>10 DEF FailTransient
  <2>5. entry' \in [Calls -> Nat \ {0}]
    <3>1. entry \in [Calls -> Nat \ {0}]
      OBVIOUS
    <3> HIDE DEF Typed, TypeOK
    <3> QED BY <2>3, <3>1
  <2>6. total' \in [Calls -> Nat]
    <3>1. total \in [Calls -> Nat]
      OBVIOUS
    <3> HIDE DEF Typed, TypeOK
    <3> QED BY <2>1, <2>4, <3>1
  <2>7. /\ UNCHANGED <<today, counter, cached, usage, outcome, request, bookedOn>>
        /\ UNCHANGED <<tries, attempt, used, made>>
    BY <1>10 DEF FailTransient
  <2>8. semaphore' \in [Providers -> [size : Nat, free : Nat]]
    BY <1>8, <1>10 DEF FailTransient
  <2> QED BY <2>2, <2>5, <2>6, <2>7, <2>8
<1>11. ASSUME NEW c \in Calls, FailUnavailable(c) PROVE TypeOK'
  BY <1>8, <1>11 DEF FailUnavailable, NextEntry
<1>12. ASSUME NEW c \in Calls, FailFatal(c) PROVE TypeOK'
  BY <1>8, <1>12 DEF FailFatal
<1>13. ASSUME NEW c \in Calls, Backoff(c) PROVE TypeOK'
  BY <1>13 DEF Backoff
<1>14. ASSUME NEW c \in Calls, Release(c) PROVE TypeOK'
  BY <1>4, <1>14 DEF Release
<1>15. ASSUME NEW c \in Calls, Reconcile(c) PROVE TypeOK'
  <2>1. Estimate(c) \in Nat /\ bookedOn[c] \in Days
    BY <1>15, EstimateType DEF Placed, Reconcile, Granted
  <2> QED BY <1>15, <2>1 DEF Reconcile, KeyOfBooking
<1>16. ASSUME NEW c \in Calls, Track(c) PROVE TypeOK'
  <2>1. ProviderOf(c) \in Providers
    BY <1>16, EntryType DEF Placed, Track
  <2>2. usage[ProviderOf(c)] \in [Days -> Nat]
    BY <2>1
  <2>3. usage' \in [Providers -> [Days -> Nat]]
    BY <1>16, <2>1, <2>2 DEF Track
  <2> QED BY <1>16, <2>3 DEF Track
<1>17. ASSUME NEW c \in Calls, Store(c) PROVE TypeOK'
  BY <1>17 DEF Store
<1>18. ASSUME NEW c \in Calls, Abort(c) PROVE TypeOK'
  BY <1>8, <1>18 DEF Abort
<1>19. ASSUME NEW r \in Requests, Expire(r) PROVE TypeOK'
  BY <1>19 DEF Expire
<1>20. CASE Midnight
  BY <1>20, GatewayAssumption DEF Midnight, Days
<1>21. CASE UNCHANGED vars
  BY <1>21 DEF vars
<1> QED
  BY <1>1, <1>2, <1>3, <1>5, <1>6, <1>7, <1>9, <1>10, <1>11, <1>12, <1>13, <1>14, <1>15,
     <1>16, <1>17, <1>18, <1>19, <1>20, <1>21 DEF Next, Advance, Respond, Done

\* A call's place only changes by its own steps, which keep it well placed.
LEMMA PlacedNext == Typed /\ [Next]_vars => Placed'
<1> SUFFICES ASSUME Typed, [Next]_vars PROVE Placed'
  OBVIOUS
<1> USE DEF Typed, TypeOK, At, Goto, End, redisVars, callVars
<1>1. ASSUME UNCHANGED <<pc, outcome, request, bookedOn, entry>> PROVE Placed'
  BY <1>1 DEF Placed, ChainOf
<1>2. ASSUME NEW c \in Calls, Start(c) PROVE Placed'
  BY <1>2 DEF Placed, Start, ChainOf, Granted
<1>3. ASSUME NEW c \in Calls, Lookup(c) PROVE Placed'
  BY <1>3 DEF Placed, Lookup, ChainOf, Granted
<1>4. ASSUME NEW c \in Calls, Reserve(c) PROVE Placed'
  BY <1>4 DEF Placed, Reserve, ChainOf, Granted
<1>5. ASSUME NEW c \in Calls, Rollback(c) PROVE Placed'
  BY <1>5 DEF Placed, Rollback, ChainOf, Granted
<1>6. ASSUME NEW c \in Calls, Choose(c) PROVE Placed'
  <2>1. UNCHANGED <<outcome, request, bookedOn>> /\ pc[c] = "choose"
    BY <1>6 DEF Choose
  <2>2. \A b \in Calls \ {c} : pc'[b] = pc[b] /\ entry'[b] = entry[b]
    BY <1>6 DEF Choose
  <2>3. pc'[c] \in {"release", "choose"} \/
        (pc'[c] = "acquire" /\ entry'[c] = entry[c] /\ entry[c] <= Len(ChainOf(c)))
    BY <1>6 DEF Choose
  <2> QED BY <1>6, <2>1, <2>2, <2>3 DEF Placed, ChainOf, Granted
<1>7. ASSUME NEW c \in Calls, Acquire(c) PROVE Placed'
  BY <1>7 DEF Placed, Acquire, ChainOf, Granted
<1>8. ASSUME NEW c \in Calls, NEW tokens \in Usages, Succeed(c, tokens) PROVE Placed'
  BY <1>8 DEF Placed, Succeed, ChainOf, Granted
<1>9. ASSUME NEW c \in Calls, FailTransient(c)
      PROVE  Placed'
  <2>1. UNCHANGED <<outcome, request, bookedOn>> /\ pc[c] = "calling"
    BY <1>9 DEF FailTransient
  <2>2. \A b \in Calls \ {c} : pc'[b] = pc[b] /\ entry'[b] = entry[b]
    BY <1>9 DEF FailTransient
  <2>3. pc'[c] = "choose" \/ (pc'[c] = "backoff" /\ entry'[c] = entry[c])
    BY <1>9 DEF FailTransient
  <2> QED BY <1>9, <2>1, <2>2, <2>3 DEF Placed, ChainOf, Granted
<1>10. ASSUME NEW c \in Calls, FailUnavailable(c) PROVE Placed'
  BY <1>10 DEF Placed, FailUnavailable, ChainOf, Granted
<1>11. ASSUME NEW c \in Calls, FailFatal(c) PROVE Placed'
  BY <1>11 DEF Placed, FailFatal, ChainOf, Granted
<1>12. ASSUME NEW c \in Calls, Backoff(c) PROVE Placed'
  BY <1>12 DEF Placed, Backoff, ChainOf, Granted
<1>13. ASSUME NEW c \in Calls, Release(c) PROVE Placed'
  BY <1>13 DEF Placed, Release, ChainOf, Granted
<1>14. ASSUME NEW c \in Calls, Reconcile(c) PROVE Placed'
  BY <1>14 DEF Placed, Reconcile, ChainOf, Granted
<1>15. ASSUME NEW c \in Calls, Track(c) PROVE Placed'
  BY <1>15 DEF Placed, Track, ChainOf, Granted
<1>16. ASSUME NEW c \in Calls, Store(c) PROVE Placed'
  BY <1>16 DEF Placed, Store, ChainOf, Granted
<1>17. ASSUME NEW c \in Calls, Abort(c) PROVE Placed'
  BY <1>17 DEF Placed, Abort, ChainOf, Granted
<1>18. ASSUME NEW r \in Requests, Expire(r) PROVE Placed'
  BY <1>1, <1>18 DEF Expire
<1>19. CASE Midnight
  BY <1>1, <1>19 DEF Midnight
<1>20. CASE UNCHANGED vars
  BY <1>1, <1>20 DEF vars
<1> QED
  BY <1>2, <1>3, <1>4, <1>5, <1>6, <1>7, <1>8, <1>9, <1>10, <1>11, <1>12, <1>13, <1>14,
     <1>15, <1>16, <1>17, <1>18, <1>19, <1>20 DEF Next, Advance, Respond, Done

\* Types and places hold in every state.
LEMMA TypedAlways == Spec => []Typed
<1>1. Typed /\ [Next]_vars => Typed'
  BY TypeNext, PlacedNext DEF Typed
<1> QED BY <1>1, TypedInit, PTL DEF Spec

\* Every variable of the gateway keeps its type.
THEOREM TypeCorrect == Spec => []TypeOK
<1>1. Typed => TypeOK
  BY DEF Typed
<1> QED BY <1>1, TypedAlways, PTL

----------------------------------------------------------------------------
\* The calls in flight at a provider are finitely many.
LEMMA InFlightFinite ==
  ASSUME NEW p
  PROVE  IsFiniteSet(InFlight(p)) /\ Cardinality(InFlight(p)) \in Nat
<1>1. InFlight(p) \subseteq Calls
  BY DEF InFlight
<1> QED BY <1>1, FS_Subset, FS_CardinalityType, GatewayAssumption

\* Taking a permit puts one call in flight.
LEMMA PermitTaken ==
  ASSUME Typed, SemaphoreExact, NEW c \in Calls, Acquire(c)
  PROVE  SemaphoreExact'
<1>1. ProviderOf(c) \in Providers /\ EntryOf(c).limit \in Nat \ {0}
  BY EntryType DEF Typed, Placed, Acquire, At
<1>2. PICK q \in Providers : q = ProviderOf(c)
  BY <1>1
<1>3. semaphore \in [Providers -> [size : Nat, free : Nat]]
  BY DEF Typed, TypeOK
<1>4. /\ pc' = [pc EXCEPT ![c] = "calling"]
      /\ At(c, "acquire")
      /\ UNCHANGED <<outcome, request, entry>>
      /\ semaphore' = [semaphore EXCEPT ![q] = [SemaphoreFor(c) EXCEPT !.free = @ - 1]]
  BY <1>2 DEF Acquire, Goto
<1>5. pc \in [Calls -> Steps]
  BY DEF Typed, TypeOK
<1>6. ASSUME NEW p, NEW b
      PROVE  b \in InFlight(p)' <=> b \in InFlight(p) \/ (b = c /\ p = q)
  <2>1. CASE b = c
    <3>1. At(c, "calling")' /\ ~At(c, "calling") /\ ProviderOf(c)' = ProviderOf(c)
      BY <1>4, <1>5 DEF At, ProviderOf, EntryOf, ChainOf
    <3> QED BY <1>2, <2>1, <3>1 DEF InFlight
  <2>2. CASE b \in Calls \ {c}
    <3>1. (At(b, "calling")' <=> At(b, "calling")) /\ ProviderOf(b)' = ProviderOf(b)
      BY <1>4, <1>5, <2>2 DEF At, ProviderOf, EntryOf, ChainOf
    <3> QED BY <2>2, <3>1 DEF InFlight
  <2>3. CASE b \notin Calls
    BY <2>3 DEF InFlight
  <2> QED BY <2>1, <2>2, <2>3
<1>7. InFlight(q)' = InFlight(q) \cup {c}
  BY <1>6
<1>8. c \notin InFlight(q)
  BY <1>4 DEF InFlight, At
<1>9. Cardinality(InFlight(q)') = Cardinality(InFlight(q)) + 1
  BY <1>8, <1>7, InFlightFinite, FS_AddElement
<1>10. semaphore[q].free + Cardinality(InFlight(q)) = semaphore[q].size
  BY <1>1 DEF SemaphoreExact
<1>11. SemaphoreFor(c).free + Cardinality(InFlight(q)) = SemaphoreFor(c).size
  <2>1. CASE semaphore[q].size = 0
    <3>1. Cardinality(InFlight(q)) = 0
      BY <1>1, <1>3, <1>10, <2>1, InFlightFinite
    <3> QED BY <1>1, <1>2, <2>1, <3>1 DEF SemaphoreFor
  <2>2. CASE semaphore[q].size # 0
    BY <1>2, <1>10, <2>2 DEF SemaphoreFor
  <2> QED BY <2>1, <2>2
<1>12. semaphore'[q].free + Cardinality(InFlight(q)') = semaphore'[q].size
  <2>1. SemaphoreFor(c) \in [size : Nat, free : Nat]
    BY PermitType DEF Typed, Placed, Acquire, At
  <2>2. semaphore'[q] = [SemaphoreFor(c) EXCEPT !.free = @ - 1]
    BY <1>1, <1>3, <1>4
  <2> QED BY <1>9, <1>11, <2>1, <2>2, InFlightFinite
<1> QED
  <2> SUFFICES ASSUME NEW p \in Providers
               PROVE  semaphore'[p].free + Cardinality(InFlight(p)') = semaphore'[p].size
    BY DEF SemaphoreExact
  <2>1. CASE p = q
    BY <1>12, <2>1
  <2>2. CASE p # q
    <3>1. semaphore'[p] = semaphore[p]
      BY <1>3, <1>4, <2>2
    <3>2. \A b : b \in InFlight(p)' <=> b \in InFlight(p)
      BY <1>6, <2>2
    <3>3. InFlight(p)' = InFlight(p)
      BY <3>2
    <3> QED BY <3>1, <3>3 DEF SemaphoreExact
  <2> QED BY <2>1, <2>2

\* Giving it back takes the call out of flight.
LEMMA PermitReturned ==
  ASSUME Typed, SemaphoreExact, NEW c \in Calls, At(c, "calling"), GiveBack(c),
         request' = request, ~At(c, "calling")',
         \A b \in Calls \ {c} : pc'[b] = pc[b] /\ outcome'[b] = outcome[b]
                                /\ entry'[b] = entry[b]
  PROVE  SemaphoreExact'
<1>1. PICK q \in Providers : q = ProviderOf(c)
  BY EntryType DEF Typed, Placed, At
<1>2. semaphore \in [Providers -> [size : Nat, free : Nat]]
  BY DEF Typed, TypeOK
<1>3. ASSUME NEW p, NEW b
      PROVE  b \in InFlight(p)' <=> b \in InFlight(p) \ {c}
  <2>1. CASE b \in Calls \ {c}
    <3>1. (At(b, "calling")' <=> At(b, "calling")) /\ ProviderOf(b)' = ProviderOf(b)
      BY <2>1 DEF At, ProviderOf, EntryOf, ChainOf
    <3> QED BY <2>1, <3>1 DEF InFlight
  <2>2. CASE b \notin Calls \ {c}
    BY <2>2 DEF InFlight
  <2> QED BY <2>1, <2>2
<1>4. InFlight(q)' = InFlight(q) \ {c}
  BY <1>3
<1>5. c \in InFlight(q)
  BY <1>1 DEF InFlight
<1>6. Cardinality(InFlight(q)') = Cardinality(InFlight(q)) - 1
  BY <1>5, <1>4, InFlightFinite, FS_RemoveElement
<1>7. semaphore'[q] = [semaphore[q] EXCEPT !.free = @ + 1]
  BY <1>1, <1>2 DEF GiveBack
<1>8. semaphore'[q].free + Cardinality(InFlight(q)') = semaphore'[q].size
  <2>1. semaphore[q].free + Cardinality(InFlight(q)) = semaphore[q].size
    BY <1>1 DEF SemaphoreExact
  <2>2. semaphore'[q].free = semaphore[q].free + 1 /\ semaphore'[q].size = semaphore[q].size
    BY <1>1, <1>2, <1>7
  <2>3. semaphore[q].free \in Nat /\ semaphore[q].size \in Nat
    BY <1>1, <1>2
  <2> QED BY <1>6, <2>1, <2>2, <2>3, InFlightFinite
<1> QED
  <2> SUFFICES ASSUME NEW p \in Providers
               PROVE  semaphore'[p].free + Cardinality(InFlight(p)') = semaphore'[p].size
    BY DEF SemaphoreExact
  <2>1. CASE p = q
    BY <1>8, <2>1
  <2>2. CASE p # q
    <3>1. semaphore'[p] = semaphore[p]
      BY <1>1, <1>2, <2>2 DEF GiveBack
    <3>2. c \notin InFlight(p)
      BY <1>1, <2>2 DEF InFlight
    <3>3. \A b : b \in InFlight(p)' <=> b \in InFlight(p)
      BY <1>3, <3>2
    <3>4. InFlight(p)' = InFlight(p)
      BY <3>3
    <3> QED BY <3>1, <3>4 DEF SemaphoreExact
  <2> QED BY <2>1, <2>2

\* A step that neither starts nor ends an attempt leaves the permits alone.
LEMMA PermitsAlone ==
  ASSUME SemaphoreExact, UNCHANGED <<semaphore, request>>,
         \A b \in Calls : At(b, "calling")' = At(b, "calling"),
         \A b \in Calls : At(b, "calling") => entry'[b] = entry[b]
  PROVE  SemaphoreExact'
<1>1. \A p : InFlight(p)' = InFlight(p)
  BY DEF InFlight, ProviderOf, EntryOf, ChainOf
<1> QED BY <1>1 DEF SemaphoreExact

\* Every step keeps the permits free or held.
LEMMA SemaphoreNext == Typed /\ SemaphoreExact /\ [Next]_vars => SemaphoreExact'
<1> SUFFICES ASSUME Typed, SemaphoreExact, [Next]_vars PROVE SemaphoreExact'
  OBVIOUS
<1>1. pc \in [Calls -> Steps] /\ outcome \in [Calls -> Outcomes] /\ entry \in [Calls -> Nat \ {0}]
  BY DEF Typed, TypeOK
<1>2. ASSUME NEW c \in Calls, Advance(c) PROVE SemaphoreExact'
  <2>1. UNCHANGED <<semaphore, request>> /\ ~At(c, "calling")
    BY <1>2 DEF Advance, Start, Lookup, Reserve, Rollback, Choose, Backoff, Release,
                Reconcile, Track, Store, At, callVars
  <2>2. \A b \in Calls \ {c} : pc'[b] = pc[b] /\ outcome'[b] = outcome[b]
                               /\ entry'[b] = entry[b]
    BY <1>1, <1>2 DEF Advance, Start, Lookup, Reserve, Rollback, Choose, Backoff, Release,
                      Reconcile, Track, Store, Goto, End, callVars
  <2>3. pc'[c] # "calling"
    BY <1>1, <1>2 DEF Advance, Start, Lookup, Reserve, Rollback, Choose, Backoff, Release,
                      Reconcile, Track, Store, Goto, End, At
  <2> QED BY <2>1, <2>2, <2>3, PermitsAlone DEF At
<1>3. ASSUME NEW c \in Calls, Acquire(c) PROVE SemaphoreExact'
  BY <1>3, PermitTaken
<1>4. ASSUME NEW c \in Calls, Respond(c) PROVE SemaphoreExact'
  <2>1. At(c, "calling") /\ GiveBack(c) /\ request' = request
    BY <1>4 DEF Respond, Succeed, FailTransient, FailUnavailable, FailFatal, callVars
  <2>2. \A b \in Calls \ {c} : pc'[b] = pc[b] /\ outcome'[b] = outcome[b]
                               /\ entry'[b] = entry[b]
    BY <1>1, <1>4 DEF Respond, Succeed, FailTransient, FailUnavailable, FailFatal, Goto, callVars
  <2>3. pc'[c] # "calling"
    BY <1>1, <1>4 DEF Respond, Succeed, FailTransient, FailUnavailable, FailFatal, Goto
  <2>4. ~At(c, "calling")'
    BY <2>3 DEF At
  <2> QED BY <2>1, <2>2, <2>4, PermitReturned
<1>5. ASSUME NEW c \in Calls, Abort(c) PROVE SemaphoreExact'
  <2>1. /\ UNCHANGED <<pc, request, entry>>
        /\ outcome' = [outcome EXCEPT ![c] = "aborted"]
        /\ outcome[c] = "none"
    BY <1>5 DEF Abort, callVars
  <2>2. CASE pc[c] = "calling"
    <3>1. GiveBack(c) /\ At(c, "calling") /\ ~At(c, "calling")'
      BY <1>1, <1>5, <2>1, <2>2 DEF Abort, At
    <3> QED BY <1>1, <2>1, <3>1, PermitReturned
  <2>3. CASE pc[c] # "calling"
    <3>1. UNCHANGED semaphore
      BY <1>5, <2>3 DEF Abort
    <3> QED BY <1>1, <2>1, <2>3, <3>1, PermitsAlone DEF At
  <2> QED BY <2>2, <2>3
<1>6. CASE (\E r \in Requests : Expire(r)) \/ Midnight \/ UNCHANGED vars
  <2>1. UNCHANGED <<semaphore, request, pc, outcome, entry>>
    BY <1>6 DEF Expire, Midnight, vars, callVars
  <2> QED BY <2>1, PermitsAlone DEF At
<1> QED
  BY <1>2, <1>3, <1>4, <1>5, <1>6 DEF Next, Done

(***************************************************************************)
(* Whatever the number of calls and limits, every permit of a provider's   *)
(* semaphore is free or held by exactly one call in flight.                *)
(***************************************************************************)
THEOREM PermitsExact == Spec => []SemaphoreExact
<1>1. Init => SemaphoreExact
  <2> SUFFICES ASSUME Init, NEW p \in Providers
               PROVE  semaphore[p].free + Cardinality(InFlight(p)) = semaphore[p].size
    BY DEF SemaphoreExact
  <2>1. InFlight(p) = {}
    BY DEF Init, InFlight, At
  <2>2. semaphore[p].free = 0 /\ semaphore[p].size = 0
    BY DEF Init
  <2> QED BY <2>1, <2>2, FS_EmptySet
<1> QED BY <1>1, SemaphoreNext, TypedAlways, PTL DEF Spec

----------------------------------------------------------------------------
\* A charge is a natural number, and so is the part of it that was estimated.
LEMMA ChargeType == Typed => Charge \in [Calls -> Nat] /\ Covered \in [Calls -> Nat]
<1> SUFFICES ASSUME Typed PROVE Charge \in [Calls -> Nat] /\ Covered \in [Calls -> Nat]
  OBVIOUS
<1>1. \A c \in Calls : Estimate(c) \in Nat /\ used[c] \in Nat
  BY EstimateType DEF Typed, TypeOK
<1>2. Charge \in [Calls -> Nat]
  BY <1>1 DEF Charge
<1> QED BY <1>1, <1>2 DEF Covered

\* The calls booked on a day are finitely many.
LEMMA BookedFinite ==
  ASSUME NEW d
  PROVE  IsFiniteSet(BookedOn(d)) /\ BookedOn(d) \subseteq Calls
<1>1. BookedOn(d) \subseteq Calls
  BY DEF BookedOn
<1> QED BY <1>1, FS_Subset, GatewayAssumption

\* A step that changes no charge and no key leaves the ledger exact.
LEMMA LedgerAlone ==
  ASSUME LedgerExact, UNCHANGED <<counter, bookedOn>>,
         \A b \in Calls : Charge'[b] = Charge[b]
  PROVE  LedgerExact'
<1> SUFFICES ASSUME NEW d \in Days
             PROVE  counter'[d] = Total(BookedOn(d)', Charge')
  BY DEF LedgerExact
<1>1. BookedOn(d)' = BookedOn(d)
  BY DEF BookedOn
<1>2. \A b \in BookedOn(d) : Charge'[b] = Charge[b]
  BY BookedFinite
<1>3. Total(BookedOn(d), Charge') = Total(BookedOn(d), Charge)
  BY <1>2, TotalSame
<1> QED BY <1>1, <1>3 DEF LedgerExact

\* A correction that moves the key by as much as the charge keeps it exact.
LEMMA LedgerCorrected ==
  ASSUME Typed, Typed', LedgerExact, UNCHANGED bookedOn,
         NEW c \in Calls, bookedOn[c] \in Days,
         \A b \in Calls \ {c} : Charge'[b] = Charge[b],
         counter' = [counter EXCEPT ![bookedOn[c]] = @ + (Charge'[c] - Charge[c])]
  PROVE  LedgerExact'
<1> SUFFICES ASSUME NEW d \in Days
             PROVE  counter'[d] = Total(BookedOn(d)', Charge')
  BY DEF LedgerExact
<1> DEFINE S == BookedOn(d)
<1>1. BookedOn(d)' = S
  BY DEF BookedOn
<1>2. IsFiniteSet(S) /\ S \subseteq Calls
  BY BookedFinite
<1>3. counter \in [Days -> Int] /\ counter[d] = Total(S, Charge)
  BY DEF Typed, TypeOK, LedgerExact
<1>4. Charge \in [Calls -> Nat] /\ Charge' \in [Calls -> Nat]
  <2>1. Typed' => (Charge \in [Calls -> Nat] /\ Covered \in [Calls -> Nat])'
    BY ChargeType, PTL
  <2> QED BY <2>1, ChargeType
<1>5. CASE bookedOn[c] = d
  <2> DEFINE f == [x \in S |-> Charge[x]]
             g == [x \in S |-> Charge'[x]]
  <2>1. c \in S
    BY <1>5 DEF BookedOn
  <2>2. f \in [S -> Nat] /\ g \in [S -> Nat] /\ \A x \in S \ {c} : g[x] = f[x]
    BY <1>2, <1>4
  <2>3. Total(S, f) = Total(S, Charge) /\ Total(S, g) = Total(S, Charge')
    <3>1. \A x \in S : f[x] = Charge[x] /\ g[x] = Charge'[x]
      OBVIOUS
    <3> HIDE DEF f, g, S
    <3> QED BY <3>1, TotalSame
  <2>4. Total(S, g) = Total(S, f) - f[c] + g[c]
    <3> HIDE DEF f, g, S
    <3> QED BY <1>2, <2>1, <2>2, TotalUpdate
  <2>5. f[c] = Charge[c] /\ g[c] = Charge'[c]
    BY <2>1
  <2>6. Total(S, f) \in Nat /\ f[c] \in Nat /\ g[c] \in Nat
    <3> HIDE DEF f, g, S
    <3> QED BY <1>2, <2>1, <2>2, TotalType
  <2>7. counter'[d] = counter[d] + (Charge'[c] - Charge[c])
    BY <1>3, <1>5
  <2> HIDE DEF f, g, S
  <2> QED BY <1>1, <1>3, <2>3, <2>4, <2>5, <2>6, <2>7
<1>6. CASE bookedOn[c] # d
  <2>1. c \notin S
    BY <1>6 DEF BookedOn
  <2>2. \A b \in S : Charge'[b] = Charge[b]
    BY <1>2, <2>1
  <2>3. Total(S, Charge') = Total(S, Charge)
    <3> HIDE DEF S
    <3> QED BY <2>2, TotalSame
  <2>4. counter'[d] = counter[d]
    BY <1>3, <1>6
  <2> QED BY <1>1, <1>3, <2>3, <2>4
<1> QED BY <1>5, <1>6

\* The charges of some calls are those of one of them and those of the rest.
LEMMA CallsSplit ==
  ASSUME NEW f \in [Calls -> Nat], NEW S \in SUBSET Calls, NEW c \in S
  PROVE  Total(S, f) = Total(S \ {c}, f) + f[c] /\ Total(S \ {c}, f) \in Nat
<1> DEFINE g == [x \in S |-> f[x]]
<1>1. g \in [S -> Nat] /\ g[c] = f[c]
  OBVIOUS
<1>2. Total(S, g) = Total(S, f) /\ Total(S \ {c}, g) = Total(S \ {c}, f)
  <2>1. (\A x \in S : g[x] = f[x]) /\ (\A x \in S \ {c} : g[x] = f[x])
    OBVIOUS
  <2> HIDE DEF g
  <2> QED BY <2>1, TotalSame
<1>3. IsFiniteSet(S)
  BY FS_Subset, GatewayAssumption
<1>4. Total(S, g) = Total(S \ {c}, g) + g[c]
  <2> HIDE DEF g
  <2> QED BY <1>1, <1>3, TotalSplit
<1>5. Total(S \ {c}, f) \in Nat
  <2> DEFINE R == S \ {c}
             h == [x \in R |-> f[x]]
  <2>1. h \in [R -> Nat] /\ \A x \in R : h[x] = f[x]
    OBVIOUS
  <2>2. IsFiniteSet(R)
    BY <1>3, FS_RemoveElement
  <2> HIDE DEF R, h
  <2>3. Total(R, h) \in Nat /\ Total(R, h) = Total(R, f)
    BY <2>1, <2>2, TotalType, TotalSame
  <2> QED BY <2>3 DEF R
<1> HIDE DEF g
<1> QED BY <1>1, <1>2, <1>4, <1>5

\* A booking puts its estimate on the key of the day it is made.
LEMMA LedgerBooked ==
  ASSUME Typed, Typed', LedgerExact, NEW c \in Calls, Reserve(c)
  PROVE  LedgerExact'
<1>1. /\ pc[c] = "reserve" /\ outcome[c] = "none"
      /\ bookedOn' = [bookedOn EXCEPT ![c] = today]
      /\ counter' = [counter EXCEPT ![today] = @ + Estimate(c)]
      /\ pc' = [pc EXCEPT ![c] = pc'[c]] /\ pc'[c] \in {"rollback", "choose"}
      /\ UNCHANGED <<outcome, request, used>>
  BY DEF Reserve, At, Goto, Typed, TypeOK
<1>2. /\ pc \in [Calls -> Steps] /\ bookedOn \in [Calls -> Days \cup {0}]
      /\ today \in Days /\ counter \in [Days -> Int]
  BY DEF Typed, TypeOK
<1>3. bookedOn[c] = 0 /\ 0 \notin Days
  BY <1>1 DEF Typed, Placed, Days
<1>4. Charge'[c] = Estimate(c) /\ Estimate(c) \in Nat
  BY <1>1, EstimateType DEF Charge, Estimate, Granted
<1>5. \A b \in Calls \ {c} : Charge'[b] = Charge[b]
  <2> SUFFICES ASSUME NEW b \in Calls \ {c} PROVE Charge'[b] = Charge[b]
    OBVIOUS
  <2>1. pc'[b] = pc[b]
    BY <1>1, <1>2
  <2> QED BY <1>1, <2>1 DEF Charge, Estimate, Reconciled
<1>6. Charge' \in [Calls -> Nat]
  <2>1. Typed' => (Charge \in [Calls -> Nat] /\ Covered \in [Calls -> Nat])'
    BY ChargeType, PTL
  <2> QED BY <2>1
<1> SUFFICES ASSUME NEW d \in Days
             PROVE  counter'[d] = Total(BookedOn(d)', Charge')
  BY DEF LedgerExact
<1> DEFINE S == BookedOn(d)
<1>7. c \notin S /\ S \subseteq Calls
  BY <1>3 DEF BookedOn
<1>8. Total(S, Charge') = counter[d]
  <2>1. \A b \in S : Charge'[b] = Charge[b]
    BY <1>5, <1>7
  <2>2. Total(S, Charge') = Total(S, Charge)
    <3> HIDE DEF S
    <3> QED BY <2>1, TotalSame
  <2> QED BY <2>2 DEF LedgerExact
<1>9. CASE d = today
  <2>1. BookedOn(d)' = S \cup {c}
    BY <1>1, <1>2, <1>9 DEF BookedOn
  <2>2. Total(S \cup {c}, Charge') = Total(S, Charge') + Charge'[c]
    <3> DEFINE T == S \cup {c}
    <3>1. T \in SUBSET Calls /\ c \in T /\ T \ {c} = S
      BY <1>7
    <3> HIDE DEF T, S
    <3>2. Total(T, Charge') = Total(T \ {c}, Charge') + Charge'[c]
      BY <1>6, <3>1, CallsSplit
    <3> QED BY <3>1, <3>2 DEF T
  <2>3. counter'[d] = counter[d] + Estimate(c)
    BY <1>1, <1>2, <1>9
  <2> HIDE DEF S
  <2> QED BY <1>4, <1>8, <2>1, <2>2, <2>3
<1>10. CASE d # today
  <2>1. BookedOn(d)' = S
    BY <1>1, <1>2, <1>3, <1>10 DEF BookedOn
  <2>2. counter'[d] = counter[d]
    BY <1>1, <1>2, <1>10
  <2> QED BY <1>8, <2>1, <2>2
<1> QED BY <1>9, <1>10

\* A step of one call leaves the standing of the others alone.
LEMMA OthersStand ==
  ASSUME Typed, NEW c \in Calls, Advance(c) \/ Acquire(c) \/ Respond(c) \/ Abort(c)
  PROVE  \A b \in Calls \ {c} : /\ Charge'[b] = Charge[b]
                                 /\ Covered'[b] = Covered[b]
                                 /\ (Admitted(b)' <=> Admitted(b))
<1> SUFFICES ASSUME NEW b \in Calls \ {c}
             PROVE  /\ Charge'[b] = Charge[b]
                    /\ Covered'[b] = Covered[b]
                    /\ (Admitted(b)' <=> Admitted(b))
  OBVIOUS
<1>1. /\ pc \in [Calls -> Steps] /\ outcome \in [Calls -> Outcomes]
      /\ used \in [Calls -> Nat]
  BY DEF Typed, TypeOK
<1>2. request' = request
  BY DEF Advance, Start, Lookup, Reserve, Rollback, Choose, Backoff, Release, Reconcile,
         Track, Store, Acquire, Respond, Succeed, FailTransient, FailUnavailable, FailFatal,
         Abort, callVars
<1>3. pc'[b] = pc[b]
  BY <1>1 DEF Advance, Start, Lookup, Reserve, Rollback, Choose, Backoff, Release, Reconcile,
         Track, Store, Acquire, Respond, Succeed, FailTransient, FailUnavailable, FailFatal,
         Abort, Goto, End
<1>4. outcome'[b] = outcome[b]
  BY <1>1 DEF Advance, Start, Lookup, Reserve, Rollback, Choose, Backoff, Release, Reconcile,
         Track, Store, Acquire, Respond, Succeed, FailTransient, FailUnavailable, FailFatal,
         Abort, End
<1>5. used'[b] = used[b]
  BY <1>1 DEF Advance, Start, Lookup, Reserve, Rollback, Choose, Backoff, Release, Reconcile,
         Track, Store, Acquire, Respond, Succeed, FailTransient, FailUnavailable, FailFatal,
         Abort, callVars
<1>6. Charge'[b] = Charge[b] /\ Estimate(b)' = Estimate(b)
  BY <1>2, <1>3, <1>4, <1>5 DEF Charge, Estimate, Reconciled
<1>7. Covered'[b] = Covered[b]
  BY <1>6 DEF Covered
<1>8. Admitted(b)' <=> Admitted(b)
  BY <1>3, <1>4 DEF Admitted, Reconciled
<1> QED BY <1>6, <1>7, <1>8

\* Every step moves a day's key as it moves the charges on it.
LEMMA LedgerNext == Typed /\ Typed' /\ LedgerExact /\ [Next]_vars => LedgerExact'
<1> SUFFICES ASSUME Typed, Typed', LedgerExact, [Next]_vars PROVE LedgerExact'
  OBVIOUS
<1>1. /\ pc \in [Calls -> Steps] /\ outcome \in [Calls -> Outcomes]
      /\ used \in [Calls -> Nat] /\ counter \in [Days -> Int]
      /\ \A c \in Calls : Estimate(c) \in Nat /\ used[c] \in Nat
  BY EstimateType DEF Typed, TypeOK
\* Steps between two corrections: the charge of the call stays as it is.
<1>2. ASSUME NEW c \in Calls, Start(c) \/ Lookup(c) \/ Choose(c) \/ Backoff(c) \/ Track(c)
                              \/ Store(c) \/ Acquire(c) \/ Respond(c) \/ Abort(c)
      PROVE  LedgerExact'
  <2>1. UNCHANGED <<counter, bookedOn, request>>
    BY <1>2 DEF Start, Lookup, Choose, Backoff, Track, Store, Acquire, Respond, Succeed,
                FailTransient, FailUnavailable, FailFatal, Abort, redisVars, callVars
  <2>2. Charge'[c] = Charge[c]
    <3>1. CASE Start(c) \/ Lookup(c)
      BY <1>1, <2>1, <3>1 DEF Start, Lookup, At, Goto, End, Charge, Estimate, Reconciled,
                              Granted
    <3>2. CASE Choose(c) \/ Backoff(c) \/ Acquire(c)
      <4>1. pc[c] \in Granted /\ pc'[c] \in Granted
        BY <1>1, <3>2 DEF Choose, Backoff, Acquire, At, Goto, Granted
      <4> QED BY <2>1, <4>1 DEF Charge, Estimate
    <3>3. CASE Respond(c)
      <4>1. pc[c] = "calling"
        BY <3>3 DEF Respond, Succeed, FailTransient, FailUnavailable, FailFatal, At
      <4>2. pc'[c] \in {"reconcile", "backoff", "choose", "release"}
        BY <1>1, <3>3 DEF Respond, Succeed, FailTransient, FailUnavailable, FailFatal, Goto
      <4> QED BY <2>1, <4>1, <4>2 DEF Charge, Estimate, Granted
    <3>4. CASE Track(c) \/ Store(c)
      <4>1. Reconciled(c) /\ pc[c] \notin Granted \cup {"rollback"}
        BY <3>4 DEF Track, Store, At, Reconciled, Granted
      <4>2. pc'[c] \in {"store", "end"} /\ (pc'[c] = "store" \/ outcome'[c] = "ok")
        BY <1>1, <3>4 DEF Track, Store, Goto, End
      <4>3. used' = used
        BY <3>4 DEF Track, Store, callVars
      <4> QED BY <4>1, <4>2, <4>3 DEF Charge, Reconciled, Granted
    <3>5. CASE Abort(c)
      <4>1. UNCHANGED <<pc, used>> /\ outcome[c] # "ok" /\ outcome'[c] # "ok"
        BY <1>1, <3>5 DEF Abort, callVars
      <4> QED BY <2>1, <4>1 DEF Charge, Estimate, Reconciled
    <3> QED BY <1>2, <3>1, <3>2, <3>3, <3>4, <3>5
  <2>3. \A b \in Calls \ {c} : Charge'[b] = Charge[b]
    BY <1>2, OthersStand DEF Advance
  <2> QED BY <2>1, <2>2, <2>3, LedgerAlone
<1>3. ASSUME NEW c \in Calls, Reserve(c) PROVE LedgerExact'
  BY <1>3, LedgerBooked
\* Taking a booking back, or correcting it to the tokens used.
<1>4. ASSUME NEW c \in Calls, Rollback(c) \/ Release(c) \/ Reconcile(c)
      PROVE  LedgerExact'
  <2>1. /\ UNCHANGED <<bookedOn, request, used>> /\ bookedOn[c] \in Days
        /\ outcome[c] = "none" /\ Charge[c] = Estimate(c)
    BY <1>1, <1>4 DEF Rollback, Release, Reconcile, At, callVars, Typed, Placed, Charge, Granted
  <2>2. counter' = [counter EXCEPT ![bookedOn[c]] = @ + (Charge'[c] - Charge[c])]
    <3>1. CASE Rollback(c) \/ Release(c)
      <4>1. Charge'[c] = 0
        BY <1>1, <2>1, <3>1 DEF Rollback, Release, End, Charge, Reconciled, Granted
      <4>2. counter' = [counter EXCEPT ![bookedOn[c]] = @ - Estimate(c)]
        BY <3>1 DEF Rollback, Release, TakeBack, KeyOfBooking
      <4>3. counter[bookedOn[c]] - Estimate(c) = counter[bookedOn[c]] + (0 - Estimate(c))
        BY <1>1, <2>1
      <4> QED BY <2>1, <4>1, <4>2, <4>3
    <3>2. CASE Reconcile(c)
      <4>1. Charge'[c] = used[c]
        BY <1>1, <2>1, <3>2 DEF Reconcile, Goto, Charge, Reconciled, Granted
      <4>2. counter' = [counter EXCEPT ![bookedOn[c]] = @ + (used[c] - Estimate(c))]
        BY <3>2 DEF Reconcile, KeyOfBooking
      <4> QED BY <2>1, <4>1, <4>2
    <3> QED BY <1>4, <3>1, <3>2
  <2>3. \A b \in Calls \ {c} : Charge'[b] = Charge[b]
    BY <1>4, OthersStand DEF Advance
  <2> QED BY <2>1, <2>2, <2>3, LedgerCorrected
<1>5. CASE (\E r \in Requests : Expire(r)) \/ Midnight \/ UNCHANGED vars
  <2>1. UNCHANGED <<counter, bookedOn, request, pc, outcome, used>>
    BY <1>5 DEF Expire, Midnight, vars, redisVars, callVars
  <2>2. \A b \in Calls : Charge'[b] = Charge[b]
    BY <2>1 DEF Charge, Estimate, Reconciled
  <2> QED BY <2>1, <2>2, LedgerAlone
<1> QED
  BY <1>2, <1>3, <1>4, <1>5 DEF Next, Advance, Done

(***************************************************************************)
(* Whatever the interleaving, the midnights and the aborts, the key of a   *)
(* day holds what the calls booked on it stand for, and nothing else.      *)
(***************************************************************************)
THEOREM LedgerCorrect == Spec => []LedgerExact
<1>1. Init => LedgerExact
  <2> SUFFICES ASSUME Init, NEW d \in Days PROVE counter[d] = Total(BookedOn(d), Charge)
    BY DEF LedgerExact
  <2>1. BookedOn(d) = {} /\ counter[d] = 0
    BY DEF Init, BookedOn, Days
  <2>2. Units({}, Charge) = {}
    BY DEF Units
  <2> QED BY <2>1, <2>2, FS_EmptySet DEF Total
<1> QED BY <1>1, LedgerNext, TypedAlways, PTL DEF Spec

----------------------------------------------------------------------------
\* The calls let through on a day.
AdmittedOn(d) == {c \in BookedOn(d) : Admitted(c)}

\* Sums over some of the calls compare as their terms do.
LEMMA CallsMonotonic ==
  ASSUME NEW T \in SUBSET Calls, NEW S \in SUBSET T,
         NEW f \in [Calls -> Nat], NEW g \in [Calls -> Nat],
         \A x \in S : f[x] <= g[x]
  PROVE  Total(S, f) <= Total(T, g) /\ Total(S, f) \in Nat /\ Total(T, g) \in Nat
<1> DEFINE f1 == [x \in T |-> f[x]]
           g1 == [x \in T |-> g[x]]
           f2 == [x \in S |-> f[x]]
<1>1. IsFiniteSet(T) /\ IsFiniteSet(S)
  BY FS_Subset, GatewayAssumption
<1>2. /\ f1 \in [T -> Nat] /\ g1 \in [T -> Nat] /\ f2 \in [S -> Nat]
      /\ \A x \in S : f1[x] <= g1[x]
      /\ \A x \in S : f1[x] = f[x] /\ f2[x] = f[x]
      /\ \A x \in T : g1[x] = g[x]
  OBVIOUS
<1> HIDE DEF f1, g1, f2
<1>3. Total(S, f1) = Total(S, f) /\ Total(S, f2) = Total(S, f) /\ Total(T, g1) = Total(T, g)
  BY <1>2, TotalSame
<1>4. Total(S, f1) <= Total(T, g1)
  BY <1>1, <1>2, TotalMonotonic
<1>5. Total(S, f2) \in Nat /\ Total(T, g1) \in Nat
  BY <1>1, <1>2, TotalType
<1> QED BY <1>3, <1>4, <1>5

\* What a call has on its key is at least what its estimate covered.
LEMMA CoveredCharge ==
  ASSUME Typed, NEW c \in Calls
  PROVE  Covered[c] <= Charge[c] /\ Covered[c] <= Estimate(c)
<1>1. Charge[c] \in Nat /\ Estimate(c) \in Nat
  BY ChargeType, EstimateType
<1> QED BY <1>1 DEF Covered

\* Calls that leave, or that turn out cheaper, keep the day under its ceiling.
LEMMA CeilingKept ==
  ASSUME Typed, Typed', DayCeilingHolds, UNCHANGED bookedOn,
         \A b \in Calls : Admitted(b)' => Admitted(b) /\ Covered'[b] <= Covered[b]
  PROVE  DayCeilingHolds'
<1> SUFFICES ASSUME NEW d \in Days
             PROVE  Total(AdmittedOn(d)', Covered') <= PerDayCeiling
  BY DEF DayCeilingHolds, AdmittedOn
<1>1. Typed' => (Charge \in [Calls -> Nat] /\ Covered \in [Calls -> Nat])'
  BY ChargeType, PTL
<1>2. Covered \in [Calls -> Nat] /\ Covered' \in [Calls -> Nat]
  BY <1>1, ChargeType
<1>3. AdmittedOn(d) \in SUBSET Calls /\ AdmittedOn(d)' \in SUBSET AdmittedOn(d)
  BY DEF AdmittedOn, BookedOn
<1>4. \A b \in AdmittedOn(d)' : Covered'[b] <= Covered[b]
  BY DEF AdmittedOn, BookedOn
<1>5. /\ Total(AdmittedOn(d)', Covered') <= Total(AdmittedOn(d), Covered)
      /\ Total(AdmittedOn(d)', Covered') \in Nat
      /\ Total(AdmittedOn(d), Covered) \in Nat
  BY <1>2, <1>3, <1>4, CallsMonotonic
<1>6. Total(AdmittedOn(d), Covered) <= PerDayCeiling
  BY DEF DayCeilingHolds, AdmittedOn
<1> QED BY <1>5, <1>6, GatewayAssumption

\* A call is let through only if what is on the key leaves room for it.
LEMMA CeilingBooked ==
  ASSUME Typed, Typed', LedgerExact, DayCeilingHolds, NEW c \in Calls, Reserve(c)
  PROVE  DayCeilingHolds'
<1>1. /\ pc[c] = "reserve" /\ outcome[c] = "none"
      /\ bookedOn' = [bookedOn EXCEPT ![c] = today]
      /\ pc'[c] = IF counter[today] + Estimate(c) > PerDayCeiling THEN "rollback" ELSE "choose"
      /\ UNCHANGED <<outcome, request, used>>
  BY DEF Reserve, At, Goto, OverCeiling, Typed, TypeOK
<1>2. /\ bookedOn \in [Calls -> Days \cup {0}] /\ today \in Days /\ counter \in [Days -> Int]
  BY DEF Typed, TypeOK
<1>3. bookedOn[c] = 0 /\ 0 \notin Days
  BY <1>1 DEF Typed, Placed, Days
<1>4. Typed' => (Charge \in [Calls -> Nat] /\ Covered \in [Calls -> Nat])'
  BY ChargeType, PTL
<1>5. /\ Covered \in [Calls -> Nat] /\ Covered' \in [Calls -> Nat]
      /\ Charge \in [Calls -> Nat] /\ Estimate(c) \in Nat
  BY <1>4, ChargeType, EstimateType
<1>6. \A b \in Calls \ {c} : Covered'[b] = Covered[b] /\ (Admitted(b)' <=> Admitted(b))
  BY OthersStand DEF Advance
<1>7. ~Admitted(c)
  BY <1>1 DEF Admitted, Reconciled, Granted
<1> SUFFICES ASSUME NEW d \in Days
             PROVE  Total(AdmittedOn(d)', Covered') <= PerDayCeiling
  BY DEF DayCeilingHolds, AdmittedOn
<1> DEFINE S == AdmittedOn(d)
<1>8. c \notin S /\ S \subseteq BookedOn(d) /\ BookedOn(d) \subseteq Calls
  BY <1>7 DEF AdmittedOn, BookedOn
<1>9. Total(S, Covered') = Total(S, Covered) /\ Total(S, Covered) <= PerDayCeiling
  <2>1. \A b \in S : Covered'[b] = Covered[b]
    BY <1>6, <1>8
  <2>2. Total(S, Covered') = Total(S, Covered)
    <3> HIDE DEF S
    <3> QED BY <2>1, TotalSame
  <2> QED BY <2>2 DEF DayCeilingHolds, AdmittedOn
<1>10. CASE d = today /\ pc'[c] = "choose"
  <2>1. AdmittedOn(d)' = S \cup {c}
    <3>1. Admitted(c)'
      BY <1>10 DEF Admitted, Granted
    <3>2. BookedOn(d)' = BookedOn(d) \cup {c}
      BY <1>1, <1>2, <1>10 DEF BookedOn
    <3>3. \A b : b \in AdmittedOn(d)' <=> b \in S \/ b = c
      BY <1>6, <1>8, <3>1, <3>2 DEF AdmittedOn
    <3> HIDE DEF S
    <3> QED BY <3>3
  <2>2. Total(S \cup {c}, Covered') = Total(S, Covered') + Covered'[c]
    <3> DEFINE T == S \cup {c}
    <3>1. T \in SUBSET Calls /\ c \in T /\ T \ {c} = S
      BY <1>8
    <3> HIDE DEF T, S
    <3>2. Total(T, Covered') = Total(T \ {c}, Covered') + Covered'[c]
      BY <1>5, <3>1, CallsSplit
    <3> QED BY <3>1, <3>2 DEF T
  <2>3. Covered'[c] <= Estimate(c) /\ Covered'[c] \in Nat
    <3>1. Charge'[c] = Estimate(c)
      BY <1>1, <1>10 DEF Charge, Estimate, Granted
    <3>2. Estimate(c)' = Estimate(c)
      BY <1>1 DEF Estimate
    <3> QED BY <1>5, <3>1, <3>2 DEF Covered
  <2>4. Total(S, Covered) <= counter[d] /\ Total(S, Covered) \in Nat
    <3>1. \A b \in S : Covered[b] <= Charge[b]
      BY <1>8, CoveredCharge
    <3>2. Total(S, Covered) <= Total(BookedOn(d), Charge) /\ Total(S, Covered) \in Nat
      <4> HIDE DEF S
      <4> QED BY <1>5, <1>8, <3>1, CallsMonotonic
    <3> QED BY <3>2 DEF LedgerExact
  <2>5. counter[d] + Estimate(c) <= PerDayCeiling
    BY <1>1, <1>2, <1>5, <1>10, GatewayAssumption
  <2>6. counter[d] \in Int /\ PerDayCeiling \in Nat
    BY <1>2, GatewayAssumption
  <2> HIDE DEF S
  <2> QED BY <1>5, <1>9, <2>1, <2>2, <2>3, <2>4, <2>5, <2>6
<1>11. CASE ~(d = today /\ pc'[c] = "choose")
  <2>1. c \notin AdmittedOn(d)'
    <3>1. CASE d # today
      BY <1>1, <1>2, <3>1 DEF AdmittedOn, BookedOn
    <3>2. CASE d = today
      <4>1. pc'[c] = "rollback" /\ outcome'[c] = "none"
        BY <1>1, <1>11, <3>2
      <4>2. ~Admitted(c)'
        BY <4>1 DEF Admitted, Reconciled, Granted
      <4> QED BY <4>2 DEF AdmittedOn
    <3> QED BY <3>1, <3>2
  <2>2. \A b \in Calls \ {c} : b \in BookedOn(d)' <=> b \in BookedOn(d)
    BY <1>1, <1>2 DEF BookedOn
  <2>3. BookedOn(d)' \subseteq Calls
    BY DEF BookedOn
  <2>4. \A b : b \in AdmittedOn(d)' <=> b \in S
    BY <1>6, <1>8, <2>1, <2>2, <2>3 DEF AdmittedOn
  <2>5. AdmittedOn(d)' = S
    <3> HIDE DEF S
    <3> QED BY <2>4
  <2> QED BY <1>9, <2>5
<1> QED BY <1>10, <1>11

\* Every step keeps the calls let through under their day's ceiling.
LEMMA CeilingNext ==
  Typed /\ Typed' /\ LedgerExact /\ DayCeilingHolds /\ [Next]_vars => DayCeilingHolds'
<1> SUFFICES ASSUME Typed, Typed', LedgerExact, DayCeilingHolds, [Next]_vars
             PROVE  DayCeilingHolds'
  OBVIOUS
<1>1. /\ pc \in [Calls -> Steps] /\ outcome \in [Calls -> Outcomes]
      /\ used \in [Calls -> Nat]
  BY DEF Typed, TypeOK
<1>2. ASSUME NEW c \in Calls, UNCHANGED <<bookedOn, request>>,
             Advance(c) \/ Acquire(c) \/ Respond(c) \/ Abort(c),
             Admitted(c)' => Admitted(c) /\ Covered'[c] <= Covered[c]
      PROVE  DayCeilingHolds'
  <2>1. \A b \in Calls \ {c} : Covered'[b] = Covered[b] /\ (Admitted(b)' <=> Admitted(b))
    BY <1>2, OthersStand
  <2>2. \A b \in Calls : Covered[b] \in Nat
    BY ChargeType
  <2> QED BY <1>2, <2>1, <2>2, CeilingKept
\* Steps that end a call, or come before its booking.
<1>3. ASSUME NEW c \in Calls, Start(c) \/ Lookup(c) \/ Rollback(c) \/ Release(c)
      PROVE  DayCeilingHolds'
  <2>1. UNCHANGED <<bookedOn, request>>
    BY <1>3 DEF Start, Lookup, Rollback, Release, callVars
  <2>2. ~Admitted(c)'
    BY <1>1, <1>3 DEF Start, Lookup, Rollback, Release, At, Goto, End, Admitted, Reconciled,
                      Granted
  <2> QED BY <1>2, <1>3, <2>1, <2>2 DEF Advance
<1>4. ASSUME NEW c \in Calls, Reserve(c) PROVE DayCeilingHolds'
  BY <1>4, CeilingBooked
\* Steps of a call that was let through.
<1>5. ASSUME NEW c \in Calls, Choose(c) \/ Backoff(c) \/ Acquire(c) \/ Respond(c)
      PROVE  DayCeilingHolds'
  <2>1. UNCHANGED <<bookedOn, request>>
    BY <1>5 DEF Choose, Backoff, Acquire, Respond, Succeed, FailTransient, FailUnavailable,
                FailFatal, callVars
  <2>2. pc[c] \in Granted
    BY <1>5 DEF Choose, Backoff, Acquire, Respond, Succeed, FailTransient, FailUnavailable,
                FailFatal, At, Granted
  <2>3. pc'[c] \in {"choose", "release", "acquire", "calling", "backoff", "reconcile"}
    <3>1. CASE Choose(c) \/ Backoff(c) \/ Acquire(c)
      BY <1>1, <3>1 DEF Choose, Backoff, Acquire, Goto, At
    <3>2. CASE Respond(c)
      BY <1>1, <3>2 DEF Respond, Succeed, FailTransient, FailUnavailable, FailFatal, Goto
    <3> QED BY <1>5, <3>1, <3>2
  <2>4. Covered'[c] = Covered[c] /\ Covered[c] \in Nat
    <3>1. Charge'[c] = Charge[c] /\ Estimate(c)' = Estimate(c)
      BY <2>1, <2>2, <2>3 DEF Charge, Estimate, Granted
    <3> QED BY <3>1, ChargeType DEF Covered
  <2>5. Admitted(c)
    BY <2>2 DEF Admitted
  <2> QED BY <1>2, <1>5, <2>1, <2>4, <2>5 DEF Advance
<1>6. ASSUME NEW c \in Calls, Reconcile(c) PROVE DayCeilingHolds'
  <2>1. UNCHANGED <<bookedOn, request>> /\ pc[c] \in Granted
    BY <1>6 DEF Reconcile, At, Granted, callVars
  <2>2. Admitted(c) /\ Covered[c] = Estimate(c)
    BY <2>1, EstimateType DEF Admitted, Covered, Charge
  <2>3. Covered'[c] <= Estimate(c)
    <3>1. Estimate(c)' = Estimate(c) /\ Estimate(c) \in Nat
      BY <2>1, EstimateType DEF Estimate
    <3>2. Typed' => (Charge \in [Calls -> Nat] /\ Covered \in [Calls -> Nat])'
      BY ChargeType, PTL
    <3>3. Charge'[c] \in Nat
      BY <3>2
    <3> QED BY <3>1, <3>3 DEF Covered
  <2> QED BY <1>2, <1>6, <2>1, <2>2, <2>3 DEF Advance
<1>7. ASSUME NEW c \in Calls, Track(c) \/ Store(c) \/ Abort(c) PROVE DayCeilingHolds'
  <2>1. UNCHANGED <<bookedOn, request, used>>
    BY <1>7 DEF Track, Store, Abort, callVars
  <2>2. Charge'[c] = Charge[c] /\ (Admitted(c)' => Admitted(c))
    <3>1. CASE Track(c) \/ Store(c)
      <4>1. Reconciled(c) /\ pc[c] \notin Granted \cup {"rollback"}
        BY <3>1 DEF Track, Store, At, Reconciled, Granted
      <4>2. pc'[c] \in {"store", "end"} /\ (pc'[c] = "store" \/ outcome'[c] = "ok")
        BY <1>1, <3>1 DEF Track, Store, Goto, End
      <4> QED BY <2>1, <4>1, <4>2 DEF Charge, Admitted, Reconciled, Granted
    <3>2. CASE Abort(c)
      <4>1. UNCHANGED pc /\ outcome[c] # "ok" /\ outcome'[c] # "ok"
        BY <1>1, <3>2 DEF Abort
      <4> QED BY <2>1, <4>1 DEF Charge, Estimate, Admitted, Reconciled
    <3> QED BY <1>7, <3>1, <3>2
  <2>3. Covered'[c] = Covered[c] /\ Covered[c] \in Nat
    <3>1. Estimate(c)' = Estimate(c)
      BY <2>1 DEF Estimate
    <3> QED BY <2>2, <3>1, ChargeType DEF Covered
  <2> QED BY <1>2, <1>7, <2>1, <2>2, <2>3 DEF Advance
<1>8. CASE (\E r \in Requests : Expire(r)) \/ Midnight \/ UNCHANGED vars
  <2>1. UNCHANGED <<bookedOn, request, pc, outcome, used>>
    BY <1>8 DEF Expire, Midnight, vars, redisVars, callVars
  <2>2. UNCHANGED <<Covered, Charge>>
    <3>1. UNCHANGED Charge
      BY <2>1 DEF Charge, Estimate, Reconciled
    <3> QED BY <2>1, <3>1 DEF Covered, Estimate
  <2>3. \A b \in Calls : Admitted(b)' <=> Admitted(b)
    BY <2>1 DEF Admitted, Reconciled
  <2>4. \A b \in Calls : Covered[b] \in Nat
    BY ChargeType
  <2> QED BY <2>1, <2>2, <2>3, <2>4, CeilingKept
<1> QED
  BY <1>3, <1>4, <1>5, <1>6, <1>7, <1>8 DEF Next, Advance, Done

(***************************************************************************)
(* Whatever the number of calls and the order of their steps, the calls    *)
(* let through on a day stay within its ceiling, each counted up to its    *)
(* estimate.                                                               *)
(***************************************************************************)
THEOREM CeilingCorrect == Spec => []DayCeilingHolds
<1>1. Init => DayCeilingHolds
  <2> SUFFICES ASSUME Init, NEW d \in Days
               PROVE  Total(AdmittedOn(d), Covered) <= PerDayCeiling
    BY DEF DayCeilingHolds, AdmittedOn
  <2>1. AdmittedOn(d) = {}
    BY DEF Init, AdmittedOn, BookedOn, Days
  <2>2. Units({}, Covered) = {}
    BY DEF Units
  <2>3. Total(AdmittedOn(d), Covered) = 0
    BY <2>1, <2>2, FS_EmptySet DEF Total
  <2>4. PerDayCeiling \in Nat
    BY GatewayAssumption
  <2> QED BY <2>3, <2>4
<1> QED BY <1>1, CeilingNext, LedgerCorrect, TypedAlways, PTL DEF Spec

----------------------------------------------------------------------------
\* The fallback chain, for any chain and any number of retries.

\* The attempts a call may have made on the first n entries of its chain.
Allowed(n) == RetryAttempts * n

LEMMA AllowedIs ==
  ASSUME NEW n \in Nat
  PROVE  /\ Allowed(n) \in Nat /\ Allowed(n + 1) = Allowed(n) + RetryAttempts
         /\ \A m \in Nat : m <= n => Allowed(m) <= Allowed(n)
<1>1. RetryAttempts \in Nat
  BY GatewayAssumption
<1>2. Allowed(n) \in Nat /\ Allowed(n + 1) = Allowed(n) + RetryAttempts
  BY <1>1 DEF Allowed
<1>3. ASSUME NEW m \in Nat, m <= n PROVE Allowed(m) <= Allowed(n)
  <2>1. PICK k \in Nat : n = m + k
    BY <1>3, n - m \in Nat
  <2>2. RetryAttempts * n = RetryAttempts * m + RetryAttempts * k
    BY <1>1, <2>1
  <2>3. RetryAttempts * k \in Nat /\ RetryAttempts * m \in Nat
    BY <1>1
  <2> QED BY <2>2, <2>3 DEF Allowed
<1> QED BY <1>2, <1>3

\* The call is at work on an entry of its chain.
Trying == {"acquire", "calling", "backoff"}

\* The two counts of a call's attempts, at every place it may be at.
Counted(c) ==
  /\ entry[c] <= Len(ChainOf(c)) + 1
  /\ pc[c] \in {"idle", "lookup", "reserve"} =>
       entry[c] = 1 /\ attempt[c] = 0 /\ total[c] = 0
  /\ pc[c] = "choose" => attempt[c] <= Allowed(entry[c] - 1) /\ total[c] <= attempt[c]
  /\ pc[c] \in Trying => /\ attempt[c] <= Allowed(entry[c] - 1) + tries[c]
                         /\ total[c] + tries[c] <= attempt[c]
                         /\ tries[c] <= RetryAttempts
  /\ pc[c] \in {"acquire", "backoff"} => tries[c] < RetryAttempts
  /\ pc[c] = "calling" => tries[c] >= 1
  /\ attempt[c] <= Allowed(Len(ChainOf(c))) /\ total[c] <= attempt[c]

\* The place and the counts of one call, before and after a step.
LEMMA CallTyped ==
  ASSUME Typed, NEW c \in Calls
  PROVE  /\ entry[c] \in Nat \ {0} /\ tries[c] \in Nat /\ attempt[c] \in Nat
         /\ total[c] \in Nat /\ pc[c] \in Steps /\ Len(ChainOf(c)) \in Nat \ {0}
         /\ RetryAttempts \in Nat \ {0} /\ DOMAIN ChainOf(c) = 1..Len(ChainOf(c))
<1>1. request[c] \in Requests
  BY DEF Typed, TypeOK
<1>2. ChainOf(c) \in Seq(Entries) /\ ChainOf(c) # <<>>
  BY <1>1, GatewayAssumption DEF ChainOf
<1>3. Len(ChainOf(c)) \in Nat \ {0} /\ DOMAIN ChainOf(c) = 1..Len(ChainOf(c))
  <2> DEFINE s == ChainOf(c)
  <2>1. s \in Seq(Entries) /\ s # <<>>
    BY <1>2
  <2> HIDE DEF s
  <2>2. Len(s) \in Nat \ {0} /\ DOMAIN s = 1..Len(s)
    BY <2>1
  <2> QED BY <2>2 DEF s
<1>4. /\ entry[c] \in Nat \ {0} /\ tries[c] \in Nat /\ attempt[c] \in Nat
      /\ total[c] \in Nat /\ pc[c] \in Steps
  BY DEF Typed, TypeOK
<1> QED BY <1>3, <1>4, GatewayAssumption

\* What a step of a call does to its own place and counts.
Counts(c, p, e, t, a, n) ==
  /\ pc'[c] = p /\ entry'[c] = e /\ tries'[c] = t /\ attempt'[c] = a /\ total'[c] = n

LEMMA StepCounts ==
  ASSUME Typed, NEW c \in Calls, Advance(c) \/ Acquire(c) \/ Respond(c) \/ Abort(c)
  PROVE  LET same(p) == Counts(c, p, entry[c], tries[c], attempt[c], total[c])
         IN  \/ same(pc[c])
             \/ pc[c] \in {"idle", "lookup"} /\ \E p \in {"lookup", "reserve", "end"} : same(p)
             \/ pc[c] = "reserve" /\ \E p \in {"rollback", "choose"} : same(p)
             \/ pc[c] \in {"rollback", "release", "reconcile", "track", "store"}
                  /\ \E p \in {"track", "store", "end"} : same(p)
             \/ pc[c] = "choose" /\ same("release") /\ entry[c] > Len(ChainOf(c))
             \/ pc[c] = "choose" /\ entry[c] <= Len(ChainOf(c)) /\ NearCeiling(c)
                  /\ Counts(c, "choose", entry[c] + 1, tries[c], attempt[c], total[c])
             \/ pc[c] = "choose" /\ entry[c] <= Len(ChainOf(c))
                  /\ Counts(c, "acquire", entry[c], 0, attempt[c], total[c])
             \/ pc[c] = "acquire"
                  /\ Counts(c, "calling", entry[c], tries[c] + 1, attempt[c] + 1, total[c])
             \/ pc[c] = "calling"
                  /\ Counts(c, "reconcile", entry[c], tries[c], attempt[c], total[c] + tries[c])
             \/ pc[c] = "calling" /\ tries[c] < RetryAttempts /\ same("backoff")
             \/ pc[c] = "calling" /\ tries[c] >= RetryAttempts
                  /\ Counts(c, "choose", entry[c] + 1, tries[c], attempt[c],
                            total[c] + RetryAttempts)
             \/ pc[c] = "calling"
                  /\ Counts(c, "choose", entry[c] + 1, tries[c], attempt[c], total[c] + 1)
             \/ pc[c] = "calling" /\ same("release")
             \/ pc[c] = "backoff" /\ same("acquire")
<1> USE DEF Typed, TypeOK, At, Goto, End, callVars, Counts
<1>1. CASE Start(c)
  BY <1>1 DEF Start
<1>2. CASE Lookup(c)
  BY <1>2 DEF Lookup
<1>3. CASE Reserve(c)
  BY <1>3 DEF Reserve
<1>4. CASE Rollback(c)
  BY <1>4 DEF Rollback
<1>5. CASE Choose(c)
  BY <1>5 DEF Choose
<1>6. CASE Acquire(c)
  BY <1>6 DEF Acquire
<1>7. ASSUME NEW tokens \in Usages, Succeed(c, tokens)
      PROVE  pc[c] = "calling"
             /\ Counts(c, "reconcile", entry[c], tries[c], attempt[c], total[c] + tries[c])
  BY <1>7 DEF Succeed
<1>8. CASE FailTransient(c)
  <2>1. tries[c] \in Nat /\ RetryAttempts \in Nat
    BY GatewayAssumption
  <2> QED BY <1>8, <2>1 DEF FailTransient, RetryAgain, NextEntry
<1>9. CASE FailUnavailable(c)
  BY <1>9 DEF FailUnavailable, NextEntry
<1>10. CASE FailFatal(c)
  BY <1>10 DEF FailFatal
<1>11. CASE Backoff(c)
  BY <1>11 DEF Backoff
<1>12. CASE Release(c)
  BY <1>12 DEF Release
<1>13. CASE Reconcile(c)
  BY <1>13 DEF Reconcile
<1>14. CASE Track(c)
  BY <1>14 DEF Track
<1>15. CASE Store(c)
  BY <1>15 DEF Store
<1>16. CASE Abort(c)
  BY <1>16 DEF Abort
<1> QED
  BY <1>1, <1>2, <1>3, <1>4, <1>5, <1>6, <1>7, <1>8, <1>9, <1>10, <1>11, <1>12, <1>13,
     <1>14, <1>15, <1>16 DEF Advance, Respond

\* A call's own step keeps its counts right.
LEMMA CountedStep ==
  ASSUME Typed, NEW c \in Calls, Counted(c), request' = request,
         Advance(c) \/ Acquire(c) \/ Respond(c) \/ Abort(c)
  PROVE  Counted(c)'
<1> DEFINE e == entry[c]
           L == Len(ChainOf(c))
           A == Allowed(e - 1)
           R == RetryAttempts
<1>1. /\ e \in Nat \ {0} /\ tries[c] \in Nat /\ attempt[c] \in Nat /\ total[c] \in Nat
      /\ L \in Nat \ {0} /\ R \in Nat \ {0} /\ pc[c] \in Steps
  BY CallTyped
<1>2. L' = L
  BY DEF ChainOf
<1>3. A \in Nat /\ Allowed(e) = A + R
  <2>1. e - 1 \in Nat /\ (e - 1) + 1 = e
    BY <1>1
  <2> QED BY <2>1, AllowedIs
<1>4. (e <= L => A + R <= Allowed(L)) /\ (e <= L + 1 => A <= Allowed(L)) /\ Allowed(L) \in Nat
  <2>1. e \in Nat /\ e - 1 \in Nat /\ L \in Nat
    BY <1>1
  <2> HIDE DEF L
  <2>2. Allowed(L) \in Nat /\ \A m \in Nat : m <= L => Allowed(m) <= Allowed(L)
    BY <2>1, AllowedIs
  <2>3. e <= L => Allowed(e) <= Allowed(L)
    BY <2>1, <2>2
  <2>4. e <= L + 1 => Allowed(e - 1) <= Allowed(L)
    <3>1. e <= L + 1 => e - 1 <= L
      BY <2>1
    <3> QED BY <2>1, <2>2, <3>1
  <2> QED BY <1>3, <2>2, <2>3, <2>4
<1>5. pc[c] \in Trying => e <= L
  BY DEF Trying, Typed, Placed
<1> HIDE DEF A, L
<1>6. Counted(c) <=>
        /\ e <= L + 1
        /\ pc[c] \in {"idle", "lookup", "reserve"} => e = 1 /\ attempt[c] = 0 /\ total[c] = 0
        /\ pc[c] = "choose" => attempt[c] <= A /\ total[c] <= attempt[c]
        /\ pc[c] \in Trying => /\ attempt[c] <= A + tries[c]
                               /\ total[c] + tries[c] <= attempt[c] /\ tries[c] <= R
        /\ pc[c] \in {"acquire", "backoff"} => tries[c] < R
        /\ pc[c] = "calling" => tries[c] >= 1
        /\ attempt[c] <= Allowed(L) /\ total[c] <= attempt[c]
  BY DEF Counted, A, L
<1> DEFINE Right(p, f, B, t, a, n) ==
             /\ f <= L + 1
             /\ p \in {"idle", "lookup", "reserve"} => f = 1 /\ a = 0 /\ n = 0
             /\ p = "choose" => a <= B /\ n <= a
             /\ p \in Trying => a <= B + t /\ n + t <= a /\ t <= R
             /\ p \in {"acquire", "backoff"} => t < R
             /\ p = "calling" => t >= 1
             /\ a <= Allowed(L) /\ n <= a
<1>7. ASSUME NEW p, NEW f, NEW t, NEW a, NEW n, Counts(c, p, f, t, a, n),
             Right(p, f, Allowed(f - 1), t, a, n)
      PROVE  Counted(c)'
  BY <1>2, <1>7 DEF Counted, Counts, L
<1> USE DEF Trying
<1>8. CASE \E p \in {"lookup", "reserve", "end", "rollback", "choose", "track", "store", "release"} :
             /\ Counts(c, p, e, tries[c], attempt[c], total[c])
             /\ p = "choose" => pc[c] = "reserve"
             /\ p \in {"lookup", "reserve"} => pc[c] \in {"idle", "lookup"}
  <2>1. PICK p : /\ Counts(c, p, e, tries[c], attempt[c], total[c])
                 /\ p \in {"lookup", "reserve", "end", "rollback", "choose", "track", "store", "release"}
                 /\ p = "choose" => pc[c] = "reserve"
                 /\ p \in {"lookup", "reserve"} => pc[c] \in {"idle", "lookup"}
    BY <1>8
  <2>2. Right(p, e, A, tries[c], attempt[c], total[c])
    BY <1>1, <1>3, <1>6, <2>1
  <2> QED BY <1>7, <2>1, <2>2 DEF A
<1>9. CASE \/ Counts(c, pc[c], e, tries[c], attempt[c], total[c])
           \/ pc[c] = "calling" /\ tries[c] < R
                /\ Counts(c, "backoff", e, tries[c], attempt[c], total[c])
           \/ pc[c] = "backoff" /\ Counts(c, "acquire", e, tries[c], attempt[c], total[c])
  <2>1. Right(pc[c], e, A, tries[c], attempt[c], total[c])
    BY <1>1, <1>3, <1>6
  <2>2. pc[c] = "calling" /\ tries[c] < R => Right("backoff", e, A, tries[c], attempt[c], total[c])
    BY <1>1, <1>3, <1>6
  <2>3. pc[c] = "backoff" => Right("acquire", e, A, tries[c], attempt[c], total[c])
    BY <1>1, <1>3, <1>6
  <2> QED BY <1>7, <1>9, <2>1, <2>2, <2>3 DEF A
<1>10. CASE pc[c] = "choose" /\ e <= L /\ Counts(c, "choose", e + 1, tries[c], attempt[c], total[c])
  <2>1. Right("choose", e + 1, Allowed(e), tries[c], attempt[c], total[c])
    BY <1>1, <1>3, <1>6, <1>10
  <2> QED BY <1>1, <1>7, <1>10, <2>1, (e + 1) - 1 = e
<1>11. CASE pc[c] = "choose" /\ Counts(c, "acquire", e, 0, attempt[c], total[c])
  <2>1. Right("acquire", e, A, 0, attempt[c], total[c])
    BY <1>1, <1>3, <1>6, <1>11
  <2> QED BY <1>7, <1>11, <2>1 DEF A
<1>12. CASE pc[c] = "acquire" /\ Counts(c, "calling", e, tries[c] + 1, attempt[c] + 1, total[c])
  <2>1. Right("calling", e, A, tries[c] + 1, attempt[c] + 1, total[c])
    BY <1>1, <1>3, <1>4, <1>5, <1>6, <1>12
  <2> QED BY <1>7, <1>12, <2>1 DEF A
<1>13. CASE pc[c] = "calling" /\ Counts(c, "reconcile", e, tries[c], attempt[c], total[c] + tries[c])
  <2>1. Right("reconcile", e, A, tries[c], attempt[c], total[c] + tries[c])
    BY <1>1, <1>3, <1>6, <1>13
  <2> QED BY <1>7, <1>13, <2>1 DEF A
<1>14. CASE /\ pc[c] = "calling"
            /\ \/ tries[c] >= R /\ Counts(c, "choose", e + 1, tries[c], attempt[c], total[c] + R)
               \/ Counts(c, "choose", e + 1, tries[c], attempt[c], total[c] + 1)
  <2>1. tries[c] >= R => Right("choose", e + 1, Allowed(e), tries[c], attempt[c], total[c] + R)
    BY <1>1, <1>3, <1>5, <1>6, <1>14
  <2>2. Right("choose", e + 1, Allowed(e), tries[c], attempt[c], total[c] + 1)
    BY <1>1, <1>3, <1>5, <1>6, <1>14
  <2>3. (e + 1) - 1 = e
    BY <1>1
  <2> QED BY <1>7, <1>14, <2>1, <2>2, <2>3
<1> HIDE DEF Right
<1> QED
  BY StepCounts, <1>8, <1>9, <1>10, <1>11, <1>12, <1>13, <1>14 DEF L

\* The other calls, midnight and the cache leave a call's counts alone.
LEMMA CountedAlone ==
  ASSUME NEW c \in Calls, Counted(c), request' = request,
         pc'[c] = pc[c] /\ entry'[c] = entry[c] /\ tries'[c] = tries[c]
         /\ attempt'[c] = attempt[c] /\ total'[c] = total[c]
  PROVE  Counted(c)'
BY DEF Counted, ChainOf, Allowed, Trying

LEMMA OthersAlone ==
  ASSUME Typed, NEW c \in Calls, Advance(c) \/ Acquire(c) \/ Respond(c) \/ Abort(c),
         NEW b \in Calls \ {c}
  PROVE  /\ pc'[b] = pc[b] /\ entry'[b] = entry[b] /\ tries'[b] = tries[b]
         /\ attempt'[b] = attempt[b] /\ total'[b] = total[b] /\ outcome'[b] = outcome[b]
<1> USE DEF Typed, TypeOK, At, Goto, End, callVars
<1>1. CASE Start(c) \/ Lookup(c) \/ Reserve(c) \/ Rollback(c) \/ Backoff(c) \/ Release(c)
           \/ Reconcile(c) \/ Track(c) \/ Store(c) \/ Abort(c)
  BY <1>1 DEF Start, Lookup, Reserve, Rollback, Backoff, Release, Reconcile, Track, Store, Abort
<1>2. CASE Choose(c)
  BY <1>2 DEF Choose
<1>3. CASE Acquire(c)
  BY <1>3 DEF Acquire
<1>4. ASSUME NEW tokens \in Usages, Succeed(c, tokens)
      PROVE  /\ pc'[b] = pc[b] /\ entry'[b] = entry[b] /\ tries'[b] = tries[b]
             /\ attempt'[b] = attempt[b] /\ total'[b] = total[b] /\ outcome'[b] = outcome[b]
  BY <1>4 DEF Succeed
<1>5. CASE FailTransient(c)
  BY <1>5 DEF FailTransient
<1>6. CASE FailUnavailable(c) \/ FailFatal(c)
  BY <1>6 DEF FailUnavailable, FailFatal
<1> QED BY <1>1, <1>2, <1>3, <1>4, <1>5, <1>6 DEF Advance, Respond

LEMMA RequestStands == [Next]_vars => request' = request
BY DEF Next, Advance, Respond, Start, Lookup, Reserve, Rollback, Choose, Backoff, Release,
       Reconcile, Track, Store, Acquire, Succeed, FailTransient, FailUnavailable, FailFatal,
       Abort, Expire, Midnight, Done, vars, callVars

AllCounted == \A c \in Calls : Counted(c)

LEMMA CountedNext == Typed /\ AllCounted /\ [Next]_vars => AllCounted'
<1> SUFFICES ASSUME Typed, AllCounted, [Next]_vars, NEW c \in Calls PROVE Counted(c)'
  BY DEF AllCounted
<1>1. request' = request /\ Counted(c)
  BY RequestStands DEF AllCounted
<1>2. ASSUME NEW b \in Calls, Advance(b) \/ Acquire(b) \/ Respond(b) \/ Abort(b)
      PROVE  Counted(c)'
  <2>1. CASE b = c
    BY <1>1, <1>2, <2>1, CountedStep
  <2>2. CASE b # c
    BY <1>1, <1>2, <2>2, OthersAlone, CountedAlone
  <2> QED BY <2>1, <2>2
<1>3. CASE UNCHANGED <<pc, entry, tries, attempt, total>>
  BY <1>1, <1>3, CountedAlone
<1> QED BY <1>2, <1>3 DEF Next, Expire, Midnight, Done, vars, callVars

\* The counts at the beginning.
LEMMA CountedInit == Init => AllCounted
<1> SUFFICES ASSUME Init, NEW c \in Calls PROVE Counted(c)
  BY DEF AllCounted
<1>1. Typed
  BY TypedInit
<1>2. Len(ChainOf(c)) \in Nat \ {0} /\ Allowed(Len(ChainOf(c))) \in Nat
  BY <1>1, CallTyped, AllowedIs
<1> QED BY <1>2 DEF Init, Counted, Trying

----------------------------------------------------------------------------
\* The attempts on each entry: none yet on those ahead, those counted by tries
\* on the present one, and at least one on every entry left behind but those
\* that may be skipped.
LeftBehind(c) ==
  \A i \in DOMAIN ChainOf(c) :
    i < entry[c] => made[c][i] > 0 \/ MayBeSkipped(ChainOf(c)[i])

Spread(c) ==
  /\ DOMAIN made[c] = DOMAIN ChainOf(c)
  /\ \A i \in DOMAIN ChainOf(c) :
       /\ made[c][i] <= RetryAttempts
       /\ i > entry[c] => made[c][i] = 0
       /\ i = entry[c] /\ pc[c] \in {"idle", "lookup", "reserve", "choose"} => made[c][i] = 0
       /\ i = entry[c] /\ pc[c] \in Trying => made[c][i] = tries[c]

Tried(c) ==
  /\ Spread(c)
  /\ LeftBehind(c)
  /\ outcome[c] = "exhausted" => entry[c] > Len(ChainOf(c))

AllTried == \A c \in Calls : Tried(c)

\* A provider's counts only grow, so that an entry once passed over still may be.
LEMMA SkippedStays ==
  ASSUME Typed, [Next]_vars, NEW c \in Calls, NEW i \in DOMAIN ChainOf(c),
         MayBeSkipped(ChainOf(c)[i])
  PROVE  MayBeSkipped(ChainOf(c)[i])'
<1>1. request' = request
  BY RequestStands
<1>2. usage \in [Providers -> [Days -> Nat]]
  BY DEF Typed, TypeOK
<1>3. ASSUME NEW b \in Calls, Track(b), NEW p \in Providers, NEW d \in Days
      PROVE  usage'[p][d] >= usage[p][d]
  <2>1. usage' = [usage EXCEPT ![ProviderOf(b)][today] = @ + 1]
    BY <1>3 DEF Track
  <2>2. usage[p][d] \in Nat
    BY <1>2
  <2> QED BY <1>2, <2>1, <2>2
<1>4. \/ UNCHANGED usage
      \/ \E b \in Calls : Track(b)
  BY DEF Next, Advance, Respond, Start, Lookup, Reserve, Rollback, Choose, Backoff, Release,
       Reconcile, Store, Acquire, Succeed, FailTransient, FailUnavailable, FailFatal,
       Abort, Expire, Midnight, Done, vars, redisVars
<1>5. \A p \in Providers, d \in Days : usage'[p][d] >= usage[p][d]
  <2> SUFFICES ASSUME NEW p \in Providers, NEW d \in Days
               PROVE  usage'[p][d] >= usage[p][d]
    OBVIOUS
  <2>1. usage[p][d] \in Nat
    BY <1>2
  <2> QED BY <1>3, <1>4, <2>1
<1> DEFINE e == ChainOf(c)[i]
<1>6. e.provider \in Providers /\ e.soft \in Nat
  <2>1. ChainOf(c) \in Seq(Entries)
    BY GatewayAssumption DEF Typed, TypeOK, ChainOf
  <2>2. e \in Entries
    BY <2>1, ElementOf, Zenon
  <2> QED BY <2>2 DEF Entries
<1>7. PICK d \in Days : e.tracked /\ usage[e.provider][d] >= e.soft
  BY DEF MayBeSkipped
<1>8. usage[e.provider][d] \in Nat /\ usage'[e.provider][d] \in Nat
  <2>1. usage' \in [Providers -> [Days -> Nat]]
    BY TypeNext DEF TypeOK
  <2> HIDE DEF e
  <2> QED BY <1>2, <1>6, <2>1
<1>9. e' = e
  BY <1>1 DEF ChainOf
<1> HIDE DEF e
<1>10. usage'[e.provider][d] >= e.soft
  BY <1>5, <1>6, <1>7, <1>8
<1> QED BY <1>7, <1>9, <1>10 DEF MayBeSkipped, e

\* Only an attempt is counted as one, on the entry the call is at.
LEMMA StepMade ==
  ASSUME Typed, NEW c \in Calls, Advance(c) \/ Acquire(c) \/ Respond(c) \/ Abort(c)
  PROVE  \/ pc[c] = "acquire" /\ pc'[c] = "calling" /\ outcome'[c] = "none"
              /\ made' = [made EXCEPT ![c][entry[c]] = @ + 1]
         \/ ~(pc[c] = "acquire" /\ pc'[c] = "calling") /\ made' = made
<1> USE DEF Typed, TypeOK, At, Goto, End, callVars
<1>1. CASE Start(c) \/ Lookup(c) \/ Reserve(c) \/ Rollback(c) \/ Backoff(c) \/ Release(c)
           \/ Reconcile(c) \/ Track(c) \/ Store(c) \/ Abort(c)
  BY <1>1 DEF Start, Lookup, Reserve, Rollback, Backoff, Release, Reconcile, Track, Store, Abort
<1>2. CASE Choose(c)
  BY <1>2 DEF Choose
<1>3. CASE Acquire(c)
  BY <1>3 DEF Acquire
<1>4. ASSUME NEW tokens \in Usages, Succeed(c, tokens) PROVE made' = made /\ pc[c] = "calling"
  BY <1>4 DEF Succeed
<1>5. CASE FailTransient(c) \/ FailUnavailable(c) \/ FailFatal(c)
  BY <1>5 DEF FailTransient, FailUnavailable, FailFatal
<1> QED BY <1>1, <1>2, <1>3, <1>4, <1>5 DEF Advance, Respond

\* A call that has made no attempt moves on to step p at entry f with t tries.
Proceeds(c, p, f, t) ==
  /\ \/ f = entry[c]
     \/ /\ f = entry[c] + 1
        /\ entry[c] \in DOMAIN ChainOf(c) =>
             made[c][entry[c]] > 0 \/ MayBeSkipped(ChainOf(c)[entry[c]])
  /\ \A i \in DOMAIN ChainOf(c) : i = f =>
       /\ p \in {"idle", "lookup", "reserve", "choose"} => made[c][i] = 0
       /\ p \in Trying => made[c][i] = t

\* A step that makes no attempt, and leaves no entry behind that it may not.
LEMMA NoAttempt ==
  ASSUME Typed, [Next]_vars, NEW c \in Calls, Tried(c), made' = made,
         NEW p, NEW f \in Nat, NEW t, NEW a, NEW n, Counts(c, p, f, t, a, n),
         Proceeds(c, p, f, t),
         outcome'[c] = "exhausted" => f > Len(ChainOf(c))
  PROVE  Tried(c)'
<1>1. ChainOf(c)' = ChainOf(c) /\ DOMAIN ChainOf(c) = 1..Len(ChainOf(c)) /\ entry[c] \in Nat
  BY RequestStands, CallTyped DEF ChainOf
<1>2. pc'[c] = p /\ entry'[c] = f /\ tries'[c] = t
  BY DEF Counts
<1>3. \A i \in DOMAIN ChainOf(c) : i > f => i > entry[c]
  BY <1>1 DEF Proceeds
<1>4. Spread(c)'
  BY <1>1, <1>2, <1>3 DEF Tried, Spread, Trying, Proceeds
<1>5. ASSUME NEW i \in DOMAIN ChainOf(c), i < f
      PROVE  made[c][i] > 0 \/ MayBeSkipped(ChainOf(c)[i])
  BY <1>1, <1>5 DEF Tried, LeftBehind, Proceeds
<1>6. \A i \in DOMAIN ChainOf(c) : MayBeSkipped(ChainOf(c)[i]) => MayBeSkipped(ChainOf(c)[i])'
  BY SkippedStays
<1>7. LeftBehind(c)'
  BY <1>1, <1>2, <1>5, <1>6 DEF LeftBehind
<1> QED BY <1>1, <1>2, <1>4, <1>7 DEF Tried

\* A step of the call itself.
LEMMA TriedStep ==
  ASSUME Typed, [Next]_vars, NEW c \in Calls, Counted(c), Tried(c),
         Advance(c) \/ Acquire(c) \/ Respond(c) \/ Abort(c)
  PROVE  Tried(c)'
<1> DEFINE e == entry[c]
           L == Len(ChainOf(c))
<1>1. /\ e \in Nat \ {0} /\ tries[c] \in Nat /\ L \in Nat \ {0} /\ pc[c] \in Steps
      /\ RetryAttempts \in Nat \ {0} /\ DOMAIN ChainOf(c) = 1..L /\ e + 1 \in Nat
  BY CallTyped
<1>2. /\ pc[c] \in Trying => e \in DOMAIN ChainOf(c) /\ made[c][e] = tries[c]
      /\ pc[c] = "calling" => tries[c] >= 1
      /\ pc[c] \in {"acquire", "backoff"} => tries[c] < RetryAttempts
  BY <1>1 DEF Tried, Spread, Counted, Typed, Placed, Trying
<1>3. /\ \A i \in DOMAIN ChainOf(c) : i > e => made[c][i] = 0
      /\ e \in DOMAIN ChainOf(c) /\ pc[c] \in {"idle", "lookup", "reserve", "choose"} =>
           made[c][e] = 0
  BY DEF Tried, Spread
<1>4. /\ outcome[c] = "none"
      /\ outcome'[c] = "exhausted" => pc[c] = "release" /\ pc'[c] = "end" /\ e > L
                                      /\ entry'[c] = e
  <2> USE DEF Typed, TypeOK, At, Goto, End
  <2>1. outcome[c] = "none"
    BY DEF Advance, Acquire, Respond, Abort, Start, Lookup, Reserve, Rollback, Choose, Backoff,
           Release, Reconcile, Track, Store, Succeed, FailTransient, FailUnavailable, FailFatal
  <2>2. CASE Release(c)
    BY <2>1, <2>2 DEF Release, callVars
  <2>3. CASE ~Release(c)
    <3>1. outcome'[c] # "exhausted"
      BY <2>1, <2>3 DEF Advance, Acquire, Respond, Abort, Start, Lookup, Reserve, Rollback,
           Choose, Backoff, Reconcile, Track, Store, Succeed, FailTransient, FailUnavailable,
           FailFatal
    <3> QED BY <2>1, <3>1
  <2> QED BY <2>2, <2>3
<1>5. CASE pc[c] = "acquire" /\ pc'[c] = "calling"
  <2>1. made' = [made EXCEPT ![c][e] = @ + 1] /\ outcome'[c] = "none"
    BY <1>5, StepMade, Zenon
  <2>2. Counts(c, "calling", e, tries[c] + 1, attempt[c] + 1, total[c])
    BY <1>5, StepCounts DEF Counts
  <2>3. ChainOf(c)' = ChainOf(c)
    BY RequestStands DEF ChainOf
  <2>4. made[c] \in Seq(Nat) /\ DOMAIN made[c] = DOMAIN ChainOf(c) /\ made[c][e] = tries[c]
        /\ e \in DOMAIN made[c]
    BY <1>2, <1>5 DEF Typed, TypeOK, AttemptCounts, Tried, Spread, Trying
  <2>5. /\ DOMAIN made'[c] = DOMAIN ChainOf(c)
        /\ \A i \in DOMAIN ChainOf(c) :
             made'[c][i] = IF i = e THEN tries[c] + 1 ELSE made[c][i]
    BY <2>1, <2>4 DEF Typed, TypeOK, AttemptCounts
  <2>6. pc'[c] = "calling" /\ entry'[c] = e /\ tries'[c] = tries[c] + 1
    BY <2>2 DEF Counts
  <2>7. Spread(c)'
    BY <1>1, <1>2, <1>3, <1>5, <2>3, <2>5, <2>6 DEF Tried, Spread, Trying
  <2>8. \A i \in DOMAIN ChainOf(c) : MayBeSkipped(ChainOf(c)[i]) => MayBeSkipped(ChainOf(c)[i])'
    BY SkippedStays
  <2>9. \A i \in DOMAIN ChainOf(c) : i < e => i # e /\ made'[c][i] = made[c][i]
    BY <1>1, <2>5
  <2>10. LeftBehind(c)'
    BY <2>3, <2>6, <2>8, <2>9 DEF Tried, LeftBehind
  <2> QED BY <2>1, <2>3, <2>7, <2>10 DEF Tried
<1>6. CASE ~(pc[c] = "acquire" /\ pc'[c] = "calling")
  <2>1. made' = made
    BY <1>6, StepMade
  <2>2. ASSUME NEW p, NEW f \in Nat, NEW t, NEW a, NEW n, Counts(c, p, f, t, a, n),
               \/ f = e
               \/ /\ f = e + 1
                  /\ pc[c] = "calling" \/ (pc[c] = "choose" /\ NearCeiling(c)),
               \/ p \notin {"idle", "lookup", "reserve", "choose"} \cup Trying
               \/ p \in {"idle", "lookup", "reserve", "choose"} /\ f = e + 1
               \/ p \in {"idle", "lookup", "reserve", "choose"} /\ f = e
                    /\ pc[c] \in {"idle", "lookup", "reserve", "choose"}
               \/ p = "acquire" /\ f = e /\ pc[c] = "choose" /\ t = 0
               \/ p \in Trying /\ f = e /\ pc[c] \in Trying /\ t = tries[c]
        PROVE  Tried(c)'
    <3>1. f = e + 1 /\ e \in DOMAIN ChainOf(c) =>
             made[c][e] > 0 \/ MayBeSkipped(ChainOf(c)[e])
      <4>1. ASSUME pc[c] = "calling" PROVE made[c][e] > 0
        BY <1>1, <1>2, <4>1 DEF Trying
      <4>2. ASSUME NearCeiling(c) PROVE MayBeSkipped(ChainOf(c)[e])
        BY <4>2 DEF NearCeiling, MayBeSkipped, EntryOf, ProviderOf, Typed, TypeOK
      <4> QED BY <1>1, <2>2, <4>1, <4>2
    <3>2. ASSUME NEW i \in DOMAIN ChainOf(c), i = f
          PROVE  /\ p \in {"idle", "lookup", "reserve", "choose"} => made[c][i] = 0
                 /\ p \in Trying => made[c][i] = t
      BY <1>1, <1>2, <1>3, <2>2, <3>2 DEF Trying
    <3>3. outcome'[c] = "exhausted" => f > Len(ChainOf(c))
      BY <1>4, <2>2 DEF Counts
    <3>4. Proceeds(c, p, f, t)
      BY <2>2, <3>1, <3>2 DEF Proceeds
    <3> QED BY <2>1, <2>2, <3>3, <3>4, NoAttempt
  <2> QED
    BY <1>1, <1>6, <2>2, StepCounts DEF Trying, Counts
<1> QED BY <1>5, <1>6

LEMMA TriedNext == Typed /\ AllCounted /\ AllTried /\ [Next]_vars => AllTried'
<1> SUFFICES ASSUME Typed, AllCounted, AllTried, [Next]_vars, NEW c \in Calls
             PROVE  Tried(c)'
  BY DEF AllTried
<1>1. Tried(c) /\ Counted(c)
  BY DEF AllCounted, AllTried
<1>2. ASSUME pc'[c] = pc[c] /\ entry'[c] = entry[c] /\ tries'[c] = tries[c]
             /\ made'[c] = made[c] /\ outcome'[c] = outcome[c]
      PROVE  Tried(c)'
  <2>1. ChainOf(c)' = ChainOf(c)
    BY RequestStands DEF ChainOf
  <2>2. \A i \in DOMAIN ChainOf(c) : MayBeSkipped(ChainOf(c)[i]) => MayBeSkipped(ChainOf(c)[i])'
    BY SkippedStays
  <2>3. LeftBehind(c)'
    BY <1>1, <1>2, <2>1, <2>2 DEF Tried, LeftBehind
  <2>4. Spread(c)'
    BY <1>1, <1>2, <2>1 DEF Tried, Spread, Trying
  <2> QED BY <1>1, <1>2, <2>1, <2>3, <2>4 DEF Tried
<1>3. ASSUME NEW b \in Calls, Advance(b) \/ Acquire(b) \/ Respond(b) \/ Abort(b)
      PROVE  Tried(c)'
  <2>1. CASE b = c
    BY <1>1, <1>3, <2>1, TriedStep
  <2>2. CASE b # c
    <3>1. made'[c] = made[c]
      <4>1. made' = made \/ made' = [made EXCEPT ![b][entry[b]] = @ + 1]
        BY <1>3, StepMade
      <4> QED BY <2>2, <4>1 DEF Typed, TypeOK, AttemptCounts
    <3> QED BY <1>2, <1>3, <2>2, <3>1, OthersAlone
  <2> QED BY <2>1, <2>2
<1>4. CASE UNCHANGED <<pc, entry, tries, made, outcome>>
  BY <1>2, <1>4
<1> QED BY <1>3, <1>4 DEF Next, Expire, Midnight, Done, vars, callVars

LEMMA TriedAlways == Spec => [](Typed /\ AllCounted /\ AllTried)
<1>1. Init => AllTried
  <2> SUFFICES ASSUME Init, NEW c \in Calls PROVE Tried(c)
    BY DEF AllTried
  <2>1. Typed
    BY TypedInit
  <2>2. made[c] = [i \in DOMAIN ChainOf(c) |-> 0] /\ RetryAttempts \in Nat
        /\ DOMAIN ChainOf(c) = 1..Len(ChainOf(c)) /\ Len(ChainOf(c)) \in Nat
    BY <2>1, CallTyped DEF Init, ChainOf
  <2>3. entry[c] = 1 /\ pc[c] = "idle" /\ outcome[c] = "none"
    BY DEF Init
  <2>4. DOMAIN made[c] = DOMAIN ChainOf(c) /\ \A i \in DOMAIN ChainOf(c) : made[c][i] = 0
    BY <2>2
  <2>5. Spread(c)
    BY <2>2, <2>3, <2>4 DEF Spread, Trying
  <2>6. LeftBehind(c)
    BY <2>2, <2>3 DEF LeftBehind
  <2> QED BY <2>3, <2>5, <2>6 DEF Tried
<1> QED BY <1>1, CountedInit, TypedAlways, CountedNext, TriedNext, PTL DEF Spec

(***************************************************************************)
(* For any chain and any number of retries a call makes at most that many  *)
(* attempts on each entry, and the count it reports never claims one that  *)
(* was not made (_complete, _call_provider).                               *)
(***************************************************************************)
THEOREM AttemptsCorrect == Spec => []AttemptsBounded
<1>1. AllCounted /\ AllTried => AttemptsBounded
  BY DEF AllCounted, Counted, AllTried, Tried, Spread, AttemptsBounded
<1> QED BY <1>1, TriedAlways, PTL

(***************************************************************************)
(* For any chain a call that reports every provider exhausted has made an  *)
(* attempt on each entry but those whose provider had reached its own      *)
(* daily limit (the fallback loop of _complete).                           *)
(***************************************************************************)
THEOREM ExhaustedCorrect == Spec => []ExhaustedMeansTried
<1>1. ASSUME Typed, AllTried, NEW c \in Calls, outcome[c] = "exhausted",
             NEW i \in DOMAIN ChainOf(c)
      PROVE  made[c][i] > 0 \/ MayBeSkipped(ChainOf(c)[i])
  <2>1. DOMAIN ChainOf(c) = 1..Len(ChainOf(c)) /\ Len(ChainOf(c)) \in Nat /\ entry[c] \in Nat
    BY <1>1, CallTyped
  <2>2. entry[c] > Len(ChainOf(c)) /\ LeftBehind(c)
    BY <1>1 DEF AllTried, Tried
  <2> QED BY <2>1, <2>2 DEF LeftBehind
<1>2. Typed /\ AllTried => ExhaustedMeansTried
  BY <1>1 DEF ExhaustedMeansTried
<1> QED BY <1>2, TriedAlways, PTL

----------------------------------------------------------------------------
\* The budget guard.  With the bookings that are about to be rolled back hidden,
\* a Redis key is what the ledger has committed.

\* What the ledger sees of a call besides its holding.
Amount == [c \in Calls |-> IF Admitted(c) THEN Charge[c] ELSE 0]
DayOf  == [c \in Calls |-> IF Holding[c] = "nothing" THEN 0 ELSE bookedOn[c]]

\* A call that reconciles does so with tokens a provider reported.
Reported == \A c \in Calls : pc[c] = "reconcile" => used[c] \in Usages

LEMMA ReportedNext == Typed /\ Reported /\ [Next]_vars => Reported'
<1> SUFFICES ASSUME Typed, Reported, [Next]_vars, NEW c \in Calls, pc'[c] = "reconcile"
             PROVE  used'[c] \in Usages
  BY DEF Reported
<1> USE DEF Typed, TypeOK, Reported, Goto, End, callVars
<1>1. ASSUME NEW b \in Calls, Advance(b) \/ Acquire(b) \/ Abort(b) \/ FailTransient(b)
                              \/ FailUnavailable(b) \/ FailFatal(b)
      PROVE  used'[c] = used[c] /\ pc[c] = "reconcile"
  <2>1. used' = used
    BY <1>1 DEF Advance, Start, Lookup, Reserve, Rollback, Choose, Backoff, Release,
       Reconcile, Track, Store, Acquire, Abort, FailTransient, FailUnavailable, FailFatal
  <2>2. pc'[b] # "reconcile" \/ pc'[b] = pc[b]
    BY <1>1 DEF Advance, Start, Lookup, Reserve, Rollback, Choose, Backoff, Release,
       Reconcile, Track, Store, Acquire, Abort, FailTransient, FailUnavailable, FailFatal
  <2>3. b # c => pc'[c] = pc[c]
    BY <1>1 DEF Advance, Start, Lookup, Reserve, Rollback, Choose, Backoff, Release,
       Reconcile, Track, Store, Acquire, Abort, FailTransient, FailUnavailable, FailFatal
  <2> QED BY <2>1, <2>2, <2>3
<1>2. ASSUME NEW b \in Calls, NEW tokens \in Usages, Succeed(b, tokens)
      PROVE  used'[c] \in Usages
  BY <1>2 DEF Succeed
<1>3. CASE UNCHANGED <<pc, used>>
  BY <1>3
<1> QED BY <1>1, <1>2, <1>3 DEF Next, Respond, Expire, Midnight, Done, vars

----------------------------------------------------------------------------
\* What is about to be rolled back on a day.
LEMMA PendingType ==
  ASSUME Typed, NEW d
  PROVE  Pending(d) \in SUBSET Calls /\ Total(Pending(d), Charge) \in Nat
<1>1. Pending(d) \in SUBSET Calls
  BY DEF Pending, BookedOn
<1>2. Charge \in [Calls -> Nat]
  BY ChargeType
<1> DEFINE S == Pending(d)
           f == Charge
<1>3. Total(S, f) <= Total(S, f) /\ Total(S, f) \in Nat
  <2>1. S \in SUBSET Calls /\ S \in SUBSET S /\ f \in [Calls -> Nat] /\ \A x \in S : f[x] <= f[x]
    BY <1>1, <1>2
  <2> HIDE DEF S, f
  <2> QED BY <2>1, CallsMonotonic
<1> QED BY <1>1, <1>3

\* Steps that roll nothing back and book nothing leave it alone.
LEMMA PendingAlone ==
  ASSUME NEW d, bookedOn' = bookedOn,
         \A b \in Calls :
           \/ (pc'[b] = "rollback" <=> pc[b] = "rollback") /\ Charge'[b] = Charge[b]
           \/ pc[b] # "rollback" /\ pc'[b] # "rollback"
  PROVE  Total(Pending(d), Charge)' = Total(Pending(d), Charge)
<1>1. Pending(d)' = Pending(d)
  BY DEF Pending, BookedOn
<1>2. \A b \in Pending(d) : Charge'[b] = Charge[b]
  BY DEF Pending, BookedOn
<1>3. Total(Pending(d), Charge') = Total(Pending(d), Charge)
  BY <1>2, TotalSame
<1> QED BY <1>1, <1>3

\* What the calls other than the one that moves show the ledger.
LEMMA OthersHold ==
  ASSUME Typed, NEW c \in Calls, Advance(c) \/ Acquire(c) \/ Respond(c) \/ Abort(c),
         NEW b \in Calls \ {c}
  PROVE  /\ pc'[b] = pc[b] /\ outcome'[b] = outcome[b] /\ bookedOn'[b] = bookedOn[b]
         /\ Holding'[b] = Holding[b] /\ Amount'[b] = Amount[b] /\ DayOf'[b] = DayOf[b]
         /\ Charge'[b] = Charge[b]
<1>1. pc \in [Calls -> Steps] /\ outcome \in [Calls -> Outcomes]
      /\ bookedOn \in [Calls -> Days \cup {0}]
  BY DEF Typed, TypeOK
<1>2. pc'[b] = pc[b]
  BY <1>1 DEF Advance, Start, Lookup, Reserve, Rollback, Choose, Backoff, Release, Reconcile,
         Track, Store, Acquire, Respond, Succeed, FailTransient, FailUnavailable, FailFatal,
         Abort, Goto, End
<1>3. outcome'[b] = outcome[b]
  BY <1>1 DEF Advance, Start, Lookup, Reserve, Rollback, Choose, Backoff, Release, Reconcile,
         Track, Store, Acquire, Respond, Succeed, FailTransient, FailUnavailable, FailFatal,
         Abort, End
<1>4. bookedOn'[b] = bookedOn[b]
  BY <1>1 DEF Advance, Start, Lookup, Reserve, Rollback, Choose, Backoff, Release, Reconcile,
         Track, Store, Acquire, Respond, Succeed, FailTransient, FailUnavailable, FailFatal,
         Abort, callVars
<1>5. Charge'[b] = Charge[b] /\ (Admitted(b)' <=> Admitted(b))
  BY OthersStand
<1>6. Holding'[b] = Holding[b]
  BY <1>2, <1>3 DEF Holding, Reconciled
<1>7. Amount'[b] = Amount[b]
  BY <1>5 DEF Amount
<1>8. DayOf'[b] = DayOf[b]
  BY <1>4, <1>6 DEF DayOf
<1> QED BY <1>2, <1>3, <1>4, <1>5, <1>6, <1>7, <1>8

----------------------------------------------------------------------------
\* If nothing the ledger sees changes, it stutters.
LEMMA LedgerStays ==
  ASSUME \A d \in Days : Committed'[d] = Committed[d],
         \A b \in Calls : Holding'[b] = Holding[b] /\ Amount'[b] = Amount[b]
                          /\ DayOf'[b] = DayOf[b]
  PROVE  UNCHANGED Ledger!ledgerVars
<1>1. Committed' = Committed
  BY DEF Committed
<1>2. Holding' = Holding
  BY DEF Holding
<1>3. Amount' = Amount
  BY DEF Amount
<1>4. DayOf' = DayOf
  BY DEF DayOf
<1> QED BY <1>1, <1>2, <1>3, <1>4 DEF Ledger!ledgerVars, Amount, DayOf

\* Most steps show it nothing.
Quiet(c) ==
  \/ Start(c) \/ Lookup(c) \/ Choose(c) \/ Acquire(c) \/ Backoff(c) \/ Track(c) \/ Store(c)
  \/ Respond(c) \/ Abort(c)

LEMMA QuietStays ==
  ASSUME Typed, NEW c \in Calls, Quiet(c)
  PROVE  UNCHANGED Ledger!ledgerVars
<1>1. Advance(c) \/ Acquire(c) \/ Respond(c) \/ Abort(c)
  BY DEF Quiet, Advance
<1>2. /\ pc \in [Calls -> Steps] /\ outcome \in [Calls -> Outcomes] /\ used \in [Calls -> Nat]
  BY DEF Typed, TypeOK
<1>3. UNCHANGED <<counter, bookedOn, request>>
  BY DEF Quiet, Start, Lookup, Choose, Backoff, Track, Store, Acquire, Respond, Succeed,
         FailTransient, FailUnavailable, FailFatal, Abort, callVars, redisVars
<1> DEFINE Nothing == {"idle", "lookup", "reserve"}
<1>4. outcome[c] = "none"
  BY DEF Quiet, Start, Lookup, Choose, Backoff, Track, Store, Acquire, Respond, Succeed,
         FailTransient, FailUnavailable, FailFatal, Abort, At
<1>5. \/ pc'[c] = pc[c] /\ outcome'[c] \in {"none", "aborted"} /\ used'[c] = used[c]
      \/ /\ pc[c] \in Nothing /\ outcome'[c] \in {"none", "hit", "over_request", "refused"}
         /\ pc'[c] \in Nothing \cup {"end"}
      \/ pc[c] \in Granted /\ pc'[c] \in Granted /\ outcome'[c] = "none"
      \/ pc[c] = "track" /\ pc'[c] = "store" /\ outcome'[c] = "none" /\ used'[c] = used[c]
      \/ pc[c] = "store" /\ pc'[c] = "end" /\ outcome'[c] = "ok" /\ used'[c] = used[c]
  <2> USE <1>2, <1>4 DEF At, Goto, End, Granted, callVars
  <2>1. CASE Start(c) \/ Lookup(c)
    BY <2>1 DEF Start, Lookup
  <2>2. CASE Choose(c)
    BY <2>2 DEF Choose
  <2>3. CASE Acquire(c) \/ Backoff(c)
    BY <2>3 DEF Acquire, Backoff
  <2>4. CASE Track(c) \/ Store(c)
    BY <2>4 DEF Track, Store
  <2>5. CASE Respond(c)
    BY <2>5 DEF Respond, Succeed, FailTransient, FailUnavailable, FailFatal
  <2>6. CASE Abort(c)
    BY <2>6 DEF Abort
  <2> QED BY <2>1, <2>2, <2>3, <2>4, <2>5, <2>6 DEF Quiet
<1> USE DEF Granted
<1>6. Holding'[c] = Holding[c]
  BY <1>4, <1>5 DEF Holding, Reconciled
<1>7. Charge'[c] = Charge[c] /\ (Admitted(c)' <=> Admitted(c))
  BY <1>3, <1>4, <1>5 DEF Charge, Admitted, Reconciled, Estimate
<1>8. Amount'[c] = Amount[c] /\ DayOf'[c] = DayOf[c]
  BY <1>3, <1>6, <1>7 DEF Amount, DayOf
<1>9. pc'[c] = "rollback" <=> pc[c] = "rollback"
  BY <1>5
<1>10. ASSUME NEW d \in Days PROVE Committed'[d] = Committed[d]
  <2>1. \A b \in Calls : (pc'[b] = "rollback" <=> pc[b] = "rollback") /\ Charge'[b] = Charge[b]
    BY <1>1, <1>7, <1>9, OthersHold
  <2>2. Total(Pending(d), Charge)' = Total(Pending(d), Charge)
    BY <1>3, <2>1, PendingAlone
  <2> QED BY <1>3, <2>2 DEF Committed
<1>11. \A b \in Calls : Holding'[b] = Holding[b] /\ Amount'[b] = Amount[b]
                        /\ DayOf'[b] = DayOf[b]
  BY <1>1, <1>6, <1>8, OthersHold
<1> QED BY <1>10, <1>11, LedgerStays

\* A booking that is put on the key and one that is taken off it again.
LEMMA PendingMoves ==
  ASSUME Typed, Typed', NEW c \in Calls, NEW d,
         bookedOn'[c] = d, pc'[c] = "rollback", ~(bookedOn[c] = d /\ pc[c] = "rollback"),
         \A b \in Calls \ {c} : pc'[b] = pc[b] /\ bookedOn'[b] = bookedOn[b]
                                /\ Charge'[b] = Charge[b]
  PROVE  Total(Pending(d), Charge)' = Total(Pending(d), Charge) + Charge'[c]
<1> DEFINE S == Pending(d)
           T == S \cup {c}
<1>1. S \in SUBSET Calls /\ c \notin S /\ Pending(d)' = T
  BY DEF Pending, BookedOn
<1>2. Total(S, Charge') = Total(S, Charge)
  <2>1. \A b \in S : Charge'[b] = Charge[b]
    BY <1>1
  <2> HIDE DEF S
  <2> QED BY <2>1, TotalSame
<1>3. Charge' \in [Calls -> Nat]
  <2>1. Typed' => (Charge \in [Calls -> Nat] /\ Covered \in [Calls -> Nat])'
    BY ChargeType, PTL
  <2> QED BY <2>1
<1>4. Total(T, Charge') = Total(T \ {c}, Charge') + Charge'[c] /\ T \ {c} = S
  <2>1. T \in SUBSET Calls /\ c \in T /\ T \ {c} = S
    BY <1>1
  <2> HIDE DEF T, S
  <2> QED BY <1>3, <2>1, CallsSplit
<1> HIDE DEF S, T
<1> QED BY <1>1, <1>2, <1>4 DEF S

LEMMA PendingLeaves ==
  ASSUME Typed, NEW c \in Calls, NEW d,
         bookedOn[c] = d, pc[c] = "rollback", ~(bookedOn'[c] = d /\ pc'[c] = "rollback"),
         \A b \in Calls \ {c} : pc'[b] = pc[b] /\ bookedOn'[b] = bookedOn[b]
                                /\ Charge'[b] = Charge[b]
  PROVE  /\ Total(Pending(d), Charge) = Total(Pending(d), Charge)' + Charge[c]
         /\ Total(Pending(d), Charge)' \in Nat
<1> DEFINE T == Pending(d)
           S == T \ {c}
<1>1. T \in SUBSET Calls /\ c \in T /\ Pending(d)' = S
  BY DEF Pending, BookedOn
<1>2. Total(S, Charge') = Total(S, Charge)
  <2>1. \A b \in S : Charge'[b] = Charge[b]
    BY <1>1
  <2> HIDE DEF S
  <2> QED BY <2>1, TotalSame
<1>3. Charge \in [Calls -> Nat]
  BY ChargeType
<1>4. Total(T, Charge) = Total(S, Charge) + Charge[c] /\ Total(S, Charge) \in Nat
  <2> HIDE DEF T
  <2> QED BY <1>1, <1>3, CallsSplit
<1> HIDE DEF S, T
<1> QED BY <1>1, <1>2, <1>4 DEF T
----------------------------------------------------------------------------
\* What the ledger shows after a step of c that adds n tokens to day d.
LEMMA LedgerMoves ==
  ASSUME NEW c \in Calls, NEW d \in Days, NEW n, NEW h, NEW m, NEW e,
         Committed'[d] = Committed[d] + n,
         \A x \in Days \ {d} : Committed'[x] = Committed[x],
         Holding'[c] = h, Amount'[c] = m, DayOf'[c] = e,
         \A b \in Calls \ {c} : Holding'[b] = Holding[b] /\ Amount'[b] = Amount[b]
                                /\ DayOf'[b] = DayOf[b]
  PROVE  /\ Committed' = [Committed EXCEPT ![d] = @ + n]
         /\ Holding' = [Holding EXCEPT ![c] = h]
         /\ Amount' = [Amount EXCEPT ![c] = m]
         /\ DayOf' = [DayOf EXCEPT ![c] = e]
<1>1. /\ Committed = [x \in Days |-> Committed[x]]
      /\ Committed' = [x \in Days |-> Committed'[x]]
  BY DEF Committed
<1>2. /\ Holding = [b \in Calls |-> Holding[b]]
      /\ Holding' = [b \in Calls |-> Holding'[b]]
  <2> DEFINE Where(b) == CASE pc[b] \in Granted -> "grant"
                           [] Reconciled(b)     -> "settled"
                           [] outcome[b] \in {"fatal", "exhausted"} -> "returned"
                           [] OTHER             -> "nothing"
  <2>1. Holding = [b \in Calls |-> Where(b)]
    BY DEF Holding
  <2>2. Holding' = [b \in Calls |-> Where(b)']
    BY DEF Holding
  <2> HIDE DEF Where
  <2> QED BY <2>1, <2>2
<1>3. /\ Amount = [b \in Calls |-> Amount[b]]
      /\ Amount' = [b \in Calls |-> Amount'[b]]
  BY DEF Amount
<1>4. /\ DayOf = [b \in Calls |-> DayOf[b]]
      /\ DayOf' = [b \in Calls |-> DayOf'[b]]
  BY DEF DayOf
<1>5. Committed' = [Committed EXCEPT ![d] = @ + n]
  BY <1>1
<1>6. Holding' = [Holding EXCEPT ![c] = h]
  BY <1>2
<1>7. Amount' = [Amount EXCEPT ![c] = m]
  BY <1>3
<1>8. DayOf' = [DayOf EXCEPT ![c] = e]
  BY <1>4
<1> QED BY <1>5, <1>6, <1>7, <1>8

\* A booking that leaves the ceiling standing is a grant.
LEMMA ReserveGrants ==
  ASSUME Typed, NEW c \in Calls, Reserve(c), pc'[c] = "choose",
         NEW t \in Days, t = today, NEW n, n = Estimate(c)
  PROVE  Ledger!Grant(c, t, n)
<1>1. /\ pc \in [Calls -> Steps] /\ outcome \in [Calls -> Outcomes]
      /\ bookedOn \in [Calls -> Days \cup {0}] /\ counter \in [Days -> Int]
      /\ today \in Days /\ PerDayCeiling \in Nat
  BY GatewayAssumption DEF Typed, TypeOK
<1>2. /\ pc[c] = "reserve" /\ outcome[c] = "none" /\ bookedOn[c] = 0
      /\ bookedOn' = [bookedOn EXCEPT ![c] = today]
      /\ counter' = [counter EXCEPT ![today] = @ + Estimate(c)]
      /\ UNCHANGED <<outcome, request, used>>
      /\ ~(counter[today] + Estimate(c) > PerDayCeiling)
  BY <1>1 DEF Reserve, At, Goto, OverCeiling, Typed, Placed
<1>3. Estimate(c) \in Nat
  BY EstimateType
<1>4. ASSUME NEW d \in Days
      PROVE  Total(Pending(d), Charge)' = Total(Pending(d), Charge)
  <2>1. Pending(d)' = Pending(d)
    <3>1. \A b \in Calls \ {c} : pc'[b] = pc[b] /\ bookedOn'[b] = bookedOn[b]
      BY OthersHold DEF Advance
    <3> QED BY <1>2, <3>1 DEF Pending, BookedOn
  <2>2. \A b \in Pending(d) : Charge'[b] = Charge[b]
    <3>1. \A b \in Pending(d) : b \in Calls \ {c}
      BY <1>2 DEF Pending, BookedOn
    <3> QED BY <3>1, OthersHold DEF Advance
  <2>3. Total(Pending(d), Charge') = Total(Pending(d), Charge)
    BY <2>2, TotalSame
  <2> QED BY <2>1, <2>3
<1>5. /\ Committed'[today] = Committed[today] + Estimate(c)
      /\ \A d \in Days \ {today} : Committed'[d] = Committed[d]
  <2>1. \A d \in Days : Total(Pending(d), Charge) \in Nat
    BY PendingType
  <2>2. Committed'[today] = Committed[today] + Estimate(c)
    BY <1>1, <1>2, <1>3, <1>4, <2>1 DEF Committed
  <2>3. ASSUME NEW d \in Days \ {today} PROVE Committed'[d] = Committed[d]
    BY <1>1, <1>2, <1>4, <2>1, <2>3 DEF Committed
  <2> QED BY <2>2, <2>3
<1>6. /\ Holding[c] = "nothing" /\ Holding'[c] = "grant"
      /\ Amount'[c] = Estimate(c) /\ DayOf'[c] = today
  <2>1. Holding[c] = "nothing" /\ Holding'[c] = "grant"
    BY <1>2 DEF Holding, Granted, Reconciled
  <2>2. Amount'[c] = Estimate(c)
    BY <1>2 DEF Amount, Admitted, Charge, Granted, Estimate
  <2>3. DayOf'[c] = today
    BY <1>1, <1>2, <2>1 DEF DayOf
  <2> QED BY <2>1, <2>2, <2>3
<1>7. Committed[today] + Estimate(c) <= PerDayCeiling
  <2>1. Total(Pending(today), Charge) \in Nat
    BY PendingType
  <2>2. counter[today] \in Int
    BY <1>1
  <2>3. Committed[today] = counter[today] - Total(Pending(today), Charge)
    BY <1>1 DEF Committed
  <2> QED BY <1>1, <1>2, <1>3, <2>1, <2>2, <2>3
<1>8. /\ Committed' = [Committed EXCEPT ![today] = @ + Estimate(c)]
      /\ Holding' = [Holding EXCEPT ![c] = "grant"]
      /\ Amount' = [Amount EXCEPT ![c] = Estimate(c)]
      /\ DayOf' = [DayOf EXCEPT ![c] = today]
  <2>1. \A b \in Calls \ {c} : Holding'[b] = Holding[b] /\ Amount'[b] = Amount[b]
                                /\ DayOf'[b] = DayOf[b]
    BY OthersHold DEF Advance
  <2> QED BY <1>1, <1>5, <1>6, <2>1, LedgerMoves
<1> QED BY <1>6, <1>7, <1>8 DEF Ledger!Grant, Amount, DayOf

\* What a booked call takes off its key, or adds to it, is what it used.
LEMMA Corrected ==
  ASSUME Typed, NEW c \in Calls, NEW n \in Int, pc[c] \in Granted, bookedOn[c] \in Days,
         Advance(c), counter' = [counter EXCEPT ![bookedOn[c]] = @ + n],
         UNCHANGED bookedOn, pc'[c] # "rollback"
  PROVE  /\ Committed'[bookedOn[c]] = Committed[bookedOn[c]] + n
         /\ \A d \in Days \ {bookedOn[c]} : Committed'[d] = Committed[d]
<1>1. counter \in [Days -> Int]
  BY DEF Typed, TypeOK
<1>2. \A d \in Days : Total(Pending(d), Charge) \in Nat
  BY PendingType
<1>3. ASSUME NEW d \in Days
      PROVE  Total(Pending(d), Charge)' = Total(Pending(d), Charge)
  <2>1. pc[c] # "rollback"
    BY DEF Granted
  <2>2. \A b \in Calls \ {c} : (pc'[b] = "rollback" <=> pc[b] = "rollback")
                                /\ Charge'[b] = Charge[b]
    BY OthersHold
  <2> QED BY <2>1, <2>2, PendingAlone
<1>4. Committed'[bookedOn[c]] = Committed[bookedOn[c]] + n
  BY <1>1, <1>2, <1>3 DEF Committed
<1>5. ASSUME NEW d \in Days \ {bookedOn[c]} PROVE Committed'[d] = Committed[d]
  BY <1>1, <1>2, <1>3, <1>5 DEF Committed
<1> QED BY <1>4, <1>5

\* A reconciled booking is settled at the tokens used.
LEMMA ReconcileSettles ==
  ASSUME Typed, Reported, NEW c \in Calls, Reconcile(c), NEW n, n = used[c]
  PROVE  Ledger!Settle(c, n) /\ n \in Usages
<1>1. /\ pc \in [Calls -> Steps] /\ outcome \in [Calls -> Outcomes]
      /\ counter \in [Days -> Int] /\ Estimate(c) \in Nat /\ used[c] \in Nat
  BY EstimateType DEF Typed, TypeOK
<1>2. /\ pc[c] = "reconcile" /\ outcome[c] = "none" /\ bookedOn[c] \in Days
      /\ pc'[c] \in {"track", "store"}
      /\ counter' = [counter EXCEPT ![bookedOn[c]] = @ + (used[c] - Estimate(c))]
      /\ UNCHANGED <<outcome, bookedOn, request, used>>
  BY <1>1 DEF Reconcile, At, Goto, KeyOfBooking, callVars, Typed, Placed, Granted
<1> DEFINE d == bookedOn[c]
<1>3. /\ Committed'[d] = Committed[d] + (used[c] - Estimate(c))
      /\ \A x \in Days \ {d} : Committed'[x] = Committed[x]
  <2> DEFINE more == used[c] - Estimate(c)
  <2>1. more \in Int /\ counter' = [counter EXCEPT ![d] = @ + more]
    BY <1>1, <1>2
  <2> HIDE DEF more
  <2>2. /\ Committed'[d] = Committed[d] + more
        /\ \A x \in Days \ {d} : Committed'[x] = Committed[x]
    BY <1>2, <2>1, Corrected DEF Advance, Granted
  <2> QED BY <2>2 DEF more
<1>4. Holding[c] = "grant" /\ Holding'[c] = "settled"
  BY <1>2 DEF Holding, Granted, Reconciled
<1>5. Amount[c] = Estimate(c) /\ Amount'[c] = used[c]
  <2>1. Amount[c] = Estimate(c)
    BY <1>2 DEF Amount, Admitted, Charge, Granted
  <2>2. Amount'[c] = used[c]
    BY <1>2 DEF Amount, Admitted, Charge, Granted, Reconciled
  <2> QED BY <2>1, <2>2
<1>6. DayOf[c] = d /\ DayOf'[c] = d
  BY <1>2, <1>4 DEF DayOf
<1>7. /\ Committed' = [Committed EXCEPT ![d] = @ + (used[c] - Estimate(c))]
      /\ Holding' = [Holding EXCEPT ![c] = "settled"]
      /\ Amount' = [Amount EXCEPT ![c] = used[c]]
      /\ DayOf' = [DayOf EXCEPT ![c] = d]
  <2>1. \A b \in Calls \ {c} : Holding'[b] = Holding[b] /\ Amount'[b] = Amount[b]
                                /\ DayOf'[b] = DayOf[b]
    BY OthersHold DEF Advance
  <2>2. d \in Days
    BY <1>2
  <2> HIDE DEF d
  <2> QED BY <1>3, <1>4, <1>5, <1>6, <2>1, <2>2, LedgerMoves
<1>8. DayOf' = DayOf
  BY <1>6, <1>7 DEF DayOf
<1>9. used[c] \in Usages
  BY <1>2 DEF Reported
<1> QED BY <1>4, <1>5, <1>6, <1>7, <1>8, <1>9 DEF Ledger!Settle, Amount, DayOf

\* A released booking is returned whole.
LEMMA ReleaseReturns ==
  ASSUME Typed, NEW c \in Calls, Release(c)
  PROVE  Ledger!Return(c)
<1>1. /\ pc \in [Calls -> Steps] /\ outcome \in [Calls -> Outcomes]
      /\ counter \in [Days -> Int] /\ Estimate(c) \in Nat
  BY EstimateType DEF Typed, TypeOK
<1>2. /\ pc[c] = "release" /\ outcome[c] = "none" /\ bookedOn[c] \in Days
      /\ pc'[c] = "end" /\ outcome'[c] \in {"exhausted", "fatal"}
      /\ counter' = [counter EXCEPT ![bookedOn[c]] = @ - Estimate(c)]
      /\ UNCHANGED <<bookedOn, request, used>>
  BY <1>1 DEF Release, At, End, TakeBack, KeyOfBooking, callVars, Typed, Placed, Granted
<1> DEFINE d == bookedOn[c]
           n == 0 - Estimate(c)
<1>3. n \in Int /\ counter' = [counter EXCEPT ![d] = @ + n]
  <2>1. counter[d] \in Int /\ n \in Int
    BY <1>1, <1>2
  <2>2. counter[d] - Estimate(c) = counter[d] + n
    BY <1>1, <2>1
  <2> QED BY <1>2, <2>1, <2>2
<1>4. /\ Committed'[d] = Committed[d] + n
      /\ \A x \in Days \ {d} : Committed'[x] = Committed[x]
  <2> HIDE DEF n
  <2> QED BY <1>2, <1>3, Corrected DEF Advance, Granted
<1>5. Holding[c] = "grant" /\ Holding'[c] = "returned"
  BY <1>2 DEF Holding, Granted, Reconciled
<1>6. Amount[c] = Estimate(c) /\ Amount'[c] = 0
  <2>1. Amount[c] = Estimate(c)
    BY <1>2 DEF Amount, Admitted, Charge, Granted
  <2>2. Amount'[c] = 0
    BY <1>2 DEF Amount, Admitted, Granted, Reconciled
  <2> QED BY <2>1, <2>2
<1>7. DayOf[c] = d /\ DayOf'[c] = d
  BY <1>2, <1>5 DEF DayOf
<1>8. /\ Committed' = [Committed EXCEPT ![d] = @ + n]
      /\ Holding' = [Holding EXCEPT ![c] = "returned"]
      /\ Amount' = [Amount EXCEPT ![c] = 0]
      /\ DayOf' = [DayOf EXCEPT ![c] = d]
  <2>1. \A b \in Calls \ {c} : Holding'[b] = Holding[b] /\ Amount'[b] = Amount[b]
                                /\ DayOf'[b] = DayOf[b]
    BY OthersHold DEF Advance
  <2>2. d \in Days
    BY <1>2
  <2> HIDE DEF d, n
  <2> QED BY <1>4, <1>5, <1>6, <1>7, <2>1, <2>2, LedgerMoves
<1>9. Committed' = [Committed EXCEPT ![d] = @ - Estimate(c)]
  <2>1. Committed[d] \in Int
    BY <1>1, <1>2, PendingType DEF Committed
  <2>2. Committed[d] - Estimate(c) = Committed[d] + n
    BY <1>1, <2>1
  <2> QED BY <1>8, <2>2
<1>10. DayOf' = DayOf
  BY <1>7, <1>8 DEF DayOf
<1> QED BY <1>5, <1>6, <1>7, <1>8, <1>9, <1>10 DEF Ledger!Return, Amount, DayOf

\* A booking over the ceiling, and taking it back, are out of the ledger's sight.
LEMMA ReserveRefused ==
  ASSUME Typed, Typed', NEW c \in Calls, Reserve(c), pc'[c] # "choose"
  PROVE  UNCHANGED Ledger!ledgerVars
<1>1. /\ pc \in [Calls -> Steps] /\ outcome \in [Calls -> Outcomes]
      /\ bookedOn \in [Calls -> Days \cup {0}] /\ counter \in [Days -> Int]
      /\ today \in Days
  BY DEF Typed, TypeOK
<1>10. 0 \notin Days
  BY DEF Days
<1>11. PICK t \in Days : t = today
  BY <1>1
<1>2. /\ pc[c] = "reserve" /\ outcome[c] = "none" /\ bookedOn[c] = 0
      /\ bookedOn' = [bookedOn EXCEPT ![c] = today] /\ pc'[c] = "rollback"
      /\ counter' = [counter EXCEPT ![today] = @ + Estimate(c)]
      /\ UNCHANGED <<outcome, request, used>>
  BY <1>1 DEF Reserve, At, Goto, OverCeiling, Typed, Placed
<1>3. Estimate(c) \in Nat /\ Charge'[c] = Estimate(c)
  BY <1>2, EstimateType DEF Charge, Estimate, Granted
<1>4. \A b \in Calls \ {c} : pc'[b] = pc[b] /\ bookedOn'[b] = bookedOn[b]
                              /\ Charge'[b] = Charge[b]
  BY OthersHold DEF Advance
<1>5. Committed'[t] = Committed[t]
  <2>1. Total(Pending(t), Charge)' = Total(Pending(t), Charge) + Estimate(c)
    BY <1>1, <1>2, <1>3, <1>4, <1>11, PendingMoves
  <2>2. Total(Pending(t), Charge) \in Nat
    BY PendingType
  <2>3. counter'[t] = counter[t] + Estimate(c) /\ counter[t] \in Int
    BY <1>1, <1>2, <1>11
  <2>4. /\ Committed[t] = counter[t] - Total(Pending(t), Charge)
        /\ Committed'[t] = counter'[t] - Total(Pending(t), Charge)'
    BY DEF Committed
  <2> QED BY <1>3, <2>1, <2>2, <2>3, <2>4
<1>6. ASSUME NEW d \in Days, d # t PROVE Committed'[d] = Committed[d]
  <2>1. Pending(d)' = Pending(d) /\ c \notin Pending(d)
    BY <1>1, <1>2, <1>4, <1>6, <1>10, <1>11 DEF Pending, BookedOn
  <2>2. Total(Pending(d), Charge') = Total(Pending(d), Charge)
    <3>1. \A b \in Pending(d) : Charge'[b] = Charge[b]
      BY <1>4, <2>1 DEF Pending, BookedOn
    <3> QED BY <3>1, TotalSame
  <2>3. counter'[d] = counter[d]
    BY <1>1, <1>2, <1>6, <1>11
  <2> QED BY <2>1, <2>2, <2>3 DEF Committed
<1>7. Holding[c] = "nothing" /\ Holding'[c] = "nothing"
  BY <1>2 DEF Holding, Granted, Reconciled
<1>8. Amount'[c] = Amount[c] /\ DayOf'[c] = DayOf[c]
  <2>1. ~Admitted(c) /\ ~Admitted(c)'
    BY <1>2 DEF Admitted, Granted, Reconciled
  <2> QED BY <1>7, <2>1 DEF Amount, DayOf
<1>9. \A b \in Calls : Holding'[b] = Holding[b] /\ Amount'[b] = Amount[b]
                        /\ DayOf'[b] = DayOf[b]
  BY <1>7, <1>8, OthersHold DEF Advance
<1> QED BY <1>5, <1>6, <1>9, LedgerStays

LEMMA RollbackUnseen ==
  ASSUME Typed, NEW c \in Calls, Rollback(c)
  PROVE  UNCHANGED Ledger!ledgerVars
<1>1. /\ pc \in [Calls -> Steps] /\ outcome \in [Calls -> Outcomes]
      /\ counter \in [Days -> Int]
  BY DEF Typed, TypeOK
<1>2. /\ pc[c] = "rollback" /\ outcome[c] = "none" /\ bookedOn[c] \in Days
      /\ pc'[c] = "end" /\ outcome'[c] = "over_day"
      /\ counter' = [counter EXCEPT ![bookedOn[c]] = @ - Estimate(c)]
      /\ UNCHANGED <<bookedOn, request, used>>
  BY <1>1 DEF Rollback, At, End, TakeBack, KeyOfBooking, callVars, Typed, Placed
<1>10. PICK e \in Days : e = bookedOn[c]
  BY <1>2
<1>3. Estimate(c) \in Nat /\ Charge[c] = Estimate(c)
  BY <1>2, EstimateType DEF Charge, Granted
<1>4. \A b \in Calls \ {c} : pc'[b] = pc[b] /\ bookedOn'[b] = bookedOn[b]
                              /\ Charge'[b] = Charge[b]
  BY OthersHold DEF Advance
<1>5. Committed'[e] = Committed[e]
  <2>1. /\ Total(Pending(e), Charge) = Total(Pending(e), Charge)' + Estimate(c)
        /\ Total(Pending(e), Charge)' \in Nat
    BY <1>2, <1>3, <1>4, <1>10, PendingLeaves
  <2>2. Total(Pending(e), Charge) \in Nat
    BY PendingType
  <2>3. counter'[e] = counter[e] - Estimate(c) /\ counter[e] \in Int
    BY <1>1, <1>2, <1>10
  <2>4. /\ Committed[e] = counter[e] - Total(Pending(e), Charge)
        /\ Committed'[e] = counter'[e] - Total(Pending(e), Charge)'
    BY DEF Committed
  <2> QED BY <1>3, <2>1, <2>2, <2>3, <2>4
<1>6. ASSUME NEW d \in Days, d # e PROVE Committed'[d] = Committed[d]
  <2>1. Pending(d)' = Pending(d) /\ c \notin Pending(d)
    BY <1>2, <1>4, <1>6, <1>10 DEF Pending, BookedOn
  <2>2. Total(Pending(d), Charge') = Total(Pending(d), Charge)
    <3>1. \A b \in Pending(d) : Charge'[b] = Charge[b]
      BY <1>4, <2>1 DEF Pending, BookedOn
    <3> QED BY <3>1, TotalSame
  <2>3. counter'[d] = counter[d]
    BY <1>1, <1>2, <1>6, <1>10
  <2> QED BY <2>1, <2>2, <2>3 DEF Committed
<1>7. Holding[c] = "nothing" /\ Holding'[c] = "nothing"
  BY <1>2 DEF Holding, Granted, Reconciled
<1>8. Amount'[c] = Amount[c] /\ DayOf'[c] = DayOf[c]
  <2>1. ~Admitted(c) /\ ~Admitted(c)'
    BY <1>2 DEF Admitted, Granted, Reconciled
  <2> QED BY <1>7, <2>1 DEF Amount, DayOf
<1>9. \A b \in Calls : Holding'[b] = Holding[b] /\ Amount'[b] = Amount[b]
                        /\ DayOf'[b] = DayOf[b]
  BY <1>7, <1>8, OthersHold DEF Advance
<1> QED BY <1>5, <1>6, <1>9, LedgerStays

\* The cache and the calendar are not the ledger's.
LEMMA WorldUnseen ==
  ASSUME Typed, UNCHANGED <<counter, pc, outcome, callVars>>
  PROVE  UNCHANGED Ledger!ledgerVars
<1>1. \A b \in Calls : Charge'[b] = Charge[b] /\ (Admitted(b)' <=> Admitted(b))
  BY DEF Charge, Admitted, Reconciled, Estimate, callVars
<1>2. \A b \in Calls : Holding'[b] = Holding[b]
  BY DEF Holding, Reconciled
<1>3. \A b \in Calls : Amount'[b] = Amount[b] /\ DayOf'[b] = DayOf[b]
  BY <1>1, <1>2 DEF Amount, DayOf, callVars
<1>4. ASSUME NEW d \in Days PROVE Committed'[d] = Committed[d]
  <2>1. Total(Pending(d), Charge)' = Total(Pending(d), Charge)
    BY <1>1, PendingAlone DEF callVars
  <2> QED BY <2>1 DEF Committed
<1> QED BY <1>2, <1>3, <1>4, LedgerStays

----------------------------------------------------------------------------
\* Every step of the gateway is a step of the ledger or leaves it alone.
LEMMA StepsAllowed ==
  ASSUME Typed, Typed', Reported, [Next]_vars
  PROVE  [Ledger!Next]_Ledger!ledgerVars
<1>1. ASSUME NEW c \in Calls, Quiet(c) PROVE UNCHANGED Ledger!ledgerVars
  BY <1>1, QuietStays
<1>2. ASSUME NEW c \in Calls, Reserve(c)
      PROVE  [Ledger!Next]_Ledger!ledgerVars
  <2>1. CASE pc'[c] = "choose"
    <3>1. PICK t \in Days, n \in {EstimateOf[r] : r \in Requests} :
              t = today /\ n = Estimate(c)
      BY DEF Typed, TypeOK, Estimate
    <3>2. Ledger!Grant(c, t, n)
      BY <1>2, <2>1, <3>1, ReserveGrants
    <3>3. Ledger!Next
      BY <1>2, <3>2 DEF Ledger!Next
    <3> QED BY <3>3
  <2>2. CASE pc'[c] # "choose"
    BY <1>2, <2>2, ReserveRefused
  <2> QED BY <2>1, <2>2
<1>3. ASSUME NEW c \in Calls, Rollback(c) PROVE UNCHANGED Ledger!ledgerVars
  BY <1>3, RollbackUnseen
<1>4. ASSUME NEW c \in Calls, Reconcile(c) PROVE Ledger!Next
  <2>1. PICK n : n = used[c]
    OBVIOUS
  <2>2. Ledger!Settle(c, n) /\ n \in Usages
    BY <1>4, <2>1, ReconcileSettles
  <2> QED BY <1>4, <2>2 DEF Ledger!Next
<1>5. ASSUME NEW c \in Calls, Release(c) PROVE Ledger!Next
  <2>1. Ledger!Return(c)
    BY <1>5, ReleaseReturns
  <2> QED BY <1>5, <2>1 DEF Ledger!Next
<1>6. CASE (\E r \in Requests : Expire(r)) \/ Midnight \/ UNCHANGED vars
  <2>1. UNCHANGED <<counter, pc, outcome, callVars>>
    BY <1>6 DEF Expire, Midnight, vars, redisVars, callVars
  <2> QED BY <2>1, WorldUnseen
<1> QED
  BY <1>1, <1>2, <1>3, <1>4, <1>5, <1>6 DEF Next, Advance, Quiet, Done

(***************************************************************************)
(* However calls interleave, fail or are cut short, what BudgetGuard does  *)
(* to the Redis keys is what the ledger allows: grants within the ceiling, *)
(* each settled or returned at most once, on the day it was given.         *)
(***************************************************************************)
THEOREM LedgerImplemented == Spec => ImplementsLedger
<1>1. Init => Reported /\ Ledger!Init
  <2> SUFFICES ASSUME Init PROVE Reported /\ Ledger!Init
    OBVIOUS
  <2>1. Reported
    BY DEF Init, Reported
  <2>2. \A d \in Days : Committed[d] = 0
    <3> SUFFICES ASSUME NEW d \in Days PROVE Committed[d] = 0
      OBVIOUS
    <3>1. Pending(d) = {} /\ counter[d] = 0
      BY DEF Init, Pending, BookedOn
    <3>2. Units({}, Charge) = {}
      BY DEF Units
    <3>3. Total(Pending(d), Charge) = 0
      BY <3>1, <3>2, FS_EmptySet DEF Total
    <3> QED BY <3>1, <3>3 DEF Committed
  <2>3. \A c \in Calls : Holding[c] = "nothing" /\ Amount[c] = 0 /\ DayOf[c] = 0
    <3> SUFFICES ASSUME NEW c \in Calls
                 PROVE  Holding[c] = "nothing" /\ Amount[c] = 0 /\ DayOf[c] = 0
      OBVIOUS
    <3>1. pc[c] = "idle" /\ outcome[c] = "none"
      BY DEF Init
    <3>2. Holding[c] = "nothing"
      BY <3>1 DEF Holding, Granted, Reconciled
    <3>3. ~Admitted(c)
      BY <3>1 DEF Admitted, Granted, Reconciled
    <3> QED BY <3>2, <3>3 DEF Amount, DayOf
  <2>4. Committed = [d \in Days |-> 0]
    BY <2>2 DEF Committed
  <2>5. Holding = [c \in Calls |-> "nothing"]
    BY <2>3 DEF Holding
  <2>6. Amount = [c \in Calls |-> 0] /\ DayOf = [c \in Calls |-> 0]
    BY <2>3 DEF Amount, DayOf
  <2> QED BY <2>1, <2>4, <2>5, <2>6 DEF Ledger!Init, Amount, DayOf
<1>2. Typed /\ Typed' /\ Reported /\ [Next]_vars => [Ledger!Next]_Ledger!ledgerVars
  BY StepsAllowed
<1> QED
  BY <1>1, <1>2, TypedAlways, ReportedNext, PTL DEF Spec, ImplementsLedger, Ledger!Spec
============================================================================
