---------------------------- MODULE EvalRunProofs ----------------------------
(***************************************************************************)
(* Proofs about EvalRun, for any golden set, any corpus, any decreasing    *)
(* gains and any set of k.  MetricsAgree is mathematics about one ranking: *)
(* the hits up to a rank weigh at most what as many first ranks weigh      *)
(* (GainBound), by induction over the ranks.  ReportExact needs what is    *)
(* known of the result being judged while its judge calls come in          *)
(* (Underway), that results are judged in turn (InTurn), and that no call  *)
(* is noted as failed before it was made (FailuresPast).                   *)
(***************************************************************************)
EXTENDS EvalRun, FiniteSetTheorems, WellFoundedInduction, TLAPS

----------------------------------------------------------------------------
\* Induction and least elements.

\* A set of naturals has a least member: their order is well-founded.
LEMMA LeastNatural ==
  ASSUME NEW T, T \subseteq Nat, T # {}
  PROVE  \E m \in T : \A k \in T : m <= k
<1> DEFINE R == OpToRel(<, Nat)
<1>1. IsWellFoundedOn(R, Nat)
  BY NatLessThanWellFounded
<1> HIDE DEF R
<1>2. PICK m \in T : \A k \in T : <<k, m>> \notin R
  BY <1>1, WFMin
<1>3. ASSUME NEW k \in T PROVE m <= k
  <2>1. <<k, m>> \notin R
    BY <1>2
  <2> QED BY <2>1 DEF R, OpToRel
<1> QED BY <1>3

\* Induction over the naturals, by the set of which they are to be members.
LEMMA InductionBySet ==
  ASSUME NEW G, 0 \in G, \A n \in Nat : n \in G => n + 1 \in G
  PROVE  \A n \in Nat : n \in G
<1> SUFFICES ASSUME NEW n \in Nat, n \notin G PROVE FALSE
  OBVIOUS
<1> DEFINE T == {k \in Nat : k \notin G}
<1>1. PICK m \in T : \A k \in T : m <= k
  <2>1. T # {} /\ T \subseteq Nat
    OBVIOUS
  <2> HIDE DEF T
  <2> QED BY <2>1, LeastNatural
<1>2. m - 1 \in Nat /\ m - 1 \notin T
  BY <1>1
<1> QED BY <1>2

\* Min, a CHOOSE, is the least element there is.
LEMMA MinOfSet ==
  ASSUME NEW S, S \subseteq Nat, S # {}
  PROVE  Min(S) \in S /\ \A y \in S : Min(S) <= y
BY LeastNatural DEF Min

\* The lesser of two, as the limits are written.
LEMMA MinOfTwo ==
  ASSUME NEW a \in Nat, NEW b \in Nat
  PROVE  Min({a, b}) \in Nat /\ Min({a, b}) = IF a <= b THEN a ELSE b
<1>1. Min({a, b}) \in {a, b} /\ Min({a, b}) <= a /\ Min({a, b}) <= b
  BY MinOfSet
<1> QED BY <1>1

----------------------------------------------------------------------------
\* Sums of gains.

\* f is the function GainOf defines by recursion, up to n.
Sums(f, ranks, n) ==
  f = [k \in 0..n |-> IF k = 0 THEN 0 ELSE f[k - 1] + IF k \in ranks THEN Gain[k] ELSE 0]

\* There is such a function for every n, by induction.
LEMMA SumsExist ==
  ASSUME NEW ranks, NEW n \in Nat
  PROVE  \E f : Sums(f, ranks, n)
<1> DEFINE G == {k \in Nat : \E f : Sums(f, ranks, k)}
<1>1. 0 \in G
  <2> DEFINE f == [k \in 0..0 |-> 0]
  <2>1. Sums(f, ranks, 0)
    BY DEF Sums
  <2> QED BY <2>1
<1>2. ASSUME NEW k \in Nat, k \in G PROVE k + 1 \in G
  <2>1. PICK f : Sums(f, ranks, k)
    BY <1>2
  <2> DEFINE more == f[k] + IF k + 1 \in ranks THEN Gain[k + 1] ELSE 0
             h == [j \in 0..k + 1 |-> IF j = k + 1 THEN more ELSE f[j]]
  <2>2. ASSUME NEW j \in 0..k + 1
        PROVE  h[j] = IF j = 0 THEN 0 ELSE h[j - 1] + IF j \in ranks THEN Gain[j] ELSE 0
    <3>1. CASE j = k + 1
      <4>1. h[j] = more /\ h[j - 1] = f[k] /\ j # 0
        BY <3>1
      <4> HIDE DEF h
      <4> QED BY <3>1, <4>1
    <3>2. CASE j # k + 1
      <4>1. j \in 0..k /\ h[j] = f[j] /\ (j # 0 => h[j - 1] = f[j - 1])
        BY <3>2
      <4>2. f[j] = IF j = 0 THEN 0 ELSE f[j - 1] + IF j \in ranks THEN Gain[j] ELSE 0
        BY <2>1, <4>1 DEF Sums
      <4> HIDE DEF h
      <4> QED BY <4>1, <4>2
    <3> QED BY <3>1, <3>2
  <2>3. Sums(h, ranks, k + 1)
    <3>1. h = [j \in 0..k + 1 |-> h[j]]
      OBVIOUS
    <3> HIDE DEF h
    <3> QED BY <2>2, <3>1 DEF Sums
  <2> QED BY <2>3
<1> HIDE DEF G
<1>3. n \in G
  BY <1>1, <1>2, InductionBySet
<1> QED BY <1>3 DEF G

\* f[n] is the sum of the gains of those ranks that are at most n.
Partial(f, ranks) ==
  /\ f[0] = 0
  /\ \A k \in 1..Len(Gain) : f[k] = f[k - 1] + IF k \in ranks THEN Gain[k] ELSE 0

\* GainOf is the last of the partial sums.
LEMMA GainSums ==
  ASSUME NEW ranks
  PROVE  \E f : Partial(f, ranks) /\ GainOf(ranks) = f[Len(Gain)]
<1> DEFINE upTo[n \in 0..Len(Gain)] ==
             IF n = 0 THEN 0
             ELSE upTo[n - 1] + IF n \in ranks THEN Gain[n] ELSE 0
<1>1. Len(Gain) \in Nat
  BY GainAssumption DEF GainAssumption
<1>2. PICK f : Sums(f, ranks, Len(Gain))
  <2> HIDE DEF upTo
  <2> QED BY <1>1, SumsExist
<1>3. Sums(upTo, ranks, Len(Gain))
  BY <1>2, Zenon DEF Sums
<1>4. GainOf(ranks) = upTo[Len(Gain)]
  BY Zenon DEF GainOf
<1> HIDE DEF upTo
<1>5. Partial(upTo, ranks)
  BY <1>1, <1>3 DEF Sums, Partial
<1> QED BY <1>4, <1>5

\* The ranks that have a gain.
Gains == 1..Len(Gain)

\* The gains are positive, and less for a later rank.
LEMMA GainFacts ==
  /\ Len(Gain) \in Nat /\ DOMAIN Gain = Gains
  /\ \A i \in Gains : Gain[i] \in Nat \ {0}
  /\ \A i, j \in Gains : i <= j => Gain[i] >= Gain[j] /\ (i # j => Gain[i] > Gain[j])
<1>1. Gain \in Seq(Nat \ {0}) /\ \A i, j \in DOMAIN Gain : i < j => Gain[i] > Gain[j]
  BY GainAssumption DEF GainAssumption
<1>2. Len(Gain) \in Nat /\ DOMAIN Gain = Gains /\ \A i \in Gains : Gain[i] \in Nat \ {0}
  BY <1>1 DEF Gains
<1>3. ASSUME NEW i \in Gains, NEW j \in Gains, i <= j
      PROVE  Gain[i] >= Gain[j] /\ (i # j => Gain[i] > Gain[j])
  <2>1. i \in Nat /\ j \in Nat /\ Gain[i] \in Nat /\ Gain[j] \in Nat
    BY <1>2 DEF Gains
  <2>2. i # j => i < j
    BY <1>3, <2>1
  <2> QED BY <1>1, <1>2, <2>1, <2>2
<1> QED BY <1>2, <1>3

\* The partial sums of any ranks are natural numbers and do not fall.
LEMMA PartialNat ==
  ASSUME NEW f, NEW ranks, Partial(f, ranks)
  PROVE  \A k \in 0..Len(Gain) : f[k] \in Nat
<1> DEFINE G == {k \in Nat : k <= Len(Gain) => f[k] \in Nat}
<1>1. 0 \in G
  BY DEF Partial
<1>2. ASSUME NEW k \in Nat, k \in G PROVE k + 1 \in G
  <2>1. SUFFICES ASSUME k + 1 <= Len(Gain) PROVE f[k + 1] \in Nat
    OBVIOUS
  <2>2. k + 1 \in 1..Len(Gain) /\ k <= Len(Gain) /\ (k + 1) - 1 = k
    BY <2>1, GainFacts
  <2>3. f[k + 1] = f[k] + IF k + 1 \in ranks THEN Gain[k + 1] ELSE 0
    BY <2>2 DEF Partial
  <2>4. f[k] \in Nat /\ Gain[k + 1] \in Nat
    BY <1>2, <2>2, GainFacts DEF Gains
  <2> QED BY <2>3, <2>4
<1> HIDE DEF G
<1>3. \A k \in Nat : k \in G
  BY <1>1, <1>2, InductionBySet
<1> QED BY <1>3, GainFacts DEF G

\* The sum of a set of ranks is its first partial sums' as far as it reaches.
LEMMA GainOfFirst ==
  ASSUME NEW m \in 0..Len(Gain), NEW top, Partial(top, Gains)
  PROVE  GainOf(1..m) = top[m]
<1>1. PICK f : Partial(f, 1..m) /\ GainOf(1..m) = f[Len(Gain)]
  BY GainSums
<1> DEFINE N == Len(Gain)
           G == {k \in Nat : k <= N => f[k] = IF k <= m THEN top[k] ELSE top[m]}
<1>2. N \in Nat /\ m \in Nat /\ m <= N
  BY GainFacts
<1>3. 0 \in G
  BY <1>1, <1>2 DEF Partial
<1>4. ASSUME NEW k \in Nat, k \in G PROVE k + 1 \in G
  <2>1. SUFFICES ASSUME k + 1 <= N PROVE f[k + 1] = IF k + 1 <= m THEN top[k + 1] ELSE top[m]
    OBVIOUS
  <2>2. /\ k + 1 \in 1..N /\ k + 1 \in Gains /\ (k + 1) - 1 = k /\ k <= N /\ k \in 0..N
        /\ (k + 1 \in 1..m <=> k + 1 <= m)
    BY <1>2, <2>1 DEF Gains
  <2>3. f[k + 1] = f[k] + IF k + 1 \in 1..m THEN Gain[k + 1] ELSE 0
    BY <1>1, <2>2 DEF Partial
  <2>4. top[k + 1] = top[k] + Gain[k + 1]
    BY <2>2 DEF Partial
  <2>5. f[k] = IF k <= m THEN top[k] ELSE top[m]
    BY <1>4, <2>2
  <2>6. f[k] \in Nat /\ Gain[k + 1] \in Nat
    BY <1>1, <2>2, PartialNat, GainFacts
  <2>7. CASE k + 1 <= m
    BY <1>2, <2>2, <2>3, <2>4, <2>5, <2>7
  <2>8. CASE ~(k + 1 <= m)
    <3>1. f[k + 1] = f[k]
      BY <2>2, <2>3, <2>6, <2>8
    <3>2. k <= m => k = m
      BY <1>2, <2>8
    <3> QED BY <2>5, <2>8, <3>1, <3>2
  <2> QED BY <2>7, <2>8
<1> HIDE DEF G, N
<1>5. N \in G
  BY <1>2, <1>3, <1>4, InductionBySet
<1>6. f[N] = IF N <= m THEN top[N] ELSE top[m]
  BY <1>2, <1>5 DEF G
<1>7. f[N] = top[m]
  BY <1>2, <1>6
<1> QED BY <1>1, <1>7 DEF N

\* Fewer of the first ranks, less gain.
LEMMA TopGrows ==
  ASSUME NEW top, Partial(top, Gains), NEW c \in 0..Len(Gain), NEW m \in 0..Len(Gain),
         c < m
  PROVE  top[c] < top[m]
<1> DEFINE G == {k \in Nat : c + (k + 1) <= Len(Gain) => top[c] < top[c + (k + 1)]}
<1>1. /\ Len(Gain) \in Nat /\ c \in Nat /\ m \in Nat /\ m <= Len(Gain)
      /\ \A k \in 0..Len(Gain) : top[k] \in Nat
  BY GainFacts, PartialNat
<1>2. \A k \in Nat : k + 1 <= Len(Gain) => top[k + 1] = top[k] + Gain[k + 1]
                                          /\ Gain[k + 1] \in Nat \ {0} /\ top[k] \in Nat
                                          /\ top[k + 1] \in Nat
  <2> SUFFICES ASSUME NEW k \in Nat, k + 1 <= Len(Gain)
               PROVE  top[k + 1] = top[k] + Gain[k + 1] /\ Gain[k + 1] \in Nat \ {0}
                      /\ top[k] \in Nat /\ top[k + 1] \in Nat
    OBVIOUS
  <2>1. k + 1 \in Gains /\ (k + 1) - 1 = k /\ k \in 0..Len(Gain) /\ k + 1 \in 0..Len(Gain)
    BY <1>1 DEF Gains
  <2> QED BY <1>1, <2>1, GainFacts DEF Partial, Gains
<1>3. 0 \in G
  <2>1. c + (0 + 1) = c + 1
    BY <1>1
  <2> QED BY <1>1, <1>2, <2>1
<1>4. ASSUME NEW k \in Nat, k \in G PROVE k + 1 \in G
  <2>1. SUFFICES ASSUME c + ((k + 1) + 1) <= Len(Gain)
                 PROVE  top[c] < top[c + ((k + 1) + 1)]
    OBVIOUS
  <2> DEFINE j == c + (k + 1)
  <2>2. j \in Nat /\ c + ((k + 1) + 1) = j + 1 /\ j + 1 <= Len(Gain) /\ j <= Len(Gain)
    BY <1>1, <2>1
  <2>3. top[c] < top[j]
    BY <1>4, <2>2
  <2> HIDE DEF j
  <2>4. top[j + 1] = top[j] + Gain[j + 1] /\ Gain[j + 1] \in Nat \ {0} /\ top[j] \in Nat
    BY <1>2, <2>2
  <2>5. top[c] \in Nat
    BY <1>1
  <2>6. top[c] < top[j + 1]
    BY <2>3, <2>4, <2>5
  <2> QED BY <2>2, <2>6
<1> HIDE DEF G
<1>5. (m - c) - 1 \in Nat /\ c + (((m - c) - 1) + 1) = m
  BY <1>1
<1>6. (m - c) - 1 \in G
  BY <1>3, <1>4, <1>5, InductionBySet
<1> QED BY <1>1, <1>5, <1>6 DEF G

\* The ranks up to n of a set, and how many they are.
Below(S, n) == S \cap 1..n

\* One rank more counts one hit more or none.
LEMMA BelowNext ==
  ASSUME NEW S \in SUBSET Gains, NEW n \in Nat
  PROVE  /\ IsFiniteSet(Below(S, n)) /\ Cardinality(Below(S, n)) \in 0..n
         /\ Cardinality(Below(S, n)) = n <=> Below(S, n) = 1..n
         /\ n + 1 \in S => /\ Below(S, n + 1) = Below(S, n) \cup {n + 1}
                           /\ Cardinality(Below(S, n + 1)) = Cardinality(Below(S, n)) + 1
         /\ n + 1 \notin S => Below(S, n + 1) = Below(S, n)
<1>1. IsFiniteSet(1..n) /\ Cardinality(1..n) = n
  BY FS_Interval
<1>2. Below(S, n) \in SUBSET (1..n)
  BY DEF Below
<1>3. /\ IsFiniteSet(Below(S, n)) /\ Cardinality(Below(S, n)) <= n
      /\ Cardinality(1..n) = Cardinality(Below(S, n)) => 1..n = Below(S, n)
  BY <1>1, <1>2, FS_Subset
<1>4. Cardinality(Below(S, n)) \in Nat
  BY <1>3, FS_CardinalityType
<1>5. 1..n + 1 = 1..n \cup {n + 1} /\ n + 1 \notin 1..n
  OBVIOUS
<1>6. n + 1 \in S => Below(S, n + 1) = Below(S, n) \cup {n + 1}
  BY <1>5 DEF Below
<1>7. n + 1 \notin S => Below(S, n + 1) = Below(S, n)
  BY <1>5 DEF Below
<1>8. n + 1 \notin Below(S, n)
  BY <1>5 DEF Below
<1>9. Cardinality(Below(S, n) \cup {n + 1}) = Cardinality(Below(S, n)) + 1
  BY <1>3, <1>8, FS_AddElement
<1>10. Cardinality(Below(S, n)) \in 0..n
  BY <1>3, <1>4
<1>11. Cardinality(Below(S, n)) = n <=> Below(S, n) = 1..n
  BY <1>1, <1>3
<1>12. n + 1 \in S => Cardinality(Below(S, n + 1)) = Cardinality(Below(S, n)) + 1
  BY <1>6, <1>9
<1> QED BY <1>3, <1>6, <1>7, <1>10, <1>11, <1>12

\* A set of ranks gains no more than as many first ones, and less unless it is these.
LEMMA GainBound ==
  ASSUME NEW S \in SUBSET Gains, NEW top, Partial(top, Gains),
         NEW f, Partial(f, S), NEW n \in 0..Len(Gain)
  PROVE  LET c == Cardinality(Below(S, n))
         IN  f[n] <= top[c] /\ (f[n] = top[c] <=> Below(S, n) = 1..c)
<1> DEFINE c(k) == Cardinality(Below(S, k))
           Good(k) == f[k] <= top[c(k)] /\ (f[k] = top[c(k)] <=> Below(S, k) = 1..c(k))
           G == {k \in Nat : k <= Len(Gain) => Good(k)}
<1>1. 0 \in G
  <2>1. Below(S, 0) = {} /\ 1..0 = {}
    BY DEF Below
  <2>2. c(0) = 0
    BY <2>1, FS_EmptySet
  <2>3. f[0] = 0 /\ top[0] = 0
    BY DEF Partial
  <2> HIDE DEF c
  <2> QED BY <2>1, <2>2, <2>3
<1>2. ASSUME NEW k \in Nat, k \in G PROVE k + 1 \in G
  <2>1. SUFFICES ASSUME k + 1 <= Len(Gain) PROVE Good(k + 1)
    OBVIOUS
  <2>2. /\ k + 1 \in Gains /\ (k + 1) - 1 = k /\ k \in 0..Len(Gain) /\ k + 1 \in 0..Len(Gain)
        /\ k <= Len(Gain) /\ Len(Gain) \in Nat
    BY <2>1, GainFacts DEF Gains
  <2>3. f[k + 1] = f[k] + IF k + 1 \in S THEN Gain[k + 1] ELSE 0
    BY <2>2 DEF Partial, Gains
  <2>4. /\ f[k] \in Nat /\ f[k + 1] \in Nat /\ Gain[k + 1] \in Nat
    BY <2>2, PartialNat, GainFacts
  <2>5. Good(k)
    BY <1>2, <2>2
  <2>6. /\ c(k) \in 0..k /\ (c(k) = k <=> Below(S, k) = 1..k)
        /\ k + 1 \in S => Below(S, k + 1) = Below(S, k) \cup {k + 1} /\ c(k + 1) = c(k) + 1
        /\ k + 1 \notin S => Below(S, k + 1) = Below(S, k) /\ c(k + 1) = c(k)
    BY BelowNext
  <2>7. CASE k + 1 \notin S
    <3>1. f[k + 1] = f[k]
      BY <2>3, <2>4, <2>7
    <3> HIDE DEF c
    <3> QED BY <2>5, <2>6, <2>7, <3>1
  <2>8. CASE k + 1 \in S
    <3> DEFINE d == c(k)
    <3>1. d \in Nat /\ d <= k /\ d + 1 \in Gains /\ d + 1 <= k + 1 /\ d \in 0..Len(Gain)
          /\ (d + 1) - 1 = d
      BY <2>2, <2>6 DEF Gains
    <3>2. top[d + 1] = top[d] + Gain[d + 1] /\ top[d] \in Nat /\ Gain[d + 1] \in Nat
      BY <3>1, PartialNat, GainFacts DEF Partial, Gains
    <3>3. Gain[d + 1] >= Gain[k + 1] /\ (d + 1 # k + 1 => Gain[d + 1] > Gain[k + 1])
      BY <2>2, <3>1, GainFacts
    <3>4. f[k] <= top[d] /\ (f[k] = top[d] <=> Below(S, k) = 1..d)
      BY <2>5
    <3>5. c(k + 1) = d + 1 /\ f[k + 1] = f[k] + Gain[k + 1]
      BY <2>3, <2>6, <2>8
    <3>6. d = k <=> Below(S, k) = 1..k
      BY <2>6
    <3>7. Below(S, k + 1) = Below(S, k) \cup {k + 1}
      BY <2>6, <2>8
    <3>8. k + 1 \notin Below(S, k) /\ k + 1 \notin 1..k /\ 1..k + 1 = 1..k \cup {k + 1}
      BY DEF Below
    <3> HIDE DEF d, c
    <3>9. f[k + 1] <= top[d + 1]
      BY <2>4, <3>2, <3>3, <3>4, <3>5
    <3>10. f[k + 1] = top[d + 1] <=> d = k /\ f[k] = top[d]
      <4>1. f[k + 1] = top[d + 1] <=> f[k] + Gain[k + 1] = top[d] + Gain[d + 1]
        BY <3>2, <3>5
      <4>2. f[k] <= top[d] /\ Gain[k + 1] <= Gain[d + 1]
        BY <3>3, <3>4
      <4>3. f[k] \in Nat /\ top[d] \in Nat /\ Gain[k + 1] \in Nat /\ Gain[d + 1] \in Nat
        BY <2>4, <3>2
      <4>4. f[k] + Gain[k + 1] = top[d] + Gain[d + 1]
              <=> f[k] = top[d] /\ Gain[k + 1] = Gain[d + 1]
        BY <4>2, <4>3
      <4>5. Gain[k + 1] = Gain[d + 1] <=> d = k
        BY <2>2, <3>1, <3>3, <4>3
      <4> QED BY <4>1, <4>4, <4>5
    <3>11. d = k /\ f[k] = top[d] => Below(S, k + 1) = 1..d + 1
      BY <3>6, <3>7, <3>8
    <3>12. Below(S, k + 1) = 1..d + 1 => d = k /\ f[k] = top[d]
      <4> SUFFICES ASSUME Below(S, k + 1) = 1..d + 1 PROVE d = k /\ f[k] = top[d]
        OBVIOUS
      <4>1. k + 1 \in 1..d + 1
        BY <3>7
      <4>2. d = k
        BY <3>1, <4>1
      <4> QED BY <3>4, <3>6, <4>2
    <3> QED BY <3>5, <3>9, <3>10, <3>11, <3>12
  <2> QED BY <2>7, <2>8
<1> HIDE DEF G, Good
<1>3. n \in Nat /\ n <= Len(Gain)
  BY GainFacts
<1>4. n \in G
  BY <1>1, <1>2, <1>3, InductionBySet
<1>5. Good(n)
  BY <1>3, <1>4 DEF G
<1> QED BY <1>5 DEF Good

----------------------------------------------------------------------------
\* The metrics of one ranking.

\* A k is a rank that has a gain.
LEMMA KFacts ==
  /\ IsFiniteSet(Corpus)
  /\ \A k \in KValues : k \in Nat \ {0} /\ k <= Len(Gain)
BY GainFacts, EvalAssumption DEF EvalAssumption

\* The hits of a ranking are ranks up to k and to its length.
LEMMA HitFacts ==
  ASSUME NEW r \in Seq(Corpus), NEW rel \in SUBSET Corpus, NEW k \in KValues
  PROVE  /\ HitRanks(r, rel, k) \in SUBSET Gains
         /\ \A i : i \in HitRanks(r, rel, k) <=>
                     i \in 1..k /\ i <= Len(r) /\ r[i] \in rel
         /\ IsFiniteSet(rel) /\ Cardinality(rel) \in Nat
<1>1. k \in Nat \ {0} /\ k <= Len(Gain) /\ Len(r) \in Nat /\ Len(Gain) \in Nat
  BY KFacts, GainFacts
<1>2. Min({k, Len(r)}) = IF k <= Len(r) THEN k ELSE Len(r)
  BY <1>1, MinOfTwo
<1>3. \A i : i \in TopK(r, k) <=> i \in 1..k /\ i <= Len(r)
  BY <1>1, <1>2 DEF TopK
<1>4. \A i : i \in HitRanks(r, rel, k) <=> i \in 1..k /\ i <= Len(r) /\ r[i] \in rel
  BY <1>3 DEF HitRanks
<1>5. HitRanks(r, rel, k) \in SUBSET Gains
  BY <1>1, <1>4 DEF Gains
<1>6. IsFiniteSet(rel)
  BY KFacts, FS_Subset
<1> QED BY <1>4, <1>5, <1>6, FS_CardinalityType

\* As many hits as there may be, and no repetition.
Ideal(rel, k) == Min({k, Cardinality(rel)})

\* There are no more hits than relevant chunks, as no chunk is ranked twice.
LEMMA HitsFit ==
  ASSUME NEW r \in Seq(Corpus), \A i, j \in DOMAIN r : r[i] = r[j] => i = j,
         NEW rel \in SUBSET Corpus, NEW k \in KValues
  PROVE  /\ IsFiniteSet(HitRanks(r, rel, k))
         /\ Cardinality(HitRanks(r, rel, k)) \in 0..Ideal(rel, k)
         /\ Ideal(rel, k) \in 0..k
<1> DEFINE S == HitRanks(r, rel, k)
           h == [i \in S |-> r[i]]
<1>1. k \in Nat \ {0} /\ IsFiniteSet(rel) /\ Cardinality(rel) \in Nat
  BY KFacts, HitFacts
<1>2. \A i : i \in S <=> i \in 1..k /\ i <= Len(r) /\ r[i] \in rel
  BY HitFacts
<1> HIDE DEF S
<1>3. S \subseteq DOMAIN r /\ S \in SUBSET (1..k)
  BY <1>1, <1>2
<1>4. h \in Injection(S, rel)
  BY <1>2, <1>3 DEF Injection, IsInjective
<1>5. IsFiniteSet(S) /\ Cardinality(S) <= Cardinality(rel)
  BY <1>1, <1>4, FS_Injection
<1>6. Cardinality(S) <= k
  <2>1. IsFiniteSet(1..k) /\ Cardinality(1..k) = k
    <3>1. k \in Int /\ 1 \in Int /\ 1 <= k
      BY <1>1
    <3>2. /\ IsFiniteSet(1..k)
          /\ Cardinality(1..k) = IF 1 > k THEN 0 ELSE k - 1 + 1
      BY <3>1, FS_Interval
    <3> QED BY <3>1, <3>2
  <2>2. Cardinality(S) <= Cardinality(1..k)
    BY <1>3, <2>1, FS_Subset
  <2> QED BY <2>1, <2>2
<1>7. Cardinality(S) \in Nat
  BY <1>5, FS_CardinalityType
<1>8. Ideal(rel, k) = IF k <= Cardinality(rel) THEN k ELSE Cardinality(rel)
  BY <1>1, MinOfTwo DEF Ideal
<1>9. Cardinality(S) \in 0..Ideal(rel, k) /\ Ideal(rel, k) \in 0..k
  BY <1>1, <1>5, <1>6, <1>7, <1>8
<1> QED BY <1>5, <1>9 DEF S

\* Recall counts at most as many as there may be, and some if there is a hit.
LEMMA RecallFits ==
  ASSUME NEW r \in Seq(Corpus), NEW rel \in SUBSET Corpus, NEW k \in KValues
  PROVE  /\ RecallHits(r, rel, k) \in 0..Ideal(rel, k)
         /\ RecallHits(r, rel, k) > 0 <=> HitRanks(r, rel, k) # {}
<1> DEFINE T == TopK(r, k)
           D == {r[i] : i \in T}
<1>1. k \in Nat \ {0} /\ IsFiniteSet(rel) /\ Cardinality(rel) \in Nat /\ Len(r) \in Nat
  BY KFacts, HitFacts
<1>2. T \in SUBSET (1..k)
  <2>1. Min({k, Len(r)}) = IF k <= Len(r) THEN k ELSE Len(r)
    BY <1>1, MinOfTwo
  <2> QED BY <1>1, <2>1 DEF TopK
<1> HIDE DEF T
<1>3. IsFiniteSet(T) /\ Cardinality(T) <= k /\ Cardinality(T) \in Nat
  <2>1. IsFiniteSet(1..k) /\ Cardinality(1..k) = k
    <3>1. k \in Int /\ 1 \in Int /\ 1 <= k
      BY <1>1
    <3>2. /\ IsFiniteSet(1..k)
          /\ Cardinality(1..k) = IF 1 > k THEN 0 ELSE k - 1 + 1
      BY <3>1, FS_Interval
    <3> QED BY <3>1, <3>2
  <2>2. IsFiniteSet(T) /\ Cardinality(T) <= Cardinality(1..k)
    BY <1>2, <2>1, FS_Subset
  <2>3. Cardinality(T) \in Nat
    BY <2>2, FS_CardinalityType
  <2> QED BY <2>1, <2>2, <2>3
<1>4. IsFiniteSet(D) /\ Cardinality(D) <= Cardinality(T)
  <2> DEFINE g == [i \in T |-> r[i]]
  <2>1. g \in Surjection(T, D)
    BY DEF Surjection
  <2> QED BY <1>3, <2>1, FS_Surjection
<1>5. RecallHits(r, rel, k) = Cardinality(D \cap rel)
  BY DEF RecallHits, T
<1>6. HitRanks(r, rel, k) = {} <=> D \cap rel = {}
  BY DEF HitRanks, T
<1> HIDE DEF D
<1>7. /\ IsFiniteSet(D \cap rel) /\ Cardinality(D \cap rel) <= Cardinality(D)
      /\ Cardinality(D \cap rel) <= Cardinality(rel)
  BY <1>1, <1>4, FS_Intersection
<1>8. Cardinality(D) \in Nat /\ Cardinality(D \cap rel) \in Nat
      /\ (Cardinality(D \cap rel) = 0 <=> D \cap rel = {})
  BY <1>4, <1>7, FS_CardinalityType, FS_EmptySet
<1>9. Ideal(rel, k) = IF k <= Cardinality(rel) THEN k ELSE Cardinality(rel)
  BY <1>1, MinOfTwo DEF Ideal
<1>10. Cardinality(D \cap rel) \in 0..Ideal(rel, k)
  BY <1>1, <1>3, <1>4, <1>7, <1>8, <1>9
<1>11. Cardinality(D \cap rel) > 0 <=> D \cap rel # {}
  BY <1>8
<1> QED BY <1>5, <1>6, <1>10, <1>11

\* The first hit is found by all greater k too.
LEMMA FirstFits ==
  ASSUME NEW r \in Seq(Corpus), NEW rel \in SUBSET Corpus, NEW k \in KValues
  PROVE  /\ FirstHit(r, rel, k) > 0 <=> HitRanks(r, rel, k) # {}
         /\ \A l \in KValues : l > k => FirstHit(r, rel, k) \in {0, FirstHit(r, rel, l)}
<1>1. \A i : i \in HitRanks(r, rel, k) <=> i \in 1..k /\ i <= Len(r) /\ r[i] \in rel
  BY HitFacts
<1>2. k \in Nat \ {0}
  BY KFacts
<1> DEFINE S == HitRanks(r, rel, k)
<1>3. S \subseteq Nat \ {0}
  BY <1>1, <1>2
<1>4. S # {} => Min(S) \in S /\ \A y \in S : Min(S) <= y
  BY <1>3, MinOfSet
<1>5. FirstHit(r, rel, k) > 0 <=> S # {}
  BY <1>3, <1>4 DEF FirstHit
<1>6. ASSUME NEW l \in KValues, l > k, S # {}
      PROVE  FirstHit(r, rel, k) = FirstHit(r, rel, l)
  <2> DEFINE L == HitRanks(r, rel, l)
  <2>1. \A i : i \in L <=> i \in 1..l /\ i <= Len(r) /\ r[i] \in rel
    BY HitFacts
  <2>2. l \in Nat \ {0}
    BY KFacts
  <2>3. FirstHit(r, rel, k) = Min(S) /\ (L # {} => FirstHit(r, rel, l) = Min(L))
    BY <1>6 DEF FirstHit
  <2> HIDE DEF S, L
  <2>4. \A i : i \in S <=> i \in 1..k /\ i <= Len(r) /\ r[i] \in rel
    BY <1>1 DEF S
  <2>5. S \subseteq L /\ L \subseteq Nat /\ \A i \in L \ S : i > k
    BY <1>2, <1>6, <2>1, <2>2, <2>4
  <2>6. Min(L) \in L /\ \A y \in L : Min(L) <= y
    BY <1>6, <2>5, MinOfSet
  <2>7. Min(S) \in S /\ Min(S) \in 1..k /\ \A y \in S : Min(S) <= y
    BY <1>4, <1>6, <2>4
  <2>8. Min(L) <= Min(S) /\ Min(L) \in Nat /\ Min(S) \in Nat
    BY <2>5, <2>6, <2>7
  <2>9. Min(L) \in S
    BY <1>2, <2>5, <2>6, <2>7, <2>8
  <2>10. Min(L) = Min(S)
    BY <2>7, <2>8, <2>9
  <2> QED BY <1>6, <2>3, <2>5, <2>10
<1>7. S = {} => FirstHit(r, rel, k) = 0
  BY DEF FirstHit
<1> QED BY <1>5, <1>6, <1>7

\* nDCG is at most one, and one for as many relevant first ranks as there can be.
LEMMA DCGFits ==
  ASSUME NEW r \in Seq(Corpus), \A i, j \in DOMAIN r : r[i] = r[j] => i = j,
         NEW rel \in SUBSET Corpus, NEW k \in KValues
  PROVE  /\ DCG(r, rel, k) > 0 <=> HitRanks(r, rel, k) # {}
         /\ DCG(r, rel, k) <= IDCG(rel, k)
         /\ DCG(r, rel, k) = IDCG(rel, k) <=> HitRanks(r, rel, k) = 1..Ideal(rel, k)
<1> DEFINE S == HitRanks(r, rel, k)
           N == Len(Gain)
           m == Ideal(rel, k)
           c == Cardinality(S)
<1>1. /\ k \in Nat \ {0} /\ k <= N /\ N \in Nat /\ m \in 0..k /\ c \in 0..m
      /\ IsFiniteSet(S) /\ S \in SUBSET Gains
  BY KFacts, GainFacts, HitFacts, HitsFit
<1>2. PICK f : Partial(f, S) /\ GainOf(S) = f[N]
  BY GainSums
<1>3. PICK top : Partial(top, Gains)
  BY GainSums
<1>4. m \in 0..N /\ c \in 0..N /\ N \in 0..N
  BY <1>1
<1>5. DCG(r, rel, k) = f[N] /\ IDCG(rel, k) = GainOf(1..m)
  BY <1>2 DEF DCG, IDCG, Ideal
<1> HIDE DEF S, N, m, c
<1>6. IDCG(rel, k) = top[m]
  BY <1>3, <1>4, <1>5, GainOfFirst DEF N
<1>7. Below(S, N) = S
  BY <1>1 DEF Below, Gains, N
<1>8. f[N] <= top[c] /\ (f[N] = top[c] <=> S = 1..c)
  <2>1. /\ f[N] <= top[Cardinality(Below(S, N))]
        /\ f[N] = top[Cardinality(Below(S, N))] <=> Below(S, N) = 1..Cardinality(Below(S, N))
    BY <1>1, <1>2, <1>3, <1>4, GainBound DEF N
  <2> QED BY <1>7, <2>1 DEF c
<1>9. f[N] \in Nat /\ top[c] \in Nat /\ top[m] \in Nat /\ top[0] = 0
  BY <1>2, <1>3, <1>4, PartialNat DEF N, Partial
<1>10. c < m => top[c] < top[m]
  BY <1>3, <1>4, TopGrows DEF N
<1>11. f[N] <= top[m]
  <2>1. CASE c = m
    BY <1>8, <2>1
  <2>2. CASE c # m
    <3>1. c < m
      BY <1>1, <2>2
    <3> QED BY <1>8, <1>9, <1>10, <3>1
  <2> QED BY <2>1, <2>2
<1>12. f[N] = top[m] <=> S = 1..m
  <2>1. CASE c = m
    BY <1>8, <2>1
  <2>2. CASE c # m
    <3>1. c < m
      BY <1>1, <2>2
    <3>2. f[N] # top[m]
      BY <1>8, <1>9, <1>10, <3>1
    <3>3. Cardinality(1..m) = m
      BY <1>1, FS_Interval
    <3>4. S # 1..m
      BY <2>2, <3>3 DEF c
    <3> QED BY <3>2, <3>4
  <2> QED BY <2>1, <2>2
<1>13. f[N] > 0 <=> S # {}
  <2>1. ASSUME S = {} PROVE f[N] = 0
    <3>1. c = 0 /\ 1..c = {}
      BY <2>1, FS_EmptySet DEF c
    <3> QED BY <1>8, <1>9, <2>1, <3>1
  <2>2. ASSUME S # {} PROVE f[N] > 0
    <3>1. PICK j \in S : TRUE
      BY <2>2
    <3>2. j \in 1..N /\ j \in Gains
      BY <1>1, <3>1 DEF Gains, N
    <3> DEFINE G == {n \in Nat : j + n <= N => f[j + n] > 0}
    <3>3. \A i \in 1..N : /\ f[i] \in Nat /\ f[i - 1] \in Nat /\ Gain[i] \in Nat \ {0}
                          /\ f[i] = f[i - 1] + IF i \in S THEN Gain[i] ELSE 0
      <4> SUFFICES ASSUME NEW i \in 1..N
                   PROVE  /\ f[i] \in Nat /\ f[i - 1] \in Nat /\ Gain[i] \in Nat \ {0}
                          /\ f[i] = f[i - 1] + IF i \in S THEN Gain[i] ELSE 0
        OBVIOUS
      <4>1. i \in 0..N /\ i - 1 \in 0..N /\ i \in Gains
        BY <1>1 DEF Gains, N
      <4> QED BY <1>2, <4>1, PartialNat, GainFacts DEF Partial, N
    <3>4. 0 \in G
      <4>1. f[j] > 0 /\ j + 0 = j
        BY <3>1, <3>2, <3>3
      <4> QED BY <4>1
    <3>5. ASSUME NEW n \in Nat, n \in G PROVE n + 1 \in G
      <4>1. SUFFICES ASSUME j + (n + 1) <= N PROVE f[j + (n + 1)] > 0
        OBVIOUS
      <4>2. j + (n + 1) \in 1..N /\ (j + (n + 1)) - 1 = j + n /\ j + n <= N
        BY <1>1, <3>2, <4>1
      <4>3. f[j + n] > 0
        BY <3>5, <4>2
      <4>4. f[j + n] \in Nat /\ Gain[j + (n + 1)] \in Nat
            /\ f[j + (n + 1)] = f[j + n] + IF j + (n + 1) \in S THEN Gain[j + (n + 1)] ELSE 0
        BY <3>3, <4>2
      <4> QED BY <4>3, <4>4
    <3> HIDE DEF G
    <3>6. N - j \in Nat /\ j + (N - j) = N /\ N <= N
      BY <1>1, <3>2
    <3>7. N - j \in G
      BY <3>4, <3>5, <3>6, InductionBySet
    <3> QED BY <3>6, <3>7 DEF G
  <2> QED BY <1>9, <2>1, <2>2
<1> QED BY <1>5, <1>6, <1>11, <1>12, <1>13 DEF S, m

\* What MetricsAgree says of one ranking and one k.
Agreed(r, rel, k) ==
  LET ideal == Min({k, Cardinality(rel)})
  IN  /\ RecallHits(r, rel, k) <= ideal
      /\ RecallHits(r, rel, k) > 0 <=> FirstHit(r, rel, k) > 0
      /\ RecallHits(r, rel, k) > 0 <=> DCG(r, rel, k) > 0
      /\ DCG(r, rel, k) <= IDCG(rel, k)
      /\ DCG(r, rel, k) = IDCG(rel, k) <=>
           ideal <= Len(r) /\ \A i \in 1..ideal : r[i] \in rel
      /\ \A l \in KValues : l > k =>
           /\ RecallHits(r, rel, k) <= RecallHits(r, rel, l)
           /\ FirstHit(r, rel, k) \in {0, FirstHit(r, rel, l)}

\* All of it holds of any ranking without repetition.
LEMMA RanksAgree ==
  ASSUME NEW r \in Seq(Corpus), \A i, j \in DOMAIN r : r[i] = r[j] => i = j,
         NEW rel \in SUBSET Corpus, NEW k \in KValues
  PROVE  Agreed(r, rel, k)
<1> DEFINE S == HitRanks(r, rel, k)
           m == Ideal(rel, k)
<1>1. /\ k \in Nat \ {0} /\ m \in 0..k /\ Len(r) \in Nat
      /\ IsFiniteSet(S) /\ Cardinality(S) \in 0..m
      /\ \A i : i \in S <=> i \in 1..k /\ i <= Len(r) /\ r[i] \in rel
  <2>1. \A i : i \in S <=> i \in 1..k /\ i <= Len(r) /\ r[i] \in rel
    BY HitFacts
  <2>2. IsFiniteSet(S) /\ Cardinality(S) \in 0..m /\ m \in 0..k
    BY HitsFit
  <2>3. k \in Nat \ {0} /\ Len(r) \in Nat
    BY KFacts
  <2> QED BY <2>1, <2>2, <2>3
<1>2. S = 1..m <=> m <= Len(r) /\ \A i \in 1..m : r[i] \in rel
  <2> HIDE DEF S, m
  <2>1. ASSUME S = 1..m PROVE m <= Len(r) /\ \A i \in 1..m : r[i] \in rel
    <3>1. \A i \in 1..m : i \in S
      BY <2>1
    <3>2. CASE m = 0
      BY <1>1, <3>1, <3>2
    <3>3. CASE m # 0
      <4>1. m \in 1..m
        BY <1>1, <3>3
      <4> QED BY <1>1, <3>1, <4>1
    <3> QED BY <3>2, <3>3
  <2>2. ASSUME m <= Len(r), \A i \in 1..m : r[i] \in rel PROVE S = 1..m
    <3>1. 1..m \in SUBSET S
      BY <1>1, <2>2
    <3>2. Cardinality(1..m) = m
      BY <1>1, FS_Interval
    <3>3. m <= Cardinality(S) /\ (Cardinality(S) = m => S = 1..m)
      BY <1>1, <3>1, <3>2, FS_Subset
    <3> QED BY <1>1, <3>3
  <2> QED BY <2>1, <2>2
<1>3. RecallHits(r, rel, k) \in 0..m /\ (RecallHits(r, rel, k) > 0 <=> S # {})
  BY RecallFits
<1>4. FirstHit(r, rel, k) > 0 <=> S # {}
  BY FirstFits
<1>5. /\ DCG(r, rel, k) > 0 <=> S # {}
      /\ DCG(r, rel, k) <= IDCG(rel, k)
      /\ DCG(r, rel, k) = IDCG(rel, k) <=> S = 1..m
  BY DCGFits
<1>6. ASSUME NEW l \in KValues, l > k
      PROVE  /\ RecallHits(r, rel, k) <= RecallHits(r, rel, l)
             /\ FirstHit(r, rel, k) \in {0, FirstHit(r, rel, l)}
  <2> DEFINE A == {r[i] : i \in TopK(r, k)} \cap rel
             B == {r[i] : i \in TopK(r, l)} \cap rel
  <2>1. l \in Nat \ {0} /\ IsFiniteSet(rel)
    BY KFacts, HitFacts
  <2>2. TopK(r, k) \subseteq TopK(r, l)
    BY <1>1, <1>6, <2>1, MinOfTwo DEF TopK
  <2>3. A \in SUBSET B /\ B \in SUBSET rel
    BY <2>2
  <2>4. IsFiniteSet(B)
    BY <2>1, <2>3, FS_Subset
  <2>5. Cardinality(A) <= Cardinality(B)
    BY <2>3, <2>4, FS_Subset
  <2>6. RecallHits(r, rel, k) = Cardinality(A) /\ RecallHits(r, rel, l) = Cardinality(B)
    BY DEF RecallHits
  <2> QED BY <1>6, <2>5, <2>6, FirstFits
<1>7. RecallHits(r, rel, k) <= m
  BY <1>1, <1>3
<1> QED BY <1>2, <1>3, <1>4, <1>5, <1>6, <1>7 DEF Ideal, Agreed

----------------------------------------------------------------------------
\* The inductive invariant.

\* An item is scored by its ground truth, on chunks that do not repeat.
RankingSound(p) ==
  p.scored => /\ IsScored(Golden[p.item])
              /\ \A i, j \in DOMAIN p.ranking : p.ranking[i] = p.ranking[j] => i = j

\* Where the command is, and what there is before and after judging.
Placed ==
  /\ command = "run-retrieval" =>
       /\ selected = Len(Golden) /\ results = <<>> /\ scores = <<>>
       /\ at \in {"retrieve", "report", "failed"}
       /\ Len(ranked) = item /\ (at = "report" => item = selected)
  /\ command # "run-retrieval" => at # "retrieve"
  /\ at \in {"retrieve", "graph"} =>
       valid = 0 /\ score = Unscored /\ scores = <<>> /\ verdicts = <<>> /\ failures = {}

\* At most one result for an item, in the order of the items.
InOrder ==
  /\ \A n \in DOMAIN results : results[n].item <= item
  /\ \A m, n \in DOMAIN results : m < n => results[m].item < results[n].item

\* The result being judged follows the ones that have their scores.
Now == Len(scores) + 1
InTurn ==
  /\ Len(scores) <= Len(verdicts) /\ Len(verdicts) <= Len(results)
  /\ at \in {"cite", "faithful", "relevant"} => Len(verdicts) = Now
  /\ at = "report" => Len(scores) = Len(results)

\* The citations of result n that the judge agreed to, and whether it failed on one.
Supported(n) == {i \in DOMAIN verdicts[n] : verdicts[n][i] = "supports"}
Failed(n) == "failed" \in ToSet(verdicts[n])

\* A verdict is on a citation the judge was to see.
VerdictsSound(n) ==
  /\ Len(verdicts[n]) <= Len(results[n].citations)
  /\ command = "run-generation-eval" =>
       \A i \in Supported(n) : results[n].citations[i] \in results[n].shown
  /\ command = "judge-agreement-report" => "skipped" \notin ToSet(verdicts[n])

\* The citations of a result are done with, and v is what came of them.
CitesConcluded(n, v) ==
  /\ command = "run-generation-eval" =>
       v = IF results[n].citations = <<>> \/ Failed(n) THEN None ELSE {Cardinality(Supported(n))}
  /\ command = "judge-agreement-report" => Len(verdicts[n]) = Len(results[n].citations)

\* A metric has its score wherever it applies and the judge did not fail.
FaithfulnessTold(n, v) ==
  v # None <=> /\ ~results[n].abstained /\ results[n].shown # {}
               /\ <<n, "faithfulness">> \notin failures
RelevancyTold(n, v) ==
  v # None <=> ~results[n].abstained /\ <<n, "relevancy">> \notin failures

\* What is known so far of the result being judged.
Underway ==
  /\ at = "cite" =>
       /\ valid = Cardinality(Supported(Now)) /\ score = Unscored
       /\ command = "run-generation-eval" => ~Failed(Now)
  /\ at \in {"faithful", "relevant"} => CitesConcluded(Now, score.validity)
  /\ at = "relevant" => FaithfulnessTold(Now, score.faithfulness)

\* No judge call has failed that has not been made.
FailuresPast ==
  \A f \in failures : \/ f[1] < Now
                      \/ f = <<Now, "faithfulness">> /\ at \in {"relevant", "failed"}

\* All three scores of result n are what came of it.
Concluded(n) ==
  /\ CitesConcluded(n, scores[n].validity)
  /\ FaithfulnessTold(n, scores[n].faithfulness)
  /\ RelevancyTold(n, scores[n].relevancy)

\* The invariant that every step preserves.
IInv ==
  /\ TypeOK /\ Placed /\ InOrder /\ InTurn /\ Underway /\ FailuresPast
  /\ \A n \in DOMAIN ranked : RankingSound(ranked[n])
  /\ \A n \in DOMAIN verdicts : VerdictsSound(n)
  /\ \A n \in DOMAIN scores : Concluded(n)

\* What may become of a citation.
Verdicts == {"supports", "rejects", "skipped", "failed"}

\* The golden set is a finite sequence, a sample one of its positions.
LEMMA Bounds ==
  /\ Len(Golden) \in Nat /\ Golden \in Seq([out_of_scope : BOOLEAN, relevant : SUBSET Corpus])
  /\ DOMAIN Golden = 1..Len(Golden)
  /\ Len(Golden) \in 0..Len(Golden) /\ 0 \in 0..Len(Golden)
  /\ Samples \subseteq 0..Len(Golden)
<1>1. /\ Len(Golden) \in Nat /\ Golden \in Seq([out_of_scope : BOOLEAN, relevant : SUBSET Corpus])
      /\ DOMAIN Golden = 1..Len(Golden)
  BY EvalAssumption DEF EvalAssumption
<1>2. \A s \in Samples : s \in 1..Len(Golden)
  BY EvalAssumption DEF EvalAssumption
<1>3. \A s \in Samples : s \in 0..Len(Golden)
  BY <1>1, <1>2
<1> QED BY <1>1, <1>3

\* What is retrieved is a sequence of different chunks.
LEMMA RetrievedFacts ==
  ASSUME NEW r \in Retrieved
  PROVE  r \in Seq(Corpus) /\ \A i, j \in DOMAIN r : r[i] = r[j] => i = j
<1> DEFINE N == Len(Gain)
           T == {N - k : k \in KValues}
<1>1. N \in Nat /\ KValues # {} /\ \A k \in KValues : k \in Nat \ {0} /\ k <= N
  BY KFacts, GainFacts, EvalAssumption DEF EvalAssumption
<1>2. MaxK \in Nat
  <2>1. T \subseteq Nat /\ T # {}
    BY <1>1
  <2>2. PICK t \in T : \A y \in T : t <= y
    <3> HIDE DEF T
    <3> QED BY <2>1, LeastNatural
  <2>3. PICK k \in KValues : t = N - k
    BY <2>2
  <2>4. \A l \in KValues : k >= l
    <3> SUFFICES ASSUME NEW l \in KValues PROVE k >= l
      OBVIOUS
    <3>1. t <= N - l
      BY <2>2
    <3> QED BY <1>1, <2>3, <3>1
  <2>5. \E m \in KValues : \A l \in KValues : m >= l
    BY <2>4
  <2>6. Max(KValues) \in KValues
    BY <2>5 DEF Max
  <2> QED BY <1>1, <2>6 DEF MaxK
<1>3. PICK n \in 0..MaxK : r \in [1..n -> Corpus]
  BY DEF Retrieved, SeqOf
<1>4. n \in Nat
  BY <1>2
<1>5. r \in Seq(Corpus)
  BY <1>3, <1>4
<1> QED BY <1>5 DEF Retrieved

\* What a graph run leaves, field by field.
LEMMA OutcomeFacts ==
  ASSUME NEW x \in Results
  PROVE  /\ x.item \in 1..Len(Golden) /\ x.abstained \in BOOLEAN
         /\ x.shown \in SUBSET Corpus /\ IsFiniteSet(x.shown)
         /\ x.citations \in Seq(Pool \cup {Ghost})
<1>1. /\ x.item \in 1..Len(Golden) /\ x.abstained \in BOOLEAN
      /\ x.shown \in SUBSET Pool /\ x.citations \in SeqOf(Pool \cup {Ghost}, MaxCited)
  BY Bounds DEF Results
<1>2. x.shown \in SUBSET Corpus
  BY <1>1, EvalAssumption DEF EvalAssumption
<1>3. IsFiniteSet(x.shown)
  BY <1>2, KFacts, FS_Subset
<1>4. PICK n \in 0..MaxCited : x.citations \in [1..n -> Pool \cup {Ghost}]
  BY <1>1 DEF SeqOf
<1>5. n \in Nat
  BY <1>4, EvalAssumption DEF EvalAssumption
<1>6. x.citations \in Seq(Pool \cup {Ghost})
  BY <1>4, <1>5
<1> QED BY <1>1, <1>2, <1>3, <1>6

\* The verdict is added to the ones on the result being judged.
LEMMA NoteFacts ==
  ASSUME verdicts \in Seq(Seq(Verdicts)), Len(verdicts) \in DOMAIN verdicts,
         NEW what \in Verdicts, Note(what)
  PROVE  /\ verdicts' \in Seq(Seq(Verdicts)) /\ Len(verdicts') = Len(verdicts)
         /\ \A n \in DOMAIN verdicts : n # Len(verdicts) => verdicts'[n] = verdicts[n]
         /\ verdicts'[Len(verdicts)] = Append(verdicts[Len(verdicts)], what)
<1>1. verdicts[Len(verdicts)] \in Seq(Verdicts)
  OBVIOUS
<1>2. Append(verdicts[Len(verdicts)], what) \in Seq(Verdicts)
  BY <1>1
<1>3. verdicts' = [verdicts EXCEPT ![Len(verdicts)] = Append(verdicts[Len(verdicts)], what)]
  BY DEF Note
<1> QED BY <1>2, <1>3

\* Each command begins with nothing ranked, answered or judged.
LEMMA InitSound == Init => IInv
<1> SUFFICES ASSUME Init PROVE IInv
  OBVIOUS
<1> USE DEF Init
<1>1. TypeOK
  <2>1. selected \in 0..Len(Golden)
    <3>1. selected = Len(Golden) \/ selected \in Samples
      OBVIOUS
    <3> HIDE DEF Init
    <3> QED BY <3>1, Bounds, Zenon
  <2>2. score \in Scores
    BY DEF Scores, Unscored, None
  <2>3. at \in {"retrieve", "graph", "cite", "faithful", "relevant", "report", "failed"}
    OBVIOUS
  <2>4. item \in 0..Len(Golden)
    BY Bounds
  <2>5. /\ ranked \in Seq([item : DOMAIN Golden, scored : BOOLEAN, ranking : Seq(Corpus)])
        /\ results \in Seq(Results) /\ scores \in Seq(Scores) /\ valid \in Nat
        /\ verdicts \in Seq(Seq({"supports", "rejects", "skipped", "failed"}))
    OBVIOUS
  <2> QED BY <2>1, <2>2, <2>3, <2>4, <2>5 DEF TypeOK
<1>2. Placed
  BY DEF Placed, Commands
<1>3. InOrder /\ InTurn /\ FailuresPast
  BY DEF InOrder, InTurn, FailuresPast
<1>4. Underway
  BY DEF Underway
<1> QED BY <1>1, <1>2, <1>3, <1>4 DEF IInv

----------------------------------------------------------------------------
\* run-retrieval

\* An item is ranked or excluded, and nothing else touched.
LEMMA ScoreRetrievalStep == IInv /\ ScoreRetrieval => IInv'
<1> SUFFICES ASSUME IInv, ScoreRetrieval PROVE IInv'
  OBVIOUS
<1> DEFINE g == Golden[item']
<1>1. /\ at = "retrieve" /\ item < selected /\ item' = item + 1
      /\ UNCHANGED <<command, selected, at, results, valid, score, scores, verdicts, failures>>
  BY DEF ScoreRetrieval, judging
<1>2. TypeOK /\ Placed /\ InOrder /\ InTurn /\ Underway /\ FailuresPast
  BY DEF IInv
<1>3. item \in Nat /\ item' \in 1..Len(Golden) /\ command = "run-retrieval"
  <2>1. command = "run-retrieval"
    BY <1>1, <1>2 DEF Placed
  <2>2. item \in 0..Len(Golden) /\ selected \in 0..Len(Golden)
    BY <1>2 DEF TypeOK
  <2> QED BY <1>1, <2>1, <2>2, Bounds
<1>4. \E p \in [item : DOMAIN Golden, scored : BOOLEAN, ranking : Seq(Corpus)] :
        ranked' = Append(ranked, p) /\ RankingSound(p)
  <2>1. CASE IsScored(g)
    <3>1. PICK r \in Retrieved :
            ranked' = Append(ranked, [item |-> item', scored |-> TRUE, ranking |-> r])
      BY <2>1 DEF ScoreRetrieval
    <3> DEFINE p == [item |-> item', scored |-> TRUE, ranking |-> r]
    <3>2. r \in Seq(Corpus) /\ \A i, j \in DOMAIN r : r[i] = r[j] => i = j
      BY RetrievedFacts
    <3>3. p \in [item : DOMAIN Golden, scored : BOOLEAN, ranking : Seq(Corpus)]
      BY <1>3, <3>2, Bounds
    <3>4. RankingSound(p)
      BY <2>1, <3>2 DEF RankingSound
    <3> QED BY <3>1, <3>3, <3>4
  <2>2. CASE ~IsScored(g)
    <3> DEFINE p == [item |-> item', scored |-> FALSE, ranking |-> <<>>]
    <3>1. ranked' = Append(ranked, p)
      BY <2>2 DEF ScoreRetrieval
    <3>2. p \in [item : DOMAIN Golden, scored : BOOLEAN, ranking : Seq(Corpus)]
      BY <1>3, Bounds
    <3>3. RankingSound(p)
      BY DEF RankingSound
    <3> QED BY <3>1, <3>2, <3>3
  <2> QED BY <2>1, <2>2
<1>5. PICK p \in [item : DOMAIN Golden, scored : BOOLEAN, ranking : Seq(Corpus)] :
        ranked' = Append(ranked, p) /\ RankingSound(p)
  BY <1>4
<1>6. ranked \in Seq([item : DOMAIN Golden, scored : BOOLEAN, ranking : Seq(Corpus)])
  BY <1>2 DEF TypeOK
<1>7. /\ ranked' \in Seq([item : DOMAIN Golden, scored : BOOLEAN, ranking : Seq(Corpus)])
      /\ Len(ranked') = Len(ranked) + 1
  BY <1>5, <1>6
<1>8. \A n \in DOMAIN ranked' : RankingSound(ranked'[n])
  BY <1>5, <1>6 DEF IInv
<1>9. TypeOK'
  BY <1>1, <1>2, <1>3, <1>7 DEF TypeOK
<1>10. Placed'
  BY <1>1, <1>2, <1>3, <1>7 DEF Placed
<1>11. InOrder' /\ InTurn' /\ Underway' /\ FailuresPast'
  <2>1. results = <<>> /\ scores = <<>>
    BY <1>2, <1>3 DEF Placed
  <2>2. InOrder'
    BY <1>1, <2>1 DEF InOrder
  <2>3. InTurn'
    BY <1>1, <1>2 DEF InTurn, Now
  <2>4. Underway' /\ FailuresPast'
    BY <1>1, <1>2 DEF Underway, FailuresPast, Now
  <2> QED BY <2>2, <2>3, <2>4
<1>12. (\A n \in DOMAIN verdicts : VerdictsSound(n))'
  BY <1>1 DEF IInv, VerdictsSound, Supported
<1>13. (\A n \in DOMAIN scores : Concluded(n))'
  BY <1>1, <1>2, <1>3 DEF Placed
<1>14. (\A n \in DOMAIN ranked : RankingSound(ranked[n]))'
  BY <1>8 DEF RankingSound
<1> QED BY <1>9, <1>10, <1>11, <1>12, <1>13, <1>14 DEF IInv

\* What has been judged stays judged as long as nothing about it changes.
LEMMA StillSound ==
  ASSUME IInv, UNCHANGED <<command, results, ranked, scores, verdicts, failures>>
  PROVE  /\ (\A n \in DOMAIN ranked : RankingSound(ranked[n]))'
         /\ (\A n \in DOMAIN verdicts : VerdictsSound(n))'
         /\ (\A n \in DOMAIN scores : Concluded(n))'
<1>1. (\A n \in DOMAIN ranked : RankingSound(ranked[n]))'
  BY DEF IInv, RankingSound
<1>2. (\A n \in DOMAIN verdicts : VerdictsSound(n))'
  BY DEF IInv, VerdictsSound, Supported
<1>3. \A n : Concluded(n)' <=> Concluded(n)
  BY DEF Concluded, CitesConcluded, FaithfulnessTold, RelevancyTold, Supported, Failed
<1>4. (\A n \in DOMAIN scores : Concluded(n))'
  BY <1>3 DEF IInv
<1> QED BY <1>1, <1>2, <1>4

\* The retrieval report has no results to judge.
LEMMA FinishRetrievalStep == IInv /\ FinishRetrieval => IInv'
<1> SUFFICES ASSUME IInv, FinishRetrieval PROVE IInv'
  OBVIOUS
<1>1. /\ at = "retrieve" /\ item = selected /\ at' = "report"
      /\ UNCHANGED <<command, selected, item, ranked, results, valid, score, scores,
                     verdicts, failures>>
  BY DEF FinishRetrieval, judging
<1>2. TypeOK /\ Placed /\ InOrder /\ InTurn /\ Underway /\ FailuresPast
  BY DEF IInv
<1>3. command = "run-retrieval" /\ results = <<>> /\ scores = <<>> /\ failures = {}
  BY <1>1, <1>2 DEF Placed
<1>4. TypeOK'
  BY <1>1, <1>2 DEF TypeOK
<1>5. Placed'
  BY <1>1, <1>2, <1>3 DEF Placed
<1>6. InOrder' /\ InTurn' /\ Underway' /\ FailuresPast'
  <2>1. InOrder' /\ FailuresPast'
    BY <1>1, <1>3 DEF InOrder, FailuresPast
  <2>2. InTurn'
    BY <1>1, <1>2, <1>3 DEF InTurn, Now
  <2>3. Underway'
    BY <1>1 DEF Underway
  <2> QED BY <2>1, <2>2, <2>3
<1> QED BY <1>1, <1>4, <1>5, <1>6, StillSound DEF IInv

\* A command that ends without a report leaves what it had.
LEMMA AbortStep == IInv /\ Abort => IInv'
<1> SUFFICES ASSUME IInv, Abort PROVE IInv'
  OBVIOUS
<1>1. /\ at' = "failed"
      /\ UNCHANGED <<command, selected, item, ranked, results, valid, score, scores,
                     verdicts, failures>>
  BY DEF Abort, judging
<1>2. TypeOK /\ Placed /\ InOrder /\ InTurn /\ Underway /\ FailuresPast
  BY DEF IInv
<1>3. TypeOK' /\ Placed'
  BY <1>1, <1>2 DEF TypeOK, Placed
<1>4. InOrder' /\ InTurn' /\ Underway'
  BY <1>1, <1>2 DEF InOrder, InTurn, Underway, Now
<1>5. FailuresPast'
  BY <1>1, <1>2 DEF FailuresPast, Now
<1> QED BY <1>1, <1>3, <1>4, <1>5, StillSound DEF IInv

----------------------------------------------------------------------------
\* run_golden_set_through_graph

\* A run gives one result for its item, after all others, or none.
LEMMA RunGraphStep == IInv /\ RunGraph => IInv'
<1> SUFFICES ASSUME IInv, RunGraph PROVE IInv'
  OBVIOUS
<1>1. /\ at = "graph" /\ item < selected /\ item' = item + 1
      /\ UNCHANGED <<command, selected, at, ranked, valid, score, scores, verdicts, failures>>
  BY DEF RunGraph, judging
<1>2. TypeOK /\ Placed /\ InOrder /\ InTurn /\ Underway /\ FailuresPast
  BY DEF IInv
<1>3. /\ command # "run-retrieval" /\ valid = 0 /\ score = Unscored
      /\ scores = <<>> /\ verdicts = <<>> /\ failures = {}
  BY <1>1, <1>2 DEF Placed
<1>4. item \in Nat /\ item' \in 0..Len(Golden) /\ results \in Seq(Results)
  <2>1. item \in 0..Len(Golden) /\ selected \in 0..Len(Golden) /\ results \in Seq(Results)
    BY <1>2 DEF TypeOK
  <2> QED BY <1>1, <2>1, Bounds
<1>5. results' \in Seq(Results) /\ InOrder' /\ Len(results') >= Len(results)
  <2>1. CASE UNCHANGED results
    <3>1. \A n \in DOMAIN results : results[n].item \in Nat
      BY <1>4, OutcomeFacts, Bounds
    <3>2. \A n \in DOMAIN results : results[n].item <= item'
      BY <1>1, <1>2, <1>4, <3>1 DEF InOrder
    <3> QED BY <1>2, <1>4, <2>1, <3>2 DEF InOrder
  <2>2. CASE \E x \in Outcomes : results' = Append(results, x)
    <3>1. PICK x \in Outcomes : results' = Append(results, x)
      BY <2>2
    <3>2. x \in Results /\ x.item = item'
      BY <1>1 DEF Outcomes
    <3>3. \A n \in DOMAIN results : results[n].item \in Nat
      BY <1>4, OutcomeFacts, Bounds
    <3>4. /\ results' \in Seq(Results) /\ DOMAIN results' = 1..Len(results) + 1
          /\ DOMAIN results = 1..Len(results)
          /\ results'[Len(results) + 1] = x /\ Len(results') = Len(results) + 1
          /\ \A n \in 1..Len(results) : results'[n] = results[n]
      BY <1>4, <3>1, <3>2
    <3>5. \A n \in DOMAIN results : results[n].item < item'
      BY <1>1, <1>2, <1>4, <3>3 DEF InOrder
    <3>6. \A n \in DOMAIN results' : results'[n].item <= item'
      BY <1>4, <3>2, <3>3, <3>4, <3>5
    <3>7. \A m, n \in DOMAIN results' : m < n => results'[m].item < results'[n].item
      <4> SUFFICES ASSUME NEW m \in DOMAIN results', NEW n \in DOMAIN results', m < n
                   PROVE  results'[m].item < results'[n].item
        OBVIOUS
      <4>1. m \in DOMAIN results /\ results'[m] = results[m]
        BY <3>4
      <4>2. CASE n = Len(results) + 1
        BY <3>2, <3>4, <3>5, <4>1, <4>2
      <4>3. CASE n # Len(results) + 1
        <5>1. n \in DOMAIN results /\ results'[n] = results[n]
          BY <3>4, <4>3
        <5> QED BY <1>2, <4>1, <5>1 DEF InOrder
      <4> QED BY <4>2, <4>3
    <3> QED BY <3>4, <3>6, <3>7 DEF InOrder
  <2> QED BY <2>1, <2>2 DEF RunGraph
<1>6. TypeOK'
  BY <1>1, <1>2, <1>4, <1>5 DEF TypeOK
<1>7. Placed' /\ Underway' /\ FailuresPast'
  BY <1>1, <1>3 DEF Placed, Underway, FailuresPast
<1>8. InTurn'
  <2>1. Len(verdicts) = 0 /\ Len(scores) = 0 /\ Len(results') >= 0
    BY <1>3, <1>5
  <2> QED BY <1>1, <2>1 DEF InTurn
<1>9. (\A n \in DOMAIN ranked : RankingSound(ranked[n]))'
  BY <1>1 DEF IInv, RankingSound
<1>10. (\A n \in DOMAIN verdicts : VerdictsSound(n))' /\ (\A n \in DOMAIN scores : Concluded(n))'
  BY <1>1, <1>3
<1> QED BY <1>5, <1>6, <1>7, <1>8, <1>9, <1>10 DEF IInv

\* Judging begins with the first result, of which nothing is known.
LEMMA StartJudgingStep == IInv /\ StartJudging => IInv'
<1> SUFFICES ASSUME IInv, StartJudging PROVE IInv'
  OBVIOUS
<1>1. /\ at = "graph"
      /\ UNCHANGED <<command, selected, item, ranked, results, valid, score, scores, failures>>
  BY DEF StartJudging
<1>2. TypeOK /\ Placed /\ InOrder /\ InTurn /\ Underway /\ FailuresPast
  BY DEF IInv
<1>3. /\ command # "run-retrieval" /\ valid = 0 /\ score = Unscored
      /\ scores = <<>> /\ verdicts = <<>> /\ failures = {}
  BY <1>1, <1>2 DEF Placed
<1>4. results \in Seq(Results)
  BY <1>2 DEF TypeOK
<1>5. InOrder' /\ FailuresPast'
  BY <1>1, <1>2, <1>3 DEF InOrder, FailuresPast
<1>6. (\A n \in DOMAIN ranked : RankingSound(ranked[n]))'
  BY <1>1 DEF IInv, RankingSound
<1>7. (\A n \in DOMAIN scores : Concluded(n))'
  BY <1>1, <1>3
<1>8. CASE results = <<>>
  <2>1. at' = "report" /\ UNCHANGED verdicts
    BY <1>8 DEF StartJudging
  <2>2. TypeOK' /\ Placed' /\ Underway'
    BY <1>1, <1>2, <1>3, <2>1 DEF TypeOK, Placed, Underway
  <2>3. InTurn'
    BY <1>1, <1>3, <1>8, <2>1 DEF InTurn
  <2>4. (\A n \in DOMAIN verdicts : VerdictsSound(n))'
    BY <1>3, <2>1
  <2> QED BY <1>5, <1>6, <1>7, <2>2, <2>3, <2>4 DEF IInv
<1>9. CASE results # <<>>
  <2>1. at' = "cite" /\ verdicts' = <<<<>>>>
    BY <1>9 DEF StartJudging
  <2>2. verdicts' \in Seq(Seq(Verdicts)) /\ Len(verdicts') = 1 /\ verdicts'[1] = <<>>
    BY <2>1
  <2>3. TypeOK' /\ Placed'
    BY <1>1, <1>2, <1>3, <2>1, <2>2 DEF TypeOK, Placed, Verdicts
  <2>4. Now' = 1
    BY <1>1, <1>3 DEF Now
  <2>5. Supported(1)' = {} /\ ~Failed(1)'
    BY <2>2 DEF Supported, Failed, ToSet
  <2>6. Underway'
    BY <1>1, <1>3, <2>1, <2>4, <2>5, FS_EmptySet DEF Underway
  <2>7. Len(results) >= 1 /\ 1 \in DOMAIN results
    BY <1>4, <1>9
  <2>8. InTurn'
    <3>1. Len(scores') = 0 /\ Len(verdicts') = 1 /\ Len(results') >= 1
      BY <1>1, <1>3, <2>2, <2>7
    <3> QED BY <2>1, <2>4, <3>1 DEF InTurn
  <2>9. VerdictsSound(1)'
    <3>1. results[1].citations \in Seq(Pool \cup {Ghost})
      BY <1>4, <2>7, OutcomeFacts
    <3>2. Len(verdicts'[1]) = 0 /\ Len(results[1].citations) >= 0
      BY <2>2, <3>1
    <3>3. "skipped" \notin ToSet(verdicts'[1])
      BY <2>2 DEF ToSet
    <3> QED BY <1>1, <2>5, <3>2, <3>3 DEF VerdictsSound
  <2>10. (\A n \in DOMAIN verdicts : VerdictsSound(n))'
    <3>1. DOMAIN verdicts' = {1}
      BY <2>1
    <3> QED BY <2>9, <3>1
  <2> QED BY <1>5, <1>6, <1>7, <2>3, <2>6, <2>8, <2>10 DEF IInv
<1> QED BY <1>8, <1>9

----------------------------------------------------------------------------
\* Judging

\* What is known while a result is being judged.
LEMMA InHand ==
  ASSUME IInv, at \in {"cite", "faithful", "relevant"}
  PROVE  /\ command \in {"run-generation-eval", "judge-agreement-report"}
         /\ verdicts \in Seq(Seq(Verdicts)) /\ results \in Seq(Results) /\ scores \in Seq(Scores)
         /\ Len(verdicts) = Now /\ Now \in DOMAIN verdicts /\ Now \in DOMAIN results
         /\ Now = Len(scores) + 1 /\ Now \notin DOMAIN scores
         /\ This = results[Now] /\ Last(verdicts) = verdicts[Now]
         /\ verdicts[Now] \in Seq(Verdicts) /\ This.citations \in Seq(Pool \cup {Ghost})
         /\ VerdictsSound(Now)
<1>1. TypeOK /\ Placed /\ InTurn
  BY DEF IInv
<1>2. command \in {"run-generation-eval", "judge-agreement-report"}
  <2>1. command \in {"run-retrieval", "run-generation-eval", "judge-agreement-report"}
    BY <1>1 DEF TypeOK, Commands
  <2> QED BY <1>1, <2>1 DEF Placed
<1>3. verdicts \in Seq(Seq(Verdicts)) /\ results \in Seq(Results) /\ scores \in Seq(Scores)
  BY <1>1 DEF TypeOK, Verdicts
<1>4. Len(verdicts) = Now /\ Now <= Len(results) /\ Now = Len(scores) + 1
  BY <1>1 DEF InTurn, Now
<1>5. Now \in DOMAIN verdicts /\ Now \in DOMAIN results /\ Now \notin DOMAIN scores
  BY <1>3, <1>4
<1>6. This = results[Now] /\ Last(verdicts) = verdicts[Now]
  BY <1>4 DEF This, Last, Now
<1>7. verdicts[Now] \in Seq(Verdicts) /\ This.citations \in Seq(Pool \cup {Ghost})
  BY <1>3, <1>5, <1>6, OutcomeFacts
<1>8. VerdictsSound(Now)
  BY <1>5 DEF IInv
<1> QED BY <1>2, <1>3, <1>4, <1>5, <1>6, <1>7, <1>8

\* A verdict that may be given leaves what was judged before as it was.
LEMMA VerdictGiven ==
  ASSUME IInv, at = "cite", ~AllCited, NEW what \in Verdicts, Note(what),
         UNCHANGED <<command, results, ranked, scores, failures>>,
         what = "skipped" => command # "judge-agreement-report",
         what = "supports" /\ command = "run-generation-eval" => Cited \in This.shown
  PROVE  /\ verdicts' \in Seq(Seq(Verdicts)) /\ Len(verdicts') = Len(verdicts)
         /\ Cardinality(Supported(Now))' =
              Cardinality(Supported(Now)) + IF what = "supports" THEN 1 ELSE 0
         /\ Failed(Now)' <=> Failed(Now) \/ what = "failed"
         /\ (\A n \in DOMAIN ranked : RankingSound(ranked[n]))'
         /\ (\A n \in DOMAIN verdicts : VerdictsSound(n))'
         /\ (\A n \in DOMAIN scores : Concluded(n))'
<1>1. PICK m : m = Now
  OBVIOUS
<1> DEFINE v == verdicts[m]
           w == verdicts'[m]
           c == Len(v) + 1
<1>2. /\ verdicts \in Seq(Seq(Verdicts)) /\ scores \in Seq(Scores)
      /\ Len(verdicts) = m /\ m \in DOMAIN verdicts /\ m \notin DOMAIN scores
      /\ v \in Seq(Verdicts) /\ VerdictsSound(m) /\ m = Len(scores) + 1
  BY <1>1, InHand
<1>3. /\ verdicts' \in Seq(Seq(Verdicts)) /\ Len(verdicts') = Len(verdicts)
      /\ \A n \in DOMAIN verdicts : n # m => verdicts'[n] = verdicts[n]
      /\ w = Append(v, what)
  BY <1>2, NoteFacts
<1>4. /\ This = results[m] /\ Cited = results[m].citations[c] /\ Len(v) # Len(results[m].citations)
      /\ results[m].citations \in Seq(Pool \cup {Ghost})
  BY <1>1, InHand DEF AllCited, Cited
<1>5. Now' = m
  BY <1>1 DEF Now
<1>6. DOMAIN v = 1..Len(v) /\ DOMAIN w = 1..c /\ Len(w) = c /\ c \in Nat /\ Len(v) \in Nat
      /\ w[c] = what /\ \A i \in 1..Len(v) : w[i] = v[i]
  BY <1>2, <1>3
<1> HIDE DEF w, c
<1>7. /\ {i \in DOMAIN w : w[i] = "supports"} =
           {i \in DOMAIN v : v[i] = "supports"} \cup IF what = "supports" THEN {c} ELSE {}
      /\ c \notin DOMAIN v
  <2>1. \A i : i \in DOMAIN w <=> i \in DOMAIN v \/ i = c
    BY <1>6 DEF c
  <2>2. c \notin DOMAIN v
    BY <1>6 DEF c
  <2> QED BY <1>6, <2>1, <2>2
<1>8. Supported(m) = {i \in DOMAIN v : v[i] = "supports"}
      /\ Supported(m)' = {i \in DOMAIN w : w[i] = "supports"}
  BY DEF Supported, w
<1>9. IsFiniteSet(Supported(m)) /\ c \notin Supported(m)
  <2>1. IsFiniteSet(1..Len(v))
    BY <1>6, FS_Interval
  <2>2. Supported(m) \in SUBSET (1..Len(v))
    BY <1>6, <1>8
  <2> QED BY <1>7, <1>8, <2>1, <2>2, FS_Subset
<1>10. /\ what = "supports" => Cardinality(Supported(m)') = Cardinality(Supported(m)) + 1
       /\ what # "supports" => Supported(m)' = Supported(m)
       /\ Cardinality(Supported(m)) \in Nat
  <2>1. Supported(m)' = Supported(m) \cup IF what = "supports" THEN {c} ELSE {}
    BY <1>7, <1>8
  <2>2. Cardinality(Supported(m)) \in Nat
    BY <1>9, FS_CardinalityType
  <2>3. CASE what = "supports"
    <3>1. Supported(m)' = Supported(m) \cup {c}
      BY <2>1, <2>3
    <3>2. Cardinality(Supported(m) \cup {c}) = Cardinality(Supported(m)) + 1
      BY <1>9, FS_AddElement
    <3> QED BY <2>2, <2>3, <3>1, <3>2
  <2>4. CASE what # "supports"
    BY <2>1, <2>2, <2>4
  <2> QED BY <2>3, <2>4
<1>11. Cardinality(Supported(m)') = Cardinality(Supported(m)) + IF what = "supports" THEN 1 ELSE 0
  BY <1>10
<1>12. ToSet(w) = ToSet(v) \cup {what}
  <2>1. \A i : i \in DOMAIN w <=> i \in DOMAIN v \/ i = c
    BY <1>6 DEF c
  <2> QED BY <1>6, <2>1 DEF ToSet
<1>13. Failed(m)' <=> Failed(m) \/ what = "failed"
  BY <1>12 DEF Failed, w
<1>14. VerdictsSound(m)'
  <2>1. Len(v) <= Len(results[m].citations)
    BY <1>2 DEF VerdictsSound
  <2>2. c <= Len(results[m].citations)
    BY <1>4, <1>6, <2>1 DEF c
  <2>3. ASSUME command = "run-generation-eval", NEW i \in Supported(m)'
        PROVE  results[m].citations[i] \in results[m].shown
    <3>1. CASE i \in Supported(m)
      BY <1>2, <2>3, <3>1 DEF VerdictsSound
    <3>2. CASE i \notin Supported(m)
      <4>1. i = c /\ what = "supports"
        BY <1>7, <1>8, <2>3, <3>2
      <4> QED BY <1>4, <2>3, <4>1
    <3> QED BY <3>1, <3>2
  <2>4. command = "judge-agreement-report" => "skipped" \notin ToSet(w)
    BY <1>2, <1>12 DEF VerdictsSound
  <2>5. Len(w) <= Len(results[m].citations)
    BY <1>6, <2>2
  <2> QED BY <2>3, <2>4, <2>5 DEF VerdictsSound, w
<1>15. ASSUME NEW n \in DOMAIN verdicts, n # m
       PROVE  VerdictsSound(n)' /\ (Concluded(n)' <=> Concluded(n))
  <2>1. verdicts'[n] = verdicts[n]
    BY <1>3, <1>15
  <2>2. Supported(n)' = Supported(n) /\ (Failed(n)' <=> Failed(n))
    BY <2>1 DEF Supported, Failed
  <2>3. VerdictsSound(n)
    BY DEF IInv
  <2>4. VerdictsSound(n)'
    BY <2>1, <2>2, <2>3 DEF VerdictsSound
  <2>5. Concluded(n)' <=> Concluded(n)
    BY <2>1, <2>2 DEF Concluded, CitesConcluded, FaithfulnessTold, RelevancyTold
  <2> QED BY <2>4, <2>5
<1>16. DOMAIN verdicts' = DOMAIN verdicts /\ DOMAIN scores \subseteq DOMAIN verdicts
  <2>1. Len(scores) \in Nat /\ DOMAIN scores = 1..Len(scores) /\ DOMAIN verdicts = 1..m
    BY <1>2
  <2>2. DOMAIN verdicts' = 1..Len(verdicts')
    BY <1>3
  <2> QED BY <1>2, <1>3, <2>1, <2>2
<1>17. (\A n \in DOMAIN verdicts : VerdictsSound(n))'
  BY <1>14, <1>15, <1>16
<1>18. (\A n \in DOMAIN scores : Concluded(n))'
  <2>1. \A n \in DOMAIN scores : Concluded(n)
    BY DEF IInv
  <2> QED BY <1>2, <1>15, <1>16, <2>1
<1>19. (\A n \in DOMAIN ranked : RankingSound(ranked[n]))'
  BY DEF IInv, RankingSound
<1>20. Supported(Now)' = Supported(m)' /\ (Failed(Now)' <=> Failed(m)')
  BY <1>5 DEF Supported, Failed
<1> QED BY <1>1, <1>3, <1>11, <1>13, <1>17, <1>18, <1>19, <1>20

\* One citation is dealt with; only a scorecard gives up on a failure.
LEMMA JudgeCitationStep == IInv /\ JudgeCitation => IInv'
<1> SUFFICES ASSUME IInv, JudgeCitation PROVE IInv'
  OBVIOUS
<1>1. /\ at = "cite" /\ ~AllCited
      /\ UNCHANGED <<command, selected, item, ranked, results, scores, failures>>
  BY DEF JudgeCitation
<1>2. TypeOK /\ Placed /\ InOrder /\ InTurn /\ Underway /\ FailuresPast
  BY DEF IInv
<1>3. /\ valid = Cardinality(Supported(Now)) /\ score = Unscored
      /\ command = "run-generation-eval" => ~Failed(Now)
      /\ Now' = Now
  BY <1>1, <1>2 DEF Underway, Now
<1>4. /\ command \in {"run-generation-eval", "judge-agreement-report"}
      /\ Len(verdicts) = Now
  BY <1>1, InHand
<1>5. PICK what \in Verdicts :
        /\ Note(what)
        /\ what = "skipped" => command # "judge-agreement-report"
        /\ what = "supports" /\ command = "run-generation-eval" => Cited \in This.shown
        /\ valid' = valid + IF what = "supports" THEN 1 ELSE 0
        /\ IF what = "failed" /\ command # "judge-agreement-report"
             THEN at' = "faithful" /\ score' = [score EXCEPT !.validity = FailedScore]
             ELSE UNCHANGED <<at, score>>
  <2>1. valid \in Nat
    BY <1>2 DEF TypeOK
  <2>2. CASE ~Judgeable /\ Note("skipped") /\ UNCHANGED <<at, valid, score>>
    BY <2>1, <2>2 DEF Judgeable, Verdicts
  <2>3. CASE Judgeable /\ Note("supports") /\ valid' = valid + 1 /\ UNCHANGED <<at, score>>
    <3>1. command = "run-generation-eval" => Cited \in This.shown
      BY <2>3 DEF Judgeable
    <3> QED BY <2>3, <3>1 DEF Verdicts
  <2>4. CASE Judgeable /\ Note("rejects") /\ UNCHANGED valid /\ UNCHANGED <<at, score>>
    BY <2>1, <2>4 DEF Verdicts
  <2>5. CASE /\ Judgeable /\ Note("failed") /\ UNCHANGED valid
             /\ IF command = "judge-agreement-report"
                  THEN UNCHANGED <<at, score>>
                  ELSE at' = "faithful" /\ score' = [score EXCEPT !.validity = FailedScore]
    BY <2>1, <2>5 DEF Verdicts
  <2> QED BY <2>2, <2>3, <2>4, <2>5 DEF JudgeCitation
<1>6. /\ verdicts' \in Seq(Seq(Verdicts)) /\ Len(verdicts') = Len(verdicts)
      /\ Cardinality(Supported(Now))' =
           Cardinality(Supported(Now)) + IF what = "supports" THEN 1 ELSE 0
      /\ Failed(Now)' <=> Failed(Now) \/ what = "failed"
      /\ (\A n \in DOMAIN ranked : RankingSound(ranked[n]))'
      /\ (\A n \in DOMAIN verdicts : VerdictsSound(n))'
      /\ (\A n \in DOMAIN scores : Concluded(n))'
  BY <1>1, <1>5, VerdictGiven
<1>7. score' \in Scores /\ valid' \in Nat
  <2>1. valid \in Nat /\ score \in Scores
    BY <1>2 DEF TypeOK
  <2>2. [score EXCEPT !.validity = FailedScore] \in Scores
    BY <2>1 DEF Scores, FailedScore, None
  <2> QED BY <1>5, <2>1, <2>2
<1>8. at' \in {"cite", "faithful"}
  BY <1>1, <1>5
<1>9. TypeOK'
  BY <1>1, <1>2, <1>6, <1>7, <1>8 DEF TypeOK, Verdicts
<1>10. Placed' /\ InOrder'
  BY <1>1, <1>2, <1>4, <1>8 DEF Placed, InOrder
<1>11. InTurn'
  BY <1>1, <1>2, <1>3, <1>4, <1>6, <1>8 DEF InTurn
<1>12. FailuresPast'
  <2>1. \A f \in failures : f[1] < Now
    BY <1>1, <1>2 DEF FailuresPast
  <2> QED BY <1>1, <1>3, <2>1 DEF FailuresPast
<1>13. Underway'
  <2>1. CASE what = "failed" /\ command # "judge-agreement-report"
    <3>1. at' = "faithful" /\ score' = [score EXCEPT !.validity = FailedScore]
      BY <1>5, <2>1
    <3>2. score'.validity = None
      BY <1>3, <3>1 DEF FailedScore, Unscored
    <3>3. Failed(Now)'
      BY <1>6, <2>1
    <3>4. CitesConcluded(Now, score.validity)'
      BY <1>1, <2>1, <3>2, <3>3 DEF CitesConcluded
    <3> QED BY <3>1, <3>4 DEF Underway
  <2>2. CASE ~(what = "failed" /\ command # "judge-agreement-report")
    <3>1. UNCHANGED <<at, score>>
      BY <1>5, <2>2
    <3>2. command = "run-generation-eval" => ~Failed(Now)'
      BY <1>3, <1>6, <2>2
    <3>3. valid' = Cardinality(Supported(Now))'
      BY <1>3, <1>5, <1>6
    <3> QED BY <1>1, <1>3, <3>1, <3>2, <3>3 DEF Underway
  <2> QED BY <2>1, <2>2
<1> QED BY <1>6, <1>9, <1>10, <1>11, <1>12, <1>13 DEF IInv

\* With every citation dealt with, the count is the score.
LEMMA CitationValidityStep == IInv /\ CitationValidity => IInv'
<1> SUFFICES ASSUME IInv, CitationValidity PROVE IInv'
  OBVIOUS
<1> DEFINE v == IF This.citations = <<>> \/ command = "judge-agreement-report"
                  THEN None ELSE {valid}
<1>1. /\ at = "cite" /\ AllCited /\ at' = "faithful"
      /\ score' = [score EXCEPT !.validity = v]
      /\ UNCHANGED <<command, selected, item, ranked, results, valid, scores, verdicts, failures>>
  BY DEF CitationValidity
<1>2. TypeOK /\ Placed /\ InOrder /\ InTurn /\ Underway /\ FailuresPast
  BY DEF IInv
<1>3. /\ valid = Cardinality(Supported(Now)) /\ score = Unscored
      /\ command = "run-generation-eval" => ~Failed(Now)
      /\ Now' = Now
  BY <1>1, <1>2 DEF Underway, Now
<1>4. /\ command \in {"run-generation-eval", "judge-agreement-report"}
      /\ This = results[Now] /\ Last(verdicts) = verdicts[Now]
  BY <1>1, InHand
<1>5. score' \in Scores /\ score'.validity = v
  <2>1. valid \in Nat /\ score \in Scores
    BY <1>2 DEF TypeOK
  <2>2. v \in SUBSET Nat
    BY <2>1 DEF None
  <2> HIDE DEF v
  <2> QED BY <1>1, <2>1, <2>2 DEF Scores
<1>6. TypeOK'
  BY <1>1, <1>2, <1>5 DEF TypeOK
<1>7. Placed' /\ InOrder' /\ InTurn'
  <2>1. Placed' /\ InOrder'
    BY <1>1, <1>2, <1>4 DEF Placed, InOrder
  <2>2. InTurn'
    BY <1>1, <1>2, <1>3 DEF InTurn
  <2> QED BY <2>1, <2>2
<1>8. FailuresPast'
  <2>1. \A f \in failures : f[1] < Now
    BY <1>1, <1>2 DEF FailuresPast
  <2> QED BY <1>1, <1>3, <2>1 DEF FailuresPast
<1>9. CitesConcluded(Now, v)
  <2>1. Len(verdicts[Now]) = Len(results[Now].citations)
    BY <1>1, <1>4 DEF AllCited
  <2>2. command = "run-generation-eval" =>
          v = IF results[Now].citations = <<>> \/ Failed(Now)
                THEN None ELSE {Cardinality(Supported(Now))}
    BY <1>3, <1>4
  <2> QED BY <2>1, <2>2 DEF CitesConcluded
<1>10. CitesConcluded(Now, score.validity)'
  <2> HIDE DEF v
  <2>1. Supported(Now)' = Supported(Now) /\ (Failed(Now)' <=> Failed(Now))
    BY <1>1, <1>3 DEF Supported, Failed
  <2> QED BY <1>1, <1>3, <1>5, <1>9, <2>1 DEF CitesConcluded
<1>11. Underway'
  BY <1>1, <1>10 DEF Underway
<1> QED BY <1>1, <1>6, <1>7, <1>8, <1>11, StillSound DEF IInv

\* The metric has a score exactly where it applies and no failure is noted.
LEMMA MeasureFacts ==
  ASSUME NEW metric \in {"faithfulness", "relevancy"}, NEW applies \in BOOLEAN,
         NEW v, Measure(metric, applies, v)
  PROVE  /\ failures' \in {failures, failures \cup {<<Now, metric>>}}
         /\ <<Now, metric>> \notin failures =>
              (v # None <=> applies /\ <<Now, metric>> \notin failures')
<1> SUFFICES /\ failures' \in {failures, failures \cup {<<Now, metric>>}}
             /\ <<Now, metric>> \notin failures =>
                  (v # None <=> applies /\ <<Now, metric>> \notin failures')
  OBVIOUS
<1>1. CASE ~applies /\ v = None /\ UNCHANGED failures
  BY <1>1
<1>2. CASE applies /\ v \in {{0}, {1}} /\ UNCHANGED failures
  BY <1>2 DEF None
<1>3. CASE applies /\ v = FailedScore /\ failures' = failures \cup {<<Len(scores) + 1, metric>>}
  BY <1>3 DEF FailedScore, Now
<1> QED BY <1>1, <1>2, <1>3 DEF Measure

\* A failure on the result in hand takes nothing from those with scores.
LEMMA FailureApart ==
  ASSUME IInv, NEW metric, NEW n, n # Now,
         UNCHANGED <<command, results>>, verdicts'[n] = verdicts[n], scores'[n] = scores[n],
         failures' \in {failures, failures \cup {<<Now, metric>>}}
  PROVE  Concluded(n)' <=> Concluded(n)
<1>1. \A what : <<n, what>> \in failures' <=> <<n, what>> \in failures
  OBVIOUS
<1>2. Supported(n)' = Supported(n) /\ (Failed(n)' <=> Failed(n))
  BY DEF Supported, Failed
<1> QED BY <1>1, <1>2 DEF Concluded, CitesConcluded, FaithfulnessTold, RelevancyTold

\* The second score goes to the result in hand.
LEMMA FaithfulnessStep == IInv /\ Faithfulness => IInv'
<1> SUFFICES ASSUME IInv, Faithfulness PROVE IInv'
  OBVIOUS
<1>1. /\ at = "faithful" /\ at' = "relevant"
      /\ UNCHANGED <<command, selected, item, ranked, results, valid, scores, verdicts>>
  BY DEF Faithfulness
<1>2. TypeOK /\ Placed /\ InOrder /\ InTurn /\ Underway /\ FailuresPast
  BY DEF IInv
<1>3. PICK v \in SUBSET {0, 1} :
        /\ Measure("faithfulness", ~This.abstained /\ This.shown # {}, v)
        /\ score' = [score EXCEPT !.faithfulness = v]
  BY DEF Faithfulness
<1>4. /\ command \in {"run-generation-eval", "judge-agreement-report"}
      /\ This = results[Now] /\ Now = Len(scores) + 1 /\ Now \notin DOMAIN scores
      /\ scores \in Seq(Scores) /\ Len(scores) \in Nat /\ Now' = Now
  BY <1>1, InHand DEF Now
<1>5. \A f \in failures : f[1] < Now
  BY <1>1, <1>2 DEF FailuresPast
<1>6. <<Now, "faithfulness">> \notin failures
  <2>1. <<Now, "faithfulness">>[1] = Now /\ ~(Now < Now)
    BY <1>4
  <2> QED BY <1>5, <2>1
<1>7. /\ failures' \in {failures, failures \cup {<<Now, "faithfulness">>}}
      /\ v # None <=> /\ ~This.abstained /\ This.shown # {}
                      /\ <<Now, "faithfulness">> \notin failures'
  <2>1. (~This.abstained /\ This.shown # {}) \in BOOLEAN
    OBVIOUS
  <2> QED BY <1>3, <1>6, <2>1, MeasureFacts
<1>8. score' \in Scores /\ score'.faithfulness = v /\ score'.validity = score.validity
  <2>1. score \in Scores
    BY <1>2 DEF TypeOK
  <2> QED BY <1>3, <2>1 DEF Scores
<1>9. failures' \in SUBSET (Nat \X {"faithfulness", "relevancy"})
  BY <1>2, <1>4, <1>7 DEF TypeOK
<1>10. TypeOK'
  BY <1>1, <1>2, <1>8, <1>9 DEF TypeOK
<1>11. Placed' /\ InOrder'
  BY <1>1, <1>2, <1>4 DEF Placed, InOrder
<1>12. InTurn'
  BY <1>1, <1>2, <1>4 DEF InTurn
<1>13. FailuresPast'
  BY <1>1, <1>4, <1>5, <1>7 DEF FailuresPast
<1>14. CitesConcluded(Now, score.validity)'
  <2>1. Supported(Now)' = Supported(Now) /\ (Failed(Now)' <=> Failed(Now))
    BY <1>1, <1>4 DEF Supported, Failed
  <2>2. CitesConcluded(Now, score.validity)
    BY <1>1, <1>2 DEF Underway
  <2> QED BY <1>1, <1>4, <1>8, <2>1, <2>2 DEF CitesConcluded
<1>15. FaithfulnessTold(Now, score.faithfulness)'
  BY <1>1, <1>4, <1>7, <1>8 DEF FaithfulnessTold
<1>16. Underway'
  BY <1>1, <1>14, <1>15 DEF Underway
<1>17. (\A n \in DOMAIN ranked : RankingSound(ranked[n]))'
  BY <1>1 DEF IInv, RankingSound
<1>18. (\A n \in DOMAIN verdicts : VerdictsSound(n))'
  BY <1>1 DEF IInv, VerdictsSound, Supported
<1>19. (\A n \in DOMAIN scores : Concluded(n))'
  <2> SUFFICES ASSUME NEW n \in DOMAIN scores PROVE Concluded(n)'
    BY <1>1
  <2>1. Concluded(n)' <=> Concluded(n)
    BY <1>1, <1>4, <1>7, FailureApart
  <2> QED BY <2>1 DEF IInv
<1> QED BY <1>10, <1>11, <1>12, <1>13, <1>16, <1>17, <1>18, <1>19 DEF IInv

\* The third completes the scores of a result, and the next one is begun.
LEMMA AnswerRelevancyStep == IInv /\ AnswerRelevancy => IInv'
<1> SUFFICES ASSUME IInv, AnswerRelevancy PROVE IInv'
  OBVIOUS
<1>1. /\ at = "relevant" /\ score' = Unscored /\ valid' = 0
      /\ UNCHANGED <<command, selected, item, ranked, results>>
  BY DEF AnswerRelevancy
<1>2. TypeOK /\ Placed /\ InOrder /\ InTurn /\ Underway /\ FailuresPast
  BY DEF IInv
<1>3. PICK v \in SUBSET {0, 1} :
        /\ Measure("relevancy", ~This.abstained, v)
        /\ scores' = Append(scores, [score EXCEPT !.relevancy = v])
  BY DEF AnswerRelevancy
<1>4. IF Len(scores') < Len(results)
        THEN at' = "cite" /\ verdicts' = Append(verdicts, <<>>)
        ELSE at' = "report" /\ UNCHANGED verdicts
  BY DEF AnswerRelevancy
<1>5. PICK m : m = Now
  OBVIOUS
<1>6. /\ command \in {"run-generation-eval", "judge-agreement-report"}
      /\ This = results[m] /\ m = Len(scores) + 1 /\ m \notin DOMAIN scores
      /\ scores \in Seq(Scores) /\ Len(scores) \in Nat
      /\ verdicts \in Seq(Seq(Verdicts)) /\ Len(verdicts) = m
      /\ results \in Seq(Results) /\ m \in DOMAIN results
  BY <1>1, <1>5, InHand
<1>7. PICK s : s = [score EXCEPT !.relevancy = v]
  OBVIOUS
<1>8. s \in Scores /\ s.relevancy = v
      /\ s.faithfulness = score.faithfulness /\ s.validity = score.validity
  <2>1. score \in Scores
    BY <1>2 DEF TypeOK
  <2> QED BY <1>7, <2>1 DEF Scores
<1>9. /\ scores' \in Seq(Scores) /\ Len(scores') = m /\ Now' = m + 1 /\ scores'[m] = s
      /\ DOMAIN scores' = DOMAIN scores \cup {m}
      /\ \A n \in DOMAIN scores : scores'[n] = scores[n]
  <2>1. scores' = Append(scores, s)
    BY <1>3, <1>7
  <2>2. scores' \in Seq(Scores) /\ Len(scores') = m /\ scores'[m] = s
        /\ DOMAIN scores' = 1..m /\ DOMAIN scores = 1..(m - 1)
        /\ \A n \in DOMAIN scores : scores'[n] = scores[n]
    BY <1>6, <1>8, <2>1
  <2>3. 1..m = 1..(m - 1) \cup {m}
    BY <1>6
  <2> QED BY <2>2, <2>3 DEF Now
<1>10. \A f \in failures : f[1] < m \/ f = <<m, "faithfulness">>
  BY <1>2, <1>5 DEF FailuresPast
<1>11. <<m, "relevancy">> \notin failures
  <2>1. <<m, "relevancy">>[1] = m /\ ~(m < m) /\ <<m, "relevancy">> # <<m, "faithfulness">>
    BY <1>6
  <2> QED BY <1>10, <2>1
<1>12. /\ failures' \in {failures, failures \cup {<<m, "relevancy">>}}
       /\ v # None <=> ~This.abstained /\ <<m, "relevancy">> \notin failures'
  <2>1. (~This.abstained) \in BOOLEAN
    OBVIOUS
  <2> QED BY <1>3, <1>5, <1>11, <2>1, MeasureFacts
<1>13. failures' \in SUBSET (Nat \X {"faithfulness", "relevancy"})
  BY <1>2, <1>6, <1>12 DEF TypeOK
<1>14. FailuresPast'
  <2>1. \A f \in failures' : f[1] < m + 1
    <3>1. <<m, "relevancy">>[1] = m /\ <<m, "faithfulness">>[1] = m
      OBVIOUS
    <3>2. \A f \in failures' : f[1] < m \/ f[1] = m
      BY <1>10, <1>12, <3>1
    <3>3. \A f \in failures' : f[1] \in Nat
      BY <1>13
    <3>4. m \in Nat
      BY <1>6
    <3> QED BY <3>2, <3>3, <3>4
  <2> QED BY <1>9, <2>1 DEF FailuresPast
<1>15. verdicts' \in Seq(Seq(Verdicts))
       /\ \A n \in 1..m : verdicts'[n] = verdicts[n]
  <2>1. verdicts' = verdicts \/ verdicts' = Append(verdicts, <<>>)
    BY <1>4
  <2>2. <<>> \in Seq(Verdicts) /\ m \in Nat
    BY <1>6
  <2>3. CASE verdicts' = verdicts
    BY <1>6, <2>3
  <2>4. CASE verdicts' = Append(verdicts, <<>>)
    BY <1>6, <2>2, <2>4
  <2> QED BY <2>1, <2>3, <2>4
<1>16. \A n \in 1..m : Supported(n)' = Supported(n) /\ (Failed(n)' <=> Failed(n))
  BY <1>15 DEF Supported, Failed
<1>17. Concluded(m)'
  <2>1. m \in 1..m /\ scores'[m] = s
    BY <1>6, <1>9
  <2>2. CitesConcluded(m, s.validity)
    BY <1>1, <1>2, <1>5, <1>8 DEF Underway
  <2>3. CitesConcluded(m, scores[m].validity)'
    <3>1. verdicts'[m] = verdicts[m]
      BY <1>15, <2>1
    <3>2. Supported(m)' = Supported(m) /\ (Failed(m)' <=> Failed(m))
      BY <1>16, <2>1
    <3> QED BY <1>1, <2>1, <2>2, <3>1, <3>2 DEF CitesConcluded
  <2>4. s.faithfulness # None <=> /\ ~This.abstained /\ This.shown # {}
                                  /\ <<m, "faithfulness">> \notin failures
    BY <1>1, <1>2, <1>5, <1>6, <1>8 DEF Underway, FaithfulnessTold
  <2>5. <<m, "faithfulness">> \in failures' <=> <<m, "faithfulness">> \in failures
    BY <1>12
  <2>6. FaithfulnessTold(m, scores[m].faithfulness)'
    BY <1>1, <1>6, <2>1, <2>4, <2>5 DEF FaithfulnessTold
  <2>7. RelevancyTold(m, scores[m].relevancy)'
    BY <1>1, <1>6, <1>8, <1>12, <2>1 DEF RelevancyTold
  <2> QED BY <2>3, <2>6, <2>7 DEF Concluded
<1>18. (\A n \in DOMAIN scores : Concluded(n))'
  <2>1. ASSUME NEW n \in DOMAIN scores PROVE Concluded(n)'
    <3>1. n \in 1..m /\ n # m
      BY <1>6
    <3>2. verdicts'[n] = verdicts[n] /\ scores'[n] = scores[n]
      BY <1>9, <1>15, <3>1
    <3>3. \A what : <<n, what>> \in failures' <=> <<n, what>> \in failures
      BY <1>12, <3>1
    <3>4. Supported(n)' = Supported(n) /\ (Failed(n)' <=> Failed(n))
      BY <1>16, <3>1
    <3>5. Concluded(n)
      BY DEF IInv
    <3> QED BY <1>1, <3>2, <3>3, <3>4, <3>5
            DEF Concluded, CitesConcluded, FaithfulnessTold, RelevancyTold
  <2> QED BY <1>9, <1>17, <2>1
<1>19. (\A n \in DOMAIN ranked : RankingSound(ranked[n]))'
  BY <1>1 DEF IInv, RankingSound
<1>20. at' \in {"cite", "report"}
  BY <1>4
<1>21. Placed' /\ InOrder'
  BY <1>1, <1>2, <1>6, <1>20 DEF Placed, InOrder
<1>22. TypeOK'
  <2>1. Unscored \in Scores
    BY DEF Scores, Unscored, None
  <2> QED BY <1>1, <1>2, <1>9, <1>13, <1>15, <1>20, <2>1 DEF TypeOK, Verdicts
<1>23. \A n \in 1..m : VerdictsSound(n)'
  <2> SUFFICES ASSUME NEW n \in 1..m PROVE VerdictsSound(n)'
    OBVIOUS
  <2>1. VerdictsSound(n)
    <3>1. n \in DOMAIN verdicts
      BY <1>6
    <3> QED BY <3>1 DEF IInv
  <2>2. Supported(n)' = Supported(n) /\ verdicts'[n] = verdicts[n]
    BY <1>15, <1>16
  <2> QED BY <1>1, <2>1, <2>2 DEF VerdictsSound
<1>24. Len(results) \in Nat /\ m <= Len(results) /\ DOMAIN results = 1..Len(results)
  BY <1>6
<1>25. CASE m < Len(results)
  <2>1. at' = "cite" /\ verdicts' = Append(verdicts, <<>>)
    BY <1>4, <1>9, <1>25
  <2>2. /\ Len(verdicts') = m + 1 /\ verdicts'[m + 1] = <<>>
        /\ DOMAIN verdicts' = 1..m \cup {m + 1}
    BY <1>6, <2>1
  <2>3. Supported(m + 1)' = {} /\ ~Failed(m + 1)'
    BY <2>2 DEF Supported, Failed, ToSet
  <2>4. Supported(Now)' = {} /\ ~Failed(Now)'
    BY <1>9, <2>3 DEF Supported, Failed
  <2>5. Underway'
    BY <1>1, <2>1, <2>4, FS_EmptySet DEF Underway
  <2>6. InTurn'
    BY <1>1, <1>6, <1>9, <1>24, <1>25, <2>1, <2>2 DEF InTurn
  <2>7. VerdictsSound(m + 1)'
    <3>1. m + 1 \in DOMAIN results
      BY <1>6, <1>24, <1>25
    <3>2. results[m + 1].citations \in Seq(Pool \cup {Ghost})
      BY <1>6, <3>1, OutcomeFacts
    <3>3. Len(verdicts'[m + 1]) <= Len(results[m + 1].citations)
      BY <2>2, <3>2
    <3>4. "skipped" \notin ToSet(verdicts'[m + 1])
      BY <2>2 DEF ToSet
    <3> QED BY <1>1, <2>3, <3>3, <3>4 DEF VerdictsSound
  <2>8. (\A n \in DOMAIN verdicts : VerdictsSound(n))'
    BY <1>23, <2>2, <2>7
  <2> QED BY <1>14, <1>18, <1>19, <1>21, <1>22, <2>5, <2>6, <2>8 DEF IInv
<1>26. CASE m = Len(results)
  <2>1. at' = "report" /\ verdicts' = verdicts
    BY <1>4, <1>9, <1>26
  <2>2. Underway'
    BY <2>1 DEF Underway
  <2>3. InTurn'
    BY <1>1, <1>6, <1>9, <1>26, <2>1 DEF InTurn
  <2>4. (\A n \in DOMAIN verdicts : VerdictsSound(n))'
    <3>1. DOMAIN verdicts' = 1..m
      BY <1>6, <2>1
    <3> QED BY <1>23, <3>1
  <2> QED BY <1>14, <1>18, <1>19, <1>21, <1>22, <2>2, <2>3, <2>4 DEF IInv
<1>27. m \in Nat
  BY <1>6
<1>28. m < Len(results) \/ m = Len(results)
  <2>1. Len(results) \in Nat /\ m <= Len(results)
    BY <1>24
  <2> QED BY <1>27, <2>1
<1> QED BY <1>25, <1>26, <1>28

----------------------------------------------------------------------------
\* The theorems.

\* Every step preserves the invariant, the one that does nothing included.
LEMMA NextStep == IInv /\ [Next]_vars => IInv'
<1> SUFFICES ASSUME IInv, [Next]_vars PROVE IInv'
  OBVIOUS
<1>1. CASE ScoreRetrieval
  BY <1>1, ScoreRetrievalStep
<1>2. CASE FinishRetrieval
  BY <1>2, FinishRetrievalStep
<1>3. CASE RunGraph
  BY <1>3, RunGraphStep
<1>4. CASE StartJudging
  BY <1>4, StartJudgingStep
<1>5. CASE JudgeCitation
  BY <1>5, JudgeCitationStep
<1>6. CASE CitationValidity
  BY <1>6, CitationValidityStep
<1>7. CASE Faithfulness
  BY <1>7, FaithfulnessStep
<1>8. CASE AnswerRelevancy
  BY <1>8, AnswerRelevancyStep
<1>9. CASE Abort
  BY <1>9, AbortStep
<1>10. CASE UNCHANGED vars
  <2>1. UNCHANGED <<command, selected, at, item, ranked, results, valid, score, scores,
                    verdicts, failures>>
    BY <1>10 DEF vars
  <2>2. TypeOK /\ Placed /\ InOrder /\ InTurn /\ Underway /\ FailuresPast
    BY DEF IInv
  <2>3. TypeOK' /\ Placed' /\ InOrder' /\ InTurn'
    BY <2>1, <2>2 DEF TypeOK, Placed, InOrder, InTurn, Now
  <2>4. Underway'
    BY <2>1, <2>2 DEF Underway, CitesConcluded, FaithfulnessTold, Supported, Failed, Now
  <2>5. FailuresPast'
    BY <2>1, <2>2 DEF FailuresPast, Now
  <2> QED BY <2>1, <2>3, <2>4, <2>5, StillSound DEF IInv
<1> QED BY <1>1, <1>2, <1>3, <1>4, <1>5, <1>6, <1>7, <1>8, <1>9, <1>10 DEF Next, Done

\* The invariant holds throughout.
LEMMA Invariant == Spec => []IInv
<1>1. Init => IInv
  BY InitSound
<1>2. IInv /\ [Next]_vars => IInv'
  BY NextStep
<1> QED BY <1>1, <1>2, PTL DEF Spec

\* Every variable of the commands keeps to its type (evals.cli).
THEOREM TypeCorrect == Spec => []TypeOK
<1>1. IInv => TypeOK
  BY DEF IInv
<1> QED BY <1>1, Invariant, PTL

\* An element of a sequence is of the kind the sequence is made of.
LEMMA ElementOf ==
  ASSUME NEW D, NEW q \in Seq(D), NEW i \in DOMAIN q
  PROVE  q[i] \in D
OBVIOUS

\* Recall, reciprocal rank and nDCG of every scored item tell one story, for
\* any corpus, any ranking and any k (evals.retrieval_eval over evals.metrics).
THEOREM MetricsCorrect == Spec => []MetricsAgree
<1>1. IInv => MetricsAgree
  <2> SUFFICES ASSUME IInv, NEW p \in ToSet(ranked), p.scored, NEW k \in KValues
               PROVE  Agreed(p.ranking, Golden[p.item].relevant, k)
    BY Zenon DEF MetricsAgree, Agreed
  <2>1. PICK n \in DOMAIN ranked : p = ranked[n]
    BY DEF ToSet
  <2>2. ranked \in Seq([item : DOMAIN Golden, scored : BOOLEAN, ranking : Seq(Corpus)])
    BY DEF IInv, TypeOK
  <2>3. p.item \in DOMAIN Golden /\ p.ranking \in Seq(Corpus)
    <3>1. ranked[n] \in [item : DOMAIN Golden, scored : BOOLEAN, ranking : Seq(Corpus)]
      BY <2>1, <2>2, ElementOf, Zenon
    <3> QED BY <2>1, <3>1
  <2>4. \A i, j \in DOMAIN p.ranking : p.ranking[i] = p.ranking[j] => i = j
    BY <2>1 DEF IInv, RankingSound
  <2>5. Golden[p.item].relevant \in SUBSET Corpus
    <3>1. Golden[p.item] \in [out_of_scope : BOOLEAN, relevant : SUBSET Corpus]
      BY <2>3, Bounds, ElementOf, Zenon
    <3> QED BY <3>1
  <2> QED BY <2>3, <2>4, <2>5, RanksAgree
<1> QED BY <1>1, Invariant, PTL

\* A count splits over a condition.
LEMMA Split ==
  ASSUME NEW S, IsFiniteSet(S), NEW A \in SUBSET S, NEW B \in SUBSET S,
         A \cup B = S, A \cap B = {}
  PROVE  /\ Cardinality(A) + Cardinality(B) = Cardinality(S)
         /\ Cardinality(A) \in Nat /\ Cardinality(B) \in Nat
<1>1. IsFiniteSet(A) /\ IsFiniteSet(B)
  BY FS_Subset
<1>2. Cardinality(A) \in Nat /\ Cardinality(B) \in Nat
  BY <1>1, FS_CardinalityType
<1>3. Cardinality(A \cup B) = Cardinality(A) + Cardinality(B) - Cardinality(A \cap B)
  BY <1>1, FS_Union
<1>4. Cardinality(A \cup B) = Cardinality(S) /\ Cardinality(A \cap B) = 0
  BY FS_EmptySet, Zenon
<1> QED BY <1>2, <1>3, <1>4

\* Every place of a sequence counts once.
LEMMA Places ==
  ASSUME NEW D, NEW q \in Seq(D)
  PROVE  IsFiniteSet(DOMAIN q) /\ Cardinality(DOMAIN q) = Len(q) /\ Len(q) \in Nat
<1>1. DOMAIN q = 1..Len(q) /\ Len(q) \in Nat
  OBVIOUS
<1>2. IsFiniteSet(1..Len(q)) /\ Cardinality(1..Len(q)) = Len(q)
  <2>1. 1 \in Int /\ Len(q) \in Int
    BY <1>1
  <2>2. IsFiniteSet(1..Len(q))
        /\ Cardinality(1..Len(q)) = IF 1 > Len(q) THEN 0 ELSE Len(q) - 1 + 1
    BY <2>1, FS_Interval
  <2> QED BY <1>1, <2>2
<1> QED BY <1>1, <1>2

\* The retrieval report has every item once, scored or excluded.
LEMMA RetrievalAccounts ==
  ASSUME IInv, at = "report", command = "run-retrieval"
  PROVE  /\ ScoredItems + Excluded = Len(Golden)
         /\ \A p \in ToSet(ranked) : p.scored => Golden[p.item].relevant # {}
<1> DEFINE S == {n \in DOMAIN ranked : ranked[n].scored}
           E == {n \in DOMAIN ranked : ~ranked[n].scored}
<1>1. ranked \in Seq([item : DOMAIN Golden, scored : BOOLEAN, ranking : Seq(Corpus)])
  BY DEF IInv, TypeOK
<1>2. Len(ranked) = Len(Golden)
  BY DEF IInv, Placed
<1>3. /\ S \cup E = DOMAIN ranked /\ S \cap E = {}
      /\ S \in SUBSET DOMAIN ranked /\ E \in SUBSET DOMAIN ranked
  OBVIOUS
<1>4. IsFiniteSet(DOMAIN ranked) /\ Cardinality(DOMAIN ranked) = Len(ranked)
  BY <1>1, Places
<1>5. ScoredItems = Cardinality(S) /\ Excluded = Cardinality(E)
  BY DEF ScoredItems, Excluded
<1> HIDE DEF S, E
<1>6. Cardinality(S) + Cardinality(E) = Cardinality(DOMAIN ranked)
  BY <1>3, <1>4, Split
<1>7. \A p \in ToSet(ranked) : p.scored => Golden[p.item].relevant # {}
  BY DEF IInv, RankingSound, IsScored, ToSet
<1> QED BY <1>2, <1>4, <1>5, <1>6, <1>7

\* Every result is right, a false abstention or a false answer.
LEMMA AbstentionsAccount ==
  ASSUME IInv
  PROVE  Correct + FalseAbstention + FalseAnswer = Len(results)
<1> DEFINE D == DOMAIN results
           C == {n \in D : OutOfScope(results[n]) = results[n].abstained}
           W == {n \in D : OutOfScope(results[n]) # results[n].abstained}
           A == {n \in D : ~OutOfScope(results[n]) /\ results[n].abstained}
           F == {n \in D : OutOfScope(results[n]) /\ ~results[n].abstained}
<1>1. results \in Seq(Results)
  BY DEF IInv, TypeOK
<1>2. \A n \in D : OutOfScope(results[n]) \in BOOLEAN /\ results[n].abstained \in BOOLEAN
  <2> SUFFICES ASSUME NEW n \in D
               PROVE  OutOfScope(results[n]) \in BOOLEAN /\ results[n].abstained \in BOOLEAN
    OBVIOUS
  <2>1. results[n].item \in 1..Len(Golden) /\ results[n].abstained \in BOOLEAN
    BY <1>1, OutcomeFacts
  <2>2. Golden[results[n].item] \in [out_of_scope : BOOLEAN, relevant : SUBSET Corpus]
    <3>1. results[n].item \in DOMAIN Golden
      BY <2>1, Bounds
    <3> QED BY <3>1, Bounds, ElementOf, Zenon
  <2> QED BY <2>1, <2>2 DEF OutOfScope
<1>3. C \cup W = D /\ C \cap W = {} /\ C \in SUBSET D /\ W \in SUBSET D
  OBVIOUS
<1>4. A \cup F = W /\ A \cap F = {} /\ A \in SUBSET W /\ F \in SUBSET W
  BY <1>2
<1>5. Correct = Cardinality(C) /\ FalseAbstention = Cardinality(A) /\ FalseAnswer = Cardinality(F)
  BY DEF Correct, FalseAbstention, FalseAnswer
<1>6. IsFiniteSet(D) /\ Cardinality(D) = Len(results)
  BY <1>1, Places
<1> HIDE DEF C, W, A, F, D
<1>7. /\ Cardinality(C) + Cardinality(W) = Cardinality(D)
      /\ Cardinality(C) \in Nat /\ Cardinality(W) \in Nat
  BY <1>3, <1>6, Split
<1>8. IsFiniteSet(W)
  BY <1>3, <1>6, FS_Subset
<1>9. /\ Cardinality(A) + Cardinality(F) = Cardinality(W)
      /\ Cardinality(A) \in Nat /\ Cardinality(F) \in Nat
  BY <1>4, <1>8, Split
<1> QED BY <1>5, <1>6, <1>7, <1>9

\* A report of any of the three commands accounts for every item and never
\* makes up a score, whichever runs and judge calls failed (evals.cli).
THEOREM ReportCorrect == Spec => []ReportExact
<1>1. IInv => ReportExact
  <2> SUFFICES ASSUME IInv, at = "report" PROVE ReportExact
    BY DEF ReportExact
  <2>1. TypeOK /\ InOrder /\ InTurn
    BY DEF IInv
  <2>2. results \in Seq(Results) /\ scores \in Seq(Scores) /\ Len(scores) = Len(results)
        /\ Len(verdicts) = Len(results) /\ verdicts \in Seq(Seq(Verdicts))
    BY <2>1 DEF TypeOK, InTurn, Verdicts
  <2>3. DOMAIN scores = DOMAIN results /\ DOMAIN verdicts = DOMAIN results
    BY <2>2
  <2>4. \A m, n \in DOMAIN results : m < n => results[m].item < results[n].item
    BY <2>1 DEF InOrder
  <2>5. ASSUME NEW n \in DOMAIN results
        PROVE  LET x == results[n]
                   supported == {i \in DOMAIN verdicts[n] : verdicts[n][i] = "supports"}
               IN  /\ ContextPrecision(x) <= Cardinality(x.shown)
                   /\ n \in MeanOver([j \in DOMAIN scores |-> scores[j].faithfulness]) <=>
                        ~x.abstained /\ x.shown # {} /\ <<n, "faithfulness">> \notin failures
                   /\ n \in MeanOver([j \in DOMAIN scores |-> scores[j].relevancy]) <=>
                        ~x.abstained /\ <<n, "relevancy">> \notin failures
                   /\ command = "run-generation-eval" =>
                        /\ scores[n].validity =
                             IF x.citations = <<>> \/ "failed" \in ToSet(verdicts[n])
                               THEN None ELSE {Cardinality(supported)}
                        /\ \A i \in supported : x.citations[i] \in x.shown
                   /\ command = "judge-agreement-report" =>
                        /\ Len(verdicts[n]) = Len(x.citations)
                        /\ "skipped" \notin ToSet(verdicts[n])
    <3>1. Concluded(n) /\ VerdictsSound(n)
      BY <2>3 DEF IInv
    <3>2. ContextPrecision(results[n]) <= Cardinality(results[n].shown)
      <4>1. IsFiniteSet(results[n].shown)
        BY <2>2, OutcomeFacts
      <4> QED BY <4>1, FS_Subset DEF ContextPrecision
    <3>3. n \in MeanOver([j \in DOMAIN scores |-> scores[j].faithfulness])
            <=> scores[n].faithfulness # None
      BY <2>3 DEF MeanOver
    <3>4. n \in MeanOver([j \in DOMAIN scores |-> scores[j].relevancy])
            <=> scores[n].relevancy # None
      BY <2>3 DEF MeanOver
    <3> QED BY <3>1, <3>2, <3>3, <3>4
            DEF Concluded, CitesConcluded, FaithfulnessTold, RelevancyTold,
                VerdictsSound, Supported, Failed
  <2> QED BY <2>2, <2>4, <2>5, RetrievalAccounts, AbstentionsAccount DEF ReportExact
<1> QED BY <1>1, Invariant, PTL
=============================================================================
