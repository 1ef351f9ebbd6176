--------------------------- MODULE IngestProofs ---------------------------
(***************************************************************************)
(* Proofs about Ingest, for any documents, editions, caps and any number   *)
(* of commands and deaths.  The invariant has to say four things the       *)
(* properties do not: that the cache file, once cut short, is still the    *)
(* beginning of an edition (Cached), that an open transaction lacks of its *)
(* text only what is left to be upserted (Underway), that editions reach   *)
(* the table in their order (InTurn), and that every row, also one of an   *)
(* older edition, stands where its own edition has it (Sound).  The flat   *)
(* scan of parse_document is related to the nesting it stands for in       *)
(* ScanTellsNesting, by induction over the text.                           *)
(***************************************************************************)
EXTENDS Ingest, WellFoundedInduction, TLAPS

----------------------------------------------------------------------------
\* Induction, and what the recursive operators compute.

\* A set of naturals has a least member: their order is well-founded.
LEMMA LeastNatural ==
  ASSUME NEW T, T \subseteq Nat, T # {}
  PROVE  \E m \in T : \A k \in T : m <= k
<1> DEFINE R == OpToRel(<, Nat)
<1>1. IsWellFoundedOn(R, Nat)
  BY NatLessThanWellFounded
<1> HIDE DEF R
<1>2. PICK m \in T : \A k \in T : <<k, m>> \notin R
  BY <1>1, WFMin
<1>3. ASSUME NEW k \in T PROVE m <= k
  <2>1. <<k, m>> \notin R
    BY <1>2
  <2> QED BY <2>1 DEF R, OpToRel
<1> QED BY <1>3

\* Induction over the naturals, by the set of which they are to be members.
LEMMA InductionBySet ==
  ASSUME NEW G, 0 \in G, \A n \in Nat : n \in G => n + 1 \in G
  PROVE  \A n \in Nat : n \in G
<1> SUFFICES ASSUME NEW n \in Nat, n \notin G PROVE FALSE
  OBVIOUS
<1> DEFINE T == {k \in Nat : k \notin G}
<1>1. PICK m \in T : \A k \in T : m <= k
  <2>1. T # {} /\ T \subseteq Nat
    OBVIOUS
  <2> HIDE DEF T
  <2> QED BY <2>1, LeastNatural
<1>2. m - 1 \in Nat /\ m - 1 \notin T
  BY <1>1
<1> QED BY <1>2

\* parse_document's state after one more <div>.
After(c, d) ==
  CASE d.kind = "chapter" -> EnterChapter(c, d.no)
    [] d.kind = "section" -> [c EXCEPT !.section = d.no]
    [] OTHER -> c

Nowhere == [chapter |-> 0, section |-> 0]

Scan(f, divs, n) ==
  f = [k \in 0..n |-> IF k = 0 THEN Nowhere ELSE After(f[k - 1], divs[k])]

\* The equation of parse_document's scan has a solution: so its recursion is one.
LEMMA ScanExists ==
  ASSUME NEW divs, NEW n \in Nat
  PROVE  \E f : Scan(f, divs, n)
<1> DEFINE G == {k \in Nat : \E f : Scan(f, divs, k)}
<1>1. 0 \in G
  <2> DEFINE f == [k \in 0..0 |-> Nowhere]
  <2>1. Scan(f, divs, 0)
    BY DEF Scan
  <2> QED BY <2>1
<1>2. ASSUME NEW k \in Nat, k \in G PROVE k + 1 \in G
  <2>1. PICK f : Scan(f, divs, k)
    BY <1>2
  <2> DEFINE h == [j \in 0..k + 1 |-> IF j = k + 1 THEN After(f[k], divs[k + 1]) ELSE f[j]]
  <2>2. ASSUME NEW j \in 0..k + 1
        PROVE  h[j] = IF j = 0 THEN Nowhere ELSE After(h[j - 1], divs[j])
    <3>1. CASE j = k + 1
      <4>1. h[j] = After(f[k], divs[k + 1]) /\ h[j - 1] = f[k] /\ j # 0
        BY <3>1
      <4> HIDE DEF h
      <4> QED BY <3>1, <4>1
    <3>2. CASE j # k + 1
      <4>1. j \in 0..k /\ h[j] = f[j] /\ (j # 0 => h[j - 1] = f[j - 1])
        BY <3>2
      <4>2. f[j] = IF j = 0 THEN Nowhere ELSE After(f[j - 1], divs[j])
        BY <2>1, <4>1 DEF Scan
      <4> HIDE DEF h
      <4> QED BY <4>1, <4>2
    <3> QED BY <3>1, <3>2
  <2>3. Scan(h, divs, k + 1)
    <3>1. h = [j \in 0..k + 1 |-> h[j]]
      OBVIOUS
    <3> HIDE DEF h
    <3> QED BY <2>2, <3>1 DEF Scan
  <2> QED BY <2>3
<1> HIDE DEF G
<1>3. n \in G
  BY <1>1, <1>2, InductionBySet
<1> QED BY <1>3 DEF G

\* Context is that scan.
LEMMA ContextScans ==
  ASSUME NEW divs \in Seq(Divs)
  PROVE  /\ Context(divs)[0] = Nowhere
         /\ \A k \in 1..Len(divs) : Context(divs)[k] = After(Context(divs)[k - 1], divs[k])
<1> DEFINE after[n \in 0..Len(divs)] ==
             IF n = 0 THEN [chapter |-> 0, section |-> 0]
             ELSE LET d == divs[n]
                  IN  CASE d.kind = "chapter" -> EnterChapter(after[n - 1], d.no)
                        [] d.kind = "section" -> [after[n - 1] EXCEPT !.section = d.no]
                        [] OTHER -> after[n - 1]
<1>1. PICK f : Scan(f, divs, Len(divs))
  BY ScanExists
<1>2. Scan(after, divs, Len(divs))
  BY <1>1, Zenon DEF Scan, After, Nowhere
<1>3. Context(divs) = after
  BY Zenon DEF Context
<1> HIDE DEF after
<1>4. Scan(Context(divs), divs, Len(divs))
  BY <1>2, <1>3
<1> QED BY <1>4 DEF Scan

\* The equation of Enclosing's recursion, from <div> to the one it lies in.
Climb(g, divs, kind, n) ==
  g = [k \in 0..n |-> IF k = 0 THEN 0 ELSE IF divs[k].kind = kind THEN divs[k].no
                      ELSE g[divs[k].up]]

\* Each <div> lies in one before it, so climbing ends.
LEMMA ClimbExists ==
  ASSUME NEW divs \in Seq(Divs), Nested(divs), NEW kind, NEW n \in 0..Len(divs)
  PROVE  \E g : Climb(g, divs, kind, n)
<1> DEFINE G == {k \in Nat : k <= Len(divs) => \E g : Climb(g, divs, kind, k)}
<1>1. 0 \in G
  <2> DEFINE g == [k \in 0..0 |-> 0]
  <2>1. Climb(g, divs, kind, 0)
    BY DEF Climb
  <2> QED BY <2>1
<1>2. ASSUME NEW k \in Nat, k \in G PROVE k + 1 \in G
  <2>1. SUFFICES ASSUME k + 1 <= Len(divs) PROVE \E h : Climb(h, divs, kind, k + 1)
    OBVIOUS
  <2>2. PICK g : Climb(g, divs, kind, k)
    BY <1>2, <2>1
  <2>3. \A j \in 1..k + 1 : divs[j].up \in 0..j - 1
    <3>1. \A j \in 1..k + 1 : j \in DOMAIN divs /\ divs[j] \in Divs
      BY <2>1
    <3> QED BY <3>1 DEF Nested, Divs
  <2> DEFINE top == IF divs[k + 1].kind = kind THEN divs[k + 1].no ELSE g[divs[k + 1].up]
             h == [j \in 0..k + 1 |-> IF j = k + 1 THEN top ELSE g[j]]
  <2>4. ASSUME NEW j \in 0..k + 1
        PROVE  h[j] = IF j = 0 THEN 0 ELSE IF divs[j].kind = kind THEN divs[j].no
                      ELSE h[divs[j].up]
    <3>1. j # 0 => divs[j].up \in 0..j - 1
      BY <2>3
    <3>2. j # 0 => h[divs[j].up] = g[divs[j].up]
      BY <3>1
    <3>3. CASE j = k + 1
      <4>1. h[j] = top /\ j # 0
        BY <3>3
      <4> HIDE DEF h
      <4> QED BY <3>2, <3>3, <4>1
    <3>4. CASE j # k + 1
      <4>1. j \in 0..k /\ h[j] = g[j]
        BY <3>4
      <4>2. g[j] = IF j = 0 THEN 0 ELSE IF divs[j].kind = kind THEN divs[j].no
                   ELSE g[divs[j].up]
        BY <2>2, <4>1 DEF Climb
      <4> HIDE DEF h
      <4> QED BY <3>2, <4>1, <4>2
    <3> QED BY <3>3, <3>4
  <2>5. Climb(h, divs, kind, k + 1)
    <3>1. h = [j \in 0..k + 1 |-> h[j]]
      OBVIOUS
    <3> HIDE DEF h
    <3> QED BY <2>4, <3>1 DEF Climb
  <2> QED BY <2>5
<1> HIDE DEF G
<1>3. n \in G /\ n <= Len(divs)
  BY <1>1, <1>2, InductionBySet
<1> QED BY <1>3 DEF G

\* Enclosing is that climb.
LEMMA EnclosingClimbs ==
  ASSUME NEW divs \in Seq(Divs), Nested(divs), NEW kind
  PROVE  \E g : Climb(g, divs, kind, Len(divs))
                /\ \A i \in DOMAIN divs : Enclosing(divs, i, kind) = g[divs[i].up]
<1> DEFINE up[k \in 0..Len(divs)] ==
             IF k = 0 THEN 0 ELSE IF divs[k].kind = kind THEN divs[k].no ELSE up[divs[k].up]
<1>0. Len(divs) \in 0..Len(divs)
  OBVIOUS
<1>1. PICK g : Climb(g, divs, kind, Len(divs))
  BY <1>0, ClimbExists
<1>2. Climb(up, divs, kind, Len(divs))
  BY <1>1, Zenon DEF Climb
<1>3. \A i \in DOMAIN divs : Enclosing(divs, i, kind) = up[divs[i].up]
  BY Zenon DEF Enclosing
<1> HIDE DEF up
<1> QED BY <1>2, <1>3

\* The equation of FlattenSeq's recursion.
Joins(f, ss, n) ==
  f = [i \in 1..n |-> IF i = 1 THEN ss[i] ELSE f[i - 1] \o ss[i]]

\* FlattenSeq's recursion has a solution.
LEMMA JoinsExist ==
  ASSUME NEW ss, NEW n \in Nat
  PROVE  \E f : Joins(f, ss, n)
<1> DEFINE G == {k \in Nat : \E f : Joins(f, ss, k)}
<1>1. 0 \in G
  <2> DEFINE f == [k \in 1..0 |-> ss[k]]
  <2>1. Joins(f, ss, 0)
    BY DEF Joins
  <2> QED BY <2>1
<1>2. ASSUME NEW k \in Nat, k \in G PROVE k + 1 \in G
  <2>1. PICK f : Joins(f, ss, k)
    BY <1>2
  <2> DEFINE more == IF k + 1 = 1 THEN ss[k + 1] ELSE f[k] \o ss[k + 1]
             h == [j \in 1..k + 1 |-> IF j = k + 1 THEN more ELSE f[j]]
  <2>2. ASSUME NEW j \in 1..k + 1
        PROVE  h[j] = IF j = 1 THEN ss[j] ELSE h[j - 1] \o ss[j]
    <3>1. CASE j = k + 1
      <4>1. h[j] = more /\ (j # 1 => h[j - 1] = f[k])
        BY <3>1
      <4> HIDE DEF h
      <4> QED BY <3>1, <4>1
    <3>2. CASE j # k + 1
      <4>1. j \in 1..k /\ h[j] = f[j] /\ (j # 1 => h[j - 1] = f[j - 1])
        BY <3>2
      <4>2. f[j] = IF j = 1 THEN ss[j] ELSE f[j - 1] \o ss[j]
        BY <2>1, <4>1 DEF Joins
      <4> HIDE DEF h
      <4> QED BY <4>1, <4>2
    <3> QED BY <3>1, <3>2
  <2>3. Joins(h, ss, k + 1)
    <3>1. h = [j \in 1..k + 1 |-> h[j]]
      OBVIOUS
    <3> HIDE DEF h
    <3> QED BY <2>2, <3>1 DEF Joins
  <2> QED BY <2>3
<1> HIDE DEF G
<1>3. n \in G
  BY <1>1, <1>2, InductionBySet
<1> QED BY <1>3 DEF G

\* What two sequences put together hold.
LEMMA ConcatHolds ==
  ASSUME NEW S, NEW a \in Seq(S), NEW b \in Seq(S)
  PROVE  a \o b \in Seq(S) /\ ToSet(a \o b) = ToSet(a) \cup ToSet(b)
<1>2. /\ DOMAIN (a \o b) = 1..Len(a) + Len(b) /\ DOMAIN a = 1..Len(a) /\ DOMAIN b = 1..Len(b)
      /\ Len(a) \in Nat /\ Len(b) \in Nat
      /\ \A i \in 1..Len(a) : (a \o b)[i] = a[i]
      /\ \A i \in 1..Len(b) : (a \o b)[Len(a) + i] = b[i]
  OBVIOUS
<1>3. \A i \in 1..Len(b) : Len(a) + i \in 1..Len(a) + Len(b)
  BY <1>2
<1>4. \A i \in 1..Len(a) : i \in 1..Len(a) + Len(b)
  BY <1>2
<1>5. \A i \in 1..Len(a) + Len(b) : i \in 1..Len(a) \/ \E j \in 1..Len(b) : i = Len(a) + j
  <2>1. ASSUME NEW i \in 1..Len(a) + Len(b), i \notin 1..Len(a)
        PROVE  i - Len(a) \in 1..Len(b) /\ i = Len(a) + (i - Len(a))
    BY <1>2, <2>1
  <2> QED BY <2>1
<1> DEFINE ab == a \o b
<1>6. /\ DOMAIN ab = 1..Len(a) + Len(b)
      /\ \A i \in 1..Len(a) : ab[i] = a[i]
      /\ \A i \in 1..Len(b) : ab[Len(a) + i] = b[i]
  BY <1>2
<1> HIDE DEF ab
<1>7. ASSUME NEW x \in ToSet(ab) PROVE x \in ToSet(a) \cup ToSet(b)
  <2>1. PICK i \in 1..Len(a) + Len(b) : x = ab[i]
    BY <1>6 DEF ToSet
  <2>2. CASE i \in 1..Len(a)
    BY <2>1, <2>2, <1>2, <1>6 DEF ToSet
  <2>3. CASE i \notin 1..Len(a)
    <3>1. PICK j \in 1..Len(b) : i = Len(a) + j
      BY <2>3, <1>5
    <3>2. x = b[j]
      BY <3>1, <2>1, <1>6
    <3> QED BY <3>2, <1>2 DEF ToSet
  <2> QED BY <2>2, <2>3
<1>8. ToSet(a) \subseteq ToSet(ab)
  BY <1>2, <1>4, <1>6 DEF ToSet
<1>9. ToSet(b) \subseteq ToSet(ab)
  <2> SUFFICES ASSUME NEW j \in 1..Len(b) PROVE b[j] \in ToSet(ab)
    BY <1>2 DEF ToSet
  <2>1. b[j] = ab[Len(a) + j] /\ Len(a) + j \in DOMAIN ab
    BY <1>3, <1>6
  <2> QED BY <2>1 DEF ToSet
<1> QED BY <1>7, <1>8, <1>9 DEF ab

\* What FlattenSeq holds is what the sequences it joins hold.
LEMMA FlattenHolds ==
  ASSUME NEW S, NEW ss \in Seq(Seq(S))
  PROVE  /\ FlattenSeq(ss) \in Seq(S)
         /\ \A x : x \in ToSet(FlattenSeq(ss)) <=> \E i \in DOMAIN ss : x \in ToSet(ss[i])
<1> DEFINE n == Len(ss)
<1>1. n \in Nat /\ DOMAIN ss = 1..n /\ \A i \in 1..n : ss[i] \in Seq(S)
  OBVIOUS
<1>2. CASE n = 0
  <2>1. FlattenSeq(ss) = ss
    BY <1>2 DEF FlattenSeq
  <2>2. ss = <<>> /\ DOMAIN ss = {}
    BY <1>1, <1>2
  <2> QED BY <2>1, <2>2 DEF ToSet
<1>3. CASE n # 0
  <2>1. PICK f : Joins(f, ss, n) /\ FlattenSeq(ss) = f[n]
    <3> DEFINE flatten[i \in 1..Len(ss)] == IF i = 1 THEN ss[i] ELSE flatten[i-1] \o ss[i]
    <3>1. PICK g : Joins(g, ss, Len(ss))
      <4>1. Len(ss) \in Nat
        OBVIOUS
      <4> HIDE DEF flatten
      <4> QED BY <4>1, JoinsExist
    <3>2. Joins(flatten, ss, Len(ss))
      BY <3>1, Zenon DEF Joins
    <3>3. FlattenSeq(ss) = flatten[Len(ss)]
      BY <1>3, Zenon DEF FlattenSeq
    <3> HIDE DEF flatten
    <3> QED BY <3>2, <3>3
  <2> DEFINE Good(s, k) == /\ s \in Seq(S)
                           /\ \A x : x \in ToSet(s) <=> \E i \in 1..k : x \in ToSet(ss[i])
             G == {k \in Nat : k + 1 <= n => Good(f[k + 1], k + 1)}
  <2>2. 0 \in G
    <3>1. f[1] = ss[1] /\ 1..1 = {1}
      BY <1>1, <1>3, <2>1 DEF Joins
    <3> QED BY <1>1, <1>3, <3>1
  <2>3. ASSUME NEW k \in Nat, k \in G PROVE k + 1 \in G
    <3>1. SUFFICES ASSUME (k + 1) + 1 <= n PROVE Good(f[(k + 1) + 1], (k + 1) + 1)
      OBVIOUS
    <3> DEFINE m == k + 1
    <3>2. m \in Nat /\ m + 1 \in 1..n /\ m + 1 # 1 /\ (m + 1) - 1 = m /\ m <= n
      BY <1>1, <3>1
    <3>3. Good(f[m], m)
      BY <2>3, <3>2
    <3> HIDE DEF m
    <3>4. f[m + 1] = f[m] \o ss[m + 1]
      BY <2>1, <3>2 DEF Joins
    <3>5. f[m] \in Seq(S) /\ ss[m + 1] \in Seq(S)
      BY <1>1, <3>2, <3>3
    <3>6. ToSet(f[m] \o ss[m + 1]) = ToSet(f[m]) \cup ToSet(ss[m + 1])
      BY <3>5, ConcatHolds
    <3>7. \A x : (\E i \in 1..m + 1 : x \in ToSet(ss[i])) <=>
                 (\E i \in 1..m : x \in ToSet(ss[i])) \/ x \in ToSet(ss[m + 1])
      <4>1. \A i : i \in 1..m + 1 <=> i \in 1..m \/ i = m + 1
        BY <3>2
      <4> QED BY <4>1
    <3>8. f[m] \o ss[m + 1] \in Seq(S)
      <4> DEFINE a == f[m]
                 b == ss[m + 1]
      <4>1. a \in Seq(S) /\ b \in Seq(S)
        BY <3>5
      <4> HIDE DEF a, b
      <4>2. a \o b \in Seq(S)
        BY <4>1
      <4> QED BY <4>2 DEF a, b
    <3>9. Good(f[m + 1], m + 1)
      <4> DEFINE t == f[m + 1]
      <4>1. t \in Seq(S)
        BY <3>4, <3>8
      <4>2. ToSet(t) = ToSet(f[m]) \cup ToSet(ss[m + 1])
        BY <3>4, <3>6
      <4>3. \A x : x \in ToSet(f[m]) <=> \E i \in 1..m : x \in ToSet(ss[i])
        BY <3>3
      <4> HIDE DEF t
      <4>4. \A x : x \in ToSet(t) <=> \E i \in 1..m + 1 : x \in ToSet(ss[i])
        BY <4>2, <4>3, <3>7, Zenon
      <4>5. Good(t, m + 1)
        BY <4>1, <4>4
      <4> QED BY <4>5 DEF t
    <3> HIDE DEF Good
    <3> QED BY <3>9 DEF m
  <2> HIDE DEF G
  <2>4. n - 1 \in Nat
    BY <1>1, <1>3
  <2>5. n - 1 \in G
    BY <2>2, <2>3, <2>4, InductionBySet
  <2>6. Good(f[n], n)
    <3>1. (n - 1) + 1 = n
      BY <1>1
    <3>2. (n - 1) + 1 <= n => Good(f[(n - 1) + 1], (n - 1) + 1)
      BY <2>5 DEF G
    <3> HIDE DEF Good, n
    <3> QED BY <1>1, <3>1, <3>2
  <2> QED BY <1>1, <2>1, <2>6
<1> QED BY <1>2, <1>3

----------------------------------------------------------------------------
\* The place of an article: the scan's and the nesting's.

Places == [chapter : Nat, section : Nat]

\* One more <div> leaves a chapter and a section in force, 0 for none.
LEMMA AfterTyped ==
  ASSUME NEW p \in Places, NEW d \in Divs
  PROVE  After(p, d) \in Places
<1>1. p = [chapter |-> p.chapter, section |-> p.section] /\ p.chapter \in Nat /\ p.section \in Nat
  BY DEF Places
<1>2. d.no \in Nat
  BY DEF Divs
<1>3. CASE d.kind = "chapter"
  BY <1>2, <1>3 DEF After, EnterChapter, Places
<1>4. CASE d.kind = "section"
  <2>1. After(p, d) = [p EXCEPT !.section = d.no]
    BY <1>4 DEF After
  <2> QED BY <1>2, <2>1 DEF Places
<1>5. CASE d.kind \notin {"chapter", "section"}
  BY <1>5 DEF After
<1> QED BY <1>3, <1>4, <1>5

\* So do all before it.
LEMMA ContextTyped ==
  ASSUME NEW divs \in Seq(Divs), NEW n \in 0..Len(divs)
  PROVE  Context(divs)[n] \in Places
<1> DEFINE C == Context(divs)
           G == {k \in Nat : k <= Len(divs) => C[k] \in Places}
<1>1. 0 \in G
  BY ContextScans DEF Nowhere, Places
<1>2. ASSUME NEW k \in Nat, k \in G PROVE k + 1 \in G
  <2>1. SUFFICES ASSUME k + 1 <= Len(divs) PROVE C[k + 1] \in Places
    OBVIOUS
  <2>2. k + 1 \in 1..Len(divs) /\ (k + 1) - 1 = k /\ k <= Len(divs)
    BY <2>1
  <2>3. C[k + 1] = After(C[k], divs[k + 1])
    BY <2>2, ContextScans
  <2>4. divs[k + 1] \in Divs
    BY <2>2
  <2>5. C[k] \in Places
    BY <1>2, <2>2
  <2> HIDE DEF C
  <2> QED BY <2>3, <2>4, <2>5, AfterTyped
<1> HIDE DEF G
<1>3. n \in G /\ n <= Len(divs)
  BY <1>1, <1>2, InductionBySet
<1> QED BY <1>3 DEF G

\* Where no heading comes the place stays, and the chapter where no chapter comes.
LEMMA ContextStays ==
  ASSUME NEW divs \in Seq(Divs), NEW a \in 0..Len(divs), NEW b \in 0..Len(divs), a <= b
  PROVE  /\ (\A j \in a + 1..b : divs[j].kind # "chapter")
              => Context(divs)[b].chapter = Context(divs)[a].chapter
         /\ (\A j \in a + 1..b : divs[j].kind \notin {"chapter", "section"})
              => Context(divs)[b] = Context(divs)[a]
<1> DEFINE C == Context(divs)
           Same(k) ==
             /\ (\A j \in a + 1..k : divs[j].kind # "chapter") => C[k].chapter = C[a].chapter
             /\ (\A j \in a + 1..k : divs[j].kind \notin {"chapter", "section"}) => C[k] = C[a]
           G == {n \in Nat : a + n <= Len(divs) => Same(a + n)}
<1>1. 0 \in G
  <2>1. a + 0 = a
    OBVIOUS
  <2> HIDE DEF C
  <2> QED BY <2>1
<1>2. ASSUME NEW n \in Nat, n \in G PROVE n + 1 \in G
  <2>1. SUFFICES ASSUME a + (n + 1) <= Len(divs) PROVE Same(a + (n + 1))
    OBVIOUS
  <2> DEFINE k == a + n
  <2>2. /\ k \in Nat /\ k + 1 = a + (n + 1) /\ k + 1 \in 1..Len(divs) /\ (k + 1) - 1 = k
        /\ k \in 0..Len(divs) /\ k <= Len(divs)
        /\ k + 1 \in a + 1..k + 1 /\ \A j \in a + 1..k : j \in a + 1..k + 1
    BY <2>1
  <2>3. Same(k)
    BY <1>2, <2>2
  <2> HIDE DEF k
  <2>4. C[k + 1] = After(C[k], divs[k + 1])
    BY <2>2, ContextScans
  <2>5. C[k] \in Places /\ divs[k + 1] \in Divs
    BY <2>2, ContextTyped
  <2> HIDE DEF C
  <2>6. divs[k + 1].kind # "chapter" => C[k + 1].chapter = C[k].chapter
    BY <2>4, <2>5 DEF After, Places
  <2>7. divs[k + 1].kind \notin {"chapter", "section"} => C[k + 1] = C[k]
    BY <2>4 DEF After
  <2>8. Same(k + 1)
    BY <2>2, <2>3, <2>6, <2>7
  <2> QED BY <2>2, <2>8
<1> HIDE DEF G
<1>3. b - a \in Nat /\ a + (b - a) = b
  OBVIOUS
<1>4. b - a \in G
  BY <1>1, <1>2, <1>3, InductionBySet
<1> HIDE DEF Same
<1>5. Same(b)
  BY <1>3, <1>4 DEF G
<1> QED BY <1>5 DEF Same

\* What document order makes of the nesting: no chapter comes between a <div> and
\* the one it lies in, and no section between an article and its section.
InOrder(divs, k) ==
  LET u == divs[k].up
  IN  /\ divs[k].kind = "chapter" => u = 0
      /\ divs[k].kind = "section" => u \in 1..k - 1 /\ divs[u].kind = "chapter"
      /\ u # 0 => \A j \in u + 1..k - 1 : divs[j].kind # "chapter"
      /\ divs[k].kind = "article" /\ u # 0 =>
           /\ u \in 1..k - 1 /\ divs[u].kind \in {"chapter", "section"}
           /\ divs[u].kind = "section" => \A j \in u + 1..k - 1 : divs[j].kind # "section"

LEMMA NestingInOrder ==
  ASSUME NEW divs \in Seq(Divs), Nested(divs), NEW k \in DOMAIN divs
  PROVE  divs[k].up \in 0..k - 1 /\ k \in 1..Len(divs) /\ InOrder(divs, k)
<1> DEFINE u == divs[k].up
<1>1. /\ DOMAIN divs = 1..Len(divs) /\ Len(divs) \in Nat
      /\ \A j \in 1..Len(divs) : divs[j].up \in Nat
  <2>1. DOMAIN divs = 1..Len(divs) /\ Len(divs) \in Nat
        /\ \A j \in 1..Len(divs) : divs[j] \in Divs
    OBVIOUS
  <2> QED BY <2>1 DEF Divs
<1>2. /\ \A j \in 1..Len(divs) :
           /\ divs[j].up < j
           /\ divs[j].kind = "chapter" => divs[j].up = 0
           /\ divs[j].kind = "section" =>
                divs[j].up # 0 /\ divs[divs[j].up].kind = "chapter"
      /\ \A j \in u + 1..k - 1 : divs[j].up >= u
      /\ divs[k].kind = "article" => u = 0 \/ divs[u].kind \in {"chapter", "section"}
  BY <1>1 DEF Nested
<1>3. u \in 0..k - 1 /\ k \in 1..Len(divs)
  BY <1>1, <1>2
<1>4. ASSUME u # 0, NEW j \in u + 1..k - 1 PROVE divs[j].kind # "chapter"
  <2>1. divs[j].up >= u /\ j \in 1..Len(divs) /\ u >= 1
    BY <1>2, <1>3, <1>4
  <2> QED BY <1>1, <1>2, <2>1
<1>5. ASSUME u # 0, divs[u].kind = "section", NEW j \in u + 1..k - 1
      PROVE  divs[j].kind # "section"
  <2> SUFFICES ASSUME divs[j].kind = "section" PROVE FALSE
    OBVIOUS
  <2> DEFINE v == divs[j].up
  <2>1. /\ v >= u /\ j \in 1..Len(divs) /\ v < j /\ v \in Nat
        /\ divs[v].kind = "chapter"
    BY <1>1, <1>2, <1>3, <1>5
  <2>2. v # u
    BY <1>5, <2>1
  <2> HIDE DEF v
  <2>3. v \in u + 1..k - 1
    BY <1>3, <1>5, <2>1, <2>2
  <2> QED BY <1>4, <1>5, <2>1, <2>3
<1> HIDE DEF u
<1>6. /\ divs[k].kind = "chapter" => u = 0
      /\ divs[k].kind = "section" => u # 0 /\ divs[u].kind = "chapter"
      /\ divs[k].kind = "article" => u = 0 \/ divs[u].kind \in {"chapter", "section"}
  BY <1>2, <1>3 DEF u
<1>7. u # 0 => u \in 1..k - 1
  BY <1>3
<1> QED BY <1>3, <1>4, <1>5, <1>6, <1>7 DEF InOrder, u

\* A section is entered in the chapter it lies in.
LEMMA SectionsChapter ==
  ASSUME NEW divs \in Seq(Divs), Nested(divs), NEW k \in DOMAIN divs,
         divs[k].kind = "section"
  PROVE  /\ Context(divs)[k].chapter = Enclosing(divs, k, "chapter")
         /\ Context(divs)[k].section = divs[k].no
<1> DEFINE C == Context(divs)
           v == divs[k].up
<1>1. PICK g : /\ Climb(g, divs, "chapter", Len(divs))
               /\ \A i \in DOMAIN divs : Enclosing(divs, i, "chapter") = g[divs[i].up]
  BY EnclosingClimbs
<1>2. /\ k \in 1..Len(divs) /\ v \in 1..k - 1 /\ divs[v].kind = "chapter"
      /\ v \in 0..Len(divs) /\ k - 1 \in 0..Len(divs) /\ v <= k - 1 /\ v \in 1..Len(divs)
      /\ \A j \in v + 1..k - 1 : divs[j].kind # "chapter"
  <2>1. /\ k \in 1..Len(divs) /\ v \in 1..k - 1 /\ divs[v].kind = "chapter" /\ v # 0
        /\ \A j \in v + 1..k - 1 : divs[j].kind # "chapter"
    BY NestingInOrder DEF InOrder
  <2>2. Len(divs) \in Nat
    OBVIOUS
  <2> HIDE DEF v
  <2> QED BY <2>1, <2>2
<1>3. C[k - 1].chapter = C[v].chapter
  BY <1>2, ContextStays
<1>4. C[v] = After(C[v - 1], divs[v]) /\ C[k] = After(C[k - 1], divs[k])
  BY <1>2, ContextScans
<1>5. C[k - 1] \in Places
  BY <1>2, ContextTyped
<1>6. g[v] = divs[v].no
  <2>1. \A n \in 0..Len(divs) : g[n] = IF n = 0 THEN 0 ELSE
             IF divs[n].kind = "chapter" THEN divs[n].no ELSE g[divs[n].up]
    BY <1>1 DEF Climb
  <2> HIDE DEF v
  <2> QED BY <1>2, <2>1
<1>7. Enclosing(divs, k, "chapter") = g[v]
  BY <1>1
<1> HIDE DEF C, v
<1>8. C[v].chapter = divs[v].no
  BY <1>2, <1>4 DEF After, EnterChapter
<1>9. C[k] = [C[k - 1] EXCEPT !.section = divs[k].no]
  BY <1>4 DEF After
<1>10. C[k].chapter = C[k - 1].chapter /\ C[k].section = divs[k].no
  BY <1>5, <1>9 DEF Places
<1>11. C[k].chapter = Enclosing(divs, k, "chapter") /\ C[k].section = divs[k].no
  BY <1>3, <1>6, <1>7, <1>8, <1>10
<1> QED BY <1>11 DEF C

\* The chapter and the section in force are the last ones entered, that section in
\* that chapter.
LastChapter(divs, k, no) ==
  \E j \in 1..k : /\ divs[j].kind = "chapter" /\ divs[j].no = no
                  /\ \A m \in j + 1..k : divs[m].kind # "chapter"

LastSection(divs, k, no, chapter) ==
  \E j \in 1..k : /\ divs[j].kind = "section" /\ divs[j].no = no
                  /\ Enclosing(divs, j, "chapter") = chapter
                  /\ \A m \in j + 1..k : divs[m].kind # "section"

InForce(divs, k, p) ==
  /\ p.chapter # 0 => LastChapter(divs, k, p.chapter)
  /\ p.section # 0 => LastSection(divs, k, p.section, p.chapter)

LEMMA ContextInForce ==
  ASSUME NEW divs \in Seq(Divs), Nested(divs), NEW n \in 0..Len(divs)
  PROVE  InForce(divs, n, Context(divs)[n])
<1> DEFINE C == Context(divs)
           G == {k \in Nat : k <= Len(divs) => InForce(divs, k, C[k])}
<1>1. 0 \in G
  <2>1. C[0] = Nowhere
    BY ContextScans
  <2> HIDE DEF C
  <2> QED BY <2>1 DEF InForce, Nowhere
<1>2. ASSUME NEW k \in Nat, k \in G PROVE k + 1 \in G
  <2>1. SUFFICES ASSUME k + 1 <= Len(divs) PROVE InForce(divs, k + 1, C[k + 1])
    OBVIOUS
  <2>2. /\ k + 1 \in 1..Len(divs) /\ (k + 1) - 1 = k /\ k <= Len(divs)
        /\ k \in 0..Len(divs) /\ k + 1 \in DOMAIN divs /\ k + 1 \in 1..k + 1
        /\ \A j \in 1..k : j \in 1..k + 1
        /\ \A j \in 1..k + 1 : \A m \in j + 1..k + 1 :
             m = k + 1 \/ (j \in 1..k /\ m \in j + 1..k)
        /\ \A m \in (k + 1) + 1..k + 1 : FALSE
    BY <2>1
  <2>3. InForce(divs, k, C[k])
    BY <1>2, <2>2
  <2>4. C[k + 1] = After(C[k], divs[k + 1])
    BY <2>2, ContextScans
  <2>5. C[k] \in Places
    BY <2>2, ContextTyped
  <2> DEFINE d == divs[k + 1]
             p == C[k]
             q == C[k + 1]
  <2>6. d.kind = "section" => q.chapter = Enclosing(divs, k + 1, "chapter") /\ q.section = d.no
    BY <2>2, SectionsChapter
  <2>7. d.kind # "chapter" => \A no : LastChapter(divs, k, no) => LastChapter(divs, k + 1, no)
    BY <2>2 DEF LastChapter
  <2>8. d.kind # "section" => \A no, c : LastSection(divs, k, no, c) => LastSection(divs, k + 1, no, c)
    BY <2>2 DEF LastSection
  <2>9. CASE d.kind = "chapter"
    <3>1. LastChapter(divs, k + 1, d.no)
      BY <2>2, <2>9 DEF LastChapter
    <3> HIDE DEF C, d
    <3>2. q.chapter = d.no /\ q.section = 0
      BY <2>4, <2>9 DEF After, EnterChapter, d
    <3> QED BY <3>1, <3>2 DEF InForce
  <2>10. CASE d.kind = "section"
    <3>1. LastSection(divs, k + 1, d.no, Enclosing(divs, k + 1, "chapter"))
      BY <2>2, <2>10 DEF LastSection
    <3> HIDE DEF C, d
    <3>2. q = [p EXCEPT !.section = d.no]
      BY <2>4, <2>10 DEF After, d
    <3>3. q.chapter = p.chapter
      BY <2>5, <3>2 DEF Places
    <3> QED BY <2>3, <2>6, <2>7, <2>10, <3>1, <3>3 DEF InForce
  <2>11. CASE d.kind \notin {"chapter", "section"}
    <3> HIDE DEF C, d
    <3>1. q = p
      BY <2>4, <2>11 DEF After, d
    <3> QED BY <2>3, <2>7, <2>8, <2>11, <3>1 DEF InForce
  <2> QED BY <2>9, <2>10, <2>11
<1> HIDE DEF G
<1>3. n \in G /\ n <= Len(divs)
  BY <1>1, <1>2, InductionBySet
<1> QED BY <1>3 DEF G

\* A chapter and a section an article may say it lies in.
Stands(divs, i, chapter, section) ==
  /\ SaidToLieIn(divs, i, "chapter", chapter)
  /\ SaidToLieIn(divs, i, "section", section)
  /\ section # 0 => \E j \in 1..i - 1 : /\ divs[j].kind = "section" /\ divs[j].no = section
                                        /\ Enclosing(divs, j, "chapter") = chapter

\* So the flat scan tells of the nesting.
LEMMA ScanTellsNesting ==
  ASSUME NEW divs \in Seq(Divs), Nested(divs), NEW i \in DOMAIN divs,
         divs[i].kind = "article"
  PROVE  Stands(divs, i, Context(divs)[i].chapter, Context(divs)[i].section)
<1> DEFINE C == Context(divs)
           u == divs[i].up
<1>1. PICK g : /\ Climb(g, divs, "chapter", Len(divs))
               /\ \A k \in DOMAIN divs : Enclosing(divs, k, "chapter") = g[divs[k].up]
  BY EnclosingClimbs
<1>2. PICK h : /\ Climb(h, divs, "section", Len(divs))
               /\ \A k \in DOMAIN divs : Enclosing(divs, k, "section") = h[divs[k].up]
  BY EnclosingClimbs
<1>3. /\ \A k \in 0..Len(divs) :
           g[k] = IF k = 0 THEN 0 ELSE IF divs[k].kind = "chapter" THEN divs[k].no
                  ELSE g[divs[k].up]
      /\ \A k \in 0..Len(divs) :
           h[k] = IF k = 0 THEN 0 ELSE IF divs[k].kind = "section" THEN divs[k].no
                  ELSE h[divs[k].up]
  BY <1>1, <1>2 DEF Climb
<1>4. Enclosing(divs, i, "chapter") = g[u] /\ Enclosing(divs, i, "section") = h[u]
  BY <1>1, <1>2
<1>5. /\ i \in 1..Len(divs) /\ i \in 0..Len(divs) /\ u \in 0..i - 1
      /\ InOrder(divs, i)
      /\ u \in 0..Len(divs) /\ u <= i
      /\ u # 0 => u \in DOMAIN divs
  <2>1. i \in 1..Len(divs) /\ u \in 0..i - 1 /\ InOrder(divs, i)
    BY NestingInOrder
  <2>2. Len(divs) \in Nat /\ DOMAIN divs = 1..Len(divs)
    OBVIOUS
  <2> HIDE DEF u
  <2> QED BY <2>1, <2>2
<1>6. /\ \A j \in 1..i : divs[j].kind # "article" => j \in 1..i - 1
      /\ \A j, m : m \in j + 1..i - 1 => m \in j + 1..i
  <2>1. \A j \in 1..i : j # i => j \in 1..i - 1
    BY <1>5
  <2>2. \A j, m : m \in j + 1..i - 1 => m \in j + 1..i
    BY <1>5
  <2> QED BY <2>1, <2>2
<1>7. InForce(divs, i, C[i])
  BY <1>5, ContextInForce
\* The chapter.
<1>8. SaidToLieIn(divs, i, "chapter", C[i].chapter)
  <2>1. CASE u = 0
    <3>1. Enclosing(divs, i, "chapter") = 0
      BY <1>3, <1>4, <1>5, <2>1
    <3>2. C[i].chapter # 0 => LastChapter(divs, i, C[i].chapter)
      BY <1>7 DEF InForce
    <3> HIDE DEF C
    <3> QED BY <1>6, <3>1, <3>2 DEF SaidToLieIn, LastChapter
  <2>2. CASE u # 0
    <3>1. \A j \in u + 1..i : divs[j].kind # "chapter"
      <4>1. \A j \in u + 1..i - 1 : divs[j].kind # "chapter"
        BY <1>5, <2>2 DEF InOrder
      <4>2. \A j \in u + 1..i : j \in u + 1..i - 1 \/ j = i
        BY <1>5
      <4> QED BY <4>1, <4>2
    <3>2. C[i].chapter = C[u].chapter
      BY <1>5, <3>1, ContextStays
    <3>3. C[u].chapter = g[u]
      <4>1. CASE divs[u].kind = "section"
        <5>1. C[u].chapter = Enclosing(divs, u, "chapter")
          BY <1>5, <2>2, <4>1, SectionsChapter
        <5>2. g[u] = g[divs[u].up] /\ Enclosing(divs, u, "chapter") = g[divs[u].up]
          BY <1>1, <1>3, <1>5, <2>2, <4>1
        <5> QED BY <5>1, <5>2
      <4>2. CASE divs[u].kind = "chapter"
        <5>1. C[u] = After(C[u - 1], divs[u]) /\ g[u] = divs[u].no
          BY <1>3, <1>5, <2>2, <4>2, ContextScans
        <5> HIDE DEF C
        <5> QED BY <4>2, <5>1 DEF After, EnterChapter
      <4> QED BY <1>5, <2>2, <4>1, <4>2 DEF InOrder
    <3> QED BY <1>4, <3>2, <3>3 DEF SaidToLieIn
  <2> QED BY <2>1, <2>2
\* The section.
<1>9. SaidToLieIn(divs, i, "section", C[i].section)
  <2>1. CASE u # 0 /\ divs[u].kind = "section"
    <3>1. \A j \in u + 1..i : divs[j].kind \notin {"chapter", "section"}
      <4>1. \A j \in u + 1..i - 1 : divs[j].kind \notin {"chapter", "section"}
        BY <1>5, <2>1 DEF InOrder
      <4>2. \A j \in u + 1..i : j \in u + 1..i - 1 \/ j = i
        BY <1>5
      <4> QED BY <4>1, <4>2
    <3>2. C[i] = C[u]
      BY <1>5, <3>1, ContextStays
    <3>3. C[u].section = divs[u].no
      BY <1>5, <2>1, SectionsChapter
    <3>4. h[u] = divs[u].no
      BY <1>3, <1>5, <2>1
    <3> HIDE DEF C
    <3> QED BY <1>4, <3>2, <3>3, <3>4 DEF SaidToLieIn
  <2>2. CASE ~(u # 0 /\ divs[u].kind = "section")
    <3>1. Enclosing(divs, i, "section") = 0
      <4>1. CASE u = 0
        BY <1>3, <1>4, <1>5, <4>1
      <4>2. CASE u # 0
        <5>1. divs[u].kind = "chapter" /\ u \in DOMAIN divs
          BY <1>5, <2>2, <4>2 DEF InOrder
        <5>2. divs[u].up = 0
          BY <5>1, NestingInOrder DEF InOrder
        <5>3. h[u] = h[0] /\ h[0] = 0
          BY <1>3, <1>5, <4>2, <5>1, <5>2
        <5> QED BY <1>4, <5>3
      <4> QED BY <4>1, <4>2
    <3>2. C[i].section # 0 => LastSection(divs, i, C[i].section, C[i].chapter)
      BY <1>7 DEF InForce
    <3> HIDE DEF C
    <3> QED BY <1>6, <3>1, <3>2 DEF SaidToLieIn, LastSection
  <2> QED BY <2>1, <2>2
\* That section in that chapter.
<1>10. C[i].section # 0 =>
         \E j \in 1..i - 1 : /\ divs[j].kind = "section" /\ divs[j].no = C[i].section
                             /\ Enclosing(divs, j, "chapter") = C[i].chapter
  <2>1. C[i].section # 0 => LastSection(divs, i, C[i].section, C[i].chapter)
    BY <1>7 DEF InForce
  <2> HIDE DEF C
  <2> QED BY <1>6, <2>1 DEF LastSection
<1> HIDE DEF C
<1> QED BY <1>8, <1>9, <1>10 DEF Stands, C

----------------------------------------------------------------------------
\* The chunks of a text.

Leaves(div) == IF Len(Paragraphs(div)) > 1 THEN 1..Len(Paragraphs(div)) ELSE {}

\* A leaf has its own number or its position, never the parent's 0.
LEMMA LeafFacts ==
  ASSUME NEW div \in Divs, NEW part \in Leaves(div)
  PROVE  /\ part \in DOMAIN div.paras /\ part \in Nat \ {0}
         /\ ParaNumber(div, part) = IF div.paras[part] # 0 THEN div.paras[part] ELSE part
         /\ ParaNumber(div, part) \in Nat \ {0}
<1>1. div.paras \in Seq(Nat)
  BY DEF Divs
<1>2. Len(<<0>>) = 1
  OBVIOUS
<1>3. Paragraphs(div) = div.paras /\ part \in 1..Len(div.paras)
  <2>1. CASE div.paras = <<>>
    <3>1. Paragraphs(div) = <<0>>
      BY <2>1 DEF Paragraphs
    <3>2. Leaves(div) = {}
      BY <1>2, <3>1 DEF Leaves
    <3> QED BY <3>2
  <2>2. CASE div.paras # <<>>
    <3>1. Paragraphs(div) = div.paras
      BY <2>2 DEF Paragraphs
    <3> QED BY <3>1 DEF Leaves
  <2> QED BY <2>1, <2>2
<1>4. part \in DOMAIN div.paras /\ part \in Nat \ {0} /\ div.paras[part] \in Nat
  BY <1>1, <1>3
<1> QED BY <1>3, <1>4 DEF ParaNumber

\* What a chunk says of the <div> it is cut from.
LEMMA ChunkFields ==
  ASSUME NEW t \in Texts, NEW i \in DOMAIN t.divs,
         t.divs[i].kind \in {"article", "recital"}, NEW para \in Nat, NEW part \in Nat
  PROVE  /\ Chunk(t, i, para, part) \in Chunks
         /\ Chunk(t, i, para, part).kind = t.divs[i].kind
         /\ Chunk(t, i, para, part).no = t.divs[i].no
         /\ Chunk(t, i, para, part).para = para
         /\ Chunk(t, i, para, part).edition = t.edition
         /\ Chunk(t, i, para, part).div = i
         /\ Chunk(t, i, para, part).part = part
         /\ t.divs[i].kind = "article" =>
              /\ Chunk(t, i, para, part).chapter = Context(t.divs)[i].chapter
              /\ Chunk(t, i, para, part).section = Context(t.divs)[i].section
<1> DEFINE c == IF t.divs[i].kind = "article" THEN Context(t.divs)[i]
                                             ELSE [chapter |-> 0, section |-> 0]
<1>1. /\ t.divs \in Seq(Divs) /\ t.edition \in Nat
      /\ i \in 0..Len(t.divs) /\ i \in Nat /\ t.divs[i] \in Divs
  BY DEF Texts
<1>2. Context(t.divs)[i] \in Places
  BY <1>1, ContextTyped
<1>3. c \in Places /\ c.chapter \in Nat /\ c.section \in Nat
  BY <1>2 DEF Places
<1>4. t.divs[i].no \in Nat
  BY <1>1 DEF Divs
<1>5. t.divs[i].kind = "article" => c = Context(t.divs)[i]
  OBVIOUS
<1>6. Chunk(t, i, para, part) =
        [kind |-> t.divs[i].kind, no |-> t.divs[i].no, para |-> para,
         chapter |-> c.chapter, section |-> c.section,
         edition |-> t.edition, div |-> i, part |-> part]
  BY DEF Chunk
<1> HIDE DEF c
<1> QED BY <1>1, <1>3, <1>4, <1>5, <1>6 DEF Chunks

KeptIn(t, n) == Kept(t.divs, "article", n) \cup Kept(t.divs, "recital", n)

CutAt(t, i, c) ==
  \/ c = Chunk(t, i, 0, 0)
  \/ /\ t.divs[i].kind = "article"
     /\ \E part \in Leaves(t.divs[i]) :
          c = Chunk(t, i, ParaNumber(t.divs[i], part), part)

\* An article is cut into its parent and its leaves.
LEMMA ArticleHolds ==
  ASSUME NEW t \in Texts, NEW i \in DOMAIN t.divs, t.divs[i].kind = "article"
  PROVE  /\ ArticleChunks(t, i) \in Seq(Chunks)
         /\ \A c : c \in ToSet(ArticleChunks(t, i)) <=> CutAt(t, i, c)
<1> DEFINE div == t.divs[i]
           n == Len(Paragraphs(div))
           m == IF n > 1 THEN n ELSE 0
           leaf(part) == Chunk(t, i, ParaNumber(div, part), part)
           whole == <<Chunk(t, i, 0, 0)>>
           leaves == [part \in 1..m |-> leaf(part)]
<1>1. div \in Divs /\ div.paras \in Seq(Nat)
  <2>1. t.divs \in Seq(Divs)
    BY DEF Texts
  <2>2. div \in Divs
    BY <2>1
  <2> QED BY <2>2 DEF Divs
<1>2. n \in Nat
  <2>1. Paragraphs(div) \in Seq(Nat)
    <3>1. <<0>> \in Seq(Nat)
      OBVIOUS
    <3> QED BY <1>1, <3>1, Zenon DEF Paragraphs
  <2> QED BY <2>1
<1>3. m \in Nat /\ 1..m = Leaves(div)
  BY <1>2 DEF Leaves
<1>4. \A part \in Leaves(div) : leaf(part) \in Chunks
  <2> SUFFICES ASSUME NEW part \in Leaves(div) PROVE leaf(part) \in Chunks
    OBVIOUS
  <2>1. ParaNumber(div, part) \in Nat /\ part \in Nat
    BY <1>1, LeafFacts
  <2> QED BY <2>1, ChunkFields
<1>5. Chunk(t, i, 0, 0) \in Chunks
  BY ChunkFields
<1>6. ArticleChunks(t, i) = whole \o leaves
  BY DEF ArticleChunks
<1> HIDE DEF leaf, m, div
<1>7. leaves \in Seq(Chunks) /\ ToSet(leaves) = {leaf(part) : part \in Leaves(div)}
  <2>1. leaves \in [1..m -> Chunks]
    BY <1>3, <1>4
  <2>2. leaves \in Seq(Chunks)
    BY <1>3, <2>1
  <2> QED BY <1>3, <2>2 DEF ToSet
<1>8. whole \in Seq(Chunks) /\ ToSet(whole) = {Chunk(t, i, 0, 0)}
  <2> DEFINE e == Chunk(t, i, 0, 0)
  <2> HIDE DEF e
  <2>1. e \in Chunks
    BY <1>5 DEF e
  <2>2. <<e>> \in Seq(Chunks) /\ DOMAIN <<e>> = {1} /\ <<e>>[1] = e
    BY <2>1
  <2>3. ToSet(<<e>>) = {e}
    BY <2>2 DEF ToSet
  <2> QED BY <2>2, <2>3 DEF e
<1> HIDE DEF whole, leaves
<1>9. /\ ArticleChunks(t, i) \in Seq(Chunks)
      /\ ToSet(ArticleChunks(t, i)) = {Chunk(t, i, 0, 0)} \cup {leaf(part) : part \in Leaves(div)}
  BY <1>6, <1>7, <1>8, ConcatHolds
<1> QED BY <1>9 DEF CutAt, leaf, div

\* A document is cut into the chunks of the articles and recitals under the cap.
LEMMA DocumentHolds ==
  ASSUME NEW t \in Texts, NEW n
  PROVE  /\ BuildChunks(t, n) \in Seq(Chunks)
         /\ \A c : c \in ToSet(BuildChunks(t, n)) <=> \E i \in KeptIn(t, n) : CutAt(t, i, c)
<1> DEFINE articles == Kept(t.divs, "article", n)
           recitals == Kept(t.divs, "recital", n)
           as == [i \in DOMAIN t.divs |-> IF i \in articles THEN ArticleChunks(t, i) ELSE <<>>]
           rs == [i \in DOMAIN t.divs |-> IF i \in recitals THEN <<Chunk(t, i, 0, 0)>> ELSE <<>>]
<1>1. t.divs \in Seq(Divs) /\ DOMAIN t.divs = 1..Len(t.divs) /\ Len(t.divs) \in Nat
  <2>1. t.divs \in Seq(Divs)
    BY DEF Texts
  <2> QED BY <2>1
<1>2. /\ articles \subseteq DOMAIN t.divs /\ \A i \in articles : t.divs[i].kind = "article"
      /\ recitals \subseteq DOMAIN t.divs /\ \A i \in recitals : t.divs[i].kind = "recital"
  BY DEF Kept
<1>3. BuildChunks(t, n) = FlattenSeq(as) \o FlattenSeq(rs)
  BY DEF BuildChunks
<1>4. KeptIn(t, n) = articles \cup recitals
  BY DEF KeptIn
<1> HIDE DEF articles, recitals
<1>5. <<>> \in Seq(Chunks) /\ ToSet(<<>>) = {}
  BY DEF ToSet
<1>6. \A i \in articles : /\ ArticleChunks(t, i) \in Seq(Chunks)
                         /\ \A c : c \in ToSet(ArticleChunks(t, i)) <=> CutAt(t, i, c)
  BY <1>2, ArticleHolds
<1>7. \A i \in recitals : /\ <<Chunk(t, i, 0, 0)>> \in Seq(Chunks)
                         /\ \A c : c \in ToSet(<<Chunk(t, i, 0, 0)>>) <=> CutAt(t, i, c)
  <2> SUFFICES ASSUME NEW i \in recitals
               PROVE  /\ <<Chunk(t, i, 0, 0)>> \in Seq(Chunks)
                      /\ \A c : c \in ToSet(<<Chunk(t, i, 0, 0)>>) <=> CutAt(t, i, c)
    OBVIOUS
  <2> DEFINE e == Chunk(t, i, 0, 0)
  <2>1. e \in Chunks
    BY <1>2, ChunkFields
  <2>2. \A c : CutAt(t, i, c) <=> c = e
    BY <1>2 DEF CutAt
  <2> HIDE DEF e
  <2>3. <<e>> \in Seq(Chunks) /\ DOMAIN <<e>> = {1} /\ <<e>>[1] = e
    BY <2>1
  <2>4. ToSet(<<e>>) = {e}
    BY <2>3 DEF ToSet
  <2>5. <<e>> \in Seq(Chunks) /\ \A c : c \in ToSet(<<e>>) <=> CutAt(t, i, c)
    BY <2>2, <2>3, <2>4
  <2> QED BY <2>5 DEF e
<1>8. /\ as \in Seq(Seq(Chunks)) /\ DOMAIN as = DOMAIN t.divs
      /\ \A i \in DOMAIN t.divs : as[i] = IF i \in articles THEN ArticleChunks(t, i) ELSE <<>>
  <2>1. as \in [1..Len(t.divs) -> Seq(Chunks)]
    BY <1>1, <1>5, <1>6
  <2> QED BY <1>1, <2>1
<1>9. /\ rs \in Seq(Seq(Chunks)) /\ DOMAIN rs = DOMAIN t.divs
      /\ \A i \in DOMAIN t.divs : rs[i] = IF i \in recitals THEN <<Chunk(t, i, 0, 0)>> ELSE <<>>
  <2>1. rs \in [1..Len(t.divs) -> Seq(Chunks)]
    BY <1>1, <1>5, <1>7
  <2> QED BY <1>1, <2>1
<1> HIDE DEF as, rs
<1>10. /\ FlattenSeq(as) \in Seq(Chunks)
       /\ \A c : c \in ToSet(FlattenSeq(as)) <=> \E i \in DOMAIN as : c \in ToSet(as[i])
  BY <1>8, FlattenHolds
<1>11. /\ FlattenSeq(rs) \in Seq(Chunks)
       /\ \A c : c \in ToSet(FlattenSeq(rs)) <=> \E i \in DOMAIN rs : c \in ToSet(rs[i])
  BY <1>9, FlattenHolds
<1>12. \A c : c \in ToSet(FlattenSeq(as)) <=> \E i \in articles : CutAt(t, i, c)
  <2>1. \A c : (\E i \in DOMAIN as : c \in ToSet(as[i]))
               <=> \E i \in articles : c \in ToSet(ArticleChunks(t, i))
    BY <1>2, <1>5, <1>8
  <2> QED BY <1>6, <1>10, <2>1
<1>13. \A c : c \in ToSet(FlattenSeq(rs)) <=> \E i \in recitals : CutAt(t, i, c)
  <2>1. \A c : (\E i \in DOMAIN rs : c \in ToSet(rs[i]))
               <=> \E i \in recitals : c \in ToSet(<<Chunk(t, i, 0, 0)>>)
    BY <1>2, <1>5, <1>9
  <2> QED BY <1>7, <1>11, <2>1
<1>14. /\ BuildChunks(t, n) \in Seq(Chunks)
       /\ ToSet(BuildChunks(t, n)) = ToSet(FlattenSeq(as)) \cup ToSet(FlattenSeq(rs))
  <2> DEFINE a == FlattenSeq(as)
             b == FlattenSeq(rs)
  <2>1. a \in Seq(Chunks) /\ b \in Seq(Chunks)
    BY <1>10, <1>11
  <2> HIDE DEF a, b
  <2>2. a \o b \in Seq(Chunks) /\ ToSet(a \o b) = ToSet(a) \cup ToSet(b)
    BY <2>1, ConcatHolds
  <2> QED BY <1>3, <2>2 DEF a, b
<1> QED BY <1>4, <1>12, <1>13, <1>14

----------------------------------------------------------------------------
\* The inductive invariant.

\* What is in the cache, or was parsed, is an edition or the beginning of one.
Fragment(d, t) ==
  /\ t \in Texts /\ t.edition \in DOMAIN Editions[d]
  /\ Len(t.divs) <= Len(Editions[d][t.edition])
  /\ \A i \in DOMAIN t.divs :
       LET div  == t.divs[i]
           full == Editions[d][t.edition][i]
       IN  /\ div.kind = full.kind /\ div.no = full.no /\ div.up = full.up
           /\ Len(div.paras) <= Len(full.paras)
           /\ \A k \in DOMAIN div.paras : div.paras[k] = full.paras[k]

\* The text is an edition, or the beginning of one if it was cut short.
Issued(d, t, short) ==
  t = TextOf(d, t.edition) \/ (short /\ t \in Beginnings(TextOf(d, t.edition)))

\* A chunk is in a table, or the one that takes its id is.
Stored(table, t, chunks, c) ==
  c \in table \/ \E r \in chunks \cap table : Hides(t, r, c)

\* No row of a table is newer than this edition.
NoneNewer(table, e) == \A r \in table : r.edition <= e

UniqueIds(table) == \A r, s \in table : ChunkId(r) = ChunkId(s) => r = s

InPlace(d, r) ==
  /\ r.edition \in DOMAIN Editions[d]
  /\ r.kind = "article" => Stands(Editions[d][r.edition], r.div, r.chapter, r.section)

Beside(r, table) == \E p \in table : p.para = 0 /\ p.kind = r.kind /\ p.no = r.no

\* A table that says truly where each of its rows stands.
Sound(d, table) ==
  /\ UniqueIds(table)
  /\ \A r \in table : InPlace(d, r) /\ (r.para # 0 => Beside(r, table))

\* A transaction on the table lacks of the text what is left to be upserted.
Transaction(d, t, n, left, table) ==
  /\ left \subseteq ToSet(BuildChunks(t, n))
  /\ UniqueIds(table) /\ NoneNewer(table, t.edition)
  /\ \A r \in table : InPlace(d, r) /\ (r.para # 0 => Beside(r, table \cup left))
  /\ \A c \in ToSet(BuildChunks(t, n)) :
       c \in left \/ Stored(table, t, ToSet(BuildChunks(t, n)), c)

\* Every edition served is one of the document's.
Served == \A d \in Slugs : upstream[d] \in DOMAIN Editions[d]

\* The cache has the beginning of an edition, all of it unless it was cut short.
Cached ==
  \A d \in Slugs : cache[d] # Absent =>
    Fragment(d, cache[d]) /\ Issued(d, cache[d], cut[d])

\* The table as DocumentWhole and ChunksFaithful want it.
Committed ==
  \A d \in Slugs :
    LET t == last[d].text
        chunks == ToSet(BuildChunks(t, last[d].cap))
    IN  /\ Sound(d, rows[d]) /\ NoneNewer(rows[d], t.edition)
        /\ t # Absent =>
             /\ Fragment(d, t) /\ Issued(d, t, last[d].cut)
             /\ \A c \in chunks : Stored(rows[d], t, chunks, c)

\* A document's texts only get newer on the way from the publisher to the table.
InTurn ==
  /\ \A d \in Slugs : /\ last[d].text.edition <= cache[d].edition
                      /\ cache[d].edition <= upstream[d]
  /\ at = "write" => /\ cache[Current].edition <= text.edition
                     /\ text.edition <= upstream[Current]

\* What is about to be written is an edition of the document.
Located ==
  at = "write" => /\ text.edition \in DOMAIN Editions[Current]
                  /\ text = TextOf(Current, text.edition)

\* What is being upserted is the text in the cache.
Underway ==
  at \in {"upsert", "commit"} =>
    /\ text = cache[Current] /\ text # Absent
    /\ (at = "commit") <=> (todo = <<>>)
    /\ Transaction(Current, text, cap, ToSet(todo), tx)

IInv == TypeOK /\ Served /\ Cached /\ Committed /\ InTurn /\ Located /\ Underway

----------------------------------------------------------------------------
\* What the chunks of a text say.

Says(t, i, c) ==
  /\ c \in Chunks /\ c.kind = t.divs[i].kind /\ c.no = t.divs[i].no
  /\ c.edition = t.edition /\ c.div = i
  /\ c.para = 0 => c = Chunk(t, i, 0, 0)
  /\ c.para # 0 => /\ c.kind = "article" /\ c.part \in Leaves(t.divs[i])
                   /\ c.para = ParaNumber(t.divs[i], c.part)
                   /\ c = Chunk(t, i, c.para, c.part)
  /\ c.kind = "article" => /\ c.chapter = Context(t.divs)[i].chapter
                           /\ c.section = Context(t.divs)[i].section

\* Whatever is cut from a <div> says where.
LEMMA CutSays ==
  ASSUME NEW t \in Texts, NEW i \in DOMAIN t.divs,
         t.divs[i].kind \in {"article", "recital"}, NEW c, CutAt(t, i, c)
  PROVE  Says(t, i, c)
<1>1. t.divs[i] \in Divs
  <2>1. t.divs \in Seq(Divs)
    BY DEF Texts
  <2> QED BY <2>1
<1>2. CASE c = Chunk(t, i, 0, 0)
  <2>1. c.para = 0 /\ c.kind = t.divs[i].kind /\ c.no = t.divs[i].no /\ c \in Chunks
        /\ c.edition = t.edition /\ c.div = i
        /\ (c.kind = "article" => /\ c.chapter = Context(t.divs)[i].chapter
                                  /\ c.section = Context(t.divs)[i].section)
    BY <1>2, ChunkFields
  <2> QED BY <1>2, <2>1 DEF Says
<1>3. ASSUME NEW part \in Leaves(t.divs[i]), t.divs[i].kind = "article",
             c = Chunk(t, i, ParaNumber(t.divs[i], part), part)
      PROVE  Says(t, i, c)
  <2> DEFINE para == ParaNumber(t.divs[i], part)
  <2>1. para \in Nat \ {0} /\ part \in Nat
    BY <1>1, LeafFacts
  <2> HIDE DEF para
  <2>2. c = Chunk(t, i, para, part)
    BY <1>3 DEF para
  <2>3. c.para = para /\ c.kind = t.divs[i].kind /\ c.no = t.divs[i].no /\ c \in Chunks
        /\ c.edition = t.edition /\ c.div = i /\ c.part = part
        /\ (c.kind = "article" => /\ c.chapter = Context(t.divs)[i].chapter
                                  /\ c.section = Context(t.divs)[i].section)
    BY <2>1, <2>2, ChunkFields
  <2>4. para = ParaNumber(t.divs[i], part)
    BY DEF para
  <2> QED BY <1>3, <2>1, <2>2, <2>3, <2>4 DEF Says
<1> QED BY <1>2, <1>3 DEF CutAt

\* Each chunk was cut from some <div>.
LEMMA ChunksSay ==
  ASSUME NEW t \in Texts, NEW n, NEW c \in ToSet(BuildChunks(t, n))
  PROVE  \E i \in KeptIn(t, n) : i \in DOMAIN t.divs /\ CutAt(t, i, c) /\ Says(t, i, c)
<1>1. PICK i \in KeptIn(t, n) : CutAt(t, i, c)
  BY DocumentHolds
<1>2. i \in DOMAIN t.divs /\ t.divs[i].kind \in {"article", "recital"}
  BY DEF KeptIn, Kept
<1> QED BY <1>1, <1>2, CutSays

\* A leaf's parent is among the chunks.
LEMMA ParentAmong ==
  ASSUME NEW t \in Texts, NEW n, NEW c \in ToSet(BuildChunks(t, n)), c.para # 0
  PROVE  \E p \in ToSet(BuildChunks(t, n)) :
           p.para = 0 /\ p.kind = c.kind /\ p.no = c.no
<1>1. PICK i \in KeptIn(t, n) : i \in DOMAIN t.divs /\ CutAt(t, i, c) /\ Says(t, i, c)
  BY ChunksSay
<1> DEFINE p == Chunk(t, i, 0, 0)
<1>2. CutAt(t, i, p)
  BY DEF CutAt
<1>3. p \in ToSet(BuildChunks(t, n))
  BY <1>2, DocumentHolds
<1>4. c.kind = "article" /\ c.kind = t.divs[i].kind /\ c.no = t.divs[i].no
  BY <1>1 DEF Says
<1>5. p.para = 0 /\ p.kind = t.divs[i].kind /\ p.no = t.divs[i].no
  BY <1>1, <1>4, ChunkFields
<1> QED BY <1>3, <1>4, <1>5

\* Chunks of one id are cut from one <div>, and are one unless they are leaves of
\* an article that numbers one of the two.
LEMMA IdsTell ==
  ASSUME NEW t \in Texts, Identified(t.divs), NEW n,
         NEW b \in ToSet(BuildChunks(t, n)), NEW c \in ToSet(BuildChunks(t, n)),
         ChunkId(b) = ChunkId(c)
  PROVE  b = c \/ Hides(t, b, c)
<1>1. PICK i \in KeptIn(t, n) : i \in DOMAIN t.divs /\ CutAt(t, i, b) /\ Says(t, i, b)
  BY ChunksSay
<1>2. PICK j \in KeptIn(t, n) : j \in DOMAIN t.divs /\ CutAt(t, j, c) /\ Says(t, j, c)
  BY ChunksSay
<1>3. b.kind = c.kind /\ b.no = c.no /\ b.para = c.para
  BY DEF ChunkId
<1>4. i = j
  <2>1. t.divs[i].kind \in {"article", "recital"}
    BY DEF KeptIn, Kept
  <2>2. t.divs[i].kind = t.divs[j].kind /\ t.divs[i].no = t.divs[j].no
    BY <1>1, <1>2, <1>3 DEF Says
  <2> QED BY <1>1, <1>2, <2>1, <2>2 DEF Identified
<1>5. b.div = i /\ c.div = i /\ ChunkId(b) = ChunkId(c)
  BY <1>1, <1>2, <1>4 DEF Says
<1>6. b = c \/ Hides(t, b, c)
  <2>1. CASE b.para = 0
    BY <1>1, <1>2, <1>3, <1>4, <2>1 DEF Says
  <2>2. CASE b.para # 0
    <3> DEFINE div == t.divs[i]
    <3>1. div \in Divs
      <4>1. t.divs \in Seq(Divs)
        BY DEF Texts
      <4> QED BY <1>1, <4>1
    <3>2. /\ b.part \in Leaves(div) /\ b.para = ParaNumber(div, b.part)
          /\ b = Chunk(t, i, b.para, b.part)
          /\ c.part \in Leaves(div) /\ c.para = ParaNumber(div, c.part)
          /\ c = Chunk(t, i, c.para, c.part)
      BY <1>1, <1>2, <1>3, <1>4, <2>2 DEF Says
    <3> HIDE DEF div
    <3>3. /\ b.part \in DOMAIN div.paras /\ c.part \in DOMAIN div.paras
          /\ b.part # 0 /\ c.part # 0
          /\ b.para = IF div.paras[b.part] # 0 THEN div.paras[b.part] ELSE b.part
          /\ c.para = IF div.paras[c.part] # 0 THEN div.paras[c.part] ELSE c.part
      BY <3>1, <3>2, LeafFacts
    <3>4. \A k, l \in DOMAIN div.paras :
            div.paras[k] = div.paras[l] /\ div.paras[k] # 0 => k = l
      BY <1>1 DEF Identified, div
    <3>5. CASE b.part = c.part
      BY <1>3, <3>2, <3>5
    <3>6. CASE b.part # c.part
      <4>1. (div.paras[b.part] = 0) # (div.paras[c.part] = 0)
        BY <1>3, <3>3, <3>4, <3>6
      <4> QED BY <1>5, <3>3, <4>1 DEF Hides, div
    <3> QED BY <3>5, <3>6
  <2> QED BY <2>1, <2>2
<1> QED BY <1>6

----------------------------------------------------------------------------
\* Editions and their beginnings.

\* What is assumed of the editions.
LEMMA EditionFacts ==
  ASSUME NEW d \in Slugs, NEW e \in DOMAIN Editions[d]
  PROVE  /\ e \in Nat \ {0} /\ Editions[d][e] \in Seq(Divs)
         /\ Identified(Editions[d][e]) /\ Nested(Editions[d][e])
<1>1. Editions[d] \in Seq(Seq(Divs))
  BY IngestAssumption DEF IngestAssumption
<1>2. e \in Nat \ {0} /\ Editions[d][e] \in Seq(Divs)
  BY <1>1
<1> QED BY <1>2, IngestAssumption DEF IngestAssumption

\* What was cut short still has its ids once, and its <div>s in their places.
LEMMA FragmentFacts ==
  ASSUME NEW d \in Slugs, NEW t, Fragment(d, t)
  PROVE  /\ Identified(t.divs)
         /\ \A k \in 0..Len(t.divs) : Context(t.divs)[k] = Context(Editions[d][t.edition])[k]
<1> DEFINE divs == t.divs
           full == Editions[d][t.edition]
<1>1. /\ divs \in Seq(Divs) /\ full \in Seq(Divs) /\ Identified(full)
      /\ Len(divs) <= Len(full)
  BY EditionFacts DEF Fragment, Texts
<1>2. \A i \in DOMAIN divs :
        /\ divs[i].kind = full[i].kind /\ divs[i].no = full[i].no
        /\ Len(divs[i].paras) <= Len(full[i].paras)
        /\ \A k \in DOMAIN divs[i].paras : divs[i].paras[k] = full[i].paras[k]
  BY DEF Fragment
<1> HIDE DEF divs, full
<1>3. /\ DOMAIN divs = 1..Len(divs) /\ DOMAIN full = 1..Len(full)
      /\ Len(divs) \in Nat /\ Len(full) \in Nat
      /\ \A i \in DOMAIN divs : i \in DOMAIN full
  BY <1>1
<1>4. ASSUME NEW i \in DOMAIN divs, NEW k \in DOMAIN divs[i].paras
      PROVE  k \in DOMAIN full[i].paras
  <2>1. divs[i] \in Divs /\ full[i] \in Divs
    BY <1>1, <1>3
  <2>2. divs[i].paras \in Seq(Nat) /\ full[i].paras \in Seq(Nat)
    BY <2>1 DEF Divs
  <2> QED BY <1>2, <2>2
<1>5. Identified(divs)
  <2>1. ASSUME NEW i \in DOMAIN divs, NEW j \in DOMAIN divs,
               divs[i].kind \in {"article", "recital"},
               divs[i].kind = divs[j].kind, divs[i].no = divs[j].no
        PROVE  i = j
    <3>1. full[i].kind = divs[i].kind /\ full[j].kind = divs[j].kind
          /\ full[i].no = full[j].no /\ i \in DOMAIN full /\ j \in DOMAIN full
      BY <1>2, <1>3, <2>1
    <3> QED BY <1>1, <2>1, <3>1 DEF Identified
  <2>2. ASSUME NEW i \in DOMAIN divs,
               NEW k \in DOMAIN divs[i].paras, NEW l \in DOMAIN divs[i].paras,
               divs[i].paras[k] = divs[i].paras[l], divs[i].paras[k] # 0
        PROVE  k = l
    <3>1. /\ i \in DOMAIN full /\ k \in DOMAIN full[i].paras /\ l \in DOMAIN full[i].paras
          /\ full[i].paras[k] = divs[i].paras[k] /\ full[i].paras[l] = divs[i].paras[l]
      BY <1>2, <1>3, <1>4
    <3> QED BY <1>1, <2>2, <3>1 DEF Identified
  <2> QED BY <2>1, <2>2 DEF Identified
<1> DEFINE C == Context(divs)
           F == Context(full)
           G == {k \in Nat : k <= Len(divs) => C[k] = F[k]}
<1>6. 0 \in G
  <2>1. C[0] = Nowhere /\ F[0] = Nowhere
    BY <1>1, ContextScans
  <2> HIDE DEF C, F
  <2> QED BY <2>1
<1>7. ASSUME NEW k \in Nat, k \in G PROVE k + 1 \in G
  <2>1. SUFFICES ASSUME k + 1 <= Len(divs) PROVE C[k + 1] = F[k + 1]
    OBVIOUS
  <2>2. /\ k + 1 \in 1..Len(divs) /\ k + 1 \in 1..Len(full) /\ (k + 1) - 1 = k
        /\ k <= Len(divs)
    BY <1>1, <1>3, <2>1
  <2>3. C[k + 1] = After(C[k], divs[k + 1]) /\ F[k + 1] = After(F[k], full[k + 1])
    BY <1>1, <2>2, ContextScans
  <2>4. C[k] = F[k]
    BY <1>7, <2>2
  <2>5. divs[k + 1].kind = full[k + 1].kind /\ divs[k + 1].no = full[k + 1].no
    BY <1>2, <1>3, <2>2
  <2> HIDE DEF C, F
  <2>6. After(F[k], divs[k + 1]) = After(F[k], full[k + 1])
    BY <2>5 DEF After
  <2> QED BY <2>3, <2>4, <2>6
<1> HIDE DEF G
<1>8. \A k \in Nat : k \in G
  BY <1>6, <1>7, InductionBySet
<1>9. \A k \in 0..Len(divs) : C[k] = F[k]
  BY <1>3, <1>8 DEF G
<1> QED BY <1>5, <1>9 DEF divs, full

\* Every chunk of a text stands where its edition has its article.
LEMMA ChunksInPlace ==
  ASSUME NEW d \in Slugs, NEW t, Fragment(d, t), NEW n,
         NEW c \in ToSet(BuildChunks(t, n))
  PROVE  InPlace(d, c)
<1>1. t \in Texts /\ t.edition \in DOMAIN Editions[d]
  BY DEF Fragment
<1>2. PICK i \in KeptIn(t, n) : i \in DOMAIN t.divs /\ CutAt(t, i, c) /\ Says(t, i, c)
  BY <1>1, ChunksSay
<1> DEFINE full == Editions[d][t.edition]
<1>3. /\ full \in Seq(Divs) /\ Nested(full) /\ t.divs \in Seq(Divs)
      /\ Len(t.divs) <= Len(full) /\ full[i].kind = t.divs[i].kind
  BY <1>1, <1>2, EditionFacts DEF Fragment, Texts
<1>4. i \in 0..Len(t.divs) /\ i \in DOMAIN full
  BY <1>2, <1>3
<1>5. c.edition = t.edition /\ c.div = i /\ c.kind = t.divs[i].kind
      /\ (c.kind = "article" => /\ c.chapter = Context(t.divs)[i].chapter
                                /\ c.section = Context(t.divs)[i].section)
  BY <1>2 DEF Says
<1>6. Context(t.divs)[i] = Context(full)[i]
  BY <1>4, FragmentFacts
<1>7. ASSUME c.kind = "article"
      PROVE  Stands(full, i, Context(full)[i].chapter, Context(full)[i].section)
  BY <1>3, <1>4, <1>5, <1>7, ScanTellsNesting
<1> QED BY <1>1, <1>5, <1>6, <1>7 DEF InPlace

\* An edition is a fragment of itself.
LEMMA WholeTexts ==
  ASSUME NEW d \in Slugs, NEW e \in DOMAIN Editions[d]
  PROVE  /\ Fragment(d, TextOf(d, e)) /\ TextOf(d, e) \in Texts
         /\ TextOf(d, e) # Absent /\ TextOf(d, e).edition = e
<1>1. e \in Nat \ {0} /\ Editions[d][e] \in Seq(Divs)
  BY EditionFacts
<1> DEFINE full == Editions[d][e]
<1>2. /\ TextOf(d, e) = [edition |-> e, divs |-> full]
      /\ TextOf(d, e).edition = e /\ TextOf(d, e).divs = full
  BY DEF TextOf
<1>3. TextOf(d, e) \in Texts
  BY <1>1, <1>2 DEF Texts
<1>4. TextOf(d, e) # Absent
  <2>1. Absent.edition = 0
    BY DEF Absent
  <2> QED BY <1>1, <1>2, <2>1
<1>5. \A i \in DOMAIN full : Len(full[i].paras) \in Nat
  <2>1. \A i \in DOMAIN full : full[i] \in Divs
    BY <1>1
  <2>2. \A i \in DOMAIN full : full[i].paras \in Seq(Nat)
    BY <2>1 DEF Divs
  <2> QED BY <2>2
<1>6. Len(full) \in Nat
  BY <1>1
<1> HIDE DEF full
<1>7. Fragment(d, TextOf(d, e))
  <2>1. Len(full) <= Len(full) /\ \A i \in DOMAIN full : Len(full[i].paras) <= Len(full[i].paras)
    BY <1>5, <1>6
  <2> QED BY <1>2, <1>3, <2>1 DEF Fragment, full
<1> QED BY <1>2, <1>3, <1>4, <1>7

\* The first bytes of an edition are a fragment of it.
LEMMA BeginningsFragment ==
  ASSUME NEW d \in Slugs, NEW e \in DOMAIN Editions[d],
         NEW t \in Beginnings(TextOf(d, e))
  PROVE  Fragment(d, t) /\ t.edition = e
<1> DEFINE full == Editions[d][e]
           w == TextOf(d, e)
<1>1. e \in Nat \ {0} /\ full \in Seq(Divs)
  BY EditionFacts
<1>2. w = [edition |-> e, divs |-> full] /\ w.divs = full
  BY DEF TextOf
<1>3. /\ DOMAIN full = 1..Len(full) /\ Len(full) \in Nat
      /\ \A i \in DOMAIN full : full[i] \in Divs
  BY <1>1
<1>4. \A i \in DOMAIN full : /\ full[i].paras \in Seq(Nat) /\ Len(full[i].paras) \in Nat
  <2>1. \A i \in DOMAIN full : full[i].paras \in Seq(Nat)
    BY <1>3 DEF Divs
  <2> QED BY <2>1
<1> HIDE DEF w
<1>5. ASSUME NEW n \in 0..Len(full) - 1, t = [w EXCEPT !.divs = SubSeq(@, 1, n)]
      PROVE  Fragment(d, t) /\ t.edition = e
  <2> DEFINE s == SubSeq(full, 1, n)
  <2>1. s \in Seq(Divs) /\ DOMAIN s = 1..n /\ Len(s) = n /\ \A i \in 1..n : s[i] = full[i]
    BY <1>1, <1>3
  <2>2. t = [edition |-> e, divs |-> s]
    BY <1>2, <1>5
  <2>3. n <= Len(full) /\ \A i \in 1..n : i \in DOMAIN full
    BY <1>3
  <2>4. t.edition = e /\ t.divs = s
    BY <2>2
  <2> HIDE DEF s
  <2>5. t \in Texts
    BY <1>1, <2>1, <2>2 DEF Texts
  <2>6. \A i \in 1..n : Len(full[i].paras) <= Len(full[i].paras)
    BY <1>4, <2>3
  <2> QED BY <2>1, <2>3, <2>4, <2>5, <2>6 DEF Fragment
<1>6. ASSUME NEW n \in DOMAIN full, NEW k \in 0..Len(full[n].paras) - 1,
             t = [w EXCEPT !.divs = Append(SubSeq(@, 1, n - 1), FewerParas(full[n], k))]
      PROVE  Fragment(d, t) /\ t.edition = e
  <2> DEFINE ps == SubSeq(full[n].paras, 1, k)
             div == FewerParas(full[n], k)
             s == SubSeq(full, 1, n - 1)
             a == Append(s, div)
  <2>1. /\ ps \in Seq(Nat) /\ Len(ps) = k /\ k <= Len(full[n].paras)
        /\ \A j \in DOMAIN ps : ps[j] = full[n].paras[j]
    BY <1>4
  <2>2. full[n] \in Divs
    BY <1>3
  <2>3. div = [full[n] EXCEPT !.paras = ps]
    BY DEF FewerParas
  <2> HIDE DEF ps
  <2>4. /\ div.kind = full[n].kind /\ div.no = full[n].no /\ div.up = full[n].up
        /\ div.paras = ps
    BY <2>2, <2>3 DEF Divs
  <2>5. div \in Divs
    BY <2>1, <2>2, <2>3 DEF Divs
  <2>6. s \in Seq(Divs) /\ Len(s) = n - 1 /\ \A i \in 1..n - 1 : s[i] = full[i]
    BY <1>1, <1>3
  <2> HIDE DEF s, div
  <2>7. /\ a \in Seq(Divs) /\ DOMAIN a = 1..n /\ Len(a) = n /\ a[n] = div
        /\ \A i \in 1..n - 1 : a[i] = s[i]
    BY <1>3, <2>5, <2>6
  <2> HIDE DEF a
  <2>8. t = [edition |-> e, divs |-> a]
    BY <1>2, <1>6 DEF a, s, div
  <2>9. t.edition = e /\ t.divs = a /\ t \in Texts
    BY <1>1, <2>7, <2>8 DEF Texts
  <2>10. n <= Len(full)
    BY <1>3
  <2>11. ASSUME NEW i \in 1..n
         PROVE  /\ a[i].kind = full[i].kind /\ a[i].no = full[i].no /\ a[i].up = full[i].up
                /\ Len(a[i].paras) <= Len(full[i].paras)
                /\ \A j \in DOMAIN a[i].paras : a[i].paras[j] = full[i].paras[j]
    <3>1. CASE i = n
      BY <2>1, <2>4, <2>7, <3>1
    <3>2. CASE i # n
      <4>1. i \in 1..n - 1 /\ i \in DOMAIN full
        BY <1>3, <3>2
      <4>2. a[i] = full[i] /\ Len(full[i].paras) <= Len(full[i].paras)
        BY <1>4, <2>6, <2>7, <4>1
      <4> QED BY <4>2
    <3> QED BY <3>1, <3>2
  <2> QED BY <2>7, <2>9, <2>10, <2>11 DEF Fragment
<1>7. t \in Beginnings(w)
  BY DEF w
<1>8. \/ \E n \in 0..Len(w.divs) - 1 : t = [w EXCEPT !.divs = SubSeq(@, 1, n)]
      \/ \E n \in DOMAIN w.divs : \E k \in 0..Len(w.divs[n].paras) - 1 :
           t = [w EXCEPT !.divs = Append(SubSeq(@, 1, n - 1), FewerParas(w.divs[n], k))]
  BY <1>7 DEF Beginnings
<1>9. CASE \E n \in 0..Len(w.divs) - 1 : t = [w EXCEPT !.divs = SubSeq(@, 1, n)]
  BY <1>2, <1>5, <1>9
<1>10. CASE \E n \in DOMAIN w.divs : \E k \in 0..Len(w.divs[n].paras) - 1 :
              t = [w EXCEPT !.divs = Append(SubSeq(@, 1, n - 1), FewerParas(w.divs[n], k))]
  BY <1>2, <1>6, <1>10
<1> QED BY <1>8, <1>9, <1>10

----------------------------------------------------------------------------
\* Transactions.

\* A transaction begins on a sound table with everything left to do.
LEMMA TransactionBegins ==
  ASSUME NEW d, NEW t, NEW n, NEW table, Sound(d, table), NoneNewer(table, t.edition)
  PROVE  Transaction(d, t, n, ToSet(BuildChunks(t, n)), table)
<1> DEFINE chunks == ToSet(BuildChunks(t, n))
<1> HIDE DEF chunks
<1>1. \A r \in table : r.para # 0 => Beside(r, table \cup chunks)
  BY DEF Sound, Beside
<1> QED BY <1>1 DEF Sound, Transaction, chunks

\* Upserting a chunk takes it off what is left: it replaces the row of its id,
\* and a parent that goes is itself put back.
LEMMA TransactionGoes ==
  ASSUME NEW d \in Slugs, NEW t, Fragment(d, t), NEW n, NEW c, NEW rest, NEW table,
         Transaction(d, t, n, {c} \cup rest, table)
  PROVE  Transaction(d, t, n, rest, Upserted(table, c))
<1> DEFINE chunks == ToSet(BuildChunks(t, n))
           left == {c} \cup rest
           new == Upserted(table, c)
<1>1. t \in Texts /\ Identified(t.divs)
  BY FragmentFacts DEF Fragment
<1>2. left \subseteq chunks /\ c \in chunks /\ rest \subseteq chunks
  BY DEF Transaction
<1>3. new = {r \in table : ChunkId(r) # ChunkId(c)} \cup {c}
  BY DEF Upserted
<1>4. InPlace(d, c)
  BY <1>2, ChunksInPlace
<1>5. UniqueIds(new)
  BY <1>3 DEF Transaction, UniqueIds
<1>6. ASSUME NEW x \in chunks PROVE x \in rest \/ Stored(new, t, chunks, x)
  <2>1. ASSUME ChunkId(c) = ChunkId(x) PROVE Stored(new, t, chunks, x)
    <3>1. c = x \/ Hides(t, c, x)
      BY <1>1, <1>2, <1>6, <2>1, IdsTell
    <3> HIDE DEF chunks, new
    <3> QED BY <1>2, <1>3, <3>1 DEF Stored
  <2>2. x \in left \/ Stored(table, t, chunks, x)
    BY DEF Transaction
  <2> HIDE DEF chunks, new
  <2>3. CASE x \in table
    BY <1>3, <2>1, <2>3 DEF Stored
  <2>4. CASE \E r \in chunks \cap table : Hides(t, r, x)
    <3>1. PICK r \in chunks \cap table : Hides(t, r, x)
      BY <2>4
    <3>2. ChunkId(r) = ChunkId(x)
      BY <3>1 DEF Hides
    <3>3. CASE ChunkId(r) = ChunkId(c)
      BY <2>1, <3>2, <3>3
    <3>4. CASE ChunkId(r) # ChunkId(c)
      <4>1. r \in chunks \cap new
        BY <1>3, <3>1, <3>4
      <4> QED BY <3>1, <4>1 DEF Stored
    <3> QED BY <3>3, <3>4
  <2>5. CASE x = c
    BY <2>1, <2>5
  <2> QED BY <2>2, <2>3, <2>4, <2>5 DEF Stored
<1>7. ASSUME NEW r \in new, r.para # 0 PROVE Beside(r, new \cup rest)
  <2>1. PICK p \in table \cup left : p.para = 0 /\ p.kind = r.kind /\ p.no = r.no
    <3>1. CASE r \in table
      BY <1>7, <3>1 DEF Transaction, Beside
    <3>2. CASE r = c
      <4>1. PICK p \in chunks : p.para = 0 /\ p.kind = r.kind /\ p.no = r.no
        BY <1>1, <1>2, <1>7, <3>2, ParentAmong
      <4>2. p \in left \/ Stored(table, t, chunks, p)
        BY DEF Transaction
      <4>3. p \in left \/ \E q \in table : ChunkId(q) = ChunkId(p)
        BY <4>2 DEF Stored, Hides
      <4> HIDE DEF chunks
      <4> QED BY <4>1, <4>3 DEF ChunkId
    <3> QED BY <1>3, <3>1, <3>2
  <2> HIDE DEF chunks, new
  <2>2. CASE p \in new \cup rest
    BY <2>1, <2>2 DEF Beside
  <2>3. CASE p \notin new \cup rest
    <3>1. ChunkId(p) = ChunkId(c) /\ c \in new
      BY <1>3, <2>1, <2>3
    <3>2. c.para = 0 /\ c.kind = r.kind /\ c.no = r.no
      BY <2>1, <3>1 DEF ChunkId
    <3> QED BY <3>1, <3>2 DEF Beside
  <2> QED BY <2>2, <2>3
<1>8. \A r \in new : InPlace(d, r)
  BY <1>3, <1>4 DEF Transaction
<1>9. NoneNewer(new, t.edition)
  <2>1. c.edition = t.edition /\ t.edition \in Nat
    BY <1>1, <1>2, ChunksSay DEF Says, Texts
  <2>2. c.edition <= t.edition
    BY <2>1
  <2> HIDE DEF new
  <2> QED BY <1>3, <2>2 DEF Transaction, NoneNewer
<1> QED BY <1>2, <1>5, <1>6, <1>7, <1>8, <1>9 DEF Transaction

\* With nothing left the table is sound and has all of the text.
LEMMA TransactionEnds ==
  ASSUME NEW d, NEW t, NEW n, NEW table, Transaction(d, t, n, {}, table)
  PROVE  /\ Sound(d, table) /\ NoneNewer(table, t.edition)
         /\ \A c \in ToSet(BuildChunks(t, n)) :
              Stored(table, t, ToSet(BuildChunks(t, n)), c)
<1>1. table \cup {} = table
  OBVIOUS
<1> QED BY <1>1 DEF Transaction, Sound

----------------------------------------------------------------------------
\* The command.

\* A sequence is its head and its tail.
LEMMA HeadAndTail ==
  ASSUME NEW S, NEW s \in Seq(S), s # <<>>
  PROVE  /\ Head(s) \in S /\ Tail(s) \in Seq(S)
         /\ ToSet(s) = {Head(s)} \cup ToSet(Tail(s))
         /\ Len(s) = 1 <=> Tail(s) = <<>>
<1>1. /\ DOMAIN s = 1..Len(s) /\ Len(s) \in Nat \ {0} /\ Head(s) = s[1] /\ Head(s) \in S
      /\ Tail(s) \in Seq(S) /\ Len(Tail(s)) = Len(s) - 1
      /\ \A i \in 1..Len(s) - 1 : Tail(s)[i] = s[i + 1]
  OBVIOUS
<1>2. DOMAIN Tail(s) = 1..Len(s) - 1
  BY <1>1
<1> DEFINE r == Tail(s)
           h == Head(s)
<1>3. Len(s) = 1 <=> r = <<>>
  <2>1. r \in Seq(S) /\ Len(r) = Len(s) - 1 /\ Len(s) \in Nat
    BY <1>1
  <2> HIDE DEF r
  <2>2. r = <<>> => Len(r) = 0
    OBVIOUS
  <2>3. ASSUME Len(r) = 0 PROVE r = <<>>
    BY <2>1, <2>3
  <2> QED BY <2>1, <2>2, <2>3
<1> HIDE DEF r, h
<1>4. ASSUME NEW x \in ToSet(s) PROVE x = h \/ x \in ToSet(r)
  <2>1. PICK i \in 1..Len(s) : x = s[i]
    BY <1>1 DEF ToSet
  <2>2. CASE i = 1
    BY <1>1, <2>1, <2>2 DEF h
  <2>3. CASE i # 1
    <3>1. i - 1 \in 1..Len(s) - 1 /\ (i - 1) + 1 = i
      BY <1>1, <2>3
    <3>2. r[i - 1] = x /\ i - 1 \in DOMAIN r
      BY <1>1, <1>2, <2>1, <3>1 DEF r
    <3> QED BY <3>2 DEF ToSet
  <2> QED BY <2>2, <2>3
<1>5. h \in ToSet(s)
  BY <1>1 DEF ToSet, h
<1>6. ASSUME NEW x \in ToSet(r) PROVE x \in ToSet(s)
  <2>1. PICK i \in 1..Len(s) - 1 : x = r[i]
    BY <1>2, <1>6 DEF ToSet, r
  <2>2. i + 1 \in DOMAIN s /\ x = s[i + 1]
    BY <1>1, <2>1 DEF r
  <2> QED BY <2>2 DEF ToSet
<1>7. ToSet(s) = {h} \cup ToSet(r)
  BY <1>4, <1>5, <1>6
<1> QED BY <1>1, <1>3, <1>7 DEF r, h

\* The command is at one of the documents.
LEMMA SlugFacts == TypeOK => Current \in Slugs /\ Len(Documents) \in Nat \ {0}
                            /\ DOMAIN Documents = 1..Len(Documents)
<1> SUFFICES ASSUME TypeOK PROVE Current \in Slugs /\ Len(Documents) \in Nat \ {0}
                                 /\ DOMAIN Documents = 1..Len(Documents)
  OBVIOUS
<1>1. Documents \in Seq(Slugs) /\ Documents # <<>>
  BY IngestAssumption DEF IngestAssumption
<1>2. Current \in Slugs
  BY DEF TypeOK, Current, Slugs
<1> HIDE DEF Slugs
<1> QED BY <1>1, <1>2

\* No text is an empty one.
LEMMA AbsentText == Absent \in Texts
<1>1. <<>> \in Seq(Divs)
  OBVIOUS
<1> QED BY <1>1 DEF Absent, Texts

\* The command is over, or at its next document.
Settled ==
  /\ at' \in {"idle", "fetch"} /\ doc' \in DOMAIN Documents
  /\ force' \in BOOLEAN /\ cap' \in Caps
  /\ text' \in Texts /\ todo' \in Seq(Chunks) /\ tx' \in SUBSET Chunks

\* A stop leaves no document in hand.
LEMMA StopSettles == TypeOK /\ Stop => Settled
<1> SUFFICES ASSUME TypeOK, Stop PROVE Settled
  OBVIOUS
<1>1. <<>> \in Seq(Chunks) /\ 1 \in DOMAIN Documents
  BY SlugFacts
<1> QED BY <1>1, AbsentText DEF TypeOK, Stop, Settled

\* Neither does going on to the next.
LEMMA NextSettles == TypeOK /\ NextDocument => Settled
<1> SUFFICES ASSUME TypeOK, NextDocument PROVE Settled
  OBVIOUS
<1>1. CASE doc < Len(Documents)
  <2>1. <<>> \in Seq(Chunks)
    OBVIOUS
  <2>2. doc + 1 \in DOMAIN Documents
    BY <1>1, SlugFacts DEF TypeOK
  <2> QED BY <1>1, <2>1, <2>2, AbsentText DEF TypeOK, NextDocument, Settled
<1>2. CASE ~(doc < Len(Documents))
  BY <1>2, StopSettles DEF NextDocument
<1> QED BY <1>1, <1>2

\* It has begun to write the chunks of a text.
Begun(t) ==
  /\ at' = "upsert" /\ text' = t /\ todo' = BuildChunks(t, cap) /\ todo' # <<>>
  /\ todo' \in Seq(Chunks) /\ tx' = rows[Current]
  /\ UNCHANGED <<doc, force, cap>>

\* Once a text is cut, its document is skipped or its transaction begins.
LEMMA PrepareBegins ==
  ASSUME TypeOK, NEW t \in Texts, Prepare(t)
  PROVE  Settled \/ Begun(t)
<1>1. BuildChunks(t, cap) \in Seq(Chunks)
  BY DocumentHolds
<1>2. CASE BuildChunks(t, cap) = <<>>
  BY <1>2, NextSettles DEF Prepare
<1>3. CASE BuildChunks(t, cap) # <<>>
  BY <1>1, <1>3 DEF Prepare, Begun
<1> QED BY <1>2, <1>3

\* Either keeps the types.
LEMMA PreparedTyped ==
  ASSUME TypeOK, NEW t \in Texts, Settled \/ Begun(t)
  PROVE  /\ at' \in {"idle", "fetch", "upsert"} /\ doc' \in DOMAIN Documents
         /\ force' \in BOOLEAN /\ cap' \in Caps
         /\ text' \in Texts /\ todo' \in Seq(Chunks) /\ tx' \in SUBSET Chunks
<1>1. CASE Settled
  BY <1>1 DEF Settled
<1>2. CASE Begun(t)
  <2>1. rows[Current] \in SUBSET Chunks
    BY SlugFacts DEF TypeOK
  <2> QED BY <1>2, <2>1 DEF Begun, TypeOK
<1> QED BY <1>1, <1>2

----------------------------------------------------------------------------
\* Types.

\* The types hold initially.
LEMMA TypeInit == Init => TypeOK
<1> SUFFICES ASSUME Init PROVE TypeOK
  OBVIOUS
<1>1. Documents # <<>> /\ Documents \in Seq(Slugs) /\ Caps \subseteq Nat
  BY IngestAssumption DEF IngestAssumption
<1>2. 1 \in DOMAIN Documents
  <2> HIDE DEF Slugs
  <2> QED BY <1>1
<1>3. <<>> \in Seq(Chunks)
  OBVIOUS
<1>4. [text |-> Absent, cap |-> 0, cut |-> FALSE] \in [text : Texts, cap : Nat, cut : BOOLEAN]
  BY AbsentText
<1>5. last \in [Slugs -> [text : Texts, cap : Nat, cut : BOOLEAN]]
  BY <1>4 DEF Init
<1>6. upstream \in [Slugs -> Nat \ {0}] /\ rows \in [Slugs -> SUBSET Chunks]
      /\ cut \in [Slugs -> BOOLEAN]
  BY DEF Init
<1>7. cache \in [Slugs -> Texts]
  BY AbsentText DEF Init
<1>8. at = "idle" /\ doc = 1 /\ force = FALSE /\ cap \in Caps
      /\ text = Absent /\ todo = <<>> /\ tx = {}
  BY DEF Init
<1> QED BY <1>2, <1>3, <1>5, <1>6, <1>7, <1>8, AbsentText DEF TypeOK

\* No step breaks them.
LEMMA TypeKept ==
  ASSUME TypeOK, Served, Located, at = "upsert" => todo # <<>>, [Next]_vars
  PROVE  TypeOK'
<1> USE SlugFacts
<1>1. ASSUME NEW f \in BOOLEAN, NEW n \in Caps, IngestCorpus(f, n) PROVE TypeOK'
  BY <1>1 DEF IngestCorpus, TypeOK
<1>2. CASE FromCache
  <2>1. PICK t \in Texts : Prepare(t)
    BY <1>2 DEF FromCache, TypeOK
  <2>2. Settled \/ Begun(t)
    BY <2>1, PrepareBegins
  <2>3. UNCHANGED <<upstream, cache, rows, cut, last>>
    BY <1>2 DEF FromCache
  <2> QED BY <2>2, <2>3, PreparedTyped DEF TypeOK
<1>3. CASE Download
  <2>1. TextOf(Current, upstream[Current]) \in Texts
    BY WholeTexts DEF Served
  <2> QED BY <1>3, <2>1 DEF Download, TypeOK
<1>4. CASE WriteCache
  <2>1. PICK t \in Texts : Prepare(t) /\ t = text
    BY <1>4 DEF WriteCache, TypeOK
  <2>2. Settled \/ Begun(t)
    BY <2>1, PrepareBegins
  <2>3. /\ UNCHANGED <<upstream, rows, last>>
        /\ cache' = [cache EXCEPT ![Current] = text]
        /\ cut' = [cut EXCEPT ![Current] = FALSE]
    BY <1>4 DEF WriteCache
  <2>4. cache' \in [Slugs -> Texts] /\ cut' \in [Slugs -> BOOLEAN]
    BY <2>3 DEF TypeOK
  <2> QED BY <2>2, <2>3, <2>4, PreparedTyped DEF TypeOK
<1>5. CASE WriteCut
  <2>1. PICK t \in Beginnings(text) : cache' = [cache EXCEPT ![Current] = t]
    BY <1>5 DEF WriteCut
  <2>2. t \in Texts
    BY <1>5, <2>1, BeginningsFragment DEF WriteCut, Located, Fragment
  <2>3. Settled
    BY <1>5, StopSettles DEF WriteCut
  <2>4. cache' \in [Slugs -> Texts] /\ cut' \in [Slugs -> BOOLEAN]
    BY <1>5, <2>1, <2>2 DEF WriteCut, TypeOK
  <2> QED BY <1>5, <2>3, <2>4 DEF WriteCut, Settled, TypeOK
<1>6. CASE Upsert
  <2>1. Head(todo) \in Chunks /\ Tail(todo) \in Seq(Chunks)
    BY <1>6, HeadAndTail DEF Upsert, TypeOK
  <2>2. Upserted(tx, Head(todo)) \in SUBSET Chunks
    BY <2>1 DEF Upserted, TypeOK
  <2> QED BY <1>6, <2>1, <2>2 DEF Upsert, Uncommitted, TypeOK
<1>7. CASE Commit
  <2>1. Settled
    BY <1>7, NextSettles DEF Commit
  <2>2. rows' \in [Slugs -> SUBSET Chunks]
    BY <1>7 DEF Commit, TypeOK
  <2>3. [text |-> text, cap |-> cap, cut |-> cut[Current]] \in [text : Texts, cap : Nat, cut : BOOLEAN]
    BY IngestAssumption DEF IngestAssumption, TypeOK
  <2>4. last' \in [Slugs -> [text : Texts, cap : Nat, cut : BOOLEAN]]
    BY <1>7, <2>3 DEF Commit, TypeOK
  <2> QED BY <1>7, <2>1, <2>2, <2>4 DEF Commit, Settled, TypeOK
<1>8. CASE Die
  <2>1. Settled
    BY <1>8, StopSettles DEF Die
  <2> QED BY <1>8, <2>1 DEF Die, Settled, TypeOK
<1>9. ASSUME NEW d \in Slugs, Publish(d) PROVE TypeOK'
  BY <1>9 DEF Publish, command, TypeOK
<1>10. CASE UNCHANGED vars
  BY <1>10 DEF vars, command, TypeOK
<1> QED BY <1>1, <1>2, <1>3, <1>4, <1>5, <1>6, <1>7, <1>8, <1>9, <1>10 DEF Next

----------------------------------------------------------------------------
\* The other parts of the invariant.

\* The publisher moves on to the next edition there is.
LEMMA ServedKept ==
  ASSUME TypeOK, Served, [Next]_vars
  PROVE  Served'
<1>1. ASSUME NEW d \in Slugs, Publish(d) PROVE Served'
  <2>1. Editions[d] \in Seq(Seq(Divs)) /\ upstream[d] \in DOMAIN Editions[d]
        /\ upstream[d] < Len(Editions[d])
    BY <1>1, IngestAssumption DEF IngestAssumption, Served, Publish
  <2>2. upstream[d] + 1 \in DOMAIN Editions[d]
    BY <2>1
  <2> QED BY <1>1, <2>2 DEF Publish, Served, TypeOK
<1>2. CASE UNCHANGED upstream
  BY <1>2 DEF Served
<1>3. UNCHANGED upstream \/ \E d \in Slugs : Publish(d)
  BY DEF Next, vars, IngestCorpus, FromCache, Download, WriteCache, WriteCut, Upsert,
         Commit, Die
<1> QED BY <1>1, <1>2, <1>3

\* The file is the edition that was fetched, or its beginning.
LEMMA CachedKept ==
  ASSUME TypeOK, Cached, Located, [Next]_vars
  PROVE  Cached'
<1>1. CASE WriteCache
  <2>1. text = TextOf(Current, text.edition) /\ text.edition \in DOMAIN Editions[Current]
    BY <1>1 DEF WriteCache, Located
  <2>2. Fragment(Current, text)
    BY <2>1, SlugFacts, WholeTexts
  <2>3. cache' = [cache EXCEPT ![Current] = text] /\ cut' = [cut EXCEPT ![Current] = FALSE]
    BY <1>1 DEF WriteCache
  <2> SUFFICES ASSUME NEW d \in Slugs, cache'[d] # Absent
               PROVE  Fragment(d, cache'[d]) /\ Issued(d, cache'[d], cut'[d])
    BY DEF Cached, Issued
  <2>4. CASE d = Current
    <3>1. cache'[d] = text
      BY <2>3, <2>4 DEF TypeOK
    <3> QED BY <2>1, <2>2, <2>4, <3>1 DEF Issued
  <2>5. CASE d # Current
    <3>1. cache'[d] = cache[d] /\ cut'[d] = cut[d]
      BY <2>3, <2>5 DEF TypeOK
    <3> QED BY <3>1 DEF Cached
  <2> QED BY <2>4, <2>5
<1>2. CASE WriteCut
  <2>1. text = TextOf(Current, text.edition) /\ text.edition \in DOMAIN Editions[Current]
    BY <1>2 DEF WriteCut, Located
  <2>2. PICK t \in Beginnings(text) : cache' = [cache EXCEPT ![Current] = t]
    BY <1>2 DEF WriteCut
  <2>3. Fragment(Current, t) /\ t.edition = text.edition /\ t \in Beginnings(text)
    BY <2>1, <2>2, SlugFacts, BeginningsFragment
  <2>4. cut' = [cut EXCEPT ![Current] = TRUE]
    BY <1>2 DEF WriteCut
  <2> SUFFICES ASSUME NEW d \in Slugs, cache'[d] # Absent
               PROVE  Fragment(d, cache'[d]) /\ Issued(d, cache'[d], cut'[d])
    BY DEF Cached, Issued
  <2>5. CASE d = Current
    <3>1. cache'[d] = t /\ cut'[d] = TRUE
      BY <2>2, <2>4, <2>5 DEF TypeOK
    <3>2. t \in Beginnings(TextOf(Current, t.edition))
      BY <2>1, <2>3
    <3> QED BY <2>3, <2>5, <3>1, <3>2 DEF Issued
  <2>6. CASE d # Current
    <3>1. cache'[d] = cache[d] /\ cut'[d] = cut[d]
      BY <2>2, <2>4, <2>6 DEF TypeOK
    <3> QED BY <3>1 DEF Cached
  <2> QED BY <2>5, <2>6
<1>3. CASE UNCHANGED <<cache, cut>>
  BY <1>3 DEF Cached, Issued
<1>4. UNCHANGED <<cache, cut>> \/ WriteCache \/ WriteCut
  BY DEF Next, vars, IngestCorpus, FromCache, Download, Upsert, Commit, Die, Publish
<1> QED BY <1>1, <1>2, <1>3, <1>4

\* A transaction commits a sound table with all of its text.
LEMMA CommittedKept ==
  ASSUME TypeOK, Cached, Committed, Underway, [Next]_vars
  PROVE  Committed'
<1>1. CASE Commit
  <2>1. /\ at = "commit"
        /\ rows' = [rows EXCEPT ![Current] = tx]
        /\ last' = [last EXCEPT ![Current] = [text |-> text, cap |-> cap, cut |-> cut[Current]]]
    BY <1>1 DEF Commit
  <2>2. /\ text = cache[Current] /\ text # Absent /\ todo = <<>>
        /\ Transaction(Current, text, cap, ToSet(todo), tx)
    BY <2>1 DEF Underway
  <2>3. ToSet(todo) = {}
    BY <2>2 DEF ToSet
  <2>4. /\ Sound(Current, tx) /\ NoneNewer(tx, text.edition)
        /\ \A c \in ToSet(BuildChunks(text, cap)) :
             Stored(tx, text, ToSet(BuildChunks(text, cap)), c)
    BY <2>2, <2>3, TransactionEnds
  <2>5. Fragment(Current, text) /\ Issued(Current, text, cut[Current])
    BY <2>2, SlugFacts DEF Cached
  <2> SUFFICES ASSUME NEW d \in Slugs
               PROVE  LET t == last'[d].text
                          chunks == ToSet(BuildChunks(t, last'[d].cap))
                      IN  /\ Sound(d, rows'[d]) /\ NoneNewer(rows'[d], t.edition)
                          /\ t # Absent =>
                               /\ Fragment(d, t) /\ Issued(d, t, last'[d].cut)
                               /\ \A c \in chunks : Stored(rows'[d], t, chunks, c)
    BY DEF Committed
  <2>6. CASE d = Current
    <3>1. /\ rows'[d] = tx
          /\ last'[d].text = text /\ last'[d].cap = cap /\ last'[d].cut = cut[Current]
      BY <2>1, <2>6 DEF TypeOK
    <3> QED BY <2>4, <2>5, <2>6, <3>1
  <2>7. CASE d # Current
    <3>1. rows'[d] = rows[d] /\ last'[d] = last[d]
      BY <2>1, <2>7 DEF TypeOK
    <3> QED BY <3>1 DEF Committed
  <2> QED BY <2>6, <2>7
<1>2. CASE UNCHANGED <<rows, last>>
  BY <1>2 DEF Committed
<1>3. UNCHANGED <<rows, last>> \/ Commit
  BY DEF Next, vars, IngestCorpus, FromCache, Download, WriteCache, WriteCut, Upsert,
         Uncommitted, Die, Publish
<1> QED BY <1>1, <1>2, <1>3

\* What was downloaded is what is about to be written.
LEMMA LocatedKept ==
  ASSUME TypeOK, Served, Located, [Next]_vars
  PROVE  Located'
<1>1. CASE Download
  <2>1. /\ upstream[Current] \in DOMAIN Editions[Current]
        /\ text' = TextOf(Current, upstream[Current]) /\ doc' = doc
    BY <1>1, SlugFacts DEF Download, Served
  <2>2. text'.edition = upstream[Current]
    BY <2>1 DEF TextOf
  <2>3. Current' = Current
    BY <2>1 DEF Current
  <2> QED BY <2>1, <2>2, <2>3 DEF Located
<1>2. CASE UNCHANGED command
  BY <1>2 DEF command, Located, Current
<1>3. CASE at' # "write"
  BY <1>3 DEF Located
<1>4. ASSUME FromCache \/ WriteCache PROVE at' # "write"
  <2>1. cache[Current] \in Texts /\ text \in Texts
    BY SlugFacts DEF TypeOK
  <2>2. PICK t \in Texts : Prepare(t)
    BY <1>4, <2>1 DEF FromCache, WriteCache
  <2> QED BY <2>2, PrepareBegins, PreparedTyped
<1>5. ASSUME WriteCut \/ Die \/ Commit PROVE at' # "write"
  BY <1>5, StopSettles, NextSettles DEF WriteCut, Die, Commit, Settled
<1>6. ASSUME Upsert \/ \E f \in BOOLEAN, n \in Caps : IngestCorpus(f, n) PROVE at' # "write"
  BY <1>6 DEF Upsert, IngestCorpus
<1>7. UNCHANGED command \/ Download \/ at' # "write"
  BY <1>4, <1>5, <1>6 DEF Next, vars, Publish
<1> QED BY <1>1, <1>2, <1>3, <1>7

\* Editions are numbers.
LEMMA EditionTypes ==
  ASSUME TypeOK, NEW d \in Slugs
  PROVE  /\ last[d].text.edition \in Nat /\ cache[d].edition \in Nat
         /\ upstream[d] \in Nat /\ text.edition \in Nat
         /\ \A r \in rows[d] : r.edition \in Nat
<1>1. /\ cache[d] \in Texts /\ text \in Texts /\ last[d].text \in Texts
      /\ upstream[d] \in Nat
  BY DEF TypeOK
<1>2. \A r \in rows[d] : r \in Chunks
  BY DEF TypeOK
<1> QED BY <1>1, <1>2 DEF Texts, Chunks

\* The publisher goes forward, the cache is written from what it serves, and what
\* is committed was read from the cache.
LEMMA InTurnKept ==
  ASSUME TypeOK, Located, Underway, InTurn, [Next]_vars, TypeOK'
  PROVE  InTurn'
<1> DEFINE Ages(d) == /\ last[d].text.edition <= cache[d].edition
                      /\ cache[d].edition <= upstream[d]
           Fresh == /\ cache[Current].edition <= text.edition
                    /\ text.edition <= upstream[Current]
<1>1. (\A d \in Slugs : Ages(d)) /\ (at = "write" => Fresh)
  BY DEF InTurn
<1>2. Current \in Slugs
  BY SlugFacts
<1>3. ASSUME NEW d \in Slugs
      PROVE  /\ last[d].text.edition \in Nat /\ cache[d].edition \in Nat
             /\ upstream[d] \in Nat /\ text.edition \in Nat
  BY EditionTypes
<1>4. CASE Download
  <2>1. /\ text' = TextOf(Current, upstream[Current]) /\ Current' = Current
        /\ UNCHANGED <<cache, last, upstream>>
    BY <1>4 DEF Download, Current
  <2>2. text'.edition = upstream[Current]
    BY <2>1 DEF TextOf
  <2>3. text'.edition <= upstream[Current]
    BY <1>2, <1>3, <2>2
  <2> QED BY <1>1, <1>2, <2>1, <2>2, <2>3 DEF InTurn
<1>5. CASE WriteCache \/ WriteCut
  <2>1. at = "write" /\ UNCHANGED <<upstream, last>>
    BY <1>5 DEF WriteCache, WriteCut
  <2>2. PICK t : cache' = [cache EXCEPT ![Current] = t] /\ t.edition = text.edition
    <3>1. CASE WriteCache
      BY <3>1 DEF WriteCache
    <3>2. CASE WriteCut
      <4>1. PICK t \in Beginnings(text) : cache' = [cache EXCEPT ![Current] = t]
        BY <3>2 DEF WriteCut
      <4>2. text = TextOf(Current, text.edition) /\ text.edition \in DOMAIN Editions[Current]
        BY <2>1 DEF Located
      <4>3. t.edition = text.edition
        BY <1>2, <4>1, <4>2, BeginningsFragment
      <4> QED BY <4>1, <4>3
    <3> QED BY <1>5, <3>1, <3>2
  <2>3. at' # "write"
    <3>1. CASE WriteCut
      BY <3>1, StopSettles DEF WriteCut, Settled
    <3>2. CASE WriteCache
      BY <3>2, PrepareBegins, PreparedTyped DEF WriteCache, TypeOK
    <3> QED BY <1>5, <3>1, <3>2
  <2>4. ASSUME NEW d \in Slugs PROVE Ages(d)'
    <3>1. CASE d # Current
      <4>1. cache'[d] = cache[d]
        BY <2>2, <3>1 DEF TypeOK
      <4> QED BY <1>1, <2>1, <4>1
    <3>2. CASE d = Current
      <4>1. cache'[d].edition = text.edition
        BY <2>2, <3>2 DEF TypeOK
      <4>2. Fresh /\ Ages(d)
        BY <1>1, <2>1
      <4> QED BY <1>3, <2>1, <3>2, <4>1, <4>2
    <3> QED BY <3>1, <3>2
  <2> QED BY <2>3, <2>4 DEF InTurn
<1>6. CASE Commit
  <2>1. /\ at = "commit" /\ UNCHANGED <<upstream, cache>>
        /\ last' = [last EXCEPT ![Current] = [text |-> text, cap |-> cap, cut |-> cut[Current]]]
    BY <1>6 DEF Commit
  <2>2. text = cache[Current]
    BY <2>1 DEF Underway
  <2>3. at' # "write"
    BY <1>6, NextSettles DEF Commit, Settled
  <2>4. ASSUME NEW d \in Slugs PROVE Ages(d)'
    <3>1. CASE d # Current
      <4>1. last'[d] = last[d]
        BY <2>1, <3>1 DEF TypeOK
      <4> QED BY <1>1, <2>1, <4>1
    <3>2. CASE d = Current
      <4>1. last'[d].text = cache[d]
        BY <2>1, <2>2, <3>2 DEF TypeOK
      <4> QED BY <1>1, <1>3, <2>1, <4>1
    <3> QED BY <3>1, <3>2
  <2> QED BY <2>3, <2>4 DEF InTurn
<1>7. ASSUME NEW p \in Slugs, Publish(p) PROVE InTurn'
  <2>1. upstream' = [upstream EXCEPT ![p] = @ + 1] /\ UNCHANGED <<cache, last, command>>
    BY <1>7 DEF Publish
  <2>2. Current' = Current /\ text' = text /\ at' = at
    BY <2>1 DEF command, Current
  <2>3. \A d \in Slugs : upstream[d] <= upstream'[d] /\ upstream'[d] \in Nat
    BY <1>3, <2>1 DEF TypeOK
  <2>4. ASSUME NEW d \in Slugs PROVE Ages(d)'
    BY <1>1, <1>3, <2>1, <2>3
  <2>5. ASSUME at = "write" PROVE text.edition <= upstream'[Current]
    BY <1>1, <1>2, <1>3, <2>3, <2>5
  <2> QED BY <1>1, <2>1, <2>2, <2>4, <2>5 DEF InTurn
<1>8. CASE UNCHANGED <<upstream, cache, last>> /\ at' # "write"
  BY <1>1, <1>8 DEF InTurn
<1>9. CASE UNCHANGED <<upstream, cache, last, command>>
  BY <1>1, <1>9 DEF InTurn, command, Current
<1>10. ASSUME FromCache PROVE UNCHANGED <<upstream, cache, last>> /\ at' # "write"
  <2>1. cache[Current] \in Texts
    BY <1>2 DEF TypeOK
  <2> QED BY <1>10, <2>1, PrepareBegins, PreparedTyped DEF FromCache
<1>11. ASSUME Die \/ Upsert \/ \E f \in BOOLEAN, n \in Caps : IngestCorpus(f, n)
       PROVE  UNCHANGED <<upstream, cache, last>> /\ at' # "write"
  BY <1>11, StopSettles DEF Die, Upsert, IngestCorpus, Settled
<1> QED
  BY <1>4, <1>5, <1>6, <1>7, <1>8, <1>9, <1>10, <1>11 DEF Next, vars

\* A transaction begins on the committed table, and goes on chunk by chunk.
LEMMA UnderwayKept ==
  ASSUME TypeOK, Cached, Committed, InTurn, Located, Underway, [Next]_vars
  PROVE  Underway'
<1>1. ASSUME NEW t \in Texts, Begun(t), t # Absent, cache'[Current] = t,
             cache[Current].edition <= t.edition
      PROVE  Underway'
  <2>1. /\ at' = "upsert" /\ text' = t /\ todo' = BuildChunks(t, cap) /\ todo' # <<>>
        /\ tx' = rows[Current] /\ cap' = cap /\ Current' = Current
    BY <1>1 DEF Begun, Current
  <2>2. Sound(Current, rows[Current]) /\ NoneNewer(rows[Current], t.edition)
    <3>1. Sound(Current, rows[Current]) /\ NoneNewer(rows[Current], last[Current].text.edition)
      BY SlugFacts DEF Committed
    <3>2. /\ last[Current].text.edition <= cache[Current].edition
          /\ cache[Current].edition <= t.edition
      BY <1>1, SlugFacts DEF InTurn
    <3>3. /\ last[Current].text.edition \in Nat /\ cache[Current].edition \in Nat
          /\ t.edition \in Nat /\ \A r \in rows[Current] : r.edition \in Nat
      BY SlugFacts, EditionTypes DEF Texts
    <3> QED BY <3>1, <3>2, <3>3 DEF NoneNewer
  <2>3. Transaction(Current, t, cap, ToSet(BuildChunks(t, cap)), rows[Current])
    BY <2>2, TransactionBegins
  <2> QED BY <1>1, <2>1, <2>3 DEF Underway
<1>2. CASE FromCache
  <2>1. PICK t \in Texts : Prepare(t) /\ t = cache[Current] /\ t # Absent /\ cache' = cache
    BY <1>2, SlugFacts DEF FromCache, TypeOK
  <2>2. CASE Settled
    BY <2>2 DEF Settled, Underway
  <2>3. CASE Begun(t)
    <3>1. t.edition <= t.edition
      BY <2>1 DEF Texts
    <3> QED BY <1>1, <2>1, <2>3, <3>1
  <2> QED BY <2>1, <2>2, <2>3, PrepareBegins
<1>3. CASE WriteCache
  <2>1. PICK t \in Texts : Prepare(t) /\ t = text
    BY <1>3 DEF WriteCache, TypeOK
  <2>2. t # Absent
    BY <1>3, <2>1, SlugFacts, WholeTexts DEF WriteCache, Located
  <2>3. cache'[Current] = t
    BY <1>3, <2>1, SlugFacts DEF WriteCache, TypeOK
  <2>4. CASE Settled
    BY <2>4 DEF Settled, Underway
  <2>5. CASE Begun(t)
    <3>1. cache[Current].edition <= t.edition
      BY <1>3, <2>1 DEF WriteCache, InTurn
    <3> QED BY <1>1, <2>2, <2>3, <2>5, <3>1
  <2> QED BY <2>1, <2>4, <2>5, PrepareBegins
<1>4. CASE Upsert
  <2> DEFINE c == Head(todo)
             rest == ToSet(Tail(todo))
  <2>1. /\ at = "upsert" /\ tx' = Upserted(tx, Head(todo)) /\ todo' = Tail(todo)
        /\ at' = IF Len(todo) = 1 THEN "commit" ELSE "upsert"
        /\ UNCHANGED <<cache, doc, cap, text>>
    BY <1>4 DEF Upsert
  <2>2. /\ text = cache[Current] /\ text # Absent /\ todo # <<>>
        /\ Transaction(Current, text, cap, ToSet(todo), tx)
    BY <2>1 DEF Underway
  <2>3. ToSet(todo) = {c} \cup rest /\ (Len(todo) = 1 <=> Tail(todo) = <<>>)
    BY <2>2, HeadAndTail DEF TypeOK
  <2>4. Fragment(Current, text)
    BY <2>2, SlugFacts DEF Cached
  <2>5. Transaction(Current, text, cap, rest, Upserted(tx, c))
    <3> HIDE DEF c, rest
    <3>1. Transaction(Current, text, cap, {c} \cup rest, tx)
      BY <2>2, <2>3
    <3> QED BY <2>4, <3>1, SlugFacts, TransactionGoes
  <2>6. Current' = Current
    BY <2>1 DEF Current
  <2>7. Transaction(Current', text', cap', ToSet(todo'), tx')
    BY <2>1, <2>5, <2>6
  <2>8. (at' = "commit") <=> (todo' = <<>>)
    BY <2>1, <2>3
  <2>9. text' = cache'[Current'] /\ text' # Absent
    BY <2>1, <2>2, <2>6
  <2> QED BY <2>7, <2>8, <2>9 DEF Underway
<1>5. CASE UNCHANGED <<command, cache>>
  BY <1>5 DEF command, Underway, Current
<1>6. CASE at' \notin {"upsert", "commit"}
  BY <1>6 DEF Underway
<1>7. ASSUME WriteCut \/ Die \/ Commit PROVE at' \notin {"upsert", "commit"}
  BY <1>7, StopSettles, NextSettles DEF WriteCut, Die, Commit, Settled
<1>8. ASSUME Download \/ \E f \in BOOLEAN, n \in Caps : IngestCorpus(f, n)
      PROVE  at' \notin {"upsert", "commit"}
  BY <1>8 DEF Download, IngestCorpus
<1>9. \/ FromCache \/ WriteCache \/ Upsert
      \/ UNCHANGED <<command, cache>>
      \/ at' \notin {"upsert", "commit"}
  BY <1>7, <1>8 DEF Next, vars, Publish
<1> QED BY <1>2, <1>3, <1>4, <1>5, <1>6, <1>9

----------------------------------------------------------------------------
\* The theorems.

\* The invariant holds initially.
LEMMA InvInit == Init => IInv
<1> SUFFICES ASSUME Init PROVE IInv
  OBVIOUS
<1>1. TypeOK
  BY TypeInit
<1>2. Served
  <2>1. \A d \in Slugs : 1 \in DOMAIN Editions[d]
    <3> SUFFICES ASSUME NEW d \in Slugs PROVE 1 \in DOMAIN Editions[d]
      OBVIOUS
    <3>1. Editions[d] \in Seq(Seq(Divs)) /\ Editions[d] # <<>>
      BY IngestAssumption DEF IngestAssumption
    <3> QED BY <3>1
  <2> QED BY <2>1 DEF Init, Served
<1>3. Cached
  BY DEF Init, Cached
<1>4. Committed /\ InTurn
  BY DEF Init, Committed, Sound, UniqueIds, NoneNewer, InTurn, Absent
<1>5. Located /\ Underway
  BY DEF Init, Located, Underway
<1> QED BY <1>1, <1>2, <1>3, <1>4, <1>5 DEF IInv

\* Every step keeps it.
LEMMA InvKept == IInv /\ [Next]_vars => IInv'
<1> SUFFICES ASSUME IInv, [Next]_vars PROVE IInv'
  OBVIOUS
<1>1. TypeOK /\ Served /\ Cached /\ Committed /\ InTurn /\ Located /\ Underway
  BY DEF IInv
<1>2. at = "upsert" => todo # <<>>
  BY <1>1 DEF Underway
<1> QED BY <1>1, <1>2, TypeKept, ServedKept, CachedKept, CommittedKept, InTurnKept,
           LocatedKept, UnderwayKept DEF IInv

\* So it holds always.
LEMMA IInvAlways == Spec => []IInv
  BY InvInit, InvKept, PTL DEF Spec

\* Nothing is cut from no text.
LEMMA AbsentHolds == \A n : ToSet(BuildChunks(Absent, n)) = {}
<1>1. DOMAIN Absent.divs = {}
  BY DEF Absent
<1>2. \A n : KeptIn(Absent, n) = {}
  BY <1>1 DEF KeptIn, Kept
<1> QED BY <1>2, AbsentText, DocumentHolds

(***************************************************************************)
(* Every variable keeps its type: what is cut from a cached file, whole or *)
(* not, are chunks (build_chunks).                                         *)
(***************************************************************************)
THEOREM TypeCorrect == Spec => []TypeOK
<1>1. IInv => TypeOK
  BY DEF IInv
<1> QED BY <1>1, IInvAlways, PTL

(***************************************************************************)
(* For any documents and editions the table has each id once and every     *)
(* part of the text committed last, or the one leaf of its article that    *)
(* takes its id; nothing in it is newer; and that text is an edition or    *)
(* the beginning a cut cache file left of one, whatever died in between    *)
(* (_upsert_chunks, one transaction per document).                         *)
(***************************************************************************)
THEOREM WholeCorrect == Spec => []DocumentWhole
<1>1. IInv => DocumentWhole
  <2> SUFFICES ASSUME Committed, NEW d \in Slugs
               PROVE  LET t == last[d].text
                          chunks == ToSet(BuildChunks(t, last[d].cap))
                      IN  /\ UniqueIds(rows[d])
                          /\ \A c \in chunks : Stored(rows[d], t, chunks, c)
                          /\ NoneNewer(rows[d], t.edition)
                          /\ t # Absent => Issued(d, t, last[d].cut)
    BY DEF IInv, DocumentWhole, UniqueIds, Stored, NoneNewer, Issued
  <2> DEFINE t == last[d].text
             chunks == ToSet(BuildChunks(t, last[d].cap))
  <2>1. /\ UniqueIds(rows[d]) /\ NoneNewer(rows[d], t.edition)
        /\ t # Absent => /\ Issued(d, t, last[d].cut)
                         /\ \A c \in chunks : Stored(rows[d], t, chunks, c)
    BY DEF Committed, Sound
  <2>2. t = Absent => chunks = {}
    BY AbsentHolds
  <2> QED BY <2>1, <2>2
<1> QED BY <1>1, IInvAlways, PTL

(***************************************************************************)
(* For any documents and editions, in whatever order their <div>s nest,    *)
(* every row has the chapter and section its article lies in or, where it  *)
(* lies in none, the last one closed before it, never a section of another *)
(* chapter; and a leaf has its parent beside it (parse_document,           *)
(* _paragraph_chunks).                                                     *)
(***************************************************************************)
THEOREM PlacesCorrect == Spec => []ChunksFaithful
<1>1. IInv => ChunksFaithful
  BY DEF IInv, Committed, Sound, InPlace, Stands, Beside, ChunksFaithful
<1> QED BY <1>1, IInvAlways, PTL
=============================================================================
