-------------------------- MODULE GoldenSetProofs --------------------------
(***************************************************************************)
(* Theorems about GoldenSet, for any seed questions and any chunks         *)
(* retrieved for them, any number of crashes and edits by hand.            *)
(***************************************************************************)
EXTENDS GoldenSet, WellFoundedInduction, TLAPS

----------------------------------------------------------------------------
\* Induction, and what promotion picks from the review file.

\* A set of naturals has a least member: their order is well-founded.
LEMMA LeastNatural ==
  ASSUME NEW T, T \subseteq Nat, T # {}
  PROVE  \E m \in T : \A k \in T : m <= k
<1> DEFINE R == OpToRel(<, Nat)
<1>1. IsWellFoundedOn(R, Nat)
  BY NatLessThanWellFounded
<1> HIDE DEF R
<1>2. PICK m \in T : \A k \in T : <<k, m>> \notin R
  BY <1>1, WFMin
<1>3. ASSUME NEW k \in T PROVE m <= k
  <2>1. <<k, m>> \notin R
    BY <1>2
  <2> QED BY <2>1 DEF R, OpToRel
<1> QED BY <1>3

\* Induction over the naturals, by the set of which they are to be members.
LEMMA InductionBySet ==
  ASSUME NEW G, 0 \in G, \A n \in Nat : n \in G => n + 1 \in G
  PROVE  \A n \in Nat : n \in G
<1> SUFFICES ASSUME NEW n \in Nat, n \notin G PROVE FALSE
  OBVIOUS
<1> DEFINE T == {k \in Nat : k \notin G}
<1>1. PICK m \in T : \A k \in T : m <= k
  <2>1. T # {} /\ T \subseteq Nat
    OBVIOUS
  <2> HIDE DEF T
  <2> QED BY <2>1, LeastNatural
<1>2. m - 1 \in Nat /\ m - 1 \notin T
  BY <1>1
<1> QED BY <1>2

\* The session asks about one of the pending positions.
LEMMA NextPending ==
  ASSUME NEW T, T \subseteq Nat, T # {}
  PROVE  Min(T) \in T
<1>1. PICK m \in T : \A j \in T : m <= j
  BY LeastNatural
<1> QED BY <1>1, Zenon DEF Min

\* The equation of the list that promotion builds item by item.
Picks(g, n) ==
  g = [k \in 0..n |->
         IF k = 0 THEN <<>>
         ELSE IF IsNew(file.lines[k]) THEN Append(g[k - 1], Line(file.lines[k]))
         ELSE g[k - 1]]

\* It has a solution for any number of items: one for k extends to k + 1.
LEMMA PicksExist ==
  ASSUME NEW n \in Nat
  PROVE  \E g : Picks(g, n)
<1> DEFINE G == {k \in Nat : \E g : Picks(g, k)}
<1>1. 0 \in G
  <2> DEFINE g == [k \in 0..0 |-> <<>>]
  <2>1. Picks(g, 0)
    BY DEF Picks
  <2> QED BY <2>1
<1>2. ASSUME NEW k \in Nat, k \in G PROVE k + 1 \in G
  <2>1. PICK g : Picks(g, k)
    BY <1>2
  <2> DEFINE more == IF IsNew(file.lines[k + 1]) THEN Append(g[k], Line(file.lines[k + 1])) ELSE g[k]
             h == [j \in 0..k + 1 |-> IF j = k + 1 THEN more ELSE g[j]]
             val(j) == IF j = 0 THEN <<>>
                       ELSE IF IsNew(file.lines[j]) THEN Append(h[j - 1], Line(file.lines[j]))
                       ELSE h[j - 1]
  <2>2. ASSUME NEW j \in 0..k + 1 PROVE h[j] = val(j)
    <3>1. CASE j = k + 1
      <4>1. h[j] = more /\ h[j - 1] = g[k] /\ j # 0
        BY <3>1
      <4> HIDE DEF h
      <4> QED BY <3>1, <4>1
    <3>2. CASE j # k + 1
      <4>1. j \in 0..k /\ h[j] = g[j] /\ (j # 0 => h[j - 1] = g[j - 1])
        BY <3>2
      <4>2. g[j] = IF j = 0 THEN <<>>
                   ELSE IF IsNew(file.lines[j]) THEN Append(g[j - 1], Line(file.lines[j]))
                   ELSE g[j - 1]
        BY <2>1, <4>1 DEF Picks
      <4> HIDE DEF h
      <4> QED BY <4>1, <4>2
    <3> QED BY <3>1, <3>2
  <2>3. Picks(h, k + 1)
    <3>1. h = [j \in 0..k + 1 |-> h[j]]
      OBVIOUS
    <3> HIDE DEF h
    <3> QED BY <2>2, <3>1 DEF Picks
  <2> QED BY <2>3
<1> HIDE DEF G
<1>3. n \in G
  BY <1>1, <1>2, InductionBySet
<1> QED BY <1>3 DEF G

\* NewLines is the last value of such a list.
LEMMA NewLinesPicked ==
  ASSUME NEW n \in Nat, Len(file.lines) = n
  PROVE  \E g : Picks(g, n) /\ NewLines = g[n]
<1> DEFINE upTo[k \in 0..Len(file.lines)] ==
             IF k = 0 THEN <<>>
             ELSE IF IsNew(file.lines[k]) THEN Append(upTo[k - 1], Line(file.lines[k]))
             ELSE upTo[k - 1]
<1>1. PICK h : Picks(h, Len(file.lines))
  BY PicksExist
<1>2. Picks(upTo, Len(file.lines))
  BY <1>1, Zenon DEF Picks
<1>3. NewLines = upTo[Len(file.lines)]
  BY Zenon DEF NewLines
<1> HIDE DEF upTo
<1> QED BY <1>2, <1>3

----------------------------------------------------------------------------
\* The inductive invariant.

\* What the files, the session and the history are made of.
Typed ==
  /\ file.lines \in Seq(Items) /\ file.there \in BOOLEAN /\ file.torn \in BOOLEAN
  /\ file = [there |-> file.there, lines |-> file.lines, torn |-> file.torn]
  /\ golden.lines \in Seq(Lines) /\ golden.tail \in {"ended", "unended", "broken"}
  /\ golden = [lines |-> golden.lines, tail |-> golden.tail]
  /\ decided \in [Seeds -> Decisions]
  /\ lossy \in BOOLEAN
  /\ crashes \in Nat

\* What is selected for a question was retrieved for it.
Selected == \A i \in DOMAIN file.lines : file.lines[i].ids \subseteq PoolOf[i]

\* Before there is a review file nothing is decided.
Unwritten ==
  ~file.there => file.lines = <<>> /\ ~file.torn /\ \A q \in Seeds : decided[q] = Blank

\* What a session holds is what it saved last, and what it does not ask about
\* needs no decision.
InSession ==
  /\ pending # {} => file = Whole(items)
  /\ pending \subseteq DOMAIN items
  /\ pending # {} => \A i \in DOMAIN items : NeedsDecision(items[i]) => i \in pending

Kept == Typed /\ Selected /\ Unwritten /\ InSession /\ DecisionsStand /\ GoldenSound

\* The seeds are counted, and each has its pool.
LEMMA SeedsCounted == Seeds = 1..Len(TypeOf) /\ Len(TypeOf) \in Nat /\ DOMAIN PoolOf = Seeds
BY SeedAssumption DEF Seeds

\* What a fresh review file holds.
LEMMA FreshTyped ==
  /\ FreshItems \in Seq(Items) /\ DOMAIN FreshItems = Seeds
  /\ \A i \in Seeds : FreshItems[i].id = i /\ DecisionOn(FreshItems[i]) = Blank
                      /\ FreshItems[i].ids = {}
  /\ Blank \in Decisions
<1>1. Blank \in Decisions
  BY DEF Blank, Decisions, Notes
<1>2. \A q \in Seeds : Item(q, Blank) \in Items
  BY DEF Item, Items, Blank, Notes
<1>3. FreshItems \in [1..Len(TypeOf) -> Items]
  BY <1>2, SeedsCounted DEF FreshItems
<1>4. FreshItems \in Seq(Items)
  BY <1>3, SeedsCounted
<1>5. \A i \in Seeds : FreshItems[i].id = i /\ DecisionOn(FreshItems[i]) = Blank
                       /\ FreshItems[i].ids = {}
  BY DEF FreshItems, Item, DecisionOn, Blank
<1> QED BY <1>1, <1>3, <1>4, <1>5, SeedsCounted

\* An answer is recorded on the item it is about, selects from what was retrieved
\* for it, and settles it.
LEMMA AnswerFits ==
  ASSUME NEW item \in Items, NEW answer \in Answers(item)
  PROVE  /\ answer \in Items /\ answer.id = item.id /\ answer.ids \subseteq PoolOf[item.id]
         /\ DecisionOn(answer) \in Decisions
         /\ ~NeedsDecision(answer)
<1>1. /\ \A ids \in SUBSET PoolOf[item.id] : ids \subseteq Chunks
      /\ item.id \in Seeds
  BY DEF Chunks, Items
<1>2. CASE answer = Skip(item)
  BY <1>2, <1>1 DEF Skip, Items, Notes, DecisionOn, Decisions, NeedsDecision
<1>3. CASE answer = None(item)
  BY <1>3, <1>1 DEF None, Items, Notes, DecisionOn, Decisions, NeedsDecision
<1>4. CASE \E ids \in (SUBSET PoolOf[item.id]) \ {{}} : answer = Select(item, ids)
  BY <1>4, <1>1 DEF Select, Items, DecisionOn, Decisions, NeedsDecision
<1> QED BY <1>2, <1>3, <1>4 DEF Answers

\* What promotion appends: each question of the review file once at most, none
\* that is in the golden set, each promotable.
LEMMA NewLinesSound ==
  ASSUME Kept
  PROVE  /\ NewLines \in Seq(Lines)
         /\ \A i, j \in DOMAIN NewLines : NewLines[i].id = NewLines[j].id => i = j
         /\ \A i \in DOMAIN NewLines :
              /\ NewLines[i].id \notin ExistingIds
              /\ NewLines[i].ids = {} => OutOfScope(NewLines[i].id)
              /\ NewLines[i].ids \subseteq PoolOf[NewLines[i].id]
<1> DEFINE n == Len(file.lines)
<1>1. n \in Nat /\ DOMAIN file.lines = 1..n /\ file.lines \in Seq(Items)
  BY DEF Kept, Typed
<1>2. \A k \in 1..n : /\ file.lines[k] \in Items /\ file.lines[k].id = k
                      /\ file.lines[k].ids \subseteq PoolOf[k]
  BY <1>1 DEF Kept, DecisionsStand, Selected
<1>3. PICK g : Picks(g, n) /\ NewLines = g[n]
  BY <1>1, NewLinesPicked
<1> DEFINE Fit(x) == /\ x.id \notin ExistingIds
                     /\ x.ids = {} => OutOfScope(x.id)
                     /\ x.ids \subseteq PoolOf[x.id]
           Good(s, k) == /\ s \in Seq(Lines)
                         /\ \A i, j \in DOMAIN s : s[i].id = s[j].id => i = j
                         /\ \A i \in DOMAIN s : Fit(s[i]) /\ s[i].id <= k
           G == {k \in Nat : k <= n => Good(g[k], k)}
<1>4. 0 \in G
  <2>1. g[0] = <<>>
    BY <1>1, <1>3 DEF Picks
  <2>2. <<>> \in Seq(Lines) /\ DOMAIN <<>> = {}
    OBVIOUS
  <2>3. Good(g[0], 0)
    BY <2>1, <2>2
  <2> HIDE DEF Good
  <2> QED BY <2>3
<1>5. ASSUME NEW k \in Nat, k \in G PROVE k + 1 \in G
  <2>1. SUFFICES ASSUME k + 1 <= n PROVE Good(g[k + 1], k + 1)
    OBVIOUS
  <2>2. k \in 0..n /\ k + 1 \in 1..n /\ k + 1 \in 0..n /\ (k + 1) - 1 = k
    BY <1>1, <2>1
  <2> DEFINE x == Line(file.lines[k + 1])
  <2>3. g[k + 1] = IF IsNew(file.lines[k + 1]) THEN Append(g[k], x) ELSE g[k]
    <3>1. \A j \in 0..n : j # 0 =>
            g[j] = IF IsNew(file.lines[j]) THEN Append(g[j - 1], Line(file.lines[j])) ELSE g[j - 1]
      BY <1>3 DEF Picks
    <3>2. k + 1 # 0
      OBVIOUS
    <3> HIDE DEF n
    <3> QED BY <2>2, <3>1, <3>2
  <2>4. Good(g[k], k)
    BY <1>5, <2>1
  <2>5. CASE ~IsNew(file.lines[k + 1])
    <3>1. g[k + 1] = g[k]
      BY <2>3, <2>5
    <3>2. \A i \in DOMAIN g[k] : g[k][i].id \in Nat
      <4>1. \A i \in DOMAIN g[k] : g[k][i] \in Lines
        BY <2>4
      <4> QED BY <4>1, SeedsCounted DEF Lines
    <3>3. \A i \in DOMAIN g[k] : g[k][i].id <= k + 1
      BY <2>4, <3>2
    <3> HIDE DEF Fit
    <3> QED BY <2>4, <3>1, <3>3
  <2>6. CASE IsNew(file.lines[k + 1])
    <3>1. x \in Lines /\ x.id = k + 1 /\ Fit(x)
      <4>1. file.lines[k + 1] \in Items /\ file.lines[k + 1].id = k + 1
            /\ file.lines[k + 1].ids \subseteq PoolOf[k + 1]
        BY <1>2, <2>2
      <4> QED BY <2>6, <4>1 DEF Line, Lines, Items, IsNew, Promotable
    <3>2. g[k + 1] = Append(g[k], x) /\ g[k] \in Seq(Lines)
      BY <2>3, <2>4, <2>6
    <3> HIDE DEF x
    <3> DEFINE s == g[k]
               t == Append(s, x)
    <3>3. /\ t \in Seq(Lines) /\ DOMAIN t = 1..Len(s) + 1 /\ DOMAIN s = 1..Len(s)
          /\ Len(s) \in Nat
          /\ t[Len(s) + 1] = x /\ \A i \in 1..Len(s) : t[i] = s[i]
      BY <3>1, <3>2
    <3>4. /\ \A i, j \in 1..Len(s) : s[i].id = s[j].id => i = j
          /\ \A i \in 1..Len(s) : Fit(s[i]) /\ s[i].id <= k
      BY <2>4, <3>3
    <3>5. \A i \in 1..Len(s) : s[i].id \in Nat
      <4>1. \A i \in 1..Len(s) : s[i] \in Lines
        BY <3>2, <3>3
      <4> QED BY <4>1, SeedsCounted DEF Lines
    <3> HIDE DEF t, s, Fit
    <3>6. ASSUME NEW i \in DOMAIN t, NEW j \in DOMAIN t, t[i].id = t[j].id PROVE i = j
      <4>1. \A m \in 1..Len(s) : t[m].id # x.id
        BY <3>1, <3>3, <3>4, <3>5
      <4> QED BY <3>3, <3>4, <3>6, <4>1
    <3>7. \A i \in DOMAIN t : Fit(t[i]) /\ t[i].id <= k + 1
      BY <3>1, <3>3, <3>4, <3>5
    <3>8. g[k + 1] = t
      BY <3>2 DEF t, s
    <3> QED BY <3>3, <3>6, <3>7, <3>8
  <2> QED BY <2>5, <2>6
<1> HIDE DEF G
<1>6. n \in G
  BY <1>1, <1>4, <1>5, InductionBySet
<1>7. Good(NewLines, n)
  BY <1>1, <1>3, <1>6 DEF G
<1> QED BY <1>7

----------------------------------------------------------------------------
\* Before any command the invariant holds.
LEMMA KeptInit == Init => Kept
<1> SUFFICES ASSUME Init PROVE Kept
  OBVIOUS
<1>1. /\ file.lines = <<>> /\ DOMAIN file.lines = {} /\ golden.lines = <<>>
      /\ DOMAIN golden.lines = {} /\ items = <<>> /\ pending = {}
  <2>1. file.lines = <<>> /\ golden.lines = <<>> /\ items = <<>> /\ pending = {}
    BY DEF Init
  <2> QED BY <2>1
<1>2. Typed
  <2>1. <<>> \in Seq(Items) /\ <<>> \in Seq(Lines)
    OBVIOUS
  <2>2. decided \in [Seeds -> Decisions]
    BY FreshTyped DEF Init
  <2> QED BY <2>1, <2>2 DEF Init, Typed
<1>3. Selected /\ InSession /\ GoldenSound
  BY <1>1 DEF Init, Selected, InSession, GoldenSound
<1>4. Unwritten /\ DecisionsStand
  BY <1>1 DEF Init, Unwritten, DecisionsStand
<1> QED BY <1>2, <1>3, <1>4 DEF Kept

\* The file holds a list, or the beginning of it.
Holds(f, ls) ==
  /\ f.there = TRUE /\ f.lines \in Seq(Items) /\ f.torn \in BOOLEAN
  /\ f = [there |-> f.there, lines |-> f.lines, torn |-> f.torn]
  /\ DOMAIN f.lines \subseteq DOMAIN ls
  /\ \A i \in DOMAIN f.lines : f.lines[i] = ls[i]

\* So it does when the list was saved, or a command died while it saved it.
LEMMA SaveHolds ==
  ASSUME NEW ls \in Seq(Items), NEW f,
         \/ f = Whole(ls)
         \/ f \in Partial(ls)
  PROVE  Holds(f, ls)
<1>1. PICK l \in Seq(Items), t \in BOOLEAN :
        /\ f = [there |-> TRUE, lines |-> l, torn |-> t]
        /\ DOMAIN l \subseteq DOMAIN ls
        /\ \A i \in DOMAIN l : l[i] = ls[i]
  <2>1. CASE f = Whole(ls)
    BY <2>1 DEF Whole
  <2>2. CASE f \in Partial(ls)
    <3>1. PICK n \in 0..Len(ls), t \in BOOLEAN :
            f = [there |-> TRUE, lines |-> SubSeq(ls, 1, n), torn |-> t]
      BY <2>2 DEF Partial
    <3>2. /\ SubSeq(ls, 1, n) \in Seq(Items) /\ DOMAIN SubSeq(ls, 1, n) = 1..n
          /\ \A i \in 1..n : SubSeq(ls, 1, n)[i] = ls[i]
          /\ 1..n \subseteq DOMAIN ls
      OBVIOUS
    <3> QED BY <3>1, <3>2
  <2> QED BY <2>1, <2>2
<1>2. f.there = TRUE /\ f.lines = l /\ f.torn = t
  BY <1>1
<1> QED BY <1>1, <1>2 DEF Holds

\* A command that died stays counted.
LEMMA CrashesGrow ==
  ASSUME crashes \in Nat, [Next]_vars
  PROVE  crashes' \in Nat /\ crashes' >= crashes
<1>1. crashes' = crashes \/ Crash
  <2>1. ASSUME NEW force \in BOOLEAN, Generate(force) PROVE crashes' = crashes \/ Crash
    BY <2>1, Zenon DEF Generate
  <2>2. Decide => crashes' = crashes \/ Crash
    BY Zenon DEF Decide
  <2>3. Promote => crashes' = crashes \/ Crash
    BY Zenon DEF Promote
  <2>4. Review \/ Quit \/ Edit \/ Mend \/ UNCHANGED vars => crashes' = crashes
    BY DEF Review, Quit, Edit, Mend, vars
  <2> QED BY <2>1, <2>2, <2>3, <2>4 DEF Next
<1> QED BY <1>1 DEF Crash

\* Promotion, also one that dies half-way, keeps the golden set sound.
LEMMA PromoteSound ==
  ASSUME Kept, crashes' \in Nat, crashes' >= crashes,
         golden' = Appended(NewLines) \/ (golden' \in Cut(NewLines) /\ crashes' > 0)
  PROVE  /\ golden'.lines \in Seq(Lines) /\ golden'.tail \in {"ended", "unended", "broken"}
         /\ golden' = [lines |-> golden'.lines, tail |-> golden'.tail]
         /\ GoldenSound'
<1>1. golden.lines \in Seq(Lines) /\ golden = [lines |-> golden.lines, tail |-> golden.tail]
  BY DEF Kept, Typed
<1>2. NewLines \in Seq(Lines) /\ Len(NewLines) \in Nat
  BY NewLinesSound
<1>3. \/ golden' \in {golden, Broken}
      \/ \E n \in 0..Len(NewLines), tail \in {"ended", "unended", "broken"} :
           golden' = Grown(NewLines, n, tail)
  BY <1>2 DEF Appended, Cut
<1>4. golden'.tail # "ended" => crashes' > 0
  <2>1. CASE golden' = Appended(NewLines) /\ Glued
    <3>1. crashes > 0
      BY <2>1 DEF Glued, Kept, GoldenSound
    <3> QED BY <3>1 DEF Kept, Typed
  <2>2. CASE golden' = Appended(NewLines) /\ ~Glued
    BY <2>2 DEF Appended, Grown
  <2> QED BY <2>1, <2>2
<1>5. CASE golden' \in {golden, Broken}
  <2>1. golden'.lines = golden.lines
    BY <1>1, <1>5 DEF Broken
  <2>2. /\ golden'.tail \in {"ended", "unended", "broken"}
        /\ golden' = [lines |-> golden'.lines, tail |-> golden'.tail]
    BY <1>1, <1>5 DEF Broken, Kept, Typed
  <2> QED BY <1>1, <1>4, <2>1, <2>2 DEF Kept, GoldenSound
<1>6. CASE \E n \in 0..Len(NewLines), tail \in {"ended", "unended", "broken"} :
             golden' = Grown(NewLines, n, tail)
  <2>1. PICK n \in 0..Len(NewLines), tail \in {"ended", "unended", "broken"} :
          golden' = Grown(NewLines, n, tail)
    BY <1>6
  <2> DEFINE s == golden.lines
             t == SubSeq(NewLines, 1, n)
             u == s \o t
  <2>2. golden'.lines = u /\ golden'.tail = tail /\ golden' = [lines |-> u, tail |-> tail]
    BY <2>1 DEF Grown
  <2>3. t \in Seq(Lines) /\ Len(t) = n /\ n \in Nat /\ \A i \in 1..n : t[i] = NewLines[i]
    BY <1>2, <2>1
  <2>4. 1..n \subseteq DOMAIN NewLines
    BY <1>2, <2>1
  <2>5. s \in Seq(Lines) /\ Len(s) \in Nat /\ DOMAIN s = 1..Len(s)
    BY <1>1
  <2> HIDE DEF s, t
  <2>6. /\ u \in Seq(Lines) /\ DOMAIN u = 1..Len(s) + n
        /\ \A i \in 1..Len(s) : u[i] = s[i]
        /\ \A i \in 1..Len(s) + n : i > Len(s) => u[i] = t[i - Len(s)] /\ i - Len(s) \in 1..n
    BY <2>3, <2>5
  <2>7. /\ \A i, j \in 1..Len(s) : s[i].id = s[j].id => i = j
        /\ \A i \in 1..Len(s) : /\ s[i].ids = {} => OutOfScope(s[i].id)
                                /\ s[i].ids \subseteq PoolOf[s[i].id]
                                /\ s[i].id \in ExistingIds
    BY <2>5 DEF s, Kept, GoldenSound, ExistingIds
  <2>8. /\ \A i, j \in 1..n : t[i].id = t[j].id => i = j
        /\ \A i \in 1..n : /\ t[i].ids = {} => OutOfScope(t[i].id)
                           /\ t[i].ids \subseteq PoolOf[t[i].id]
                           /\ t[i].id \notin ExistingIds
    BY <2>3, <2>4, NewLinesSound
  <2> HIDE DEF u
  <2>9. ASSUME NEW i \in DOMAIN u
        PROVE  /\ u[i].ids = {} => OutOfScope(u[i].id)
               /\ u[i].ids \subseteq PoolOf[u[i].id]
    <3>1. CASE i <= Len(s)
      BY <2>5, <2>6, <2>7, <3>1
    <3>2. CASE i > Len(s)
      BY <2>5, <2>6, <2>8, <3>2
    <3> QED BY <2>5, <2>6, <3>1, <3>2
  <2>10. ASSUME NEW i \in DOMAIN u, NEW j \in DOMAIN u, u[i].id = u[j].id PROVE i = j
    <3>1. CASE i <= Len(s) /\ j <= Len(s)
      BY <2>5, <2>6, <2>7, <2>10, <3>1
    <3>2. CASE i > Len(s) /\ j > Len(s)
      <4>1. i - Len(s) = j - Len(s)
        BY <2>6, <2>8, <2>10, <3>2
      <4> QED BY <2>5, <2>6, <4>1
    <3>3. CASE i <= Len(s) /\ j > Len(s)
      BY <2>5, <2>6, <2>7, <2>8, <2>10, <3>3
    <3>4. CASE i > Len(s) /\ j <= Len(s)
      BY <2>5, <2>6, <2>7, <2>8, <2>10, <3>4
    <3> QED BY <2>5, <2>6, <3>1, <3>2, <3>3, <3>4
  <2>11. GoldenSound'
    BY <1>4, <2>2, <2>9, <2>10 DEF GoldenSound
  <2> QED BY <2>2, <2>6, <2>11
<1> QED BY <1>3, <1>5, <1>6

\* Every command, answer, crash and edit keeps it.
LEMMA KeptNext == Kept /\ [Next]_vars => Kept'
<1> SUFFICES ASSUME Kept, [Next]_vars PROVE Kept'
  OBVIOUS
<1> USE DEF Kept
<1>0. /\ crashes \in Nat /\ crashes' \in Nat /\ crashes' >= crashes
      /\ UNCHANGED golden => GoldenSound'
  <2>1. crashes \in Nat
    BY DEF Typed
  <2>2. crashes' \in Nat /\ crashes' >= crashes
    BY <2>1, CrashesGrow
  <2> QED BY <2>1, <2>2 DEF GoldenSound
<1>1. /\ file.lines \in Seq(Items) /\ DOMAIN file.lines = 1..Len(file.lines)
      /\ \A i \in DOMAIN file.lines : file.lines[i] \in Items /\ i \in Seeds
  <2>1. file.lines \in Seq(Items)
    BY DEF Typed
  <2>2. \A i \in DOMAIN file.lines : file.lines[i] \in Items /\ file.lines[i].id = i
    BY <2>1 DEF DecisionsStand
  <2> QED BY <2>1, <2>2 DEF Items
<1>2. ASSUME NEW force \in BOOLEAN, Generate(force) PROVE Kept'
  <2>1. decided' \in [Seeds -> Decisions] /\ \A q \in Seeds : decided'[q] = Blank
    <3>1. CASE force \/ lossy
      BY <1>2, <3>1, FreshTyped DEF Generate, Forget
    <3>2. CASE ~force /\ ~lossy
      <4>1. decided' = decided
        BY <1>2, <3>2 DEF Generate, Forget
      <4>2. ASSUME NEW q \in Seeds PROVE decided[q] = Blank
        <5>1. CASE ~file.there
          BY <5>1 DEF Unwritten
        <5>2. CASE file.there
          <6>1. ~HasReviewProgress(file.lines) /\ DOMAIN file.lines = Seeds
            BY <1>2, <3>2, <5>2 DEF Generate, MayWrite, DecisionsStand
          <6>2. /\ ~file.lines[q].verified /\ file.lines[q].ids = {} /\ file.lines[q].notes = ""
                /\ file.lines[q].verified \in BOOLEAN
            BY <1>1, <6>1 DEF HasReviewProgress, Items
          <6> QED BY <6>1, <6>2 DEF DecisionsStand, DecisionOn, Blank
        <5> QED BY <5>1, <5>2
      <4> QED BY <4>1, <4>2 DEF Typed
    <3> QED BY <3>1, <3>2
  <2>2. \A i \in DOMAIN FreshItems :
          /\ FreshItems[i].id = i /\ DecisionOn(FreshItems[i]) = decided'[i]
          /\ FreshItems[i].ids \subseteq PoolOf[i]
    BY <2>1, FreshTyped
  <2>3. file' = Whole(FreshItems) \/ file' \in Partial(FreshItems)
    BY <1>2 DEF Generate
  <2>4. /\ file'.there = TRUE /\ file'.lines \in Seq(Items) /\ file'.torn \in BOOLEAN
        /\ file' = [there |-> file'.there, lines |-> file'.lines, torn |-> file'.torn]
        /\ \A i \in DOMAIN file'.lines : /\ file'.lines[i].id = i
                                         /\ DecisionOn(file'.lines[i]) = decided'[i]
                                         /\ file'.lines[i].ids \subseteq PoolOf[i]
    <3>1. Holds(file', FreshItems)
      BY <2>3, FreshTyped, SaveHolds
    <3> QED BY <2>2, <3>1 DEF Holds
  <2>5. lossy' \in BOOLEAN /\ (~lossy' => DOMAIN file'.lines = Seeds /\ ~file'.torn)
    <3>1. CASE file' = Whole(FreshItems) /\ lossy' = FALSE
      BY <3>1, FreshTyped DEF Whole
    <3>2. CASE lossy' = TRUE
      BY <3>2
    <3> QED BY <1>2, <3>1, <3>2 DEF Generate
  <2>6. UNCHANGED <<golden, items, pending>> /\ pending = {}
    BY <1>2 DEF Generate
  <2> QED BY <1>0, <2>1, <2>4, <2>5, <2>6
          DEF Typed, Selected, Unwritten, InSession, DecisionsStand
<1>3. ASSUME Review PROVE Kept'
  <2>1. /\ UNCHANGED <<file, golden, decided, lossy>> /\ file = Whole(file.lines)
        /\ items' = file.lines /\ pending' = {i \in DOMAIN file.lines : NeedsDecision(file.lines[i])}
    BY <1>3 DEF Review, Loads, Typed, Whole
  <2>2. InSession'
    BY <2>1 DEF InSession
  <2> QED BY <1>0, <2>1, <2>2 DEF Typed, Selected, Unwritten, DecisionsStand
<1>4. ASSUME Decide PROVE Kept'
  <2> DEFINE i == Min(pending)
  <2>1. pending # {} /\ file = Whole(items)
    BY <1>4 DEF Decide, InSession
  <2>2. items = file.lines /\ file.there /\ ~file.torn /\ i \in pending /\ i \in DOMAIN items
    <3>1. items = file.lines /\ file.there /\ ~file.torn
      BY <2>1 DEF Whole
    <3>2. pending \subseteq Nat /\ pending \subseteq DOMAIN items
      BY <1>1, <3>1 DEF InSession
    <3> QED BY <2>1, <3>1, <3>2, NextPending
  <2> HIDE DEF i
  <2>3. PICK answer \in Answers(items[i]) :
          LET list == [items EXCEPT ![i] = answer]
          IN  /\ decided' = [decided EXCEPT ![answer.id] = DecisionOn(answer)]
              /\ \/ /\ file' = Whole(list)
                    /\ items' = list /\ pending' = pending \ {i}
                    /\ UNCHANGED <<lossy, crashes>>
                 \/ /\ Crash /\ file' \in Partial(list) /\ lossy' = TRUE
                    /\ items' = <<>> /\ pending' = {}
    BY <1>4 DEF Decide, i
  <2> DEFINE list == [items EXCEPT ![i] = answer]
  <2>4. /\ answer \in Items /\ answer.id = i /\ answer.ids \subseteq PoolOf[i]
        /\ DecisionOn(answer) \in Decisions /\ ~NeedsDecision(answer)
        /\ i \in Seeds
    <3>1. items[i] \in Items /\ items[i].id = i /\ i \in Seeds
      BY <1>1, <2>2 DEF DecisionsStand
    <3> QED BY <3>1, AnswerFits
  <2>5. list \in Seq(Items) /\ DOMAIN list = DOMAIN items
    BY <1>1, <2>2, <2>4
  <2>6. list[i] = answer /\ \A j \in DOMAIN items : j # i => list[j] = items[j]
    BY <1>1, <2>2
  <2>7. /\ decided' \in [Seeds -> Decisions] /\ decided'[i] = DecisionOn(answer)
        /\ \A q \in Seeds : q # i => decided'[q] = decided[q]
    BY <2>3, <2>4 DEF Typed
  <2>8. \A j \in DOMAIN list : /\ list[j].id = j /\ DecisionOn(list[j]) = decided'[j]
                               /\ list[j].ids \subseteq PoolOf[j]
    BY <1>1, <2>2, <2>4, <2>5, <2>6, <2>7 DEF DecisionsStand, Selected
  <2>9. file' = Whole(list) \/ file' \in Partial(list)
    BY <2>3
  <2>10. \/ file' = Whole(list) /\ items' = list /\ pending' = pending \ {i} /\ lossy' = lossy
         \/ lossy' = TRUE /\ items' = <<>> /\ pending' = {}
    BY <2>3
  <2> HIDE DEF list
  <2>11. /\ file'.there = TRUE /\ file'.lines \in Seq(Items) /\ file'.torn \in BOOLEAN
         /\ file' = [there |-> file'.there, lines |-> file'.lines, torn |-> file'.torn]
         /\ \A j \in DOMAIN file'.lines : /\ file'.lines[j].id = j
                                          /\ DecisionOn(file'.lines[j]) = decided'[j]
                                          /\ file'.lines[j].ids \subseteq PoolOf[j]
    <3>1. Holds(file', list)
      BY <2>5, <2>9, SaveHolds
    <3> QED BY <2>8, <3>1 DEF Holds
  <2>12. lossy' \in BOOLEAN /\ (~lossy' => DOMAIN file'.lines = Seeds /\ ~file'.torn)
    <3>1. CASE file' = Whole(list) /\ lossy' = lossy
      BY <2>2, <2>5, <3>1 DEF Whole, DecisionsStand, Typed
    <3>2. CASE lossy' = TRUE
      BY <3>2
    <3> QED BY <2>10, <3>1, <3>2
  <2>13. InSession'
    <3>1. CASE pending' = {}
      BY <3>1 DEF InSession
    <3>2. CASE file' = Whole(list) /\ items' = list /\ pending' = pending \ {i}
      BY <2>2, <2>4, <2>5, <2>6, <3>2, <2>1 DEF InSession
    <3> QED BY <2>10, <3>1, <3>2
  <2>14. UNCHANGED golden
    BY <1>4 DEF Decide
  <2> QED BY <1>0, <2>7, <2>11, <2>12, <2>13, <2>14
          DEF Typed, Selected, Unwritten, DecisionsStand
<1>5. ASSUME Quit PROVE Kept'
  BY <1>0, <1>5 DEF Quit, Typed, Selected, Unwritten, InSession, DecisionsStand
<1>6. ASSUME Promote PROVE Kept'
  <2>1. UNCHANGED <<file, items, pending, decided, lossy>>
        /\ (golden' = Appended(NewLines) \/ (golden' \in Cut(NewLines) /\ crashes' > 0))
    BY <1>0, <1>6 DEF Promote, Crash
  <2>2. /\ golden'.lines \in Seq(Lines) /\ golden'.tail \in {"ended", "unended", "broken"}
        /\ golden' = [lines |-> golden'.lines, tail |-> golden'.tail]
        /\ GoldenSound'
    BY <1>0, <2>1, PromoteSound
  <2> QED BY <1>0, <2>1, <2>2 DEF Typed, Selected, Unwritten, InSession, DecisionsStand
<1>7. ASSUME Edit PROVE Kept'
  <2>1. PICK i \in DOMAIN file.lines, v \in BOOLEAN, ids \in SUBSET Chunks :
          LET item == [file.lines[i] EXCEPT !.verified = v, !.ids = ids]
          IN  /\ ids \subseteq PoolOf[item.id]
              /\ file' = [file EXCEPT !.lines[i] = item]
              /\ decided' = [decided EXCEPT ![item.id] = DecisionOn(item)]
    BY <1>7 DEF Edit
  <2> DEFINE item == [file.lines[i] EXCEPT !.verified = v, !.ids = ids]
             list == [file.lines EXCEPT ![i] = item]
  <2>2. file.lines[i] \in Items /\ file.lines[i].id = i /\ i \in Seeds
    BY <1>1 DEF DecisionsStand
  <2>3. item \in Items /\ item.id = i /\ item.ids = ids /\ DecisionOn(item) \in Decisions
    BY <2>2 DEF Items, DecisionOn, Decisions
  <2>4. /\ ids \subseteq PoolOf[i] /\ file' = [file EXCEPT !.lines[i] = item]
        /\ decided' = [decided EXCEPT ![i] = DecisionOn(item)]
    BY <2>1, <2>3
  <2> HIDE DEF item
  <2>5. file' = [there |-> file.there, lines |-> list, torn |-> file.torn]
    BY <2>4 DEF Typed
  <2>6. /\ list \in Seq(Items) /\ DOMAIN list = DOMAIN file.lines /\ list[i] = item
        /\ \A j \in DOMAIN file.lines : j # i => list[j] = file.lines[j]
    BY <1>1, <2>3
  <2>7. /\ decided' \in [Seeds -> Decisions] /\ decided'[i] = DecisionOn(item)
        /\ \A q \in Seeds : q # i => decided'[q] = decided[q]
    BY <2>2, <2>3, <2>4 DEF Typed
  <2> HIDE DEF list
  <2>8. \A j \in DOMAIN list : /\ list[j].id = j /\ DecisionOn(list[j]) = decided'[j]
                               /\ list[j].ids \subseteq PoolOf[j]
    BY <1>1, <2>2, <2>3, <2>4, <2>6, <2>7 DEF DecisionsStand, Selected
  <2>9. pending = {} /\ UNCHANGED <<golden, items, pending, lossy>>
    BY <1>7 DEF Edit
  <2>10. file.there
    <3>1. ASSUME ~file.there PROVE FALSE
      <4>1. file.lines = <<>>
        BY <3>1 DEF Unwritten
      <4> QED BY <1>1, <4>1
    <3> QED BY <3>1
  <2> QED BY <1>0, <2>5, <2>6, <2>7, <2>8, <2>9, <2>10
          DEF Typed, Selected, Unwritten, InSession, DecisionsStand
<1>8. ASSUME Mend PROVE Kept'
  <2>1. file' = [there |-> file.there, lines |-> file.lines, torn |-> FALSE] /\ file.torn
    BY <1>8 DEF Mend, Typed
  <2>2. pending = {} /\ UNCHANGED <<golden, items, pending, decided, lossy>>
    BY <1>8, <2>1 DEF Mend, InSession, Whole
  <2> QED BY <1>0, <2>1, <2>2 DEF Typed, Selected, Unwritten, InSession, DecisionsStand
<1>9. ASSUME UNCHANGED vars PROVE Kept'
  BY <1>0, <1>9 DEF vars, Typed, Selected, Unwritten, InSession, DecisionsStand
<1> QED BY <1>2, <1>3, <1>4, <1>5, <1>6, <1>7, <1>8, <1>9 DEF Next

\* For any seed questions, crashes and edits by hand the files, the session and
\* the decisions agree (evals.cli).
THEOREM KeptAlways == Spec => []Kept
BY KeptInit, KeptNext, PTL DEF Spec

\* For any seed questions, crashes and edits by hand: each item of the review
\* file carries the last decision on its question, and only a command that died
\* costs a tail of the file (run_interactive_review, write_candidates).
THEOREM DecisionsCorrect == Spec => []DecisionsStand
<1>1. Kept => DecisionsStand
  BY DEF Kept
<1> QED BY <1>1, KeptAlways, PTL

\* For any seed questions, and however often promotion is run or dies, the golden
\* set has no question twice and no in-scope question without a relevant chunk.
THEOREM GoldenCorrect == Spec => []GoldenSound
<1>1. Kept => GoldenSound
  BY DEF Kept
<1> QED BY <1>1, KeptAlways, PTL

\* For any seed questions a session asks about every one that is not settled
\* (needs_decision).
THEOREM AsideCorrect == Spec => []NothingLeftAside
<1>1. Kept => NothingLeftAside
  <2>1. SUFFICES ASSUME Kept, pending # {}, NEW i \in DOMAIN file.lines, i \notin pending
                 PROVE  Promotable(file.lines[i]) \/ file.lines[i].notes \in {"none", "dropped"}
    BY DEF NothingLeftAside
  <2>2. items = file.lines
    BY <2>1 DEF Kept, InSession, Whole
  <2>3. ~NeedsDecision(file.lines[i])
    BY <2>1, <2>2 DEF Kept, InSession
  <2>4. file.lines[i].notes \in Notes
    <3>1. file.lines[i] \in Items
      BY <2>1 DEF Kept, Typed
    <3> QED BY <3>1 DEF Items
  <2> QED BY <2>3, <2>4 DEF NeedsDecision, Promotable, Notes
<1> QED BY <1>1, KeptAlways, PTL
============================================================================
