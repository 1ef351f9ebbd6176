-------------------------- MODULE PromptedJsonProofs --------------------------
(***************************************************************************)
(* Theorems about PromptedJson, for any callers, prompts, schemas and      *)
(* distances, with or without an embedder and an audit trace.              *)
(***************************************************************************)
EXTENDS PromptedJson, TLAPS

----------------------------------------------------------------------------
\* The audit trail.  The id an attempt will be linked to is that of the last
\* record, if there is one.
TrailTyped ==
  /\ pc \in [Callers -> Steps]
  /\ tries \in [Callers -> Nat]
  /\ lastId \in [Callers -> Nat]
  /\ trail \in [Callers -> Seq(Records)]

Linked(c) ==
  /\ Len(trail[c]) = tries[c]
  /\ \A i \in DOMAIN trail[c] :
       /\ trail[c][i].link = IF trail[c][i].recorded /\ i > 1 /\ trail[c][i - 1].recorded
                               THEN i - 1 ELSE 0
       /\ trail[c][i].open => i = tries[c] /\ At(c, "calling")
  /\ lastId[c] = IF tries[c] > 0 /\ trail[c][tries[c]].recorded THEN tries[c] ELSE 0
  /\ At(c, "calling") => tries[c] > 0

TrailInv == TrailTyped /\ \A c \in Callers : Linked(c)

LEMMA TrailInit == Init => TrailInv
<1> SUFFICES ASSUME Init PROVE TrailInv
  OBVIOUS
<1>1. <<>> \in Seq(Records) /\ Len(<<>>) = 0 /\ DOMAIN <<>> = {}
  OBVIOUS
<1> QED BY <1>1 DEF Init, TrailInv, TrailTyped, Linked, At, Steps

\* What a step may do to a caller's trail: start afresh, leave it, add an
\* attempt or close one.
Afresh(c) ==
  /\ pc' = [pc EXCEPT ![c] = "exact"]
  /\ tries' = [tries EXCEPT ![c] = 0]
  /\ lastId' = [lastId EXCEPT ![c] = 0]
  /\ trail' = [trail EXCEPT ![c] = <<>>]

Aside(c) ==
  /\ ~At(c, "calling")
  /\ \E s \in Steps \ {"calling"} : pc' = [pc EXCEPT ![c] = s]
  /\ UNCHANGED auditVars

Closing(c) ==
  /\ At(c, "calling")
  /\ \E s \in Steps \ {"calling"} : pc' = [pc EXCEPT ![c] = s]
  /\ Close(c)
  /\ UNCHANGED <<tries, lastId>>

LEMMA AfreshKeeps ==
  ASSUME TrailInv, NEW c \in Callers, Afresh(c) PROVE TrailInv'
<1>1. <<>> \in Seq(Records) /\ Len(<<>>) = 0 /\ DOMAIN <<>> = {}
  OBVIOUS
<1>2. TrailTyped'
  BY <1>1 DEF TrailInv, TrailTyped, Afresh, Steps
<1>3. ASSUME NEW d \in Callers PROVE Linked(d)'
  BY <1>1 DEF TrailInv, TrailTyped, Afresh, Linked, At
<1> QED BY <1>2, <1>3 DEF TrailInv

LEMMA AsideKeeps ==
  ASSUME TrailInv, NEW c \in Callers, Aside(c) PROVE TrailInv'
BY DEF TrailInv, TrailTyped, Aside, Linked, At, auditVars

LEMMA ClosingKeeps ==
  ASSUME TrailInv, NEW c \in Callers, Closing(c) PROVE TrailInv'
<1> DEFINE n == tries[c]
<1>1. n \in 1..Len(trail[c]) /\ trail[c] \in Seq(Records) /\ n \in Nat
  BY DEF TrailInv, TrailTyped, Linked, Closing
<1> DEFINE closed == [trail[c] EXCEPT ![n].open = FALSE]
<1>2. trail[c][n] \in Records /\ trail[c] \in [1..Len(trail[c]) -> Records]
  BY <1>1
<1>3. [trail[c][n] EXCEPT !.open = FALSE] \in Records
  BY <1>2 DEF Records
<1>4. /\ closed \in Seq(Records) /\ Len(closed) = Len(trail[c])
      /\ \A i \in 1..Len(trail[c]) :
           /\ closed[i].link = trail[c][i].link
           /\ closed[i].recorded = trail[c][i].recorded
           /\ closed[i].open => trail[c][i].open /\ i # n
  BY <1>1, <1>2, <1>3 DEF Records
<1>5. trail' = [trail EXCEPT ![c] = closed]
  BY DEF Closing, Close, TrailInv, TrailTyped
<1> HIDE DEF closed
<1>6. TrailTyped'
  BY <1>4, <1>5 DEF TrailInv, TrailTyped, Closing
<1>7. ASSUME NEW d \in Callers, d # c PROVE Linked(d)'
  BY <1>5, <1>7 DEF TrailInv, TrailTyped, Closing, Linked, At
<1>8. Linked(c)'
  <2>1. trail'[c] = closed /\ tries'[c] = n /\ lastId'[c] = lastId[c] /\ pc'[c] # "calling"
    BY <1>5 DEF TrailInv, TrailTyped, Closing
  <2>2. DOMAIN closed = 1..Len(trail[c]) /\ DOMAIN trail[c] = 1..Len(trail[c])
    BY <1>1, <1>4
  <2>3. Linked(c)
    BY DEF TrailInv
  <2> QED BY <1>1, <1>4, <2>1, <2>2, <2>3 DEF Linked, At
<1> QED BY <1>6, <1>7, <1>8 DEF TrailInv

LEMMA AttemptKeeps ==
  ASSUME TrailInv, NEW c \in Callers, NEW recorded \in BOOLEAN, Attempt(c, recorded)
  PROVE  TrailInv'
<1> DEFINE n == tries[c]
           new == [recorded |-> recorded, link |-> IF recorded THEN lastId[c] ELSE 0,
                   open |-> recorded]
           longer == Append(trail[c], new)
<1>1. n \in Nat /\ Len(trail[c]) = n /\ trail[c] \in Seq(Records) /\ lastId[c] \in Nat
  BY DEF TrailInv, TrailTyped, Linked
<1>2. new \in Records
  BY <1>1 DEF Records
<1>3. /\ longer \in Seq(Records) /\ Len(longer) = n + 1 /\ longer[n + 1] = new
      /\ \A i \in 1..n : longer[i] = trail[c][i]
  BY <1>1, <1>2
<1>4. /\ trail' = [trail EXCEPT ![c] = longer]
      /\ tries' = [tries EXCEPT ![c] = n + 1]
      /\ lastId' = [lastId EXCEPT ![c] = IF recorded THEN n + 1 ELSE 0]
      /\ pc' = [pc EXCEPT ![c] = "calling"]
  BY DEF Attempt, CallId, Goto, TrailInv, TrailTyped
<1>5. TrailTyped'
  BY <1>1, <1>3, <1>4 DEF TrailInv, TrailTyped, Steps
<1>6. ASSUME NEW d \in Callers, d # c PROVE Linked(d)'
  BY <1>4, <1>6 DEF TrailInv, TrailTyped, Linked, At
<1>7. Linked(c)'
  <2>1. /\ trail'[c] = longer /\ tries'[c] = n + 1 /\ pc'[c] = "calling"
        /\ lastId'[c] = IF recorded THEN n + 1 ELSE 0
    BY <1>4 DEF TrailInv, TrailTyped
  <2>2. Linked(c) /\ ~At(c, "calling")
    BY DEF TrailInv, Attempt, At
  <2>3. /\ new.recorded = recorded /\ new.open = recorded
        /\ new.link = IF recorded THEN lastId[c] ELSE 0
    OBVIOUS
  <2> HIDE DEF new, longer, n
  <2>4. DOMAIN longer = 1..n + 1 /\ DOMAIN trail[c] = 1..n
    BY <1>1, <1>3
  <2>5. lastId[c] = IF n > 0 /\ trail[c][n].recorded THEN n ELSE 0
    BY <2>2 DEF Linked, n
  <2>6. ASSUME NEW i \in 1..n + 1
        PROVE  /\ longer[i].link = IF longer[i].recorded /\ i > 1 /\ longer[i - 1].recorded
                                     THEN i - 1 ELSE 0
               /\ longer[i].open => i = n + 1
    <3>1. CASE i = n + 1
      BY <1>1, <1>3, <2>3, <2>5, <3>1
    <3>2. CASE i \in 1..n
      <4>1. longer[i] = trail[c][i] /\ (i > 1 => longer[i - 1] = trail[c][i - 1])
        BY <1>1, <1>3, <3>2
      <4>2. /\ trail[c][i].link = IF trail[c][i].recorded /\ i > 1 /\ trail[c][i - 1].recorded
                                    THEN i - 1 ELSE 0
            /\ ~trail[c][i].open
        BY <2>2, <2>4, <3>2 DEF Linked
      <4> QED BY <4>1, <4>2
    <3> QED BY <1>1, <3>1, <3>2
  <2> QED BY <1>1, <1>3, <2>1, <2>3, <2>4, <2>6 DEF Linked, At
<1> QED BY <1>5, <1>6, <1>7 DEF TrailInv

\* A caller that is shown a reply starts a new gateway call or is done.
LEMMA ReceiveOnTrail ==
  ASSUME NEW c \in Callers, NEW e, ~At(c, "calling"), Receive(c, e)
  PROVE  Afresh(c) \/ Aside(c)
BY DEF Receive, Afresh, Aside, Ask, End, Goto, Steps

LEMMA TrailStep == TrailInv /\ [Next]_vars => TrailInv'
<1> SUFFICES ASSUME TrailInv, [Next]_vars PROVE TrailInv'
  OBVIOUS
<1>1. ASSUME NEW c \in Callers, Advance(c) PROVE Afresh(c) \/ Aside(c)
  <2>1. CASE Begin(c)
    BY <2>1 DEF Begin, Ask, Goto, Afresh
  <2>2. CASE LookExact(c)
    <3>1. ~At(c, "calling")
      BY <2>2 DEF LookExact, At
    <3>2. CASE \E e \in Stored(request[c]) : Receive(c, e)
      BY <3>1, <3>2, ReceiveOnTrail
    <3>3. CASE Goto(c, IF embedder THEN "scan" ELSE "try") /\ UNCHANGED <<text, auditVars, askVars>>
      <4>1. Goto(c, "scan") \/ Goto(c, "try")
        BY <3>3
      <4> QED BY <3>1, <3>3, <4>1 DEF Goto, Aside, Steps
    <3> QED BY <2>2, <3>2, <3>3 DEF LookExact
  <2>3. CASE Scan(c)
    BY <2>3 DEF Scan, Goto, Aside, Steps, At
  <2>4. CASE LookNear(c)
    <3>1. ~At(c, "calling")
      BY <2>4 DEF LookNear, At
    <3>2. CASE \E e \in Stored(best[c]) : Receive(c, e)
      BY <3>1, <3>2, ReceiveOnTrail
    <3>3. CASE Goto(c, "try") /\ UNCHANGED <<text, auditVars, askVars>>
      BY <3>1, <3>3 DEF Goto, Aside, Steps
    <3> QED BY <2>4, <3>2, <3>3 DEF LookNear
  <2>5. CASE Store(c)
    <3>1. ~At(c, "calling")
      BY <2>5 DEF Store, At
    <3>2. CASE Receive(c, Fresh(c))
      BY <3>1, <3>2, ReceiveOnTrail
    <3>3. CASE Goto(c, "push") /\ UNCHANGED <<text, auditVars, askVars>>
      BY <3>1, <3>3 DEF Goto, Aside, Steps
    <3> QED BY <2>5, <3>2, <3>3 DEF Store
  <2>6. CASE Push(c)
    BY <2>6 DEF Push, Goto, Aside, Steps, At
  <2>7. CASE Trim(c)
    <3>1. ~At(c, "calling") /\ Receive(c, Fresh(c))
      BY <2>7 DEF Trim, At
    <3> QED BY <3>1, ReceiveOnTrail
  <2> QED BY <1>1, <2>1, <2>2, <2>3, <2>4, <2>5, <2>6, <2>7 DEF Advance
<1>2. ASSUME NEW c \in Callers, NEW t \in Texts, Reply(c, t) PROVE Closing(c)
  BY <1>2 DEF Reply, Closing, Goto, Steps
<1>3. ASSUME NEW c \in Callers, AttemptFails(c) PROVE Closing(c)
  BY <1>3 DEF AttemptFails, Closing, Goto, End, Steps
<1>4. ASSUME NEW c \in Callers, Cut(c) PROVE Closing(c) \/ Aside(c)
  BY <1>4 DEF Cut, CloseOnCancel, Closing, Aside, Goto, End, Steps, auditVars
<1>5. CASE Expire \/ UNCHANGED vars
  BY <1>5 DEF Expire, vars, auditVars, TrailInv, TrailTyped, Linked, At
<1> QED
  BY <1>1, <1>2, <1>3, <1>4, <1>5, AfreshKeeps, AsideKeeps, ClosingKeeps, AttemptKeeps
  DEF Next, Provider, Done

(***************************************************************************)
(* For any number of attempts over any chain, with records that fail to    *)
(* start anywhere and cancellations at any await, the audit of a gateway   *)
(* call is numbered, linked and closed (_AttemptChain, AttemptRecorder).   *)
(***************************************************************************)
THEOREM TrailCorrect == Spec => []TrailSound
<1>1. TrailInv => TrailSound
  BY DEF TrailInv, TrailSound, Linked
<1> QED BY TrailInit, TrailStep, <1>1, PTL DEF Spec

----------------------------------------------------------------------------
\* The conversations.  A reply belongs to a request that it was generated for
\* or, with an embedder, that ends on a message close to its own.
Near(r, source) ==
  embedder /\ Distance[LastMessage(r), LastMessage(source)] <= Threshold

Belongs(r, source) == source = r \/ Near(r, source)

TalkTyped ==
  /\ pc \in [Callers -> Steps]
  /\ round \in [Callers -> {1, 2}]
  /\ prompt \in [Callers -> Prompts]
  /\ request \in [Callers -> Requests]
  /\ best \in [Callers -> Requests]
  /\ text \in [Callers -> Texts]
  /\ sources \in [Callers -> Seq(Requests)]
  /\ outcome \in [Callers -> {"none", "value", "unparsed", "failed"}]

\* What the two layers hold.
CacheTyped ==
  /\ exact \subseteq Entries
  /\ nearby \in Seq([last : LastMessages, key : Requests])
  /\ \A i \in DOMAIN nearby : nearby[i].last = LastMessage(nearby[i].key)

Talks(c) ==
  /\ round[c] = 1 => request[c] = <<prompt[c]>>
  /\ round[c] = 2 => \E t \in Texts : request[c] = Append(<<prompt[c]>>, t) /\ ~Parses(c, t)
  /\ outcome[c] = "none" <=> pc[c] # "end"
  /\ outcome[c] \in {"none", "failed"} => Len(sources[c]) = round[c] - 1
  /\ outcome[c] \in {"value", "unparsed"} => Len(sources[c]) = round[c]
  /\ Len(sources[c]) >= 1 => Belongs(<<prompt[c]>>, sources[c][1])
  /\ Len(sources[c]) >= 2 => Belongs(request[c], sources[c][2])
  /\ outcome[c] = "unparsed" => round[c] = 2 /\ ~Parses(c, text[c])
  /\ pc[c] = "scan" => embedder
  /\ pc[c] = "near" => Near(request[c], best[c])

TalkInv == TalkTyped /\ CacheTyped /\ \A c \in Callers : Talks(c)

LEMMA TalkInit == Init => TalkInv
<1> SUFFICES ASSUME Init PROVE TalkInv
  OBVIOUS
<1>1. (CHOOSE t \in Texts : TRUE) \in Texts
  BY PromptAssumption
<1>2. ASSUME NEW p \in Prompts PROVE <<p>> \in Requests
  BY DEF Requests
<1>3. <<>> \in Requests /\ <<>> \in Seq(Requests) /\ Len(<<>>) = 0
  BY DEF Requests
<1>4. TalkTyped
  BY <1>1, <1>2, <1>3 DEF Init, TalkTyped, First, None, Steps
<1>5. CacheTyped
  BY <1>3 DEF Init, CacheTyped
<1>6. ASSUME NEW c \in Callers PROVE Talks(c)
  BY <1>3 DEF Init, Talks, First
<1> QED BY <1>4, <1>5, <1>6 DEF TalkInv

\* What a caller keeps when it is shown no reply.
Unshown(c) ==
  /\ request'[c] = request[c] /\ round'[c] = round[c] /\ sources'[c] = sources[c]
  /\ prompt'[c] = prompt[c] /\ embedder' = embedder
  /\ outcome'[c] = "none" <=> pc'[c] # "end"
  /\ outcome'[c] = outcome[c] \/ (outcome[c] = "none" /\ outcome'[c] = "failed")
  /\ outcome'[c] = "unparsed" => text'[c] = text[c]
  /\ pc'[c] = "scan" => embedder
  /\ pc'[c] = "near" => Near(request[c], best'[c])

LEMMA UnshownTalks ==
  ASSUME NEW c \in Callers, Talks(c), Unshown(c)
  PROVE  Talks(c)'
BY DEF Talks, Unshown, Parses, Belongs, Near

\* A caller that is shown a reply that belongs to its request.
LEMMA ReceiveTyped ==
  ASSUME TalkTyped, NEW c \in Callers, Talks(c), pc[c] # "end",
         NEW e \in Entries, Receive(c, e), UNCHANGED prompt,
         best' = best \/ best' = [best EXCEPT ![c] = None]
  PROVE  TalkTyped'
<1>1. e.text \in Texts /\ e.request \in Requests /\ sources[c] \in Seq(Requests)
      /\ None \in Requests
  BY DEF TalkTyped, Entries, Requests, None
<1>2. text' \in [Callers -> Texts] /\ prompt' \in [Callers -> Prompts]
  BY <1>1 DEF TalkTyped, Receive
<1>3. Append(sources[c], e.request) \in Seq(Requests)
  BY <1>1
<1>4. sources' \in [Callers -> Seq(Requests)] /\ best' \in [Callers -> Requests]
  BY <1>1, <1>3 DEF TalkTyped, Receive
<1>5. Append(request[c], e.text) \in Requests
  BY <1>1 DEF TalkTyped, Requests
<1>6. request' = request \/ request' = [request EXCEPT ![c] = Append(request[c], e.text)]
  BY DEF Receive, Repair
<1>7. request' \in [Callers -> Requests]
  BY <1>5, <1>6 DEF TalkTyped
<1>8. round' = round \/ round' = [round EXCEPT ![c] = 2]
  BY DEF Receive
<1>9. round' \in [Callers -> {1, 2}]
  BY <1>8 DEF TalkTyped
<1>10. pc' = [pc EXCEPT ![c] = "end"] \/ pc' = [pc EXCEPT ![c] = "exact"]
  BY DEF Receive, Ask, End, Goto
<1>11. \/ outcome' = outcome
       \/ \E how \in {"value", "unparsed"} : outcome' = [outcome EXCEPT ![c] = how]
  BY DEF Receive, End
<1>12. pc' \in [Callers -> Steps]
  BY <1>10 DEF TalkTyped, Steps
<1>13. outcome' \in [Callers -> {"none", "value", "unparsed", "failed"}]
  BY <1>11 DEF TalkTyped
<1> QED BY <1>2, <1>4, <1>7, <1>9, <1>12, <1>13 DEF TalkTyped

LEMMA BelongsStays ==
  ASSUME NEW c \in Callers, embedder' = embedder
  PROVE  /\ prompt'[c] = prompt[c] /\ Belongs(<<prompt[c]>>, sources'[c][1])
              => Belongs(<<prompt[c]>>, sources[c][1])'
         /\ request'[c] = request[c] /\ Belongs(request[c], sources'[c][2])
              => Belongs(request[c], sources[c][2])'
BY DEF Belongs, Near

LEMMA ReceiveTalks ==
  ASSUME TalkTyped, NEW c \in Callers, Talks(c), pc[c] # "end",
         NEW e \in Entries, Receive(c, e), UNCHANGED <<embedder, prompt>>,
         Belongs(request[c], e.request)
  PROVE  Talks(c)'
<1>1. e.text \in Texts /\ e.request \in Requests /\ sources[c] \in Seq(Requests)
      /\ prompt[c] \in Prompts /\ round[c] \in {1, 2} /\ outcome[c] = "none"
  BY DEF TalkTyped, Entries, Talks
<1>2. /\ text'[c] = e.text /\ sources'[c] = Append(sources[c], e.request)
      /\ prompt'[c] = prompt[c] /\ embedder' = embedder
  BY DEF TalkTyped, Receive
<1>3. Len(sources[c]) = round[c] - 1
  BY <1>1 DEF Talks
<1>4. /\ Len(sources'[c]) = round[c] /\ sources'[c][round[c]] = e.request
      /\ round[c] = 2 => sources'[c][1] = sources[c][1]
  BY <1>1, <1>2, <1>3
<1>5. \A s \in Texts : Parses(c, s)' <=> Parses(c, s)
  BY <1>2 DEF Parses
<1>6. prompt'[c] = prompt[c] /\ embedder' = embedder
  BY <1>2
<1>7. CASE /\ pc'[c] = "end" /\ round'[c] = round[c] /\ request'[c] = request[c]
           /\ \/ outcome'[c] = "value"
              \/ outcome'[c] = "unparsed" /\ round[c] = 2 /\ ~Parses(c, e.text)
  <2>1. Belongs(<<prompt[c]>>, sources'[c][1])
    BY <1>1, <1>3, <1>4 DEF Talks
  <2>2. round[c] = 2 => Belongs(request[c], sources'[c][2])
    BY <1>4
  <2>3. Belongs(<<prompt[c]>>, sources[c][1])'
    BY <1>6, <2>1, BelongsStays
  <2>4. (Len(sources[c]) >= 2 => Belongs(request[c], sources[c][2]))'
    <3>1. SUFFICES ASSUME Len(sources'[c]) >= 2
                   PROVE  Belongs(request[c], sources[c][2])'
      OBVIOUS
    <3>2. Belongs(request[c], sources'[c][2])
      BY <1>1, <1>4, <2>2, <3>1
    <3> QED BY <1>6, <1>7, <3>2, BelongsStays
  <2>5. (round[c] = 2 => \E s \in Texts : request[c] = Append(<<prompt[c]>>, s) /\ ~Parses(c, s))'
    BY <1>6, <1>7 DEF Talks, Parses
  <2>6. (outcome[c] = "unparsed" => round[c] = 2 /\ ~Parses(c, text[c]))'
    BY <1>2, <1>7 DEF Parses
  <2>7. (round[c] = 1 => request[c] = <<prompt[c]>>)'
    BY <1>6, <1>7 DEF Talks
  <2> QED
    BY <1>4, <1>7, <2>3, <2>4, <2>5, <2>6, <2>7 DEF Talks
<1>8. CASE /\ pc'[c] = "exact" /\ outcome'[c] = "none" /\ round[c] = 1 /\ round'[c] = 2
           /\ request'[c] = Append(request[c], e.text) /\ ~Parses(c, e.text)
  <2>1. request[c] = <<prompt[c]>>
    BY <1>8 DEF Talks
  <2>2. request'[c] = Append(<<prompt[c]>>, e.text)
    BY <1>8, <2>1
  <2>3. (round[c] = 2 => \E s \in Texts : request[c] = Append(<<prompt[c]>>, s) /\ ~Parses(c, s))'
    <3>1. ~Parses(c, e.text)'
      BY <1>6, <1>8 DEF Parses
    <3> QED BY <1>1, <1>6, <2>2, <3>1
  <2>4. Belongs(<<prompt[c]>>, sources'[c][1])
    BY <1>4, <1>8, <2>1
  <2>5. Belongs(<<prompt[c]>>, sources[c][1])'
    BY <1>6, <2>4, BelongsStays
  <2>6. Len(sources'[c]) = 1
    BY <1>4, <1>8
  <2> QED
    BY <1>8, <2>3, <2>5, <2>6 DEF Talks
<1> QED
  <2>1. \/ /\ Parses(c, e.text) /\ End(c, "value") /\ UNCHANGED <<round, request>>
        \/ /\ ~Parses(c, e.text) /\ End(c, "unparsed") /\ round[c] = 2
           /\ UNCHANGED <<round, request>>
        \/ /\ ~Parses(c, e.text) /\ round[c] = 1 /\ round' = [round EXCEPT ![c] = 2]
           /\ request' = [request EXCEPT ![c] = Append(request[c], e.text)]
           /\ pc' = [pc EXCEPT ![c] = "exact"] /\ UNCHANGED outcome
    BY DEF Receive, Repair, Ask, Goto
  <2> QED BY <1>1, <1>7, <1>8, <2>1 DEF TalkTyped, End, Goto

\* The entry a caller finds under a key was generated for that request.
LEMMA ShownFound ==
  ASSUME TalkInv, NEW c \in Callers, pc[c] # "end", NEW r \in Requests,
         NEW e \in Stored(r), Receive(c, e), Belongs(request[c], r),
         UNCHANGED <<embedder, prompt>>,
         best' = best \/ best' = [best EXCEPT ![c] = None]
  PROVE  TalkTyped' /\ Talks(c)'
<1>1. e \in Entries /\ e.request = r
  BY DEF TalkInv, CacheTyped, Stored, CacheKey
<1> QED BY <1>1, ReceiveTyped, ReceiveTalks DEF TalkInv

\* A step of one caller leaves the conversations of the others alone.
LEMMA OthersTalk ==
  ASSUME TalkInv, NEW c \in Callers, UNCHANGED <<embedder, prompt>>,
         \A d \in Callers \ {c} :
           /\ pc'[d] = pc[d] /\ outcome'[d] = outcome[d] /\ round'[d] = round[d]
           /\ request'[d] = request[d] /\ text'[d] = text[d]
           /\ sources'[d] = sources[d] /\ best'[d] = best[d]
  PROVE  \A d \in Callers \ {c} : Talks(d)'
<1> SUFFICES ASSUME NEW d \in Callers \ {c} PROVE Talks(d)'
  OBVIOUS
<1>1. Talks(d) /\ Unshown(d)
  BY DEF TalkInv, Talks, Unshown
<1> QED BY <1>1, UnshownTalks

\* So does a reply that is shown.
LEMMA ShownToOne ==
  ASSUME TalkTyped, NEW c \in Callers, NEW e, Receive(c, e), NEW d \in Callers \ {c},
         best' = best \/ best' = [best EXCEPT ![c] = None]
  PROVE  /\ pc'[d] = pc[d] /\ outcome'[d] = outcome[d] /\ round'[d] = round[d]
         /\ request'[d] = request[d] /\ text'[d] = text[d]
         /\ sources'[d] = sources[d] /\ best'[d] = best[d]
<1>1. text'[d] = text[d] /\ sources'[d] = sources[d] /\ best'[d] = best[d]
  BY DEF TalkTyped, Receive
<1>2. pc'[d] = pc[d]
  BY DEF TalkTyped, Receive, Ask, End, Goto
<1>3. outcome'[d] = outcome[d]
  BY DEF TalkTyped, Receive, End
<1>4. round'[d] = round[d] /\ request'[d] = request[d]
  BY DEF TalkTyped, Receive
<1> QED BY <1>1, <1>2, <1>3, <1>4

\* A step that shows no reply and moves one caller on, or none.
Moves(c) ==
  /\ UNCHANGED <<embedder, prompt, round, request, sources>>
  /\ \E s \in Steps \ {"end"} : pc' = [pc EXCEPT ![c] = s]
  /\ pc[c] # "end" /\ outcome' = outcome
  /\ best' = best \/ best' = [best EXCEPT ![c] = None] 
  /\ text' = text \/ \E t \in Texts : text' = [text EXCEPT ![c] = t]
  /\ pc'[c] = "scan" => embedder
  /\ pc'[c] = "near" => Near(request[c], best'[c])

LEMMA MovesTalk ==
  ASSUME TalkInv, NEW c \in Callers, Moves(c)
  PROVE  TalkTyped' /\ \A d \in Callers : Talks(d)'
<1>1. None \in Requests
  BY DEF None, Requests
<1>2. /\ pc' \in [Callers -> Steps] /\ text' \in [Callers -> Texts]
      /\ best' \in [Callers -> Requests]
  <2>1. pc' \in [Callers -> Steps]
    BY DEF TalkInv, TalkTyped, Moves
  <2>2. text' \in [Callers -> Texts]
    BY DEF TalkInv, TalkTyped, Moves
  <2>3. best' \in [Callers -> Requests]
    BY <1>1 DEF TalkInv, TalkTyped, Moves
  <2> QED BY <2>1, <2>2, <2>3
<1>3. TalkTyped'
  <2>1. /\ round' \in [Callers -> {1, 2}] /\ prompt' \in [Callers -> Prompts]
        /\ request' \in [Callers -> Requests] /\ sources' \in [Callers -> Seq(Requests)]
    BY DEF TalkInv, TalkTyped, Moves
  <2>2. outcome' \in [Callers -> {"none", "value", "unparsed", "failed"}]
    BY DEF TalkInv, TalkTyped, Moves
  <2> QED BY <1>2, <2>1, <2>2 DEF TalkTyped
<1>4. \A d \in Callers \ {c} : Talks(d)'
  <2>1. ASSUME NEW d \in Callers \ {c}
        PROVE  pc'[d] = pc[d] /\ text'[d] = text[d] /\ best'[d] = best[d]
    BY DEF TalkInv, TalkTyped, Moves
  <2> QED BY <2>1, OthersTalk DEF Moves
<1>5. Talks(c)'
  <2>1. Talks(c) /\ outcome[c] = "none" /\ pc'[c] # "end"
    BY DEF TalkInv, TalkTyped, Talks, Moves
  <2>2. Unshown(c)
    BY <2>1 DEF Moves, Unshown
  <2> QED BY <2>1, <2>2, UnshownTalks
<1> QED BY <1>3, <1>4, <1>5

\* A step that ends one call of complete_json without an answer.
LEMMA FailureTalks ==
  ASSUME TalkInv, NEW c \in Callers, pc[c] # "end", End(c, "failed"),
         UNCHANGED <<embedder, prompt, round, request, sources, text, best>>
  PROVE  TalkTyped' /\ \A d \in Callers : Talks(d)'
<1>1. /\ pc' \in [Callers -> Steps]
      /\ outcome' \in [Callers -> {"none", "value", "unparsed", "failed"}]
  BY DEF TalkInv, TalkTyped, End, Goto, Steps
<1>2. TalkTyped'
  BY <1>1 DEF TalkInv, TalkTyped
<1>3. ASSUME NEW d \in Callers \ {c} PROVE pc'[d] = pc[d] /\ outcome'[d] = outcome[d]
  BY DEF TalkInv, TalkTyped, End, Goto
<1>4. \A d \in Callers \ {c} : Talks(d)'
  BY <1>3, OthersTalk
<1>5. Talks(c) /\ pc'[c] = "end" /\ outcome'[c] = "failed" /\ outcome[c] = "none"
  BY DEF TalkInv, TalkTyped, Talks, End, Goto
<1>6. Unshown(c)
  BY <1>5 DEF Unshown
<1> QED BY <1>2, <1>4, <1>5, <1>6, UnshownTalks

\* A step of the other variables alone.
LEMMA TalkStutters ==
  ASSUME TalkInv, UNCHANGED <<embedder, prompt, pc, best, text, round, request, sources, outcome>>
  PROVE  TalkTyped' /\ \A d \in Callers : Talks(d)'
<1>1. TalkTyped'
  BY DEF TalkInv, TalkTyped
<1>2. ASSUME NEW d \in Callers PROVE Talks(d) /\ Unshown(d)
  BY DEF TalkInv, Talks, Unshown
<1> QED BY <1>1, <1>2, UnshownTalks

----------------------------------------------------------------------------
\* The steps of a caller.
LEMMA LookExactTalks ==
  ASSUME TalkInv, NEW c \in Callers, LookExact(c)
  PROVE  TalkInv'
<1>1. request[c] \in Requests /\ pc[c] # "end" /\ Belongs(request[c], request[c])
  BY DEF TalkInv, TalkTyped, LookExact, At, Belongs
<1>2. CacheTyped'
  BY DEF TalkInv, CacheTyped, LookExact, cacheVars
<1>3. CASE \E e \in Stored(request[c]) : Receive(c, e)
  <2>1. PICK e \in Stored(request[c]) : Receive(c, e)
    BY <1>3
  <2>2. UNCHANGED <<embedder, prompt, best>>
    BY DEF LookExact
  <2>3. TalkTyped' /\ Talks(c)'
    BY <1>1, <2>1, <2>2, ShownFound
  <2>4. \A d \in Callers \ {c} : Talks(d)'
    BY <2>1, <2>2, ShownToOne, OthersTalk DEF TalkInv
  <2> QED BY <1>2, <2>3, <2>4 DEF TalkInv
<1>4. CASE /\ \E s \in {"scan", "try"} : pc' = [pc EXCEPT ![c] = s] /\ (s = "scan" => embedder)
           /\ UNCHANGED <<text, askVars>>
  <2>1. pc'[c] # "near" /\ (pc'[c] = "scan" => embedder)
    BY <1>4 DEF TalkInv, TalkTyped
  <2>2. Moves(c)
    BY <1>1, <1>4, <2>1 DEF Moves, LookExact, askVars, Steps
  <2> QED BY <1>2, <2>2, MovesTalk DEF TalkInv
<1>5. \/ \E e \in Stored(request[c]) : Receive(c, e)
      \/ /\ \E s \in {"scan", "try"} : pc' = [pc EXCEPT ![c] = s] /\ (s = "scan" => embedder)
         /\ UNCHANGED <<text, askVars>>
  BY DEF LookExact, Goto
<1> QED BY <1>3, <1>4, <1>5

LEMMA LookNearTalks ==
  ASSUME TalkInv, NEW c \in Callers, LookNear(c)
  PROVE  TalkInv'
<1>1. /\ best[c] \in Requests /\ pc[c] # "end" /\ Belongs(request[c], best[c])
      /\ best' = [best EXCEPT ![c] = None]
  BY DEF TalkInv, TalkTyped, Talks, LookNear, At, Belongs
<1>2. CacheTyped'
  BY DEF TalkInv, CacheTyped, LookNear, cacheVars
<1>3. CASE \E e \in Stored(best[c]) : Receive(c, e)
  <2>1. PICK e \in Stored(best[c]) : Receive(c, e)
    BY <1>3
  <2>2. UNCHANGED <<embedder, prompt>>
    BY DEF LookNear
  <2>3. TalkTyped' /\ Talks(c)'
    BY <1>1, <2>1, <2>2, ShownFound
  <2>4. \A d \in Callers \ {c} : Talks(d)'
    BY <1>1, <2>1, <2>2, ShownToOne, OthersTalk DEF TalkInv
  <2> QED BY <1>2, <2>3, <2>4 DEF TalkInv
<1>4. CASE pc' = [pc EXCEPT ![c] = "try"] /\ UNCHANGED <<text, askVars>>
  <2>1. pc'[c] # "near" /\ (pc'[c] = "scan" => embedder)
    BY <1>4 DEF TalkInv, TalkTyped
  <2>2. Moves(c)
    BY <1>1, <1>4, <2>1 DEF Moves, LookNear, askVars, Steps
  <2> QED BY <1>2, <2>2, MovesTalk DEF TalkInv
<1> QED BY <1>3, <1>4 DEF LookNear, Goto

LEMMA ScanTalks ==
  ASSUME TalkInv, NEW c \in Callers, Scan(c)
  PROVE  TalkInv'
<1>1. pc[c] = "scan" /\ embedder
  BY DEF TalkInv, Talks, Scan, At
<1>2. CacheTyped'
  BY DEF TalkInv, CacheTyped, Scan, cacheVars
<1>3. CASE Goto(c, "try") /\ UNCHANGED best
  <2>1. Moves(c)
    BY <1>1, <1>3 DEF Moves, Scan, Goto, askVars, Steps, TalkInv, TalkTyped
  <2> QED BY <1>2, <2>1, MovesTalk DEF TalkInv
<1>4. CASE \E i \in Closest(request[c]) :
             /\ CloseEnough(request[c], i)
             /\ best' = [best EXCEPT ![c] = nearby[i].key]
             /\ Goto(c, "near")
  <2>1. PICK i \in DOMAIN nearby : /\ CloseEnough(request[c], i)
                                   /\ best' = [best EXCEPT ![c] = nearby[i].key]
                                   /\ Goto(c, "near")
    BY <1>4 DEF Closest
  <2> DEFINE key == nearby[i].key
  <2>2. key \in Requests /\ nearby[i].last = LastMessage(key)
    <3>1. nearby \in Seq([last : LastMessages, key : Requests])
      BY DEF TalkInv, CacheTyped
    <3>2. i \in DOMAIN nearby
      BY <2>1
    <3>3. nearby[i] \in [last : LastMessages, key : Requests]
      <4>1. ASSUME NEW S, NEW s \in Seq(S), NEW k \in DOMAIN s PROVE s[k] \in S
        OBVIOUS
      <4> HIDE DEF key
      <4> QED BY <3>1, <3>2, <4>1
    <3> QED BY <3>2, <3>3 DEF TalkInv, CacheTyped
  <2>3. Near(request[c], key)
    BY <1>1, <2>1, <2>2 DEF CloseEnough, Near
  <2>4. /\ best' = [best EXCEPT ![c] = key] /\ pc' = [pc EXCEPT ![c] = "near"]
        /\ UNCHANGED <<embedder, prompt, text, round, request, sources, outcome>>
    BY <2>1 DEF Scan, Goto, askVars
  <2> HIDE DEF key
  <2>5. TalkTyped'
    <3>1. best' \in [Callers -> Requests] /\ pc' \in [Callers -> Steps]
      BY <2>2, <2>4 DEF TalkInv, TalkTyped, Steps
    <3> QED BY <2>4, <3>1 DEF TalkInv, TalkTyped
  <2>6. \A d \in Callers \ {c} : Talks(d)'
    <3>1. ASSUME NEW d \in Callers \ {c} PROVE pc'[d] = pc[d] /\ best'[d] = best[d]
      BY <2>4 DEF TalkInv, TalkTyped
    <3> QED BY <2>4, <3>1, OthersTalk
  <2>7. Talks(c)'
    <3>1. Talks(c) /\ pc'[c] = "near" /\ best'[c] = key
      BY <2>4 DEF TalkInv, TalkTyped
    <3>2. Unshown(c)
      BY <1>1, <2>3, <2>4, <3>1 DEF Unshown, Talks
    <3> QED BY <3>1, <3>2, UnshownTalks
  <2> QED BY <1>2, <2>5, <2>6, <2>7 DEF TalkInv
<1> QED BY <1>3, <1>4 DEF Scan

LEMMA StoreTalks ==
  ASSUME TalkInv, NEW c \in Callers, Store(c)
  PROVE  TalkInv'
<1>1. /\ pc[c] = "store" /\ Fresh(c) \in Entries /\ Fresh(c).request = request[c]
      /\ UNCHANGED <<embedder, nearby, prompt, best>>
  BY DEF TalkInv, TalkTyped, Store, At, Fresh, Entries
<1>2. exact' \subseteq Entries
  BY <1>1 DEF TalkInv, CacheTyped, Store
<1>3. CacheTyped'
  BY <1>1, <1>2 DEF TalkInv, CacheTyped
<1>4. CASE ~embedder
  <2>1. Receive(c, Fresh(c)) /\ Belongs(request[c], Fresh(c).request)
    BY <1>1, <1>4 DEF Store, Belongs
  <2>2. TalkTyped' /\ Talks(c)'
    BY <1>1, <2>1, ReceiveTyped, ReceiveTalks DEF TalkInv
  <2>3. \A d \in Callers \ {c} : Talks(d)'
    BY <1>1, <2>1, ShownToOne, OthersTalk DEF TalkInv
  <2> QED BY <1>3, <2>2, <2>3 DEF TalkInv
<1>5. CASE embedder
  <2>1. Moves(c)
    BY <1>1, <1>5 DEF Moves, Store, Goto, askVars, Steps, TalkInv, TalkTyped
  <2> QED BY <1>3, <2>1, MovesTalk DEF TalkInv
<1> QED BY <1>4, <1>5

LEMMA PushTalks ==
  ASSUME TalkInv, NEW c \in Callers, Push(c)
  PROVE  TalkInv'
<1> DEFINE C == [last : LastMessages, key : Requests]
           new == [last |-> LastMessage(request[c]), key |-> request[c]]
<1>1. /\ pc[c] = "push" /\ request[c] \in Requests /\ nearby \in Seq(C)
      /\ nearby' = <<new>> \o nearby
      /\ UNCHANGED <<embedder, exact, prompt, best>>
  BY DEF TalkInv, TalkTyped, CacheTyped, Push, At
<1>2. LastMessage(request[c]) \in LastMessages
  <2>1. \/ request[c] = <<prompt[c]>>
        \/ \E t \in Texts : request[c] = Append(<<prompt[c]>>, t)
    BY DEF TalkInv, TalkTyped, Talks
  <2>2. SchemaOf[prompt[c]] \in Schemas
    BY PromptAssumption DEF TalkInv, TalkTyped
  <2>3. CASE request[c] = <<prompt[c]>>
    BY <2>2, <2>3 DEF LastMessage, LastMessages
  <2>4. ASSUME NEW t \in Texts, request[c] = Append(<<prompt[c]>>, t)
        PROVE  LastMessage(request[c]) \in LastMessages
    <3>1. prompt[c] \in Prompts \cup Texts /\ t \in Prompts \cup Texts
      BY DEF TalkInv, TalkTyped
    <3>2. Len(request[c]) = 2 /\ request[c][1] = prompt[c] /\ request[c][2] = t
      BY <2>4, <3>1
    <3> QED BY <2>2, <3>2 DEF LastMessage, LastMessages
  <2> QED BY <2>1, <2>3, <2>4
<1>3. new \in C /\ new.last = LastMessage(new.key)
  BY <1>1, <1>2
<1> HIDE DEF new
<1>4. /\ nearby' \in Seq(C) /\ Len(nearby') = Len(nearby) + 1
      /\ \A i \in 1..Len(nearby') : nearby'[i] = IF i = 1 THEN new ELSE nearby[i - 1]
  <2>1. ASSUME NEW S, NEW s \in Seq(S), NEW x \in S
        PROVE  /\ <<x>> \o s \in Seq(S) /\ Len(<<x>> \o s) = Len(s) + 1
               /\ \A i \in 1..Len(s) + 1 : (<<x>> \o s)[i] = IF i = 1 THEN x ELSE s[i - 1]
    OBVIOUS
  <2> QED BY <1>1, <1>3, <2>1
<1>5. ASSUME NEW i \in 1..Len(nearby') PROVE nearby'[i].last = LastMessage(nearby'[i].key)
  <2>1. CASE i = 1
    BY <1>3, <1>4, <2>1
  <2>2. CASE i # 1
    <3>1. i - 1 \in DOMAIN nearby /\ nearby'[i] = nearby[i - 1]
      BY <1>1, <1>4, <2>2
    <3> QED BY <3>1 DEF TalkInv, CacheTyped
  <2> QED BY <2>1, <2>2
<1>6. CacheTyped'
  BY <1>1, <1>4, <1>5 DEF TalkInv, CacheTyped
<1>7. Moves(c)
  BY <1>1 DEF Moves, Push, Goto, askVars, Steps, TalkInv, TalkTyped
<1> QED BY <1>6, <1>7, MovesTalk DEF TalkInv

LEMMA TrimTalks ==
  ASSUME TalkInv, NEW c \in Callers, Trim(c)
  PROVE  TalkInv'
<1>1. /\ pc[c] = "trim" /\ Fresh(c) \in Entries /\ Fresh(c).request = request[c]
      /\ Receive(c, Fresh(c)) /\ Belongs(request[c], Fresh(c).request)
      /\ UNCHANGED <<embedder, exact, prompt, best>>
  BY DEF TalkInv, TalkTyped, Trim, At, Fresh, Entries, Belongs
<1>2. CacheTyped'
  <2> DEFINE C == [last : LastMessages, key : Requests]
  <2>1. nearby \in Seq(C) /\ Len(nearby) \in Nat
    BY DEF TalkInv, CacheTyped
  <2>2. PICK n \in 0..Len(nearby) : nearby' = SubSeq(nearby, 1, n)
    BY <2>1, PromptAssumption DEF Trim
  <2>3. /\ nearby' \in Seq(C) /\ Len(nearby') = n
        /\ \A i \in 1..n : nearby'[i] = nearby[i]
    <3>1. ASSUME NEW S, NEW s \in Seq(S), NEW m \in 0..Len(s)
          PROVE  /\ SubSeq(s, 1, m) \in Seq(S) /\ Len(SubSeq(s, 1, m)) = m
                 /\ \A i \in 1..m : SubSeq(s, 1, m)[i] = s[i]
      OBVIOUS
    <3> HIDE DEF C
    <3> QED BY <2>1, <2>2, <3>1
  <2>4. ASSUME NEW i \in DOMAIN nearby' PROVE nearby'[i].last = LastMessage(nearby'[i].key)
    <3>1. i \in DOMAIN nearby /\ nearby'[i] = nearby[i]
      BY <2>1, <2>2, <2>3
    <3> QED BY <3>1 DEF TalkInv, CacheTyped
  <2> QED BY <1>1, <2>3, <2>4 DEF TalkInv, CacheTyped
<1>3. TalkTyped' /\ Talks(c)'
  BY <1>1, ReceiveTyped, ReceiveTalks DEF TalkInv
<1>4. \A d \in Callers \ {c} : Talks(d)'
  BY <1>1, ShownToOne, OthersTalk DEF TalkInv
<1> QED BY <1>2, <1>3, <1>4 DEF TalkInv

LEMMA ProviderTalks ==
  ASSUME TalkInv, NEW c \in Callers, Begin(c) \/ Provider(c) \/ Cut(c)
  PROVE  TalkInv'
<1>1. CASE Begin(c)
  <2>1. Moves(c)
    BY <1>1 DEF Moves, Begin, Ask, Goto, At, askVars, Steps, TalkInv, TalkTyped
  <2>2. CacheTyped'
    BY <1>1 DEF TalkInv, CacheTyped, Begin, cacheVars
  <2> QED BY <2>1, <2>2, MovesTalk DEF TalkInv
<1>2. ASSUME NEW recorded \in BOOLEAN, Attempt(c, recorded) PROVE TalkInv'
  <2>1. Moves(c)
    BY <1>2 DEF Moves, Attempt, Goto, At, askVars, Steps, TalkInv, TalkTyped
  <2>2. CacheTyped'
    BY <1>2 DEF TalkInv, CacheTyped, Attempt, cacheVars
  <2> QED BY <2>1, <2>2, MovesTalk DEF TalkInv
<1>3. ASSUME NEW t \in Texts, Reply(c, t) PROVE TalkInv'
  <2>1. Moves(c)
    BY <1>3 DEF Moves, Reply, Goto, At, askVars, Steps, TalkInv, TalkTyped
  <2>2. CacheTyped'
    BY <1>3 DEF TalkInv, CacheTyped, Reply, cacheVars
  <2> QED BY <2>1, <2>2, MovesTalk DEF TalkInv
<1>4. CASE AttemptFails(c)
  <2>1. CacheTyped'
    BY <1>4 DEF TalkInv, CacheTyped, AttemptFails, cacheVars
  <2>2. CASE End(c, "failed")
    BY <1>4, <2>1, <2>2, FailureTalks DEF TalkInv, AttemptFails, At
  <2>3. CASE Goto(c, "try") /\ UNCHANGED outcome
    <3>1. Moves(c)
      BY <1>4, <2>3 DEF Moves, AttemptFails, Goto, At, Steps, TalkInv, TalkTyped
    <3> QED BY <2>1, <3>1, MovesTalk DEF TalkInv
  <2> QED BY <1>4, <2>2, <2>3 DEF AttemptFails
<1>5. CASE Cut(c)
  <2>1. CacheTyped'
    BY <1>5 DEF TalkInv, CacheTyped, Cut, cacheVars
  <2> QED BY <1>5, <2>1, FailureTalks DEF TalkInv, Cut
<1> QED BY <1>1, <1>2, <1>3, <1>4, <1>5 DEF Provider

LEMMA ExpireTalks ==
  ASSUME TalkInv, Expire
  PROVE  TalkInv'
<1>1. <<>> \in Seq([last : LastMessages, key : Requests])
  OBVIOUS
<1>2. CacheTyped'
  <2>1. CASE exact' \subseteq exact /\ UNCHANGED nearby
    BY <2>1 DEF TalkInv, CacheTyped
  <2>2. CASE nearby' = <<>> /\ UNCHANGED exact
    BY <1>1, <2>2 DEF TalkInv, CacheTyped
  <2> QED BY <2>1, <2>2 DEF Expire
<1> QED BY <1>2, TalkStutters DEF TalkInv, Expire, askVars

LEMMA TalkStep == TalkInv /\ [Next]_vars => TalkInv'
<1> SUFFICES ASSUME TalkInv, [Next]_vars PROVE TalkInv'
  OBVIOUS
<1>1. ASSUME NEW c \in Callers, Advance(c) \/ Provider(c) \/ Cut(c) PROVE TalkInv'
  BY <1>1, LookExactTalks, LookNearTalks, ScanTalks, StoreTalks, PushTalks, TrimTalks,
     ProviderTalks DEF Advance
<1>2. CASE UNCHANGED vars
  <2>1. CacheTyped'
    BY <1>2 DEF vars, cacheVars, TalkInv, CacheTyped
  <2> QED BY <1>2, <2>1, TalkStutters DEF TalkInv, vars, askVars
<1> QED BY <1>1, <1>2, ExpireTalks DEF Next, Done

----------------------------------------------------------------------------
\* What a caller had asked before its first and its second reply.
LEMMA AskedIs ==
  ASSUME TalkInv, NEW c \in Callers
  PROVE  /\ Len(sources[c]) \in 0..round[c] /\ round[c] \in {1, 2}
         /\ Asked(c, 1) = <<prompt[c]>>
         /\ round[c] = 2 => /\ Asked(c, 2) = request[c]
                            /\ Len(request[c]) = 2 /\ request[c][1] = prompt[c]
                            /\ request[c] = Append(<<prompt[c]>>, request[c][2])
                            /\ ~Parses(c, request[c][2])
<1>1. /\ sources[c] \in Seq(Requests) /\ round[c] \in {1, 2} /\ Talks(c)
      /\ outcome[c] \in {"none", "value", "unparsed", "failed"} /\ prompt[c] \in Prompts
  BY DEF TalkInv, TalkTyped
<1>2. Len(sources[c]) \in 0..round[c]
  BY <1>1 DEF Talks
<1>3. ASSUME NEW S, NEW p \in S, NEW t \in S
      PROVE  /\ SubSeq(<<p>>, 1, 1) = <<p>>
             /\ SubSeq(Append(<<p>>, t), 1, 1) = <<p>>
             /\ SubSeq(Append(<<p>>, t), 1, 2) = Append(<<p>>, t)
             /\ Append(<<p>>, t)[1] = p /\ Append(<<p>>, t)[2] = t
             /\ Len(Append(<<p>>, t)) = 2
  <2>1. <<p>> \in Seq(S) /\ Len(<<p>>) = 1 /\ Append(<<p>>, t) \in Seq(S)
        /\ Len(Append(<<p>>, t)) = 2
        /\ Append(<<p>>, t)[1] = p /\ Append(<<p>>, t)[2] = t
    OBVIOUS
  <2>2. ASSUME NEW r \in Seq(S), NEW n, n = Len(r) PROVE SubSeq(r, 1, n) = r
    BY <2>2
  <2>3. SubSeq(<<p>>, 1, 1) = <<p>> /\ SubSeq(Append(<<p>>, t), 1, 2) = Append(<<p>>, t)
    BY <2>1, <2>2
  <2>4. ASSUME NEW r \in Seq(S), NEW k \in 1..Len(r)
        PROVE  SubSeq(Append(r, t), 1, k) = SubSeq(r, 1, k)
    OBVIOUS
  <2>5. SubSeq(Append(<<p>>, t), 1, 1) = SubSeq(<<p>>, 1, 1)
    <3>1. 1 \in 1..Len(<<p>>)
      BY <2>1
    <3> QED BY <2>1, <2>4, <3>1
  <2> QED BY <2>1, <2>3, <2>5
<1>4. CASE round[c] = 1
  <2>1. request[c] = <<prompt[c]>>
    BY <1>1, <1>4 DEF Talks
  <2> QED BY <1>1, <1>2, <1>3, <1>4, <2>1 DEF Asked
<1>5. CASE round[c] = 2
  <2>1. PICK t \in Texts : request[c] = Append(<<prompt[c]>>, t) /\ ~Parses(c, t)
    BY <1>1, <1>5 DEF Talks
  <2>2. prompt[c] \in Prompts \cup Texts /\ t \in Prompts \cup Texts
    BY <1>1
  <2>3. /\ SubSeq(request[c], 1, 1) = <<prompt[c]>> /\ SubSeq(request[c], 1, 2) = request[c]
        /\ request[c][1] = prompt[c] /\ request[c][2] = t /\ Len(request[c]) = 2
    <3> DEFINE u == Append(<<prompt[c]>>, t)
    <3>1. /\ SubSeq(u, 1, 1) = <<prompt[c]>> /\ SubSeq(u, 1, 2) = u
          /\ u[1] = prompt[c] /\ u[2] = t /\ Len(u) = 2
      <4>1. ASSUME NEW S, NEW p \in S, NEW v \in S
            PROVE  /\ SubSeq(Append(<<p>>, v), 1, 1) = <<p>>
                   /\ SubSeq(Append(<<p>>, v), 1, 2) = Append(<<p>>, v)
                   /\ Append(<<p>>, v)[1] = p /\ Append(<<p>>, v)[2] = v
                   /\ Len(Append(<<p>>, v)) = 2
        BY <1>3
      <4> DEFINE M == Prompts \cup Texts
                 p == prompt[c]
      <4>2. p \in M /\ t \in M
        BY <2>2
      <4> HIDE DEF M, p
      <4>3. /\ SubSeq(Append(<<p>>, t), 1, 1) = <<p>>
            /\ SubSeq(Append(<<p>>, t), 1, 2) = Append(<<p>>, t)
            /\ Append(<<p>>, t)[1] = p /\ Append(<<p>>, t)[2] = t
            /\ Len(Append(<<p>>, t)) = 2
        BY <4>1, <4>2
      <4> QED BY <4>3 DEF p
    <3> HIDE DEF u
    <3>2. request[c] = u
      BY <2>1 DEF u
    <3> QED BY <3>1, <3>2
  <2> QED BY <1>2, <1>5, <2>1, <2>3 DEF Asked
<1> QED BY <1>1, <1>4, <1>5

(***************************************************************************)
(* For any number of callers, prompts and models, any threshold and any    *)
(* expiry: each reply a caller is shown was generated for what it had      *)
(* asked, or for something within the threshold of it (_cache_key,         *)
(* ResponseCache.get, ResponseCache.put, complete_json).                   *)
(***************************************************************************)
THEOREM AnswersCorrect == Spec => []AnswersBelong
<1>1. TalkInv => AnswersBelong
  <2> SUFFICES ASSUME TalkInv, NEW c \in Callers, NEW i \in DOMAIN sources[c]
               PROVE  Belongs(Asked(c, i), sources[c][i])
    BY DEF AnswersBelong, Belongs, Near
  <2>1. sources[c] \in Seq(Requests) /\ Talks(c)
    BY DEF TalkInv, TalkTyped
  <2>2. i \in 1..Len(sources[c])
    BY <2>1
  <2>3. Len(sources[c]) \in 0..round[c] /\ round[c] \in {1, 2}
    BY AskedIs
  <2>4. CASE i = 1
    BY <2>1, <2>2, <2>3, <2>4, AskedIs DEF Talks
  <2>5. CASE i = 2 /\ round[c] = 2
    BY <2>1, <2>2, <2>3, <2>5, AskedIs DEF Talks
  <2> QED BY <2>2, <2>3, <2>4, <2>5
<1> QED BY TalkInit, TalkStep, <1>1, PTL DEF Spec

(***************************************************************************)
(* Nor does a caller give up before the bad reply it quotes was itself     *)
(* answered badly, whatever the cache replays (complete_json).             *)
(***************************************************************************)
THEOREM FailureCorrect == Spec => []FailureIsRepaired
<1>1. TalkInv => FailureIsRepaired
  <2> SUFFICES ASSUME TalkInv, NEW c \in Callers, outcome[c] = "unparsed"
               PROVE  /\ Len(request[c]) = 2 /\ request[c][1] = prompt[c]
                      /\ ~Parses(c, request[c][2]) /\ ~Parses(c, text[c])
                      /\ Len(sources[c]) = 2
                      /\ ~embedder => sources[c][2] = Append(sources[c][1], request[c][2])
    BY DEF FailureIsRepaired
  <2>1. /\ round[c] = 2 /\ ~Parses(c, text[c]) /\ Len(sources[c]) = 2
    BY DEF TalkInv, Talks
  <2>2. Belongs(<<prompt[c]>>, sources[c][1]) /\ Belongs(request[c], sources[c][2])
    BY <2>1 DEF TalkInv, Talks
  <2>3. ~embedder => sources[c][1] = <<prompt[c]>> /\ sources[c][2] = request[c]
    BY <2>2 DEF Belongs, Near
  <2> QED BY <2>1, <2>3, AskedIs
<1> QED BY TalkInit, TalkStep, <1>1, PTL DEF Spec
=============================================================================
