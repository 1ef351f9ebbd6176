---------------------------- MODULE TokenLedger ----------------------------
(***************************************************************************)
(* What the token budget of llm.budget promises its callers, with no Redis *)
(* and no rollback in sight: a grant is one step, it is given only while   *)
(* the day's ceiling has room for the whole estimate, and it is settled or *)
(* returned at most once, on the day it was given.                         *)
(***************************************************************************)
EXTENDS Integers

CONSTANTS
  Calls, Days, PerDayCeiling,
  Amounts  \* the token numbers a grant or a settlement may carry

VARIABLES
  committed,  \* committed[d]: tokens granted or spent on day d
  holding,    \* where a call's grant stands
  amount,     \* the tokens of the grant
  day         \* the day it counts against, 0 before it is given

ledgerVars == <<committed, holding, amount, day>>

Init ==
  /\ committed = [d \in Days |-> 0]
  /\ holding = [c \in Calls |-> "nothing"]
  /\ amount = [c \in Calls |-> 0]
  /\ day = [c \in Calls |-> 0]

\* A day's tokens are granted whole or not at all.
Grant(c, d, n) ==
  /\ holding[c] = "nothing"
  /\ committed[d] + n <= PerDayCeiling
  /\ committed' = [committed EXCEPT ![d] = @ + n]
  /\ holding' = [holding EXCEPT ![c] = "grant"]
  /\ amount' = [amount EXCEPT ![c] = n]
  /\ day' = [day EXCEPT ![c] = d]

\* The tokens really used take the place of the grant.
Settle(c, n) ==
  /\ holding[c] = "grant"
  /\ committed' = [committed EXCEPT ![day[c]] = @ + (n - amount[c])]
  /\ holding' = [holding EXCEPT ![c] = "settled"]
  /\ amount' = [amount EXCEPT ![c] = n]
  /\ UNCHANGED day

\* A call that used nothing hands its grant back.
Return(c) ==
  /\ holding[c] = "grant"
  /\ committed' = [committed EXCEPT ![day[c]] = @ - amount[c]]
  /\ holding' = [holding EXCEPT ![c] = "returned"]
  /\ amount' = [amount EXCEPT ![c] = 0]
  /\ UNCHANGED day

Next ==
  \E c \in Calls :
    \/ \E d \in Days, n \in Amounts : Grant(c, d, n)
    \/ \E n \in Amounts : Settle(c, n)
    \/ Return(c)

Spec == Init /\ [][Next]_ledgerVars
=============================================================================
