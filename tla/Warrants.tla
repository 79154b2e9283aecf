------------------------------ MODULE Warrants ------------------------------
(***************************************************************************)
(* What the local runtime promises to those who rely on its grants and     *)
(* approvals, without processes, clocks, receipts and publications:        *)
(* authority comes into being once, ends for good, and what is on record   *)
(* about it has come to pass and is entered once.                          *)
(***************************************************************************)
EXTENDS Naturals

CONSTANTS Grants, Approvals

VARIABLES
  holding,  \* of each grant: "none", "held" or "over"
  consent,  \* of each approval: "none", "asked", "given", "used" or "over"
  uses,     \* how often each approval let an action through
  record    \* how often each event is on record

warrantVars == <<holding, consent, uses, record>>

Events ==
  ({"granted", "revoked"} \X Grants)
    \cup ({"requested", "decided", "consumed", "cancelled"} \X Approvals)

CameToPass(kind, x) ==
  \/ kind = "granted" /\ holding[x] # "none"
  \/ kind = "revoked" /\ holding[x] = "over"
  \/ kind = "requested" /\ consent[x] # "none"
  \/ kind = "decided" /\ consent[x] \in {"given", "used", "over"}
  \/ kind = "consumed" /\ consent[x] = "used"
  \/ kind = "cancelled" /\ consent[x] = "over"

Init ==
  /\ holding = [g \in Grants |-> "none"]
  /\ consent = [a \in Approvals |-> "none"]
  /\ uses = [a \in Approvals |-> 0]
  /\ record = [e \in Events |-> 0]

Confer(g) ==
  /\ holding[g] = "none"
  /\ holding' = [holding EXCEPT ![g] = "held"]
  /\ UNCHANGED <<consent, uses, record>>

\* By revocation, by the passing of time, or with the process that issued them
Withdraw(S) ==
  /\ \A g \in S : holding[g] = "held"
  /\ holding' = [g \in Grants |-> IF g \in S THEN "over" ELSE holding[g]]
  /\ UNCHANGED <<consent, uses, record>>

Ask(a) ==
  /\ consent[a] = "none"
  /\ consent' = [consent EXCEPT ![a] = "asked"]
  /\ UNCHANGED <<holding, uses, record>>

Give(a) ==
  /\ consent[a] = "asked"
  /\ consent' = [consent EXCEPT ![a] = "given"]
  /\ UNCHANGED <<holding, uses, record>>

Use(a) ==
  /\ consent[a] = "given"
  /\ consent' = [consent EXCEPT ![a] = "used"]
  /\ uses' = [uses EXCEPT ![a] = uses[a] + 1]
  /\ UNCHANGED <<holding, record>>

\* Denied, cancelled or too late
Refuse(S) ==
  /\ \A a \in S : consent[a] \in {"asked", "given"}
  /\ consent' = [a \in Approvals |-> IF a \in S THEN "over" ELSE consent[a]]
  /\ UNCHANGED <<holding, uses, record>>

Enter(e) ==
  /\ CameToPass(e[1], e[2]) /\ record[e] = 0
  /\ record' = [record EXCEPT ![e] = 1]
  /\ UNCHANGED <<holding, consent, uses>>

Next ==
  \/ \E g \in Grants : Confer(g)
  \/ \E S \in SUBSET Grants : Withdraw(S)
  \/ \E a \in Approvals : Ask(a) \/ Give(a) \/ Use(a)
  \/ \E S \in SUBSET Approvals : Refuse(S)
  \/ \E e \in Events : Enter(e)

Spec == Init /\ [][Next]_warrantVars
==============================================================================
