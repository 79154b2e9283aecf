------------------------------ MODULE WorkQueue ------------------------------
(***************************************************************************)
(* What the local runtime's durable job tables promise to whoever submits  *)
(* work, without leases, flags, clocks or sessions: an exclusive, fenced   *)
(* owner at any time, prerequisites that stay settled, progress written    *)
(* only by the present owner, and a delivery that is never undone.  The    *)
(* job engine, and the engine with its crash recovery, implement it.       *)
(***************************************************************************)
EXTENDS Naturals

CONSTANT Jobs

VARIABLES
  phase,     \* "unborn", "idle", "owned", "delivered" or "abandoned"
  epoch,     \* how often the job was owned; the present owner's number
  needs,     \* prerequisites
  progress,  \* the epoch whose owner saved progress last, 0 if none did
  author     \* the epoch whose owner delivered the job, 0 if none did

queueVars == <<phase, epoch, needs, progress, author>>

Born == {j \in Jobs : phase[j] # "unborn"}

Acyclic(edges) ==
  \A S \in SUBSET Jobs : S # {} => \E j \in S : edges[j] \cap S = {}

Init ==
  /\ phase = [j \in Jobs |-> "unborn"]
  /\ epoch = [j \in Jobs |-> 0]
  /\ needs = [j \in Jobs |-> {}]
  /\ progress = [j \in Jobs |-> 0]
  /\ author = [j \in Jobs |-> 0]

Submit(j, prerequisites) ==
  /\ phase[j] = "unborn" /\ prerequisites \subseteq Born
  /\ phase' = [phase EXCEPT ![j] = "idle"]
  /\ needs' = [needs EXCEPT ![j] = prerequisites]
  /\ UNCHANGED <<epoch, progress, author>>

\* A prerequisite is added only to a job nobody has owned, and never closes a circle.
Constrain(j, d) ==
  /\ phase[j] = "idle" /\ epoch[j] = 0 /\ d \in Born
  /\ needs' = [needs EXCEPT ![j] = needs[j] \cup {d}]
  /\ Acyclic(needs')
  /\ UNCHANGED <<phase, epoch, progress, author>>

Own(j) ==
  /\ phase[j] = "idle"
  /\ \A d \in needs[j] : phase[d] = "delivered"
  /\ phase' = [phase EXCEPT ![j] = "owned"]
  /\ epoch' = [epoch EXCEPT ![j] = epoch[j] + 1]
  /\ UNCHANGED <<needs, progress, author>>

SaveProgress(j) ==
  /\ phase[j] = "owned"
  /\ phase' = [phase EXCEPT ![j] = "idle"]
  /\ progress' = [progress EXCEPT ![j] = epoch[j]]
  /\ UNCHANGED <<epoch, needs, author>>

Deliver(j) ==
  /\ phase[j] = "owned"
  /\ phase' = [phase EXCEPT ![j] = "delivered"]
  /\ author' = [author EXCEPT ![j] = epoch[j]]
  /\ UNCHANGED <<epoch, needs, progress>>

\* Owners let go, or lose, their jobs: each of S goes back or is given up.
Interrupt(S) ==
  /\ \A j \in S : phase[j] = "owned"
  /\ \A j \in Jobs : IF j \in S THEN phase'[j] \in {"idle", "abandoned"}
                     ELSE phase'[j] = phase[j]
  /\ DOMAIN phase' = Jobs
  /\ UNCHANGED <<epoch, needs, progress, author>>

\* Work nobody owns is passed over, given up, or taken up again.
Bypass(j) ==
  /\ phase[j] = "idle"
  /\ phase' = [phase EXCEPT ![j] = "delivered"]
  /\ UNCHANGED <<epoch, needs, progress, author>>

GiveUp(j) ==
  /\ phase[j] = "idle"
  /\ phase' = [phase EXCEPT ![j] = "abandoned"]
  /\ UNCHANGED <<epoch, needs, progress, author>>

Reopen(j) ==
  /\ phase[j] = "abandoned"
  /\ phase' = [phase EXCEPT ![j] = "idle"]
  /\ UNCHANGED <<epoch, needs, progress, author>>

Next ==
  \/ \E j \in Jobs, prerequisites \in SUBSET Jobs : Submit(j, prerequisites)
  \/ \E j, d \in Jobs : Constrain(j, d)
  \/ \E j \in Jobs : Own(j) \/ SaveProgress(j) \/ Deliver(j)
  \/ \E S \in SUBSET Jobs : Interrupt(S)
  \/ \E j \in Jobs : Bypass(j) \/ GiveUp(j) \/ Reopen(j)

Spec == Init /\ [][Next]_queueVars
==============================================================================
