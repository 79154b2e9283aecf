--------------------------- MODULE AuthorityProofs ---------------------------
(***************************************************************************)
(* Grants, approvals and the ledger, for any sets of them and any number   *)
(* of processes.                                                           *)
(***************************************************************************)
EXTENDS Authority, TLAPS

\* Each event is published at most once, and only when it has happened.
TrailInv ==
  \A e \in Events : /\ pending[e] + entries[e] <= 1
                    /\ pending[e] + entries[e] > 0 => Happened(e[1], e[2])

AInv == ATypeOK /\ TrailInv /\ GrantsAreProcessBound /\ ReceiptsAreSpentOnce

\* What has happened is not undone.
Stable == \A e \in Events : Happened(e[1], e[2]) => Happened(e[1], e[2])'

\* Publications of what has just happened, for the first time, keep the trail.
LEMMA PublishKeeps ==
  ASSUME ATypeOK, TrailInv, Stable, NEW S, Publish(S),
         \A e \in Events \cap S : ~Happened(e[1], e[2]) /\ Happened(e[1], e[2])'
  PROVE  TrailInv' /\ pending' \in [Events -> Nat] /\ entries' \in [Events -> Nat]
<1>1. /\ pending \in [Events -> Nat] /\ entries \in [Events -> Nat] /\ entries' = entries
      /\ pending' = [e \in Events |-> pending[e] + IF e \in S THEN 1 ELSE 0]
  BY DEF ATypeOK, Publish
<1>2. ASSUME NEW e \in Events
      PROVE  /\ pending'[e] + entries'[e] <= 1
             /\ pending'[e] + entries'[e] > 0 => Happened(e[1], e[2])'
  <2>1. CASE e \in S
    <3>1. pending[e] + entries[e] = 0
      BY <1>1, <2>1 DEF TrailInv
    <3>2. pending'[e] + entries'[e] = 1
      BY <1>1, <2>1, <3>1
    <3>3. QED
      BY <2>1, <3>2
  <2>2. CASE e \notin S
    BY <1>1, <2>2 DEF TrailInv, Stable
  <2>3. QED
    BY <2>1, <2>2
<1>3. QED
  BY <1>1, <1>2 DEF TrailInv

\* So does a step that publishes nothing.
LEMMA SilenceKeeps ==
  ASSUME TrailInv, Stable, UNCHANGED trail
  PROVE  TrailInv'
BY DEF TrailInv, Stable, trail

\* Revoking unrevoked grants keeps every part of the invariant.
LEMMA RevokeKeeps ==
  ASSUME AInv, NEW S \in SUBSET Unrevoked, Revoke(S), CapabilitiesReady, stage' \in Stages
  PROVE  AInv'
<1>1. /\ grant \in [Grants -> GrantRow] /\ S \subseteq Grants
      /\ grant' = [g \in Grants |-> IF g \in S THEN [grant[g] EXCEPT !.state = "revoked"] ELSE grant[g]]
      /\ UNCHANGED <<jobState, approval, used, process>> /\ Publish({"revoked"} \X S)
  BY DEF Revoke, Unrevoked, AInv, ATypeOK
<1>2. grant' \in [Grants -> GrantRow]
  BY <1>1 DEF GrantRow
<1>3. \A g \in Grants : /\ grant[g].state # "absent" => grant'[g].state # "absent"
                        /\ grant[g].state = "revoked" => grant'[g].state = "revoked"
                        /\ g \in S => grant[g].state = "live" /\ grant'[g].state = "revoked"
                        /\ g \in S \/ grant'[g] = grant[g]
  BY <1>1 DEF GrantRow, Unrevoked
<1>4. Stable
  BY <1>1, <1>3 DEF Stable, Happened, Events
<1>5. TrailInv' /\ pending' \in [Events -> Nat] /\ entries' \in [Events -> Nat]
  <2>1. \A e \in Events \cap ({"revoked"} \X S) : ~Happened(e[1], e[2]) /\ Happened(e[1], e[2])'
    BY <1>1, <1>3 DEF Happened, Events
  <2>2. QED
    BY <1>1, <1>4, <2>1, PublishKeeps DEF AInv
<1>6. GrantsAreProcessBound'
  BY <1>1, <1>3 DEF AInv, GrantsAreProcessBound, ActiveGrants, Unrevoked
<1>7. QED
  BY <1>1, <1>2, <1>5, <1>6 DEF AInv, ATypeOK, ReceiptsAreSpentOnce

LEMMA CapabilityKeeps ==
  ASSUME AInv, CapabilityStep
  PROVE  AInv'
<1>0. ATypeOK /\ process \in 0 .. MaxProcesses
  BY ProcessesAssumption DEF AInv, ATypeOK
<1>1. ASSUME NEW g \in Grants, NEW j \in Jobs, IssueGrant(g, j)
      PROVE  AInv'
  <2> DEFINE r == [state |-> "live", job |-> j, process |-> process, expired |-> FALSE]
  <2>1. /\ CapabilitiesReady /\ grant[g].state = "absent" /\ grant' = [grant EXCEPT ![g] = r]
        /\ Publish({<<"granted", g>>})
        /\ UNCHANGED <<jobState, approval, used, process, stage>>
    BY <1>1 DEF IssueGrant
  <2>2. r \in GrantRow /\ grant' \in [Grants -> GrantRow]
    BY <1>0, <2>1 DEF GrantRow, ATypeOK
  <2>3. grant'[g] = r /\ \A h \in Grants : h # g => grant'[h] = grant[h]
    BY <1>0, <2>1 DEF ATypeOK
  <2>4. Stable
    BY <2>1, <2>3 DEF Stable, Happened, Events
  <2>5. TrailInv' /\ pending' \in [Events -> Nat] /\ entries' \in [Events -> Nat]
    <3>1. \A e \in Events \cap {<<"granted", g>>} : ~Happened(e[1], e[2]) /\ Happened(e[1], e[2])'
      BY <2>1, <2>3 DEF Happened
    <3>2. QED
      BY <2>1, <2>4, <3>1, PublishKeeps DEF AInv
  <2>6. GrantsAreProcessBound'
    BY <2>1, <2>3 DEF AInv, GrantsAreProcessBound, ActiveGrants, Unrevoked, CapabilitiesReady
  <2>7. QED
    BY <2>1, <2>2, <2>5, <2>6 DEF AInv, ATypeOK, ReceiptsAreSpentOnce
<1>2. ASSUME NEW g \in Grants, RevokeGrant(g)
      PROVE  AInv'
  BY <1>0, <1>2, RevokeKeeps DEF RevokeGrant, ATypeOK
<1>3. ASSUME NEW j \in Jobs, RevokeJobGrants(j)
      PROVE  AInv'
  BY <1>0, <1>3, RevokeKeeps DEF RevokeJobGrants, ATypeOK
<1>4. ASSUME NEW g \in Grants, GrantExpires(g)
      PROVE  AInv'
  <2>1. /\ grant' = [grant EXCEPT ![g].expired = TRUE]
        /\ UNCHANGED <<jobState, approval, used, trail, process, stage>>
    BY <1>4 DEF GrantExpires
  <2>2. grant' \in [Grants -> GrantRow]
    BY <1>0, <2>1 DEF GrantRow, ATypeOK
  <2>3. \A h \in Grants : /\ grant'[h].state = grant[h].state /\ grant'[h].process = grant[h].process
                          /\ grant[h].expired => grant'[h].expired
    BY <1>0, <2>1 DEF GrantRow, ATypeOK
  <2>4. Stable
    BY <2>1, <2>3 DEF Stable, Happened, Events
  <2>5. TrailInv'
    BY <2>1, <2>4, SilenceKeeps DEF AInv
  <2>6. GrantsAreProcessBound'
    BY <2>1, <2>3 DEF AInv, GrantsAreProcessBound, ActiveGrants, Unrevoked, CapabilitiesReady
  <2>7. QED
    BY <2>1, <2>2, <2>5, <2>6 DEF AInv, ATypeOK, ReceiptsAreSpentOnce, trail
<1>5. QED
  BY <1>1, <1>2, <1>3, <1>4 DEF CapabilityStep

\* The approvals' part: one row changes, and what is published is new.
LEMMA SetApprovalKeeps ==
  ASSUME AInv, NEW a \in Approvals, NEW r \in ApprovalRow, SetApproval(a, r), NEW S, Publish(S),
         Stable, \A e \in Events \cap S : ~Happened(e[1], e[2]) /\ Happened(e[1], e[2])',
         r.receiptHash <=> r.state = "approved",
         used' \in [Approvals -> Nat],
         \A b \in Approvals \ {a} : used'[b] = used[b],
         used'[a] = IF r.state = "consumed" THEN 1 ELSE 0
  PROVE  AInv'
<1>1. /\ approval \in [Approvals -> ApprovalRow] /\ approval' = [approval EXCEPT ![a] = r]
      /\ UNCHANGED <<jobState, grant, process, stage>>
  BY DEF SetApproval, AInv, ATypeOK
<1>2. approval' \in [Approvals -> ApprovalRow]
  BY <1>1
<1>3. approval'[a] = r /\ \A b \in Approvals \ {a} : approval'[b] = approval[b]
  BY <1>1
<1>4. TrailInv' /\ pending' \in [Events -> Nat] /\ entries' \in [Events -> Nat]
  BY PublishKeeps DEF AInv
<1>5. ReceiptsAreSpentOnce'
  BY <1>3 DEF AInv, ReceiptsAreSpentOnce
<1>6. QED
  BY <1>1, <1>2, <1>4, <1>5
     DEF AInv, ATypeOK, GrantsAreProcessBound, ActiveGrants, Unrevoked, CapabilitiesReady

LEMMA ApprovalKeeps ==
  ASSUME AInv, ApprovalStep
  PROVE  AInv'
<1>0. /\ ATypeOK /\ ReceiptsAreSpentOnce
      /\ approval \in [Approvals -> ApprovalRow] /\ used \in [Approvals -> Nat]
  BY DEF AInv, ATypeOK
<1>1. ASSUME NEW a \in Approvals, NEW r \in ApprovalRow, SetApproval(a, r)
      PROVE  /\ approval'[a] = r /\ \A b \in Approvals \ {a} : approval'[b] = approval[b]
             /\ grant' = grant
  BY <1>0, <1>1 DEF SetApproval
<1>2. ASSUME NEW a \in Approvals, NEW j \in Jobs, Request(a, j)
      PROVE  AInv'
  <2> DEFINE r == [state |-> "pending", job |-> j, due |-> FALSE, receiptHash |-> FALSE]
  <2>1. /\ r \in ApprovalRow /\ SetApproval(a, r) /\ approval[a].state = "absent"
        /\ Publish({<<"requested", a>>}) /\ used' = used
    BY <1>2 DEF Request, ApprovalRow, ApprovalStates
  <2>2. Stable
    BY <1>1, <2>1 DEF Stable, Happened, Events
  <2>3. \A e \in Events \cap {<<"requested", a>>} : ~Happened(e[1], e[2]) /\ Happened(e[1], e[2])'
    BY <1>1, <2>1 DEF Happened
  <2>4. used[a] = 0
    BY <1>0, <2>1 DEF ReceiptsAreSpentOnce
  <2> HIDE DEF r
  <2>5. ~r.receiptHash /\ r.state = "pending"
    BY DEF r
  <2>6. QED
    BY <1>0, <2>1, <2>2, <2>3, <2>4, <2>5, SetApprovalKeeps
<1>3. ASSUME NEW a \in Approvals, NEW st \in {"denied", "cancelled", "expired", "consumed"},
             SetApproval(a, Ended(a, st)), NEW S, Publish(S),
             approval[a].state \in {"pending", "approved"},
             st = "cancelled" => approval[a].state = "pending",
             \A e \in Events \cap S : ~Happened(e[1], e[2]) /\ Happened(e[1], e[2])',
             used' = IF st = "consumed" THEN [used EXCEPT ![a] = @ + 1] ELSE used
      PROVE  AInv'
  <2> DEFINE r == Ended(a, st)
  <2>1. r \in ApprovalRow /\ r.state = st /\ r.receiptHash = FALSE
    BY <1>0 DEF Ended, ApprovalRow, ApprovalStates
  <2>2. Stable
    <3>1. approval'[a].state = st /\ \A b \in Approvals \ {a} : approval'[b] = approval[b]
      BY <1>1, <1>3, <2>1
    <3>2. grant' = grant
      BY <1>1, <1>3, <2>1
    <3>3. ASSUME NEW e \in Events, Happened(e[1], e[2])
          PROVE  Happened(e[1], e[2])'
      <4>1. CASE e[1] \in {"granted", "revoked"}
        BY <3>2, <3>3, <4>1 DEF Happened
      <4>2. CASE e[1] \notin {"granted", "revoked"}
        <5>1. e[2] \in Approvals
          BY <4>2 DEF Events
        <5>2. CASE e[2] # a
          BY <3>1, <3>3, <4>2, <5>1, <5>2 DEF Happened
        <5>3. CASE e[2] = a
          BY <1>3, <3>1, <3>3, <4>2, <5>3 DEF Happened
        <5>4. QED
          BY <5>2, <5>3
      <4>3. QED
        BY <4>1, <4>2
    <3>4. QED
      BY <3>3 DEF Stable
  <2>3. used[a] = 0
    BY <1>0, <1>3 DEF ReceiptsAreSpentOnce
  <2>4. /\ used' \in [Approvals -> Nat] /\ \A b \in Approvals \ {a} : used'[b] = used[b]
        /\ used'[a] = IF st = "consumed" THEN 1 ELSE 0
    BY <1>0, <1>3, <2>3
  <2> HIDE DEF r
  <2>5. SetApproval(a, r)
    BY <1>3 DEF r
  <2>6. QED
    BY <1>3, <2>1, <2>2, <2>4, <2>5, SetApprovalKeeps
<1>4. ASSUME NEW a \in Approvals, Approve(a)
      PROVE  AInv'
  <2>1. approval[a].state = "pending" /\ used' = used
    BY <1>4 DEF Approve
  <2>2. CASE approval[a].due
    BY <1>3, <1>4, <2>1, <2>2 DEF Approve
  <2>3. CASE ~approval[a].due
    <3> DEFINE r == [approval[a] EXCEPT !.state = "approved", !.receiptHash = TRUE]
    <3>1. /\ r \in ApprovalRow /\ r.state = "approved" /\ r.receiptHash = TRUE
      BY <1>0 DEF ApprovalRow, ApprovalStates
    <3>2. SetApproval(a, r) /\ Publish({<<"decided", a>>})
      BY <1>4, <2>3 DEF Approve
    <3> HIDE DEF r
    <3>3. Stable
      BY <1>1, <2>1, <3>1, <3>2 DEF Stable, Happened, Events
    <3>4. \A e \in Events \cap {<<"decided", a>>} : ~Happened(e[1], e[2]) /\ Happened(e[1], e[2])'
      BY <1>1, <2>1, <3>1, <3>2 DEF Happened
    <3>5. used[a] = 0
      BY <1>0, <2>1 DEF ReceiptsAreSpentOnce
    <3>6. QED
      BY <1>0, <2>1, <3>1, <3>2, <3>3, <3>4, <3>5, SetApprovalKeeps
  <2>4. QED
    BY <2>2, <2>3
<1>5. ASSUME NEW a \in Approvals, Deny(a)
      PROVE  AInv'
  <2>1. /\ approval[a].state = "pending" /\ used' = used /\ SetApproval(a, Ended(a, "denied"))
        /\ Publish({<<"decided", a>>})
    BY <1>5 DEF Deny
  <2>2. \A e \in Events \cap {<<"decided", a>>} : ~Happened(e[1], e[2]) /\ Happened(e[1], e[2])'
    BY <1>0, <2>1 DEF Happened, SetApproval, Ended, ApprovalRow
  <2>3. QED
    BY <1>3, <2>1, <2>2
<1>6. ASSUME NEW a \in Approvals, Cancel(a)
      PROVE  AInv'
  <2>1. /\ approval[a].state = "pending" /\ used' = used /\ SetApproval(a, Ended(a, "cancelled"))
        /\ Publish({<<"cancelled", a>>})
    BY <1>6 DEF Cancel
  <2>2. \A e \in Events \cap {<<"cancelled", a>>} : ~Happened(e[1], e[2]) /\ Happened(e[1], e[2])'
    BY <1>0, <2>1 DEF Happened, SetApproval, Ended, ApprovalRow
  <2>3. QED
    BY <1>3, <2>1, <2>2
<1>7. ASSUME NEW a \in Approvals, Consume(a)
      PROVE  AInv'
  <2>1. approval[a].state = "approved"
    BY <1>7 DEF Consume
  <2>2. CASE approval[a].due
    BY <1>3, <1>7, <2>1, <2>2 DEF Consume
  <2>3. CASE ~approval[a].due
    <3>1. /\ SetApproval(a, Ended(a, "consumed")) /\ Publish({<<"consumed", a>>})
          /\ used' = [used EXCEPT ![a] = @ + 1]
      BY <1>7, <2>3 DEF Consume
    <3>2. \A e \in Events \cap {<<"consumed", a>>} : ~Happened(e[1], e[2]) /\ Happened(e[1], e[2])'
      BY <1>0, <2>1, <3>1 DEF Happened, SetApproval, Ended, ApprovalRow
    <3>3. QED
      BY <1>3, <2>1, <3>1, <3>2
  <2>4. QED
    BY <2>2, <2>3
<1>8. ASSUME NEW a \in Approvals, ApprovalFallsDue(a)
      PROVE  AInv'
  <2>1. /\ approval' = [approval EXCEPT ![a].due = TRUE]
        /\ UNCHANGED <<jobState, grant, used, trail, process, stage>>
    BY <1>8 DEF ApprovalFallsDue
  <2>2. /\ approval' \in [Approvals -> ApprovalRow]
        /\ \A b \in Approvals : /\ approval'[b].state = approval[b].state
                                /\ approval'[b].receiptHash = approval[b].receiptHash
    BY <1>0, <2>1 DEF ApprovalRow
  <2>3. Stable
    BY <2>1, <2>2 DEF Stable, Happened, Events
  <2>4. TrailInv'
    BY <2>1, <2>3, SilenceKeeps DEF AInv
  <2>5. QED
    BY <2>1, <2>2, <2>4 DEF AInv, ATypeOK, ReceiptsAreSpentOnce, GrantsAreProcessBound,
                            ActiveGrants, Unrevoked, CapabilitiesReady, trail
<1>9. QED
  BY <1>2, <1>4, <1>5, <1>6, <1>7, <1>8 DEF ApprovalStep

LEMMA DaemonStepKeeps ==
  ASSUME AInv, DaemonStep
  PROVE  AInv'
<1>0. /\ ATypeOK /\ ReceiptsAreSpentOnce /\ grant \in [Grants -> GrantRow]
      /\ approval \in [Approvals -> ApprovalRow] /\ process \in 1 .. MaxProcesses
  BY DEF AInv, ATypeOK
<1>1. CASE InitializeCapabilities
  <2>1. /\ stage' = "granting" /\ UNCHANGED <<jobState, approval, used, trail, process>>
        /\ grant' = [g \in Grants |->
             IF g \in ActiveGrants /\ grant[g].process # process
             THEN [grant[g] EXCEPT !.state = "revoked"] ELSE grant[g]]
    BY <1>1 DEF InitializeCapabilities
  <2>2. \A g \in Grants : /\ grant[g].state # "absent" => grant'[g].state # "absent"
                          /\ grant[g].state = "revoked" => grant'[g].state = "revoked"
                          /\ grant'[g].process = grant[g].process
                          /\ grant'[g].expired = grant[g].expired
    BY <1>0, <2>1 DEF GrantRow, ActiveGrants, Unrevoked
  <2>3. grant' \in [Grants -> GrantRow]
    BY <1>0, <2>1 DEF GrantRow
  <2>4. Stable
    BY <2>1, <2>2 DEF Stable, Happened, Events
  <2>5. TrailInv'
    BY <2>1, <2>4, SilenceKeeps DEF AInv
  <2>6. GrantsAreProcessBound'
    BY <1>0, <2>1 DEF GrantsAreProcessBound, ActiveGrants, Unrevoked, GrantRow
  <2>7. QED
    BY <2>1, <2>3, <2>5, <2>6 DEF AInv, ATypeOK, ReceiptsAreSpentOnce, trail, Stages
<1>2. CASE InitializeApprovals
  <2>1. /\ stage = "granting" /\ stage' = "up" /\ UNCHANGED <<jobState, grant, used, trail, process>>
        /\ approval' = [a \in Approvals |->
             IF approval[a].state \in {"pending", "approved"} /\ approval[a].due
             THEN Ended(a, "expired") ELSE approval[a]]
    BY <1>2 DEF InitializeApprovals
  <2>2. approval' \in [Approvals -> ApprovalRow]
    BY <1>0, <2>1 DEF Ended, ApprovalRow, ApprovalStates
  <2>3. \A a \in Approvals :
           \/ approval'[a] = approval[a]
           \/ /\ approval[a].state \in {"pending", "approved"}
              /\ approval'[a].state = "expired" /\ approval'[a].receiptHash = FALSE
    BY <1>0, <2>1 DEF Ended, ApprovalRow
  <2>4. Stable
    BY <2>1, <2>3 DEF Stable, Happened, Events
  <2>5. TrailInv'
    BY <2>1, <2>4, SilenceKeeps DEF AInv
  <2>6. ReceiptsAreSpentOnce'
    BY <1>0, <2>1, <2>3 DEF ReceiptsAreSpentOnce
  <2>7. QED
    BY <2>1, <2>2, <2>5, <2>6 DEF AInv, ATypeOK, GrantsAreProcessBound, ActiveGrants, Unrevoked,
                                  CapabilitiesReady, trail, Stages
<1>3. CASE ShutdownRevokes
  <2>1. CapabilitiesReady /\ stage' \in Stages
    BY <1>3 DEF ShutdownRevokes, CapabilitiesReady, Stages
  <2>2. QED
    BY <1>3, <2>1, RevokeKeeps DEF ShutdownRevokes
<1>4. CASE Start \/ StartFails \/ Stop \/ ShutdownEnds \/ CloseLedger
  <2>1. /\ UNCHANGED <<jobState, rows, trail, process>> /\ stage' \in Stages
        /\ CapabilitiesReady' => CapabilitiesReady
    BY <1>4 DEF Start, StartFails, Stop, ShutdownEnds, CloseLedger, CapabilitiesReady, Stages
  <2>2. Stable
    BY <2>1 DEF Stable, Happened, rows
  <2>3. TrailInv'
    BY <2>1, <2>2, SilenceKeeps DEF AInv
  <2>4. QED
    BY <2>1, <2>3 DEF AInv, ATypeOK, ReceiptsAreSpentOnce, GrantsAreProcessBound, ActiveGrants,
                      Unrevoked, rows, trail
<1>5. CASE ProcessEnds
  <2>1. /\ process' \in 1 .. MaxProcesses /\ stage' = "down" /\ pending' = [e \in Events |-> 0]
        /\ UNCHANGED <<jobState, grant, approval, used, entries>>
    BY <1>0, <1>5, ProcessesAssumption DEF ProcessEnds, rows
  <2>2. TrailInv'
    BY <2>1 DEF AInv, ATypeOK, TrailInv, Happened
  <2>3. QED
    BY <2>1, <2>2 DEF AInv, ATypeOK, ReceiptsAreSpentOnce, GrantsAreProcessBound,
                      CapabilitiesReady, Stages
<1>6. QED
  BY <1>1, <1>2, <1>3, <1>4, <1>5 DEF DaemonStep

LEMMA OtherKeeps ==
  ASSUME AInv, JobStep \/ LedgerStep \/ UNCHANGED authVars
  PROVE  AInv'
<1>1. CASE JobStep
  <2>1. /\ UNCHANGED <<rows, trail, process, stage>>
        /\ jobState' \in [Jobs -> {"active", "failed", "final"}]
    BY <1>1 DEF JobStep, JobSettles, JobIsRetried, AInv, ATypeOK
  <2>2. QED
    BY <2>1 DEF AInv, ATypeOK, TrailInv, Happened, ReceiptsAreSpentOnce, GrantsAreProcessBound,
                ActiveGrants, Unrevoked, CapabilitiesReady, rows, trail
<1>2. ASSUME NEW e \in Events, Deliver(e) \/ LoseEntry(e)
      PROVE  AInv'
  <2>1. /\ UNCHANGED <<jobState, rows, process, stage>> /\ pending[e] > 0
        /\ pending \in [Events -> Nat] /\ entries \in [Events -> Nat]
    BY <1>2 DEF Deliver, LoseEntry, AInv, ATypeOK
  <2>2. /\ pending' \in [Events -> Nat] /\ entries' \in [Events -> Nat]
        /\ \A d \in Events : pending'[d] + entries'[d] <= pending[d] + entries[d]
    BY <1>2, <2>1 DEF Deliver, LoseEntry
  <2>3. TrailInv'
    BY <2>1, <2>2 DEF AInv, TrailInv, Happened, rows
  <2>4. QED
    BY <2>1, <2>2, <2>3 DEF AInv, ATypeOK, ReceiptsAreSpentOnce, GrantsAreProcessBound,
                            ActiveGrants, Unrevoked, CapabilitiesReady, rows
<1>3. CASE UNCHANGED authVars
  BY <1>3 DEF authVars, rows, trail, AInv, ATypeOK, TrailInv, Happened, ReceiptsAreSpentOnce,
              GrantsAreProcessBound, ActiveGrants, Unrevoked, CapabilitiesReady
<1>4. QED
  BY <1>1, <1>2, <1>3 DEF LedgerStep

LEMMA AuthorityInductive == ASpec => []AInv
<1>1. AInit => AInv
  <2> SUFFICES ASSUME AInit PROVE AInv
    OBVIOUS
  <2>1. ATypeOK
    <3>1. grant \in [Grants -> GrantRow]
      <4> DEFINE absent == {[state |-> "absent", job |-> j, process |-> 0, expired |-> FALSE] : j \in Jobs}
      <4>1. absent \subseteq GrantRow
        <5>1. \A j \in Jobs :
                [state |-> "absent", job |-> j, process |-> 0, expired |-> FALSE] \in GrantRow
          BY ProcessesAssumption DEF GrantRow
        <5>2. QED
          BY <5>1, Zenon
      <4>2. grant \in [Grants -> absent]
        BY DEF AInit
      <4> HIDE DEF absent
      <4>3. QED
        BY <4>1, <4>2
    <3>2. approval \in [Approvals -> ApprovalRow]
      <4> DEFINE absent == {[state |-> "absent", job |-> j, due |-> FALSE, receiptHash |-> FALSE] : j \in Jobs}
      <4>1. absent \subseteq ApprovalRow
        <5>1. \A j \in Jobs :
                [state |-> "absent", job |-> j, due |-> FALSE, receiptHash |-> FALSE] \in ApprovalRow
          BY DEF ApprovalRow, ApprovalStates
        <5>2. QED
          BY <5>1, Zenon
      <4>2. approval \in [Approvals -> absent]
        BY DEF AInit
      <4> HIDE DEF absent
      <4>3. QED
        BY <4>1, <4>2
    <3>3. QED
      BY <3>1, <3>2, ProcessesAssumption DEF AInit, ATypeOK, Stages
  <2>2. TrailInv
    BY DEF AInit, TrailInv
  <2>3. GrantsAreProcessBound
    BY DEF AInit, GrantsAreProcessBound, CapabilitiesReady
  <2>4. ReceiptsAreSpentOnce
    <3>1. \A a \in Approvals : approval[a].state = "absent" /\ approval[a].receiptHash = FALSE
      BY DEF AInit
    <3>2. QED
      BY <3>1 DEF AInit, ReceiptsAreSpentOnce
  <2>5. QED
    BY <2>1, <2>2, <2>3, <2>4 DEF AInv
<1>2. AInv /\ [ANext]_authVars => AInv'
  BY CapabilityKeeps, ApprovalKeeps, DaemonStepKeeps, OtherKeeps DEF ANext
<1>3. QED
  BY <1>1, <1>2, PTL DEF ASpec

\* Restart fails closed: whatever point earlier processes ended at, every grant that is
\* active while Capability Security is ready was issued by this process.
THEOREM RestartFailsClosed == ASpec => []GrantsAreProcessBound
<1>1. AInv => GrantsAreProcessBound
  BY DEF AInv
<1>2. QED
  BY <1>1, AuthorityInductive, PTL

\* Every variable has its type.
THEOREM AuthorityTypes == ASpec => []ATypeOK
<1>1. AInv => ATypeOK
  BY DEF AInv
<1>2. QED
  BY <1>1, AuthorityInductive, PTL

\* The ledger enters only what happened to a grant or an approval, wherever the process ends.
THEOREM LedgerNeverLies == ASpec => []LedgerIsTruthful
<1>1. AInv => LedgerIsTruthful
  BY DEF AInv, ATypeOK, TrailInv, LedgerIsTruthful
<1>2. QED
  BY <1>1, AuthorityInductive, PTL

\* ... and enters each event at most once, however the three paths to a revocation race.
THEOREM NothingIsEnteredTwice == ASpec => []EnteredAtMostOnce
<1>1. AInv => EnteredAtMostOnce
  BY DEF AInv, ATypeOK, TrailInv, EnteredAtMostOnce
<1>2. QED
  BY <1>1, AuthorityInductive, PTL

\* A receipt is accepted at most once, and only for an approval that was given.
THEOREM OneApprovalOneUse == ASpec => []ReceiptsAreSpentOnce
<1>1. AInv => ReceiptsAreSpentOnce
  BY DEF AInv
<1>2. QED
  BY <1>1, AuthorityInductive, PTL

(***************************************************************************)
(* The refinement of Warrants                                              *)
(***************************************************************************)
holdingBar == [g \in Grants |-> HoldingOf(g)]
consentBar == [a \in Approvals |-> ConsentOf(approval[a].state)]

\* No row names a process that has not been yet.
PastInv == \A g \in Grants : grant[g].process <= process

\* A row that lets its holder act, at a given readiness and process
Honoured(row, ready, p) ==
  row.state = "live" /\ ~row.expired /\ (ready \/ row.process = p)

\* Which grants are held before and after a step, said without the order of alternatives
LEMMA Holdings ==
  ASSUME ATypeOK, ATypeOK', NEW g \in Grants
  PROVE  /\ HoldingOf(g) = "none" <=> grant[g].state = "absent"
         /\ HoldingOf(g) = "held" <=> Honoured(grant[g], CapabilitiesReady, process)
         /\ HoldingOf(g) \in {"none", "held", "over"}
         /\ HoldingOf(g)' = "none" <=> grant'[g].state = "absent"
         /\ HoldingOf(g)' = "held" <=> Honoured(grant'[g], CapabilitiesReady', process')
         /\ HoldingOf(g)' \in {"none", "held", "over"}
<1>1. grant[g].state \in {"absent", "live", "revoked"}
  BY DEF ATypeOK, GrantRow
<1>2. grant'[g].state \in {"absent", "live", "revoked"}
  BY DEF ATypeOK, GrantRow
<1>3. QED
  BY <1>1, <1>2 DEF HoldingOf, ActiveGrants, Unrevoked, Honoured

\* Unless it comes into being, a grant is held after a step only if it was before.
LEMMA HoldingMoves ==
  ASSUME ATypeOK, ATypeOK', NEW g \in Grants,
         grant[g].state = "absent" <=> grant'[g].state = "absent",
         Honoured(grant'[g], CapabilitiesReady', process')
           => Honoured(grant[g], CapabilitiesReady, process)
  PROVE  \/ HoldingOf(g)' = HoldingOf(g)
         \/ HoldingOf(g) = "held" /\ HoldingOf(g)' = "over"
BY Holdings

LEMMA Consents ==
  /\ ConsentOf("absent") = "none" /\ ConsentOf("pending") = "asked"
  /\ ConsentOf("approved") = "given" /\ ConsentOf("consumed") = "used"
  /\ \A state \in {"denied", "cancelled", "expired"} : ConsentOf(state) = "over"
BY DEF ConsentOf

\* A step in which nothing happens but that some grants are over is an abstract step.
LEMMA WithdrawStep ==
  ASSUME UNCHANGED <<approval, used, entries>>,
         \A g \in Grants : \/ HoldingOf(g)' = HoldingOf(g)
                           \/ HoldingOf(g) = "held" /\ HoldingOf(g)' = "over"
  PROVE  Promised!Next
<1> DEFINE S == {g \in Grants : HoldingOf(g) = "held" /\ HoldingOf(g)' = "over"}
<1>1. holdingBar' = [g \in Grants |-> IF g \in S THEN "over" ELSE holdingBar[g]]
  BY DEF holdingBar
<1>2. \A g \in S : holdingBar[g] = "held"
  BY DEF holdingBar
<1>3. consentBar' = consentBar
  BY DEF consentBar
<1>4. Promised!Withdraw(S)
  BY <1>1, <1>2, <1>3 DEF Promised!Withdraw, holdingBar, consentBar
<1>5. QED
  BY <1>4 DEF Promised!Next

\* Likewise for approvals.
LEMMA RefuseStep ==
  ASSUME UNCHANGED <<used, entries>>, \A g \in Grants : HoldingOf(g)' = HoldingOf(g),
         \A a \in Approvals :
            \/ approval'[a].state = approval[a].state
            \/ /\ approval[a].state \in {"pending", "approved"}
               /\ approval'[a].state \in {"denied", "cancelled", "expired"}
  PROVE  Promised!Next
<1> DEFINE S == {a \in Approvals : approval'[a].state # approval[a].state}
<1>1. \A a \in S : consentBar[a] \in {"asked", "given"} /\ ConsentOf(approval'[a].state) = "over"
  BY Consents DEF consentBar
<1>2. consentBar' = [a \in Approvals |-> IF a \in S THEN "over" ELSE consentBar[a]]
  BY <1>1 DEF consentBar
<1>3. holdingBar' = holdingBar
  BY DEF holdingBar
<1>4. Promised!Refuse(S)
  BY <1>1, <1>2, <1>3 DEF Promised!Refuse, holdingBar, consentBar
<1>5. QED
  BY <1>4 DEF Promised!Next

\* The grants do not notice what leaves them, the process and the readiness alone.
LEMMA SameHoldings ==
  ASSUME UNCHANGED <<grant, process>>, CapabilitiesReady' <=> CapabilitiesReady
  PROVE  \A g \in Grants : HoldingOf(g)' = HoldingOf(g)
BY DEF HoldingOf, ActiveGrants, Unrevoked

LEMMA CapabilityRefines ==
  ASSUME AInv, AInv', CapabilityStep
  PROVE  Promised!Next
<1>0. /\ ATypeOK /\ ATypeOK' /\ grant \in [Grants -> GrantRow]
      /\ UNCHANGED <<approval, used, entries, process, stage>>
  BY DEF AInv, ATypeOK, CapabilityStep, IssueGrant, RevokeGrant, Revoke, RevokeJobGrants, GrantExpires,
         trail, Publish
<1>1. CapabilitiesReady' <=> CapabilitiesReady
  BY <1>0 DEF CapabilitiesReady
<1>2. ASSUME NEW g \in Grants, NEW j \in Jobs, IssueGrant(g, j)
      PROVE  Promised!Next
  <2>1. /\ grant' = [grant EXCEPT ![g] = [state |-> "live", job |-> j, process |-> process,
                                          expired |-> FALSE]]
        /\ grant[g].state = "absent"
    BY <1>2 DEF IssueGrant
  <2>2. holdingBar[g] = "none"
    BY <1>0, <2>1, Holdings DEF holdingBar
  <2>3. HoldingOf(g)' = "held"
    BY <1>0, <1>2, <2>1 DEF HoldingOf, ActiveGrants, Unrevoked
  <2>4. \A h \in Grants \ {g} : HoldingOf(h)' = HoldingOf(h)
    BY <1>0, <1>1, <2>1 DEF HoldingOf, ActiveGrants, Unrevoked
  <2>5. holdingBar' = [holdingBar EXCEPT ![g] = "held"] /\ consentBar' = consentBar
    BY <1>0, <2>3, <2>4 DEF holdingBar, consentBar
  <2>6. Promised!Confer(g)
    BY <1>0, <2>2, <2>5 DEF Promised!Confer, holdingBar, consentBar
  <2>7. QED
    BY <2>6 DEF Promised!Next
<1>3. CASE \/ \E g \in Grants : RevokeGrant(g) \/ GrantExpires(g)
           \/ \E j \in Jobs : RevokeJobGrants(j)
  <2>1. \A g \in Grants :
           \/ grant'[g] = grant[g]
           \/ grant[g].state = "live" /\ grant'[g].state = "revoked"
           \/ /\ grant'[g].state = grant[g].state /\ grant'[g].process = grant[g].process
              /\ grant'[g].expired = TRUE
    <3>1. ASSUME NEW S \in SUBSET Unrevoked, Revoke(S), NEW g \in Grants
          PROVE  \/ grant'[g] = grant[g]
                 \/ grant[g].state = "live" /\ grant'[g].state = "revoked"
      BY <1>0, <3>1 DEF Revoke, Unrevoked, GrantRow
    <3>2. ASSUME NEW g \in Grants, NEW h \in Grants, GrantExpires(h)
          PROVE  \/ grant'[g] = grant[g]
                 \/ /\ grant'[g].state = grant[g].state /\ grant'[g].process = grant[g].process
                    /\ grant'[g].expired = TRUE
      BY <1>0, <3>2 DEF GrantExpires, GrantRow
    <3>3. (\E h \in Grants : GrantExpires(h)) \/ \E S \in SUBSET Unrevoked : Revoke(S)
      BY <1>3 DEF RevokeGrant, RevokeJobGrants
    <3>4. QED
      BY <3>1, <3>2, <3>3
  <2>2. \A g \in Grants : \/ HoldingOf(g)' = HoldingOf(g)
                          \/ HoldingOf(g) = "held" /\ HoldingOf(g)' = "over"
    <3> TAKE g \in Grants
    <3>1. grant[g].state \in {"absent", "live", "revoked"} /\ process' = process
      BY <1>0 DEF GrantRow
    <3>2. /\ grant[g].state = "absent" <=> grant'[g].state = "absent"
          /\ grant'[g].state = "live" =>
               /\ grant[g].state = "live" /\ grant'[g].process = grant[g].process
               /\ grant[g].expired => grant'[g].expired
      BY <2>1, <3>1
    <3>3. Honoured(grant'[g], CapabilitiesReady', process')
            => Honoured(grant[g], CapabilitiesReady, process)
      BY <1>1, <3>1, <3>2 DEF Honoured
    <3>4. ATypeOK /\ ATypeOK'
      BY <1>0
    <3>5. QED
      BY <3>2, <3>3, <3>4, HoldingMoves
  <2>3. QED
    BY <1>0, <2>2, WithdrawStep
<1>4. QED
  BY <1>2, <1>3 DEF CapabilityStep

LEMMA ApprovalRefines ==
  ASSUME AInv, ApprovalStep
  PROVE  Promised!Next
<1>0. /\ approval \in [Approvals -> ApprovalRow] /\ used \in [Approvals -> Nat]
      /\ UNCHANGED <<grant, process, stage, entries>>
  BY DEF AInv, ATypeOK, ApprovalStep, Request, Approve, Deny, Cancel, Consume, ApprovalFallsDue,
         SetApproval, Publish, trail
<1>1. (\A g \in Grants : HoldingOf(g)' = HoldingOf(g)) /\ holdingBar' = holdingBar
  BY <1>0, SameHoldings DEF CapabilitiesReady, holdingBar
<1>2. ASSUME NEW a \in Approvals, NEW r, SetApproval(a, r)
      PROVE  /\ approval'[a] = r /\ \A b \in Approvals \ {a} : approval'[b] = approval[b]
             /\ consentBar' = [consentBar EXCEPT ![a] = ConsentOf(r.state)]
  BY <1>0, <1>2 DEF SetApproval, consentBar
<1>3. ASSUME NEW a \in Approvals, NEW st \in {"denied", "cancelled", "expired"},
             SetApproval(a, Ended(a, st)), approval[a].state \in {"pending", "approved"}, used' = used
      PROVE  Promised!Next
  <2>1. Ended(a, st).state = st
    BY <1>0 DEF Ended, ApprovalRow
  <2>2. QED
    BY <1>0, <1>1, <1>2, <1>3, <2>1, RefuseStep
<1>4. ASSUME NEW a \in Approvals, NEW j \in Jobs, Request(a, j)
      PROVE  Promised!Next
  <2>1. consentBar' = [consentBar EXCEPT ![a] = "asked"] /\ used' = used /\ consentBar[a] = "none"
    BY <1>2, <1>4, Consents DEF Request, consentBar
  <2>2. Promised!Ask(a)
    BY <1>0, <1>1, <2>1 DEF Promised!Ask, holdingBar, consentBar
  <2>3. QED
    BY <2>2 DEF Promised!Next
<1>5. ASSUME NEW a \in Approvals, Approve(a)
      PROVE  Promised!Next
  <2>1. approval[a].state = "pending" /\ used' = used
    BY <1>5 DEF Approve
  <2>2. CASE approval[a].due
    BY <1>3, <1>5, <2>1, <2>2 DEF Approve
  <2>3. CASE ~approval[a].due
    <3> DEFINE r == [approval[a] EXCEPT !.state = "approved", !.receiptHash = TRUE]
    <3>1. r.state = "approved"
      BY <1>0 DEF ApprovalRow
    <3>2. SetApproval(a, r)
      BY <1>5, <2>3 DEF Approve
    <3> HIDE DEF r
    <3>3. consentBar' = [consentBar EXCEPT ![a] = "given"] /\ consentBar[a] = "asked"
      BY <1>2, <2>1, <3>1, <3>2, Consents DEF consentBar
    <3>4. Promised!Give(a)
      BY <1>0, <1>1, <2>1, <3>3 DEF Promised!Give, holdingBar, consentBar
    <3>5. QED
      BY <3>4 DEF Promised!Next
  <2>4. QED
    BY <2>2, <2>3
<1>6. ASSUME NEW a \in Approvals, Consume(a)
      PROVE  Promised!Next
  <2>1. approval[a].state = "approved"
    BY <1>6 DEF Consume
  <2>2. CASE approval[a].due
    BY <1>3, <1>6, <2>1, <2>2 DEF Consume
  <2>3. CASE ~approval[a].due
    <3>1. SetApproval(a, Ended(a, "consumed")) /\ used' = [used EXCEPT ![a] = used[a] + 1]
      BY <1>6, <2>3 DEF Consume
    <3>2. Ended(a, "consumed").state = "consumed"
      BY <1>0 DEF Ended, ApprovalRow
    <3>3. consentBar' = [consentBar EXCEPT ![a] = "used"] /\ consentBar[a] = "given"
      BY <1>2, <2>1, <3>1, <3>2, Consents DEF consentBar
    <3>4. Promised!Use(a)
      BY <1>0, <1>1, <3>1, <3>3 DEF Promised!Use, holdingBar, consentBar
    <3>5. QED
      BY <3>4 DEF Promised!Next
  <2>4. QED
    BY <2>2, <2>3
<1>7. ASSUME NEW a \in Approvals, Deny(a) \/ Cancel(a)
      PROVE  Promised!Next
  BY <1>3, <1>7 DEF Deny, Cancel
<1>8. ASSUME NEW a \in Approvals, ApprovalFallsDue(a)
      PROVE  Promised!Next
  <2>1. used' = used /\ \A b \in Approvals : approval'[b].state = approval[b].state
    BY <1>0, <1>8 DEF ApprovalFallsDue, ApprovalRow
  <2>2. QED
    BY <1>0, <1>1, <2>1, RefuseStep
<1>9. QED
  BY <1>4, <1>5, <1>6, <1>7, <1>8 DEF ApprovalStep

LEMMA DaemonRefines ==
  ASSUME AInv, AInv', PastInv, DaemonStep
  PROVE  Promised!Next \/ UNCHANGED <<holdingBar, consentBar, used, entries>>
<1>0. /\ ATypeOK /\ ATypeOK' /\ grant \in [Grants -> GrantRow] /\ entries' = entries /\ used' = used
      /\ approval \in [Approvals -> ApprovalRow] /\ process \in 1 .. MaxProcesses
  BY DEF AInv, ATypeOK, DaemonStep, Start, InitializeCapabilities, InitializeApprovals, StartFails,
         Stop, ShutdownRevokes, ShutdownEnds, CloseLedger, ProcessEnds, Revoke, Publish, rows, trail
<1>1. ASSUME approval' = approval,
             \A g \in Grants :
               /\ grant[g].state = "absent" <=> grant'[g].state = "absent"
               /\ Honoured(grant'[g], CapabilitiesReady', process')
                    => Honoured(grant[g], CapabilitiesReady, process)
      PROVE  Promised!Next
  <2>1. \A g \in Grants : \/ HoldingOf(g)' = HoldingOf(g)
                          \/ HoldingOf(g) = "held" /\ HoldingOf(g)' = "over"
    <3> TAKE g \in Grants
    <3>1. ATypeOK /\ ATypeOK'
      BY <1>0
    <3>2. QED
      BY <1>1, <3>1, HoldingMoves
  <2>2. QED
    BY <1>0, <1>1, <2>1, WithdrawStep
<1>2. CASE InitializeCapabilities
  <2>1. /\ UNCHANGED <<approval, process>> /\ CapabilitiesReady'
        /\ grant' = [g \in Grants |->
             IF g \in ActiveGrants /\ grant[g].process # process
             THEN [grant[g] EXCEPT !.state = "revoked"] ELSE grant[g]]
    BY <1>2 DEF InitializeCapabilities, CapabilitiesReady
  <2>2. \A g \in Grants :
           \/ grant[g].state = "live" /\ grant'[g].state = "revoked"
           \/ grant'[g] = grant[g] /\ ~(g \in ActiveGrants /\ grant[g].process # process)
    BY <1>0, <2>1 DEF GrantRow, ActiveGrants, Unrevoked
  <2>3. QED
    BY <1>1, <2>1, <2>2 DEF ActiveGrants, Unrevoked, Honoured
<1>3. CASE ShutdownRevokes
  <2>1. /\ UNCHANGED <<approval, process>> /\ CapabilitiesReady
        /\ grant' = [g \in Grants |->
             IF g \in {h \in Unrevoked : grant[h].process = process}
             THEN [grant[g] EXCEPT !.state = "revoked"] ELSE grant[g]]
    BY <1>3 DEF ShutdownRevokes, Revoke, CapabilitiesReady
  <2>2. \A g \in Grants :
           grant'[g] = grant[g] \/ (grant[g].state = "live" /\ grant'[g].state = "revoked")
    BY <1>0, <2>1 DEF GrantRow, Unrevoked
  <2>3. QED
    BY <1>1, <2>1, <2>2 DEF Honoured
<1>4. CASE InitializeApprovals
  <2>1. /\ UNCHANGED <<grant, process>> /\ CapabilitiesReady' /\ CapabilitiesReady
        /\ approval' = [a \in Approvals |->
             IF approval[a].state \in {"pending", "approved"} /\ approval[a].due
             THEN Ended(a, "expired") ELSE approval[a]]
    BY <1>4 DEF InitializeApprovals, CapabilitiesReady
  <2>2. \A a \in Approvals :
           \/ approval'[a].state = approval[a].state
           \/ /\ approval[a].state \in {"pending", "approved"}
              /\ approval'[a].state \in {"denied", "cancelled", "expired"}
    BY <1>0, <2>1 DEF Ended, ApprovalRow
  <2>3. \A g \in Grants : HoldingOf(g)' = HoldingOf(g)
    BY <2>1, SameHoldings
  <2>4. QED
    BY <1>0, <2>2, <2>3, RefuseStep
<1>5. CASE Start \/ StartFails \/ Stop \/ ShutdownEnds \/ CloseLedger
  <2>1. UNCHANGED <<grant, approval, process>> /\ (CapabilitiesReady' => CapabilitiesReady)
    BY <1>5 DEF Start, StartFails, Stop, ShutdownEnds, CloseLedger, CapabilitiesReady, rows
  <2>2. QED
    BY <1>1, <2>1 DEF Honoured
<1>6. CASE ProcessEnds
  <2>1. UNCHANGED <<grant, approval>> /\ process' = process + 1 /\ ~CapabilitiesReady'
    BY <1>6 DEF ProcessEnds, rows, CapabilitiesReady
  <2>2. \A g \in Grants : grant[g].process # process'
    BY <1>0, <2>1 DEF PastInv, GrantRow
  <2>3. QED
    BY <1>1, <2>1, <2>2 DEF Honoured
<1>7. QED
  BY <1>2, <1>3, <1>4, <1>5, <1>6 DEF DaemonStep

\* An event is entered once, when it has come to pass; anything else leaves the grants,
\* the approvals and the record alone.
LEMMA OtherRefines ==
  ASSUME AInv, AInv', JobStep \/ LedgerStep \/ UNCHANGED authVars
  PROVE  Promised!Next \/ UNCHANGED <<holdingBar, consentBar, used, entries>>
<1>1. /\ UNCHANGED <<grant, approval, used, process, stage>>
  BY DEF JobStep, JobSettles, JobIsRetried, LedgerStep, Deliver, LoseEntry, authVars, rows, trail
<1>2. holdingBar' = holdingBar /\ consentBar' = consentBar
  BY <1>1, SameHoldings DEF holdingBar, consentBar, CapabilitiesReady
<1>3. ASSUME NEW e \in Events, Deliver(e), AuditReady
      PROVE  Promised!Next
  <2>1. /\ pending[e] \in Nat /\ pending[e] > 0 /\ entries[e] \in Nat /\ entries \in [Events -> Nat]
        /\ entries' = [entries EXCEPT ![e] = entries[e] + 1]
    BY <1>3 DEF Deliver, AInv, ATypeOK
  <2>2. entries[e] = 0 /\ Happened(e[1], e[2])
    BY <2>1 DEF AInv, TrailInv
  <2>3. entries' = [entries EXCEPT ![e] = 1]
    BY <2>1, <2>2
  <2>4. Promised!CameToPass(e[1], e[2])
    <3>1. \A g \in Grants : /\ grant[g].state # "absent" => HoldingOf(g) # "none"
                            /\ grant[g].state = "revoked" => HoldingOf(g) = "over"
      BY DEF HoldingOf, ActiveGrants, Unrevoked
    <3>2. \A a \in Approvals : approval[a].state \in ApprovalStates
      BY DEF AInv, ATypeOK, ApprovalRow
    <3>3. CASE e \in {"granted", "revoked"} \X Grants
      BY <2>2, <3>1, <3>3 DEF Happened, Promised!CameToPass
    <3>4. CASE e \in {"requested", "decided", "consumed", "cancelled"} \X Approvals
      BY <2>2, <3>2, <3>4, Consents DEF Happened, Promised!CameToPass, ApprovalStates
    <3>5. QED
      BY <3>3, <3>4 DEF Events
  <2>5. Promised!Enter(e)
    BY <1>1, <1>2, <2>2, <2>3, <2>4 DEF Promised!Enter, holdingBar, consentBar
  <2>6. Promised!Events = Events
    BY DEF Promised!Events, Events
  <2>7. QED
    BY <2>5, <2>6 DEF Promised!Next
<1>4. ASSUME ~\E e \in Events : Deliver(e) /\ AuditReady
      PROVE  entries' = entries
  <2>1. ASSUME NEW e \in Events, Deliver(e), ~AuditReady
        PROVE  entries' = entries
    BY <2>1 DEF Deliver, AInv, ATypeOK
  <2>2. QED
    BY <1>4, <2>1 DEF JobStep, JobSettles, JobIsRetried, LedgerStep, LoseEntry, authVars, rows, trail
<1>5. QED
  BY <1>1, <1>2, <1>3, <1>4

\* Rows are of this process when they are written, and processes only follow one another.
LEMMA ProcessesPass == ASpec => []PastInv
<1>1. AInit => PastInv
  <2>1. AInit => \A g \in Grants : grant[g].process = 0
    BY DEF AInit
  <2>2. QED
    BY <2>1 DEF AInit, PastInv
<1>2. AInv /\ PastInv /\ [ANext]_authVars => PastInv'
  <2> SUFFICES ASSUME AInv, PastInv, [ANext]_authVars PROVE PastInv'
    OBVIOUS
  <2>1. /\ grant \in [Grants -> GrantRow] /\ process \in 1 .. MaxProcesses
    BY DEF AInv, ATypeOK
  <2>2. process' = process \/ process' = process + 1
    BY DEF ANext, CapabilityStep, IssueGrant, RevokeGrant, RevokeJobGrants, Revoke, GrantExpires,
           ApprovalStep, Request, Approve, Deny, Cancel, Consume, SetApproval, ApprovalFallsDue,
           DaemonStep, Start, InitializeCapabilities, InitializeApprovals, StartFails, Stop,
           ShutdownRevokes, ShutdownEnds, CloseLedger, ProcessEnds, JobStep, JobSettles,
           JobIsRetried, LedgerStep, Deliver, LoseEntry, authVars, rows
  <2>3. \A g \in Grants : grant'[g].process = grant[g].process \/ grant'[g].process = process
    <3>1. ASSUME NEW g \in Grants, NEW j \in Jobs, IssueGrant(g, j), NEW h \in Grants
          PROVE  grant'[h].process = grant[h].process \/ grant'[h].process = process
      BY <2>1, <3>1 DEF IssueGrant
    <3>2. ASSUME NEW S, Revoke(S), NEW h \in Grants
          PROVE  grant'[h].process = grant[h].process
      BY <2>1, <3>2 DEF Revoke, GrantRow
    <3>3. ASSUME NEW g \in Grants, GrantExpires(g), NEW h \in Grants
          PROVE  grant'[h].process = grant[h].process
      BY <2>1, <3>3 DEF GrantExpires, GrantRow
    <3>4. ASSUME InitializeCapabilities, NEW h \in Grants
          PROVE  grant'[h].process = grant[h].process
      BY <2>1, <3>4 DEF InitializeCapabilities, GrantRow
    <3>5. CASE CapabilityStep
      BY <3>1, <3>2, <3>3, <3>5 DEF CapabilityStep, RevokeGrant, RevokeJobGrants
    <3>6. CASE ShutdownRevokes \/ InitializeCapabilities
      BY <3>2, <3>4, <3>6 DEF ShutdownRevokes
    <3>7. CASE grant' = grant
      BY <3>7
    <3>8. CapabilityStep \/ ShutdownRevokes \/ InitializeCapabilities \/ grant' = grant
      BY DEF ANext, ApprovalStep, Request, Approve, Deny, Cancel, Consume, SetApproval,
             ApprovalFallsDue, DaemonStep, Start, InitializeApprovals, StartFails, Stop,
             ShutdownEnds, CloseLedger, ProcessEnds, JobStep, JobSettles, JobIsRetried,
             LedgerStep, Deliver, LoseEntry, authVars, rows
    <3>9. QED
      BY <3>5, <3>6, <3>7, <3>8
  <2>4. \A g \in Grants : grant[g].process \in 0 .. MaxProcesses
    BY <2>1 DEF GrantRow
  <2>5. QED
    BY <2>1, <2>2, <2>3, <2>4 DEF PastInv
<1>3. QED
  BY <1>1, <1>2, AuthorityInductive, PTL DEF ASpec

\* Grants, approvals and the ledger keep the promise of Warrants: whatever ends a process
\* and whenever it starts again, authority that was over does not come back, an approval
\* lets one action through, and the ledger enters once what has come to pass.
THEOREM AuthorityIsWarranted == ASpec => ImplementsWarrants
<1>1. AInit => Promised!Init
  <2> SUFFICES ASSUME AInit PROVE Promised!Init
    OBVIOUS
  <2>1. \A g \in Grants : grant[g].state = "absent"
    BY DEF AInit
  <2>2. \A a \in Approvals : approval[a].state = "absent"
    BY DEF AInit
  <2>3. holdingBar = [g \in Grants |-> "none"] /\ consentBar = [a \in Approvals |-> "none"]
    <3>1. \A g \in Grants : HoldingOf(g) = "none"
      BY <2>1 DEF HoldingOf, ActiveGrants, Unrevoked
    <3>2. QED
      BY <2>2, <3>1, Consents DEF holdingBar, consentBar
  <2>4. QED
    BY <2>3 DEF AInit, Promised!Init, Promised!Events, Events, holdingBar, consentBar
<1>2. AInv /\ AInv' /\ PastInv /\ [ANext]_authVars => [Promised!Next]_(Promised!warrantVars)
  <2> SUFFICES ASSUME AInv, AInv', PastInv, [ANext]_authVars
               PROVE  Promised!Next \/ UNCHANGED Promised!warrantVars
    OBVIOUS
  <2>1. Promised!Next \/ UNCHANGED <<holdingBar, consentBar, used, entries>>
    BY CapabilityRefines, ApprovalRefines, DaemonRefines, OtherRefines DEF ANext
  <2>2. QED
    BY <2>1 DEF Promised!warrantVars, holdingBar, consentBar
<1>3. QED
  BY <1>1, <1>2, AuthorityInductive, ProcessesPass, PTL DEF ASpec, ImplementsWarrants, Promised!Spec

==============================================================================
