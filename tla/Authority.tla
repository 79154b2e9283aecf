------------------------------ MODULE Authority ------------------------------
(***************************************************************************)
(* Who may act, who said so, and what is written down about it:            *)
(* Capability Security (apps/local/src/capability-security.ts), Approval   *)
(* Transactions (approval-transactions.ts) and the Audit Ledger            *)
(* (audit-ledger.ts), in the order daemon.ts starts and stops them.        *)
(*                                                                         *)
(* Every operation is one synchronous transaction followed by publications *)
(* on the event bus, to which only the ledger subscribes.  A publication   *)
(* is a step of its own here: the process may die before it, its handler   *)
(* may throw, and while a loop of publications is awaited other callers    *)
(* run.  The grants, approvals and entries survive the process; readiness, *)
(* subscriptions and publications under way do not.                        *)
(*                                                                         *)
(* Data kept: an instant is kept as "expires_at has passed"; of the ledger *)
(* how often each event is entered.  A receipt is presented with the       *)
(* approval and the payload it was drawn for: any other is refused without *)
(* effect.  Left out: claims and scopes, the entries for denials and for   *)
(* secrets (they change neither a grant nor an approval), and transactions *)
(* that throw.                                                             *)
(***************************************************************************)
EXTENDS Integers, FiniteSets

CONSTANTS
  Jobs,         \* durable jobs
  Grants,       \* ids a grant can be given
  Approvals,    \* ids an approval transaction can be given
  MaxProcesses  \* bound: how many processes the host runs one after another

ASSUME ProcessesAssumption == MaxProcesses \in Nat \ {0}

VARIABLES
  jobState,  \* gd_jobs.state: "active", "failed" or "final"
  grant,     \* gd_capability_grants: the row of each id
  approval,  \* gd_approval_transactions: the row of each id
  used,      \* history: how often a receipt was accepted for each approval
  pending,   \* publications under way, per event
  entries,   \* gd_audit_entries: how many there are of each event
  process,   \* #processInstanceId
  stage      \* how far the daemon's start or stop has come

rows == <<grant, approval, used>>
trail == <<pending, entries>>
authVars == <<jobState, rows, trail, process, stage>>

(***************************************************************************)
(* Rows and events                                                         *)
(***************************************************************************)
ApprovalStates ==
  {"absent", "pending", "approved", "denied", "consumed", "expired", "cancelled"}

GrantRow ==
  [state : {"absent", "live", "revoked"}, job : Jobs, process : 0 .. MaxProcesses,
   expired : BOOLEAN]
ApprovalRow ==
  [state : ApprovalStates, job : Jobs, due : BOOLEAN, receiptHash : BOOLEAN]

Events ==
  ({"granted", "revoked"} \X Grants)
    \cup ({"requested", "decided", "consumed", "cancelled"} \X Approvals)

\* The state of the tables that the event reports
Happened(kind, x) ==
  \/ kind = "granted" /\ grant[x].state # "absent"
  \/ kind = "revoked" /\ grant[x].state = "revoked"
  \/ kind = "requested" /\ approval[x].state # "absent"
  \/ kind = "decided" /\ approval[x].state \in {"approved", "denied", "consumed", "expired"}
  \/ kind = "consumed" /\ approval[x].state = "consumed"
  \/ kind = "cancelled" /\ approval[x].state = "cancelled"

Stages == {"down", "audited", "granting", "up", "stopping", "revoking", "revoked"}

AuditReady == stage # "down"
CapabilitiesReady == stage \in {"granting", "up", "stopping", "revoking"}
ApprovalsReady == stage = "up"

\* eventBus.publish() of each event of S, once
Publish(S) ==
  /\ pending' = [e \in Events |-> pending[e] + IF e \in S THEN 1 ELSE 0]
  /\ UNCHANGED entries

Active(j) == jobState[j] = "active"

(***************************************************************************)
(* Capability Security                                                     *)
(***************************************************************************)
IssueGrant(g, j) ==
  /\ CapabilitiesReady /\ Active(j) /\ grant[g].state = "absent"
  /\ grant' = [grant EXCEPT ![g] = [state |-> "live", job |-> j, process |-> process,
                                    expired |-> FALSE]]
  /\ Publish({<<"granted", g>>})
  /\ UNCHANGED <<jobState, approval, used, process, stage>>

\* Mutant: expired rows are passed over by the update but published all the same.
RevokeUnexpired(S) ==
  /\ grant' = [g \in Grants |-> IF g \in S /\ ~grant[g].expired
                                THEN [grant[g] EXCEPT !.state = "revoked"] ELSE grant[g]]
  /\ Publish({"revoked"} \X S)
  /\ UNCHANGED <<jobState, approval, used, process>>

\* UPDATE ... SET revoked_at WHERE revoked_at IS NULL AND ..., and one publication a row
Revoke(S) ==
  /\ grant' = [g \in Grants |-> IF g \in S THEN [grant[g] EXCEPT !.state = "revoked"] ELSE grant[g]]
  /\ Publish({"revoked"} \X S)
  /\ UNCHANGED <<jobState, approval, used, process>>

Unrevoked == {g \in Grants : grant[g].state = "live"}

\* Mutant: a revoked grant can be revoked again.
RevokeGrantAgain(g) ==
  /\ CapabilitiesReady /\ grant[g].state # "absent"
  /\ Revoke({g})
  /\ UNCHANGED stage

RevokeGrant(g) ==
  /\ CapabilitiesReady /\ g \in Unrevoked
  /\ Revoke({g})
  /\ UNCHANGED stage

RevokeJobGrants(j) ==
  /\ CapabilitiesReady
  /\ Revoke({g \in Unrevoked : grant[g].job = j})
  /\ UNCHANGED stage

\* What status() counts as active grants
ActiveGrants == {g \in Unrevoked : ~grant[g].expired}

\* Mutant: the start revokes its own process's grants instead of the others'.
InitializeCapabilitiesOwn ==
  /\ stage = "audited" /\ stage' = "granting"
  /\ grant' = [g \in Grants |->
       IF g \in ActiveGrants /\ grant[g].process = process
       THEN [grant[g] EXCEPT !.state = "revoked"] ELSE grant[g]]
  /\ UNCHANGED <<jobState, approval, used, trail, process>>

\* Mutant: the start takes the grants of earlier processes over.
InitializeCapabilitiesAdopting ==
  /\ stage = "audited" /\ stage' = "granting"
  /\ grant' = [g \in Grants |->
       IF g \in ActiveGrants THEN [grant[g] EXCEPT !.process = process] ELSE grant[g]]
  /\ UNCHANGED <<jobState, approval, used, trail, process>>

\* Grants of another process are revoked at the start, without a publication.
InitializeCapabilities ==
  /\ stage = "audited" /\ stage' = "granting"
  /\ grant' = [g \in Grants |->
       IF g \in ActiveGrants /\ grant[g].process # process
       THEN [grant[g] EXCEPT !.state = "revoked"] ELSE grant[g]]
  /\ UNCHANGED <<jobState, approval, used, trail, process>>

\* shutdown() revokes, awaits its publications if it has any, and only then stops
\* being ready.
ShutdownRevokes ==
  /\ stage = "stopping"
  /\ LET own == {g \in Unrevoked : grant[g].process = process}
     IN  Revoke(own) /\ stage' = IF own = {} THEN "revoked" ELSE "revoking"

ShutdownEnds ==
  /\ stage = "revoking" /\ \A g \in Grants : pending[<<"revoked", g>>] = 0
  /\ stage' = "revoked"
  /\ UNCHANGED <<jobState, rows, trail, process>>

(***************************************************************************)
(* Approval Transactions                                                   *)
(***************************************************************************)
SetApproval(a, r) ==
  /\ approval' = [approval EXCEPT ![a] = r]
  /\ UNCHANGED <<jobState, grant, process, stage>>

\* The form of every UPDATE that ends an approval: receipt_hash = NULL
Ended(a, state) == [approval[a] EXCEPT !.state = state, !.receiptHash = FALSE]

Request(a, j) ==
  /\ ApprovalsReady /\ Active(j) /\ approval[a].state = "absent"
  /\ SetApproval(a, [state |-> "pending", job |-> j, due |-> FALSE, receiptHash |-> FALSE])
  /\ Publish({<<"requested", a>>})
  /\ UNCHANGED used

\* An approval that is too late expires instead, and nothing is published.
Approve(a) ==
  /\ ApprovalsReady /\ approval[a].state = "pending" /\ Active(approval[a].job)
  /\ IF approval[a].due
     THEN SetApproval(a, Ended(a, "expired")) /\ Publish({})
     ELSE /\ SetApproval(a, [approval[a] EXCEPT !.state = "approved", !.receiptHash = TRUE])
          /\ Publish({<<"decided", a>>})
  /\ UNCHANGED used

Deny(a) ==
  /\ ApprovalsReady /\ approval[a].state = "pending"
  /\ SetApproval(a, Ended(a, "denied"))
  /\ Publish({<<"decided", a>>})
  /\ UNCHANGED used

Cancel(a) ==
  /\ ApprovalsReady /\ approval[a].state = "pending"
  /\ SetApproval(a, Ended(a, "cancelled"))
  /\ Publish({<<"cancelled", a>>})
  /\ UNCHANGED used

\* Mutant: a consumed approval keeps its state, and so its receipt.
ConsumeAgain(a) ==
  /\ ApprovalsReady /\ approval[a].state = "approved" /\ Active(approval[a].job)
  /\ ~approval[a].due /\ approval[a].receiptHash
  /\ SetApproval(a, approval[a])
  /\ Publish({<<"consumed", a>>})
  /\ used' = [used EXCEPT ![a] = @ + 1]

Consume(a) ==
  /\ ApprovalsReady /\ approval[a].state = "approved" /\ Active(approval[a].job)
  /\ IF approval[a].due
     THEN SetApproval(a, Ended(a, "expired")) /\ Publish({}) /\ UNCHANGED used
     ELSE /\ approval[a].receiptHash
          /\ SetApproval(a, Ended(a, "consumed"))
          /\ Publish({<<"consumed", a>>})
          /\ used' = [used EXCEPT ![a] = @ + 1]

\* initialize() expires whatever fell due while nobody was serving.
InitializeApprovals ==
  /\ stage = "granting" /\ stage' = "up"
  /\ approval' = [a \in Approvals |->
       IF approval[a].state \in {"pending", "approved"} /\ approval[a].due
       THEN Ended(a, "expired") ELSE approval[a]]
  /\ UNCHANGED <<jobState, grant, used, trail, process>>

(***************************************************************************)
(* The ledger                                                              *)
(***************************************************************************)
\* The ledger's handler appends the event; once unsubscribed it is not called.
Deliver(e) ==
  /\ pending[e] > 0
  /\ pending' = [pending EXCEPT ![e] = @ - 1]
  /\ entries' = [entries EXCEPT ![e] = @ + IF AuditReady THEN 1 ELSE 0]
  /\ UNCHANGED <<jobState, rows, process, stage>>

\* The handler throws: the bus counts the failure and goes on.
LoseEntry(e) ==
  /\ pending[e] > 0
  /\ pending' = [pending EXCEPT ![e] = @ - 1]
  /\ UNCHANGED <<jobState, rows, entries, process, stage>>

(***************************************************************************)
(* Start, stop and the end of the process                                  *)
(***************************************************************************)
Start ==
  /\ stage = "down" /\ stage' = "audited"
  /\ UNCHANGED <<jobState, rows, trail, process>>

\* A start that fails before Capability Security is ready has nothing to revoke.
StartFails ==
  /\ \/ stage = "audited" /\ stage' = "revoked"
     \/ stage = "granting" /\ stage' = "stopping"
  /\ UNCHANGED <<jobState, rows, trail, process>>

Stop ==
  /\ stage = "up" /\ stage' = "stopping"
  /\ UNCHANGED <<jobState, rows, trail, process>>

CloseLedger ==
  /\ stage = "revoked" /\ stage' = "down"
  /\ UNCHANGED <<jobState, rows, trail, process>>

\* The process ends, wherever it is, and takes its publications with it.
ProcessEnds ==
  /\ process < MaxProcesses
  /\ process' = process + 1 /\ stage' = "down"
  /\ pending' = [e \in Events |-> 0]
  /\ UNCHANGED <<jobState, rows, entries>>

(***************************************************************************)
(* Specification                                                           *)
(***************************************************************************)
JobSettles(j) ==
  /\ Active(j)
  /\ \E s \in {"failed", "final"} : jobState' = [jobState EXCEPT ![j] = s]
  /\ UNCHANGED <<rows, trail, process, stage>>

JobIsRetried(j) ==
  /\ jobState[j] = "failed"
  /\ jobState' = [jobState EXCEPT ![j] = "active"]
  /\ UNCHANGED <<rows, trail, process, stage>>

GrantExpires(g) ==
  /\ grant[g].state # "absent" /\ ~grant[g].expired
  /\ grant' = [grant EXCEPT ![g].expired = TRUE]
  /\ UNCHANGED <<jobState, approval, used, trail, process, stage>>

ApprovalFallsDue(a) ==
  /\ approval[a].state \in {"pending", "approved"} /\ ~approval[a].due
  /\ approval' = [approval EXCEPT ![a].due = TRUE]
  /\ UNCHANGED <<jobState, grant, used, trail, process, stage>>

\* The job of an absent row means nothing.
AInit ==
  /\ jobState = [j \in Jobs |-> "active"]
  /\ grant \in [Grants -> {[state |-> "absent", job |-> j, process |-> 0, expired |-> FALSE] : j \in Jobs}]
  /\ approval \in [Approvals -> {[state |-> "absent", job |-> j, due |-> FALSE, receiptHash |-> FALSE] : j \in Jobs}]
  /\ used = [a \in Approvals |-> 0]
  /\ pending = [e \in Events |-> 0] /\ entries = [e \in Events |-> 0]
  /\ process = 1 /\ stage = "down"

CapabilityStep ==
  \/ \E g \in Grants, j \in Jobs : IssueGrant(g, j)
  \/ \E g \in Grants : RevokeGrant(g) \/ GrantExpires(g)
  \/ \E j \in Jobs : RevokeJobGrants(j)

ApprovalStep ==
  \/ \E a \in Approvals, j \in Jobs : Request(a, j)
  \/ \E a \in Approvals : Approve(a) \/ Deny(a) \/ Cancel(a) \/ Consume(a) \/ ApprovalFallsDue(a)

DaemonStep ==
  \/ Start \/ InitializeCapabilities \/ InitializeApprovals \/ StartFails
  \/ Stop \/ ShutdownRevokes \/ ShutdownEnds \/ CloseLedger \/ ProcessEnds

JobStep == \E j \in Jobs : JobSettles(j) \/ JobIsRetried(j)

LedgerStep == \E e \in Events : Deliver(e) \/ LoseEntry(e)

ANext == CapabilityStep \/ ApprovalStep \/ DaemonStep \/ JobStep \/ LedgerStep

ASpec == AInit /\ [][ANext]_authVars

(***************************************************************************)
(* Properties                                                              *)
(***************************************************************************)

\* Every variable has its type.
ATypeOK ==
  /\ jobState \in [Jobs -> {"active", "failed", "final"}]
  /\ grant \in [Grants -> GrantRow]
  /\ approval \in [Approvals -> ApprovalRow]
  /\ used \in [Approvals -> Nat]
  /\ pending \in [Events -> Nat] /\ entries \in [Events -> Nat]
  /\ process \in 1 .. MaxProcesses /\ stage \in Stages

\* Restart fails closed: once Capability Security is ready, every active grant is one
\* this process issued, whatever point the processes before it ended at.
GrantsAreProcessBound ==
  CapabilitiesReady => \A g \in ActiveGrants : grant[g].process = process

\* The ledger never says the same thing twice: although a grant can be revoked alone,
\* with its job's grants and by the shutdown, across awaits and processes, each event
\* of a grant or an approval is published, and so entered, at most once.
EnteredAtMostOnce ==
  \A e \in Events : pending[e] + entries[e] <= 1

\* What the ledger says did happen: an entry never runs ahead of the transaction it
\* reports, nor outlives its effect.
LedgerIsTruthful ==
  \A e \in Events : entries[e] > 0 => Happened(e[1], e[2])

\* One approval, one use: a receipt is accepted at most once and never without a
\* decision that approved it, and its hash is stored exactly while it can be used.
ReceiptsAreSpentOnce ==
  \A a \in Approvals :
     /\ used[a] = IF approval[a].state = "consumed" THEN 1 ELSE 0
     /\ approval[a].receiptHash <=> approval[a].state = "approved"

(***************************************************************************)
(* Refinement                                                              *)
(***************************************************************************)

\* A grant is held as long as it would be honoured, now or when this process is ready
\* again.
HoldingOf(g) ==
  CASE grant[g].state = "absent" -> "none"
    [] g \in ActiveGrants /\ (CapabilitiesReady \/ grant[g].process = process) -> "held"
    [] OTHER -> "over"

ConsentOf(state) ==
  CASE state = "absent" -> "none"
    [] state = "pending" -> "asked"
    [] state = "approved" -> "given"
    [] state = "consumed" -> "used"
    [] OTHER -> "over"

Promised == INSTANCE Warrants WITH
              holding <- [g \in Grants |-> HoldingOf(g)],
              consent <- [a \in Approvals |-> ConsentOf(approval[a].state)],
              uses <- used,
              record <- entries

\* Whatever ends a process and whenever it starts again, no grant comes back once it was
\* over, no approval is used twice, and the ledger enters what came to pass, once: each
\* step of the three components is one of Warrants, or none.
ImplementsWarrants == Promised!Spec
==============================================================================
