--------------------------- MODULE OfflineExecution ---------------------------
(***************************************************************************)
(* Offline Execution (apps/local/src/offline-execution.ts) over the        *)
(* Durable Job Engine.                                                     *)
(*                                                                         *)
(* Every call of the coordinator is an async function that runs several    *)
(* transactions with awaits between them: event publication after each     *)
(* transaction, and the engine's own promises.  Wherever it awaits, other  *)
(* calls of the coordinator, workers and the Jobs Center run.  A call that *)
(* is between two transactions with no await in between holds the thread;  *)
(* only a crash can come in there.                                         *)
(*                                                                         *)
(* Workers claim through the coordinator's claimNext(), never through the  *)
(* engine's.                                                               *)
(***************************************************************************)
EXTENDS RecoveryPolicy

CONSTANTS
  Calls,      \* coordinator calls that can be under way at the same time
  MaxCrashes  \* bound: how often the daemon crashes

ASSUME CrashesAssumption == MaxCrashes \in Nat

VARIABLES
  connectivity,  \* gd_connectivity_state.state
  required,      \* jobs with a row in gd_job_network_requirements
  blocked,       \* those of them with blocked_for_network = 1
  call,          \* where each call under way has come to
  up,            \* whether the daemon's process lives
  crashes,       \* history: number of crashes
  waitsForNet    \* history: jobs whose present wait was entered for the network

netVars == <<connectivity, required, blocked>>
offlineVars == <<vars, netVars, call, up, crashes, waitsForNet>>

Observations == {"unknown", "online", "offline"}

\* A call's place in its code, the jobs left of the list it works off, and for
\* waitForNetwork() and clearNetworkRequirement() its argument.
NoJob == "none"
Idle == [at |-> "idle", todo |-> {}, then |-> "return", job |-> NoJob, token |-> NoLease]

\* Places reached without an await: the call still holds the thread.
Synchronous == {"reconcile", "park", "resumeOne"}

Free == up /\ \A c \in Calls : call[c].at \notin Synchronous
Goto(c, place) == call' = [call EXCEPT ![c].at = place]
Return(c) == call' = [call EXCEPT ![c] = Idle]

\* The place that follows the end of reconcile() or of declareNetworkRequired().
After(c) == IF call[c].then = "return" THEN Idle
            ELSE [call[c] EXCEPT !.at = call[c].then, !.todo = {}]

\* A wait for the network lasts as long as the job stays in state waiting.
StillWaiting(S) == {j \in S : job'[j].state = "waiting"}

(***************************************************************************)
(* reconcile()                                                             *)
(***************************************************************************)
\* Mutant: waits of jobs with no attempt left are not looked at.
BlockedWaitsWithBudget ==
  {j \in required \cap blocked : job[j].state = "waiting" /\ job[j].attemptCount < job[j].maxAttempts}

BlockedWaits == {j \in required \cap blocked : job[j].state = "waiting"}

\* The list is ordered by queue_order, which no operation changes: the job of S that
\* comes next in it.
NextInQueue(j, S) == j \in S /\ \A k \in S : job[j].queueOrder <= job[k].queueOrder

\* Mutant: the row is requeued whatever became of it since the list was read.
ResumeStale(c, todo) ==
  \/ todo = {} /\ Goto(c, "clearStale") /\ UNCHANGED <<vars, waitsForNet>>
  \/ \E j \in Jobs :
       /\ NextInQueue(j, todo)
       /\ Update(j, [Released(job[j]) EXCEPT !.state = "queued"])
       /\ call' = [call EXCEPT ![c].at = "unblock", ![c].todo = todo]
       /\ waitsForNet' = StillWaiting(waitsForNet)

\* The loop of #resumeNetworkWaits at the job that comes next: jobs.resume() accepts
\* any held job and throws for the others, which ends the whole call.
ResumeFirst(c, todo) ==
  \/ todo = {} /\ Goto(c, "clearStale") /\ UNCHANGED <<vars, waitsForNet>>
  \/ \E j \in Jobs :
       /\ NextInQueue(j, todo)
       /\ \/ /\ Resume(j, TRUE)
             /\ call' = [call EXCEPT ![c].at = "unblock", ![c].todo = todo]
             /\ waitsForNet' = StillWaiting(waitsForNet)
          \/ /\ job[j].state \notin Held
             /\ Return(c) /\ UNCHANGED <<vars, waitsForNet>>

ResumeNetworkWaits(c) ==
  /\ call[c].at = "reconcile" /\ connectivity = "online"
  /\ ResumeFirst(c, BlockedWaits)
  /\ UNCHANGED <<netVars, up, crashes>>

ResumeNext(c) ==
  /\ Free /\ call[c].at = "resumeNext"
  /\ ResumeFirst(c, call[c].todo)
  /\ UNCHANGED <<netVars, up, crashes>>

\* The row of the job just resumed
Unblock(c) ==
  /\ Free /\ call[c].at = "unblock"
  /\ \E j \in Jobs :
       /\ NextInQueue(j, call[c].todo)
       /\ blocked' = blocked \ {j}
       /\ call' = [call EXCEPT ![c].at = "resumeNext", ![c].todo = @ \ {j}]
  /\ UNCHANGED <<vars, connectivity, required, up, crashes, waitsForNet>>

\* Mutant: jobs already running are parked too.
ParkableOrRunning == {j \in required \ blocked : job[j].state \in {"queued", "running"}}

Parkable == {j \in required \ blocked : job[j].state = "queued"}

ParkQueuedNetworkJobs ==
  /\ job' = [j \in Jobs |-> IF j \in Parkable
                            THEN [Unleased(job[j]) EXCEPT !.state = "waiting"] ELSE job[j]]
  /\ blocked' = blocked \cup Parkable
  /\ waitsForNet' = waitsForNet \cup Parkable
  /\ UNCHANGED <<deps, issued, connectivity, required, up, crashes>>

ParkInReconcile(c) ==
  /\ call[c].at = "reconcile" /\ connectivity # "online"
  /\ ParkQueuedNetworkJobs
  /\ Goto(c, "clearStale")

ClearStaleBlockedFlags(c) ==
  /\ Free /\ call[c].at = "clearStale"
  /\ blocked' = {j \in blocked : job[j].state = "waiting"}
  /\ call' = [call EXCEPT ![c] = After(c)]
  /\ UNCHANGED <<vars, connectivity, required, up, crashes, waitsForNet>>

(***************************************************************************)
(* The calls                                                               *)
(***************************************************************************)
SetConnectivity(c, observation) ==
  /\ Free /\ call[c] = Idle
  /\ connectivity' = observation
  /\ Goto(c, "reconcile")
  /\ UNCHANGED <<vars, required, blocked, up, crashes, waitsForNet>>

StartClaim(c) ==
  /\ Free /\ call[c] = Idle
  /\ call' = [call EXCEPT ![c].at = "reconcile", ![c].then = "claim"]
  /\ UNCHANGED <<vars, netVars, up, crashes, waitsForNet>>

ClaimAfterReconcile(c) ==
  /\ Free /\ call[c].at = "claim"
  /\ \/ ClaimNext
     \/ (\A j \in Jobs : ~Runnable(j)) /\ UNCHANGED vars
  /\ Return(c)
  /\ UNCHANGED <<netVars, up, crashes, waitsForNet>>

DeclareNetworkRequired(c, j) ==
  /\ Free /\ call[c] = Idle /\ job[j].state # "absent"
  /\ required' = required \cup {j}
  /\ IF connectivity = "online" THEN UNCHANGED call ELSE Goto(c, "park")
  /\ UNCHANGED <<vars, connectivity, blocked, up, crashes, waitsForNet>>

ParkInDeclare(c) ==
  /\ call[c].at = "park"
  /\ ParkQueuedNetworkJobs
  /\ call' = [call EXCEPT ![c] = After(c)]

\* Mutant: only the classification goes.
ClearRequirementOnly(c, j) ==
  /\ Free /\ call[c] = Idle
  /\ required' = required \ {j}
  /\ UNCHANGED <<vars, connectivity, blocked, call, up, crashes, waitsForNet>>

ClearNetworkRequirement(c, j) ==
  /\ Free /\ call[c] = Idle
  /\ required' = required \ {j} /\ blocked' = blocked \ {j}
  /\ IF j \in BlockedWaits
     THEN call' = [call EXCEPT ![c].at = "resumeOne", ![c].job = j]
     ELSE UNCHANGED call
  /\ UNCHANGED <<vars, connectivity, up, crashes, waitsForNet>>

ResumeCleared(c) ==
  /\ call[c].at = "resumeOne"
  /\ Resume(call[c].job, TRUE)
  /\ Return(c)
  /\ waitsForNet' = StillWaiting(waitsForNet)
  /\ UNCHANGED <<netVars, up, crashes>>

\* jobs.wait() of waitForNetwork(): available_at is now.
WaitJob(c, j, t) ==
  \/ /\ Wait(j, t, TRUE)
     /\ call' = [call EXCEPT ![c] = [Idle EXCEPT !.at = "block", !.job = j]]
     /\ waitsForNet' = waitsForNet \cup {j}
  \/ /\ ~RequireLease(j, t)
     /\ Return(c) /\ UNCHANGED <<vars, waitsForNet>>

WaitForNetwork(c, j, t) ==
  /\ Free /\ call[c] = Idle
  /\ IF j \in required THEN WaitJob(c, j, t) /\ UNCHANGED required
     ELSE /\ required' = required \cup {j}
          /\ call' = [call EXCEPT ![c] =
                [Idle EXCEPT !.at = IF connectivity = "online" THEN "wait" ELSE "park",
                             !.then = "wait", !.job = j, !.token = t]]
          /\ UNCHANGED <<vars, waitsForNet>>
  /\ UNCHANGED <<connectivity, blocked, up, crashes>>

WaitDeclared(c) ==
  /\ Free /\ call[c].at = "wait"
  /\ WaitJob(c, call[c].job, call[c].token)
  /\ UNCHANGED <<netVars, up, crashes>>

\* Mutant: the wait is not marked as one for the network.
BlockForgotten(c) ==
  /\ Free /\ call[c].at = "block"
  /\ Return(c)
  /\ UNCHANGED <<vars, netVars, up, crashes, waitsForNet>>

\* The UPDATE of waitForNetwork(); it finds no row if the requirement is gone.
Block(c) ==
  /\ Free /\ call[c].at = "block"
  /\ blocked' = blocked \cup ({call[c].job} \cap required)
  /\ Return(c)
  /\ UNCHANGED <<vars, connectivity, required, up, crashes, waitsForNet>>

(***************************************************************************)
(* Surroundings                                                            *)
(***************************************************************************)
ProcessDies ==
  /\ up /\ crashes < MaxCrashes
  /\ up' = FALSE /\ crashes' = crashes + 1
  /\ call' = [c \in Calls |-> Idle]
  /\ UNCHANGED <<vars, netVars, waitsForNet>>

\* Recovery runs first, then initialize() reconciles the recovered queue.
Restart(c) ==
  /\ ~up /\ up' = TRUE
  /\ Recover(Running)
  /\ Goto(c, "reconcile")
  /\ UNCHANGED <<netVars, crashes, waitsForNet>>

\* Everything else that reaches the engine.
OtherEngineCall ==
  /\ Free
  /\ \/ EnqueueStep
     \/ \E j \in Jobs : \E t \in 1 .. issued[j] : WorkerStep(j, t)
     \/ \E j \in Jobs : ControlStep(j)
     \/ \E j \in Jobs : BecomeAvailable(j)
     \/ \E j \in Running : Recover({j})   \* the sweep, once the lease of j ran out
  /\ waitsForNet' = StillWaiting(waitsForNet)
  /\ UNCHANGED <<netVars, call, up, crashes>>

(***************************************************************************)
(* Specification                                                           *)
(***************************************************************************)
OInit ==
  /\ Init
  /\ connectivity = "unknown" /\ required = {} /\ blocked = {}
  /\ call = [c \in Calls |-> Idle]
  /\ up = TRUE /\ crashes = 0 /\ waitsForNet = {}

CallStarts(c) ==
  \/ \E observation \in Observations : SetConnectivity(c, observation)
  \/ StartClaim(c)
  \/ \E j \in Jobs : DeclareNetworkRequired(c, j) \/ ClearNetworkRequirement(c, j)
  \/ \E j \in Jobs : \E t \in 1 .. issued[j] : WaitForNetwork(c, j, t)

CallGoesOn(c) ==
  \/ ResumeNetworkWaits(c) \/ ResumeNext(c) \/ Unblock(c)
  \/ ParkInReconcile(c) \/ ClearStaleBlockedFlags(c)
  \/ ClaimAfterReconcile(c) \/ ParkInDeclare(c) \/ ResumeCleared(c)
  \/ WaitDeclared(c) \/ Block(c)

ONext ==
  \/ \E c \in Calls : CallStarts(c) \/ CallGoesOn(c)
  \/ ProcessDies \/ \E c \in Calls : Restart(c)
  \/ OtherEngineCall

OSpec == OInit /\ [][ONext]_offlineVars

\* The event loop runs every call to its end, and workers keep asking for work.
OFairness == \A c \in Calls : WF_offlineVars(CallGoesOn(c)) /\ SF_offlineVars(StartClaim(c))

OFairSpec == OSpec /\ OFairness

(***************************************************************************)
(* Properties                                                              *)
(***************************************************************************)

\* Every variable has its type.
OTypeOK ==
  /\ TypeOK
  /\ connectivity \in Observations
  /\ blocked \subseteq required /\ required \subseteq Enqueued
  /\ \A c \in Calls : call[c].job \in Jobs \cup {NoJob} /\ call[c].todo \subseteq Jobs
  /\ up \in BOOLEAN /\ crashes \in 0 .. MaxCrashes /\ waitsForNet \subseteq Jobs

\* A wait entered for the network can end: once nothing is under way, the row that
\* the next reconciliation looks for is there.
NetworkWaitsAreMarked ==
  (up /\ \A c \in Calls : call[c] = Idle) => waitsForNet \subseteq BlockedWaits

\* Losing the network takes no job from its worker: a running job leaves that state
\* only by its own waitForNetwork(), not by another call that parks the queue.
RunningJobsUndisturbed ==
  [][\A j \in Jobs :
       (up /\ call' # call /\ job[j].state = "running" /\ job'[j].state # "running")
          => \E c \in Calls : /\ call'[c] # call[c]
                             /\ call'[c].at = "block" /\ call'[c].job = j]_offlineVars

\* The list of waits is read once and worked off over many awaits: a job cancelled,
\* skipped or completed meanwhile is not put back in the queue.
SettledJobsStaySettled ==
  [][\A j \in Jobs : job[j].state \in Terminal \ {"failed"} =>
       job'[j].state = job[j].state]_offlineVars

\* As long as the network stays up, a job waiting for it is put back in the queue.
NetworkWaitsEnd ==
  \A j \in Jobs :
     (j \in waitsForNet /\ connectivity = "online") ~> (j \notin waitsForNet \/ connectivity # "online")
==============================================================================
