----------------------------- MODULE DurableJobs -----------------------------
(***************************************************************************)
(* The Durable Job Engine (apps/local/src/job-engine.ts).                  *)
(*                                                                         *)
(* Every operation of the engine is one BEGIN IMMEDIATE transaction run    *)
(* synchronously on the daemon's only database connection, so each is one  *)
(* action here.  What surrounds the engine is arbitrary: any caller may    *)
(* call any operation at any time, and a worker may go on using a lease    *)
(* token it was once given, however stale.                                 *)
(*                                                                         *)
(* Data kept: a lease token is the ordinal of the claim of its job that    *)
(* drew it (uuids never repeat); a checkpoint or result is represented by  *)
(* the token of the claim that wrote it; an instant is kept only as        *)
(* "available_at has passed" and "lease_expires_at has passed".            *)
(***************************************************************************)
EXTENDS Integers, FiniteSets

CONSTANTS
  Jobs,           \* ids a job can be given
  Priorities,     \* priorities a caller may ask for
  AttemptBudgets  \* values of maxAttempts a caller may ask for

ASSUME JobsAssumption == IsFiniteSet(Jobs)
ASSUME PrioritiesAssumption == Priorities \subseteq Int
ASSUME BudgetsAssumption == AttemptBudgets \subseteq Nat \ {0}

VARIABLES
  job,     \* gd_jobs: the row of each id
  deps,    \* gd_job_dependencies: the prerequisites of each id
  issued   \* how many lease tokens were drawn for each id: tokens 1 .. issued[j]

vars == <<job, deps, issued>>

(***************************************************************************)
(* Rows                                                                    *)
(***************************************************************************)
NoLease == 0
NoClaim == 0

Held == {"checkpointed", "waiting", "paused"}
Satisfied == {"completed", "skipped"}
Terminal == {"completed", "failed", "cancelled", "skipped"}
States == {"absent", "queued", "running"} \cup Held \cup Terminal

JobRow == [state : States, priority : Int, queueOrder : Nat,
           available : BOOLEAN, attemptCount : Nat, maxAttempts : Nat,
           leaseToken : Nat, leaseExpired : BOOLEAN,
           pauseRequested : BOOLEAN, cancelRequested : BOOLEAN,
           checkpoint : Nat, result : Nat]

AbsentRow == [state |-> "absent", priority |-> 0, queueOrder |-> 0,
              available |-> FALSE, attemptCount |-> 0, maxAttempts |-> 0,
              leaseToken |-> NoLease, leaseExpired |-> FALSE,
              pauseRequested |-> FALSE, cancelRequested |-> FALSE,
              checkpoint |-> NoClaim, result |-> NoClaim]

Enqueued == {j \in Jobs : job[j].state # "absent"}

\* worker_id, lease_token and lease_expires_at set to NULL
Unleased(r) == [r EXCEPT !.leaseToken = NoLease, !.leaseExpired = FALSE]

\* ... and both request flags reset, the form most UPDATEs take
Released(r) == [Unleased(r) EXCEPT !.pauseRequested = FALSE, !.cancelRequested = FALSE]

\* UPDATE gd_jobs of one row, the other tables left alone
Update(j, r) == /\ job' = [job EXCEPT ![j] = r]
                /\ UNCHANGED <<deps, issued>>

(***************************************************************************)
(* Enqueueing and the dependency graph                                     *)
(***************************************************************************)

\* Rows are never deleted, so COALESCE(MAX(queue_order), 0) + 1 is the number
\* of rows plus one.
Enqueue(j, prerequisites, priority, budget, available) ==
  /\ job[j].state = "absent"
  /\ prerequisites \subseteq Enqueued
  /\ job' = [job EXCEPT ![j] = [AbsentRow EXCEPT
                !.state = "queued", !.priority = priority,
                !.queueOrder = Cardinality(Enqueued) + 1,
                !.available = available, !.maxAttempts = budget]]
  /\ deps' = [deps EXCEPT ![j] = prerequisites]
  /\ UNCHANGED issued

ClosedUnderDeps(S) == \A j \in S : deps[j] \subseteq S

\* The recursive CTE "lineage": every id reached from j over one or more edges.
\* It is the least closed set that holds j's prerequisites.
InLineage(k, j) ==
  \A S \in SUBSET Jobs : (deps[j] \subseteq S /\ ClosedUnderDeps(S)) => k \in S

\* Mutants: the lineage query dropped; edges still added after the first attempt.
AddDependencyUnchecked(j, d) ==
  /\ j # d
  /\ job[j].state = "queued" /\ job[j].attemptCount = 0
  /\ job[d].state # "absent"
  /\ deps' = [deps EXCEPT ![j] = @ \cup {d}]
  /\ UNCHANGED <<job, issued>>

AddDependencyLate(j, d) ==
  /\ j # d
  /\ job[j].state \in {"queued"} \cup Held
  /\ job[d].state # "absent"
  /\ ~InLineage(j, d)
  /\ deps' = [deps EXCEPT ![j] = @ \cup {d}]
  /\ UNCHANGED <<job, issued>>

AddDependency(j, d) ==
  /\ j # d
  /\ job[j].state = "queued" /\ job[j].attemptCount = 0
  /\ job[d].state # "absent"
  /\ ~InLineage(j, d)
  /\ deps' = [deps EXCEPT ![j] = @ \cup {d}]
  /\ UNCHANGED <<job, issued>>

(***************************************************************************)
(* Claiming                                                                *)
(***************************************************************************)
\* Mutant: the attempt budget is not part of the claim query.
RunnableUnbudgeted(j) ==
  /\ job[j].state = "queued"
  /\ job[j].available
  /\ \A d \in deps[j] : job[d].state \in Satisfied

Runnable(j) ==
  /\ job[j].state = "queued"
  /\ job[j].available
  /\ job[j].attemptCount < job[j].maxAttempts
  /\ \A d \in deps[j] : job[d].state \in Satisfied

\* ORDER BY priority DESC, queue_order ASC
Precedes(j, k) ==
  \/ job[j].priority > job[k].priority
  \/ job[j].priority = job[k].priority /\ job[j].queueOrder <= job[k].queueOrder

Claim(j) ==
  /\ Runnable(j)
  /\ \A k \in Jobs : Runnable(k) => Precedes(j, k)
  /\ job' = [job EXCEPT ![j] = [Released(job[j]) EXCEPT
                !.state = "running", !.leaseToken = issued[j] + 1,
                !.attemptCount = job[j].attemptCount + 1]]
  /\ issued' = [issued EXCEPT ![j] = issued[j] + 1]
  /\ UNCHANGED deps

ClaimNext == \E j \in Jobs : Claim(j)

(***************************************************************************)
(* What the worker that was given token t may do to job j.  #requireLease  *)
(* compares the token only: an expired lease is good until it is swept.    *)
(***************************************************************************)
\* Mutant: any running row will do, whose ever its lease is.
RequireLeaseOfAnyone(j, t) == job[j].state = "running" /\ t # NoLease

RequireLease(j, t) == job[j].state = "running" /\ job[j].leaseToken = t

Heartbeat(j, t) ==
  /\ RequireLease(j, t)
  /\ Update(j, [job[j] EXCEPT !.leaseExpired = FALSE])

Complete(j, t) ==
  /\ RequireLease(j, t)
  /\ Update(j, [Released(job[j]) EXCEPT !.state = "completed", !.result = t])

Fail(j, t) ==
  /\ RequireLease(j, t)
  /\ Update(j, [Released(job[j]) EXCEPT !.state = "failed", !.result = NoClaim])

\* Mutant: a checkpoint leaves the request flags in the row.
CheckpointKeepsRequests(j, t) ==
  /\ RequireLease(j, t)
  /\ Update(j, [Unleased(job[j]) EXCEPT !.state = "checkpointed", !.checkpoint = t])

Checkpoint(j, t) ==
  /\ RequireLease(j, t)
  /\ Update(j, [Released(job[j]) EXCEPT !.state = "checkpointed", !.checkpoint = t])

Wait(j, t, available) ==
  /\ RequireLease(j, t)
  /\ Update(j, [Released(job[j]) EXCEPT !.state = "waiting", !.available = available])

\* Mutant: the acknowledged pause keeps the lease.
AcknowledgePauseLeased(j, t) ==
  /\ RequireLease(j, t)
  /\ Update(j, [job[j] EXCEPT !.state = "paused", !.pauseRequested = FALSE])

\* Leaves cancel_requested as it is.
AcknowledgePause(j, t) ==
  /\ RequireLease(j, t)
  /\ Update(j, [Unleased(job[j]) EXCEPT !.state = "paused", !.pauseRequested = FALSE])

AcknowledgeCancel(j, t) ==
  /\ RequireLease(j, t)
  /\ Update(j, [Released(job[j]) EXCEPT !.state = "cancelled"])

WorkerStep(j, t) ==
  \/ Heartbeat(j, t)
  \/ Complete(j, t)
  \/ Fail(j, t)
  \/ Checkpoint(j, t)
  \/ \E available \in BOOLEAN : Wait(j, t, available)
  \/ AcknowledgePause(j, t)
  \/ AcknowledgeCancel(j, t)

(***************************************************************************)
(* Control operations, with no lease                                       *)
(***************************************************************************)
RequestPause(j) ==
  /\ job[j].state \in {"queued", "running", "waiting", "checkpointed"}
  /\ Update(j, IF job[j].state = "running"
               THEN [job[j] EXCEPT !.pauseRequested = TRUE]
               ELSE [Unleased(job[j]) EXCEPT !.state = "paused", !.pauseRequested = FALSE])

RequestCancel(j) ==
  /\ job[j].state \in {"queued", "running"} \cup Held
  /\ Update(j, IF job[j].state = "running"
               THEN [job[j] EXCEPT !.cancelRequested = TRUE]
               ELSE [Released(job[j]) EXCEPT !.state = "cancelled"])

\* Mutant: resumed work starts over.
ResumeAfresh(j, available) ==
  /\ job[j].state \in Held
  /\ Update(j, [Released(job[j]) EXCEPT !.state = "queued", !.available = available,
                                       !.checkpoint = NoClaim])

Resume(j, available) ==
  /\ job[j].state \in Held
  /\ Update(j, [Released(job[j]) EXCEPT !.state = "queued", !.available = available])

Retry(j, available) ==
  /\ job[j].state = "failed"
  /\ job[j].attemptCount < job[j].maxAttempts
  /\ Update(j, [Released(job[j]) EXCEPT !.state = "queued", !.available = available])

\* Mutant: a running job can be skipped under its worker.
SkipRunning(j) ==
  /\ job[j].state \in {"queued", "running"} \cup Held
  /\ Update(j, [Released(job[j]) EXCEPT !.state = "skipped"])

Skip(j) ==
  /\ job[j].state \in {"queued"} \cup Held
  /\ Update(j, [Released(job[j]) EXCEPT !.state = "skipped"])

SetPriority(j, priority) ==
  /\ job[j].state \in States \ (Terminal \cup {"absent"})
  /\ Update(j, [job[j] EXCEPT !.priority = priority])

(***************************************************************************)
(* The clock                                                               *)
(***************************************************************************)
BecomeAvailable(j) ==
  /\ job[j].state # "absent" /\ ~job[j].available
  /\ Update(j, [job[j] EXCEPT !.available = TRUE])

LeaseExpires(j) ==
  /\ job[j].state = "running" /\ ~job[j].leaseExpired
  /\ Update(j, [job[j] EXCEPT !.leaseExpired = TRUE])

(***************************************************************************)
(* Specification                                                           *)
(***************************************************************************)
Init ==
  /\ job = [j \in Jobs |-> AbsentRow]
  /\ deps = [j \in Jobs |-> {}]
  /\ issued = [j \in Jobs |-> 0]

EnqueueStep ==
  \E j \in Jobs, prerequisites \in SUBSET Jobs, priority \in Priorities,
     budget \in AttemptBudgets, available \in BOOLEAN :
        Enqueue(j, prerequisites, priority, budget, available)

ControlStep(j) ==
  \/ \E d \in Jobs : AddDependency(j, d)
  \/ RequestPause(j)
  \/ RequestCancel(j)
  \/ \E available \in BOOLEAN : Resume(j, available)
  \/ \E available \in BOOLEAN : Retry(j, available)
  \/ Skip(j)
  \/ \E priority \in Priorities : SetPriority(j, priority)

ClockStep(j) == BecomeAvailable(j) \/ LeaseExpires(j)

EngineNext ==
  \/ EnqueueStep
  \/ ClaimNext
  \/ \E j \in Jobs : \E t \in 1 .. issued[j] : WorkerStep(j, t)
  \/ \E j \in Jobs : ControlStep(j)

Next == EngineNext \/ \E j \in Jobs : ClockStep(j)

Spec == Init /\ [][Next]_vars

(***************************************************************************)
(* Properties                                                              *)
(***************************************************************************)

\* Every variable has its type.
TypeOK ==
  /\ job \in [Jobs -> JobRow]
  /\ deps \in [Jobs -> SUBSET Jobs]
  /\ issued \in [Jobs -> Nat]

\* A job row names an owner exactly while it runs, and that owner is the worker
\* of its latest claim: no operation revives an older lease or leaves one behind.
LeaseIsLatestClaim ==
  \A j \in Jobs :
     job[j].leaseToken = IF job[j].state = "running" THEN issued[j] ELSE NoLease

\* Every claim ever made of a job is paid for out of its budget: attempt_count
\* is the number of claims and never passes max_attempts, whatever path of
\* pauses, waits, retries and recoveries led back to the queue.
AttemptsWithinBudget ==
  \A j \in Jobs : /\ job[j].attemptCount = issued[j]
                  /\ issued[j] <= job[j].maxAttempts

\* The dependency graph stays acyclic under enqueue() and addDependency(): every
\* set of jobs has a member none of whose prerequisites is in the set, so jobs can
\* never wait for one another for ever.
AcyclicDependencies ==
  \A S \in SUBSET Jobs : S # {} => \E j \in S : deps[j] \cap S = {}

\* A job that was ever claimed has all its prerequisites completed or skipped, now
\* and not just at the claim: edges are frozen by the first attempt, and neither
\* state is ever left.
StartedAfterPrerequisites ==
  \A j \in Jobs : issued[j] > 0 =>
     \A d \in deps[j] : job[d].state \in Satisfied

\* Prerequisites are always jobs that exist.
DependenciesExist ==
  \A j \in Jobs : deps[j] \subseteq Enqueued

\* The result of a completed job is that of its latest claim: a worker that lost
\* its lease to recovery or to a pause cannot settle the job of its successor.
ResultFromLatestClaim ==
  \A j \in Jobs : job[j].result # NoClaim =>
     job[j].state = "completed" /\ job[j].result = issued[j]

\* A pause or cancel request is addressed to the claim that was running when it was
\* made: a queued, waiting or settled row carries none, so that recovery never
\* applies to a later attempt what was asked of an earlier one.  (A paused row may
\* keep cancel_requested: acknowledgePause() does not reset it.)
RequestsNotInherited ==
  \A j \in Jobs :
     /\ job[j].pauseRequested => job[j].state = "running"
     /\ job[j].cancelRequested => job[j].state \in {"running", "paused"}

\* checkpoint_json is only ever replaced by a later claim's: it is never lost and
\* never overwritten by a stale worker.
CheckpointsNeverRegress ==
  [][\A j \in Jobs : job'[j].checkpoint >= job[j].checkpoint]_vars

(***************************************************************************)
(* Refinement                                                              *)
(***************************************************************************)
PhaseOf(state) ==
  CASE state = "absent" -> "unborn"
    [] state = "running" -> "owned"
    [] state \in Satisfied -> "delivered"
    [] state \in {"failed", "cancelled"} -> "abandoned"
    [] OTHER -> "idle"

Queue == INSTANCE WorkQueue WITH
           phase <- [j \in Jobs |-> PhaseOf(job[j].state)],
           epoch <- issued,
           needs <- deps,
           progress <- [j \in Jobs |-> job[j].checkpoint],
           author <- [j \in Jobs |-> job[j].result]

\* The engine keeps the promises of WorkQueue: each of its transactions is one step
\* of the abstract queue, or none.
ImplementsWorkQueue == Queue!Spec
==============================================================================
