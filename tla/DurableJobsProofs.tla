-------------------------- MODULE DurableJobsProofs --------------------------
(***************************************************************************)
(* The safety of the Durable Job Engine, for every set of jobs, every set  *)
(* of priorities and every set of attempt budgets, and what a recovery     *)
(* transaction does to its rows: the lemmas that the proofs about the two  *)
(* coordinators over the engine share.                                     *)
(***************************************************************************)
EXTENDS RecoveryPolicy, FiniteSetTheorems, TLAPS

(***************************************************************************)
(* The inductive invariant.  Everything that concerns one row is gathered  *)
(* in RowInv(r, n), where n is the number of tokens drawn for the row, so  *)
(* that an action which updates one row is checked on that row alone.      *)
(***************************************************************************)
RowInv(r, n) ==
  /\ r.leaseToken = IF r.state = "running" THEN n ELSE NoLease
  /\ r.attemptCount = n
  /\ n <= r.maxAttempts
  /\ r.checkpoint <= n
  /\ r.result # NoClaim => r.state = "completed" /\ r.result = n
  /\ r.pauseRequested => r.state = "running"
  /\ r.cancelRequested => r.state \in {"running", "paused"}
  /\ r.state = "absent" => r = AbsentRow

RowsInv == \A j \in Jobs : RowInv(job[j], issued[j])

AbsentHaveNoDeps == \A j \in Jobs : job[j].state = "absent" => deps[j] = {}

\* Places in the queue are counted up and never shared.
PlacesInv ==
  /\ \A j \in Enqueued : job[j].queueOrder \in 1 .. Cardinality(Enqueued)
  /\ \A j, k \in Enqueued : job[j].queueOrder = job[k].queueOrder => j = k

IInv ==
  /\ TypeOK
  /\ RowsInv
  /\ PlacesInv
  /\ AbsentHaveNoDeps
  /\ DependenciesExist
  /\ StartedAfterPrerequisites
  /\ AcyclicDependencies

(***************************************************************************)
(* Rows                                                                    *)
(***************************************************************************)

\* What a row may become in a step that draws no token: its invariant holds, it
\* does not appear or vanish, keeps its place in the queue, and stays a satisfied
\* prerequisite if it was one.
RowStep(r, s, n) ==
  /\ s \in JobRow
  /\ RowInv(s, n)
  /\ (s.state = "absent") <=> (r.state = "absent")
  /\ r.state \in Satisfied => s.state \in Satisfied
  /\ s.queueOrder = r.queueOrder

\* The life cycle of a job, as the architecture document of the engine draws it: only
\* a claim starts it, only its worker lets go of it, and of the terminal states
\* "failed" alone can be left.
Move(from, to) ==
  \/ to = from
  \/ from = "absent" /\ to = "queued"
  \/ from = "queued" /\ to \in {"running", "paused", "cancelled", "skipped"}
  \/ from = "running" /\ to \in {"completed", "failed", "cancelled"} \cup Held
  \/ from \in Held /\ to \in {"queued", "paused", "cancelled", "skipped"}
  \/ from = "failed" /\ to = "queued"

\* What a step of the engine may do to a row: move it along its life cycle and write a
\* later checkpoint; it keeps the place it was given in the queue.
Moved(r, s) ==
  /\ Move(r.state, s.state)
  /\ s.checkpoint >= r.checkpoint
  /\ r.state # "absent" => s.queueOrder = r.queueOrder

LEMMA NothingMoves == \A r \in JobRow : Moved(r, r)
BY DEF JobRow, Moved, Move

LEMMA AbsentRowType == AbsentRow \in JobRow /\ AbsentRow.state = "absent"
BY DEF AbsentRow, JobRow, States, NoLease, NoClaim

\* A step that changes rows one by one, and nothing else, keeps the invariant.
LEMMA RowsStep ==
  ASSUME IInv, NEW rows, job' = rows, UNCHANGED <<deps, issued>>,
         rows \in [Jobs -> JobRow],
         \A j \in Jobs : RowStep(job[j], rows[j], issued[j])
  PROVE  IInv'
<1>1. TypeOK'
  BY DEF IInv, TypeOK
<1>2. RowsInv'
  BY DEF RowsInv, RowStep, IInv
<1>3. AbsentHaveNoDeps' /\ DependenciesExist'
  BY DEF AbsentHaveNoDeps, DependenciesExist, Enqueued, RowStep, IInv, TypeOK
<1>4. StartedAfterPrerequisites'
  BY DEF StartedAfterPrerequisites, RowStep, IInv, TypeOK
<1>5. AcyclicDependencies'
  BY DEF AcyclicDependencies, IInv
<1>6. PlacesInv'
  <2>1. Enqueued' = Enqueued
    BY DEF Enqueued, RowStep, IInv, TypeOK
  <2>2. \A j \in Jobs : job'[j].queueOrder = job[j].queueOrder
    BY DEF RowStep
  <2>3. QED
    BY <2>1, <2>2 DEF IInv, PlacesInv, Enqueued
<1>7. QED
  BY <1>1, <1>2, <1>3, <1>4, <1>5, <1>6 DEF IInv

\* The same for an UPDATE of a single row.
LEMMA UpdateStep ==
  ASSUME IInv, NEW j \in Jobs, NEW r, Update(j, r), RowStep(job[j], r, issued[j]),
         Moved(job[j], r)
  PROVE  IInv' /\ \A k \in Jobs : Moved(job[k], job'[k])
<1> DEFINE rows == [job EXCEPT ![j] = r]
<1>1. job' = rows /\ UNCHANGED <<deps, issued>>
  BY DEF Update
<1>2. rows \in [Jobs -> JobRow]
  BY DEF IInv, TypeOK, RowStep
<1>3. \A k \in Jobs : RowStep(job[k], rows[k], issued[k])
  <2> TAKE k \in Jobs
  <2>1. CASE k = j
    BY <2>1 DEF IInv, TypeOK
  <2>2. CASE k # j
    <3>1. rows[k] = job[k] /\ job[k] \in JobRow
      BY <2>2 DEF IInv, TypeOK
    <3>2. RowInv(job[k], issued[k])
      BY DEF IInv, RowsInv
    <3>3. QED
      BY <3>1, <3>2 DEF RowStep
  <2>3. QED
    BY <2>1, <2>2
<1>4. \A k \in Jobs : Moved(job[k], rows[k])
  BY NothingMoves DEF IInv, TypeOK
<1> HIDE DEF rows
<1>5. QED
  BY <1>1, <1>2, <1>3, <1>4, RowsStep

\* What the worker that holds a lease may do.
LEMMA WorkerStepKeeps ==
  ASSUME IInv, NEW j \in Jobs, NEW t \in 1 .. issued[j], WorkerStep(j, t)
  PROVE  IInv' /\ \A k \in Jobs : Moved(job[k], job'[k])
<1>0. /\ job[j] \in JobRow /\ RowInv(job[j], issued[j]) /\ issued[j] \in Nat
      /\ t \in Nat
  BY DEF IInv, TypeOK, RowsInv
<1> USE <1>0 DEF RowInv, RequireLease, Released, Unleased, JobRow, States, Held,
                 Terminal, Satisfied, NoLease, NoClaim, Moved, Move
<1>1. CASE Heartbeat(j, t)
  <2> DEFINE s == [job[j] EXCEPT !.leaseExpired = FALSE]
  <2>1. s \in JobRow
    BY <1>1 DEF Heartbeat
  <2>2. RowInv(s, issued[j])
    BY <1>1 DEF Heartbeat
  <2>3. /\ s.state # "absent" /\ s.queueOrder = job[j].queueOrder
        /\ job[j].state \notin Satisfied \cup {"absent"} /\ Moved(job[j], s)
    BY <1>1 DEF Heartbeat
  <2>4. RowStep(job[j], s, issued[j]) /\ Moved(job[j], s)
    BY <2>1, <2>2, <2>3 DEF RowStep
  <2>5. Update(j, s)
    BY <1>1 DEF Heartbeat
  <2> HIDE DEF s
  <2>6. QED
    BY <2>4, <2>5, UpdateStep
<1>2. CASE Complete(j, t)
  <2> DEFINE s == [Released(job[j]) EXCEPT !.state = "completed", !.result = t]
  <2>1. s \in JobRow
    BY <1>2 DEF Complete
  <2>2. RowInv(s, issued[j])
    BY <1>2 DEF Complete
  <2>3. /\ s.state # "absent" /\ s.queueOrder = job[j].queueOrder
        /\ job[j].state \notin Satisfied \cup {"absent"} /\ Moved(job[j], s)
    BY <1>2 DEF Complete
  <2>4. RowStep(job[j], s, issued[j]) /\ Moved(job[j], s)
    BY <2>1, <2>2, <2>3 DEF RowStep
  <2>5. Update(j, s)
    BY <1>2 DEF Complete
  <2> HIDE DEF s
  <2>6. QED
    BY <2>4, <2>5, UpdateStep
<1>3. CASE Fail(j, t)
  <2> DEFINE s == [Released(job[j]) EXCEPT !.state = "failed", !.result = NoClaim]
  <2>1. s \in JobRow
    BY <1>3 DEF Fail
  <2>2. RowInv(s, issued[j])
    BY <1>3 DEF Fail
  <2>3. /\ s.state # "absent" /\ s.queueOrder = job[j].queueOrder
        /\ job[j].state \notin Satisfied \cup {"absent"} /\ Moved(job[j], s)
    BY <1>3 DEF Fail
  <2>4. RowStep(job[j], s, issued[j]) /\ Moved(job[j], s)
    BY <2>1, <2>2, <2>3 DEF RowStep
  <2>5. Update(j, s)
    BY <1>3 DEF Fail
  <2> HIDE DEF s
  <2>6. QED
    BY <2>4, <2>5, UpdateStep
<1>4. CASE Checkpoint(j, t)
  <2> DEFINE s == [Released(job[j]) EXCEPT !.state = "checkpointed", !.checkpoint = t]
  <2>1. s \in JobRow
    BY <1>4 DEF Checkpoint
  <2>2. RowInv(s, issued[j])
    BY <1>4 DEF Checkpoint
  <2>3. /\ s.state # "absent" /\ s.queueOrder = job[j].queueOrder
        /\ job[j].state \notin Satisfied \cup {"absent"} /\ Moved(job[j], s)
    BY <1>4 DEF Checkpoint
  <2>4. RowStep(job[j], s, issued[j]) /\ Moved(job[j], s)
    BY <2>1, <2>2, <2>3 DEF RowStep
  <2>5. Update(j, s)
    BY <1>4 DEF Checkpoint
  <2> HIDE DEF s
  <2>6. QED
    BY <2>4, <2>5, UpdateStep
<1>5. CASE \E available \in BOOLEAN : Wait(j, t, available)
  <2> PICK available \in BOOLEAN : Wait(j, t, available)
    BY <1>5
  <2> DEFINE s == [Released(job[j]) EXCEPT !.state = "waiting", !.available = available]
  <2>1. s \in JobRow
    BY DEF Wait
  <2>2. RowInv(s, issued[j])
    BY DEF Wait
  <2>3. /\ s.state # "absent" /\ s.queueOrder = job[j].queueOrder
        /\ job[j].state \notin Satisfied \cup {"absent"} /\ Moved(job[j], s)
    BY DEF Wait
  <2>4. RowStep(job[j], s, issued[j]) /\ Moved(job[j], s)
    BY <2>1, <2>2, <2>3 DEF RowStep
  <2>5. Update(j, s)
    BY DEF Wait
  <2> HIDE DEF s
  <2>6. QED
    BY <2>4, <2>5, UpdateStep
<1>6. CASE AcknowledgePause(j, t)
  <2> DEFINE s == [Unleased(job[j]) EXCEPT !.state = "paused", !.pauseRequested = FALSE]
  <2>1. s \in JobRow
    BY <1>6 DEF AcknowledgePause
  <2>2. RowInv(s, issued[j])
    BY <1>6 DEF AcknowledgePause
  <2>3. /\ s.state # "absent" /\ s.queueOrder = job[j].queueOrder
        /\ job[j].state \notin Satisfied \cup {"absent"} /\ Moved(job[j], s)
    BY <1>6 DEF AcknowledgePause
  <2>4. RowStep(job[j], s, issued[j]) /\ Moved(job[j], s)
    BY <2>1, <2>2, <2>3 DEF RowStep
  <2>5. Update(j, s)
    BY <1>6 DEF AcknowledgePause
  <2> HIDE DEF s
  <2>6. QED
    BY <2>4, <2>5, UpdateStep
<1>7. CASE AcknowledgeCancel(j, t)
  <2> DEFINE s == [Released(job[j]) EXCEPT !.state = "cancelled"]
  <2>1. s \in JobRow
    BY <1>7 DEF AcknowledgeCancel
  <2>2. RowInv(s, issued[j])
    BY <1>7 DEF AcknowledgeCancel
  <2>3. /\ s.state # "absent" /\ s.queueOrder = job[j].queueOrder
        /\ job[j].state \notin Satisfied \cup {"absent"} /\ Moved(job[j], s)
    BY <1>7 DEF AcknowledgeCancel
  <2>4. RowStep(job[j], s, issued[j]) /\ Moved(job[j], s)
    BY <2>1, <2>2, <2>3 DEF RowStep
  <2>5. Update(j, s)
    BY <1>7 DEF AcknowledgeCancel
  <2> HIDE DEF s
  <2>6. QED
    BY <2>4, <2>5, UpdateStep
<1>8. QED
  BY <1>1, <1>2, <1>3, <1>4, <1>5, <1>6, <1>7 DEF WorkerStep

\* Control operations on an existing row.
LEMMA ControlUpdateKeeps ==
  ASSUME IInv, NEW j \in Jobs,
         \/ RequestPause(j)
         \/ RequestCancel(j)
         \/ \E available \in BOOLEAN : Resume(j, available)
         \/ \E available \in BOOLEAN : Retry(j, available)
         \/ Skip(j)
         \/ \E priority \in Priorities : SetPriority(j, priority)
  PROVE  IInv' /\ \A k \in Jobs : Moved(job[k], job'[k])
<1>0. /\ job[j] \in JobRow /\ RowInv(job[j], issued[j]) /\ issued[j] \in Nat
  BY DEF IInv, TypeOK, RowsInv
<1> USE <1>0 DEF RowInv, RequireLease, Released, Unleased, JobRow, States, Held,
                 Terminal, Satisfied, NoLease, NoClaim, Moved, Move
<1>1. CASE RequestPause(j)
  <2> DEFINE s == IF job[j].state = "running"
                  THEN [job[j] EXCEPT !.pauseRequested = TRUE]
                  ELSE [Unleased(job[j]) EXCEPT !.state = "paused", !.pauseRequested = FALSE]
  <2>1. s \in JobRow
    BY <1>1 DEF RequestPause
  <2>2. RowInv(s, issued[j])
    BY <1>1 DEF RequestPause
  <2>3. /\ s.state # "absent" /\ s.queueOrder = job[j].queueOrder
        /\ job[j].state \notin Satisfied \cup {"absent"} /\ Moved(job[j], s)
    BY <1>1 DEF RequestPause
  <2>4. RowStep(job[j], s, issued[j]) /\ Moved(job[j], s)
    BY <2>1, <2>2, <2>3 DEF RowStep
  <2>5. Update(j, s)
    BY <1>1 DEF RequestPause
  <2> HIDE DEF s
  <2>6. QED
    BY <2>4, <2>5, UpdateStep
<1>2. CASE RequestCancel(j)
  <2> DEFINE s == IF job[j].state = "running"
                  THEN [job[j] EXCEPT !.cancelRequested = TRUE]
                  ELSE [Released(job[j]) EXCEPT !.state = "cancelled"]
  <2>1. s \in JobRow
    BY <1>2 DEF RequestCancel
  <2>2. RowInv(s, issued[j])
    BY <1>2 DEF RequestCancel
  <2>3. /\ s.state # "absent" /\ s.queueOrder = job[j].queueOrder
        /\ job[j].state \notin Satisfied \cup {"absent"} /\ Moved(job[j], s)
    BY <1>2 DEF RequestCancel
  <2>4. RowStep(job[j], s, issued[j]) /\ Moved(job[j], s)
    BY <2>1, <2>2, <2>3 DEF RowStep
  <2>5. Update(j, s)
    BY <1>2 DEF RequestCancel
  <2> HIDE DEF s
  <2>6. QED
    BY <2>4, <2>5, UpdateStep
<1>3. CASE \E available \in BOOLEAN : Resume(j, available)
  <2> PICK available \in BOOLEAN : Resume(j, available)
    BY <1>3
  <2> DEFINE s == [Released(job[j]) EXCEPT !.state = "queued", !.available = available]
  <2>1. s \in JobRow
    BY DEF Resume
  <2>2. RowInv(s, issued[j])
    BY DEF Resume
  <2>3a. s.state = "queued" /\ s.checkpoint = job[j].checkpoint /\ s.queueOrder = job[j].queueOrder
    OBVIOUS
  <2>3b. job[j].state \in Held
    BY DEF Resume
  <2>3. /\ s.state # "absent" /\ s.queueOrder = job[j].queueOrder
        /\ job[j].state \notin Satisfied \cup {"absent"} /\ Moved(job[j], s)
    BY <2>3a, <2>3b
  <2>4. RowStep(job[j], s, issued[j]) /\ Moved(job[j], s)
    BY <2>1, <2>2, <2>3 DEF RowStep
  <2>5. Update(j, s)
    BY DEF Resume
  <2> HIDE DEF s
  <2>6. QED
    BY <2>4, <2>5, UpdateStep
<1>4. CASE \E available \in BOOLEAN : Retry(j, available)
  <2> PICK available \in BOOLEAN : Retry(j, available)
    BY <1>4
  <2> DEFINE s == [Released(job[j]) EXCEPT !.state = "queued", !.available = available]
  <2>1. s \in JobRow
    BY DEF Retry
  <2>2. RowInv(s, issued[j])
    BY DEF Retry
  <2>3a. s.state = "queued" /\ s.checkpoint = job[j].checkpoint /\ s.queueOrder = job[j].queueOrder
    OBVIOUS
  <2>3b. job[j].state = "failed"
    BY DEF Retry
  <2>3. /\ s.state # "absent" /\ s.queueOrder = job[j].queueOrder
        /\ job[j].state \notin Satisfied \cup {"absent"} /\ Moved(job[j], s)
    BY <2>3a, <2>3b
  <2>4. RowStep(job[j], s, issued[j]) /\ Moved(job[j], s)
    BY <2>1, <2>2, <2>3 DEF RowStep
  <2>5. Update(j, s)
    BY DEF Retry
  <2> HIDE DEF s
  <2>6. QED
    BY <2>4, <2>5, UpdateStep
<1>5. CASE Skip(j)
  <2> DEFINE s == [Released(job[j]) EXCEPT !.state = "skipped"]
  <2>1. s \in JobRow
    BY <1>5 DEF Skip
  <2>2. RowInv(s, issued[j])
    BY <1>5 DEF Skip
  <2>3. /\ s.state # "absent" /\ s.queueOrder = job[j].queueOrder
        /\ job[j].state \notin Satisfied \cup {"absent"} /\ Moved(job[j], s)
    BY <1>5 DEF Skip
  <2>4. RowStep(job[j], s, issued[j]) /\ Moved(job[j], s)
    BY <2>1, <2>2, <2>3 DEF RowStep
  <2>5. Update(j, s)
    BY <1>5 DEF Skip
  <2> HIDE DEF s
  <2>6. QED
    BY <2>4, <2>5, UpdateStep
<1>6. CASE \E priority \in Priorities : SetPriority(j, priority)
  <2> PICK priority \in Priorities : SetPriority(j, priority)
    BY <1>6
  <2> DEFINE s == [job[j] EXCEPT !.priority = priority]
  <2>1. s \in JobRow
    BY PrioritiesAssumption DEF SetPriority
  <2>2. RowInv(s, issued[j])
    BY DEF SetPriority
  <2>3. /\ s.state # "absent" /\ s.queueOrder = job[j].queueOrder
        /\ job[j].state \notin Satisfied \cup {"absent"} /\ Moved(job[j], s)
    BY DEF SetPriority
  <2>4. RowStep(job[j], s, issued[j]) /\ Moved(job[j], s)
    BY <2>1, <2>2, <2>3 DEF RowStep
  <2>5. Update(j, s)
    BY DEF SetPriority
  <2> HIDE DEF s
  <2>6. QED
    BY <2>4, <2>5, UpdateStep
<1>7. QED
  BY <1>1, <1>2, <1>3, <1>4, <1>5, <1>6

\* The passing of time.
LEMMA ClockStepKeeps ==
  ASSUME IInv, NEW j \in Jobs, ClockStep(j)
  PROVE  IInv' /\ \A k \in Jobs : Moved(job[k], job'[k])
<1>0. job[j] \in JobRow /\ RowInv(job[j], issued[j]) /\ issued[j] \in Nat
  BY DEF IInv, TypeOK, RowsInv
<1>1. CASE BecomeAvailable(j)
  <2> DEFINE s == [job[j] EXCEPT !.available = TRUE]
  <2>1. /\ s \in JobRow /\ s.state = job[j].state /\ s.checkpoint = job[j].checkpoint
        /\ s.queueOrder = job[j].queueOrder
    BY <1>0 DEF JobRow
  <2>2. RowInv(s, issued[j])
    BY <1>0, <1>1 DEF BecomeAvailable, RowInv, JobRow
  <2>3. RowStep(job[j], s, issued[j]) /\ Moved(job[j], s)
    BY <1>0, <2>1, <2>2 DEF RowStep, JobRow, Moved, Move
  <2>4. Update(j, s)
    BY <1>1 DEF BecomeAvailable
  <2> HIDE DEF s
  <2>5. QED
    BY <2>3, <2>4, UpdateStep
<1>2. CASE LeaseExpires(j)
  <2> DEFINE s == [job[j] EXCEPT !.leaseExpired = TRUE]
  <2>1. /\ s \in JobRow /\ s.state = job[j].state /\ s.checkpoint = job[j].checkpoint
        /\ s.queueOrder = job[j].queueOrder
    BY <1>0 DEF JobRow
  <2>2. RowInv(s, issued[j])
    BY <1>0, <1>2 DEF LeaseExpires, RowInv, JobRow
  <2>3. RowStep(job[j], s, issued[j]) /\ Moved(job[j], s)
    BY <1>0, <2>1, <2>2 DEF RowStep, JobRow, Moved, Move
  <2>4. Update(j, s)
    BY <1>2 DEF LeaseExpires
  <2> HIDE DEF s
  <2>5. QED
    BY <2>3, <2>4, UpdateStep
<1>3. QED
  BY <1>1, <1>2 DEF ClockStep

(***************************************************************************)
(* The dependency graph                                                    *)
(***************************************************************************)

\* A job that is enqueued is nobody's prerequisite yet, so its edges close no cycle.
LEMMA EnqueueAcyclic ==
  ASSUME IInv, NEW j \in Jobs, NEW ps \in SUBSET Enqueued,
         job[j].state = "absent", deps' = [deps EXCEPT ![j] = ps]
  PROVE  AcyclicDependencies'
<1>1. /\ deps \in [Jobs -> SUBSET Jobs] /\ j \notin ps
      /\ \A k \in Jobs : j \notin deps[k]
  BY DEF IInv, TypeOK, DependenciesExist, Enqueued
<1>2. SUFFICES ASSUME NEW S \in SUBSET Jobs, S # {}
               PROVE  \E i \in S : deps'[i] \cap S = {}
  BY DEF AcyclicDependencies
<1>3. CASE S \subseteq {j}
  <2>1. S = {j}
    BY <1>2, <1>3
  <2>2. deps'[j] \cap S = {}
    BY <1>1, <2>1
  <2>3. QED
    BY <2>1, <2>2
<1>4. CASE ~(S \subseteq {j})
  <2>1. PICK i \in S \ {j} : deps[i] \cap (S \ {j}) = {}
    BY <1>4 DEF IInv, AcyclicDependencies
  <2>2. deps'[i] = deps[i] /\ j \notin deps[i]
    BY <1>1, <2>1
  <2>3. QED
    BY <2>1, <2>2
<1>5. QED
  BY <1>3, <1>4

\* An edge from j to d closes no cycle unless d already depends on j, directly or
\* not: the set that shows j outside d's lineage splits every other set.
LEMMA AddDependencyAcyclic ==
  ASSUME IInv, NEW j \in Jobs, NEW d \in Jobs, AddDependency(j, d)
  PROVE  AcyclicDependencies'
<1>1. deps \in [Jobs -> SUBSET Jobs]
  BY DEF IInv, TypeOK
<1>2. deps'[j] = deps[j] \cup {d} /\ \A i \in Jobs \ {j} : deps'[i] = deps[i]
  BY <1>1 DEF AddDependency
<1>3. PICK T \in SUBSET Jobs : deps[d] \subseteq T /\ ClosedUnderDeps(T) /\ j \notin T
  BY DEF AddDependency, InLineage
<1> DEFINE R == T \cup {d}
<1>4. j \notin R /\ \A i \in R : deps[i] \subseteq R
  BY <1>3 DEF AddDependency, ClosedUnderDeps
<1>5. SUFFICES ASSUME NEW S \in SUBSET Jobs, S # {}
               PROVE  \E i \in S : deps'[i] \cap S = {}
  BY DEF AcyclicDependencies
<1>6. CASE S \cap R = {}
  <2>1. PICK i \in S : deps[i] \cap S = {}
    BY <1>5 DEF IInv, AcyclicDependencies
  <2>2. deps'[i] \subseteq deps[i] \cup {d} /\ d \notin S
    BY <1>2, <1>6
  <2>3. QED
    BY <2>1, <2>2
<1>7. CASE S \cap R # {}
  <2>1. PICK i \in S \cap R : deps[i] \cap (S \cap R) = {}
    BY <1>7 DEF IInv, AcyclicDependencies
  <2>2. deps'[i] = deps[i] /\ deps[i] \subseteq R
    BY <1>2, <1>4, <2>1
  <2>3. QED
    BY <2>1, <2>2
<1>8. QED
  BY <1>6, <1>7

LEMMA EnqueueKeeps ==
  ASSUME IInv, NEW j \in Jobs, NEW ps \in SUBSET Jobs, NEW priority \in Priorities,
         NEW budget \in AttemptBudgets, NEW available \in BOOLEAN,
         Enqueue(j, ps, priority, budget, available)
  PROVE  IInv' /\ \A k \in Jobs : Moved(job[k], job'[k])
<1> DEFINE s == [AbsentRow EXCEPT
                   !.state = "queued", !.priority = priority,
                   !.queueOrder = Cardinality(Enqueued) + 1,
                   !.available = available, !.maxAttempts = budget]
<1>1. /\ job' = [job EXCEPT ![j] = s] /\ deps' = [deps EXCEPT ![j] = ps]
      /\ issued' = issued /\ job[j].state = "absent" /\ ps \subseteq Enqueued
  BY DEF Enqueue
<1>2. Cardinality(Enqueued) \in Nat
  BY JobsAssumption, FS_Subset, FS_CardinalityType DEF Enqueued
<1>3. job[j] = AbsentRow /\ issued[j] = 0
  <2>1. job[j] = AbsentRow /\ job[j].attemptCount = issued[j]
    BY <1>1 DEF IInv, RowsInv, RowInv
  <2>2. AbsentRow.attemptCount = 0
    BY DEF AbsentRow
  <2>3. QED
    BY <2>1, <2>2
<1>4. s \in JobRow
  <2>1. AbsentRow \in JobRow
    BY AbsentRowType
  <2>2. "queued" \in States /\ priority \in Int /\ budget \in Nat
    BY PrioritiesAssumption, BudgetsAssumption DEF States
  <2>3. Cardinality(Enqueued) + 1 \in Nat
    BY <1>2
  <2>4. QED
    BY <2>1, <2>2, <2>3 DEF JobRow
<1>5. RowInv(s, 0)
  BY <1>4, BudgetsAssumption DEF RowInv, AbsentRow, NoLease, NoClaim
<1>6. /\ s.state = "queued" /\ s.checkpoint = 0 /\ AbsentRow.checkpoint = 0
      /\ s.queueOrder = Cardinality(Enqueued) + 1
  BY DEF AbsentRow, NoClaim
<1> HIDE DEF s
<1>7. TypeOK'
  BY <1>1, <1>4 DEF IInv, TypeOK
<1>8. RowsInv'
  BY <1>1, <1>3, <1>5 DEF IInv, TypeOK, RowsInv
<1>9. AbsentHaveNoDeps' /\ DependenciesExist'
  BY <1>1, <1>6 DEF IInv, TypeOK, AbsentHaveNoDeps, DependenciesExist, Enqueued
<1>10. StartedAfterPrerequisites'
  <2> SUFFICES ASSUME NEW k \in Jobs, issued[k] > 0, NEW d \in deps'[k]
               PROVE  job'[d].state \in Satisfied
    BY <1>1 DEF StartedAfterPrerequisites
  <2>1. k # j /\ deps'[k] = deps[k]
    BY <1>1, <1>3 DEF IInv, TypeOK
  <2>2. d \in Jobs /\ job[d].state \in Satisfied
    BY <2>1 DEF IInv, TypeOK, StartedAfterPrerequisites
  <2>3. d # j
    BY <1>1, <2>2 DEF Satisfied
  <2>4. QED
    BY <1>1, <2>2, <2>3 DEF IInv, TypeOK
<1>11. AcyclicDependencies'
  BY <1>1, EnqueueAcyclic
<1>12. \A k \in Jobs : Moved(job[k], job'[k])
  <2>1. job'[j] = s /\ \A k \in Jobs \ {j} : job'[k] = job[k]
    BY <1>1 DEF IInv, TypeOK
  <2>2. Moved(job[j], s)
    BY <1>1, <1>3, <1>6 DEF Moved, Move
  <2>3. QED
    BY <2>1, <2>2, NothingMoves DEF IInv, TypeOK
<1>13. PlacesInv'
  <2>1. /\ j \notin Enqueued /\ Enqueued' = Enqueued \cup {j}
        /\ job'[j] = s /\ \A k \in Enqueued : job'[k] = job[k]
    BY <1>1, <1>6 DEF Enqueued, IInv, TypeOK
  <2>2. Cardinality(Enqueued') = Cardinality(Enqueued) + 1
    <3>1. IsFiniteSet(Enqueued)
      BY JobsAssumption, FS_Subset DEF Enqueued
    <3>2. QED
      BY <2>1, <3>1, FS_AddElement
  <2>3. \A k \in Enqueued : job[k].queueOrder \in 1 .. Cardinality(Enqueued)
    BY DEF IInv, PlacesInv
  <2>4. \A k \in Enqueued' : job'[k].queueOrder \in 1 .. Cardinality(Enqueued')
    BY <1>2, <1>6, <2>1, <2>2, <2>3
  <2>5. ASSUME NEW k \in Enqueued', NEW m \in Enqueued', job'[k].queueOrder = job'[m].queueOrder
        PROVE  k = m
    <3>1. CASE k \in Enqueued /\ m \in Enqueued
      BY <2>1, <2>5, <3>1 DEF IInv, PlacesInv
    <3>2. CASE k = j \/ m = j
      BY <1>2, <1>6, <2>1, <2>3, <2>5, <3>2
    <3>3. QED
      BY <2>1, <3>1, <3>2
  <2>6. QED
    BY <2>4, <2>5 DEF PlacesInv
<1>14. QED
  BY <1>7, <1>8, <1>9, <1>10, <1>11, <1>12, <1>13 DEF IInv

LEMMA AddDependencyKeeps ==
  ASSUME IInv, NEW j \in Jobs, NEW d \in Jobs, AddDependency(j, d)
  PROVE  IInv' /\ \A k \in Jobs : Moved(job[k], job'[k])
<1>1. /\ job' = job /\ issued' = issued
      /\ deps' = [deps EXCEPT ![j] = deps[j] \cup {d}]
      /\ job[j].state = "queued" /\ job[j].attemptCount = 0 /\ job[d].state # "absent"
  BY DEF AddDependency, IInv, TypeOK
<1>2. issued[j] = 0
  BY <1>1 DEF IInv, RowsInv, RowInv
<1>3. TypeOK' /\ RowsInv'
  BY <1>1 DEF IInv, TypeOK, RowsInv
<1>4. AbsentHaveNoDeps' /\ DependenciesExist'
  BY <1>1 DEF IInv, TypeOK, AbsentHaveNoDeps, DependenciesExist, Enqueued
<1>5. StartedAfterPrerequisites'
  BY <1>1, <1>2 DEF IInv, TypeOK, StartedAfterPrerequisites
<1>6. AcyclicDependencies'
  BY AddDependencyAcyclic
<1>7. PlacesInv' /\ \A k \in Jobs : Moved(job[k], job'[k])
  BY <1>1, NothingMoves DEF IInv, TypeOK, PlacesInv, Enqueued
<1>8. QED
  BY <1>3, <1>4, <1>5, <1>6, <1>7 DEF IInv

(***************************************************************************)
(* Claiming: the only step that draws a token                              *)
(***************************************************************************)
LEMMA ClaimKeeps ==
  ASSUME IInv, NEW j \in Jobs, Claim(j)
  PROVE  IInv' /\ \A k \in Jobs : Moved(job[k], job'[k])
<1> DEFINE s == [Released(job[j]) EXCEPT
                   !.state = "running", !.leaseToken = issued[j] + 1,
                   !.attemptCount = job[j].attemptCount + 1]
<1>1. /\ job[j] \in JobRow /\ RowInv(job[j], issued[j]) /\ issued[j] \in Nat
      /\ job[j].state = "queued" /\ job[j].attemptCount < job[j].maxAttempts
      /\ \A d \in deps[j] : job[d].state \in Satisfied
  BY DEF IInv, TypeOK, RowsInv, Claim, Runnable
<1>2. /\ job' = [job EXCEPT ![j] = s] /\ deps' = deps
      /\ issued' = [issued EXCEPT ![j] = issued[j] + 1]
  BY DEF Claim
<1>3. s \in JobRow
  <2>1. Released(job[j]) \in JobRow
    BY <1>1 DEF JobRow, Released, Unleased, NoLease
  <2>2. "running" \in States /\ issued[j] + 1 \in Nat /\ job[j].attemptCount + 1 \in Nat
    BY <1>1 DEF JobRow, States
  <2> HIDE <1>1
  <2>3. QED
    BY <2>1, <2>2 DEF JobRow
<1>4. RowInv(s, issued[j] + 1)
  BY <1>1 DEF RowInv, JobRow, Released, Unleased, NoLease, NoClaim
<1>5. /\ s.state = "running" /\ s.checkpoint = job[j].checkpoint
      /\ s.queueOrder = job[j].queueOrder
  BY <1>1 DEF JobRow, Released, Unleased
<1> HIDE DEF s
<1>6. TypeOK'
  BY <1>1, <1>2, <1>3 DEF IInv, TypeOK
<1>7. RowsInv'
  BY <1>2, <1>4 DEF IInv, TypeOK, RowsInv
<1>8. AbsentHaveNoDeps' /\ DependenciesExist'
  BY <1>2, <1>5 DEF IInv, TypeOK, AbsentHaveNoDeps, DependenciesExist, Enqueued
<1>9. StartedAfterPrerequisites'
  <2> SUFFICES ASSUME NEW k \in Jobs, issued'[k] > 0, NEW d \in deps[k]
               PROVE  job'[d].state \in Satisfied
    BY <1>2 DEF StartedAfterPrerequisites
  <2>1. d \in Jobs /\ job[d].state \in Satisfied
    BY <1>1, <1>2 DEF IInv, TypeOK, StartedAfterPrerequisites
  <2>2. d # j
    BY <1>1, <2>1 DEF Satisfied
  <2>3. QED
    BY <1>2, <2>1, <2>2 DEF IInv, TypeOK
<1>10. AcyclicDependencies'
  BY <1>2 DEF IInv, AcyclicDependencies
<1>11. job'[j] = s /\ \A k \in Jobs \ {j} : job'[k] = job[k]
  BY <1>2 DEF IInv, TypeOK
<1>12. \A k \in Jobs : Moved(job[k], job'[k])
  <2>1. Moved(job[j], s)
    BY <1>1, <1>5 DEF Moved, Move, JobRow
  <2>2. QED
    BY <1>11, <2>1, NothingMoves DEF IInv, TypeOK
<1>13. PlacesInv'
  <2>1. Enqueued' = Enqueued /\ \A k \in Jobs : job'[k].queueOrder = job[k].queueOrder
    BY <1>1, <1>5, <1>11 DEF Enqueued
  <2>2. QED
    BY <2>1 DEF IInv, PlacesInv, Enqueued
<1>14. QED
  BY <1>6, <1>7, <1>8, <1>9, <1>10, <1>12, <1>13 DEF IInv

\* Nothing else does.
LEMMA TokensDrawn ==
  ASSUME EngineNext
  PROVE  issued' = issued \/ \E j \in Jobs : Claim(j)
<1>1. CASE EnqueueStep
  BY <1>1 DEF EnqueueStep, Enqueue
<1>2. CASE ClaimNext
  BY <1>2 DEF ClaimNext
<1>3. CASE \E j \in Jobs : \E t \in 1 .. issued[j] : WorkerStep(j, t)
  BY <1>3 DEF WorkerStep, Heartbeat, Complete, Fail, Checkpoint, Wait, AcknowledgePause,
              AcknowledgeCancel, Update
<1>4. CASE \E j \in Jobs : ControlStep(j)
  BY <1>4 DEF ControlStep, AddDependency, RequestPause, RequestCancel, Resume, Retry, Skip,
              SetPriority, Update
<1>5. QED
  BY <1>1, <1>2, <1>3, <1>4 DEF EngineNext

(***************************************************************************)
(* The theorems                                                            *)
(***************************************************************************)

\* No operation of the engine breaks the inductive invariant, loses a checkpoint or
\* leaves the life cycle.
LEMMA EngineKeeps ==
  ASSUME IInv, EngineNext
  PROVE  IInv' /\ \A k \in Jobs : Moved(job[k], job'[k])
<1>1. CASE EnqueueStep
  BY <1>1, EnqueueKeeps DEF EnqueueStep
<1>2. CASE ClaimNext
  BY <1>2, ClaimKeeps DEF ClaimNext
<1>3. CASE \E j \in Jobs : \E t \in 1 .. issued[j] : WorkerStep(j, t)
  BY <1>3, WorkerStepKeeps
<1>4. CASE \E j \in Jobs : ControlStep(j)
  <2> PICK j \in Jobs : ControlStep(j)
    BY <1>4
  <2>1. CASE \E d \in Jobs : AddDependency(j, d)
    BY <2>1, AddDependencyKeeps
  <2>2. CASE ~ \E d \in Jobs : AddDependency(j, d)
    BY <2>2, ControlUpdateKeeps DEF ControlStep
  <2>3. QED
    BY <2>1, <2>2
<1>5. QED
  BY <1>1, <1>2, <1>3, <1>4 DEF EngineNext

LEMMA InitIInv == Init => IInv
<1> SUFFICES ASSUME Init PROVE IInv
  OBVIOUS
<1>1. AbsentRow \in JobRow /\ RowInv(AbsentRow, 0)
  BY AbsentRowType DEF RowInv, AbsentRow, NoLease, NoClaim
<1>2. TypeOK /\ RowsInv
  BY <1>1 DEF Init, TypeOK, RowsInv
<1>3. /\ AbsentHaveNoDeps /\ DependenciesExist /\ PlacesInv
      /\ StartedAfterPrerequisites /\ AcyclicDependencies
  BY AbsentRowType DEF Init, AbsentHaveNoDeps, DependenciesExist, StartedAfterPrerequisites,
                       AcyclicDependencies, PlacesInv, Enqueued
<1>4. QED
  BY <1>2, <1>3 DEF IInv

LEMMA NextIInv ==
  ASSUME IInv, [Next]_vars
  PROVE  IInv' /\ \A k \in Jobs : Moved(job[k], job'[k])
<1>1. CASE EngineNext
  BY <1>1, EngineKeeps
<1>2. CASE \E j \in Jobs : ClockStep(j)
  BY <1>2, ClockStepKeeps
<1>3. CASE UNCHANGED vars
  <2>1. IInv'
    BY <1>3 DEF vars, IInv, TypeOK, RowsInv, AbsentHaveNoDeps, DependenciesExist, Enqueued,
                PlacesInv, StartedAfterPrerequisites, AcyclicDependencies
  <2>2. QED
    BY <1>3, <2>1, NothingMoves DEF vars, IInv, TypeOK
<1>4. QED
  BY <1>1, <1>2, <1>3 DEF Next

\* The inductive invariant holds in every reachable state of the engine.
THEOREM Inductive == Spec => []IInv
<1>1. Init => IInv
  BY InitIInv
<1>2. IInv /\ [Next]_vars => IInv'
  BY NextIInv
<1>3. QED
  BY <1>1, <1>2, PTL DEF Spec

\* The rows, the edges and the tokens have their types, always.
THEOREM TypeCorrect == Spec => []TypeOK
<1>1. IInv => TypeOK
  BY DEF IInv
<1>2. QED
  BY <1>1, Inductive, PTL

\* addDependency() and enqueue() never let jobs wait for one another in a circle.
THEOREM NeverCyclic == Spec => []AcyclicDependencies
<1>1. IInv => AcyclicDependencies
  BY DEF IInv
<1>2. QED
  BY <1>1, Inductive, PTL

\* A job that was ever claimed has its prerequisites settled for good.
THEOREM PrerequisitesHold == Spec => []StartedAfterPrerequisites
<1>1. IInv => StartedAfterPrerequisites
  BY DEF IInv
<1>2. QED
  BY <1>1, Inductive, PTL

\* A lease belongs to the latest claim, and a result is the latest claim's: what
\* #requireLease is for.
THEOREM LeasesFence == Spec => [](LeaseIsLatestClaim /\ ResultFromLatestClaim)
<1>1. IInv => LeaseIsLatestClaim /\ ResultFromLatestClaim
  BY DEF IInv, RowsInv, RowInv, LeaseIsLatestClaim, ResultFromLatestClaim
<1>2. QED
  BY <1>1, Inductive, PTL

\* Claims never exceed the budget: what the attempt counter of claimNext() is for.
THEOREM BudgetsHold == Spec => []AttemptsWithinBudget
<1>1. IInv => AttemptsWithinBudget
  BY DEF IInv, RowsInv, RowInv, AttemptsWithinBudget
<1>2. QED
  BY <1>1, Inductive, PTL

\* A request flag never outlives the claim it was addressed to, but for
\* cancel_requested on a row that was paused.
THEOREM RequestsAreNotInherited == Spec => []RequestsNotInherited
<1>1. IInv => RequestsNotInherited
  BY DEF IInv, RowsInv, RowInv, RequestsNotInherited
<1>2. QED
  BY <1>1, Inductive, PTL

\* No step of any caller, stale worker included, loses or rewinds a checkpoint.
THEOREM CheckpointsKept == Spec => CheckpointsNeverRegress
<1>1. IInv /\ [Next]_vars => [\A j \in Jobs : job'[j].checkpoint >= job[j].checkpoint]_vars
  BY NextIInv DEF Moved
<1>2. QED
  BY <1>1, Inductive, PTL DEF Spec, CheckpointsNeverRegress

\* A job goes through its states as the architecture document draws them, whoever calls
\* what: completed, cancelled and skipped are final, and nothing but a claim and the
\* worker's own operations leads into and out of "running".  Its place in the queue is
\* given once.
THEOREM LifeCycle ==
  Spec => [][\A j \in Jobs :
               /\ Move(job[j].state, job'[j].state)
               /\ job[j].state # "absent" => job'[j].queueOrder = job[j].queueOrder]_vars
<1>1. IInv /\ [Next]_vars =>
        [\A j \in Jobs :
           /\ Move(job[j].state, job'[j].state)
           /\ job[j].state # "absent" => job'[j].queueOrder = job[j].queueOrder]_vars
  BY NextIInv DEF Moved
<1>2. QED
  BY <1>1, Inductive, PTL DEF Spec

\* The job the claim query puts first
First(j) == Runnable(j) /\ \A k \in Jobs : Runnable(k) => Precedes(j, k)

\* claimNext() has no choice: MAX(queue_order) + 1 never gives two jobs one place, so the
\* order of the claim query leaves no tie.
THEOREM ClaimIsDetermined == Spec => [](\A j, k \in Jobs : First(j) /\ First(k) => j = k)
<1>1. ASSUME IInv, NEW j \in Jobs, NEW k \in Jobs, First(j), First(k)
      PROVE  j = k
  <2>1. /\ job[j].priority \in Int /\ job[k].priority \in Int
        /\ job[j].queueOrder \in Nat /\ job[k].queueOrder \in Nat
    BY <1>1 DEF IInv, TypeOK, JobRow
  <2>2. job[j].queueOrder = job[k].queueOrder
    BY <1>1, <2>1 DEF First, Precedes
  <2>3. j \in Enqueued /\ k \in Enqueued
    BY <1>1 DEF First, Runnable, Enqueued
  <2>4. QED
    BY <1>1, <2>2, <2>3 DEF IInv, PlacesInv
<1>2. IInv => \A j, k \in Jobs : First(j) /\ First(k) => j = k
  BY <1>1
<1>3. QED
  BY <1>2, Inductive, PTL

(***************************************************************************)
(* The engine implements WorkQueue: every transaction is a step of the     *)
(* abstract queue, or leaves it as it was.                                 *)
(***************************************************************************)
phaseBar == [j \in Jobs |-> PhaseOf(job[j].state)]
progressBar == [j \in Jobs |-> job[j].checkpoint]
authorBar == [j \in Jobs |-> job[j].result]

\* An UPDATE of one row, as the abstract queue sees it.
LEMMA UpdateBars ==
  ASSUME TypeOK, NEW j \in Jobs, NEW r, Update(j, r)
  PROVE  /\ phaseBar' = [phaseBar EXCEPT ![j] = PhaseOf(r.state)]
         /\ progressBar' = [progressBar EXCEPT ![j] = r.checkpoint]
         /\ authorBar' = [authorBar EXCEPT ![j] = r.result]
         /\ issued' = issued /\ deps' = deps
<1>1. job \in [Jobs -> JobRow] /\ job' = [job EXCEPT ![j] = r]
  BY DEF TypeOK, Update
<1>2. job'[j] = r /\ \A k \in Jobs \ {j} : job'[k] = job[k]
  BY <1>1
<1>3. phaseBar' = [phaseBar EXCEPT ![j] = PhaseOf(r.state)]
  BY <1>2 DEF phaseBar
<1>4. progressBar' = [progressBar EXCEPT ![j] = r.checkpoint]
  BY <1>2 DEF progressBar
<1>5. authorBar' = [authorBar EXCEPT ![j] = r.result]
  BY <1>2 DEF authorBar
<1>6. QED
  BY <1>3, <1>4, <1>5 DEF Update

\* An UPDATE that keeps checkpoint and result moves the abstract phase only.
LEMMA PhaseOnly ==
  ASSUME TypeOK, NEW j \in Jobs, NEW r, Update(j, r),
         r.checkpoint = job[j].checkpoint, r.result = job[j].result
  PROVE  /\ phaseBar' = [phaseBar EXCEPT ![j] = PhaseOf(r.state)]
         /\ progressBar' = progressBar /\ authorBar' = authorBar
         /\ issued' = issued /\ deps' = deps
<1>1. /\ phaseBar' = [phaseBar EXCEPT ![j] = PhaseOf(r.state)]
      /\ progressBar' = [progressBar EXCEPT ![j] = r.checkpoint]
      /\ authorBar' = [authorBar EXCEPT ![j] = r.result]
      /\ issued' = issued /\ deps' = deps
  BY UpdateBars
<1>2. progressBar[j] = r.checkpoint /\ authorBar[j] = r.result
  BY DEF progressBar, authorBar
<1>3. progressBar' = progressBar
  BY <1>1, <1>2 DEF progressBar
<1>4. authorBar' = authorBar
  BY <1>1, <1>2 DEF authorBar
<1>5. QED
  BY <1>1, <1>3, <1>4

LEMMA PhaseValues ==
  /\ PhaseOf("absent") = "unborn" /\ PhaseOf("running") = "owned"
  /\ \A st \in Satisfied : PhaseOf(st) = "delivered"
  /\ PhaseOf("failed") = "abandoned" /\ PhaseOf("cancelled") = "abandoned"
  /\ \A st \in {"queued"} \cup Held : PhaseOf(st) = "idle"
  /\ \A st \in States : PhaseOf(st) = "unborn" <=> st = "absent"
BY DEF PhaseOf, Satisfied, Held, States, Terminal

\* The worker's operations: progress, delivery, or losing the job.
LEMMA WorkerRefines ==
  ASSUME IInv, NEW j \in Jobs, NEW t \in 1 .. issued[j], WorkerStep(j, t)
  PROVE  Queue!Next \/ UNCHANGED Queue!queueVars
<1>0. /\ TypeOK /\ job[j] \in JobRow
      /\ RequireLease(j, t) => t = issued[j] /\ job[j].result = NoClaim
  BY DEF IInv, TypeOK, RowsInv, RowInv, RequireLease
<1>1. ASSUME NEW r, Update(j, r), job[j].state = "running",
             r.checkpoint = job[j].checkpoint, r.result = job[j].result,
             PhaseOf(r.state) \in {"idle", "abandoned"}
      PROVE  Queue!Next
  <2>1. /\ phaseBar' = [phaseBar EXCEPT ![j] = PhaseOf(r.state)]
        /\ progressBar' = progressBar /\ authorBar' = authorBar
        /\ issued' = issued /\ deps' = deps
    BY <1>0, <1>1, PhaseOnly
  <2>2. phaseBar[j] = "owned"
    BY <1>1, PhaseValues DEF phaseBar
  <2>3. Queue!Interrupt({j})
    BY <1>1, <2>1, <2>2 DEF Queue!Interrupt, phaseBar, progressBar, authorBar
  <2>4. QED
    BY <2>3 DEF Queue!Next
<1>2. CASE Heartbeat(j, t)
  <2> DEFINE r == [job[j] EXCEPT !.leaseExpired = FALSE]
  <2>1. Update(j, r) /\ r.checkpoint = job[j].checkpoint /\ r.result = job[j].result
        /\ r.state = job[j].state
    BY <1>0, <1>2 DEF Heartbeat, JobRow
  <2> HIDE DEF r
  <2>2. /\ phaseBar' = [phaseBar EXCEPT ![j] = PhaseOf(r.state)]
        /\ progressBar' = progressBar /\ authorBar' = authorBar
        /\ issued' = issued /\ deps' = deps
    BY <1>0, <2>1, PhaseOnly
  <2>3. phaseBar' = phaseBar
    BY <2>1, <2>2 DEF phaseBar
  <2>4. QED
    BY <2>2, <2>3 DEF Queue!queueVars, phaseBar, progressBar, authorBar
<1>3. CASE Complete(j, t)
  <2> DEFINE r == [Released(job[j]) EXCEPT !.state = "completed", !.result = t]
  <2>1. Update(j, r) /\ job[j].state = "running" /\ t = issued[j]
    BY <1>0, <1>3 DEF Complete, RequireLease
  <2>2. r.state = "completed" /\ r.checkpoint = job[j].checkpoint /\ r.result = t
    BY <1>0 DEF JobRow, Released, Unleased
  <2> HIDE DEF r
  <2>3. /\ phaseBar' = [phaseBar EXCEPT ![j] = "delivered"]
        /\ progressBar' = [progressBar EXCEPT ![j] = job[j].checkpoint]
        /\ authorBar' = [authorBar EXCEPT ![j] = issued[j]]
        /\ issued' = issued /\ deps' = deps
    BY <1>0, <2>1, <2>2, UpdateBars, PhaseValues DEF Satisfied
  <2>4. progressBar' = progressBar /\ phaseBar[j] = "owned"
    BY <2>1, <2>3, PhaseValues DEF progressBar, phaseBar
  <2>5. Queue!Deliver(j)
    BY <2>3, <2>4 DEF Queue!Deliver, phaseBar, progressBar, authorBar
  <2>6. QED
    BY <2>5 DEF Queue!Next
<1>4. CASE Checkpoint(j, t)
  <2> DEFINE r == [Released(job[j]) EXCEPT !.state = "checkpointed", !.checkpoint = t]
  <2>1. Update(j, r) /\ job[j].state = "running" /\ t = issued[j]
    BY <1>0, <1>4 DEF Checkpoint, RequireLease
  <2>2. r.state = "checkpointed" /\ r.checkpoint = t /\ r.result = job[j].result
    BY <1>0 DEF JobRow, Released, Unleased
  <2> HIDE DEF r
  <2>3. /\ phaseBar' = [phaseBar EXCEPT ![j] = "idle"]
        /\ progressBar' = [progressBar EXCEPT ![j] = issued[j]]
        /\ authorBar' = [authorBar EXCEPT ![j] = job[j].result]
        /\ issued' = issued /\ deps' = deps
    BY <1>0, <2>1, <2>2, UpdateBars, PhaseValues DEF Held
  <2>4. authorBar' = authorBar /\ phaseBar[j] = "owned"
    BY <2>1, <2>3, PhaseValues DEF authorBar, phaseBar
  <2>5. Queue!SaveProgress(j)
    BY <2>3, <2>4 DEF Queue!SaveProgress, phaseBar, progressBar, authorBar
  <2>6. QED
    BY <2>5 DEF Queue!Next
<1>5. CASE Fail(j, t)
  <2> DEFINE r == [Released(job[j]) EXCEPT !.state = "failed", !.result = NoClaim]
  <2>1. /\ Update(j, r) /\ job[j].state = "running" /\ job[j].result = NoClaim
        /\ r.state = "failed" /\ r.checkpoint = job[j].checkpoint /\ r.result = NoClaim
    BY <1>0, <1>5 DEF Fail, RequireLease, JobRow, Released, Unleased
  <2> HIDE DEF r
  <2>2. QED
    BY <1>1, <2>1, PhaseValues
<1>6. CASE \E available \in BOOLEAN : Wait(j, t, available)
  <2> PICK available \in BOOLEAN : Wait(j, t, available)
    BY <1>6
  <2> DEFINE r == [Released(job[j]) EXCEPT !.state = "waiting", !.available = available]
  <2>1. /\ Update(j, r) /\ job[j].state = "running"
        /\ r.state = "waiting" /\ r.checkpoint = job[j].checkpoint
        /\ r.result = job[j].result
    BY <1>0 DEF Wait, RequireLease, JobRow, Released, Unleased
  <2> HIDE DEF r
  <2>2. QED
    BY <1>1, <2>1, PhaseValues DEF Held
<1>7. CASE AcknowledgePause(j, t)
  <2> DEFINE r == [Unleased(job[j]) EXCEPT !.state = "paused", !.pauseRequested = FALSE]
  <2>1. /\ Update(j, r) /\ job[j].state = "running"
        /\ r.state = "paused" /\ r.checkpoint = job[j].checkpoint
        /\ r.result = job[j].result
    BY <1>0, <1>7 DEF AcknowledgePause, RequireLease, JobRow, Unleased
  <2> HIDE DEF r
  <2>2. QED
    BY <1>1, <2>1, PhaseValues DEF Held
<1>8. CASE AcknowledgeCancel(j, t)
  <2> DEFINE r == [Released(job[j]) EXCEPT !.state = "cancelled"]
  <2>1. /\ Update(j, r) /\ job[j].state = "running"
        /\ r.state = "cancelled" /\ r.checkpoint = job[j].checkpoint
        /\ r.result = job[j].result
    BY <1>0, <1>8 DEF AcknowledgeCancel, RequireLease, JobRow, Released, Unleased
  <2> HIDE DEF r
  <2>2. QED
    BY <1>1, <2>1, PhaseValues
<1>9. QED
  BY <1>2, <1>3, <1>4, <1>5, <1>6, <1>7, <1>8 DEF WorkerStep

\* A caller's operation on one row: it moves the abstract phase, or nothing.
LEMMA ControlRefines ==
  ASSUME IInv, NEW j \in Jobs, ControlStep(j), \A d \in Jobs : ~AddDependency(j, d)
  PROVE  Queue!Next \/ UNCHANGED Queue!queueVars
<1>0. TypeOK /\ job[j] \in JobRow
  BY DEF IInv, TypeOK
<1>1. PICK r : /\ Update(j, r)
               /\ r.checkpoint = job[j].checkpoint /\ r.result = job[j].result
               /\ \/ r.state = job[j].state
                  \/ job[j].state = "failed" /\ r.state = "queued"
                  \/ /\ job[j].state \in {"queued"} \cup Held
                     /\ r.state \in {"queued", "paused", "cancelled", "skipped"}
  <2> USE <1>0 DEF JobRow, Released, Unleased, Held
  <2>1. CASE RequestPause(j)
    <3> DEFINE r == IF job[j].state = "running"
                    THEN [job[j] EXCEPT !.pauseRequested = TRUE]
                    ELSE [Unleased(job[j]) EXCEPT !.state = "paused", !.pauseRequested = FALSE]
    <3>1. Update(j, r)
      BY <2>1 DEF RequestPause
    <3>2. r.checkpoint = job[j].checkpoint /\ r.result = job[j].result
      OBVIOUS
    <3>3. \/ r.state = job[j].state
          \/ job[j].state \in {"queued"} \cup Held /\ r.state = "paused"
      BY <2>1 DEF RequestPause
    <3> HIDE DEF r
    <3>4. QED
      BY <3>1, <3>2, <3>3
  <2>2. CASE RequestCancel(j)
    <3> DEFINE r == IF job[j].state = "running"
                    THEN [job[j] EXCEPT !.cancelRequested = TRUE]
                    ELSE [Released(job[j]) EXCEPT !.state = "cancelled"]
    <3>1. Update(j, r)
      BY <2>2 DEF RequestCancel
    <3>2. r.checkpoint = job[j].checkpoint /\ r.result = job[j].result
      OBVIOUS
    <3>3. \/ r.state = job[j].state
          \/ job[j].state \in {"queued"} \cup Held /\ r.state = "cancelled"
      BY <2>2 DEF RequestCancel
    <3> HIDE DEF r
    <3>4. QED
      BY <3>1, <3>2, <3>3
  <2>3. CASE \E available \in BOOLEAN : Resume(j, available)
    <3> PICK available \in BOOLEAN : Resume(j, available)
      BY <2>3
    <3> DEFINE r == [Released(job[j]) EXCEPT !.state = "queued", !.available = available]
    <3>1. Update(j, r) /\ job[j].state \in Held
      BY DEF Resume
    <3>2. r.checkpoint = job[j].checkpoint /\ r.result = job[j].result /\ r.state = "queued"
      OBVIOUS
    <3> HIDE DEF r
    <3>3. QED
      BY <3>1, <3>2
  <2>4. CASE \E available \in BOOLEAN : Retry(j, available)
    <3> PICK available \in BOOLEAN : Retry(j, available)
      BY <2>4
    <3> DEFINE r == [Released(job[j]) EXCEPT !.state = "queued", !.available = available]
    <3>1. Update(j, r) /\ job[j].state = "failed"
      BY DEF Retry
    <3>2. r.checkpoint = job[j].checkpoint /\ r.result = job[j].result /\ r.state = "queued"
      OBVIOUS
    <3> HIDE DEF r
    <3>3. QED
      BY <3>1, <3>2
  <2>5. CASE Skip(j)
    <3> DEFINE r == [Released(job[j]) EXCEPT !.state = "skipped"]
    <3>1. Update(j, r) /\ job[j].state \in {"queued"} \cup Held
      BY <2>5 DEF Skip
    <3>2. r.checkpoint = job[j].checkpoint /\ r.result = job[j].result /\ r.state = "skipped"
      OBVIOUS
    <3> HIDE DEF r
    <3>3. QED
      BY <3>1, <3>2
  <2>6. CASE \E priority \in Priorities : SetPriority(j, priority)
    <3> PICK priority \in Priorities : SetPriority(j, priority)
      BY <2>6
    <3> DEFINE r == [job[j] EXCEPT !.priority = priority]
    <3>1. Update(j, r)
      BY DEF SetPriority
    <3>2. r.checkpoint = job[j].checkpoint /\ r.result = job[j].result /\ r.state = job[j].state
      OBVIOUS
    <3> HIDE DEF r
    <3>3. QED
      BY <3>1, <3>2
  <2>7. QED
    BY <2>1, <2>2, <2>3, <2>4, <2>5, <2>6 DEF ControlStep
<1>2. /\ phaseBar' = [phaseBar EXCEPT ![j] = PhaseOf(r.state)]
      /\ progressBar' = progressBar /\ authorBar' = authorBar
      /\ issued' = issued /\ deps' = deps
  BY <1>0, <1>1, PhaseOnly
<1>3. phaseBar[j] = PhaseOf(job[j].state)
  BY DEF phaseBar
<1>4. CASE PhaseOf(r.state) = PhaseOf(job[j].state)
  <2>1. phaseBar' = phaseBar
    BY <1>2, <1>3, <1>4 DEF phaseBar
  <2>2. QED
    BY <1>2, <2>1 DEF Queue!queueVars, phaseBar, progressBar, authorBar
<1>5. CASE job[j].state = "failed" /\ r.state = "queued"
  <2>1. Queue!Reopen(j)
    BY <1>2, <1>3, <1>5, PhaseValues DEF Queue!Reopen, phaseBar, progressBar, authorBar
  <2>2. QED
    BY <2>1 DEF Queue!Next
<1>6. CASE job[j].state \in {"queued"} \cup Held /\ r.state = "cancelled"
  <2>1. Queue!GiveUp(j)
    BY <1>2, <1>3, <1>6, PhaseValues DEF Queue!GiveUp, phaseBar, progressBar, authorBar
  <2>2. QED
    BY <2>1 DEF Queue!Next
<1>7. CASE job[j].state \in {"queued"} \cup Held /\ r.state = "skipped"
  <2>1. PhaseOf("skipped") = "delivered" /\ PhaseOf(job[j].state) = "idle"
    BY <1>7, PhaseValues DEF Satisfied
  <2>2. Queue!Bypass(j)
    BY <1>2, <1>3, <1>7, <2>1 DEF Queue!Bypass, phaseBar, progressBar, authorBar
  <2>3. QED
    BY <2>2 DEF Queue!Next
<1>8. CASE job[j].state \in {"queued"} \cup Held /\ r.state \in {"queued", "paused"}
  BY <1>4, <1>8, PhaseValues DEF Held
<1>9. QED
  BY <1>1, <1>4, <1>5, <1>6, <1>7, <1>8

\* Submitting, constraining and owning, and the clock.
LEMMA EnqueueRefines ==
  ASSUME IInv, EnqueueStep
  PROVE  Queue!Next
<1>1. PICK j \in Jobs, ps \in SUBSET Jobs, priority \in Priorities,
           budget \in AttemptBudgets, available \in BOOLEAN :
              Enqueue(j, ps, priority, budget, available)
  BY DEF EnqueueStep
<1> DEFINE s == [AbsentRow EXCEPT
                   !.state = "queued", !.priority = priority,
                   !.queueOrder = Cardinality(Enqueued) + 1,
                   !.available = available, !.maxAttempts = budget]
<1>2. /\ job' = [job EXCEPT ![j] = s] /\ deps' = [deps EXCEPT ![j] = ps]
      /\ issued' = issued /\ job[j].state = "absent" /\ ps \subseteq Enqueued
  BY <1>1 DEF Enqueue
<1>3. /\ s.state = "queued" /\ s.checkpoint = AbsentRow.checkpoint
      /\ s.result = AbsentRow.result
  BY DEF AbsentRow
<1> HIDE DEF s
<1>4. job[j] = AbsentRow /\ job \in [Jobs -> JobRow]
  BY <1>2 DEF IInv, RowsInv, RowInv, TypeOK
<1>5. job'[j] = s /\ \A k \in Jobs \ {j} : job'[k] = job[k]
  BY <1>2, <1>4
<1>6. progressBar' = progressBar /\ authorBar' = authorBar
  BY <1>3, <1>4, <1>5 DEF progressBar, authorBar
<1>7. phaseBar[j] = "unborn" /\ phaseBar' = [phaseBar EXCEPT ![j] = "idle"]
  <2>1. PhaseOf(job[j].state) = "unborn" /\ PhaseOf(s.state) = "idle"
    BY <1>2, <1>3, PhaseValues DEF Held
  <2>2. QED
    BY <2>1, <1>5 DEF phaseBar
<1>8. ps \subseteq Queue!Born
  BY <1>2, <1>4, PhaseValues DEF Queue!Born, Enqueued, JobRow
<1>9. Queue!Submit(j, ps)
  BY <1>2, <1>6, <1>7, <1>8 DEF Queue!Submit, phaseBar, progressBar, authorBar
<1>10. QED
  BY <1>9 DEF Queue!Next

LEMMA AddDependencyRefines ==
  ASSUME IInv, NEW j \in Jobs, NEW d \in Jobs, AddDependency(j, d)
  PROVE  Queue!Next
<1>1. /\ job' = job /\ issued' = issued
      /\ deps' = [deps EXCEPT ![j] = deps[j] \cup {d}]
      /\ job[j].state = "queued" /\ issued[j] = 0 /\ job[d].state # "absent"
  BY DEF AddDependency, IInv, TypeOK, RowsInv, RowInv
<1>2. /\ phaseBar' = phaseBar /\ progressBar' = progressBar /\ authorBar' = authorBar
  BY <1>1 DEF phaseBar, progressBar, authorBar
<1>3. phaseBar[j] = "idle"
  BY <1>1, PhaseValues DEF phaseBar
<1>4. d \in Queue!Born
  BY <1>1, PhaseValues DEF Queue!Born, IInv, TypeOK, JobRow
<1>5. Queue!Acyclic(deps')
  BY AddDependencyAcyclic DEF Queue!Acyclic, AcyclicDependencies
<1>6. Queue!Constrain(j, d)
  BY <1>1, <1>2, <1>3, <1>4, <1>5 DEF Queue!Constrain, phaseBar, progressBar, authorBar
<1>7. QED
  BY <1>6 DEF Queue!Next

LEMMA ClaimRefines ==
  ASSUME IInv, NEW j \in Jobs, Claim(j)
  PROVE  Queue!Next
<1> DEFINE s == [Released(job[j]) EXCEPT
                   !.state = "running", !.leaseToken = issued[j] + 1,
                   !.attemptCount = job[j].attemptCount + 1]
<1>1. /\ job' = [job EXCEPT ![j] = s] /\ deps' = deps
      /\ issued' = [issued EXCEPT ![j] = issued[j] + 1]
      /\ job[j].state = "queued" /\ \A d \in deps[j] : job[d].state \in Satisfied
  BY DEF Claim, Runnable
<1>2. job \in [Jobs -> JobRow] /\ deps \in [Jobs -> SUBSET Jobs]
  BY DEF IInv, TypeOK
<1>3. s.state = "running" /\ s.checkpoint = job[j].checkpoint /\ s.result = job[j].result
  BY <1>2 DEF JobRow, Released, Unleased
<1> HIDE DEF s
<1>4. job'[j] = s /\ \A k \in Jobs \ {j} : job'[k] = job[k]
  BY <1>1, <1>2
<1>5. progressBar' = progressBar /\ authorBar' = authorBar
  BY <1>3, <1>4 DEF progressBar, authorBar
<1>6. phaseBar[j] = "idle" /\ phaseBar' = [phaseBar EXCEPT ![j] = "owned"]
  <2>1. PhaseOf(job[j].state) = "idle" /\ PhaseOf(s.state) = "owned"
    BY <1>1, <1>3, PhaseValues DEF Held
  <2>2. QED
    BY <2>1, <1>4 DEF phaseBar
<1>7. \A d \in deps[j] : phaseBar[d] = "delivered"
  BY <1>1, <1>2, PhaseValues DEF phaseBar
<1>8. Queue!Own(j)
  BY <1>1, <1>5, <1>6, <1>7 DEF Queue!Own, phaseBar, progressBar, authorBar
<1>9. QED
  BY <1>8 DEF Queue!Next

LEMMA ClockRefines ==
  ASSUME IInv, NEW j \in Jobs, ClockStep(j)
  PROVE  UNCHANGED Queue!queueVars
<1>0. TypeOK /\ job[j] \in JobRow
  BY DEF IInv, TypeOK
<1>1. PICK r : /\ Update(j, r) /\ r.checkpoint = job[j].checkpoint
               /\ r.result = job[j].result /\ r.state = job[j].state
  <2>1. CASE BecomeAvailable(j)
    <3> DEFINE r == [job[j] EXCEPT !.available = TRUE]
    <3>1. /\ Update(j, r) /\ r.checkpoint = job[j].checkpoint
          /\ r.result = job[j].result /\ r.state = job[j].state
      BY <1>0, <2>1 DEF BecomeAvailable, JobRow
    <3>2. QED
      BY <3>1
  <2>2. CASE LeaseExpires(j)
    <3> DEFINE r == [job[j] EXCEPT !.leaseExpired = TRUE]
    <3>1. /\ Update(j, r) /\ r.checkpoint = job[j].checkpoint
          /\ r.result = job[j].result /\ r.state = job[j].state
      BY <1>0, <2>2 DEF LeaseExpires, JobRow
    <3>2. QED
      BY <3>1
  <2>3. QED
    BY <2>1, <2>2 DEF ClockStep
<1>2. /\ phaseBar' = [phaseBar EXCEPT ![j] = PhaseOf(r.state)]
      /\ progressBar' = progressBar /\ authorBar' = authorBar
      /\ issued' = issued /\ deps' = deps
  BY <1>0, <1>1, PhaseOnly
<1>3. phaseBar' = phaseBar
  BY <1>1, <1>2 DEF phaseBar
<1>4. QED
  BY <1>2, <1>3 DEF Queue!queueVars, phaseBar, progressBar, authorBar

\* Every transaction of the engine is a step of the abstract queue or none.
LEMMA EngineRefines ==
  ASSUME IInv, EngineNext
  PROVE  Queue!Next \/ UNCHANGED Queue!queueVars
<1>1. CASE EnqueueStep
  BY <1>1, EnqueueRefines
<1>2. CASE ClaimNext
  BY <1>2, ClaimRefines DEF ClaimNext
<1>3. CASE \E j \in Jobs : \E t \in 1 .. issued[j] : WorkerStep(j, t)
  BY <1>3, WorkerRefines
<1>4. CASE \E j \in Jobs : ControlStep(j)
  <2> PICK j \in Jobs : ControlStep(j)
    BY <1>4
  <2>1. CASE \E d \in Jobs : AddDependency(j, d)
    BY <2>1, AddDependencyRefines
  <2>2. CASE ~ \E d \in Jobs : AddDependency(j, d)
    BY <2>2, ControlRefines
  <2>3. QED
    BY <2>1, <2>2
<1>5. QED
  BY <1>1, <1>2, <1>3, <1>4 DEF EngineNext

LEMMA InitRefines == Init => Queue!Init
<1>1. AbsentRow.state = "absent" /\ AbsentRow.checkpoint = 0 /\ AbsentRow.result = 0
  BY DEF AbsentRow, NoClaim
<1>2. QED
  BY <1>1, PhaseValues DEF Init, Queue!Init

\* The engine implements the abstract work queue.
THEOREM Refinement == Spec => ImplementsWorkQueue
<1>1. Init => Queue!Init
  BY InitRefines
<1>2. IInv /\ [Next]_vars => [Queue!Next]_Queue!queueVars
  <2> SUFFICES ASSUME IInv, [Next]_vars
               PROVE  Queue!Next \/ UNCHANGED Queue!queueVars
    OBVIOUS
  <2>1. CASE EngineNext
    BY <2>1, EngineRefines
  <2>2. CASE \E j \in Jobs : ClockStep(j)
    BY <2>2, ClockRefines
  <2>3. CASE UNCHANGED vars
    BY <2>3 DEF vars, Queue!queueVars
  <2>4. QED
    BY <2>1, <2>2, <2>3 DEF Next
<1>3. QED
  BY <1>1, <1>2, Inductive, PTL DEF Spec, Queue!Spec, ImplementsWorkQueue

(***************************************************************************)
(* Recovery: its transaction is one more step of the abstract queue        *)
(***************************************************************************)
LEMMA RecoveredRow ==
  ASSUME NEW r \in JobRow, NEW n \in Nat, RowInv(r, n), r.state = "running"
  PROVE  /\ RowStep(r, Recovered(r), n)
         /\ Recovered(r).state \in {"cancelled", "paused", "queued", "failed"}
         /\ Recovered(r).checkpoint = r.checkpoint /\ Recovered(r).result = r.result
<1> DEFINE s == Recovered(r)
<1> USE DEF Recovered, Released, Unleased, JobRow, States, Held, Terminal, NoLease, NoClaim
<1>1. s \in JobRow
  OBVIOUS
<1>2. /\ s.state \in {"cancelled", "paused", "queued", "failed"}
      /\ s.checkpoint = r.checkpoint /\ s.result = r.result
  OBVIOUS
<1>3. RowInv(s, n)
  BY DEF RowInv
<1>4. r.state \notin Satisfied \cup {"absent"} /\ s.state # "absent" /\ s.queueOrder = r.queueOrder
  BY <1>2 DEF Satisfied
<1> HIDE DEF s
<1>5. QED
  BY <1>1, <1>2, <1>3, <1>4 DEF RowStep, s

LEMMA RecoverKeeps ==
  ASSUME IInv, NEW rows \in SUBSET Running, Recover(rows)
  PROVE  /\ IInv'
         /\ \A j \in Jobs : /\ job'[j].checkpoint = job[j].checkpoint
                             /\ job'[j].queueOrder = job[j].queueOrder
                             /\ \/ job'[j].state = job[j].state
                                \/ /\ job[j].state = "running"
                                   /\ job'[j].state \in {"cancelled", "paused", "queued", "failed"}
<1> DEFINE after == [j \in Jobs |-> IF j \in rows THEN Recovered(job[j]) ELSE job[j]]
<1>1. \A j \in Jobs : /\ job[j] \in JobRow /\ RowInv(job[j], issued[j])
                      /\ issued[j] \in Nat
  BY DEF IInv, TypeOK, RowsInv, JobRow
<1>2. \A j \in Jobs : RowStep(job[j], after[j], issued[j])
  <2> TAKE j \in Jobs
  <2>1. CASE j \in rows
    BY <2>1, <1>1, RecoveredRow DEF Running
  <2>2. CASE j \notin rows
    BY <2>2, <1>1 DEF RowStep
  <2>3. QED
    BY <2>1, <2>2
<1>3. after \in [Jobs -> JobRow]
  BY <1>2 DEF RowStep
<1>4. job' = after /\ UNCHANGED <<deps, issued>>
  BY DEF Recover
<1>5. \A j \in Jobs : /\ after[j].checkpoint = job[j].checkpoint
                      /\ after[j].queueOrder = job[j].queueOrder
                      /\ \/ after[j].state = job[j].state
                         \/ /\ job[j].state = "running"
                            /\ after[j].state \in {"cancelled", "paused", "queued", "failed"}
  BY <1>1, <1>2, RecoveredRow DEF Running, RowStep
<1> HIDE DEF after
<1>6. QED
  BY <1>2, <1>3, <1>4, <1>5, RowsStep

LEMMA RecoverRefines ==
  ASSUME IInv, NEW rows \in SUBSET Running, Recover(rows)
  PROVE  Queue!Next
<1>1. /\ job' = [j \in Jobs |-> IF j \in rows THEN Recovered(job[j]) ELSE job[j]]
      /\ deps' = deps /\ issued' = issued
  BY DEF Recover
<1>2. \A j \in Jobs : /\ job[j] \in JobRow /\ RowInv(job[j], issued[j]) /\ issued[j] \in Nat
  BY DEF IInv, TypeOK, RowsInv
<1>3. \A j \in rows : /\ j \in Jobs /\ job[j].state = "running"
                      /\ job'[j].state \in {"cancelled", "paused", "queued", "failed"}
                      /\ job'[j].checkpoint = job[j].checkpoint /\ job'[j].result = job[j].result
  BY <1>1, <1>2, RecoveredRow DEF Running
<1>4. \A j \in Jobs \ rows : job'[j] = job[j]
  BY <1>1
<1>5. progressBar' = progressBar /\ authorBar' = authorBar
  BY <1>3, <1>4 DEF progressBar, authorBar
<1>6. \A j \in rows : phaseBar[j] = "owned" /\ phaseBar'[j] \in {"idle", "abandoned"}
  BY <1>3, PhaseValues DEF phaseBar, Held
<1>7. \A j \in Jobs \ rows : phaseBar'[j] = phaseBar[j]
  BY <1>4 DEF phaseBar
<1>8. rows \in SUBSET Jobs /\ DOMAIN phaseBar' = Jobs
  BY DEF Running, phaseBar
<1>9. Queue!Interrupt(rows)
  BY <1>1, <1>5, <1>6, <1>7, <1>8 DEF Queue!Interrupt, phaseBar, progressBar, authorBar
<1>10. QED
  BY <1>8, <1>9 DEF Queue!Next

\* A row that runs after a step ran before it under the same claim, or was claimed by
\* that step: the abstract queue has no other way into "owned".
LEMMA RunningStays ==
  ASSUME IInv, IInv', Queue!Next \/ UNCHANGED Queue!queueVars,
         NEW j \in Jobs, job'[j].state = "running"
  PROVE  \/ job[j].state = "running" /\ issued'[j] = issued[j]
         \/ issued'[j] = issued[j] + 1
<1>1. /\ job[j].state \in States /\ issued[j] \in Nat
      /\ issued \in [Jobs -> Nat]
  BY DEF IInv, TypeOK, JobRow
<1>2. phaseBar[j] = PhaseOf(job[j].state) /\ phaseBar'[j] = "owned"
  BY PhaseValues DEF phaseBar
<1>3. phaseBar[j] = "owned" => job[j].state = "running"
  BY <1>1, <1>2 DEF PhaseOf, States, Held, Terminal, Satisfied
<1>4. DOMAIN phaseBar = Jobs
  BY DEF phaseBar
<1>5. \/ phaseBar[j] = "owned" /\ issued'[j] = issued[j]
      \/ issued'[j] = issued[j] + 1
  <2>0. /\ Queue!Next => \/ \E k \in Jobs, ps \in SUBSET Jobs : Queue!Submit(k, ps)
                         \/ \E k, d \in Jobs : Queue!Constrain(k, d)
                         \/ \E k \in Jobs : Queue!Own(k) \/ Queue!SaveProgress(k) \/ Queue!Deliver(k)
                         \/ \E S \in SUBSET Jobs : Queue!Interrupt(S)
                         \/ \E k \in Jobs : Queue!Bypass(k) \/ Queue!GiveUp(k) \/ Queue!Reopen(k)
    BY DEF Queue!Next
  <2>1. CASE \E k \in Jobs : Queue!Own(k)
    BY <2>1, <1>1, <1>2, <1>4 DEF Queue!Own, phaseBar
  <2>2. CASE \E k \in Jobs, ps \in SUBSET Jobs : Queue!Submit(k, ps)
    BY <2>2, <1>2, <1>4 DEF Queue!Submit, phaseBar
  <2>3. CASE \E k \in Jobs : \/ Queue!SaveProgress(k) \/ Queue!Deliver(k) \/ Queue!Bypass(k)
                             \/ Queue!GiveUp(k) \/ Queue!Reopen(k)
    BY <2>3, <1>2, <1>4 DEF Queue!SaveProgress, Queue!Deliver, Queue!Bypass, Queue!GiveUp,
                            Queue!Reopen, phaseBar
  <2>4. CASE \E S \in SUBSET Jobs : Queue!Interrupt(S)
    BY <2>4, <1>2, <1>4 DEF Queue!Interrupt, phaseBar
  <2>5. CASE \/ \E k, d \in Jobs : Queue!Constrain(k, d)
             \/ UNCHANGED Queue!queueVars
    BY <2>5, <1>2 DEF Queue!Constrain, Queue!queueVars, phaseBar
  <2>6. QED
    BY <2>0, <2>1, <2>2, <2>3, <2>4, <2>5
<1>6. QED
  BY <1>3, <1>5
==============================================================================
