---------------------------- MODULE CrashRecovery ----------------------------
(***************************************************************************)
(* Crash & Power Recovery (apps/local/src/recovery-engine.ts) around the   *)
(* Durable Job Engine, with the part of the daemon's start and stop        *)
(* (apps/local/src/daemon.ts) that drives it.                              *)
(*                                                                         *)
(* The database survives a crash; the coordinator's session id, its error  *)
(* flag and an in-flight sweep do not.  startSession() and stopSession()   *)
(* are several transactions with awaits between them, so each transaction  *)
(* is an action and the engine, or a crash, may step in between.           *)
(***************************************************************************)
EXTENDS RecoveryPolicy

CONSTANTS
  Sessions,     \* ids a runtime session can be given
  MaxRuns,      \* bound: how often the daemon is started
  MaxFailures   \* bound: how many recovery transactions of each kind throw (disk error)

ASSUME RunsAssumption == MaxRuns \in Nat \ {0}
ASSUME FailureAssumption == MaxFailures \in Nat
ASSUME SessionsAssumption == 0 \notin Sessions

VARIABLES
  sessions,   \* gd_runtime_sessions: "absent", "open", "clean" or "reconciled"
  phase,      \* how far the daemon's start or stop has come
  sessionId,  \* #sessionId, 0 for null
  priors,     \* priorSessionIds of the startSession() under way
  healthy,    \* #lastError === null
  sweeping,   \* #sweepInFlight: a sweep committed and is still publishing
  run,        \* history: the number of the daemon's current or latest start
  failures,   \* history: how many transactions of a start, a sweep and a stop threw
  claimedIn   \* history: the run and the session in which each running job was claimed

sessionVars == <<sessions, phase, sessionId, priors, healthy, sweeping, run, failures>>
allVars == <<vars, sessionVars, claimedIn>>

Phases == {"down", "opening", "recovering", "recovered", "up", "failing",
           "handedOff", "closing"}

\* Phases in which the database is open and callers of the engine can run.
EngineReachable == {"recovered", "up", "failing", "handedOff", "closing"}

OpenSessions == {s \in Sessions : sessions[s] = "open"}

\* What can throw: a transaction of startSession(), sweepExpiredLeases() or stopSession().
Kinds == {"start", "sweep", "stop"}

NotClaimed == [run |-> 0, session |-> 0]

RecordClaims ==
  claimedIn' = [j \in Jobs |->
     IF job'[j].state # "running" THEN NotClaimed
     ELSE IF issued'[j] = issued[j] THEN claimedIn[j]
     ELSE [run |-> run, session |-> sessionId]]

\* A transaction of this kind throws.
Throws(kind) ==
  /\ failures[kind] < MaxFailures /\ failures' = [failures EXCEPT ![kind] = @ + 1]

(***************************************************************************)
(* Start                                                                   *)
(***************************************************************************)
Boot ==
  /\ phase = "down" /\ run < MaxRuns
  /\ phase' = "opening" /\ run' = run + 1
  /\ UNCHANGED <<vars, sessions, sessionId, priors, healthy, sweeping, failures, claimedIn>>

OpenSession(s) ==
  /\ phase = "opening" /\ sessionId = 0 /\ sessions[s] = "absent"
  /\ priors' = OpenSessions
  /\ sessions' = [sessions EXCEPT ![s] = "open"]
  /\ sessionId' = s
  /\ healthy' = TRUE
  /\ phase' = "recovering"
  /\ UNCHANGED <<vars, sweeping, run, failures, claimedIn>>

\* startSession() returns at once when a failed stopSession() of this process left
\* a session id behind; the daemon then goes on only if the status is healthy.
KeepSession ==
  /\ phase = "opening" /\ sessionId # 0
  /\ phase' = IF healthy THEN "up" ELSE "failing"
  /\ UNCHANGED <<vars, sessions, sessionId, priors, healthy, sweeping, run, failures, claimedIn>>

\* Mutant: the start trusts leases that have not expired yet.
RecoverExpiredAtStartup ==
  /\ phase = "recovering"
  /\ Recover(ExpiredLeases) /\ RecordClaims
  /\ phase' = "recovered"
  /\ UNCHANGED <<sessions, sessionId, priors, healthy, sweeping, run, failures>>

RecoverAtStartup ==
  /\ phase = "recovering"
  /\ Recover(Running) /\ RecordClaims
  /\ phase' = "recovered"
  /\ UNCHANGED <<sessions, sessionId, priors, healthy, sweeping, run, failures>>

\* Mutant: prior sessions are not marked.
FinishStartUnmarked ==
  /\ phase = "recovered"
  /\ phase' = "up"
  /\ UNCHANGED <<vars, sessions, sessionId, priors, healthy, sweeping, run, failures, claimedIn>>

FinishStart ==
  /\ phase = "recovered"
  /\ sessions' = [s \in Sessions |->
                    IF s \in priors /\ sessions[s] = "open" THEN "reconciled" ELSE sessions[s]]
  /\ phase' = "up"
  /\ UNCHANGED <<vars, sessionId, priors, healthy, sweeping, run, failures, claimedIn>>

\* The bounds on run here and in StopFails leave a start that can serve after the last failure.
StartFails ==
  /\ Throws("start")
  /\ phase \in {"recovering", "recovered"} /\ run < MaxRuns
  /\ healthy' = FALSE /\ phase' = "failing"
  /\ UNCHANGED <<vars, sessions, sessionId, priors, sweeping, run, claimedIn>>

(***************************************************************************)
(* The lease sweep                                                         *)
(***************************************************************************)
Sweep ==
  /\ phase = "up" /\ sessionId # 0 /\ ~sweeping
  /\ Recover(ExpiredLeases) /\ RecordClaims
  /\ sweeping' = TRUE
  /\ UNCHANGED <<sessions, phase, sessionId, priors, healthy, run, failures>>

\* The sweep has published what it recovered: #lastError = null.
SweepEnds ==
  /\ sweeping
  /\ sweeping' = FALSE /\ healthy' = TRUE
  /\ UNCHANGED <<vars, sessions, phase, sessionId, priors, run, failures, claimedIn>>

SweepFails ==
  /\ Throws("sweep")
  /\ phase = "up" /\ sessionId # 0 /\ ~sweeping
  /\ healthy' = FALSE
  /\ UNCHANGED <<vars, sessions, phase, sessionId, priors, sweeping, run, claimedIn>>

(***************************************************************************)
(* Stop, and the clean-up of a start that failed                           *)
(***************************************************************************)
HandOff ==
  /\ phase \in {"up", "failing"} /\ run < MaxRuns
  /\ Recover(Running) /\ RecordClaims
  /\ phase' = "handedOff"
  /\ UNCHANGED <<sessions, sessionId, priors, healthy, sweeping, run, failures>>

MarkClean ==
  /\ phase = "handedOff"
  /\ sessions' = [sessions EXCEPT ![sessionId] = "clean"]
  /\ sessionId' = 0 /\ healthy' = TRUE /\ phase' = "closing"
  /\ UNCHANGED <<vars, priors, sweeping, run, failures, claimedIn>>

StopFails ==
  /\ Throws("stop")
  /\ phase \in {"up", "failing", "handedOff"} /\ run + 1 < MaxRuns
  /\ healthy' = FALSE /\ phase' = "closing"
  /\ UNCHANGED <<vars, sessions, sessionId, priors, sweeping, run, claimedIn>>

CloseDatabase ==
  /\ phase = "closing"
  /\ phase' = "down"
  /\ UNCHANGED <<vars, sessions, sessionId, priors, healthy, sweeping, run, failures, claimedIn>>

Crash ==
  /\ phase # "down" /\ run < MaxRuns
  /\ phase' = "down" /\ sessionId' = 0 /\ priors' = {}
  /\ healthy' = TRUE /\ sweeping' = FALSE
  /\ UNCHANGED <<vars, sessions, run, failures, claimedIn>>

(***************************************************************************)
(* Specification                                                           *)
(***************************************************************************)
EngineCall ==
  /\ phase \in EngineReachable
  /\ EngineNext
  /\ RecordClaims
  /\ UNCHANGED sessionVars

Tick ==
  /\ \E j \in Jobs : ClockStep(j)
  /\ UNCHANGED <<sessionVars, claimedIn>>

RInit ==
  /\ Init
  /\ sessions = [s \in Sessions |-> "absent"]
  /\ phase = "down" /\ sessionId = 0 /\ priors = {}
  /\ healthy = TRUE /\ sweeping = FALSE
  /\ run = 0 /\ failures = [k \in Kinds |-> 0]
  /\ claimedIn = [j \in Jobs |-> NotClaimed]

StartStep ==
  \/ Boot \/ (\E s \in Sessions : OpenSession(s)) \/ KeepSession
  \/ RecoverAtStartup \/ FinishStart

CloseStep == MarkClean \/ CloseDatabase

RNext ==
  \/ StartStep \/ StartFails
  \/ Sweep \/ SweepEnds \/ SweepFails
  \/ HandOff \/ CloseStep \/ StopFails
  \/ Crash
  \/ EngineCall \/ Tick

RSpec == RInit /\ [][RNext]_allVars

\* The event loop runs a start or stop it has begun to its end, the daemon is
\* started again after it went down, and the sweep's timer keeps firing.  That a
\* transaction throws is bounded by MaxFailures: the disk does not fail for ever.
RFairness ==
  /\ WF_allVars(StartStep)
  /\ WF_allVars(CloseStep)
  /\ WF_allVars(phase = "failing" /\ HandOff)
  /\ WF_allVars(Sweep)
  /\ WF_allVars(SweepEnds)

RFairSpec == RSpec /\ RFairness

(***************************************************************************)
(* Properties                                                              *)
(***************************************************************************)

\* Every variable has its type.
RTypeOK ==
  /\ TypeOK
  /\ sessions \in [Sessions -> {"absent", "open", "clean", "reconciled"}]
  /\ phase \in Phases
  /\ sessionId \in Sessions \cup {0}
  /\ priors \subseteq Sessions
  /\ healthy \in BOOLEAN /\ sweeping \in BOOLEAN
  /\ run \in 0 .. MaxRuns /\ failures \in [Kinds -> 0 .. MaxFailures]
  /\ claimedIn \in [Jobs -> [run : 0 .. MaxRuns, session : Sessions \cup {0}]]

\* When the daemon serves, nothing of an earlier run is still marked running: every
\* such row was reconciled before readiness, whatever happened to that run between
\* any two of its transactions and whatever start or sweep failed since.  A stop that
\* threw is excepted: it may leave its session to a start that then reconciles nothing.
ServingMeansReconciled ==
  phase = "up" /\ failures["stop"] = 0 => \A j \in Running : claimedIn[j].run = run

\* A session marked reconciled has left nothing behind: no row claimed under it is
\* still running, even when transactions of the starts in between failed.
ReconciledSessionsLeaveNoWork ==
  \A j \in Running : LET s == claimedIn[j].session IN s # 0 => sessions[s] # "reconciled"

\* When the daemon serves, its own session is the only open one: no interrupted
\* session is left to be counted as unclean again by every later start.
OneOpenSessionWhenServing ==
  phase = "up" => OpenSessions = {sessionId}

\* A job whose worker let the lease lapse does not stay running: it is renewed by that
\* worker or taken back by the sweep or a restart, although any of them may fail.
LapsedLeaseIsRecovered ==
  \A j \in Jobs :
     (job[j].state = "running" /\ job[j].leaseExpired)
        ~> (job[j].state # "running" \/ ~job[j].leaseExpired)

\* Work interrupted by a crash comes back: unless a stop throws, a job that is running
\* while the daemon is down is requeued, paused, cancelled or failed by a later start,
\* even if starts and sweeps in between fail.
InterruptedWorkIsRecovered ==
  [](failures["stop"] = 0) =>
     \A j \in Jobs :
        (job[j].state = "running" /\ phase = "down") ~> (job[j].state # "running")
==============================================================================
