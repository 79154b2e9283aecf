-------------------------- MODULE CoordinatorProofs --------------------------
(***************************************************************************)
(* The two coordinators that change the rows of the engine behind its      *)
(* back, for every set of jobs.                                            *)
(*                                                                         *)
(* Crash & Power Recovery, for every set of sessions and any number of     *)
(* daemon runs: what recovery does to the rows, what the session records   *)
(* say, and in which run running jobs were claimed.                        *)
(*                                                                         *)
(* Offline Execution, for any number of calls under way and of crashes:    *)
(* what its calls do to the rows, where a call under way can be, and, for  *)
(* calls made one after the other, which waits a reconciliation will find. *)
(***************************************************************************)
EXTENDS CrashRecovery, OfflineExecution, DurableJobsProofs

(***************************************************************************)
(* The rows under Crash & Power Recovery                                   *)
(***************************************************************************)

\* Seen from the engine's tables, a step of the daemon is a call of the engine, a
\* recovery of some running rows, the passing of time, or nothing.
LEMMA DaemonStep ==
  ASSUME [RNext]_allVars
  PROVE  \/ EngineNext
         \/ \E j \in Jobs : ClockStep(j)
         \/ \E rows \in SUBSET Running : Recover(rows)
         \/ UNCHANGED vars
<1>1. Running \in SUBSET Running /\ ExpiredLeases \in SUBSET Running
  BY DEF ExpiredLeases
<1>2. CASE RecoverAtStartup \/ Sweep \/ HandOff
  BY <1>1, <1>2 DEF RecoverAtStartup, Sweep, HandOff
<1>3. CASE EngineCall \/ Tick
  BY <1>3 DEF EngineCall, Tick
<1>4. CASE \/ Boot \/ (\E s \in Sessions : OpenSession(s)) \/ KeepSession \/ FinishStart
           \/ StartFails \/ SweepEnds \/ SweepFails \/ CloseStep \/ StopFails \/ Crash
           \/ UNCHANGED allVars
  BY <1>4 DEF Boot, OpenSession, KeepSession, FinishStart, StartFails, SweepEnds, SweepFails,
              CloseStep, MarkClean, CloseDatabase, StopFails, Crash, allVars
<1>5. QED
  BY <1>2, <1>3, <1>4 DEF RNext, StartStep

LEMMA DaemonKeepsRows ==
  ASSUME IInv, [RNext]_allVars
  PROVE  IInv' /\ \A j \in Jobs : job'[j].checkpoint >= job[j].checkpoint
<1>1. CASE EngineNext \/ (\E j \in Jobs : ClockStep(j)) \/ UNCHANGED vars
  BY <1>1, NextIInv DEF Next, Moved
<1>2. CASE \E rows \in SUBSET Running : Recover(rows)
  <2>1. IInv' /\ \A j \in Jobs : job'[j].checkpoint = job[j].checkpoint
    BY <1>2, RecoverKeeps
  <2>2. \A j \in Jobs : job[j].checkpoint \in Nat
    BY DEF IInv, TypeOK, JobRow
  <2>3. QED
    BY <2>1, <2>2
<1>3. QED
  BY <1>1, <1>2, DaemonStep

LEMMA RowsInductive == RSpec => []IInv
<1>1. RInit => IInv
  BY InitIInv DEF RInit
<1>2. IInv /\ [RNext]_allVars => IInv'
  BY DaemonKeepsRows
<1>3. QED
  BY <1>1, <1>2, PTL DEF RSpec

\* Through crashes, recoveries and failed transactions a lease is the latest one
\* drawn, claims stay within the budget, and requests never reach a later attempt.
THEOREM RecoveryFences ==
  RSpec => [](LeaseIsLatestClaim /\ AttemptsWithinBudget /\ RequestsNotInherited)
<1>1. IInv => LeaseIsLatestClaim /\ AttemptsWithinBudget /\ RequestsNotInherited
  BY DEF IInv, RowsInv, RowInv, LeaseIsLatestClaim, AttemptsWithinBudget, RequestsNotInherited
<1>2. QED
  BY <1>1, RowsInductive, PTL

\* ... and a result is the latest claim's: work that an interrupted run left behind, or
\* that outlived its own lease, cannot settle a row that was claimed again.
THEOREM RecoveredResults == RSpec => []ResultFromLatestClaim
<1>1. IInv => ResultFromLatestClaim
  BY DEF IInv, RowsInv, RowInv, ResultFromLatestClaim
<1>2. QED
  BY <1>1, RowsInductive, PTL

\* ... and no checkpoint is lost to a crash or rewound by the recovery that follows it.
THEOREM RecoveredCheckpoints == RSpec => CheckpointsNeverRegress
<1>1. IInv /\ [RNext]_allVars => [\A j \in Jobs : job'[j].checkpoint >= job[j].checkpoint]_vars
  BY DaemonKeepsRows
<1>2. QED
  BY <1>1, RowsInductive, PTL DEF RSpec, CheckpointsNeverRegress

\* The engine together with its crash recovery implements the abstract work queue.
THEOREM RecoveryRefinement == RSpec => ImplementsWorkQueue
<1>1. RInit => Queue!Init
  BY InitRefines DEF RInit
<1>2. IInv /\ [RNext]_allVars => [Queue!Next]_Queue!queueVars
  <2> SUFFICES ASSUME IInv, [RNext]_allVars
               PROVE  Queue!Next \/ UNCHANGED Queue!queueVars
    OBVIOUS
  <2>1. CASE EngineNext
    BY <2>1, EngineRefines
  <2>2. CASE \E j \in Jobs : ClockStep(j)
    BY <2>2, ClockRefines
  <2>3. CASE \E rows \in SUBSET Running : Recover(rows)
    BY <2>3, RecoverRefines
  <2>4. CASE UNCHANGED vars
    BY <2>4 DEF vars, Queue!queueVars
  <2>5. QED
    BY <2>1, <2>2, <2>3, <2>4, DaemonStep
<1>3. QED
  BY <1>1, <1>2, RowsInductive, PTL DEF RSpec, Queue!Spec, ImplementsWorkQueue

(***************************************************************************)
(* The session records                                                     *)
(***************************************************************************)
SessionTypes ==
  /\ sessions \in [Sessions -> {"absent", "open", "clean", "reconciled"}]
  /\ phase \in Phases
  /\ sessionId \in Sessions \cup {0}
  /\ priors \in SUBSET Sessions
  /\ healthy \in BOOLEAN /\ sweeping \in BOOLEAN

\* While a start is under way the open sessions are its own and those it is going to
\* reconcile.  Once a process has served, its own is the only one: that is why a
\* sweep which outlives a failed stop may clear the error flag and let the next start
\* keep the session, without hiding an older one.
SessionInv ==
  /\ SessionTypes
  /\ sessionId # 0 => sessions[sessionId] = "open"
  /\ phase \in {"recovering", "recovered", "up", "failing", "handedOff"} => sessionId # 0
  /\ phase \in {"recovering", "recovered"} =>
        sessionId \notin priors /\ OpenSessions \subseteq priors \cup {sessionId}
  /\ sweeping \/ phase = "up" => OpenSessions \subseteq {sessionId}
  /\ phase \in {"closing", "down", "opening"} /\ sessionId # 0 /\ healthy =>
        OpenSessions \subseteq {sessionId}

LEMMA StartKeepsSessions ==
  ASSUME SessionInv, StartStep \/ StartFails
  PROVE  SessionInv'
<1> USE SessionsAssumption DEF SessionInv, SessionTypes, Phases
<1>1. CASE Boot
  BY <1>1 DEF Boot, OpenSessions
<1>2. ASSUME NEW s \in Sessions, OpenSession(s)
      PROVE  SessionInv'
  <2>1. /\ sessionId = 0 /\ sessionId' = s /\ s # 0 /\ priors' = OpenSessions
        /\ sessions[s] = "absent" /\ sessions' = [sessions EXCEPT ![s] = "open"]
        /\ phase' = "recovering" /\ healthy' = TRUE /\ sweeping' = sweeping
    BY <1>2 DEF OpenSession
  <2>2. SessionTypes'
    BY <2>1 DEF OpenSessions
  <2>3. sessions'[s] = "open" /\ s \notin OpenSessions
    BY <2>1 DEF OpenSessions
  <2>4. OpenSessions' = OpenSessions \cup {s}
    BY <2>1 DEF OpenSessions
  <2>5. sweeping => OpenSessions = {}
    BY <2>1 DEF OpenSessions
  <2>6. QED
    BY <2>1, <2>2, <2>3, <2>4, <2>5
<1>3. CASE KeepSession
  BY <1>3 DEF KeepSession, OpenSessions
<1>4. CASE RecoverAtStartup
  BY <1>4 DEF RecoverAtStartup, OpenSessions
<1>5. CASE FinishStart
  <2>1. /\ phase = "recovered" /\ phase' = "up" /\ sessionId' = sessionId
        /\ UNCHANGED <<priors, healthy, sweeping>>
        /\ sessions' = [s \in Sessions |->
              IF s \in priors /\ sessions[s] = "open" THEN "reconciled" ELSE sessions[s]]
    BY <1>5 DEF FinishStart
  <2>2. SessionTypes'
    BY <2>1
  <2>3. sessionId # 0 /\ sessionId \in Sessions /\ sessions'[sessionId] = "open"
    BY <2>1
  <2>4. OpenSessions' \subseteq {sessionId}
    BY <2>1 DEF OpenSessions
  <2>5. QED
    BY <2>1, <2>2, <2>3, <2>4
<1>6. CASE StartFails
  BY <1>6 DEF StartFails, OpenSessions
<1>7. QED
  BY <1>1, <1>2, <1>3, <1>4, <1>5, <1>6 DEF StartStep

LEMMA SweepKeepsSessions ==
  ASSUME SessionInv, Sweep \/ SweepEnds \/ SweepFails
  PROVE  SessionInv'
BY DEF SessionInv, SessionTypes, Phases, OpenSessions, Sweep, SweepEnds, SweepFails

LEMMA StopKeepsSessions ==
  ASSUME SessionInv, HandOff \/ CloseStep \/ StopFails \/ Crash
  PROVE  SessionInv'
<1> USE SessionsAssumption DEF SessionInv, SessionTypes, Phases
<1>1. CASE HandOff
  BY <1>1 DEF HandOff, OpenSessions
<1>2. CASE MarkClean
  <2>1. /\ sessionId \in Sessions /\ sessionId' = 0 /\ phase' = "closing"
        /\ sessions' = [sessions EXCEPT ![sessionId] = "clean"]
        /\ healthy' = TRUE /\ UNCHANGED <<priors, sweeping>>
    BY <1>2 DEF MarkClean
  <2>2. SessionTypes'
    BY <2>1
  <2>3. OpenSessions' = OpenSessions \ {sessionId}
    BY <2>1 DEF OpenSessions
  <2>4. QED
    BY <2>1, <2>2, <2>3
<1>3. CASE CloseDatabase
  BY <1>3 DEF CloseDatabase, OpenSessions
<1>4. CASE StopFails
  BY <1>4 DEF StopFails, OpenSessions
<1>5. CASE Crash
  BY <1>5 DEF Crash, OpenSessions
<1>6. QED
  BY <1>1, <1>2, <1>3, <1>4, <1>5 DEF CloseStep

LEMMA SessionsInductive == RSpec => []SessionInv
<1>1. RInit => SessionInv
  BY SessionsAssumption DEF RInit, SessionInv, SessionTypes, Phases, OpenSessions
<1>2. SessionInv /\ [RNext]_allVars => SessionInv'
  <2> SUFFICES ASSUME SessionInv, [RNext]_allVars PROVE SessionInv'
    OBVIOUS
  <2>1. CASE EngineCall \/ Tick \/ UNCHANGED allVars
    BY <2>1 DEF EngineCall, Tick, allVars, sessionVars, SessionInv, SessionTypes, OpenSessions
  <2>2. QED
    BY <2>1, StartKeepsSessions, SweepKeepsSessions, StopKeepsSessions DEF RNext
<1>3. QED
  BY <1>1, <1>2, PTL DEF RSpec

\* Whenever the daemon serves, no interrupted session is left open to be counted as
\* unclean again, even after starts, sweeps and stops whose transactions failed.
THEOREM OnlyItsOwnSession == RSpec => []OneOpenSessionWhenServing
<1>1. SessionInv => OneOpenSessionWhenServing
  BY DEF SessionInv, SessionTypes, OneOpenSessionWhenServing, OpenSessions
<1>2. QED
  BY <1>1, SessionsInductive, PTL

(***************************************************************************)
(* The claims behind the running rows                                      *)
(***************************************************************************)

\* What RecordClaims leaves behind for the rows that run after it.
LEMMA RecordedClaims ==
  ASSUME IInv, IInv', Queue!Next \/ UNCHANGED Queue!queueVars, RecordClaims
  PROVE  /\ DOMAIN claimedIn' = Jobs
         /\ \A j \in Running' : \/ j \in Running /\ claimedIn'[j] = claimedIn[j]
                                \/ claimedIn'[j] = [run |-> run, session |-> sessionId]
<1>1. DOMAIN claimedIn' = Jobs
  BY DEF RecordClaims
<1>2. ASSUME NEW j \in Running'
      PROVE  \/ j \in Running /\ claimedIn'[j] = claimedIn[j]
             \/ claimedIn'[j] = [run |-> run, session |-> sessionId]
  <2>1. j \in Jobs /\ job'[j].state = "running"
    BY DEF Running
  <2>2. CASE issued'[j] = issued[j]
    <3>1. issued[j] \in Nat
      BY <2>1 DEF IInv, TypeOK
    <3>2. job[j].state = "running"
      BY <2>1, <2>2, <3>1, RunningStays
    <3>3. QED
      BY <2>1, <2>2, <3>2 DEF RecordClaims, Running
  <2>3. CASE issued'[j] # issued[j]
    BY <2>1, <2>3 DEF RecordClaims
  <2>4. QED
    BY <2>2, <2>3
<1>3. QED
  BY <1>1, <1>2

\* In every step of the daemon, a row that runs afterwards kept its claim or was
\* claimed by the call of the step; nothing runs after a full recovery.
LEMMA RunningClaims ==
  ASSUME IInv, IInv', [RNext]_allVars
  PROVE  /\ \A j \in Running' :
              \/ j \in Running /\ claimedIn'[j] = claimedIn[j]
              \/ EngineCall /\ claimedIn'[j] = [run |-> run, session |-> sessionId]
         /\ RecoverAtStartup \/ HandOff => Running' = {}
<1>1. CASE EngineCall
  <2>1. phase' = phase
    BY <1>1 DEF EngineCall, sessionVars
  <2>2. ~(RecoverAtStartup \/ HandOff)
    BY <2>1 DEF RecoverAtStartup, HandOff
  <2>3. QED
    BY <1>1, <2>2, EngineRefines, RecordedClaims DEF EngineCall
<1>2. CASE RecoverAtStartup \/ Sweep \/ HandOff
  <2>1. PICK rows \in SUBSET Running : Recover(rows) /\ (phase # "up" => rows = Running)
                                       /\ (HandOff => rows = Running)
    <3>1. CASE RecoverAtStartup \/ HandOff
      BY <3>1 DEF RecoverAtStartup, HandOff
    <3>2. CASE Sweep
      <4>1. phase' = "up" /\ phase = "up"
        BY <3>2 DEF Sweep
      <4>2. ~HandOff
        BY <4>1 DEF HandOff
      <4>3. QED
        BY <3>2, <4>1, <4>2 DEF Sweep, ExpiredLeases
    <3>3. QED
      BY <1>2, <3>1, <3>2
  <2>2. \A j \in Running' : j \in Running \ rows /\ issued'[j] = issued[j]
    <3> SUFFICES ASSUME NEW j \in Running'
                 PROVE  j \in Running \ rows /\ issued'[j] = issued[j]
      OBVIOUS
    <3>1. /\ j \in Jobs /\ job'[j].state = "running" /\ issued'[j] = issued[j]
          /\ job'[j] = IF j \in rows THEN Recovered(job[j]) ELSE job[j]
      BY <2>1 DEF Recover, Running
    <3>2. /\ job[j] \in JobRow /\ RowInv(job[j], issued[j]) /\ issued[j] \in Nat
      BY <3>1 DEF IInv, TypeOK, RowsInv
    <3>3. j \in rows => job'[j].state # "running"
      BY <2>1, <3>1, <3>2, RecoveredRow DEF Running
    <3>4. QED
      BY <3>1, <3>3 DEF Running
  <2>3. RecordClaims
    BY <1>2 DEF RecoverAtStartup, Sweep, HandOff
  <2>4. \A j \in Running' : j \in Running /\ claimedIn'[j] = claimedIn[j]
    BY <2>2, <2>3 DEF RecordClaims, Running
  <2>5. RecoverAtStartup \/ HandOff => Running' = {}
    BY <2>1, <2>2 DEF RecoverAtStartup
  <2>6. QED
    BY <2>4, <2>5
<1>3. CASE Tick
  <2>1. PICK k \in Jobs : ClockStep(k) /\ claimedIn' = claimedIn /\ phase' = phase
    BY <1>3 DEF Tick, sessionVars
  <2>2. job \in [Jobs -> JobRow]
    BY DEF IInv, TypeOK
  <2>3. PICK r : job' = [job EXCEPT ![k] = r] /\ r.state = job[k].state
    BY <2>1, <2>2 DEF ClockStep, BecomeAvailable, LeaseExpires, Update, JobRow
  <2>4. Running' = Running
    BY <2>2, <2>3 DEF Running
  <2>5. ~(RecoverAtStartup \/ HandOff)
    BY <2>1 DEF RecoverAtStartup, HandOff
  <2>6. QED
    BY <2>1, <2>4, <2>5
<1>4. CASE \/ Boot \/ (\E s \in Sessions : OpenSession(s)) \/ KeepSession \/ FinishStart
           \/ StartFails \/ SweepEnds \/ SweepFails \/ CloseStep \/ StopFails \/ Crash
           \/ UNCHANGED allVars
  <2>1. UNCHANGED <<vars, claimedIn>>
    BY <1>4 DEF Boot, OpenSession, KeepSession, FinishStart, StartFails, SweepEnds, SweepFails,
                CloseStep, MarkClean, CloseDatabase, StopFails, Crash, allVars
  <2>2. Running' = Running
    BY <2>1 DEF vars, Running
  <2>3. CASE RecoverAtStartup \/ HandOff
    BY <1>2, <2>3
  <2>4. QED
    BY <2>1, <2>2, <2>3
<1>5. QED
  BY <1>1, <1>2, <1>3, <1>4 DEF RNext, StartStep

\* Between recovering and reconciling, a start's running rows are its own session's.
ClaimsInv ==
  /\ \A j \in Running : claimedIn[j].session \in Sessions \cup {0}
  /\ phase = "recovered" => \A j \in Running : claimedIn[j].session = sessionId
  /\ ReconciledSessionsLeaveNoWork

LEMMA ClaimsStep ==
  ASSUME IInv, IInv', SessionInv, SessionInv', ClaimsInv, [RNext]_allVars
  PROVE  ClaimsInv'
<1> USE DEF ClaimsInv, ReconciledSessionsLeaveNoWork
<1>1. CASE EngineCall
  <2>1. /\ phase' = phase /\ sessionId' = sessionId /\ sessions' = sessions
        /\ phase \in EngineReachable
    BY <1>1 DEF EngineCall, sessionVars
  <2>2. QED
    BY <2>1, RunningClaims DEF SessionInv, SessionTypes
<1>2. ASSUME ~EngineCall
      PROVE  ClaimsInv'
  <2>1. \A j \in Running' : j \in Running /\ claimedIn'[j] = claimedIn[j]
    BY <1>2, RunningClaims
  <2>2. CASE FinishStart
    BY <2>1, <2>2 DEF FinishStart, SessionInv, SessionTypes
  <2>3. CASE RecoverAtStartup \/ HandOff
    BY <2>3, RunningClaims
  <2>4. CASE \/ Boot \/ (\E s \in Sessions : OpenSession(s)) \/ KeepSession \/ StartFails
             \/ Sweep \/ SweepEnds \/ SweepFails \/ CloseStep \/ StopFails \/ Crash \/ Tick
             \/ UNCHANGED allVars
    <3>1. \A s \in Sessions : sessions'[s] = "reconciled" => sessions[s] = "reconciled"
      BY <2>4 DEF Boot, OpenSession, KeepSession, StartFails, Sweep, SweepEnds, SweepFails,
                  CloseStep, MarkClean, CloseDatabase, StopFails, Crash, Tick, allVars,
                  sessionVars, SessionInv, SessionTypes
    <3>2. phase' # "recovered" \/ (phase' = phase /\ sessionId' = sessionId)
      BY <2>4 DEF Boot, OpenSession, KeepSession, StartFails, Sweep, SweepEnds, SweepFails,
                  CloseStep, MarkClean, CloseDatabase, StopFails, Crash, Tick, allVars,
                  sessionVars
    <3>3. QED
      BY <2>1, <3>1, <3>2
  <2>5. QED
    BY <1>2, <2>2, <2>3, <2>4 DEF RNext, StartStep
<1>3. QED
  BY <1>1, <1>2

\* A session recorded as reconciled has left no running work behind, whatever
\* transactions of the starts in between failed.
THEOREM ReconciledMeansReconciled == RSpec => []ReconciledSessionsLeaveNoWork
<1>1. RInit => ClaimsInv
  BY DEF RInit, Init, ClaimsInv, ReconciledSessionsLeaveNoWork, Running, AbsentRow
<1>2. IInv /\ IInv' /\ SessionInv /\ SessionInv' /\ ClaimsInv /\ [RNext]_allVars => ClaimsInv'
  BY ClaimsStep
<1>3. ClaimsInv => ReconciledSessionsLeaveNoWork
  BY DEF ClaimsInv
<1>4. QED
  BY <1>1, <1>2, <1>3, RowsInductive, SessionsInductive, PTL DEF RSpec

(***************************************************************************)
(* Types                                                                   *)
(***************************************************************************)

HistoryTypes ==
  /\ run \in 0 .. MaxRuns /\ failures \in [Kinds -> 0 .. MaxFailures]
  /\ claimedIn \in [Jobs -> [run : 0 .. MaxRuns, session : Sessions \cup {0}]]

LEMMA HistoryStep ==
  ASSUME SessionInv, HistoryTypes, [RNext]_allVars
  PROVE  HistoryTypes'
<1> DEFINE ClaimPlace == [run : 0 .. MaxRuns, session : Sessions \cup {0}]
<1>1. NotClaimed \in ClaimPlace /\ [run |-> run, session |-> sessionId] \in ClaimPlace
  BY RunsAssumption DEF NotClaimed, SessionInv, SessionTypes, HistoryTypes
<1>2. claimedIn \in [Jobs -> ClaimPlace] /\ run \in 0 .. MaxRuns
  BY DEF HistoryTypes
<1> HIDE DEF ClaimPlace
<1>3. RecordClaims => claimedIn' \in [Jobs -> ClaimPlace]
  BY <1>1, <1>2 DEF RecordClaims
<1>4. run' \in 0 .. MaxRuns
  <2>1. CASE Boot
    BY <1>2, <2>1, RunsAssumption DEF Boot
  <2>2. CASE ~Boot
    BY <1>2, <2>2 DEF RNext, StartStep, OpenSession, KeepSession, RecoverAtStartup, FinishStart,
                      StartFails, Sweep, SweepEnds, SweepFails, HandOff, CloseStep, MarkClean,
                      CloseDatabase, StopFails, Crash, EngineCall, Tick, allVars, sessionVars
  <2>3. QED
    BY <2>1, <2>2
<1>5. claimedIn' \in [Jobs -> ClaimPlace]
  BY <1>2, <1>3 DEF RNext, StartStep, Boot, OpenSession, KeepSession, RecoverAtStartup, FinishStart,
                    StartFails, Sweep, SweepEnds, SweepFails, HandOff, CloseStep, MarkClean,
                    CloseDatabase, StopFails, Crash, EngineCall, Tick, allVars, sessionVars
<1>6. failures' \in [Kinds -> 0 .. MaxFailures]
  <2>1. failures \in [Kinds -> 0 .. MaxFailures] /\ MaxFailures \in Nat
    BY FailureAssumption DEF HistoryTypes
  <2>2. CASE StartFails \/ SweepFails \/ StopFails
    BY <2>1, <2>2 DEF StartFails, SweepFails, StopFails, Throws, Kinds
  <2>3. CASE ~(StartFails \/ SweepFails \/ StopFails)
    BY <2>1, <2>3 DEF RNext, StartStep, Boot, OpenSession, KeepSession, RecoverAtStartup, FinishStart,
                      Sweep, SweepEnds, HandOff, CloseStep, MarkClean, CloseDatabase, Crash,
                      EngineCall, Tick, allVars, sessionVars
  <2>4. QED
    BY <2>2, <2>3
<1>7. QED
  BY <1>4, <1>5, <1>6 DEF HistoryTypes, ClaimPlace

LEMMA HistoryInductive == RSpec => []HistoryTypes
<1>1. RInit => HistoryTypes
  BY RunsAssumption, FailureAssumption DEF RInit, HistoryTypes, NotClaimed
<1>2. SessionInv /\ HistoryTypes /\ [RNext]_allVars => HistoryTypes'
  BY HistoryStep
<1>3. QED
  BY <1>1, <1>2, SessionsInductive, PTL DEF RSpec

\* The rows of the engine, the session records and the state of startSession() and
\* stopSession() have their types, always.
THEOREM RecoveryTypes == RSpec => []RTypeOK
<1>1. IInv /\ SessionInv /\ HistoryTypes => RTypeOK
  BY DEF IInv, SessionInv, SessionTypes, HistoryTypes, RTypeOK
<1>2. QED
  BY <1>1, RowsInductive, SessionsInductive, HistoryInductive, PTL

(***************************************************************************)
(* Readiness, when no stop failed                                          *)
(***************************************************************************)

\* Unless a stop has thrown, a process that goes down or has yet to open a session holds no
\* session id, so no start can skip its recovery, and from the recovery on, what runs was
\* claimed in this run.  Only a start that failed keeps older work, until it has handed off.
ReadinessInv ==
  failures["stop"] = 0 =>
    /\ phase \in {"closing", "down", "opening"} => sessionId = 0
    /\ phase \in {"recovered", "up", "handedOff"} => \A j \in Running : claimedIn[j].run = run

LEMMA ReadinessStep ==
  ASSUME IInv, IInv', HistoryTypes, ReadinessInv, [RNext]_allVars
  PROVE  ReadinessInv'
<1> USE DEF ReadinessInv
<1>1. CASE EngineCall
  <2>1. phase' = phase /\ sessionId' = sessionId /\ run' = run /\ failures' = failures
    BY <1>1 DEF EngineCall, sessionVars
  <2>2. QED
    BY <2>1, RunningClaims
<1>2. ASSUME ~EngineCall
      PROVE  ReadinessInv'
  <2>1. \A j \in Running' : j \in Running /\ claimedIn'[j] = claimedIn[j]
    BY <1>2, RunningClaims
  <2>2. CASE RecoverAtStartup \/ HandOff
    BY <2>2, RunningClaims DEF RecoverAtStartup, HandOff
  <2>3. CASE \/ Boot \/ (\E s \in Sessions : OpenSession(s)) \/ KeepSession \/ FinishStart
             \/ Sweep \/ SweepEnds \/ CloseStep \/ Crash \/ Tick \/ UNCHANGED allVars
    BY <2>1, <2>3 DEF Boot, OpenSession, KeepSession, FinishStart, Sweep, SweepEnds, CloseStep,
                      MarkClean, CloseDatabase, Crash, Tick, allVars, sessionVars
  <2>4. CASE StartFails \/ SweepFails \/ StopFails
    <3>1. failures \in [Kinds -> Nat]
      BY FailureAssumption DEF HistoryTypes
    <3>2. CASE StopFails
      <4>1. failures'["stop"] # 0
        BY <3>1, <3>2 DEF StopFails, Throws, Kinds
      <4>2. QED
        BY <4>1
    <3>3. CASE StartFails \/ SweepFails
      <4>1. failures'["stop"] = failures["stop"]
        BY <3>1, <3>3 DEF StartFails, SweepFails, Throws, Kinds
      <4>2. QED
        BY <2>1, <3>3, <4>1 DEF StartFails, SweepFails
    <3>4. QED
      BY <2>4, <3>2, <3>3
  <2>5. QED
    BY <1>2, <2>2, <2>3, <2>4 DEF RNext, StartStep
<1>3. QED
  BY <1>1, <1>2

\* As long as no stop has thrown, the daemon never serves before every row an earlier run
\* left running has been taken back, wherever that run was interrupted and whatever
\* transactions of starts and sweeps threw.
THEOREM ReadyAfterRecovery == RSpec => []ServingMeansReconciled
<1>1. RInit => ReadinessInv
  BY DEF RInit, ReadinessInv
<1>2. /\ IInv /\ IInv' /\ HistoryTypes /\ ReadinessInv /\ [RNext]_allVars => ReadinessInv'
  BY ReadinessStep
<1>3. ReadinessInv => ServingMeansReconciled
  BY DEF ReadinessInv, ServingMeansReconciled
<1>4. QED
  BY <1>1, <1>2, <1>3, RowsInductive, HistoryInductive, PTL DEF RSpec

(***************************************************************************)
(* Offline Execution: the calls under way                                  *)
(***************************************************************************)
Places == {"idle", "reconcile", "park", "claim", "clearStale", "resumeNext", "unblock",
           "resumeOne", "wait", "block"}

CallRecord == [at : Places, todo : SUBSET Jobs, then : {"return", "claim", "wait"},
               job : Jobs \cup {NoJob}, token : Nat]

\* What a call carries over its awaits: the jobs it has listed exist, it has an argument
\* where it uses one, and the token waitForNetwork() was given is one that was drawn.
Carried(x, existing, drawn) ==
  /\ x.todo \subseteq existing
  /\ x.at \in {"resumeOne", "wait", "block"} => x.job \in Jobs
  /\ x.at = "wait" => x.then = "wait"
  /\ x.then = "wait" => x.job \in Jobs /\ x.token \in 1 .. drawn[x.job]

CallsInv ==
  /\ call \in [Calls -> CallRecord]
  /\ \A c \in Calls : Carried(call[c], Enqueued, issued)

TablesInv ==
  /\ connectivity \in Observations
  /\ blocked \subseteq required /\ required \subseteq Enqueued
  /\ up \in BOOLEAN /\ crashes \in 0 .. MaxCrashes /\ waitsForNet \subseteq Jobs

OInv == IInv /\ CallsInv /\ TablesInv

LEMMA IdleRecord ==
  /\ Idle \in CallRecord /\ \A existing, drawn : Carried(Idle, existing, drawn)
  /\ Idle.at = "idle" /\ Idle.todo = {} /\ Idle.then = "return"
BY DEF Idle, CallRecord, Carried, Places, NoLease

\* Parking keeps the rows right, and moves queued ones to "waiting" only.
LEMMA ParkingKeeps ==
  ASSUME IInv, ParkQueuedNetworkJobs
  PROVE  /\ IInv'
         /\ \A j \in Jobs : /\ job'[j].checkpoint = job[j].checkpoint
                            /\ job'[j].result = job[j].result
                            /\ \/ j \notin Parkable /\ job'[j] = job[j]
                               \/ /\ j \in Parkable /\ job[j].state = "queued"
                                  /\ job'[j].state = "waiting"
<1> DEFINE Parked(r) == [Unleased(r) EXCEPT !.state = "waiting"]
           after == [j \in Jobs |-> IF j \in Parkable THEN Parked(job[j]) ELSE job[j]]
<1>1. \A j \in Jobs : /\ job[j] \in JobRow /\ RowInv(job[j], issued[j]) /\ issued[j] \in Nat
  BY DEF IInv, TypeOK, RowsInv
<1>2. ASSUME NEW r \in JobRow, NEW n \in Nat, RowInv(r, n), r.state = "queued"
      PROVE  /\ RowStep(r, Parked(r), n) /\ Parked(r).state = "waiting"
             /\ Parked(r).checkpoint = r.checkpoint /\ Parked(r).result = r.result
  <2> DEFINE s == Parked(r)
  <2> USE <1>2 DEF Unleased, JobRow, States, Held, NoLease
  <2>1. s \in JobRow
    OBVIOUS
  <2>2. /\ s.state = "waiting" /\ s.checkpoint = r.checkpoint /\ s.result = r.result
        /\ s.queueOrder = r.queueOrder
    OBVIOUS
  <2>3. RowInv(s, n)
    BY DEF RowInv, NoClaim
  <2> HIDE DEF s
  <2>4. QED
    BY <2>1, <2>2, <2>3 DEF RowStep, Satisfied, s
<1>3. \A j \in Jobs : /\ RowStep(job[j], after[j], issued[j])
                      /\ after[j].checkpoint = job[j].checkpoint
                      /\ after[j].result = job[j].result
                      /\ \/ j \notin Parkable /\ after[j] = job[j]
                         \/ /\ j \in Parkable /\ job[j].state = "queued"
                            /\ after[j].state = "waiting"
  <2> SUFFICES ASSUME NEW j \in Jobs
               PROVE  /\ RowStep(job[j], after[j], issued[j])
                      /\ after[j].checkpoint = job[j].checkpoint
                      /\ after[j].result = job[j].result
                      /\ \/ j \notin Parkable /\ after[j] = job[j]
                         \/ /\ j \in Parkable /\ job[j].state = "queued"
                            /\ after[j].state = "waiting"
    OBVIOUS
  <2> HIDE DEF Parked
  <2>1. CASE j \in Parkable
    BY <1>1, <1>2, <2>1 DEF Parkable
  <2>2. CASE j \notin Parkable
    BY <1>1, <2>2 DEF RowStep
  <2>3. QED
    BY <2>1, <2>2
<1>4. after \in [Jobs -> JobRow]
  BY <1>3 DEF RowStep
<1>5. job' = after /\ UNCHANGED <<deps, issued>>
  BY DEF ParkQueuedNetworkJobs
<1> HIDE DEF after
<1>6. QED
  BY <1>3, <1>4, <1>5, RowsStep

LEMMA ParkingRefines ==
  ASSUME IInv, ParkQueuedNetworkJobs
  PROVE  UNCHANGED Queue!queueVars
<1>1. /\ \A j \in Jobs : /\ job'[j].checkpoint = job[j].checkpoint
                         /\ job'[j].result = job[j].result
                         /\ PhaseOf(job'[j].state) = PhaseOf(job[j].state)
  BY ParkingKeeps, PhaseValues DEF Held
<1>2. deps' = deps /\ issued' = issued
  BY DEF ParkQueuedNetworkJobs
<1>3. phaseBar' = phaseBar /\ progressBar' = progressBar /\ authorBar' = authorBar
  BY <1>1 DEF phaseBar, progressBar, authorBar
<1>4. QED
  BY <1>2, <1>3 DEF Queue!queueVars, phaseBar, progressBar, authorBar

(***************************************************************************)
(* The rows under Offline Execution                                        *)
(***************************************************************************)

\* waitForNetwork() on a job waits as the worker that holds its lease, or fails.
LEMMA WaitJobStep ==
  ASSUME NEW c \in Calls, NEW j \in Jobs, NEW t \in 1 .. issued[j], WaitJob(c, j, t)
  PROVE  EngineNext \/ UNCHANGED vars
<1>1. Wait(j, t, TRUE) => EngineNext
  BY DEF EngineNext, WorkerStep
<1>2. QED
  BY <1>1 DEF WaitJob

\* Seen from the engine's tables, a step of the coordinator is a call of the engine, a
\* recovery, the passing of time, the parking of queued jobs, or nothing.
LEMMA CoordinatorStep ==
  ASSUME CallsInv, [ONext]_offlineVars
  PROVE  \/ EngineNext
         \/ \E j \in Jobs : ClockStep(j)
         \/ \E rows \in SUBSET Running : Recover(rows)
         \/ ParkQueuedNetworkJobs
         \/ UNCHANGED vars
<1>1. \A j \in Jobs : Resume(j, TRUE) => EngineNext
  BY DEF EngineNext, ControlStep
<1>2. ASSUME NEW c \in Calls, CallStarts(c)
      PROVE  EngineNext \/ UNCHANGED vars
  <2>1. CASE \E j \in Jobs : \E t \in 1 .. issued[j] : WaitForNetwork(c, j, t)
    BY <2>1, WaitJobStep DEF WaitForNetwork
  <2>2. CASE ~ \E j \in Jobs : \E t \in 1 .. issued[j] : WaitForNetwork(c, j, t)
    BY <1>2, <2>2 DEF CallStarts, SetConnectivity, StartClaim, DeclareNetworkRequired,
                      ClearNetworkRequirement
  <2>3. QED
    BY <2>1, <2>2
<1>3. ASSUME NEW c \in Calls, CallGoesOn(c)
      PROVE  EngineNext \/ ParkQueuedNetworkJobs \/ UNCHANGED vars
  <2>1. CASE ResumeNetworkWaits(c) \/ ResumeNext(c)
    <3>1. ResumeFirst(c, BlockedWaits) \/ ResumeFirst(c, call[c].todo)
      BY <2>1 DEF ResumeNetworkWaits, ResumeNext
    <3>2. QED
      BY <1>1, <3>1 DEF ResumeFirst
  <2>2. CASE ResumeCleared(c)
    <3>1. call[c].job \in Jobs /\ Resume(call[c].job, TRUE)
      BY <2>2 DEF ResumeCleared, CallsInv, Carried
    <3>2. QED
      BY <1>1, <3>1
  <2>3. CASE WaitDeclared(c)
    <3>1. /\ call[c].job \in Jobs /\ call[c].token \in 1 .. issued[call[c].job]
          /\ WaitJob(c, call[c].job, call[c].token)
      BY <2>3 DEF WaitDeclared, CallsInv, Carried
    <3>2. QED
      BY <3>1, WaitJobStep
  <2>4. CASE ClaimAfterReconcile(c)
    BY <2>4 DEF ClaimAfterReconcile, EngineNext
  <2>5. CASE ParkInReconcile(c) \/ ParkInDeclare(c)
    BY <2>5 DEF ParkInReconcile, ParkInDeclare
  <2>6. CASE Unblock(c) \/ ClearStaleBlockedFlags(c) \/ Block(c)
    BY <2>6 DEF Unblock, ClearStaleBlockedFlags, Block
  <2>7. QED
    BY <1>3, <2>1, <2>2, <2>3, <2>4, <2>5, <2>6 DEF CallGoesOn
<1>4. CASE ProcessDies \/ UNCHANGED offlineVars
  BY <1>4 DEF ProcessDies, offlineVars
<1>5. CASE \E c \in Calls : Restart(c)
  BY <1>5 DEF Restart
<1>6. CASE OtherEngineCall
  BY <1>6 DEF OtherEngineCall, EngineNext, ClockStep
<1>7. QED
  BY <1>2, <1>3, <1>4, <1>5, <1>6 DEF ONext

\* How the state of a row may change under Offline Execution: along its life cycle, by a
\* recovery, or by parking.
CoordinatedMove(from, to) ==
  \/ Move(from, to)
  \/ from = "running" /\ to \in {"cancelled", "paused", "queued", "failed"}
  \/ from = "queued" /\ to = "waiting"

\* Through every step of the coordinator the rows stay right: they move as they may,
\* exist and keep their place for good, and no token is taken back.
LEMMA CoordinatorKeepsRows ==
  ASSUME IInv, CallsInv, [ONext]_offlineVars
  PROVE  /\ IInv'
         /\ \A j \in Jobs : /\ CoordinatedMove(job[j].state, job'[j].state)
                            /\ job'[j].checkpoint >= job[j].checkpoint
                            /\ issued'[j] >= issued[j]
         /\ Enqueued \subseteq Enqueued'
<1>1. \A j \in Jobs : issued[j] \in Nat /\ job[j] \in JobRow
  BY DEF IInv, TypeOK
<1>2. CASE EngineNext \/ (\E j \in Jobs : ClockStep(j)) \/ UNCHANGED vars
  <2>1. IInv' /\ \A j \in Jobs : Moved(job[j], job'[j])
    BY <1>2, NextIInv DEF Next
  <2>2. \A j \in Jobs : issued'[j] >= issued[j]
    <3>1. CASE EngineNext
      <4>1. \/ issued' = issued
            \/ \E k \in Jobs : issued' = [issued EXCEPT ![k] = issued[k] + 1]
        BY <3>1, TokensDrawn DEF Claim
      <4>2. issued \in [Jobs -> Nat]
        BY DEF IInv, TypeOK
      <4>3. QED
        BY <4>1, <4>2
    <3>2. CASE (\E j \in Jobs : ClockStep(j)) \/ UNCHANGED vars
      BY <1>1, <3>2 DEF ClockStep, BecomeAvailable, LeaseExpires, Update, vars
    <3>3. QED
      BY <1>2, <3>1, <3>2
  <2>3. Enqueued \subseteq Enqueued'
    BY <2>1 DEF Enqueued, Moved, Move, Held
  <2>4. QED
    BY <2>1, <2>2, <2>3 DEF CoordinatedMove, Moved
<1>3. CASE \E rows \in SUBSET Running : Recover(rows)
  <2>1. /\ IInv'
        /\ \A j \in Jobs : /\ job'[j].checkpoint = job[j].checkpoint
                           /\ \/ job'[j].state = job[j].state
                              \/ /\ job[j].state = "running"
                                 /\ job'[j].state \in {"cancelled", "paused", "queued", "failed"}
    BY <1>3, RecoverKeeps
  <2>2. issued' = issued
    BY <1>3 DEF Recover
  <2>3. Enqueued \subseteq Enqueued'
    BY <2>1 DEF Enqueued
  <2>4. QED
    BY <1>1, <2>1, <2>2, <2>3 DEF CoordinatedMove, Move, JobRow
<1>4. CASE ParkQueuedNetworkJobs
  <2>1. /\ IInv'
        /\ \A j \in Jobs : /\ job'[j].checkpoint = job[j].checkpoint
                           /\ \/ job'[j] = job[j]
                              \/ job[j].state = "queued" /\ job'[j].state = "waiting"
    BY <1>4, ParkingKeeps
  <2>2. issued' = issued
    BY <1>4 DEF ParkQueuedNetworkJobs
  <2>3. Enqueued \subseteq Enqueued'
    BY <2>1 DEF Enqueued
  <2>4. QED
    BY <1>1, <2>1, <2>2, <2>3 DEF CoordinatedMove, Move, JobRow
<1>5. QED
  BY <1>2, <1>3, <1>4, CoordinatorStep

(***************************************************************************)
(* Where a call can be                                                     *)
(***************************************************************************)

\* A step of a call moves its own record only, to a place the call can be in.
LEMMA CallUpdate ==
  ASSUME OInv, NEW c \in Calls, CallStarts(c) \/ CallGoesOn(c)
  PROVE  call' = call \/ \E x \in CallRecord : /\ call' = [call EXCEPT ![c] = x]
                                                /\ Carried(x, Enqueued, issued)
<1> DEFINE Placed == \E x \in CallRecord : /\ call' = [call EXCEPT ![c] = x]
                                           /\ Carried(x, Enqueued, issued)
<1>1. /\ call[c] \in CallRecord /\ Carried(call[c], Enqueued, issued)
      /\ call \in [Calls -> CallRecord]
  BY DEF OInv, CallsInv
<1>2. Return(c) => Placed
  BY IdleRecord DEF Return
<1>3. ASSUME NEW place \in Places \ {"resumeOne", "wait", "block"}, Goto(c, place)
      PROVE  Placed
  <2> DEFINE x == [call[c] EXCEPT !.at = place]
  <2>1. x \in CallRecord /\ Carried(x, Enqueued, issued)
    BY <1>1 DEF CallRecord, Carried, Places
  <2>2. call' = [call EXCEPT ![c] = x]
    BY <1>1, <1>3 DEF Goto
  <2> HIDE DEF x
  <2>3. QED
    BY <2>1, <2>2
<1>4. call' = [call EXCEPT ![c] = After(c)] => Placed
  <2>1. After(c) \in CallRecord /\ Carried(After(c), Enqueued, issued)
    BY <1>1, IdleRecord DEF After, CallRecord, Carried, Places
  <2>2. QED
    BY <2>1
<1>5. ASSUME NEW todo \in SUBSET Enqueued, ResumeFirst(c, todo)
      PROVE  Placed
  <2> DEFINE x == [call[c] EXCEPT !.at = "unblock", !.todo = todo]
  <2>1. x \in CallRecord /\ Carried(x, Enqueued, issued)
    BY <1>1 DEF CallRecord, Carried, Places, Enqueued
  <2>2. \/ call' = [call EXCEPT ![c] = x]
        \/ Goto(c, "clearStale")
        \/ Return(c)
    BY <1>1, <1>5 DEF ResumeFirst
  <2> HIDE DEF x
  <2>3. QED
    BY <1>2, <1>3, <2>1, <2>2 DEF Places
<1>6. ASSUME NEW j \in Jobs, NEW t \in 1 .. issued[j], WaitJob(c, j, t)
      PROVE  Placed
  <2> DEFINE x == [Idle EXCEPT !.at = "block", !.job = j]
  <2>1. x \in CallRecord /\ Carried(x, Enqueued, issued)
    BY DEF Idle, CallRecord, Carried, Places, NoLease
  <2>2. call' = [call EXCEPT ![c] = x] \/ Return(c)
    BY <1>6 DEF WaitJob
  <2> HIDE DEF x
  <2>3. QED
    BY <1>2, <2>1, <2>2
<1>7. ASSUME CallStarts(c)
      PROVE  call' = call \/ Placed
  <2>1. CASE (\E observation \in Observations : SetConnectivity(c, observation))
    BY <1>3, <2>1 DEF SetConnectivity, Places
  <2>2. CASE StartClaim(c)
    <3> DEFINE x == [call[c] EXCEPT !.at = "reconcile", !.then = "claim"]
    <3>1. x \in CallRecord /\ Carried(x, Enqueued, issued)
      BY <1>1 DEF CallRecord, Carried, Places
    <3>2. call' = [call EXCEPT ![c] = x]
      BY <1>1, <2>2 DEF StartClaim
    <3> HIDE DEF x
    <3>3. QED
      BY <3>1, <3>2
  <2>3. CASE \E j \in Jobs : DeclareNetworkRequired(c, j)
    BY <1>3, <2>3 DEF DeclareNetworkRequired, Places
  <2>4. ASSUME NEW j \in Jobs, ClearNetworkRequirement(c, j)
        PROVE  call' = call \/ Placed
    <3> DEFINE x == [Idle EXCEPT !.at = "resumeOne", !.job = j]
    <3>1. x \in CallRecord /\ Carried(x, Enqueued, issued)
      BY DEF Idle, CallRecord, Carried, Places, NoLease
    <3>2. call' = [call EXCEPT ![c] = x] \/ call' = call
      BY <1>1, <2>4 DEF ClearNetworkRequirement
    <3> HIDE DEF x
    <3>3. QED
      BY <3>1, <3>2
  <2>5. ASSUME NEW j \in Jobs, NEW t \in 1 .. issued[j], WaitForNetwork(c, j, t)
        PROVE  Placed
    <3>1. CASE j \in required
      BY <1>6, <2>5, <3>1 DEF WaitForNetwork
    <3>2. CASE j \notin required
      <4>1. PICK place \in {"wait", "park"} :
              call' = [call EXCEPT ![c] =
                         [Idle EXCEPT !.at = place, !.then = "wait", !.job = j, !.token = t]]
        BY <2>5, <3>2 DEF WaitForNetwork
      <4> DEFINE x == [Idle EXCEPT !.at = place, !.then = "wait", !.job = j, !.token = t]
      <4>2. issued[j] \in Nat /\ t \in Nat
        BY DEF OInv, IInv, TypeOK
      <4>3. x \in CallRecord /\ Carried(x, Enqueued, issued)
        <5>1. /\ x.at = place /\ x.todo = {} /\ x.then = "wait" /\ x.job = j /\ x.token = t
              /\ x \in [at : Places, todo : SUBSET Jobs, then : {"return", "claim", "wait"},
                        job : Jobs \cup {NoJob}, token : Nat]
          BY <4>2 DEF Idle, Places
        <5> HIDE DEF x
        <5>2. QED
          BY <5>1 DEF CallRecord, Carried
      <4> HIDE DEF x
      <4>4. QED
        BY <4>1, <4>3 DEF x
    <3>3. QED
      BY <3>1, <3>2
  <2>6. QED
    BY <1>7, <2>1, <2>2, <2>3, <2>4, <2>5 DEF CallStarts
<1>8. ASSUME CallGoesOn(c)
      PROVE  Placed
  <2>1. CASE ResumeNetworkWaits(c) \/ ResumeNext(c)
    <3>1. BlockedWaits \subseteq Enqueued /\ call[c].todo \subseteq Enqueued
      BY <1>1 DEF BlockedWaits, OInv, TablesInv, Carried
    <3>2. QED
      BY <1>5, <2>1, <3>1 DEF ResumeNetworkWaits, ResumeNext
  <2>2. CASE Unblock(c)
    <3>1. PICK j \in Jobs : call' = [call EXCEPT ![c].at = "resumeNext", ![c].todo = @ \ {j}]
      BY <2>2 DEF Unblock
    <3> DEFINE x == [call[c] EXCEPT !.at = "resumeNext", !.todo = call[c].todo \ {j}]
    <3>2. x \in CallRecord /\ Carried(x, Enqueued, issued)
      BY <1>1 DEF CallRecord, Carried, Places
    <3>3. call' = [call EXCEPT ![c] = x]
      BY <1>1, <3>1
    <3> HIDE DEF x
    <3>4. QED
      BY <3>2, <3>3
  <2>3. CASE ParkInReconcile(c)
    BY <1>3, <2>3 DEF ParkInReconcile, Places
  <2>4. CASE ClearStaleBlockedFlags(c) \/ ParkInDeclare(c)
    BY <1>4, <2>4 DEF ClearStaleBlockedFlags, ParkInDeclare
  <2>5. CASE ClaimAfterReconcile(c) \/ ResumeCleared(c) \/ Block(c)
    BY <1>2, <2>5 DEF ClaimAfterReconcile, ResumeCleared, Block
  <2>6. CASE WaitDeclared(c)
    <3>1. /\ call[c].job \in Jobs /\ call[c].token \in 1 .. issued[call[c].job]
          /\ WaitJob(c, call[c].job, call[c].token)
      BY <1>1, <2>6 DEF WaitDeclared, Carried
    <3>2. QED
      BY <1>6, <3>1
  <2>7. QED
    BY <1>8, <2>1, <2>2, <2>3, <2>4, <2>5, <2>6 DEF CallGoesOn
<1>9. QED
  BY <1>7, <1>8

LEMMA CallsStep ==
  ASSUME OInv, [ONext]_offlineVars
  PROVE  CallsInv'
<1>1. /\ call \in [Calls -> CallRecord]
      /\ \A c \in Calls : Carried(call[c], Enqueued, issued)
  BY DEF OInv, CallsInv
<1>2. ASSUME NEW x \in CallRecord, Carried(x, Enqueued, issued)
      PROVE  Carried(x, Enqueued', issued')
  <2>1. Enqueued \subseteq Enqueued' /\ \A j \in Jobs : issued'[j] >= issued[j]
    BY CoordinatorKeepsRows DEF OInv
  <2>2. /\ \A j \in Jobs : issued[j] \in Nat
        /\ \A j \in Jobs : issued'[j] \in Nat
    BY CoordinatorKeepsRows DEF OInv, IInv, TypeOK
  <2>3. x.token \in Nat
    BY DEF CallRecord
  <2>4. QED
    BY <1>2, <2>1, <2>2, <2>3 DEF Carried
<1>3. ASSUME NEW c \in Calls, NEW x \in CallRecord, Carried(x, Enqueued, issued),
             call' = [call EXCEPT ![c] = x]
      PROVE  CallsInv'
  <2>1. call' \in [Calls -> CallRecord]
    BY <1>1, <1>3
  <2>2. \A d \in Calls : Carried(call'[d], Enqueued', issued')
    BY <1>1, <1>2, <1>3
  <2>3. QED
    BY <2>1, <2>2 DEF CallsInv
<1>4. CASE call' = call
  BY <1>1, <1>2, <1>4 DEF CallsInv
<1>5. CASE \E c \in Calls : CallStarts(c) \/ CallGoesOn(c)
  BY <1>3, <1>4, <1>5, CallUpdate
<1>6. CASE ProcessDies
  BY <1>6, IdleRecord DEF ProcessDies, CallsInv
<1>7. ASSUME NEW c \in Calls, Restart(c)
      PROVE  CallsInv'
  <2> DEFINE x == [call[c] EXCEPT !.at = "reconcile"]
  <2>1. x \in CallRecord /\ Carried(x, Enqueued, issued)
    BY <1>1 DEF CallRecord, Carried, Places
  <2>2. call' = [call EXCEPT ![c] = x]
    BY <1>1, <1>7 DEF Restart, Goto
  <2> HIDE DEF x
  <2>3. QED
    BY <1>3, <2>1, <2>2
<1>8. CASE OtherEngineCall \/ UNCHANGED offlineVars
  BY <1>4, <1>8 DEF OtherEngineCall, offlineVars
<1>9. QED
  BY <1>5, <1>6, <1>7, <1>8 DEF ONext

\* A job is classified only once it exists, flagged only while it is classified, and
\* remembered as waiting for the network only if it exists.
LEMMA TablesStep ==
  ASSUME OInv, [ONext]_offlineVars
  PROVE  TablesInv'
<1>1. Enqueued \subseteq Enqueued' /\ Enqueued' \subseteq Jobs
  BY CoordinatorKeepsRows DEF OInv, Enqueued
<1>2. /\ connectivity \in Observations /\ blocked \subseteq required
      /\ required \subseteq Enqueued /\ Enqueued \subseteq Jobs
      /\ up \in BOOLEAN /\ crashes \in 0 .. MaxCrashes /\ waitsForNet \subseteq Jobs
  BY DEF OInv, TablesInv, Enqueued
<1>3. StillWaiting(waitsForNet) \subseteq Jobs /\ Parkable \subseteq required
  BY <1>2 DEF StillWaiting, Parkable
<1>4. \A j \in Jobs : \A t \in 1 .. issued[j] : j \in Enqueued
  <2> SUFFICES ASSUME NEW j \in Jobs, NEW t \in 1 .. issued[j]
               PROVE  job[j].state # "absent"
    BY DEF Enqueued
  <2>1. RowInv(job[j], issued[j]) /\ issued[j] \in Nat
    BY DEF OInv, IInv, RowsInv, TypeOK
  <2>2. AbsentRow.attemptCount = 0
    BY DEF AbsentRow
  <2>3. QED
    BY <2>1, <2>2 DEF RowInv
<1>5. ASSUME NEW c \in Calls, NEW j \in Jobs, NEW t, WaitJob(c, j, t)
      PROVE  waitsForNet' \subseteq Jobs
  BY <1>2, <1>5 DEF WaitJob
<1>6. ASSUME NEW c \in Calls, NEW todo, ResumeFirst(c, todo)
      PROVE  waitsForNet' \subseteq Jobs
  BY <1>2, <1>3, <1>6 DEF ResumeFirst
<1>7. ASSUME NEW c \in Calls, CallStarts(c)
      PROVE  TablesInv'
  <2>1. CASE \/ \E observation \in Observations : SetConnectivity(c, observation)
             \/ StartClaim(c)
             \/ \E j \in Jobs : ClearNetworkRequirement(c, j)
    BY <1>1, <1>2, <2>1 DEF SetConnectivity, StartClaim, ClearNetworkRequirement, TablesInv, netVars
  <2>2. CASE \E j \in Jobs : DeclareNetworkRequired(c, j)
    BY <1>1, <1>2, <2>2 DEF DeclareNetworkRequired, TablesInv, Enqueued
  <2>3. CASE \E j \in Jobs : \E t \in 1 .. issued[j] : WaitForNetwork(c, j, t)
    BY <1>1, <1>2, <1>4, <1>5, <2>3 DEF WaitForNetwork, TablesInv
  <2>4. QED
    BY <1>7, <2>1, <2>2, <2>3 DEF CallStarts
<1>8. ASSUME NEW c \in Calls, CallGoesOn(c)
      PROVE  TablesInv'
  <2>1. CASE ResumeNetworkWaits(c) \/ ResumeNext(c)
    BY <1>1, <1>2, <1>6, <2>1 DEF ResumeNetworkWaits, ResumeNext, TablesInv, netVars
  <2>2. CASE Unblock(c) \/ ClearStaleBlockedFlags(c) \/ ClaimAfterReconcile(c) \/ Block(c)
    BY <1>1, <1>2, <2>2 DEF Unblock, ClearStaleBlockedFlags, ClaimAfterReconcile, Block, TablesInv,
                            netVars
  <2>3. CASE ParkInReconcile(c) \/ ParkInDeclare(c)
    BY <1>1, <1>2, <1>3, <2>3 DEF ParkInReconcile, ParkInDeclare, ParkQueuedNetworkJobs, TablesInv
  <2>4. CASE ResumeCleared(c)
    BY <1>1, <1>2, <1>3, <2>4 DEF ResumeCleared, TablesInv, netVars
  <2>5. CASE WaitDeclared(c)
    <3>1. call[c].job \in Jobs
      BY <2>5 DEF WaitDeclared, OInv, CallsInv, Carried
    <3>2. QED
      BY <1>1, <1>2, <1>5, <2>5, <3>1 DEF WaitDeclared, TablesInv, netVars
  <2>6. QED
    BY <1>8, <2>1, <2>2, <2>3, <2>4, <2>5 DEF CallGoesOn
<1>9. CASE ProcessDies
  <2>1. crashes' \in 0 .. MaxCrashes
    BY <1>2, <1>9, CrashesAssumption DEF ProcessDies
  <2>2. QED
    BY <1>1, <1>2, <1>9, <2>1 DEF ProcessDies, netVars, TablesInv
<1>10. CASE (\E c \in Calls : Restart(c)) \/ OtherEngineCall \/ UNCHANGED offlineVars
  <2>1. UNCHANGED <<connectivity, required, blocked, crashes>>
    BY <1>10 DEF Restart, OtherEngineCall, offlineVars, netVars
  <2>2. up' \in BOOLEAN /\ waitsForNet' \subseteq Jobs
    BY <1>2, <1>3, <1>10 DEF Restart, OtherEngineCall, offlineVars
  <2>3. QED
    BY <1>1, <1>2, <2>1, <2>2 DEF TablesInv
<1>11. QED
  BY <1>7, <1>8, <1>9, <1>10 DEF ONext

LEMMA OfflineInductive == OSpec => []OInv
<1>1. OInit => OInv
  <2> SUFFICES ASSUME OInit PROVE OInv
    OBVIOUS
  <2>1. IInv
    BY InitIInv DEF OInit
  <2>2. CallsInv
    BY IdleRecord DEF OInit, CallsInv
  <2>3. TablesInv
    BY CrashesAssumption DEF OInit, TablesInv, Observations
  <2>4. QED
    BY <2>1, <2>2, <2>3 DEF OInv
<1>2. OInv /\ [ONext]_offlineVars => OInv'
  BY CoordinatorKeepsRows, CallsStep, TablesStep DEF OInv
<1>3. QED
  BY <1>1, <1>2, PTL DEF OSpec

(***************************************************************************)
(* What Offline Execution keeps                                            *)
(***************************************************************************)

\* The tables of Offline Execution and of the engine under it have their types, always:
\* only jobs that exist are classified, and only classified ones are flagged, however
\* calls overlap and wherever the process dies.
THEOREM OfflineTypes == OSpec => []OTypeOK
<1>1. OInv => OTypeOK
  BY DEF OInv, IInv, CallsInv, TablesInv, CallRecord, OTypeOK
<1>2. QED
  BY <1>1, OfflineInductive, PTL

\* Parking and resuming around the engine, in any interleaving with it, leave leases
\* fenced, budgets kept, results with their authors and requests with their attempts.
THEOREM OfflineFences ==
  OSpec => [](/\ LeaseIsLatestClaim /\ AttemptsWithinBudget
              /\ ResultFromLatestClaim /\ RequestsNotInherited)
<1>1. OInv => /\ LeaseIsLatestClaim /\ AttemptsWithinBudget
              /\ ResultFromLatestClaim /\ RequestsNotInherited
  BY DEF OInv, IInv, RowsInv, RowInv, LeaseIsLatestClaim, AttemptsWithinBudget,
         ResultFromLatestClaim, RequestsNotInherited
<1>2. QED
  BY <1>1, OfflineInductive, PTL

\* ... and every checkpoint where it is.
THEOREM OfflineCheckpoints == OSpec => CheckpointsNeverRegress
<1>1. OInv /\ [ONext]_offlineVars => [\A j \in Jobs : job'[j].checkpoint >= job[j].checkpoint]_vars
  BY CoordinatorKeepsRows DEF OInv
<1>2. QED
  BY <1>1, OfflineInductive, PTL DEF OSpec, CheckpointsNeverRegress

\* The engine under Offline Execution implements the abstract work queue: to whoever
\* submits work, a parked job is one nobody has taken yet.
THEOREM OfflineRefinement == OSpec => ImplementsWorkQueue
<1>1. OInit => Queue!Init
  BY InitRefines DEF OInit
<1>2. OInv /\ [ONext]_offlineVars => [Queue!Next]_Queue!queueVars
  <2> SUFFICES ASSUME OInv, [ONext]_offlineVars
               PROVE  Queue!Next \/ UNCHANGED Queue!queueVars
    OBVIOUS
  <2>0. IInv /\ CallsInv
    BY DEF OInv
  <2>1. CASE EngineNext
    BY <2>0, <2>1, EngineRefines
  <2>2. CASE \E j \in Jobs : ClockStep(j)
    BY <2>0, <2>2, ClockRefines
  <2>3. CASE \E rows \in SUBSET Running : Recover(rows)
    BY <2>0, <2>3, RecoverRefines
  <2>4. CASE ParkQueuedNetworkJobs
    BY <2>0, <2>4, ParkingRefines
  <2>5. CASE UNCHANGED vars
    BY <2>5 DEF vars, Queue!queueVars
  <2>6. QED
    BY <2>0, <2>1, <2>2, <2>3, <2>4, <2>5, CoordinatorStep
<1>3. QED
  BY <1>1, <1>2, OfflineInductive, PTL DEF OSpec, Queue!Spec, ImplementsWorkQueue

\* The list of waits may be long out of date when its end is reached: it never brings
\* back a job that was completed, cancelled or skipped meanwhile.
THEOREM SettledForGood == OSpec => SettledJobsStaySettled
<1>1. OInv /\ [ONext]_offlineVars =>
        [\A j \in Jobs : job[j].state \in Terminal \ {"failed"} =>
            job'[j].state = job[j].state]_offlineVars
  BY CoordinatorKeepsRows DEF OInv, CoordinatedMove, Move, Terminal, Held
<1>2. QED
  BY <1>1, OfflineInductive, PTL DEF OSpec, SettledJobsStaySettled

\* A call takes a job out of "running" only as the waitForNetwork() of its worker.
LEMMA OnlyItsOwnWait ==
  ASSUME OInv, NEW c \in Calls, CallStarts(c) \/ CallGoesOn(c),
         NEW j \in Jobs, job[j].state = "running", job'[j].state # "running"
  PROVE  call'[c] # call[c] /\ call'[c].at = "block" /\ call'[c].job = j
<1>1. /\ call[c] \in CallRecord /\ call \in [Calls -> CallRecord]
      /\ Carried(call[c], Enqueued, issued) /\ job \in [Jobs -> JobRow]
  BY DEF OInv, CallsInv, IInv, TypeOK
<1>2. ~ UNCHANGED vars /\ ~ UNCHANGED job
  BY DEF vars
<1>3. ~ ParkQueuedNetworkJobs
  BY ParkingKeeps DEF OInv
<1>4. \A k \in Jobs : ~ Resume(k, TRUE) /\ ~ Claim(k)
  <2> SUFFICES ASSUME NEW k \in Jobs, Resume(k, TRUE) \/ Claim(k) PROVE FALSE
    OBVIOUS
  <2>1. job[k].state \in {"queued"} \cup Held /\ k # j
    BY DEF Resume, Claim, Runnable, Held
  <2>2. job'[j] = job[j]
    BY <1>1, <2>1 DEF Resume, Claim, Update
  <2>3. QED
    BY <2>2
<1>5. ASSUME NEW k \in Jobs, NEW t, WaitJob(c, k, t), call[c].at # "block"
      PROVE  call'[c] # call[c] /\ call'[c].at = "block" /\ call'[c].job = j
  <2>1. Wait(k, t, TRUE) /\ call' = [call EXCEPT ![c] = [Idle EXCEPT !.at = "block", !.job = k]]
    BY <1>2, <1>5 DEF WaitJob
  <2>2. k = j
    BY <1>1, <2>1 DEF Wait, Update
  <2>3. call'[c] = [Idle EXCEPT !.at = "block", !.job = j]
    BY <1>1, <2>1, <2>2
  <2>4. QED
    BY <1>5, <2>3 DEF Idle
<1>6. CASE CallStarts(c)
  <2>1. PICK k \in Jobs : \E t \in 1 .. issued[k] : WaitForNetwork(c, k, t)
    BY <1>2, <1>6 DEF CallStarts, SetConnectivity, StartClaim, DeclareNetworkRequired,
                      ClearNetworkRequirement
  <2>2. call[c] = Idle /\ \E t \in 1 .. issued[k] : WaitJob(c, k, t)
    BY <1>2, <2>1 DEF WaitForNetwork
  <2>3. QED
    BY <1>5, <2>2, IdleRecord
<1>7. CASE CallGoesOn(c)
  <2>1. \A todo : ~ ResumeFirst(c, todo)
    BY <1>2, <1>4 DEF ResumeFirst
  <2>2. ~ ResumeCleared(c)
    BY <1>1, <1>4 DEF ResumeCleared, Carried
  <2>3. WaitDeclared(c)
    BY <1>2, <1>3, <1>4, <1>7, <2>1, <2>2
       DEF CallGoesOn, ResumeNetworkWaits, ResumeNext, Unblock, ParkInReconcile,
           ClearStaleBlockedFlags, ClaimAfterReconcile, ClaimNext, ParkInDeclare, Block
  <2>4. call[c].job \in Jobs /\ call[c].at = "wait" /\ WaitJob(c, call[c].job, call[c].token)
    BY <1>1, <2>3 DEF WaitDeclared, Carried
  <2>5. QED
    BY <1>5, <2>4
<1>8. QED
  BY <1>6, <1>7

\* However many calls overlap: going offline takes no job from its worker.
THEOREM NobodyIsParkedAtWork == OSpec => RunningJobsUndisturbed
<1>1. OInv /\ [ONext]_offlineVars =>
        [\A j \in Jobs :
           (up /\ call' # call /\ job[j].state = "running" /\ job'[j].state # "running")
              => \E c \in Calls : /\ call'[c] # call[c]
                                 /\ call'[c].at = "block" /\ call'[c].job = j]_offlineVars
  <2> SUFFICES ASSUME OInv, ONext, NEW j \in Jobs, up, call' # call,
                      job[j].state = "running", job'[j].state # "running"
               PROVE  \E c \in Calls : /\ call'[c] # call[c]
                                      /\ call'[c].at = "block" /\ call'[c].job = j
    BY DEF offlineVars
  <2>1. \E c \in Calls : CallStarts(c) \/ CallGoesOn(c)
    BY DEF ONext, ProcessDies, Restart, OtherEngineCall, vars
  <2>2. QED
    BY <2>1, OnlyItsOwnWait
<1>2. QED
  BY <1>1, OfflineInductive, PTL DEF OSpec, RunningJobsUndisturbed

(***************************************************************************)
(* Waits that a reconciliation will find, when calls do not overlap        *)
(***************************************************************************)

\* What the one call under way still has to do for the wait it is about: mark it, or end
\* it.  A job just resumed neither waits nor runs again before its flag is taken off,
\* since a claim would have to come through another call.
Owed(c) ==
  /\ call[c].then = "wait" => call[c].job \in required
  /\ call[c].at = "block" =>
       /\ call[c].job \in required
       /\ call[c].job \in waitsForNet => job[call[c].job].state = "waiting"
       /\ waitsForNet \ {call[c].job} \subseteq BlockedWaits
  /\ call[c].at = "resumeOne" =>
       /\ job[call[c].job].state = "waiting"
       /\ waitsForNet \ {call[c].job} \subseteq BlockedWaits
  /\ call[c].at = "unblock" =>
       \A j \in Jobs : NextInQueue(j, call[c].todo) => job[j].state \notin {"waiting", "running"}

AllMarked == waitsForNet \subseteq BlockedWaits

WaitsInv ==
  /\ up
  /\ \A c \in Calls : Owed(c)
  /\ (\A c \in Calls : call[c].at \notin {"block", "resumeOne"}) => AllMarked

\* A list of jobs has one that comes next at most.
LEMMA OneIsNext ==
  ASSUME OInv, NEW S \in SUBSET Enqueued, NEW j, NEW k, NextInQueue(j, S), NextInQueue(k, S)
  PROVE  j = k
<1>1. /\ j \in Enqueued /\ k \in Enqueued
      /\ job[j].queueOrder <= job[k].queueOrder /\ job[k].queueOrder <= job[j].queueOrder
  BY DEF NextInQueue
<1>2. job[j].queueOrder \in Nat /\ job[k].queueOrder \in Nat
  BY <1>1 DEF OInv, IInv, TypeOK, JobRow, Enqueued
<1>3. job[j].queueOrder = job[k].queueOrder
  BY <1>1, <1>2
<1>4. QED
  BY <1>1, <1>3 DEF OInv, IInv, PlacesInv

\* No operation that reaches the engine past the coordinator starts a job, makes an
\* idle one wait, or moves one in the queue.
LEMMA OthersStartNothing ==
  ASSUME OInv, OtherEngineCall, NEW j \in Enqueued
  PROVE  /\ job'[j].state \in {"waiting", "running"} => job[j].state \in {"waiting", "running"}
         /\ job'[j].queueOrder = job[j].queueOrder
<1>1. IInv /\ IInv' /\ j \in Jobs /\ job[j].state # "absent" /\ issued[j] \in Nat
  <2>1. IInv /\ CallsInv /\ ONext
    BY DEF OInv, ONext
  <2>2. QED
    BY <2>1, CoordinatorKeepsRows DEF IInv, TypeOK, Enqueued
<1>2. CASE \E k \in Running : Recover({k})
  <2>1. PICK rows \in SUBSET Running : Recover(rows)
    BY <1>2
  <2>2. QED
    BY <1>1, <2>1, RecoverKeeps
<1>3. CASE ~ \E k \in Running : Recover({k})
  <2>1. EngineNext \/ \E k \in Jobs : ClockStep(k)
    BY <1>3 DEF OtherEngineCall, EngineNext, ClockStep
  <2>2. issued' = issued
    BY <1>3 DEF OtherEngineCall, EnqueueStep, Enqueue, WorkerStep, Heartbeat, Complete, Fail,
                Checkpoint, Wait, AcknowledgePause, AcknowledgeCancel, ControlStep,
                AddDependency, RequestPause, RequestCancel, Resume, Retry, Skip, SetPriority,
                BecomeAvailable, Update
  <2>3. Moved(job[j], job'[j])
    BY <1>1, <2>1, NextIInv DEF Next
  <2>4. Queue!Next \/ UNCHANGED Queue!queueVars
    BY <1>1, <2>1, EngineRefines, ClockRefines
  <2>5. job'[j].state = "running" => job[j].state = "running"
    BY <1>1, <2>2, <2>4, RunningStays
  <2>6. QED
    BY <1>1, <2>3, <2>5 DEF Moved, Move, Held
<1>4. QED
  BY <1>2, <1>3

\* What a step of call c has to leave behind.
Settles(c) ==
  /\ Owed(c)'
  /\ call'[c].at \notin {"block", "resumeOne"} => AllMarked'

\* jobs.wait() of a waitForNetwork() whose job is classified
LEMMA WaitJobSettles ==
  ASSUME OInv, AllMarked, NEW c \in Calls, NEW j \in required, NEW t, WaitJob(c, j, t),
         required' = required, blocked' = blocked
  PROVE  Settles(c)
<1>1. j \in Jobs /\ job \in [Jobs -> JobRow] /\ call \in [Calls -> CallRecord]
  BY DEF OInv, TablesInv, Enqueued, IInv, TypeOK, CallsInv
<1>2. CASE Wait(j, t, TRUE)
  <2> DEFINE x == [Idle EXCEPT !.at = "block", !.job = j]
  <2>1. x.at = "block" /\ x.job = j /\ x.then = "return"
    BY DEF Idle
  <2>2. WaitJob(c, j, t) /\ RequireLease(j, t)
    BY <1>2 DEF Wait
  <2>3. call'[c] = x /\ waitsForNet' = waitsForNet \cup {j}
    BY <1>1, <2>2 DEF WaitJob
  <2>4. job'[j].state = "waiting" /\ \A k \in Jobs \ {j} : job'[k] = job[k]
    BY <1>1, <1>2 DEF Wait, Update, Released, Unleased, JobRow
  <2> HIDE DEF x
  <2>5. waitsForNet' \ {j} \subseteq BlockedWaits'
    BY <2>3, <2>4 DEF AllMarked, BlockedWaits, OInv, TablesInv
  <2>6. QED
    BY <2>1, <2>3, <2>4, <2>5 DEF Settles, Owed
<1>3. CASE ~ Wait(j, t, TRUE)
  <2>1. call'[c] = Idle /\ UNCHANGED <<vars, waitsForNet>>
    BY <1>1, <1>3 DEF WaitJob, Return
  <2>2. AllMarked'
    BY <2>1 DEF AllMarked, BlockedWaits, vars
  <2>3. QED
    BY <2>1, <2>2, IdleRecord DEF Settles, Owed
<1>4. QED
  BY <1>2, <1>3

\* One turn of the loop that resumes the waits
LEMMA ResumeSettles ==
  ASSUME OInv, AllMarked, NEW c \in Calls, Owed(c), NEW todo \in SUBSET Enqueued,
         ResumeFirst(c, todo), UNCHANGED netVars
  PROVE  Settles(c)
<1>1. /\ job \in [Jobs -> JobRow] /\ call \in [Calls -> CallRecord] /\ call[c] \in CallRecord
      /\ Enqueued \subseteq Jobs /\ waitsForNet \subseteq Jobs
  BY DEF OInv, TablesInv, Enqueued, IInv, TypeOK, CallsInv
<1>2. required' = required /\ blocked' = blocked
  BY DEF netVars
<1>3. CASE Goto(c, "clearStale") /\ UNCHANGED <<vars, waitsForNet>>
  <2>1. /\ call'[c].at = "clearStale" /\ call'[c].then = call[c].then
        /\ call'[c].job = call[c].job
    BY <1>1, <1>3 DEF Goto, CallRecord
  <2>2. AllMarked'
    BY <1>2, <1>3 DEF AllMarked, BlockedWaits, vars
  <2>3. QED
    BY <1>2, <2>1, <2>2 DEF Settles, Owed
<1>4. CASE Return(c) /\ UNCHANGED <<vars, waitsForNet>>
  <2>1. call'[c] = Idle
    BY <1>1, <1>4 DEF Return
  <2>2. AllMarked'
    BY <1>2, <1>4 DEF AllMarked, BlockedWaits, vars
  <2>3. QED
    BY <2>1, <2>2, IdleRecord DEF Settles, Owed
<1>5. ASSUME NEW j \in Jobs, NextInQueue(j, todo), Resume(j, TRUE),
             call' = [call EXCEPT ![c].at = "unblock", ![c].todo = todo],
             waitsForNet' = StillWaiting(waitsForNet)
      PROVE  Settles(c)
  <2>1. /\ call'[c].at = "unblock" /\ call'[c].then = call[c].then
        /\ call'[c].job = call[c].job /\ call'[c].todo = todo
    BY <1>1, <1>5 DEF CallRecord
  <2>2. /\ job'[j].state = "queued" /\ job'[j].queueOrder = job[j].queueOrder
        /\ \A k \in Jobs \ {j} : job'[k] = job[k]
    BY <1>1, <1>5 DEF Resume, Update, Released, Unleased, JobRow
  <2>3. AllMarked'
    BY <1>1, <1>2, <1>5, <2>2 DEF AllMarked, BlockedWaits, StillWaiting
  <2>4. ASSUME NEW k \in Jobs, NextInQueue(k, todo)'
        PROVE  job'[k].state \notin {"waiting", "running"}
    <3>1. NextInQueue(k, todo)
      BY <1>1, <2>2, <2>4 DEF NextInQueue
    <3>2. k = j
      BY <1>5, <3>1, OneIsNext
    <3>3. QED
      BY <2>2, <3>2
  <2>5. QED
    BY <1>2, <2>1, <2>3, <2>4 DEF Settles, Owed, NextInQueue
<1>6. QED
  BY <1>3, <1>4, <1>5 DEF ResumeFirst

\* Parking marks the waits it makes in the same transaction.
LEMMA ParkingMarks ==
  ASSUME OInv, AllMarked, ParkQueuedNetworkJobs
  PROVE  AllMarked' /\ required' = required
<1>1. /\ waitsForNet' = waitsForNet \cup Parkable /\ blocked' = blocked \cup Parkable
      /\ required' = required
  BY DEF ParkQueuedNetworkJobs
<1>2. \A j \in Parkable : j \in required /\ job'[j].state = "waiting"
  BY ParkingKeeps DEF OInv, TablesInv, Enqueued, Parkable
<1>3. \A j \in BlockedWaits : j \in required \cap blocked /\ job'[j].state = "waiting"
  BY ParkingKeeps DEF OInv, TablesInv, Enqueued, Parkable, BlockedWaits
<1>4. QED
  BY <1>1, <1>2, <1>3 DEF AllMarked, BlockedWaits

LEMMA StartSettles ==
  ASSUME OInv, AllMarked, NEW c \in Calls, CallStarts(c)
  PROVE  Settles(c)
<1>1. /\ call \in [Calls -> CallRecord] /\ required \subseteq Jobs /\ waitsForNet \subseteq Jobs
  BY DEF OInv, TablesInv, Enqueued, CallsInv
<1>2. ASSUME call'[c].then # "wait", call'[c].at \notin {"block", "resumeOne", "unblock"},
             UNCHANGED <<vars, blocked, waitsForNet>>, required \subseteq required'
      PROVE  Settles(c)
  BY <1>2 DEF Settles, Owed, AllMarked, BlockedWaits, vars
<1>3. CASE \/ \E observation \in Observations : SetConnectivity(c, observation)
           \/ StartClaim(c)
           \/ \E j \in Jobs : DeclareNetworkRequired(c, j)
  <2>1. /\ call'[c].at \in {"idle", "reconcile", "park"} /\ call'[c].then \in {"return", "claim"}
        /\ UNCHANGED <<vars, blocked, waitsForNet>> /\ required \subseteq required'
    BY <1>1, <1>3 DEF SetConnectivity, StartClaim, DeclareNetworkRequired, Goto, netVars, vars, Idle
  <2>2. QED
    BY <1>2, <2>1
<1>4. ASSUME NEW j \in Jobs, ClearNetworkRequirement(c, j)
      PROVE  Settles(c)
  <2>1. /\ call[c] = Idle /\ required' = required \ {j} /\ blocked' = blocked \ {j}
        /\ job' = job /\ waitsForNet' = waitsForNet
    BY <1>4 DEF ClearNetworkRequirement, vars
  <2>2. waitsForNet \ {j} \subseteq BlockedWaits'
    BY <2>1 DEF AllMarked, BlockedWaits
  <2>3. CASE j \in BlockedWaits
    <3> DEFINE x == [Idle EXCEPT !.at = "resumeOne", !.job = j]
    <3>1. x.at = "resumeOne" /\ x.job = j /\ x.then = "return"
      BY DEF Idle
    <3>2. call'[c] = x
      BY <1>1, <1>4, <2>1, <2>3 DEF ClearNetworkRequirement
    <3>3. job'[j].state = "waiting"
      BY <2>1, <2>3 DEF BlockedWaits
    <3> HIDE DEF x
    <3>4. QED
      BY <2>1, <2>2, <3>1, <3>2, <3>3 DEF Settles, Owed
  <2>4. CASE j \notin BlockedWaits
    <3>1. call'[c] = Idle
      BY <1>4, <2>1, <2>4 DEF ClearNetworkRequirement
    <3>2. AllMarked'
      BY <2>1, <2>2, <2>4 DEF AllMarked
    <3>3. QED
      BY <3>1, <3>2, IdleRecord DEF Settles, Owed
  <2>5. QED
    BY <2>3, <2>4
<1>5. ASSUME NEW j \in Jobs, NEW t \in 1 .. issued[j], WaitForNetwork(c, j, t)
      PROVE  Settles(c)
  <2>1. CASE j \in required
    <3>1. WaitJob(c, j, t) /\ required' = required /\ blocked' = blocked
      BY <1>5, <2>1 DEF WaitForNetwork
    <3>2. QED
      BY <2>1, <3>1, WaitJobSettles
  <2>2. CASE j \notin required
    <3>1. PICK place \in {"wait", "park"} :
            call' = [call EXCEPT ![c] =
                       [Idle EXCEPT !.at = place, !.then = "wait", !.job = j, !.token = t]]
      BY <1>5, <2>2 DEF WaitForNetwork
    <3>2. /\ required' = required \cup {j} /\ blocked' = blocked
          /\ UNCHANGED <<vars, waitsForNet>>
      BY <1>5, <2>2 DEF WaitForNetwork
    <3>3. call'[c].at = place /\ call'[c].job = j
      BY <1>1, <3>1 DEF Idle
    <3>4. AllMarked'
      BY <3>2 DEF AllMarked, BlockedWaits, vars
    <3>5. QED
      BY <3>2, <3>3, <3>4 DEF Settles, Owed
  <2>3. QED
    BY <2>1, <2>2
<1>6. QED
  BY <1>3, <1>4, <1>5 DEF CallStarts

LEMMA GoingOnSettles ==
  ASSUME OInv, NEW c \in Calls, Owed(c), CallGoesOn(c),
         call[c].at \notin {"block", "resumeOne"} => AllMarked
  PROVE  Settles(c)
<1>1. /\ call \in [Calls -> CallRecord] /\ call[c] \in CallRecord
      /\ Carried(call[c], Enqueued, issued) /\ job \in [Jobs -> JobRow]
      /\ required \subseteq Enqueued /\ Enqueued \subseteq Jobs /\ waitsForNet \subseteq Jobs
  BY DEF OInv, TablesInv, Enqueued, CallsInv, IInv, TypeOK
<1>2. ASSUME AllMarked', required' = required, call' = [call EXCEPT ![c] = After(c)]
      PROVE  Settles(c)
  <2>1. call'[c] = After(c)
    BY <1>1, <1>2
  <2>2. \/ After(c) = Idle
        \/ /\ After(c).at = call[c].then /\ After(c).then = call[c].then
           /\ After(c).job = call[c].job
    BY <1>1 DEF After, CallRecord
  <2>3. call[c].then \in {"return", "claim", "wait"}
    BY <1>1 DEF CallRecord
  <2>4. QED
    BY <1>2, <2>1, <2>2, <2>3, IdleRecord DEF Settles, Owed
<1>3. ASSUME AllMarked', Return(c)
      PROVE  Settles(c)
  <2>1. call'[c] = Idle
    BY <1>1, <1>3 DEF Return
  <2>2. QED
    BY <1>3, <2>1, IdleRecord DEF Settles, Owed
<1>4. CASE ResumeNetworkWaits(c) \/ ResumeNext(c)
  <2>1. AllMarked /\ UNCHANGED netVars
    BY <1>4 DEF ResumeNetworkWaits, ResumeNext
  <2>2. PICK todo \in {BlockedWaits, call[c].todo} : ResumeFirst(c, todo)
    BY <1>4 DEF ResumeNetworkWaits, ResumeNext
  <2>3. todo \subseteq Enqueued
    BY <1>1, <2>2 DEF BlockedWaits, Carried
  <2>4. QED
    BY <2>1, <2>2, <2>3, ResumeSettles
<1>5. CASE Unblock(c)
  <2>1. PICK j \in Jobs :
          /\ NextInQueue(j, call[c].todo) /\ blocked' = blocked \ {j}
          /\ call' = [call EXCEPT ![c].at = "resumeNext", ![c].todo = @ \ {j}]
    BY <1>5 DEF Unblock
  <2>2. /\ call[c].at = "unblock" /\ UNCHANGED <<vars, required, waitsForNet>>
    BY <1>5 DEF Unblock
  <2>3. /\ call'[c].at = "resumeNext" /\ call'[c].then = call[c].then
        /\ call'[c].job = call[c].job
    BY <1>1, <2>1 DEF CallRecord
  <2>4. j \notin BlockedWaits
    BY <2>1, <2>2 DEF Owed, BlockedWaits
  <2>5. AllMarked'
    BY <1>5, <2>1, <2>2, <2>4 DEF AllMarked, BlockedWaits, vars
  <2>6. QED
    BY <2>2, <2>3, <2>5 DEF Settles, Owed
<1>6. CASE ParkInReconcile(c)
  <2>1. AllMarked' /\ required' = required
    BY <1>6, ParkingMarks DEF ParkInReconcile
  <2>2. /\ call'[c].at = "clearStale" /\ call'[c].then = call[c].then
        /\ call'[c].job = call[c].job
    BY <1>1, <1>6 DEF ParkInReconcile, Goto, CallRecord
  <2>3. QED
    BY <2>1, <2>2 DEF Settles, Owed
<1>7. CASE ClearStaleBlockedFlags(c)
  <2>1. AllMarked'
    BY <1>7 DEF ClearStaleBlockedFlags, AllMarked, BlockedWaits, vars
  <2>2. QED
    BY <1>2, <1>7, <2>1 DEF ClearStaleBlockedFlags
<1>8. CASE ParkInDeclare(c)
  <2>1. AllMarked' /\ required' = required
    BY <1>8, ParkingMarks DEF ParkInDeclare
  <2>2. QED
    BY <1>2, <1>8, <2>1 DEF ParkInDeclare
<1>9. CASE ClaimAfterReconcile(c)
  <2>1. AllMarked /\ Return(c) /\ UNCHANGED <<required, blocked, waitsForNet>>
    BY <1>9 DEF ClaimAfterReconcile, netVars
  <2>2. \A j \in BlockedWaits : job'[j] = job[j]
    BY <1>1, <1>9 DEF ClaimAfterReconcile, ClaimNext, Claim, Runnable, BlockedWaits, vars
  <2>3. AllMarked'
    BY <2>1, <2>2 DEF AllMarked, BlockedWaits
  <2>4. QED
    BY <1>3, <2>1, <2>3
<1>10. CASE ResumeCleared(c)
  <2> DEFINE j == call[c].job
  <2>1. /\ call[c].at = "resumeOne" /\ j \in Jobs /\ Resume(j, TRUE)
        /\ waitsForNet' = StillWaiting(waitsForNet) /\ UNCHANGED <<required, blocked>>
    BY <1>1, <1>10 DEF ResumeCleared, Carried, netVars
  <2>2. job'[j].state = "queued" /\ \A k \in Jobs \ {j} : job'[k] = job[k]
    BY <1>1, <2>1 DEF Resume, Update, Released, Unleased, JobRow
  <2>3. AllMarked'
    BY <1>1, <2>1, <2>2 DEF AllMarked, Owed, BlockedWaits, StillWaiting
  <2>4. QED
    BY <1>3, <1>10, <2>3 DEF ResumeCleared
<1>11. CASE WaitDeclared(c)
  <2>1. /\ call[c].at = "wait" /\ call[c].then = "wait" /\ required' = required
        /\ blocked' = blocked /\ WaitJob(c, call[c].job, call[c].token)
    BY <1>1, <1>11 DEF WaitDeclared, Carried, netVars
  <2>2. QED
    BY <2>1, WaitJobSettles DEF Owed
<1>12. CASE Block(c)
  <2> DEFINE j == call[c].job
  <2>1. /\ call[c].at = "block" /\ blocked' = blocked \cup ({j} \cap required)
        /\ Return(c) /\ UNCHANGED <<vars, required, waitsForNet>>
    BY <1>12 DEF Block
  <2>2. AllMarked'
    BY <2>1 DEF AllMarked, Owed, BlockedWaits, vars
  <2>3. QED
    BY <1>3, <2>1, <2>2
<1>13. QED
  BY <1>4, <1>5, <1>6, <1>7, <1>8, <1>9, <1>10, <1>11, <1>12 DEF CallGoesOn

\* Between two steps of the one call, workers and the Jobs Center may end waits but
\* neither start one nor unmark it.
LEMMA OthersKeepWaits ==
  ASSUME OInv, WaitsInv, OtherEngineCall
  PROVE  WaitsInv'
<1>1. /\ UNCHANGED <<required, blocked, call, up>> /\ Free
      /\ waitsForNet' = StillWaiting(waitsForNet)
  BY DEF OtherEngineCall, netVars
<1>2. AllMarked => AllMarked'
  BY <1>1 DEF AllMarked, BlockedWaits, StillWaiting
<1>3. ASSUME NEW c \in Calls
      PROVE  Owed(c)'
  <2>1. Owed(c) /\ call[c].at # "resumeOne" /\ call' = call
    BY <1>1 DEF WaitsInv, Free, Synchronous
  <2>2. ASSUME call[c].at = "block"
        PROVE  /\ call[c].job \in waitsForNet' => job'[call[c].job].state = "waiting"
               /\ waitsForNet' \ {call[c].job} \subseteq BlockedWaits'
    BY <1>1, <2>1, <2>2 DEF Owed, BlockedWaits, StillWaiting
  <2>3. ASSUME call[c].at = "unblock", NEW j \in Jobs, NextInQueue(j, call[c].todo)'
        PROVE  job'[j].state \notin {"waiting", "running"}
    <3>1. call[c].todo \subseteq Enqueued
      BY DEF OInv, CallsInv, Carried
    <3>2. \A k \in call[c].todo : job'[k].queueOrder = job[k].queueOrder
      BY <3>1, OthersStartNothing
    <3>3. j \in call[c].todo /\ NextInQueue(j, call[c].todo)
      BY <2>1, <2>3, <3>2 DEF NextInQueue
    <3>4. QED
      BY <2>1, <2>3, <3>1, <3>3, OthersStartNothing DEF Owed
  <2>4. QED
    BY <1>1, <2>1, <2>2, <2>3 DEF Owed
<1>4. QED
  BY <1>1, <1>2, <1>3 DEF WaitsInv

LEMMA WaitsStep ==
  ASSUME \A c, d \in Calls : c = d,
         OInv, [ONext]_offlineVars, crashes = 0 => WaitsInv
  PROVE  (crashes = 0 => WaitsInv)'
<1> SUFFICES ASSUME crashes' = 0 PROVE WaitsInv'
  OBVIOUS
<1>1. CASE ProcessDies
  BY <1>1 DEF ProcessDies, OInv, TablesInv
<1>2. CASE ~ ProcessDies
  <2>1. crashes = 0 /\ WaitsInv
    BY <1>2 DEF ONext, CallStarts, CallGoesOn, SetConnectivity, StartClaim, DeclareNetworkRequired,
                ClearNetworkRequirement, WaitForNetwork, ResumeNetworkWaits, ResumeNext, Unblock,
                ParkInReconcile, ParkInDeclare, ParkQueuedNetworkJobs, ClearStaleBlockedFlags,
                ClaimAfterReconcile, ResumeCleared, WaitDeclared, Block, Restart, OtherEngineCall,
                offlineVars
  <2>2. ASSUME NEW c \in Calls, CallStarts(c) \/ CallGoesOn(c)
        PROVE  WaitsInv'
    <3>1. Owed(c) /\ (call[c].at \notin {"block", "resumeOne"} => AllMarked) /\ up
      BY <2>1 DEF WaitsInv
    <3>2. up' = up
      BY <2>2 DEF CallStarts, CallGoesOn, SetConnectivity, StartClaim, DeclareNetworkRequired,
                  ClearNetworkRequirement, WaitForNetwork, ResumeNetworkWaits, ResumeNext, Unblock,
                  ParkInReconcile, ParkInDeclare, ParkQueuedNetworkJobs, ClearStaleBlockedFlags,
                  ClaimAfterReconcile, ResumeCleared, WaitDeclared, Block
    <3>3. CallStarts(c) => call[c].at = "idle"
      BY IdleRecord DEF CallStarts, SetConnectivity, StartClaim, DeclareNetworkRequired,
                        ClearNetworkRequirement, WaitForNetwork
    <3>4. Settles(c)
      BY <2>2, <3>1, <3>3, StartSettles, GoingOnSettles
    <3>5. QED
      BY <3>1, <3>2, <3>4 DEF WaitsInv, Settles
  <2>3. CASE OtherEngineCall
    BY <2>1, <2>3, OthersKeepWaits
  <2>4. CASE UNCHANGED offlineVars
    BY <2>1, <2>4 DEF offlineVars, netVars, vars, WaitsInv, Owed, AllMarked, BlockedWaits, NextInQueue
  <2>5. ~ \E c \in Calls : Restart(c)
    BY <2>1 DEF Restart, WaitsInv
  <2>6. QED
    BY <1>2, <2>2, <2>3, <2>4, <2>5 DEF ONext
<1>3. QED
  BY <1>1, <1>2

\* As long as no two calls of the coordinator overlap and the daemon has not crashed, a
\* wait entered for the network carries the flag by which the next reconciliation finds
\* it.  Both conditions are needed.  A wait and its flag are two transactions, and so are
\* the clearing of a requirement and the resumption that follows: a crash, or the other
\* call for the same job, coming between them leaves a wait without a flag.
THEOREM WaitsWillBeFound ==
  ASSUME \A c, d \in Calls : c = d
  PROVE  OSpec => [](crashes = 0 => NetworkWaitsAreMarked)
<1>1. OInit => (crashes = 0 => WaitsInv)
  BY IdleRecord DEF OInit, WaitsInv, Owed, AllMarked
<1>2. OInv /\ (crashes = 0 => WaitsInv) /\ [ONext]_offlineVars => (crashes = 0 => WaitsInv)'
  BY WaitsStep
<1>3. (crashes = 0 => WaitsInv) => (crashes = 0 => NetworkWaitsAreMarked)
  BY IdleRecord DEF WaitsInv, AllMarked, NetworkWaitsAreMarked
<1>4. QED
  BY <1>1, <1>2, <1>3, OfflineInductive, PTL DEF OSpec
==============================================================================
