----------------------- MODULE RuntimeLifecycleProofs -----------------------
(***************************************************************************)
(* The instance lock and the resources of the daemon, for any number of    *)
(* processes and any of them killed.                                       *)
(***************************************************************************)
EXTENDS RuntimeLifecycle, TLAPS

(***************************************************************************)
(* The inductive invariant                                                 *)
(***************************************************************************)
\* Nobody has the lock, or is about to record that it does
Abandoned == \A p \in Alive : ~proc[p].holds /\ proc[p].start # "write"

\* While no lock file was made nobody judges one.  Of the first one, a process that is
\* about to remove it knows that it is abandoned; one that is about to look at its age
\* finds it young unless it is.
LockInv ==
  /\ made = "none" =>
       /\ lock = NoLock
       /\ \A p \in Alive : ~proc[p].holds /\ proc[p].start \notin {"read", "stat", "unlink", "write"}
  /\ made = "one" => \A p \in Alive :
       /\ proc[p].holds => lock.by = p /\ lock.recorded
       /\ proc[p].start = "write" => lock.by = p /\ ~lock.recorded /\ lock.fresh
       /\ proc[p].start = "stat" => Abandoned \/ lock.fresh
       /\ proc[p].start = "unlink" => Abandoned

\* A record in the lock file is that of a process that holds the lock, or is dead.
RecordInv == \A p \in Alive : lock.by = p /\ lock.recorded => proc[p].holds

\* What a process has, by how far its start() and then its stop() have come
Standing(r) ==
  /\ r.database => r.holds
  /\ r.stop # "none" => r.start = "ended" /\ r.state \notin {"idle", "starting", "running"}
  /\ r.stop = "none" =>
       /\ r.state \in {"idle", "starting", "running", "failed"}
       /\ r.state = "running" <=> r.start = "announce" \/ (r.start = "ended" /\ r.listening)
       /\ r.state = "failed" => r.start = "ended"
       /\ r.start \in {"announce", "ended"} /\ r.state = "running" =>
            r.database /\ r.server /\ r.listening
       /\ r.start = "ended" /\ r.state = "failed" => ~r.holds /\ ~r.database /\ ~r.listening
       /\ r.start = "ended" => r.state \in {"running", "failed"}
       /\ r.start \notin {"announce", "ended"} => ~r.listening
       /\ r.start \in {"listen", "bound"} => r.holds /\ r.database
       /\ r.start = "bound" => r.server
       /\ r.start = "release" => ~r.database
       /\ r.start \in {"none", "open", "read", "stat", "unlink", "again", "write"} => ~r.database
  /\ r.stop = "server" => (r.listening => r.server)
  /\ r.stop \in {"services", "database", "release", "ended"} => ~r.listening
  /\ r.stop \in {"release", "ended"} => ~r.database
  /\ r.stop = "ended" => ~r.holds

StandingInv ==
  \A p \in Alive : /\ proc[p].stop = "none" => ~proc[p].hurried
                   /\ ~proc[p].hurried => Standing(proc[p])

LInv == LTypeOK /\ LockInv /\ RecordInv /\ StandingInv

(***************************************************************************)
(* Steps                                                                   *)
(***************************************************************************)
\* The actions of process p
Step(p) == Start(p) \/ StartStep(p) \/ Stop(p) \/ StopStep(p) \/ Exit(p) \/ Crash(p)

LEMMA NextIs == LNext <=> (\E p \in Processes : Step(p)) \/ LockAges
BY DEF LNext, Step

\* The places at which a process takes the lock
LockPlaces == {"open", "read", "stat", "unlink", "again", "write"}

\* s is what an action of start() makes of the record r of its process
StartMove(r, s) ==
  \/ r.start = "none" /\ s = [r EXCEPT !.state = "starting", !.start = "open"]
  \/ r.start \in LockPlaces /\ \E x \in LockPlaces \cup {"server"} : s = [r EXCEPT !.start = x]
  \/ r.start = "write" /\ s = [r EXCEPT !.holds = TRUE, !.database = TRUE, !.start = "initialize"]
  \/ r.start = "write" /\ s = [r EXCEPT !.holds = TRUE, !.database = FALSE, !.start = "server"]
  \/ r.start = "initialize" /\ r.database /\ s = [r EXCEPT !.start = "listen"]
  \/ r.start \in {"initialize", "bound"} /\ s = [r EXCEPT !.start = "server"]
  \/ r.start = "listen" /\ s = [r EXCEPT !.server = TRUE, !.start = "bound"]
  \/ r.start = "bound" /\ s = [r EXCEPT !.listening = TRUE, !.state = "running", !.start = "announce"]
  \/ r.start = "announce" /\ r.server /\ s = [r EXCEPT !.start = "ended"]
  \/ r.start = "announce" /\ ~r.server /\ s = [r EXCEPT !.start = "server"]
  \/ r.start = "server" /\ s = [ServerClosed(r) EXCEPT !.start = "database"]
  \/ r.start = "database" /\ s = [r EXCEPT !.database = FALSE, !.start = "release"]
  \/ r.start = "release" /\ s = [r EXCEPT !.holds = FALSE, !.state = "failed", !.start = "ended"]

\* ... and an action of stop()
StopMove(r, s) ==
  \/ /\ r.stop = "none" /\ r.state \in {"starting", "running", "failed"}
     /\ \E b \in BOOLEAN : /\ b <=> r.start # "ended"
                           /\ s = [r EXCEPT !.state = "stopping", !.stop = "server", !.hurried = b]
  \/ r.stop = "server" /\ s = [ServerClosed(r) EXCEPT !.stop = "services"]
  \/ r.stop = "services" /\ s = [r EXCEPT !.stop = "database"]
  \/ r.stop = "database" /\ s = [r EXCEPT !.database = FALSE, !.stop = "release"]
  \/ /\ r.stop = "release"
     /\ \E x \in {"stopped", "failed"} : s = [r EXCEPT !.holds = FALSE, !.state = x, !.stop = "ended"]

LEMMA StartMoves ==
  ASSUME LTypeOK, NEW p \in Processes, Start(p) \/ StartStep(p)
  PROVE  proc[p].alive /\ StartMove(proc[p], proc'[p]) /\ proc' = [proc EXCEPT ![p] = proc'[p]]
<1> DEFINE Moved(s) == proc' = [proc EXCEPT ![p] = s]
<1>0. proc \in [Processes -> Process]
  BY DEF LTypeOK
<1>1. SUFFICES \E s : proc[p].alive /\ StartMove(proc[p], s) /\ Moved(s)
  BY <1>0
<1> USE DEF InStart, Goto, LockPlaces
<1>2. CASE Start(p)
  <2>1. Moved([proc[p] EXCEPT !.state = "starting", !.start = "open"])
    BY <1>0, <1>2 DEF Start
  <2>2. QED
    BY <1>2, <2>1 DEF Start, StartMove
<1>3. CASE OpenLock(p) \/ ReadLock(p) \/ StatLock(p) \/ RemoveStaleLock(p) \/ WriteFails(p)
  <2>1. PICK x \in LockPlaces \cup {"server"} : Moved([proc[p] EXCEPT !.start = x])
    BY <1>0, <1>3 DEF OpenLock, ReadLock, StatLock, RemoveStaleLock, WriteFails
  <2>2. proc[p].alive /\ proc[p].start \in LockPlaces
    BY <1>3 DEF OpenLock, ReadLock, StatLock, RemoveStaleLock, WriteFails
  <2>3. QED
    BY <2>1, <2>2 DEF StartMove
<1>4. CASE WriteLock(p)
  <2>1. \/ Moved([proc[p] EXCEPT !.holds = TRUE, !.database = TRUE, !.start = "initialize"])
        \/ Moved([proc[p] EXCEPT !.holds = TRUE, !.database = FALSE, !.start = "server"])
    BY <1>0, <1>4 DEF WriteLock
  <2>2. QED
    BY <1>4, <2>1 DEF WriteLock, StartMove
<1>5. CASE Initialize(p)
  <2>1. \/ proc[p].database /\ Moved([proc[p] EXCEPT !.start = "listen"])
        \/ Moved([proc[p] EXCEPT !.start = "server"])
    BY <1>0, <1>5 DEF Initialize
  <2>2. QED
    BY <1>5, <2>1 DEF Initialize, StartMove
<1>6. CASE Listen(p)
  <2>1. Moved([proc[p] EXCEPT !.server = TRUE, !.start = "bound"])
    BY <1>0, <1>6 DEF Listen
  <2>2. QED
    BY <1>6, <2>1 DEF Listen, StartMove
<1>7. CASE Bound(p)
  <2>1. \/ Moved([proc[p] EXCEPT !.start = "server"])
        \/ Moved([proc[p] EXCEPT !.listening = TRUE, !.state = "running", !.start = "announce"])
    BY <1>0, <1>7 DEF Bound
  <2>2. QED
    BY <1>7, <2>1 DEF Bound, StartMove
<1>8. CASE StartReturns(p)
  <2>1. \/ proc[p].server /\ Moved([proc[p] EXCEPT !.start = "ended"])
        \/ ~proc[p].server /\ Moved([proc[p] EXCEPT !.start = "server"])
    BY <1>0, <1>8 DEF StartReturns
  <2>2. QED
    BY <1>8, <2>1 DEF StartReturns, StartMove
<1>9. CASE StartFails(p)
  <2>1. Moved([ServerClosed(proc[p]) EXCEPT !.start = "database"])
    BY <1>0, <1>9 DEF StartFails
  <2>2. QED
    BY <1>9, <2>1 DEF StartFails, StartMove
<1>10. CASE StartClosesDatabase(p)
  <2>1. Moved([proc[p] EXCEPT !.database = FALSE, !.start = "release"])
    BY <1>0, <1>10 DEF StartClosesDatabase
  <2>2. QED
    BY <1>10, <2>1 DEF StartClosesDatabase, StartMove
<1>11. CASE StartReleases(p)
  <2>1. Moved([proc[p] EXCEPT !.holds = FALSE, !.state = "failed", !.start = "ended"])
    BY <1>0, <1>11 DEF StartReleases
  <2>2. QED
    BY <1>11, <2>1 DEF StartReleases, StartMove
<1>12. QED
  BY <1>2, <1>3, <1>4, <1>5, <1>6, <1>7, <1>8, <1>9, <1>10, <1>11 DEF StartStep

LEMMA StopMoves ==
  ASSUME LTypeOK, NEW p \in Processes, Stop(p) \/ StopStep(p)
  PROVE  /\ proc[p].alive /\ ~Acquiring(p)
         /\ StopMove(proc[p], proc'[p]) /\ proc' = [proc EXCEPT ![p] = proc'[p]]
<1> DEFINE Moved(s) == proc' = [proc EXCEPT ![p] = s]
<1>0. proc \in [Processes -> Process]
  BY DEF LTypeOK
<1>1. SUFFICES \E s : proc[p].alive /\ ~Acquiring(p) /\ StopMove(proc[p], s) /\ Moved(s)
  BY <1>0
<1> USE DEF InStop
<1>2. CASE Stop(p)
  <2>1. PICK b \in BOOLEAN :
          /\ b <=> proc[p].start # "ended"
          /\ Moved([proc[p] EXCEPT !.state = "stopping", !.stop = "server", !.hurried = b])
    BY <1>0, <1>2 DEF Stop
  <2>2. QED
    BY <1>2, <2>1 DEF Stop, StopMove
<1>3. CASE StopClosesServer(p)
  <2>1. Moved([ServerClosed(proc[p]) EXCEPT !.stop = "services"])
    BY <1>0, <1>3 DEF StopClosesServer
  <2>2. QED
    BY <1>3, <2>1 DEF StopClosesServer, StopMove
<1>4. CASE StopServices(p)
  <2>1. Moved([proc[p] EXCEPT !.stop = "database"])
    BY <1>0, <1>4 DEF StopServices
  <2>2. QED
    BY <1>4, <2>1 DEF StopServices, StopMove
<1>5. CASE StopClosesDatabase(p)
  <2>1. Moved([proc[p] EXCEPT !.database = FALSE, !.stop = "release"])
    BY <1>0, <1>5 DEF StopClosesDatabase
  <2>2. QED
    BY <1>5, <2>1 DEF StopClosesDatabase, StopMove
<1>6. CASE StopReleases(p)
  <2>1. PICK x \in {"stopped", "failed"} :
          Moved([proc[p] EXCEPT !.holds = FALSE, !.state = x, !.stop = "ended"])
    BY <1>0, <1>6 DEF StopReleases
  <2>2. QED
    BY <1>6, <2>1 DEF StopReleases, StopMove
<1>7. QED
  BY <1>2, <1>3, <1>4, <1>5, <1>6 DEF StopStep

LEMMA DeadIs ==
  ASSUME NEW r \in Process
  PROVE  Dead(r) \in Process /\ ~Dead(r).alive
BY DEF Dead, Process

LEMMA ServerClosedIs ==
  ASSUME NEW r \in Process
  PROVE  /\ ServerClosed(r) \in Process
         /\ ServerClosed(r) = [r EXCEPT !.server = FALSE, !.listening = r.listening /\ ~r.server]
         /\ ServerClosed(r).start = r.start /\ ServerClosed(r).stop = r.stop
         /\ ServerClosed(r).hurried = r.hurried /\ ServerClosed(r).alive = r.alive
         /\ ServerClosed(r).holds = r.holds
BY DEF ServerClosed, Process

LEMMA MovesTyped ==
  ASSUME NEW r \in Process, NEW s, StartMove(r, s) \/ StopMove(r, s)
  PROVE  s \in Process
<1> DEFINE c == ServerClosed(r)
<1>1. c \in Process
  BY ServerClosedIs
<1> HIDE DEF c
<1>2. CASE StartMove(r, s)
  <2>1. \A x \in LockPlaces \cup {"listen", "server", "ended"} : [r EXCEPT !.start = x] \in Process
    BY DEF Process, LockPlaces
  <2>2. /\ [r EXCEPT !.state = "starting", !.start = "open"] \in Process
        /\ [r EXCEPT !.server = TRUE, !.start = "bound"] \in Process
        /\ [r EXCEPT !.listening = TRUE, !.state = "running", !.start = "announce"] \in Process
    BY DEF Process, States
  <2>3. /\ [r EXCEPT !.holds = TRUE, !.database = TRUE, !.start = "initialize"] \in Process
        /\ [r EXCEPT !.holds = TRUE, !.database = FALSE, !.start = "server"] \in Process
        /\ [r EXCEPT !.database = FALSE, !.start = "release"] \in Process
        /\ [r EXCEPT !.holds = FALSE, !.state = "failed", !.start = "ended"] \in Process
    BY DEF Process, States
  <2>4. [c EXCEPT !.start = "database"] \in Process
    BY <1>1 DEF Process
  <2>5. QED
    BY <1>2, <2>1, <2>2, <2>3, <2>4 DEF StartMove, c
<1>3. CASE StopMove(r, s)
  <2>1. s # [c EXCEPT !.stop = "services"] => s \in Process
    BY <1>3 DEF StopMove, Process, States, c
  <2>2. [c EXCEPT !.stop = "services"] \in Process
    BY <1>1 DEF Process
  <2>3. QED
    BY <2>1, <2>2
<1>4. QED
  BY <1>2, <1>3

\* What the actions of start() leave to stop(), and the other way round.
LEMMA StartMoveKeeps ==
  ASSUME NEW r \in Process, NEW s, StartMove(r, s)
  PROVE  s.stop = r.stop /\ s.hurried = r.hurried /\ s.alive = r.alive
<1> DEFINE c == ServerClosed(r)
<1>1. c \in Process /\ c.stop = r.stop /\ c.hurried = r.hurried /\ c.alive = r.alive
  BY ServerClosedIs
<1> HIDE DEF c
<1>2. s = [c EXCEPT !.start = "database"] => s.stop = r.stop /\ s.hurried = r.hurried /\ s.alive = r.alive
  BY <1>1 DEF Process
<1>3. s # [c EXCEPT !.start = "database"] => s.stop = r.stop /\ s.hurried = r.hurried /\ s.alive = r.alive
  BY DEF StartMove, Process, c
<1>4. QED
  BY <1>2, <1>3

LEMMA StopMoveKeeps ==
  ASSUME NEW r \in Process, NEW s, StopMove(r, s)
  PROVE  /\ s.start = r.start /\ s.stop # "none" /\ s.alive = r.alive
         /\ r.stop # "none" => s.hurried = r.hurried
<1> DEFINE c == ServerClosed(r)
<1>1. c \in Process /\ c.start = r.start /\ c.hurried = r.hurried /\ c.alive = r.alive
  BY ServerClosedIs
<1> HIDE DEF c
<1>2. CASE r.stop = "server" /\ s = [c EXCEPT !.stop = "services"]
  BY <1>1, <1>2 DEF Process
<1>3. CASE ~(r.stop = "server" /\ s = [c EXCEPT !.stop = "services"])
  BY <1>3 DEF StopMove, Process, c
<1>4. QED
  BY <1>2, <1>3

LEMMA Types ==
  ASSUME LTypeOK, [LNext]_lifeVars
  PROVE  LTypeOK'
<1>0. /\ lock \in LockFile /\ made \in {"none", "one", "more"} /\ proc \in [Processes -> Process]
      /\ NoLock \in LockFile /\ \A p \in Processes : Made(p) \in LockFile
  BY DEF LTypeOK, LockFile, Made
<1>1. lock' \in LockFile /\ made' \in {"none", "one", "more"}
  <2>1. CASE lock.by \in Processes
    <3>1. lock \in [by : Processes, recorded : BOOLEAN, fresh : BOOLEAN]
      BY <1>0, <2>1, ProcessesAssumption DEF LockFile, NoLock
    <3>2. /\ [lock EXCEPT !.recorded = TRUE] \in LockFile
          /\ [lock EXCEPT !.fresh = FALSE] \in LockFile
      BY <3>1 DEF LockFile
    <3>3. QED
      BY <1>0, <3>2, NextIs DEF Step, Start, StartStep, OpenLock, ReadLock, StatLock, RemoveStaleLock,
        WriteLock, WriteFails, Initialize, Listen, Bound, StartReturns, StartFails,
        StartClosesDatabase, StartReleases, Stop, StopStep, StopClosesServer, StopServices,
        StopClosesDatabase, StopReleases, Exit, Crash, LockAges, Released, lifeVars
  <2>2. CASE lock = NoLock
    <3>1. ~LockAges /\ \A p \in Processes : lock.by # p
      BY <2>2, ProcessesAssumption DEF LockAges, NoLock
    <3>2. QED
      BY <1>0, <3>1, NextIs DEF Step, Start, StartStep, OpenLock, ReadLock, StatLock, RemoveStaleLock,
        WriteLock, WriteFails, Initialize, Listen, Bound, StartReturns, StartFails,
        StartClosesDatabase, StartReleases, Stop, StopStep, StopClosesServer, StopServices,
        StopClosesDatabase, StopReleases, Exit, Crash, Released, lifeVars
  <2>3. QED
    BY <1>0, <2>1, <2>2 DEF LockFile
<1>2. proc' \in [Processes -> Process]
  <2>1. ASSUME NEW p \in Processes, Start(p) \/ StartStep(p) \/ Stop(p) \/ StopStep(p)
        PROVE  proc' \in [Processes -> Process]
    <3>1. proc'[p] \in Process
      BY <1>0, <2>1, StartMoves, StopMoves, MovesTyped
    <3>2. QED
      BY <1>0, <2>1, <3>1, StartMoves, StopMoves
  <2>2. ASSUME NEW p \in Processes, Exit(p) \/ Crash(p)
        PROVE  proc' \in [Processes -> Process]
    BY <1>0, <2>2, DeadIs DEF Exit, Crash
  <2>3. QED
    BY <1>0, <2>1, <2>2, NextIs DEF Step, LockAges, lifeVars
<1>3. QED
  BY <1>1, <1>2 DEF LTypeOK

\* A step of p leaves the records of the others alone.
LEMMA OthersStay ==
  ASSUME LTypeOK, NEW p \in Processes, Step(p), NEW q \in Processes, q # p
  PROVE  proc'[q] = proc[q]
<1>1. CASE Start(p) \/ StartStep(p) \/ Stop(p) \/ StopStep(p)
  <2>1. \E s : proc' = [proc EXCEPT ![p] = s]
    BY <1>1, StartMoves, StopMoves
  <2>2. QED
    BY <2>1 DEF LTypeOK
<1>2. CASE Exit(p) \/ Crash(p)
  BY <1>2 DEF Exit, Crash, LTypeOK
<1>3. QED
  BY <1>1, <1>2 DEF Step

\* A process that lives has lived.
LEMMA LivingStay ==
  ASSUME LTypeOK, NEW p \in Processes, Step(p), proc'[p].alive
  PROVE  /\ proc[p].alive
         /\ \/ StartMove(proc[p], proc'[p])
            \/ ~Acquiring(p) /\ StopMove(proc[p], proc'[p])
<1>1. CASE Exit(p) \/ Crash(p)
  <2>1. proc'[p] = Dead(proc[p]) /\ proc[p] \in Process
    BY <1>1 DEF Exit, Crash, LTypeOK
  <2>2. QED
    BY <2>1, DeadIs
<1>2. CASE Start(p) \/ StartStep(p)
  <2>1. proc[p].alive /\ StartMove(proc[p], proc'[p])
    BY <1>2, StartMoves
  <2>2. QED
    BY <2>1
<1>3. CASE Stop(p) \/ StopStep(p)
  BY <1>3, StopMoves
<1>4. QED
  BY <1>1, <1>2, <1>3 DEF Step

(***************************************************************************)
(* What a process has                                                      *)
(***************************************************************************)
LEMMA StandingMoves ==
  ASSUME NEW r \in Process, NEW s \in Process, StartMove(r, s) \/ StopMove(r, s),
         r.stop = "none" => ~r.hurried, ~r.hurried => Standing(r), ~s.hurried
  PROVE  Standing(s)
<1> DEFINE c == ServerClosed(r)
<1>0. c \in Process /\ c = [r EXCEPT !.server = FALSE, !.listening = r.listening /\ ~r.server]
  BY ServerClosedIs
<1> HIDE DEF c
<1>1. ~r.hurried
  <2>1. s.hurried = r.hurried \/ r.stop = "none"
    BY StartMoveKeeps, StopMoveKeeps
  <2>2. QED
    BY <2>1
<1>2. Standing(r)
  BY <1>1
<1>3. CASE StartMove(r, s)
  <2>1. CASE r.start = "none" /\ s = [r EXCEPT !.state = "starting", !.start = "open"]
    BY <1>2, <2>1 DEF Standing, Process
  <2>2. CASE r.start \in LockPlaces /\ \E x \in LockPlaces \cup {"server"} : s = [r EXCEPT !.start = x]
    BY <1>2, <2>2 DEF Standing, Process, LockPlaces
  <2>3. CASE r.start = "write" /\ s = [r EXCEPT !.holds = TRUE, !.database = TRUE, !.start = "initialize"]
    BY <1>2, <2>3 DEF Standing, Process
  <2>4. CASE r.start = "write" /\ s = [r EXCEPT !.holds = TRUE, !.database = FALSE, !.start = "server"]
    BY <1>2, <2>4 DEF Standing, Process
  <2>5. CASE r.start = "initialize" /\ r.database /\ s = [r EXCEPT !.start = "listen"]
    BY <1>2, <2>5 DEF Standing, Process
  <2>6. CASE r.start \in {"initialize", "bound"} /\ s = [r EXCEPT !.start = "server"]
    BY <1>2, <2>6 DEF Standing, Process
  <2>7. CASE r.start = "listen" /\ s = [r EXCEPT !.server = TRUE, !.start = "bound"]
    BY <1>2, <2>7 DEF Standing, Process
  <2>8. CASE r.start = "bound" /\ s = [r EXCEPT !.listening = TRUE, !.state = "running", !.start = "announce"]
    BY <1>2, <2>8 DEF Standing, Process
  <2>9. CASE r.start = "announce" /\ r.server /\ s = [r EXCEPT !.start = "ended"]
    BY <1>2, <2>9 DEF Standing, Process
  <2>10. CASE r.start = "announce" /\ ~r.server /\ s = [r EXCEPT !.start = "server"]
    BY <1>2, <2>10 DEF Standing, Process
  <2>11. CASE r.start = "server" /\ s = [c EXCEPT !.start = "database"]
    BY <1>0, <1>2, <2>11 DEF Standing, Process
  <2>12. CASE r.start = "database" /\ s = [r EXCEPT !.database = FALSE, !.start = "release"]
    BY <1>2, <2>12 DEF Standing, Process
  <2>13. CASE r.start = "release" /\ s = [r EXCEPT !.holds = FALSE, !.state = "failed", !.start = "ended"]
    BY <1>2, <2>13 DEF Standing, Process
  <2>14. QED
    BY <1>3, <2>1, <2>2, <2>3, <2>4, <2>5, <2>6, <2>7, <2>8, <2>9, <2>10, <2>11, <2>12, <2>13 DEF StartMove, c
<1>4. CASE StopMove(r, s)
  <2>1. CASE r.stop = "none" /\ \E b \in BOOLEAN : (b <=> r.start # "ended") /\ s = [r EXCEPT !.state = "stopping", !.stop = "server", !.hurried = b]
    <3>1. PICK b \in BOOLEAN : /\ b <=> r.start # "ended"
                              /\ s = [r EXCEPT !.state = "stopping", !.stop = "server", !.hurried = b]
      BY <2>1
    <3>2. s.hurried = b
      BY <3>1 DEF Process
    <3>3. r.start = "ended"
      BY <3>1, <3>2
    <3>4. QED
      BY <1>2, <2>1, <3>1, <3>3 DEF Standing, Process
  <2>2. CASE r.stop = "server" /\ s = [c EXCEPT !.stop = "services"]
    BY <1>0, <1>2, <2>2 DEF Standing, Process
  <2>3. CASE r.stop = "services" /\ s = [r EXCEPT !.stop = "database"]
    BY <1>2, <2>3 DEF Standing, Process
  <2>4. CASE r.stop = "database" /\ s = [r EXCEPT !.database = FALSE, !.stop = "release"]
    BY <1>2, <2>4 DEF Standing, Process
  <2>5. CASE r.stop = "release" /\ \E x \in {"stopped", "failed"} : s = [r EXCEPT !.holds = FALSE, !.state = x, !.stop = "ended"]
    BY <1>2, <2>5 DEF Standing, Process
  <2>6. QED
    BY <1>4, <2>1, <2>2, <2>3, <2>4, <2>5 DEF StopMove, c
<1>5. QED
  BY <1>3, <1>4

LEMMA StandingStep ==
  ASSUME LTypeOK, LTypeOK', StandingInv, [LNext]_lifeVars
  PROVE  StandingInv'
<1>1. SUFFICES ASSUME NEW q \in Processes, proc'[q].alive
               PROVE  /\ proc'[q].stop = "none" => ~proc'[q].hurried
                      /\ ~proc'[q].hurried => Standing(proc'[q])
  BY DEF StandingInv, Alive
<1>2. CASE proc'[q] = proc[q]
  BY <1>1, <1>2 DEF StandingInv, Alive
<1>3. CASE Step(q)
  <2>1. proc[q] \in Process /\ proc'[q] \in Process
    BY DEF LTypeOK
  <2>2. proc[q].alive /\ (StartMove(proc[q], proc'[q]) \/ StopMove(proc[q], proc'[q]))
    BY <1>1, <1>3, LivingStay
  <2>3. /\ proc[q].stop = "none" => ~proc[q].hurried
        /\ ~proc[q].hurried => Standing(proc[q])
    BY <2>2 DEF StandingInv, Alive
  <2>4. proc'[q].stop = "none" => proc[q].stop = "none" /\ proc'[q].hurried = proc[q].hurried
    BY <2>1, <2>2, StartMoveKeeps, StopMoveKeeps
  <2>5. QED
    BY <2>1, <2>2, <2>3, <2>4, StandingMoves
<1>4. QED
  BY <1>2, <1>3, OthersStay, NextIs DEF LockAges, lifeVars

(***************************************************************************)
(* The lock file                                                           *)
(***************************************************************************)
LEMMA Inits == LInit => LInv
BY ProcessesAssumption DEF LInit, LInv, LTypeOK, LockFile, Process, NotStarted, States, LockInv,
  RecordInv, StandingInv, Standing, Alive, NoLock

\* The places at which a process judges the lock file, or is about to write it
Judging == {"read", "stat", "unlink", "write"}

\* The step of p neither touches the lock nor what p knows of it.
Quiet(p) ==
  /\ lock' = lock /\ made' = made
  /\ proc'[p].alive =>
       /\ proc[p].alive /\ proc'[p].holds = proc[p].holds
       /\ proc'[p].start \notin Judging \/ proc'[p].start = proc[p].start

\* The steps of p that are about the lock
LockStep(p) ==
  \/ OpenLock(p) \/ ReadLock(p) \/ StatLock(p) \/ RemoveStaleLock(p) \/ WriteLock(p)
  \/ StartReleases(p) \/ StopReleases(p)

LEMMA QuietSteps ==
  ASSUME LTypeOK, NEW p \in Processes, Step(p), ~LockStep(p)
  PROVE  Quiet(p)
<1>0. proc \in [Processes -> Process] /\ proc[p] \in Process
  BY DEF LTypeOK
<1>1. lock' = lock /\ made' = made
  BY DEF Step, LockStep, StartStep, StopStep, Start, WriteFails, Initialize, Listen, Bound, StartReturns,
    StartFails, StartClosesDatabase, Stop, StopClosesServer, StopServices, StopClosesDatabase, Exit, Crash
<1>2. CASE Exit(p) \/ Crash(p)
  <2>1. proc'[p] = Dead(proc[p])
    BY <1>0, <1>2 DEF Exit, Crash
  <2>2. QED
    BY <1>0, <1>1, <2>1, DeadIs DEF Quiet
<1>3. CASE StartFails(p)
  <2>1. proc'[p] = [ServerClosed(proc[p]) EXCEPT !.start = "database"] /\ proc[p].alive
    BY <1>0, <1>3 DEF StartFails, InStart
  <2>2. ServerClosed(proc[p]) \in Process /\ ServerClosed(proc[p]).holds = proc[p].holds
    BY <1>0, ServerClosedIs
  <2>3. QED
    BY <1>1, <2>1, <2>2 DEF Quiet, Judging, Process
<1>4. CASE StopClosesServer(p)
  <2>1. proc'[p] = [ServerClosed(proc[p]) EXCEPT !.stop = "services"] /\ proc[p].alive
    BY <1>0, <1>4 DEF StopClosesServer, InStop
  <2>2. /\ ServerClosed(proc[p]) \in Process /\ ServerClosed(proc[p]).holds = proc[p].holds
        /\ ServerClosed(proc[p]).start = proc[p].start
    BY <1>0, ServerClosedIs
  <2>3. QED
    BY <1>1, <2>1, <2>2 DEF Quiet, Process
<1>5. CASE Stop(p) \/ StopServices(p) \/ StopClosesDatabase(p)
  <2>1. /\ proc[p].alive /\ proc'[p].holds = proc[p].holds
        /\ proc'[p].start = proc[p].start
    BY <1>0, <1>5 DEF Stop, StopServices, StopClosesDatabase, InStop, Process
  <2>2. QED
    BY <1>1, <2>1 DEF Quiet
<1>6. CASE \/ Start(p) \/ WriteFails(p) \/ Initialize(p) \/ Listen(p) \/ Bound(p)
           \/ StartReturns(p) \/ StartClosesDatabase(p)
  <2>1. /\ proc[p].alive /\ proc'[p].holds = proc[p].holds
        /\ proc'[p].start \in {"open", "server", "listen", "bound", "announce", "ended", "release"}
    BY <1>0, <1>6 DEF Start, WriteFails, Initialize, Listen, Bound, StartReturns, StartClosesDatabase,
      InStart, Goto, Process
  <2>2. QED
    BY <1>1, <2>1 DEF Quiet, Judging
<1>7. QED
  BY <1>2, <1>3, <1>4, <1>5, <1>6 DEF Step, StartStep, StopStep, LockStep

\* A quiet step keeps what is known of the lock.
LEMMA QuietKeeps ==
  ASSUME LTypeOK, LockInv, RecordInv, NEW p \in Processes, Step(p), Quiet(p)
  PROVE  LockInv' /\ RecordInv'
<1>1. \A q \in Processes : proc'[q].alive =>
        /\ proc[q].alive /\ proc'[q].holds = proc[q].holds
        /\ proc'[q].start \notin Judging \/ proc'[q].start = proc[q].start
  BY OthersStay DEF Quiet
<1>2. lock' = lock /\ made' = made
  BY DEF Quiet
<1>3. Abandoned => Abandoned'
  BY <1>1 DEF Abandoned, Alive, Judging
<1>4. LockInv'
  BY <1>1, <1>2, <1>3 DEF LockInv, Alive, Judging
<1>5. QED
  BY <1>1, <1>2, <1>4 DEF RecordInv, Alive

\* What a step about the lock makes of the record of its process
LEMMA Went ==
  ASSUME LTypeOK, NEW p \in Processes
  PROVE  /\ OpenLock(p) \/ ReadLock(p) \/ StatLock(p) \/ RemoveStaleLock(p) =>
              /\ proc[p].alive /\ proc'[p].alive /\ proc'[p].holds = proc[p].holds
         /\ \A place \in {"read", "stat", "unlink", "again", "write", "server"} :
              Goto(p, place) => proc'[p].start = place
         /\ WriteLock(p) =>
              /\ proc[p].alive /\ proc'[p].alive /\ proc'[p].holds
              /\ proc[p].start = "write" /\ proc'[p].start \in {"initialize", "server"}
         /\ StartReleases(p) \/ StopReleases(p) =>
              /\ proc[p].alive /\ ~proc'[p].holds
              /\ proc'[p].start \notin {"stat", "unlink", "write", "read"}
<1>0. proc \in [Processes -> Process] /\ proc[p] \in Process
  BY DEF LTypeOK
<1>1. OpenLock(p) \/ ReadLock(p) \/ StatLock(p) \/ RemoveStaleLock(p) =>
        proc[p].alive /\ proc'[p].alive /\ proc'[p].holds = proc[p].holds
  BY <1>0 DEF OpenLock, ReadLock, StatLock, RemoveStaleLock, InStart, Goto, Process
<1>2. ASSUME NEW place \in {"read", "stat", "unlink", "again", "write", "server"}, Goto(p, place)
      PROVE  proc'[p].start = place
  BY <1>0, <1>2 DEF Goto, Process
<1>3. WriteLock(p) =>
        /\ proc[p].alive /\ proc'[p].alive /\ proc'[p].holds
        /\ proc[p].start = "write" /\ proc'[p].start \in {"initialize", "server"}
  BY <1>0 DEF WriteLock, InStart, Process
<1>4. StartReleases(p) \/ StopReleases(p) =>
        /\ proc[p].alive /\ ~proc'[p].holds
        /\ proc'[p].start \notin {"stat", "unlink", "write", "read"}
  BY <1>0 DEF StartReleases, StopReleases, InStart, InStop, Acquiring, Process
<1>5. QED
  BY <1>1, <1>2, <1>3, <1>4

\* The steps about the lock, one after the other.  q is any process that lives afterwards; the
\* records of the others are as they were.
LEMMA LockSteps ==
  ASSUME LTypeOK, LockInv, RecordInv, NEW p \in Processes, Step(p), LockStep(p)
  PROVE  LockInv' /\ RecordInv'
<1>0. /\ proc \in [Processes -> Process]
      /\ p # NoProcess /\ NoLock.by = NoProcess /\ ~NoLock.recorded
      /\ \A q \in Processes : q # p => proc'[q] = proc[q]
  BY OthersStay, ProcessesAssumption DEF LTypeOK, NoLock
<1>1. CASE OpenLock(p)
  <2>1. proc[p].alive /\ proc'[p].alive /\ proc'[p].holds = proc[p].holds
    BY <1>1, Went
  <2>2. CASE lock = NoLock /\ lock' = Made(p) /\ made' = (IF made = "none" THEN "one" ELSE "more")
             /\ Goto(p, "write")
    <3>1. lock'.by = p /\ ~lock'.recorded /\ lock'.fresh
      BY <2>2 DEF Made
    <3>2. CASE made = "none"
      <4>1. made' = "one" /\ \A q \in Alive : ~proc[q].holds /\ proc[q].start \notin Judging
        BY <2>2, <3>2 DEF LockInv, Judging
      <4>2. \A q \in Alive' : /\ ~proc'[q].holds
                              /\ q = p \/ proc'[q].start \notin Judging
        BY <1>0, <2>1, <4>1 DEF Alive
      <4>3. proc'[p].start = "write"
        BY <2>2, Went
      <4>4. QED
        BY <3>1, <4>1, <4>2, <4>3 DEF LockInv, RecordInv, Judging
    <3>3. CASE made # "none"
      BY <2>2, <3>1, <3>3 DEF LockInv, RecordInv
    <3>4. QED
      BY <3>2, <3>3
  <2>3. CASE lock # NoLock /\ Goto(p, "read") /\ lock' = lock /\ made' = made
    <3>1. proc'[p].start = "read" /\ made # "none"
      BY <2>3, Went DEF LockInv
    <3>2. Abandoned => Abandoned'
      BY <1>0, <2>1, <3>1 DEF Abandoned, Alive
    <3>3. QED
      BY <1>0, <2>1, <2>3, <3>1, <3>2 DEF LockInv, RecordInv, Alive
  <2>4. CASE Goto(p, "server") /\ lock' = lock /\ made' = made
    <3>1. proc'[p].start = "server"
      BY <2>4, Went
    <3>2. Quiet(p)
      BY <2>1, <2>4, <3>1 DEF Quiet, Judging
    <3>3. QED
      BY <3>2, QuietKeeps
  <2>5. QED
    BY <1>1, <2>2, <2>3, <2>4 DEF OpenLock
<1>2. CASE ReadLock(p)
  <2>1. /\ proc[p].alive /\ proc'[p].alive /\ proc'[p].holds = proc[p].holds
        /\ lock' = lock /\ made' = made /\ proc[p].start = "read"
    BY <1>2, Went DEF ReadLock, InStart
  <2>2. made # "none"
    BY <2>1 DEF LockInv, Alive
  <2>3. CASE ~lock.recorded /\ Goto(p, "stat")
    <3>1. proc'[p].start = "stat"
      BY <2>3, Went
    <3>2. made = "one" => Abandoned \/ lock.fresh
      BY <2>3 DEF LockInv, Abandoned
    <3>3. Abandoned => Abandoned'
      BY <1>0, <2>1, <3>1 DEF Abandoned, Alive
    <3>4. QED
      BY <1>0, <2>1, <2>2, <3>1, <3>2, <3>3 DEF LockInv, RecordInv, Alive
  <2>4. CASE Goto(p, "server")
    <3>1. proc'[p].start = "server"
      BY <2>4, Went
    <3>2. Quiet(p)
      BY <2>1, <3>1 DEF Quiet, Judging
    <3>3. QED
      BY <3>2, QuietKeeps
  <2>5. CASE lock.recorded /\ lock.by \notin Alive /\ Goto(p, "unlink")
    <3>1. proc'[p].start = "unlink"
      BY <2>5, Went
    <3>2. made = "one" => Abandoned
      BY <2>5 DEF LockInv, Abandoned
    <3>3. Abandoned => Abandoned'
      BY <1>0, <2>1, <3>1 DEF Abandoned, Alive
    <3>4. QED
      BY <1>0, <2>1, <2>2, <3>1, <3>2, <3>3 DEF LockInv, RecordInv, Alive
  <2>6. QED
    BY <1>2, <2>3, <2>4, <2>5 DEF ReadLock
<1>3. CASE StatLock(p)
  <2>1. /\ proc[p].alive /\ proc'[p].alive /\ proc'[p].holds = proc[p].holds
        /\ lock' = lock /\ made' = made /\ proc[p].start = "stat"
    BY <1>3, Went DEF StatLock, InStart
  <2>2. made # "none"
    BY <2>1 DEF LockInv, Alive
  <2>3. CASE Goto(p, "server")
    <3>1. proc'[p].start = "server"
      BY <2>3, Went
    <3>2. Quiet(p)
      BY <2>1, <3>1 DEF Quiet, Judging
    <3>3. QED
      BY <3>2, QuietKeeps
  <2>4. CASE ~lock.fresh /\ Goto(p, "unlink")
    <3>1. proc'[p].start = "unlink"
      BY <2>4, Went
    <3>2. made = "one" => Abandoned
      BY <2>1, <2>4 DEF LockInv, Alive
    <3>3. Abandoned => Abandoned'
      BY <1>0, <2>1, <3>1 DEF Abandoned, Alive
    <3>4. QED
      BY <1>0, <2>1, <2>2, <3>1, <3>2, <3>3 DEF LockInv, RecordInv, Alive
  <2>5. QED
    BY <1>3, <2>3, <2>4 DEF StatLock
<1>4. CASE RemoveStaleLock(p)
  <2>1. /\ proc[p].alive /\ proc'[p].alive /\ proc'[p].holds = proc[p].holds
        /\ lock' = NoLock /\ made' = made /\ proc[p].start = "unlink" /\ proc'[p].start = "again"
    BY <1>4, Went DEF RemoveStaleLock, InStart
  <2>2. made # "none" /\ (made = "one" => Abandoned)
    BY <2>1 DEF LockInv, Alive
  <2>3. Abandoned => Abandoned'
    BY <1>0, <2>1 DEF Abandoned, Alive
  <2>4. LockInv'
    BY <2>1, <2>2, <2>3 DEF LockInv, Abandoned
  <2>5. QED
    BY <1>0, <2>1, <2>4 DEF RecordInv
<1>5. CASE WriteLock(p)
  <2>1. /\ proc[p].alive /\ proc'[p].alive /\ proc'[p].holds /\ proc[p].start = "write"
        /\ proc'[p].start \notin Judging
        /\ made' = made /\ lock' = IF lock.by = p THEN [lock EXCEPT !.recorded = TRUE] ELSE lock
    BY <1>5, Went DEF WriteLock, Judging
  <2>2. lock \in [by : Processes, recorded : BOOLEAN, fresh : BOOLEAN] \/ lock = NoLock
    BY DEF LTypeOK, LockFile
  <2>3. /\ lock'.by = lock.by /\ lock'.fresh = lock.fresh
        /\ IF lock.by = p THEN lock'.recorded ELSE lock' = lock
    BY <1>0, <2>1, <2>2
  <2>4. ASSUME made = "one"
        PROVE  /\ lock.by = p
               /\ \A q \in Alive : q # p => ~proc[q].holds /\ proc[q].start \notin {"write", "unlink"}
    BY <2>1, <2>4 DEF LockInv, Alive, Abandoned
  <2>5. LockInv'
    <3>1. made # "none"
      BY <2>1 DEF LockInv, Alive
    <3>2. CASE made = "one"
      <4>1. \A q \in Alive' : q # p => /\ ~proc'[q].holds /\ proc'[q].start \notin {"write", "unlink"}
                                       /\ proc'[q].start = "stat" => lock.fresh
        BY <1>0, <2>1, <2>4, <3>2 DEF LockInv, Alive, Abandoned
      <4>2. lock'.by = p /\ lock'.recorded
        BY <2>3, <2>4, <3>2
      <4>3. QED
        BY <2>1, <2>3, <3>2, <4>1, <4>2 DEF LockInv, Judging
    <3>3. CASE made # "one"
      BY <2>1, <3>1, <3>3 DEF LockInv
    <3>4. QED
      BY <3>2, <3>3
  <2>6. RecordInv'
    BY <1>0, <2>1, <2>3 DEF RecordInv, Alive
  <2>7. QED
    BY <2>5, <2>6
<1>6. CASE StartReleases(p) \/ StopReleases(p)
  <2>1. /\ proc[p].alive /\ ~proc'[p].holds /\ proc'[p].start \notin Judging
        /\ lock' = Released(p) /\ made' = made
    BY <1>6, Went DEF StartReleases, StopReleases, Judging
  <2>2. CASE proc[p].holds /\ lock.by = p /\ lock.recorded
    <3>1. lock' = NoLock /\ made # "none"
      BY <2>1, <2>2 DEF Released, LockInv, Alive
    <3>2. made = "one" => Abandoned'
      BY <1>0, <2>1, <2>2 DEF LockInv, Abandoned, Alive, Judging
    <3>3. QED
      BY <1>0, <2>1, <3>1, <3>2 DEF LockInv, RecordInv, Abandoned
  <2>3. CASE ~(proc[p].holds /\ lock.by = p /\ lock.recorded)
    <3>1. lock' = lock
      BY <2>1, <2>3 DEF Released
    <3>2. Abandoned => Abandoned'
      BY <1>0, <2>1 DEF Abandoned, Alive, Judging
    <3>3. LockInv'
      BY <1>0, <2>1, <3>1, <3>2 DEF LockInv, Alive, Judging
    <3>4. RecordInv'
      BY <1>0, <2>1, <2>3, <3>1 DEF RecordInv, Alive
    <3>5. QED
      BY <3>3, <3>4
  <2>4. QED
    BY <2>2, <2>3
<1>7. QED
  BY <1>1, <1>2, <1>3, <1>4, <1>5, <1>6 DEF LockStep

LEMMA LockInvStep ==
  ASSUME LTypeOK, LockInv, RecordInv, [LNext]_lifeVars
  PROVE  LockInv' /\ RecordInv'
<1>1. ASSUME NEW p \in Processes, Step(p)
      PROVE  LockInv' /\ RecordInv'
  BY <1>1, LockSteps, QuietSteps, QuietKeeps
<1>2. CASE LockAges
  <2>1. /\ lock'.by = lock.by /\ lock'.recorded = lock.recorded
        /\ lock # NoLock /\ made' = made /\ proc' = proc
    BY <1>2 DEF LockAges, LTypeOK, LockFile, NoLock
  <2>2. \A q \in Alive : proc[q].start \notin {"write", "stat"}
    BY <1>2 DEF LockAges
  <2>3. Abandoned' <=> Abandoned
    BY <2>1 DEF Abandoned, Alive
  <2>4. LockInv'
    BY <2>1, <2>2, <2>3 DEF LockInv, Alive
  <2>5. QED
    BY <2>1, <2>4 DEF RecordInv, Alive
<1>3. CASE UNCHANGED lifeVars
  BY <1>3 DEF lifeVars, LockInv, RecordInv, Alive, Abandoned
<1>4. QED
  BY <1>1, <1>2, <1>3, NextIs

(***************************************************************************)
(* Theorems                                                                *)
(***************************************************************************)
\* The invariant is inductive: daemon.ts and instance-lock.ts, every interleaving of theirs.
THEOREM LifecycleInductive == LSpec => []LInv
<1>1. LInv /\ [LNext]_lifeVars => LInv'
  <2>1. SUFFICES ASSUME LInv, [LNext]_lifeVars
                 PROVE  LInv'
    OBVIOUS
  <2>2. LTypeOK'
    BY <2>1, Types DEF LInv
  <2>3. QED
    BY <2>1, <2>2, LockInvStep, StandingStep DEF LInv
<1>2. QED
  BY <1>1, Inits, PTL DEF LSpec

\* Every variable has its type.
THEOREM LifecycleTypes == LSpec => []LTypeOK
BY LifecycleInductive, PTL DEF LInv

\* Among any number of processes that start together, the one that took the lock when there was
\* none is named by the lock file for as long as it holds it: acquireLocalRuntimeInstanceLock().
THEOREM TheHolderIsNamed == LSpec => []HolderIsNamed
<1>1. LInv => HolderIsNamed
  BY DEF LInv, LockInv, HolderIsNamed
<1>2. QED
  BY <1>1, LifecycleInductive, PTL

\* A daemon that is not stopped while it starts has what its state says and leaves nothing
\* behind: start(), its catch, and stop() of daemon.ts.
THEOREM NothingIsLeftBehind == LSpec => []ResourcesFollowTheState
<1>1. LInv => ResourcesFollowTheState
  <2>1. SUFFICES ASSUME LInv, NEW p \in Alive, ~proc[p].hurried
                 PROVE  /\ proc[p].database => proc[p].holds
                        /\ proc[p].state = "running" =>
                             proc[p].database /\ proc[p].server /\ proc[p].listening
                        /\ (proc[p].state \in {"stopped", "failed"} /\ proc[p].stop \in {"none", "ended"}) =>
                             /\ ~proc[p].holds /\ ~proc[p].database /\ ~proc[p].listening
                             /\ lock.recorded => lock.by # p
    BY DEF ResourcesFollowTheState
  <2>2. Standing(proc[p]) /\ proc[p] \in Process
    BY <2>1 DEF LInv, StandingInv, LTypeOK, Alive
  <2>3. lock.by = p /\ lock.recorded => proc[p].holds
    BY <2>1 DEF LInv, RecordInv
  <2>4. QED
    BY <2>2, <2>3 DEF Standing
<1>2. QED
  BY <1>1, LifecycleInductive, PTL

=============================================================================
