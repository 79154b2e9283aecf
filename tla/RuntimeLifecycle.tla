-------------------------- MODULE RuntimeLifecycle --------------------------
(***************************************************************************)
(* The Local Runtime daemon (apps/local/src/daemon.ts) and its instance    *)
(* lock (apps/local/src/instance-lock.ts), for several processes started   *)
(* by apps/local/src/cli.ts on one machine: each calls start() once, and   *)
(* stop() once on its first signal, whatever start() is waiting for.       *)
(*                                                                         *)
(* Taking the lock is synchronous for its process, but every file system   *)
(* call in it can be followed by one of another process.  start() and      *)
(* stop() of one process interleave at their awaits; what lies between two *)
(* awaits is one step.  The components between the database and the server *)
(* are one component, which needs the database to initialise: their own    *)
(* behaviour has modules of its own.                                       *)
(*                                                                         *)
(* A process id is not used again.  Writing the record of a lock, and      *)
(* judging its age once it was read, take less than its grace of 5 s.      *)
(***************************************************************************)
EXTENDS FiniteSets

CONSTANTS
  Processes,  \* the processes that are started, one run of cli.ts each
  Crashes     \* bound: the processes that may be killed

ASSUME CrashesAssumption == Crashes \subseteq Processes

VARIABLES
  lock,  \* the file at lockPath
  made,  \* history: how many lock files were made, as "none", "one" or "more"
  proc   \* the processes

lifeVars == <<lock, made, proc>>

(***************************************************************************)
(* Records                                                                 *)
(***************************************************************************)
NoProcess == "none"

ASSUME ProcessesAssumption == NoProcess \notin Processes

\* by: who made the file; recorded: its record is written; fresh: younger than its grace
NoLock == [by |-> NoProcess, recorded |-> FALSE, fresh |-> FALSE]
Made(p) == [by |-> p, recorded |-> FALSE, fresh |-> TRUE]
LockFile ==
  {NoLock} \cup [by : Processes, recorded : BOOLEAN, fresh : BOOLEAN]

States == {"idle", "starting", "running", "stopping", "stopped", "failed"}

\* start, stop: where the calls have come to; holds: #instanceLock; database: isOpen;
\* server: #server; listening: the socket; hurried: stop() came while start() was under way
Process ==
  [alive : BOOLEAN, state : States, hurried : BOOLEAN,
   start : {"none", "open", "read", "stat", "unlink", "again", "write", "initialize",
            "listen", "bound", "announce", "server", "database", "release", "ended"},
   stop : {"none", "server", "services", "database", "release", "ended"},
   holds : BOOLEAN, database : BOOLEAN, server : BOOLEAN, listening : BOOLEAN]

NotStarted ==
  [alive |-> TRUE, state |-> "idle", hurried |-> FALSE, start |-> "none", stop |-> "none",
   holds |-> FALSE, database |-> FALSE, server |-> FALSE, listening |-> FALSE]

Alive == {p \in Processes : proc[p].alive}
Acquiring(p) == proc[p].start \in {"read", "stat", "unlink", "again", "write"}

\* p is between two awaits of start(), or of stop(): nothing else of p holds the thread
InStart(p, place) == proc[p].alive /\ proc[p].start = place
InStop(p, place) == proc[p].alive /\ proc[p].stop = place /\ ~Acquiring(p)

Goto(p, place) == proc' = [proc EXCEPT ![p].start = place]

(***************************************************************************)
(* acquireLocalRuntimeInstanceLock()                                       *)
(***************************************************************************)
Start(p) ==
  /\ InStart(p, "none")
  /\ proc' = [proc EXCEPT ![p].state = "starting", ![p].start = "open"]
  /\ UNCHANGED <<lock, made>>

\* openSync(path, 'wx'): the file must not exist
OpenLock(p) ==
  /\ InStart(p, "open") \/ InStart(p, "again")
  /\ \/ /\ lock = NoLock
        /\ lock' = Made(p)
        /\ made' = IF made = "none" THEN "one" ELSE "more"
        /\ Goto(p, "write")
     \/ lock # NoLock /\ Goto(p, "read") /\ UNCHANGED <<lock, made>>
     \/ Goto(p, "server") /\ UNCHANGED <<lock, made>>   \* EACCES

\* Mutant: a record that cannot be read is one left by a dead process.
ReadLockUngraceful(p) ==
  /\ InStart(p, "read")
  /\ Goto(p, IF lock.recorded /\ lock.by \in Alive THEN "server" ELSE "unlink")
  /\ UNCHANGED <<lock, made>>

\* Mutant: a lock that is held is tried again instead of being an error.
ReadLockRetrying(p) ==
  /\ InStart(p, "read")
  /\ Goto(p, IF ~lock.recorded THEN "stat" ELSE IF lock.by \in Alive THEN "again" ELSE "unlink")
  /\ UNCHANGED <<lock, made>>

\* readExistingRecord() and pidIsAlive(); EADDRINUSE
ReadLock(p) ==
  /\ InStart(p, "read")
  /\ Goto(p, IF ~lock.recorded THEN "stat" ELSE IF lock.by \in Alive THEN "server" ELSE "unlink")
  /\ UNCHANGED <<lock, made>>

\* invalidLockIsOldEnoughToRecover(); EAGAIN
StatLock(p) ==
  /\ InStart(p, "stat")
  /\ Goto(p, IF lock.fresh THEN "server" ELSE "unlink")
  /\ UNCHANGED <<lock, made>>

RemoveStaleLock(p) ==
  /\ InStart(p, "unlink")
  /\ lock' = NoLock
  /\ Goto(p, "again")
  /\ UNCHANGED made

\* The record goes to the file p made, which another process may have removed; then
\* database.open(), before anything is awaited
WriteLock(p) ==
  /\ InStart(p, "write")
  /\ lock' = IF lock.by = p THEN [lock EXCEPT !.recorded = TRUE] ELSE lock
  /\ \E opened \in BOOLEAN :
       proc' = [proc EXCEPT ![p].holds = TRUE, ![p].database = opened,
                            ![p].start = IF opened THEN "initialize" ELSE "server"]
  /\ UNCHANGED made

\* The disk is full: the file stays, empty
WriteFails(p) ==
  /\ InStart(p, "write")
  /\ Goto(p, "server")
  /\ UNCHANGED <<lock, made>>

\* Five seconds go by
LockAges ==
  /\ lock.fresh
  /\ \A p \in Alive : proc[p].start \notin {"write", "stat"}
  /\ lock' = [lock EXCEPT !.fresh = FALSE]
  /\ UNCHANGED <<made, proc>>

\* release(): the file is removed if it holds the record of p
Released(p) == IF proc[p].holds /\ lock.by = p /\ lock.recorded THEN NoLock ELSE lock

(***************************************************************************)
(* The rest of start()                                                     *)
(***************************************************************************)
\* The components initialise, or one of them does not
Initialize(p) ==
  /\ InStart(p, "initialize")
  /\ \/ proc[p].database /\ Goto(p, "listen")
     \/ Goto(p, "server")
  /\ UNCHANGED <<lock, made>>

Listen(p) ==
  /\ InStart(p, "listen")
  /\ proc' = [proc EXCEPT ![p].server = TRUE, ![p].start = "bound"]
  /\ UNCHANGED <<lock, made>>

\* The port is exclusive
Bound(p) ==
  /\ InStart(p, "bound")
  /\ proc' = IF \E q \in Alive : proc[q].listening
             THEN [proc EXCEPT ![p].start = "server"]
             ELSE [proc EXCEPT ![p].listening = TRUE, ![p].state = "running",
                               ![p].start = "announce"]
  /\ UNCHANGED <<lock, made>>

\* Without a server there is no address to return
StartReturns(p) ==
  /\ InStart(p, "announce")
  /\ Goto(p, IF proc[p].server THEN "ended" ELSE "server")
  /\ UNCHANGED <<lock, made>>

\* #closeServerBestEffort(): a server that does not listen yet is only forgotten
ServerClosed(r) ==
  [r EXCEPT !.server = FALSE, !.listening = @ /\ ~r.server]

\* The catch of start(); closing the components awaits
StartFails(p) ==
  /\ InStart(p, "server")
  /\ proc' = [proc EXCEPT ![p] = [ServerClosed(@) EXCEPT !.start = "database"]]
  /\ UNCHANGED <<lock, made>>

StartClosesDatabase(p) ==
  /\ InStart(p, "database")
  /\ proc' = [proc EXCEPT ![p].database = FALSE, ![p].start = "release"]
  /\ UNCHANGED <<lock, made>>

StartReleases(p) ==
  /\ InStart(p, "release")
  /\ lock' = Released(p)
  /\ proc' = [proc EXCEPT ![p].holds = FALSE, ![p].state = "failed", ![p].start = "ended"]
  /\ UNCHANGED made

(***************************************************************************)
(* stop()                                                                  *)
(***************************************************************************)
Stop(p) ==
  /\ InStop(p, "none")
  /\ proc[p].state \in {"starting", "running", "failed"}
  /\ proc' = [proc EXCEPT ![p].state = "stopping", ![p].stop = "server",
                          ![p].hurried = proc[p].start # "ended"]
  /\ UNCHANGED <<lock, made>>

StopClosesServer(p) ==
  /\ InStop(p, "server")
  /\ proc' = [proc EXCEPT ![p] = [ServerClosed(@) EXCEPT !.stop = "services"]]
  /\ UNCHANGED <<lock, made>>

\* Components shut down, across awaits
StopServices(p) ==
  /\ InStop(p, "services")
  /\ proc' = [proc EXCEPT ![p].stop = "database"]
  /\ UNCHANGED <<lock, made>>

\* Mutant: the lock is given up before the database is closed.
StopReleasesFirst(p) ==
  /\ InStop(p, "database")
  /\ lock' = Released(p)
  /\ proc' = [proc EXCEPT ![p].holds = FALSE, ![p].stop = "release"]
  /\ UNCHANGED made

StopClosesDatabase(p) ==
  /\ InStop(p, "database")
  /\ proc' = [proc EXCEPT ![p].database = FALSE, ![p].stop = "release"]
  /\ UNCHANGED <<lock, made>>

\* failed: a component threw while it shut down
StopReleases(p) ==
  /\ InStop(p, "release")
  /\ lock' = Released(p)
  /\ \E outcome \in {"stopped", "failed"} :
       proc' = [proc EXCEPT ![p].holds = FALSE, ![p].state = outcome, ![p].stop = "ended"]
  /\ UNCHANGED made

(***************************************************************************)
(* The end of a process                                                    *)
(***************************************************************************)
Dead(r) == [r EXCEPT !.alive = FALSE, !.database = FALSE, !.listening = FALSE]

\* Nothing keeps the event loop: no call is under way and the socket is closed
Exit(p) ==
  /\ InStart(p, "ended") /\ proc[p].stop \in {"none", "ended"}
  /\ ~proc[p].listening
  /\ proc' = [proc EXCEPT ![p] = Dead(@)]
  /\ UNCHANGED <<lock, made>>

Crash(p) ==
  /\ p \in Crashes \cap Alive
  /\ proc' = [proc EXCEPT ![p] = Dead(@)]
  /\ UNCHANGED <<lock, made>>

LInit == lock = NoLock /\ made = "none" /\ proc = [p \in Processes |-> NotStarted]

StartStep(p) ==
  \/ OpenLock(p) \/ ReadLock(p) \/ StatLock(p) \/ RemoveStaleLock(p)
  \/ WriteLock(p) \/ WriteFails(p)
  \/ Initialize(p) \/ Listen(p) \/ Bound(p) \/ StartReturns(p)
  \/ StartFails(p) \/ StartClosesDatabase(p) \/ StartReleases(p)

StopStep(p) ==
  StopClosesServer(p) \/ StopServices(p) \/ StopClosesDatabase(p) \/ StopReleases(p)

LNext ==
  \/ \E p \in Processes : Start(p) \/ StartStep(p) \/ Stop(p) \/ StopStep(p) \/ Exit(p) \/ Crash(p)
  \/ LockAges

LSpec == LInit /\ [][LNext]_lifeVars

\* The event loop runs the calls under way, as long as the process is not killed.
LFairness ==
  \A p \in Processes : WF_lifeVars(StartStep(p)) /\ WF_lifeVars(StopStep(p)) /\ WF_lifeVars(Exit(p))

LFairSpec == LSpec /\ LFairness

(***************************************************************************)
(* Properties                                                              *)
(***************************************************************************)
\* Every variable has its type.
LTypeOK ==
  lock \in LockFile /\ made \in {"none", "one", "more"} /\ proc \in [Processes -> Process]

\* The process that took the lock when there was none is named by the file for as long as it
\* believes it holds it, however many others start meanwhile and before its record is written.
\* (Once a file was removed, a process that judged it before removes the next one too.)
HolderIsNamed ==
  made = "one" => \A p \in Alive : proc[p].holds => lock.by = p /\ lock.recorded

\* A process whose stop() did not overtake its start() has the database open only while it
\* believes it holds the lock, is running only with database, server and socket, and leaves
\* none of them, nor the lock file, behind when its calls have ended in "stopped" or "failed".
ResourcesFollowTheState ==
  \A p \in Alive : LET r == proc[p] IN ~r.hurried =>
    /\ r.database => r.holds
    /\ r.state = "running" => r.database /\ r.server /\ r.listening
    /\ (r.state \in {"stopped", "failed"} /\ r.stop \in {"none", "ended"}) =>
         ~r.holds /\ ~r.database /\ ~r.listening /\ (lock.recorded => lock.by # p)

\* A start() comes to an end, whatever lock file it finds and whoever starts or stops meanwhile;
\* and a process that was asked to stop, and was not just starting, ends.
CallsEnd ==
  \A p \in Processes :
    /\ (proc[p].start = "open") ~> (proc[p].start = "ended" \/ ~proc[p].alive)
    /\ (proc[p].stop # "none" /\ ~proc[p].hurried) ~> ~proc[p].alive

\* The lifecycle of the documentation goes from "running" to "stopped" and not back: a daemon
\* that was stopped does not run.  One that was still starting when it was stopped does.
StoppedIsFinal ==
  [][\A p \in Processes : proc[p].state = "stopped" => proc'[p].state # "running"]_lifeVars
=============================================================================
