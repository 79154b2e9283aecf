--------------------------- MODULE ChangeTracking ---------------------------
(***************************************************************************)
(* Human vs AI Change Tracking (apps/local/src/change-tracker.ts) over one *)
(* workspace: who is said to have written the uncommitted state of each    *)
(* path, when people and an agent write while the tracker reads.           *)
(*                                                                         *)
(* observeHumanChanges(), beginAiChange(), completeAiChange() and          *)
(* cancelAiChange() check the sessions, capture the workspace across       *)
(* awaits (git status first, then one digest after the other) and end with *)
(* one synchronous step that reads the latest events and writes.  Each of  *)
(* these is a step of its own.  Sessions and events survive the process;   *)
(* calls and readiness do not.                                             *)
(*                                                                         *)
(* Data kept: a digest is the number of the write it saw, of the event log *)
(* the latest row of each path (all the code reads back).  Authorisation,  *)
(* the state of the job and the integrity of the stored baseline can only  *)
(* refuse a call: CallFails.  Publications are left out, but for those the *)
(* shutdown awaits.  The agent writes between the beginning of its session *)
(* and the call that ends it; people write at any time.                    *)
(***************************************************************************)
EXTENDS Integers

CONSTANTS
  Paths,        \* paths of the workspace
  Sessions,     \* ids an AI change session can be given
  Calls,        \* calls of the tracker under way at once
  MaxWrites,    \* bound: how often a file is written
  MaxProcesses  \* bound: how many processes run one after another

ASSUME BoundsAssumption == MaxWrites \in Nat /\ MaxProcesses \in Nat \ {0}

VARIABLES
  file,     \* the workspace: number of the write each path shows, Clean if none
  writes,   \* history: how many writes there were
  touched,  \* history: sessions whose agent wrote the path since it was clean
  latest,   \* gd_change_path_events: the latest row of each path
  session,  \* gd_change_sessions
  call,     \* the calls of the tracker
  stage,    \* of the daemon: "down", "up", "stopping" or "draining"
  process,  \* #processInstanceId
  overlap   \* history: a capture was applied that a session had begun after

workspace == <<file, writes, touched>>
tables == <<latest, session>>
daemon == <<stage, process>>
changeVars == <<workspace, tables, call, daemon, overlap>>

(***************************************************************************)
(* Records                                                                 *)
(***************************************************************************)
Clean == 0

\* git status listed the path, and it was clean when its digest was taken
Vanished == -1

Versions == Vanished .. MaxWrites
Origins == {"human", "ai", "mixed", "unknown"}

Event == [origin : Origins \cup {"none"}, version : Versions, dirty : BOOLEAN]
Baseline == [Paths -> [version : Versions, origin : Origins \cup {"none"}]]
SessionRow ==
  [state : {"absent", "active", "completed", "cancelled", "invalidated"},
   process : 0 .. MaxProcesses, baseline : Baseline]

NoBaseline == [p \in Paths |-> [version |-> Clean, origin |-> "none"]]

\* A row whose session is not active: the process and the baseline are not read again
Row(state) == [state |-> state, process |-> 0, baseline |-> NoBaseline]

NoSession == "none"

\* fresh: no session began since the call made its checks
Call ==
  [op : {"none", "observe", "begin", "complete", "cancel"}, id : Sessions \cup {NoSession},
   listed : BOOLEAN, left : SUBSET Paths, seen : [Paths -> Versions], fresh : BOOLEAN]
Started(op, id) ==
  [op |-> op, id |-> id, listed |-> FALSE, left |-> {}, seen |-> [p \in Paths |-> Clean],
   fresh |-> TRUE]
Idle == Started("none", NoSession)

Dirty == {p \in Paths : file[p] # Clean}
Active == {s \in Sessions : session[s].state = "active"}
Ready == stage \in {"up", "stopping"}
DatabaseOpen == stage # "down"

(***************************************************************************)
(* The attribution rules                                                   *)
(***************************************************************************)
\* Mutant: a human edit of what the AI wrote makes it human.
CombineHumanOverAi(previous) ==
  IF previous = "mixed" THEN "mixed" ELSE IF previous = "unknown" THEN "unknown" ELSE "human"

CombineHuman(previous) ==
  CASE previous \in {"ai", "mixed"} -> "mixed"
    [] previous = "unknown" -> "unknown"
    [] OTHER -> "human"

\* Mutant: what was unknown before the session is the AI's after it.
CombineAiOverUnknown(previous) == IF previous \in {"human", "mixed"} THEN "mixed" ELSE "ai"

CombineAi(previous) ==
  CASE previous \in {"human", "mixed"} -> "mixed"
    [] previous = "unknown" -> "unknown"
    [] OTHER -> "ai"

Recorded(origin, v) == [origin |-> origin, version |-> v, dirty |-> v # Clean]

\* The latest event still describes what the capture saw
Reconciled(p, v) == latest[p].dirty /\ latest[p].version = v

PreviousOrigin(p) == IF latest[p].dirty THEN latest[p].origin ELSE "none"

Cleaned(p) == [latest[p] EXCEPT !.dirty = FALSE, !.version = Clean]

\* The latest event once a capture that saw v is applied by an observation ...
Observed(p, v) ==
  IF v = Clean THEN Cleaned(p)
  ELSE IF Reconciled(p, v) THEN latest[p]
  ELSE Recorded(CombineHuman(PreviousOrigin(p)), v)

\* ... by the beginning of a session ...
Baselined(p, v) ==
  IF v = Clean THEN Cleaned(p)
  ELSE IF Reconciled(p, v) THEN latest[p]
  ELSE Recorded("unknown", v)

BaselineOf(seen) ==
  [p \in Paths |-> [version |-> seen[p],
                    origin |-> IF seen[p] = Clean THEN "none" ELSE Baselined(p, seen[p]).origin]]

\* ... and by its end
Attributed(s, outcome, p, v) ==
  LET before == session[s].baseline[p] IN
  IF v = before.version THEN latest[p]
  ELSE Recorded(IF outcome = "cancelled" THEN "unknown" ELSE CombineAi(before.origin), v)

(***************************************************************************)
(* A call starts, and captures the workspace                               *)
(***************************************************************************)
StartCall(c, op, s) ==
  /\ call[c].op = "none"
  /\ call' = [call EXCEPT ![c] = Started(op, s)]
  /\ UNCHANGED <<workspace, tables, daemon, overlap>>

ObserveHumanChanges(c) == Ready /\ Active = {} /\ StartCall(c, "observe", NoSession)

BeginAiChange(c, s) ==
  /\ Ready /\ Active = {}
  /\ session[s].state = "absent"
  /\ \A d \in Calls : ~(call[d].op = "begin" /\ call[d].id = s)
  /\ StartCall(c, "begin", s)

FinishAiChange(c, s, op) ==
  /\ Ready
  /\ session[s].state = "active" /\ session[s].process = process
  /\ StartCall(c, op, s)

\* git.statusSnapshot(): the paths that are dirty
ListPaths(c) ==
  /\ call[c].op # "none" /\ ~call[c].listed
  /\ call' = [call EXCEPT ![c].listed = TRUE, ![c].left = Dirty]
  /\ UNCHANGED <<workspace, tables, daemon, overlap>>

\* The digest of one listed path
TakeDigest(c, p) ==
  /\ call[c].op # "none" /\ p \in call[c].left
  /\ call' = [call EXCEPT ![c].left = @ \ {p},
                          ![c].seen[p] = IF file[p] = Clean THEN Vanished ELSE file[p]]
  /\ UNCHANGED <<workspace, tables, daemon, overlap>>

\* The call is refused, git or the database throws
CallFails(c) ==
  /\ call[c].op # "none"
  /\ call' = [call EXCEPT ![c] = Idle]
  /\ UNCHANGED <<workspace, tables, daemon, overlap>>

Captured(c, ops) ==
  /\ DatabaseOpen
  /\ call[c].op \in ops /\ call[c].listed /\ call[c].left = {}

(***************************************************************************)
(* The capture is applied                                                  *)
(***************************************************************************)
RecordHumanChanges(c) ==
  /\ Captured(c, {"observe"})
  /\ latest' = [p \in Paths |-> Observed(p, call[c].seen[p])]
  /\ call' = [call EXCEPT ![c] = Idle]
  /\ overlap' = (overlap \/ ~call[c].fresh)
  /\ UNCHANGED <<workspace, session, daemon>>

\* Calls that have made their checks do not make them again when a session begins
Overtaken(c) ==
  [d \in Calls |-> IF d = c \/ call[d].op = "none" THEN Idle ELSE [call[d] EXCEPT !.fresh = FALSE]]

\* Mutant: the table has no unique index on active sessions.
InsertSessionUnchecked(c) ==
  LET s == call[c].id IN
  /\ Captured(c, {"begin"})
  /\ latest' = [p \in Paths |-> Baselined(p, call[c].seen[p])]
  /\ session' = [session EXCEPT ![s] = [state |-> "active", process |-> process,
                                        baseline |-> BaselineOf(call[c].seen)]]
  /\ call' = Overtaken(c)
  /\ overlap' = (overlap \/ ~call[c].fresh)
  /\ UNCHANGED <<workspace, daemon>>

\* INSERT fails on gd_change_sessions_active_workspace_idx if a session is active
InsertSession(c) ==
  LET s == call[c].id IN
  /\ Captured(c, {"begin"}) /\ Active = {}
  /\ latest' = [p \in Paths |-> Baselined(p, call[c].seen[p])]
  /\ session' = [session EXCEPT ![s] = [state |-> "active", process |-> process,
                                        baseline |-> BaselineOf(call[c].seen)]]
  /\ call' = Overtaken(c)
  /\ overlap' = (overlap \/ ~call[c].fresh)
  /\ UNCHANGED <<workspace, daemon>>

Outcome(op) == IF op = "complete" THEN "completed" ELSE "cancelled"

\* UPDATE ... WHERE state = 'active' AND process_instance_id = ? must change one row
EndSession(c) ==
  LET s == call[c].id
      outcome == Outcome(call[c].op) IN
  /\ Captured(c, {"complete", "cancel"})
  /\ session[s].state = "active" /\ session[s].process = process
  /\ latest' = [p \in Paths |-> Attributed(s, outcome, p, call[c].seen[p])]
  /\ session' = [session EXCEPT ![s] = Row(outcome)]
  /\ call' = [call EXCEPT ![c] = Idle]
  /\ UNCHANGED <<workspace, daemon, overlap>>

(***************************************************************************)
(* Start and stop                                                          *)
(***************************************************************************)
Invalidated(S) ==
  [s \in Sessions |-> IF s \in S THEN Row("invalidated") ELSE session[s]]

Own == {s \in Active : session[s].process = process}

\* Mutant: only sessions a graceful stop could have left are looked for.
InitializeAfterStop ==
  /\ stage = "down"
  /\ stage' = "up"
  /\ session' = Invalidated(Own)
  /\ UNCHANGED <<workspace, latest, call, process, overlap>>

Initialize ==
  /\ stage = "down"
  /\ stage' = "up"
  /\ session' = Invalidated(Active \ Own)
  /\ UNCHANGED <<workspace, latest, call, process, overlap>>

\* shutdown() publishes each row it invalidated, still ready
Shutdown ==
  /\ stage = "up"
  /\ stage' = IF Own = {} THEN "draining" ELSE "stopping"
  /\ session' = Invalidated(Own)
  /\ UNCHANGED <<workspace, latest, call, process, overlap>>

ShutdownEnds ==
  /\ stage = "stopping" /\ stage' = "draining"
  /\ UNCHANGED <<workspace, tables, call, process, overlap>>

\* The daemon closes the database; a call that awaits git does not notice, and goes on
\* if the daemon is started again in the same process
CloseDatabase ==
  /\ stage = "draining" /\ stage' = "down"
  /\ UNCHANGED <<workspace, tables, call, process, overlap>>

ProcessEnds ==
  /\ process < MaxProcesses
  /\ process' = process + 1
  /\ stage' = "down"
  /\ call' = [c \in Calls |-> Idle]
  /\ UNCHANGED <<workspace, tables, overlap>>

(***************************************************************************)
(* The workspace                                                           *)
(***************************************************************************)
WriteFile(p, who) ==
  /\ writes < MaxWrites
  /\ writes' = writes + 1
  /\ file' = [file EXCEPT ![p] = writes + 1]
  /\ touched' = [touched EXCEPT ![p] = @ \cup who]
  /\ UNCHANGED <<tables, call, daemon, overlap>>

HumanWrites(p) == WriteFile(p, {})

AgentWrites(s, p) ==
  /\ stage # "down"
  /\ session[s].state = "active" /\ session[s].process = process
  /\ \A c \in Calls : ~(call[c].op \in {"complete", "cancel"} /\ call[c].id = s)
  /\ WriteFile(p, {s})

\* A commit, or a checkout of what was committed
CleanFile(p) ==
  /\ file[p] # Clean
  /\ file' = [file EXCEPT ![p] = Clean]
  /\ touched' = [touched EXCEPT ![p] = {}]
  /\ UNCHANGED <<writes, tables, call, daemon, overlap>>

(***************************************************************************)
(* Specification                                                           *)
(***************************************************************************)
CInit ==
  /\ file = [p \in Paths |-> Clean] /\ writes = 0 /\ touched = [p \in Paths |-> {}]
  /\ latest = [p \in Paths |-> [origin |-> "none", version |-> Clean, dirty |-> FALSE]]
  /\ session = [s \in Sessions |-> Row("absent")]
  /\ call = [c \in Calls |-> Idle]
  /\ stage = "down" /\ process = 1 /\ overlap = FALSE

StartStep ==
  \E c \in Calls :
    \/ ObserveHumanChanges(c)
    \/ \E s \in Sessions :
         \/ BeginAiChange(c, s)
         \/ FinishAiChange(c, s, "complete")
         \/ FinishAiChange(c, s, "cancel")

CallStep ==
  \E c \in Calls :
    \/ ListPaths(c)
    \/ \E p \in Paths : TakeDigest(c, p)
    \/ CallFails(c)
    \/ RecordHumanChanges(c)
    \/ InsertSession(c)
    \/ EndSession(c)

DaemonStep == Initialize \/ Shutdown \/ ShutdownEnds \/ CloseDatabase \/ ProcessEnds

WorkspaceStep ==
  \E p \in Paths :
    \/ HumanWrites(p)
    \/ \E s \in Sessions : AgentWrites(s, p)
    \/ CleanFile(p)

CNext == StartStep \/ CallStep \/ DaemonStep \/ WorkspaceStep

CSpec == CInit /\ [][CNext]_changeVars

(***************************************************************************)
(* Properties                                                              *)
(***************************************************************************)
\* Every variable holds a value of its type, and the latest event of a path is
\* dirty exactly if it has a digest other than the one of a clean path.
CTypeOK ==
  /\ file \in [Paths -> 0 .. MaxWrites] /\ writes \in 0 .. MaxWrites
  /\ touched \in [Paths -> SUBSET Sessions]
  /\ latest \in [Paths -> Event]
  /\ \A p \in Paths : latest[p].dirty <=> latest[p].version # Clean
  /\ session \in [Sessions -> SessionRow]
  /\ call \in [Calls -> Call]
  /\ stage \in {"down", "up", "stopping", "draining"}
  /\ process \in 1 .. MaxProcesses /\ overlap \in BOOLEAN

\* Two beginAiChange() calls that both found no session before their awaits do not
\* both get one, and a daemon that serves has no session active that an earlier
\* process left behind, whatever was under way when that process ended.
OneActiveSession ==
  /\ \A s, t \in Active : s = t
  /\ stage # "down" => \A s \in Active : session[s].process = process

\* A dirty path whose origin is unknown stays unknown until it is seen clean: no
\* observation, session or late capture turns missing evidence into a claim.
UnknownIsSticky ==
  [][\A p \in Paths : latest[p].dirty /\ latest[p].origin = "unknown" /\ latest'[p].dirty
                        => latest'[p].origin = "unknown"]_changeVars

ReportedHuman(p) == latest[p].origin = "human" /\ latest[p].version = file[p] /\ file[p] # Clean

CompletedWork(p) == \E s \in touched[p] : session[s].state = "completed"

\* What the agent wrote in a session it completed is never reported as human: the
\* attribution survives later observations, sessions, restarts and failed calls, as
\* long as no capture is applied that a session had begun after.
CompletedWorkIsNotHuman == ~overlap => \A p \in Paths : CompletedWork(p) => ~ReportedHuman(p)

\* HUMAN_AI_CHANGE_TRACKING.md, "explicit attribution, never guessing": what the agent
\* of a completed session wrote is not reported as human, whatever calls overlapped.
AttributionSurvivesOverlap == \A p \in Paths : CompletedWork(p) => ~ReportedHuman(p)

=============================================================================
