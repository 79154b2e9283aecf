------------------------ MODULE ChangeTrackingProofs ------------------------
(***************************************************************************)
(* The sessions and the attribution of the change tracker, for any number  *)
(* of paths, sessions, calls, writes and processes.                        *)
(***************************************************************************)
EXTENDS ChangeTracking, TLAPS

(***************************************************************************)
(* The inductive invariant                                                 *)
(***************************************************************************)
Finishing == {"complete", "cancel"}

\* A call has what it needs of path p
Seen(c, p) == call[c].listed /\ p \notin call[c].left

\* The capture of c is not outdated by a session: what c may apply without an overlap
Sound(c) ==
  \/ call[c].op \in {"observe", "begin"} /\ call[c].fresh
  \/ call[c].op \in Finishing /\ session[call[c].id].state = "active"

\* While a session is active, what it found unknown is what is unknown.
UnknownInv ==
  \A s \in Active : \A p \in Paths :
    latest[p].dirty /\ latest[p].origin = "unknown" => session[s].baseline[p].origin = "unknown"

\* Versions are numbers of writes that have been.
WritesInv ==
  /\ \A p \in Paths : file[p] <= writes /\ (file[p] = Clean => touched[p] = {})
  /\ \A c \in Calls, p \in Paths : call[c].seen[p] <= writes
  /\ \A s \in Sessions, p \in Paths : session[s].baseline[p].version <= writes

\* Which sessions the calls are about.
CallInv ==
  /\ \A c \in Calls : call[c].op = "begin" =>
       /\ call[c].id \in Sessions /\ session[call[c].id].state = "absent"
       /\ \A d \in Calls : call[d].op = "begin" /\ call[d].id = call[c].id => d = c
  /\ \A c \in Calls : call[c].op \in Finishing =>
       call[c].id \in Sessions /\ session[call[c].id].state # "absent"
  /\ \A c \in Calls : call[c].op \in {"observe", "begin"} /\ call[c].fresh => Active = {}

\* The agent writes in its session only, and after the baseline.
AgentInv ==
  \A s \in Sessions, p \in Paths : s \in touched[p] =>
    /\ session[s].state # "absent"
    /\ session[s].state = "active" => file[p] > session[s].baseline[p].version

\* A sound capture that saw a path clean saw it after all completed work on it, and the
\* capture that ends a session saw what its agent wrote.
CaptureInv ==
  \A c \in Calls, p \in Paths : Sound(c) /\ Seen(c, p) =>
    /\ call[c].seen[p] <= Clean => \A s \in touched[p] : session[s].state # "completed"
    /\ call[c].op \in Finishing /\ call[c].id \in touched[p] =>
         call[c].seen[p] > Clean /\ call[c].seen[p] > session[call[c].id].baseline[p].version

\* Completed work is on record, and not as human.
CompletedInv ==
  ~overlap => \A p \in Paths : CompletedWork(p) => latest[p].dirty /\ latest[p].origin \in {"ai", "mixed", "unknown"}

CInv ==
  /\ CTypeOK /\ OneActiveSession /\ UnknownInv
  /\ WritesInv /\ CallInv /\ AgentInv /\ CaptureInv /\ CompletedInv

(***************************************************************************)
(* Types                                                                   *)
(***************************************************************************)
\* A row of a path is dirty exactly if it has a digest
SaneEvent == {e \in Event : e.dirty <=> e.version # Clean}

LEMMA SaneLatest == CTypeOK => latest \in [Paths -> SaneEvent]
BY DEF CTypeOK, SaneEvent

\* Records and events the operators build have their types.
LEMMA BuiltTypes ==
  ASSUME CTypeOK
  PROVE  /\ \A op \in {"none", "observe", "begin", "complete", "cancel"}, id \in Sessions \cup {NoSession} :
              Started(op, id) \in Call
         /\ Idle \in Call
         /\ \A state \in {"completed", "cancelled", "invalidated", "absent"} : Row(state) \in SessionRow
         /\ Clean \in Versions /\ Vanished \in Versions
         /\ \A p \in Paths, v \in Versions : Observed(p, v) \in SaneEvent /\ Baselined(p, v) \in SaneEvent
<1>1. Clean \in Versions /\ Vanished \in Versions /\ 0 \in 0 .. MaxProcesses
  BY BoundsAssumption DEF Clean, Vanished, Versions
<1>2. \A op \in {"none", "observe", "begin", "complete", "cancel"}, id \in Sessions \cup {NoSession} :
        Started(op, id) \in Call
  BY <1>1 DEF Started, Call
<1>3. Idle \in Call
  BY <1>2 DEF Idle
<1>4. \A state \in {"completed", "cancelled", "invalidated", "absent"} : Row(state) \in SessionRow
  BY <1>1 DEF Row, SessionRow, NoBaseline, Baseline
<1>5. ASSUME NEW p \in Paths, NEW v \in Versions
      PROVE  Observed(p, v) \in SaneEvent /\ Baselined(p, v) \in SaneEvent
  <2>1. latest[p] \in SaneEvent
    BY SaneLatest
  <2>2. Cleaned(p) \in SaneEvent
    BY <1>1, <2>1 DEF Cleaned, Event, SaneEvent
  <2>3. \A origin \in Origins : Recorded(origin, v) \in SaneEvent
    BY DEF Recorded, Event, SaneEvent
  <2>4. CombineHuman(PreviousOrigin(p)) \in Origins /\ "unknown" \in Origins
    BY DEF CombineHuman, Origins
  <2>5. QED
    BY <2>1, <2>2, <2>3, <2>4 DEF Observed, Baselined
<1>6. QED
  BY <1>1, <1>2, <1>3, <1>4, <1>5

LEMMA StartKeepsTypes ==
  ASSUME CTypeOK, StartStep
  PROVE  CTypeOK'
<1>1. PICK c \in Calls :
        \/ ObserveHumanChanges(c)
        \/ \E s \in Sessions : \/ BeginAiChange(c, s)
                               \/ FinishAiChange(c, s, "complete")
                               \/ FinishAiChange(c, s, "cancel")
  BY DEF StartStep
<1>2. PICK op \in {"observe", "begin", "complete", "cancel"}, id \in Sessions \cup {NoSession} :
        StartCall(c, op, id)
  BY <1>1 DEF ObserveHumanChanges, BeginAiChange, FinishAiChange
<1>3. Started(op, id) \in Call
  BY BuiltTypes
<1>4. QED
  BY <1>2, <1>3 DEF StartCall, CTypeOK, workspace, tables, daemon

LEMMA CallKeepsTypes ==
  ASSUME CTypeOK, CallStep
  PROVE  CTypeOK'
<1>0. call \in [Calls -> Call] /\ session \in [Sessions -> SessionRow] /\ latest \in [Paths -> Event]
  BY DEF CTypeOK
<1>1. ASSUME NEW c \in Calls, ListPaths(c)
      PROVE  CTypeOK'
  <2>1. [call[c] EXCEPT !.listed = TRUE, !.left = Dirty] \in Call
    BY <1>0 DEF Call, Dirty
  <2>2. call' = [call EXCEPT ![c] = [call[c] EXCEPT !.listed = TRUE, !.left = Dirty]]
    BY <1>0, <1>1 DEF ListPaths
  <2>3. QED
    BY <1>1, <2>1, <2>2 DEF ListPaths, CTypeOK, workspace, tables, daemon
<1>2. ASSUME NEW c \in Calls, NEW p \in Paths, TakeDigest(c, p)
      PROVE  CTypeOK'
  <2> DEFINE v == IF file[p] = Clean THEN Vanished ELSE file[p]
             r == [call[c] EXCEPT !.left = @ \ {p}, !.seen[p] = v]
  <2>1. v \in Versions
    BY BuiltTypes DEF CTypeOK, Versions, Vanished
  <2>2. r \in Call
    BY <1>0, <2>1 DEF Call
  <2>3. call' = [call EXCEPT ![c] = r]
    BY <1>0, <1>2 DEF TakeDigest
  <2>4. QED
    BY <1>2, <2>2, <2>3 DEF TakeDigest, CTypeOK, workspace, tables, daemon
<1>3. ASSUME NEW c \in Calls, CallFails(c)
      PROVE  CTypeOK'
  BY <1>3, BuiltTypes DEF CallFails, CTypeOK, workspace, tables, daemon
<1>4. ASSUME NEW c \in Calls, RecordHumanChanges(c)
      PROVE  CTypeOK'
  <2>1. \A p \in Paths : call[c].seen[p] \in Versions
    BY <1>0 DEF Call
  <2>2. latest' \in [Paths -> SaneEvent]
    BY <1>4, <2>1, BuiltTypes DEF RecordHumanChanges
  <2>3. call' \in [Calls -> Call]
    BY <1>0, <1>4, BuiltTypes DEF RecordHumanChanges
  <2>4. overlap' \in BOOLEAN
    BY <1>0, <1>4 DEF RecordHumanChanges, CTypeOK, Call
  <2>5. QED
    BY <1>4, <2>2, <2>3, <2>4 DEF RecordHumanChanges, SaneEvent, CTypeOK, workspace, daemon
<1>5. ASSUME NEW c \in Calls, InsertSession(c)
      PROVE  CTypeOK'
  <2> DEFINE s == call[c].id
             r == [state |-> "active", process |-> process, baseline |-> BaselineOf(call[c].seen)]
  <2>1. \A p \in Paths : call[c].seen[p] \in Versions
    BY <1>0 DEF Call
  <2>2. latest' \in [Paths -> SaneEvent]
    BY <1>5, <2>1, BuiltTypes DEF InsertSession
  <2>3. r \in SessionRow
    <3>1. process \in 0 .. MaxProcesses
      BY BoundsAssumption DEF CTypeOK
    <3>2. \A p \in Paths : Baselined(p, call[c].seen[p]).origin \in Origins \cup {"none"}
      BY <2>1, BuiltTypes DEF SaneEvent, Event
    <3>3. BaselineOf(call[c].seen) \in Baseline
      BY <2>1, <3>2 DEF BaselineOf, Baseline
    <3>4. QED
      BY <3>1, <3>3 DEF SessionRow
  <2>4. session' \in [Sessions -> SessionRow]
    BY <1>0, <1>5, <2>3 DEF InsertSession
  <2>5. call' \in [Calls -> Call]
    <3>1. \A d \in Calls : [call[d] EXCEPT !.fresh = FALSE] \in Call
      BY <1>0 DEF Call
    <3>2. QED
      BY <1>5, <3>1, BuiltTypes DEF InsertSession, Overtaken
  <2>6. overlap' \in BOOLEAN
    BY <1>0, <1>5 DEF InsertSession, CTypeOK, Call
  <2>7. QED
    BY <1>5, <2>2, <2>4, <2>5, <2>6 DEF InsertSession, SaneEvent, CTypeOK, workspace, daemon
<1>6. ASSUME NEW c \in Calls, EndSession(c)
      PROVE  CTypeOK'
  <2> DEFINE id == call[c].id
             result == Outcome(call[c].op)
  <2>1. \A p \in Paths : call[c].seen[p] \in Versions
    BY <1>0 DEF Call
  <2>2. \A p \in Paths : Attributed(id, result, p, call[c].seen[p]) \in SaneEvent
    BY <2>1, SaneLatest DEF Attributed, Recorded, Event, CombineAi, Origins, SaneEvent
  <2>3. latest' \in [Paths -> SaneEvent]
    BY <1>6, <2>2 DEF EndSession
  <2>4. session' \in [Sessions -> SessionRow]
    BY <1>0, <1>6, BuiltTypes DEF EndSession, Outcome
  <2>5. call' \in [Calls -> Call]
    BY <1>0, <1>6, BuiltTypes DEF EndSession
  <2>6. QED
    BY <1>6, <2>3, <2>4, <2>5 DEF EndSession, SaneEvent, CTypeOK, workspace, daemon
<1>7. QED
  BY <1>1, <1>2, <1>3, <1>4, <1>5, <1>6 DEF CallStep

LEMMA DaemonKeepsTypes ==
  ASSUME CTypeOK, DaemonStep
  PROVE  CTypeOK'
<1>1. \A S : Invalidated(S) \in [Sessions -> SessionRow]
  BY BuiltTypes DEF Invalidated, CTypeOK
<1>2. CASE Initialize \/ Shutdown \/ ShutdownEnds \/ CloseDatabase
  BY <1>1, <1>2 DEF Initialize, Shutdown, ShutdownEnds, CloseDatabase, CTypeOK, workspace, tables
<1>3. CASE ProcessEnds
  <2>1. process' \in 1 .. MaxProcesses
    BY <1>3, BoundsAssumption DEF ProcessEnds, CTypeOK
  <2>2. QED
    BY <1>3, <2>1, BuiltTypes DEF ProcessEnds, CTypeOK, workspace, tables
<1>4. QED
  BY <1>2, <1>3 DEF DaemonStep

LEMMA WorkspaceKeepsTypes ==
  ASSUME CTypeOK, WorkspaceStep
  PROVE  CTypeOK'
<1>1. ASSUME NEW p \in Paths, NEW who \in SUBSET Sessions, WriteFile(p, who)
      PROVE  CTypeOK'
  <2>1. writes + 1 \in 0 .. MaxWrites
    BY <1>1, BoundsAssumption DEF WriteFile, CTypeOK
  <2>2. QED
    BY <1>1, <2>1 DEF WriteFile, CTypeOK, tables, daemon
<1>2. ASSUME NEW p \in Paths, CleanFile(p)
      PROVE  CTypeOK'
  BY <1>2, BoundsAssumption DEF CleanFile, CTypeOK, Clean, tables, daemon
<1>3. QED
  BY <1>1, <1>2 DEF WorkspaceStep, HumanWrites, AgentWrites

LEMMA NextKeepsTypes ==
  ASSUME CTypeOK, [CNext]_changeVars
  PROVE  CTypeOK'
<1>1. CASE UNCHANGED changeVars
  BY <1>1 DEF changeVars, workspace, tables, daemon, CTypeOK
<1>2. QED
  BY <1>1, StartKeepsTypes, CallKeepsTypes, DaemonKeepsTypes, WorkspaceKeepsTypes DEF CNext

(***************************************************************************)
(* Sessions                                                                *)
(***************************************************************************)
\* Sessions change when one begins, when one ends, and when the daemon starts or stops.
LEMMA SessionsChange ==
  ASSUME CTypeOK, [CNext]_changeVars
  PROVE  \/ session' = session /\ (latest' = latest \/ \E c \in Calls : RecordHumanChanges(c))
         \/ \E c \in Calls : InsertSession(c) \/ EndSession(c)
         \/ Initialize \/ Shutdown
<1>1. CASE StartStep
  BY <1>1 DEF StartStep, ObserveHumanChanges, BeginAiChange, FinishAiChange, StartCall, tables
<1>2. CASE CallStep
  BY <1>2 DEF CallStep, ListPaths, TakeDigest, CallFails, RecordHumanChanges, tables
<1>3. CASE DaemonStep
  BY <1>3 DEF DaemonStep, ShutdownEnds, CloseDatabase, ProcessEnds, tables
<1>4. CASE WorkspaceStep
  BY <1>4 DEF WorkspaceStep, HumanWrites, AgentWrites, WriteFile, CleanFile, tables
<1>5. CASE UNCHANGED changeVars
  BY <1>5 DEF changeVars, tables
<1>6. QED
  BY <1>1, <1>2, <1>3, <1>4, <1>5 DEF CNext

\* Nothing but the start of the daemon opens the database, nothing but the end of the
\* process changes its number.
LEMMA DaemonChanges ==
  ASSUME [CNext]_changeVars, ~Initialize
  PROVE  /\ stage' # "down" => stage # "down"
         /\ process' = process \/ stage' = "down"
<1>1. CASE StartStep
  BY <1>1 DEF StartStep, ObserveHumanChanges, BeginAiChange, FinishAiChange, StartCall, daemon
<1>2. CASE CallStep
  BY <1>2 DEF CallStep, ListPaths, TakeDigest, CallFails, RecordHumanChanges, InsertSession,
              EndSession, daemon
<1>3. CASE DaemonStep
  BY <1>3 DEF DaemonStep, Shutdown, ShutdownEnds, CloseDatabase, ProcessEnds
<1>4. CASE WorkspaceStep
  BY <1>4 DEF WorkspaceStep, HumanWrites, AgentWrites, WriteFile, CleanFile, daemon
<1>5. CASE UNCHANGED changeVars
  BY <1>5 DEF changeVars, daemon
<1>6. QED
  BY <1>1, <1>2, <1>3, <1>4, <1>5 DEF CNext

\* The sessions that are active after a step.
LEMMA ActiveAfter ==
  ASSUME CTypeOK, [CNext]_changeVars
  PROVE  /\ \A s \in Active' : \/ s \in Active /\ session'[s] = session[s]
                               \/ \E c \in Calls : InsertSession(c) /\ s = call[c].id
         /\ Initialize => \A s \in Active' : session[s].process = process
<1>1. CASE session' = session
  <2>1. Active' = Active
    BY <1>1 DEF Active
  <2>2. Initialize => \A s \in Active : s \notin Active \ Own
    BY <1>1 DEF Initialize, Invalidated, Row, Active
  <2>3. QED
    BY <1>1, <2>1, <2>2 DEF Own
<1>2. CASE \E c \in Calls : InsertSession(c)
  BY <1>2 DEF InsertSession, Initialize, Active, CTypeOK, daemon
<1>3. CASE \E c \in Calls : EndSession(c)
  <2>1. PICK c \in Calls : EndSession(c)
    BY <1>3
  <2>2. \A s \in Sessions : session'[s] = session[s] \/ session'[s].state # "active"
    BY <2>1 DEF EndSession, Row, Outcome, CTypeOK
  <2>3. ~Initialize
    BY <2>1 DEF EndSession, Captured, DatabaseOpen, Initialize
  <2>4. QED
    BY <2>2, <2>3 DEF Active
<1>4. CASE Initialize \/ Shutdown
  <2>1. \A S : \A s \in Sessions : Invalidated(S)[s].state = "active" => s \notin S /\ Invalidated(S)[s] = session[s]
    BY DEF Invalidated, Row
  <2>2. \A s \in Active' : s \in Active /\ session'[s] = session[s]
    BY <1>4, <2>1 DEF Initialize, Shutdown, Active
  <2>3. Initialize => \A s \in Active' : s \notin Active \ Own
    BY <2>1 DEF Initialize, Active
  <2>4. QED
    BY <2>2, <2>3 DEF Own
<1>5. QED
  BY <1>1, <1>2, <1>3, <1>4, SessionsChange

LEMMA OneSessionStep ==
  ASSUME CTypeOK, OneActiveSession, [CNext]_changeVars
  PROVE  OneActiveSession'
<1>1. CASE \E c \in Calls : InsertSession(c)
  <2>1. PICK c \in Calls : InsertSession(c)
    BY <1>1
  <2>2. /\ \A s \in Active' : s = call[c].id /\ session'[s].process = process
        /\ process' = process
    BY <2>1 DEF InsertSession, Active, CTypeOK, daemon
  <2>3. QED
    BY <2>2 DEF OneActiveSession
<1>2. CASE ~\E c \in Calls : InsertSession(c)
  <2>1. \A s \in Active' : s \in Active /\ session'[s] = session[s]
    BY <1>2, ActiveAfter
  <2>2. CASE Initialize
    <3>1. process' = process /\ \A s \in Active' : session'[s].process = process'
      BY <2>1, <2>2, ActiveAfter DEF Initialize
    <3>2. QED
      BY <2>1, <3>1 DEF OneActiveSession
  <2>3. CASE ~Initialize
    BY <2>1, <2>3, DaemonChanges DEF OneActiveSession
  <2>4. QED
    BY <2>2, <2>3
<1>3. QED
  BY <1>1, <1>2

(***************************************************************************)
(* Calls                                                                   *)
(***************************************************************************)
LEMMA StartedIs == \A op, id : Started(op, id).op = op /\ Started(op, id).id = id
BY DEF Started

\* A call starts, goes on about the same session, or is over.
LEMMA CallsAfter ==
  ASSUME CTypeOK, [CNext]_changeVars, NEW c \in Calls
  PROVE  \/ call'[c].op = "none"
         \/ call'[c].op = call[c].op /\ call'[c].id = call[c].id /\ (call'[c].fresh => call[c].fresh)
         \/ ObserveHumanChanges(c) /\ call'[c] = Started("observe", NoSession)
         \/ \E s \in Sessions : BeginAiChange(c, s) /\ call'[c] = Started("begin", s)
         \/ \E s \in Sessions, op \in Finishing : FinishAiChange(c, s, op) /\ call'[c] = Started(op, s)
<1>0. call \in [Calls -> Call]
  BY DEF CTypeOK
<1>1. CASE StartStep
  <2>1. PICK d \in Calls : \/ ObserveHumanChanges(d)
                           \/ \E s \in Sessions : \/ BeginAiChange(d, s)
                                                  \/ FinishAiChange(d, s, "complete")
                                                  \/ FinishAiChange(d, s, "cancel")
    BY <1>1 DEF StartStep
  <2>2. CASE d = c
    BY <1>0, <2>1, <2>2 DEF ObserveHumanChanges, BeginAiChange, FinishAiChange, StartCall, Finishing
  <2>3. CASE d # c
    BY <1>0, <2>1, <2>3 DEF ObserveHumanChanges, BeginAiChange, FinishAiChange, StartCall
  <2>4. QED
    BY <2>2, <2>3
<1>2. CASE CallStep
  <2>1. ASSUME NEW d \in Calls, ListPaths(d) \/ \E p \in Paths : TakeDigest(d, p)
        PROVE  call'[c].op = call[c].op /\ call'[c].id = call[c].id /\ (call'[c].fresh => call[c].fresh)
    <3>1. call[c] \in Call /\ call[d] \in Call
      BY <1>0
    <3>2. CASE ListPaths(d)
      BY <1>0, <3>1, <3>2 DEF ListPaths, Call
    <3>3. ASSUME NEW p \in Paths, TakeDigest(d, p)
          PROVE  call'[c].op = call[c].op /\ call'[c].id = call[c].id /\ (call'[c].fresh => call[c].fresh)
      <4>1. PICK v : call' = [call EXCEPT ![d].left = @ \ {p}, ![d].seen[p] = v]
        BY <3>3 DEF TakeDigest
      <4>2. CASE c = d
        BY <1>0, <3>1, <4>1, <4>2 DEF Call
      <4>3. CASE c # d
        BY <1>0, <4>1, <4>3
      <4>4. QED
        BY <4>2, <4>3
    <3>4. QED
      BY <2>1, <3>2, <3>3
  <2>2. ASSUME NEW d \in Calls, CallFails(d) \/ RecordHumanChanges(d) \/ EndSession(d)
        PROVE  call'[c] = Idle \/ call'[c] = call[c]
    BY <1>0, <2>2 DEF CallFails, RecordHumanChanges, EndSession
  <2>3. ASSUME NEW d \in Calls, InsertSession(d)
        PROVE  call'[c] = Idle \/ call'[c] = [call[c] EXCEPT !.fresh = FALSE]
    BY <2>3 DEF InsertSession, Overtaken
  <2>4. Idle.op = "none"
    BY DEF Idle, Started
  <2>5. QED
    BY <1>0, <1>2, <2>1, <2>2, <2>3, <2>4 DEF CallStep, Call
<1>3. CASE DaemonStep
  BY <1>3 DEF DaemonStep, Initialize, Shutdown, ShutdownEnds, CloseDatabase, ProcessEnds, Idle, Started
<1>4. CASE WorkspaceStep
  BY <1>4 DEF WorkspaceStep, HumanWrites, AgentWrites, WriteFile, CleanFile
<1>5. CASE UNCHANGED changeVars
  BY <1>5 DEF changeVars
<1>6. QED
  BY <1>1, <1>2, <1>3, <1>4, <1>5 DEF CNext

\* Rows are inserted once and never go back.
LEMMA RowsAfter ==
  ASSUME CTypeOK, CallInv, [CNext]_changeVars, NEW s \in Sessions
  PROVE  \/ session'[s] = session[s]
         \/ session[s].state = "active" /\ session'[s].state \in {"completed", "cancelled", "invalidated"}
         \/ \E c \in Calls : /\ InsertSession(c) /\ s = call[c].id
                             /\ session[s].state = "absent" /\ session'[s].state = "active"
<1>0. session \in [Sessions -> SessionRow]
  BY DEF CTypeOK
<1>1. ASSUME NEW c \in Calls, InsertSession(c)
      PROVE  \/ session'[s] = session[s]
             \/ /\ s = call[c].id
                /\ session[s].state = "absent" /\ session'[s].state = "active"
  BY <1>0, <1>1 DEF InsertSession, Captured, CallInv
<1>2. ASSUME NEW c \in Calls, EndSession(c)
      PROVE  \/ session'[s] = session[s]
             \/ session[s].state = "active" /\ session'[s].state \in {"completed", "cancelled"}
  BY <1>0, <1>2 DEF EndSession, Outcome, Row
<1>3. CASE Initialize \/ Shutdown
  BY <1>0, <1>3 DEF Initialize, Shutdown, Invalidated, Row, Active, Own
<1>4. QED
  BY <1>1, <1>2, <1>3, SessionsChange

LEMMA CallStepInv ==
  ASSUME CTypeOK, CallInv, [CNext]_changeVars
  PROVE  CallInv'
<1>1. ASSUME NEW c \in Calls, call'[c].op = "begin"
      PROVE  call'[c].id \in Sessions /\ session'[call'[c].id].state = "absent"
  <2>1. CASE call[c].op = "begin" /\ call'[c].id = call[c].id
    <3>1. call[c].id \in Sessions /\ session[call[c].id].state = "absent"
      BY <2>1 DEF CallInv
    <3>2. ASSUME NEW d \in Calls, InsertSession(d), call[d].id = call[c].id
          PROVE  FALSE
      <4>1. d = c
        BY <2>1, <3>2 DEF InsertSession, Captured, CallInv
      <4>2. call'[c].op = "none"
        BY <3>2, <4>1 DEF InsertSession, Overtaken, Idle, Started
      <4>3. QED
        BY <1>1, <4>2
    <3>3. QED
      BY <2>1, <3>1, <3>2, RowsAfter
  <2>2. CASE \E s \in Sessions : BeginAiChange(c, s) /\ call'[c] = Started("begin", s)
    BY <2>2 DEF BeginAiChange, StartCall, Started, tables
  <2>3. QED
    BY <1>1, <2>1, <2>2, CallsAfter, StartedIs DEF Finishing
<1>2. ASSUME NEW c \in Calls, call'[c].op = "begin",
             NEW d \in Calls, call'[d].op = "begin", call'[d].id = call'[c].id
      PROVE  d = c
  <2>1. ASSUME NEW e \in Calls, NEW f \in Calls, NEW s \in Sessions, e # f,
               BeginAiChange(e, s), call'[e] = Started("begin", s),
               call'[f].op = "begin", call'[f].id = s
        PROVE  FALSE
    <3>1. call'[f] = call[f]
      BY <2>1 DEF BeginAiChange, StartCall, CTypeOK
    <3>2. QED
      BY <2>1, <3>1 DEF BeginAiChange
  <2>2. CASE call[c].op = "begin" /\ call'[c].id = call[c].id /\ call[d].op = "begin" /\ call'[d].id = call[d].id
    BY <1>2, <2>2 DEF CallInv
  <2>3. CASE \E s \in Sessions : BeginAiChange(c, s) /\ call'[c] = Started("begin", s)
    BY <1>2, <2>1, <2>3 DEF Started
  <2>4. CASE \E s \in Sessions : BeginAiChange(d, s) /\ call'[d] = Started("begin", s)
    BY <1>2, <2>1, <2>4 DEF Started
  <2>5. QED
    BY <1>2, <2>2, <2>3, <2>4, CallsAfter, StartedIs DEF Finishing
<1>3. ASSUME NEW c \in Calls, call'[c].op \in Finishing
      PROVE  call'[c].id \in Sessions /\ session'[call'[c].id].state # "absent"
  <2>1. CASE call[c].op \in Finishing /\ call'[c].id = call[c].id
    <3>1. call[c].id \in Sessions /\ session[call[c].id].state # "absent"
      BY <2>1 DEF CallInv
    <3>2. QED
      BY <2>1, <3>1, RowsAfter
  <2>2. CASE \E s \in Sessions, op \in Finishing : FinishAiChange(c, s, op) /\ call'[c] = Started(op, s)
    BY <2>2 DEF FinishAiChange, StartCall, Started, tables
  <2>3. QED
    BY <1>3, <2>1, <2>2, CallsAfter, StartedIs DEF Finishing
<1>4. ASSUME NEW c \in Calls, call'[c].op \in {"observe", "begin"}, call'[c].fresh
      PROVE  Active' = {}
  <2>1. CASE call[c].op \in {"observe", "begin"} /\ call[c].fresh
    <3>1. Active = {}
      BY <2>1 DEF CallInv
    <3>2. ASSUME NEW d \in Calls, InsertSession(d)
          PROVE  FALSE
      <4>1. call'[c] = Idle \/ call'[c] = [call[c] EXCEPT !.fresh = FALSE]
        BY <3>2 DEF InsertSession, Overtaken
      <4>2. call[c] \in Call
        BY DEF CTypeOK
      <4>3. QED
        BY <1>4, <4>1, <4>2 DEF Idle, Started, Call
    <3>3. QED
      BY <3>1, <3>2, ActiveAfter
  <2>2. CASE ObserveHumanChanges(c) \/ \E s \in Sessions : BeginAiChange(c, s)
    BY <2>2 DEF ObserveHumanChanges, BeginAiChange, StartCall, Active, tables
  <2>3. QED
    BY <1>4, <2>1, <2>2, CallsAfter, StartedIs DEF Finishing
<1>5. QED
  BY <1>1, <1>2, <1>3, <1>4 DEF CallInv

(***************************************************************************)
(* What is unknown                                                         *)
(***************************************************************************)
\* A path is unknown after a step only if it was before, a session began, or one ended.
LEMMA UnknownStep ==
  ASSUME CTypeOK, OneActiveSession, CallInv, UnknownInv, [CNext]_changeVars
  PROVE  UnknownInv'
<1>1. CASE \E c \in Calls : InsertSession(c)
  <2>1. PICK c \in Calls : InsertSession(c)
    BY <1>1
  <2>2. SUFFICES ASSUME NEW s \in Active', NEW p \in Paths,
                        latest'[p].dirty, latest'[p].origin = "unknown"
                 PROVE  session'[s].baseline[p].origin = "unknown"
    BY DEF UnknownInv
  <2>3. s = call[c].id /\ session'[s].baseline = BaselineOf(call[c].seen)
    BY <2>1 DEF InsertSession, Active, CTypeOK
  <2>4. latest'[p] = Baselined(p, call[c].seen[p])
    BY <2>1 DEF InsertSession
  <2>5. call[c].seen[p] # Clean
    BY <2>2, <2>4 DEF Baselined, Cleaned, CTypeOK, Event
  <2>6. QED
    BY <2>2, <2>3, <2>4, <2>5 DEF BaselineOf
<1>2. CASE ~\E c \in Calls : InsertSession(c)
  <2>1. \A s \in Active' : s \in Active /\ session'[s] = session[s]
    BY <1>2, ActiveAfter
  <2>2. CASE latest' = latest
    BY <2>1, <2>2 DEF UnknownInv
  <2>3. CASE \E c \in Calls : RecordHumanChanges(c)
    <3>1. PICK c \in Calls : RecordHumanChanges(c)
      BY <2>3
    <3>2. \A p \in Paths : latest'[p].dirty /\ latest'[p].origin = "unknown" =>
            latest[p].dirty /\ latest[p].origin = "unknown"
      BY <3>1 DEF RecordHumanChanges, Observed, Cleaned, Recorded, CombineHuman, PreviousOrigin,
                  CTypeOK, Event
    <3>3. QED
      BY <2>1, <3>2 DEF UnknownInv
  <2>4. CASE \E c \in Calls : EndSession(c)
    <3>1. PICK c \in Calls : EndSession(c)
      BY <2>4
    <3>2. call[c].id \in Active /\ call[c].id \notin Active'
      BY <3>1 DEF EndSession, Captured, CallInv, Finishing, Active, Row, Outcome, CTypeOK
    <3>3. Active' = {}
      BY <2>1, <3>2 DEF OneActiveSession
    <3>4. QED
      BY <3>3 DEF UnknownInv
  <2>5. CASE Initialize \/ Shutdown
    BY <2>1, <2>5 DEF Initialize, Shutdown, UnknownInv
  <2>6. QED
    BY <1>2, <2>2, <2>3, <2>4, <2>5, SessionsChange
<1>3. QED
  BY <1>1, <1>2

\* An unknown path stays unknown through every step.
LEMMA StickyStep ==
  ASSUME CTypeOK, OneActiveSession, CallInv, UnknownInv, [CNext]_changeVars,
         NEW p \in Paths, latest[p].dirty, latest[p].origin = "unknown", latest'[p].dirty
  PROVE  latest'[p].origin = "unknown"
<1>0. latest[p] \in Event
  BY DEF CTypeOK
<1>1. CASE \E c \in Calls : RecordHumanChanges(c)
  <2>1. PICK c \in Calls : latest'[p] = Observed(p, call[c].seen[p])
    BY <1>1 DEF RecordHumanChanges
  <2>2. QED
    BY <1>0, <2>1 DEF Observed, Cleaned, Recorded, CombineHuman, PreviousOrigin, Event
<1>2. CASE \E c \in Calls : InsertSession(c)
  <2>1. PICK c \in Calls : latest'[p] = Baselined(p, call[c].seen[p])
    BY <1>2 DEF InsertSession
  <2>2. QED
    BY <1>0, <2>1 DEF Baselined, Cleaned, Recorded, Event
<1>3. CASE \E c \in Calls : EndSession(c)
  <2>1. PICK c \in Calls : EndSession(c)
    BY <1>3
  <2>2. call[c].id \in Active
    BY <2>1 DEF EndSession, Captured, CallInv, Finishing, Active
  <2>3. session[call[c].id].baseline[p].origin = "unknown"
    BY <2>2 DEF UnknownInv
  <2>4. latest'[p] = Attributed(call[c].id, Outcome(call[c].op), p, call[c].seen[p])
    BY <2>1 DEF EndSession
  <2>5. QED
    BY <2>3, <2>4 DEF Attributed, Recorded, CombineAi
<1>4. CASE latest' = latest
  BY <1>4
<1>5. QED
  BY <1>1, <1>2, <1>3, <1>4, SessionsChange DEF Initialize, Shutdown

(***************************************************************************)
(* Completed work                                                          *)
(***************************************************************************)
\* What the calls have seen after a step.
LEMMA SeenAfter ==
  ASSUME CTypeOK, [CNext]_changeVars, NEW c \in Calls, NEW p \in Paths
  PROVE  \/ ~call'[c].listed /\ call'[c].seen[p] = Clean
         \/ call'[c].listed = call[c].listed /\ call'[c].left = call[c].left
            /\ call'[c].seen = call[c].seen
         \/ ListPaths(c) /\ call'[c].left = Dirty /\ call'[c].seen = call[c].seen
         \/ \E q \in Paths :
              /\ TakeDigest(c, q) /\ call'[c].listed = call[c].listed
              /\ call'[c].left = call[c].left \ {q}
              /\ call'[c].seen =
                   [call[c].seen EXCEPT ![q] = IF file[q] = Clean THEN Vanished ELSE file[q]]
<1>0. call \in [Calls -> Call]
  BY DEF CTypeOK
<1>1. \A op, id : ~Started(op, id).listed /\ Started(op, id).seen[p] = Clean
  BY DEF Started
<1>2. CASE StartStep
  <2>1. \E d \in Calls : \E op, id : StartCall(d, op, id)
    BY <1>2 DEF StartStep, ObserveHumanChanges, BeginAiChange, FinishAiChange
  <2>2. PICK d \in Calls : \E op, id : StartCall(d, op, id)
    BY <2>1
  <2>3. PICK op, id : StartCall(d, op, id)
    BY <2>2
  <2>4. call'[c] = call[c] \/ call'[c] = Started(op, id)
    BY <1>0, <2>3 DEF StartCall
  <2>5. QED
    BY <1>1, <2>4
<1>3. CASE CallStep
  <2>1. ASSUME NEW d \in Calls, ListPaths(d)
        PROVE  \/ call'[c] = call[c]
               \/ ListPaths(c) /\ call'[c].left = Dirty /\ call'[c].seen = call[c].seen
    BY <1>0, <2>1 DEF ListPaths, Call
  <2>2. ASSUME NEW d \in Calls, NEW q \in Paths, TakeDigest(d, q)
        PROVE  \/ call'[c] = call[c]
               \/ /\ TakeDigest(c, q) /\ call'[c].listed = call[c].listed
                  /\ call'[c].left = call[c].left \ {q}
                  /\ call'[c].seen =
                       [call[c].seen EXCEPT ![q] = IF file[q] = Clean THEN Vanished ELSE file[q]]
    <3> DEFINE v == IF file[q] = Clean THEN Vanished ELSE file[q]
    <3>1. call' = [call EXCEPT ![d].left = @ \ {q}, ![d].seen[q] = v]
      BY <2>2 DEF TakeDigest
    <3> HIDE DEF v
    <3>2. CASE c # d
      BY <1>0, <3>1, <3>2
    <3>3. CASE c = d
      <4>1. call[c] \in Call
        BY <1>0
      <4>2. /\ call'[c].listed = call[c].listed /\ call'[c].left = call[c].left \ {q}
            /\ call'[c].seen = [call[c].seen EXCEPT ![q] = v]
        BY <1>0, <3>1, <3>3, <4>1 DEF Call
      <4>3. QED
        BY <2>2, <3>3, <4>2 DEF v
    <3>4. QED
      BY <3>2, <3>3
  <2>3. ASSUME NEW d \in Calls, CallFails(d) \/ RecordHumanChanges(d) \/ EndSession(d)
        PROVE  call'[c] = Idle \/ call'[c] = call[c]
    BY <1>0, <2>3 DEF CallFails, RecordHumanChanges, EndSession
  <2>4. ASSUME NEW d \in Calls, InsertSession(d)
        PROVE  call'[c] = Idle \/ call'[c] = [call[c] EXCEPT !.fresh = FALSE]
    BY <2>4 DEF InsertSession, Overtaken
  <2>5. ~Idle.listed /\ Idle.seen[p] = Clean
    BY <1>1 DEF Idle
  <2>6. LET r == [call[c] EXCEPT !.fresh = FALSE] IN
        r.listed = call[c].listed /\ r.left = call[c].left /\ r.seen = call[c].seen
    BY <1>0 DEF Call
  <2>7. QED
    BY <1>3, <2>1, <2>2, <2>3, <2>4, <2>5, <2>6 DEF CallStep
<1>4. CASE DaemonStep
  BY <1>1, <1>4 DEF DaemonStep, Initialize, Shutdown, ShutdownEnds, CloseDatabase, ProcessEnds, Idle
<1>5. CASE WorkspaceStep
  BY <1>5 DEF WorkspaceStep, HumanWrites, AgentWrites, WriteFile, CleanFile
<1>6. CASE UNCHANGED changeVars
  BY <1>6 DEF changeVars
<1>7. QED
  BY <1>2, <1>3, <1>4, <1>5, <1>6 DEF CNext

\* The workspace changes when somebody writes, or a path becomes clean.
LEMMA WorkspaceAfter ==
  ASSUME [CNext]_changeVars
  PROVE  \/ UNCHANGED workspace
         \/ /\ UNCHANGED <<tables, call, daemon, overlap>>
            /\ \E p \in Paths : \/ HumanWrites(p) \/ CleanFile(p)
                                \/ \E s \in Sessions : AgentWrites(s, p)
<1>1. CASE StartStep
  BY <1>1 DEF StartStep, ObserveHumanChanges, BeginAiChange, FinishAiChange, StartCall
<1>2. CASE CallStep
  BY <1>2 DEF CallStep, ListPaths, TakeDigest, CallFails, RecordHumanChanges, InsertSession, EndSession
<1>3. CASE DaemonStep
  BY <1>3 DEF DaemonStep, Initialize, Shutdown, ShutdownEnds, CloseDatabase, ProcessEnds
<1>4. CASE WorkspaceStep
  BY <1>4 DEF WorkspaceStep, HumanWrites, AgentWrites, WriteFile, CleanFile
<1>5. CASE UNCHANGED changeVars
  BY <1>5 DEF changeVars
<1>6. QED
  BY <1>1, <1>2, <1>3, <1>4, <1>5 DEF CNext

LEMMA WritesStep ==
  ASSUME CTypeOK, WritesInv, [CNext]_changeVars
  PROVE  WritesInv' /\ writes <= writes'
<1>0. writes \in Nat /\ file \in [Paths -> Nat] /\ Clean = 0 /\ Vanished = -1
  BY BoundsAssumption DEF CTypeOK, Clean, Vanished
<1> DEFINE Files == \A p \in Paths : file[p] <= writes /\ (file[p] = Clean => touched[p] = {})
<1>1. writes <= writes' /\ Files'
  <2>1. CASE UNCHANGED workspace
    BY <1>0, <2>1 DEF workspace, WritesInv
  <2>2. ASSUME NEW p \in Paths, NEW who, WriteFile(p, who)
        PROVE  writes <= writes' /\ Files'
    BY <1>0, <2>2 DEF WriteFile, WritesInv, CTypeOK
  <2>3. ASSUME NEW p \in Paths, CleanFile(p)
        PROVE  writes <= writes' /\ Files'
    BY <1>0, <2>3 DEF CleanFile, WritesInv, CTypeOK
  <2>4. QED
    BY <2>1, <2>2, <2>3, WorkspaceAfter DEF HumanWrites, AgentWrites
<1>2. ASSUME NEW c \in Calls, NEW p \in Paths
      PROVE  call'[c].seen[p] <= writes
  <2>1. call[c].seen \in [Paths -> Int] /\ call[c].seen[p] <= writes
    BY DEF CTypeOK, Call, WritesInv, Versions
  <2>2. file[p] \in Nat /\ file[p] <= writes
    BY <1>0 DEF WritesInv
  <2>3. ASSUME NEW q \in Paths,
               call'[c].seen = [call[c].seen EXCEPT ![q] = IF file[q] = Clean THEN Vanished ELSE file[q]]
        PROVE  call'[c].seen[p] <= writes
    <3>1. call'[c].seen[p] \in {call[c].seen[p], Vanished, file[p]}
      BY <2>1, <2>3
    <3>2. QED
      BY <1>0, <2>1, <2>2, <3>1
  <2>4. \/ call'[c].seen[p] = Clean
        \/ call'[c].seen = call[c].seen
        \/ \E q \in Paths :
             call'[c].seen = [call[c].seen EXCEPT ![q] = IF file[q] = Clean THEN Vanished ELSE file[q]]
    BY SeenAfter
  <2>5. Clean <= writes
    BY <1>0
  <2>6. QED
    BY <2>1, <2>3, <2>4, <2>5
<1>3. ASSUME NEW s \in Sessions, NEW p \in Paths
      PROVE  session'[s].baseline[p].version <= writes
  <2>1. session[s].baseline[p].version <= writes
    BY DEF WritesInv
  <2>2. \A state : Row(state).baseline[p].version <= writes
    BY <1>0 DEF Row, NoBaseline
  <2>3. ASSUME NEW c \in Calls, InsertSession(c)
        PROVE  session'[s].baseline[p].version <= writes
    <3>1. session'[s] = session[s] \/ session'[s].baseline = BaselineOf(call[c].seen)
      BY <2>3 DEF InsertSession, CTypeOK
    <3>2. BaselineOf(call[c].seen)[p].version <= writes
      BY DEF BaselineOf, WritesInv
    <3>3. QED
      BY <2>1, <3>1, <3>2
  <2>4. ASSUME NEW c \in Calls, EndSession(c)
        PROVE  session'[s].baseline[p].version <= writes
    <3>1. session'[s] = session[s] \/ session'[s] = Row(Outcome(call[c].op))
      BY <2>4 DEF EndSession, CTypeOK
    <3>2. QED
      BY <2>1, <2>2, <3>1
  <2>5. CASE Initialize \/ Shutdown
    <3>1. session'[s] = session[s] \/ session'[s] = Row("invalidated")
      BY <2>5 DEF Initialize, Shutdown, Invalidated
    <3>2. QED
      BY <2>1, <2>2, <3>1
  <2>6. QED
    BY <2>1, <2>3, <2>4, <2>5, SessionsChange
<1>4. /\ writes' \in Int /\ call' \in [Calls -> Call] /\ session' \in [Sessions -> SessionRow]
  BY NextKeepsTypes DEF CTypeOK
<1>5. \A c \in Calls, p \in Paths : call'[c].seen[p] \in Int
  BY <1>4 DEF Call, Versions
<1>6. \A s \in Sessions, p \in Paths : session'[s].baseline[p].version \in Int
  BY <1>4 DEF SessionRow, Baseline, Versions
<1>7. QED
  BY <1>0, <1>1, <1>2, <1>3, <1>4, <1>5, <1>6 DEF WritesInv

LEMMA AgentStep ==
  ASSUME CTypeOK, WritesInv, CallInv, AgentInv, [CNext]_changeVars
  PROVE  AgentInv'
<1>0. /\ writes \in Nat /\ file \in [Paths -> Nat] /\ touched \in [Paths -> SUBSET Sessions]
      /\ session \in [Sessions -> SessionRow]
  BY DEF CTypeOK
<1> DEFINE Agent(s, p) ==
             /\ session[s].state # "absent"
             /\ session[s].state = "active" => file[p] > session[s].baseline[p].version
<1>1. SUFFICES ASSUME NEW s \in Sessions, NEW p \in Paths, s \in touched'[p]
               PROVE  Agent(s, p)'
  BY DEF AgentInv
<1>2. CASE UNCHANGED workspace
  <2>1. /\ session[s].state # "absent"
        /\ session[s].state = "active" => file[p] > session[s].baseline[p].version
    BY <1>1, <1>2 DEF AgentInv, workspace
  <2>2. QED
    BY <1>2, <2>1, RowsAfter DEF workspace
<1>3. ASSUME NEW q \in Paths, NEW who, WriteFile(q, who), who \subseteq Active
      PROVE  Agent(s, p)'
  <2>1. session' = session /\ file' = [file EXCEPT ![q] = writes + 1] /\ (s \in touched[p] \/ s \in Active)
    BY <1>0, <1>1, <1>3 DEF WriteFile, tables
  <2>2. session[s].state # "absent"
    BY <2>1 DEF AgentInv, Active
  <2>3. session[s].baseline[p].version \in Int /\ session[s].baseline[p].version <= writes
    BY <1>0 DEF SessionRow, Baseline, Versions, WritesInv
  <2>4. CASE p = q
    BY <1>0, <2>1, <2>2, <2>3, <2>4
  <2>5. CASE p # q
    <3>1. s \in touched[p] /\ file'[p] = file[p]
      BY <1>0, <1>1, <1>3, <2>5 DEF WriteFile
    <3>2. QED
      BY <2>1, <3>1 DEF AgentInv
  <2>6. QED
    BY <2>4, <2>5
<1>4. ASSUME NEW q \in Paths, CleanFile(q)
      PROVE  Agent(s, p)'
  <2>1. p # q
    BY <1>0, <1>1, <1>4 DEF CleanFile
  <2>2. session' = session /\ file'[p] = file[p] /\ s \in touched[p]
    BY <1>0, <1>1, <1>4, <2>1 DEF CleanFile, tables
  <2>3. QED
    BY <2>2 DEF AgentInv
<1>5. QED
  BY <1>2, <1>3, <1>4, WorkspaceAfter DEF HumanWrites, AgentWrites, Active

\* A session is completed by the call that ends it.
LEMMA CompletedAfter ==
  ASSUME CTypeOK, CallInv, [CNext]_changeVars, NEW s \in Sessions, session'[s].state = "completed"
  PROVE  session[s].state = "completed" \/ \E c \in Calls : EndSession(c) /\ s = call[c].id
<1>0. session \in [Sessions -> SessionRow]
  BY DEF CTypeOK
<1>1. CASE \E c \in Calls : InsertSession(c)
  BY <1>0, <1>1 DEF InsertSession
<1>2. CASE \E c \in Calls : EndSession(c)
  BY <1>0, <1>2 DEF EndSession
<1>3. CASE Initialize \/ Shutdown
  BY <1>0, <1>3 DEF Initialize, Shutdown, Invalidated, Row
<1>4. QED
  BY <1>1, <1>2, <1>3, SessionsChange

\* A capture that is sound after a step was sound before, or has just begun.
LEMMA SoundAfter ==
  ASSUME CTypeOK, CallInv, [CNext]_changeVars, NEW c \in Calls, Sound(c)', call'[c].listed
  PROVE  Sound(c) /\ call'[c].op = call[c].op /\ call'[c].id = call[c].id
<1>1. \A op, id : ~Started(op, id).listed
  BY DEF Started
<1>2. call'[c].op # "none"
  BY DEF Sound, Finishing
<1>3. call'[c].op = call[c].op /\ call'[c].id = call[c].id /\ (call'[c].fresh => call[c].fresh)
  BY <1>1, <1>2, CallsAfter
<1>4. CASE call[c].op \in Finishing /\ session'[call[c].id].state = "active"
  <2>1. call[c].id \in Sessions /\ session[call[c].id].state # "absent"
    BY <1>4 DEF CallInv
  <2>2. session[call[c].id].state = "active"
    BY <1>4, <2>1, RowsAfter
  <2>3. QED
    BY <1>3, <1>4, <2>2 DEF Sound
<1>5. QED
  BY <1>3, <1>4 DEF Sound

\* While a call could end a session that ended, or observe what a session writes, it is not sound.
LEMMA SoundAlone ==
  ASSUME CTypeOK, OneActiveSession, CallInv, NEW c \in Calls, Sound(c), NEW s \in Active
  PROVE  call[c].op \in Finishing /\ call[c].id = s
BY DEF Sound, CallInv, OneActiveSession, Active

LEMMA CaptureStep ==
  ASSUME CTypeOK, OneActiveSession, CallInv, WritesInv, AgentInv, CaptureInv,
         OneActiveSession', CallInv', [CNext]_changeVars
  PROVE  CaptureInv'
<1>0. /\ writes \in Nat /\ file \in [Paths -> Nat] /\ touched \in [Paths -> SUBSET Sessions]
      /\ session \in [Sessions -> SessionRow] /\ call \in [Calls -> Call] /\ Clean = 0
  BY DEF CTypeOK, Clean
<1> DEFINE Capture(c, p) ==
             /\ call[c].seen[p] <= Clean => \A s \in touched[p] : session[s].state # "completed"
             /\ call[c].op \in Finishing /\ call[c].id \in touched[p] =>
                  /\ call[c].seen[p] > Clean
                  /\ call[c].seen[p] > session[call[c].id].baseline[p].version
<1>1. SUFFICES ASSUME NEW c \in Calls, NEW p \in Paths, Sound(c)', Seen(c, p)'
               PROVE  Capture(c, p)'
  BY DEF CaptureInv
<1>2. /\ Sound(c) /\ call'[c].op = call[c].op /\ call'[c].id = call[c].id
      /\ call[c].op \in Finishing => call[c].id \in Active /\ session'[call[c].id] = session[call[c].id]
  <2>1. Sound(c) /\ call'[c].op = call[c].op /\ call'[c].id = call[c].id
    BY <1>1, SoundAfter DEF Seen
  <2>2. ASSUME call[c].op \in Finishing
        PROVE  call[c].id \in Active /\ session'[call[c].id] = session[call[c].id]
    <3>1. call[c].id \in Sessions /\ session'[call[c].id].state = "active"
      BY <1>1, <2>1, <2>2 DEF Sound, CallInv, Finishing
    <3>2. session[call[c].id].state = "active"
      BY <2>1, <2>2 DEF Sound, Finishing
    <3>3. QED
      BY <3>1, <3>2, RowsAfter DEF Active
  <2>3. QED
    BY <2>1, <2>2
<1>3. \A s \in Sessions : session'[s].state = "completed" => session[s].state = "completed"
  <2>1. ASSUME NEW s \in Sessions, NEW d \in Calls, EndSession(d), s = call[d].id
        PROVE  FALSE
    <3>1. s \in Active
      BY <2>1 DEF EndSession, Active
    <3>2. call[c].op \in Finishing /\ call[c].id = s
      BY <1>2, <3>1, SoundAlone
    <3>3. session'[s] = Row(Outcome(call[d].op))
      BY <1>0, <2>1 DEF EndSession
    <3>4. session'[s] = session[s] /\ session[s].state = "active"
      BY <1>2, <3>1, <3>2 DEF Active
    <3>5. QED
      BY <3>3, <3>4 DEF Row, Outcome
  <2>2. QED
    BY <2>1, CompletedAfter
<1>4. CASE touched'[p] = {}
  BY <1>4
<1>5. CASE touched'[p] = touched[p] /\ call'[c].seen[p] = call[c].seen[p] /\ Seen(c, p)
  <2>1. Capture(c, p)
    BY <1>2, <1>5 DEF CaptureInv
  <2>2. QED
    BY <1>0, <1>2, <1>3, <1>5, <2>1
<1>6. CASE UNCHANGED workspace
  <2>0. touched'[p] = touched[p]
    BY <1>6 DEF workspace
  <2>1. CASE call'[c].listed = call[c].listed /\ call'[c].left = call[c].left /\ call'[c].seen = call[c].seen
    BY <1>1, <1>5, <2>0, <2>1 DEF Seen
  <2>2. CASE ListPaths(c) /\ call'[c].left = Dirty
    <3>1. file[p] = Clean
      BY <1>1, <2>2 DEF Seen, Dirty
    <3>2. QED
      BY <1>4, <2>0, <3>1 DEF WritesInv
  <2>3. ASSUME NEW q \in Paths, call'[c].listed = call[c].listed, call'[c].left = call[c].left \ {q},
               call'[c].seen = [call[c].seen EXCEPT ![q] = IF file[q] = Clean THEN Vanished ELSE file[q]]
        PROVE  Capture(c, p)'
    <3>0. call[c].seen \in [Paths -> Versions]
      BY <1>0 DEF Call
    <3>1. CASE p # q
      BY <1>1, <1>5, <2>0, <2>3, <3>0, <3>1 DEF Seen
    <3>2. CASE p = q /\ file[p] = Clean
      BY <1>4, <2>0, <3>2 DEF WritesInv
    <3>3. CASE p = q /\ file[p] # Clean
      <4>1. call'[c].seen[p] = file[p] /\ file[p] > Clean
        BY <1>0, <2>3, <3>0, <3>3
      <4>2. ~(file[p] <= Clean)
        BY <1>0, <4>1
      <4>3. call[c].op \in Finishing /\ call[c].id \in touched[p] =>
              file[p] > session[call[c].id].baseline[p].version
        BY <1>2 DEF AgentInv, Active
      <4>4. QED
        BY <1>2, <2>0, <4>1, <4>2, <4>3
    <3>4. QED
      BY <3>1, <3>2, <3>3
  <2>4. QED
    BY <1>1, <2>1, <2>2, <2>3, SeenAfter DEF Seen
<1>7. ASSUME UNCHANGED <<tables, call, daemon, overlap>>, NEW q \in Paths, HumanWrites(q)
      PROVE  Capture(c, p)'
  <2>1. touched'[p] = touched[p]
    BY <1>0, <1>7 DEF HumanWrites, WriteFile
  <2>2. QED
    BY <1>1, <1>5, <1>7, <2>1 DEF Seen
<1>8. ASSUME UNCHANGED <<tables, call, daemon, overlap>>, NEW q \in Paths, CleanFile(q)
      PROVE  Capture(c, p)'
  <2>1. touched'[p] \in {touched[p], {}}
    BY <1>0, <1>8 DEF CleanFile
  <2>2. QED
    BY <1>1, <1>4, <1>5, <1>8, <2>1 DEF Seen
<1>9. ASSUME NEW q \in Paths, NEW s \in Sessions, AgentWrites(s, q)
      PROVE  FALSE
  <2>1. s \in Active /\ ~(call[c].op \in Finishing /\ call[c].id = s)
    BY <1>9 DEF AgentWrites, Active, Finishing
  <2>2. QED
    BY <1>2, <2>1, SoundAlone
<1>10. QED
  BY <1>6, <1>7, <1>8, <1>9, WorkspaceAfter

LEMMA RecordedIs ==
  ASSUME NEW origin, NEW v, v # Clean
  PROVE  Recorded(origin, v).dirty /\ Recorded(origin, v).origin = origin
<1>1. Recorded(origin, v) = [origin |-> origin, version |-> v, dirty |-> TRUE]
  BY DEF Recorded
<1>2. QED
  BY <1>1

LEMMA CompletedStep ==
  ASSUME CTypeOK, CTypeOK', OneActiveSession, CallInv, CaptureInv, CompletedInv, [CNext]_changeVars
  PROVE  CompletedInv'
<1> DEFINE NotHuman(p) == latest[p].dirty /\ latest[p].origin \in {"ai", "mixed", "unknown"}
<1>0. /\ latest \in [Paths -> Event] /\ session \in [Sessions -> SessionRow]
      /\ call \in [Calls -> Call] /\ touched \in [Paths -> SUBSET Sessions] /\ Clean = 0
  BY DEF CTypeOK, Clean
<1>1. SUFFICES ASSUME ~overlap', NEW p \in Paths, CompletedWork(p)'
               PROVE  NotHuman(p)'
  BY DEF CompletedInv
<1>2. CASE ~(\E c \in Calls : RecordHumanChanges(c) \/ InsertSession(c) \/ EndSession(c))
  <2>1. latest' = latest /\ overlap' = overlap
    <3>1. CASE StartStep
      BY <3>1 DEF StartStep, ObserveHumanChanges, BeginAiChange, FinishAiChange, StartCall, tables
    <3>2. CASE CallStep
      BY <1>2, <3>2 DEF CallStep, ListPaths, TakeDigest, CallFails, tables
    <3>3. CASE DaemonStep
      BY <3>3 DEF DaemonStep, Initialize, Shutdown, ShutdownEnds, CloseDatabase, ProcessEnds, tables
    <3>4. CASE WorkspaceStep
      BY <3>4 DEF WorkspaceStep, HumanWrites, AgentWrites, WriteFile, CleanFile, tables
    <3>5. CASE UNCHANGED changeVars
      BY <3>5 DEF changeVars, tables
    <3>6. QED
      BY <3>1, <3>2, <3>3, <3>4, <3>5 DEF CNext
  <2>2. \A s \in Sessions : session'[s].state = "completed" => session[s].state = "completed"
    BY <1>2, CompletedAfter
  <2>3. PICK s \in touched'[p] : session'[s].state = "completed"
    BY <1>1 DEF CompletedWork
  <2>4. s \in Sessions
    BY <2>3 DEF CTypeOK
  <2>5. s \in touched[p]
    <3>1. CASE UNCHANGED workspace
      BY <2>3, <3>1 DEF workspace
    <3>2. ASSUME NEW q \in Paths, HumanWrites(q) \/ CleanFile(q) PROVE s \in touched[p]
      BY <1>0, <2>3, <3>2 DEF HumanWrites, WriteFile, CleanFile
    <3>3. ASSUME NEW q \in Paths, NEW t \in Sessions, AgentWrites(t, q) PROVE s \in touched[p]
      <4>1. t # s
        BY <2>2, <2>3, <2>4, <3>3 DEF AgentWrites
      <4>2. QED
        BY <1>0, <2>3, <3>3, <4>1 DEF AgentWrites, WriteFile
    <3>4. QED
      BY <3>1, <3>2, <3>3, WorkspaceAfter
  <2>6. CompletedWork(p)
    BY <2>2, <2>3, <2>4, <2>5 DEF CompletedWork
  <2>7. QED
    BY <1>1, <2>1, <2>6 DEF CompletedInv
<1>3. ASSUME NEW c \in Calls, RecordHumanChanges(c)
      PROVE  NotHuman(p)'
  <2>1. ~overlap /\ call[c].fresh /\ CompletedWork(p)
    BY <1>0, <1>1, <1>3 DEF RecordHumanChanges, CompletedWork, workspace, CTypeOK, Call
  <2>2. Sound(c) /\ Seen(c, p)
    BY <1>3, <2>1 DEF RecordHumanChanges, Captured, Sound, Seen
  <2>3. call[c].seen[p] # Clean
    BY <1>0, <2>1, <2>2 DEF CaptureInv, CompletedWork
  <2>4. latest'[p] = Observed(p, call[c].seen[p])
    BY <1>3 DEF RecordHumanChanges
  <2>5. NotHuman(p)
    BY <2>1 DEF CompletedInv
  <2>6. PreviousOrigin(p) \in {"ai", "mixed", "unknown"}
    BY <2>5 DEF PreviousOrigin
  <2>7. CombineHuman(PreviousOrigin(p)) \in {"mixed", "unknown"}
    BY <2>6 DEF CombineHuman
  <2>8. latest'[p] = latest[p] \/ latest'[p] = Recorded(CombineHuman(PreviousOrigin(p)), call[c].seen[p])
    BY <2>3, <2>4 DEF Observed
  <2>9. QED
    BY <2>3, <2>5, <2>7, <2>8, RecordedIs
<1>4. ASSUME NEW c \in Calls, InsertSession(c)
      PROVE  NotHuman(p)'
  <2>1. ~overlap /\ call[c].fresh
    BY <1>1, <1>4 DEF InsertSession, CTypeOK, Call
  <2>2. \A s \in Sessions : session'[s].state = "completed" => session[s].state = "completed"
    BY <1>0, <1>4 DEF InsertSession
  <2>3. CompletedWork(p)
    BY <1>0, <1>1, <1>4, <2>2 DEF CompletedWork, InsertSession, workspace
  <2>4. Sound(c) /\ Seen(c, p)
    BY <1>4, <2>1 DEF InsertSession, Captured, Sound, Seen
  <2>5. call[c].seen[p] # Clean
    BY <1>0, <2>3, <2>4 DEF CaptureInv, CompletedWork
  <2>6. NotHuman(p)
    BY <2>1, <2>3 DEF CompletedInv
  <2>7. latest'[p] = latest[p] \/ latest'[p] = Recorded("unknown", call[c].seen[p])
    BY <1>4, <2>5 DEF InsertSession, Baselined
  <2>8. QED
    BY <2>5, <2>6, <2>7, RecordedIs
<1>5. ASSUME NEW c \in Calls, EndSession(c)
      PROVE  NotHuman(p)'
  <2> DEFINE id == call[c].id
             v == call[c].seen[p]
             before == session[id].baseline[p]
  <2>1. id \in Sessions /\ id \in Active /\ call[c].op \in Finishing
    BY <1>5 DEF EndSession, Captured, CallInv, Finishing, Active
  <2>2. Sound(c) /\ Seen(c, p)
    BY <1>5, <2>1 DEF EndSession, Captured, Sound, Seen, Active
  <2>3. latest'[p] = Attributed(id, Outcome(call[c].op), p, v)
    BY <1>5 DEF EndSession
  <2>4. CombineAi(before.origin) \in {"ai", "mixed", "unknown"}
    BY DEF CombineAi
  <2>5. \/ v = before.version /\ latest'[p] = latest[p]
        \/ \E origin \in {"ai", "mixed", "unknown"} : v # before.version /\ latest'[p] = Recorded(origin, v)
    BY <2>3, <2>4 DEF Attributed
  <2>6. PICK s \in touched[p] : s = id \/ session[s].state = "completed"
    BY <1>0, <1>1, <1>5 DEF CompletedWork, EndSession, workspace
  <2>7. CASE s = id
    <3>1. v > Clean /\ v > before.version
      BY <2>1, <2>2, <2>6, <2>7 DEF CaptureInv
    <3>2. v \in Int /\ before.version \in Int
      BY <1>0, <2>1 DEF Call, SessionRow, Baseline, Versions
    <3>3. v # Clean /\ v # before.version
      BY <1>0, <3>1, <3>2
    <3>4. QED
      BY <2>5, <3>3, RecordedIs
  <2>8. CASE session[s].state = "completed"
    <3>1. v # Clean
      BY <1>0, <2>2, <2>6, <2>8 DEF CaptureInv
    <3>2. NotHuman(p)
      BY <1>1, <1>5, <2>6, <2>8 DEF EndSession, CompletedInv, CompletedWork
    <3>3. QED
      BY <2>5, <3>1, <3>2, RecordedIs
  <2>9. QED
    BY <2>6, <2>7, <2>8
<1>6. QED
  BY <1>2, <1>3, <1>4, <1>5

(***************************************************************************)
(* The theorems                                                            *)
(***************************************************************************)
LEMMA InitiallySound == CInit => CInv
<1> SUFFICES ASSUME CInit PROVE CInv
  OBVIOUS
<1>1. /\ \A c \in Calls : call[c] = Started("none", NoSession)
      /\ \A s \in Sessions : session[s] = [state |-> "absent", process |-> 0, baseline |-> NoBaseline]
      /\ \A p \in Paths : latest[p] = [origin |-> "none", version |-> 0, dirty |-> FALSE]
      /\ \A p \in Paths : file[p] = 0 /\ touched[p] = {}
      /\ writes = 0 /\ stage = "down" /\ process = 1 /\ overlap = FALSE
  BY DEF CInit, Idle, Row, Clean
<1>2. CTypeOK
  <2>1. 0 \in Versions /\ 0 \in 0 .. MaxWrites /\ 0 \in 0 .. MaxProcesses /\ 1 \in 1 .. MaxProcesses
    BY BoundsAssumption DEF Versions, Vanished
  <2>2. \A c \in Calls : call[c] \in Call
    <3>1. Started("none", NoSession) \in Call
      BY <2>1 DEF Started, Call, Clean
    <3>2. QED
      BY <1>1, <3>1
  <2>3. \A s \in Sessions : session[s] \in SessionRow
    BY <1>1, <2>1 DEF SessionRow, NoBaseline, Baseline, Clean
  <2>4. \A p \in Paths : latest[p] \in Event /\ ~latest[p].dirty /\ latest[p].version = Clean
    <3>1. LET e == [origin |-> "none", version |-> 0, dirty |-> FALSE]
          IN  e \in Event /\ ~e.dirty /\ e.version = Clean
      BY <2>1 DEF Event, Clean
    <3>2. QED
      BY <1>1, <3>1
  <2>5. QED
    BY <1>1, <2>1, <2>2, <2>3, <2>4 DEF CInit, CTypeOK, Clean
<1>3. Active = {}
  BY <1>1 DEF Active
<1>4. OneActiveSession /\ UnknownInv
  BY <1>3 DEF OneActiveSession, UnknownInv
<1>5. WritesInv
  BY <1>1 DEF WritesInv, Started, NoBaseline, Clean
<1>6. \A c \in Calls : call[c].op = "none" /\ ~call[c].listed
  BY <1>1 DEF Started
<1>7. CallInv /\ AgentInv /\ CaptureInv /\ CompletedInv
  BY <1>1, <1>6 DEF CallInv, AgentInv, CaptureInv, CompletedInv, CompletedWork, Seen, Finishing
<1>8. QED
  BY <1>2, <1>4, <1>5, <1>7 DEF CInv

LEMMA StepsSound == CInv /\ [CNext]_changeVars => CInv'
<1> SUFFICES ASSUME CInv, [CNext]_changeVars PROVE CInv'
  OBVIOUS
<1> USE DEF CInv
<1>1. CTypeOK' /\ OneActiveSession' /\ UnknownInv'
  BY NextKeepsTypes, OneSessionStep, UnknownStep
<1>2. WritesInv' /\ CallInv' /\ AgentInv'
  BY WritesStep, CallStepInv, AgentStep
<1>3. CaptureInv'
  BY <1>1, <1>2, CaptureStep
<1>4. CompletedInv'
  BY <1>1, CompletedStep
<1>5. QED
  BY <1>1, <1>2, <1>3, <1>4

THEOREM ChangesInductive == CSpec => []CInv
BY InitiallySound, StepsSound, PTL DEF CSpec

\* Every value the tracker stores has its type, and a path has a digest exactly if its
\* latest event is dirty, for any workspace and any number of processes.
THEOREM ChangeTypes == CSpec => []CTypeOK
<1>1. CInv => CTypeOK
  BY DEF CInv
<1>2. QED
  BY <1>1, ChangesInductive, PTL

\* The unique index, the process id in the UPDATE and the invalidation at start leave a
\* workspace with one active session, which is of the process that serves it.
THEOREM OneSession == CSpec => []OneActiveSession
<1>1. CInv => OneActiveSession
  BY DEF CInv
<1>2. QED
  BY <1>1, ChangesInductive, PTL

\* No call, in whatever order captures are applied, turns an unknown origin into a claim.
THEOREM UnknownStays == CSpec => UnknownIsSticky
<1>1. CInv /\ [CNext]_changeVars =>
        [\A p \in Paths : latest[p].dirty /\ latest[p].origin = "unknown" /\ latest'[p].dirty
                            => latest'[p].origin = "unknown"]_changeVars
  BY StickyStep DEF CInv
<1>2. QED
  BY <1>1, ChangesInductive, PTL DEF CSpec, UnknownIsSticky

\* What the agent of a completed session wrote is not reported as human, as long as no
\* capture is applied that a session had begun after, however many calls, people,
\* restarts and failures there are.
THEOREM CompletedWorkKept == CSpec => []CompletedWorkIsNotHuman
<1>1. CInv => CompletedWorkIsNotHuman
  BY DEF CInv, CompletedInv, CompletedWorkIsNotHuman, ReportedHuman
<1>2. QED
  BY <1>1, ChangesInductive, PTL

=============================================================================
