------------------------ MODULE ReversibleOperations ------------------------
(***************************************************************************)
(* Smart Undo / Redo of the extension                                      *)
(* (background/reversible-operations-runtime.js and                        *)
(* core/reversible-operations.js): an agent's commit is undone or redone   *)
(* on a branch that people and other requests go on writing.               *)
(*                                                                         *)
(* A request previews a reversal and is given a ticket; a later request    *)
(* applies the ticket.  Both read the head of the branch, then the stored  *)
(* reversal states, then the human edits the editor reported, across       *)
(* awaits; applying then marks the ticket, publishes a commit through the  *)
(* guarded commit, loads all the states and stores them again.  A service  *)
(* worker that dies, a network error and a refusal end a request between   *)
(* any two of these: CallFails.                                            *)
(*                                                                         *)
(* Data kept: a commit is its position on the branch, the text of a file   *)
(* the commit that last wrote each of its regions, all regions different.  *)
(* Confirmations and the lifetime of a ticket can only refuse a request.   *)
(* Sensitive and binary paths, the limits on their number and the journal  *)
(* of the reversals themselves are left out.                               *)
(***************************************************************************)
EXTENDS Integers, Sequences

CONSTANTS
  Paths,       \* paths of the repository
  NumRegions,  \* regions the text of a file has
  Ops,         \* operations of the agent that wrote to the branch
  Tickets,     \* ids a preview can be given
  Calls,       \* requests under way at once
  MaxCommits,  \* bound: length of the branch
  MaxEdits     \* bound: human edits the editor reports

ASSUME BoundsAssumption ==
  NumRegions \in Nat \ {0} /\ MaxCommits \in Nat \ {0} /\ MaxEdits \in Nat

VARIABLES
  history,  \* the branch, oldest commit first
  source,   \* the operation journal: the commit of each operation, 0 if none
  finished, \* the operation journal: how many edits were reported before its end
  edits,    \* the paths of the human edits the editor reported, oldest first
  states,   \* ld66_reversal_state_v1
  ticket,   \* ld66_reversal_ticket_v1_<id>
  call      \* the requests under way

opsJournal == <<source, finished>>
reversalVars == <<history, opsJournal, edits, states, ticket, call>>

(***************************************************************************)
(* Records                                                                 *)
(***************************************************************************)
Regions == 1 .. NumRegions
Commits == 0 .. MaxCommits
File == [Regions -> Commits]
Tree == [Paths -> File]
Missing == [r \in Regions |-> 0]
Exists(f) == f # Missing

Directions == {"undo", "redo"}
Strategies == {"preserve", "replace-target", "cascade"}
NoOp == "none"
NoTicket == "none"

ASSUME NamesAssumption == NoOp \notin Ops /\ NoTicket \notin Tickets

\* guarded: the commit left a published checkpoint; op .. ticket: of a reversal
Commit ==
  [tree : Tree, guarded : BOOLEAN, op : Ops \cup {NoOp}, dir : Directions \cup {"none"},
   strategy : Strategies \cup {"none"}, ticket : Tickets \cup {NoTicket}]
Plain(tree, guarded) ==
  [tree |-> tree, guarded |-> guarded, op |-> NoOp, dir |-> "none", strategy |-> "none",
   ticket |-> NoTicket]

\* preCascade: preCascadeHeadSha; since: edits reported before updatedAt, -1 if never saved
State ==
  [last : Directions \cup {"none"}, strategy : Strategies \cup {"none"}, preCascade : Commits,
   since : -1 .. MaxEdits]
NoState == [last |-> "none", strategy |-> "none", preCascade |-> 0, since |-> -1]

Change ==
  [path : Paths, action : {"create", "update", "delete"}, destructive : BOOLEAN]

\* shown: history, the tree the preview promised
Ticket ==
  [state : {"free", "issued", "used"}, op : Ops \cup {NoOp}, dir : Directions,
   strategy : Strategies, head : Commits, changes : SUBSET Change, conflicts : SUBSET Paths,
   shown : Tree]
FreeTicket ==
  [state |-> "free", op |-> NoOp, dir |-> "undo", strategy |-> "preserve", head |-> 0,
   changes |-> {}, conflicts |-> {}, shown |-> [p \in Paths |-> Missing]]

Call ==
  [task : {"none", "preview", "apply"},
   at : {"start", "headed", "stated", "planned", "published", "loaded"},
   ticket : Tickets \cup {NoTicket}, op : Ops \cup {NoOp}, dir : Directions,
   strategy : Strategies, head : Commits, state : State, tree : Tree, loaded : [Ops -> State],
   since : 0 .. MaxEdits]
Started(task, t, o, dir, strategy) ==
  [task |-> task, at |-> "start", ticket |-> t, op |-> o, dir |-> dir, strategy |-> strategy,
   head |-> 0, state |-> NoState, tree |-> [p \in Paths |-> Missing],
   loaded |-> [x \in Ops |-> NoState], since |-> 0]
Idle == Started("none", NoTicket, NoOp, "undo", "preserve")

\* The position of the head
Top == Len(history)
TreeAt(i) == history[i].tree

(***************************************************************************)
(* core/reversible-operations.js                                           *)
(***************************************************************************)
\* deriveThreeWayHunk(): all that lies between the common beginning and the common end
Hunk(from, to) ==
  {r \in Regions : \E a, b \in Regions :
     /\ a <= r /\ r <= b
     /\ from[a] # to[a] /\ from[b] # to[b]}

\* Mutant: the hunk is replaced wherever it lies, without looking for its old text.
ConflictsUnlessMissing(cur, from, to, human) ==
  IF cur = from THEN human ELSE ~(Exists(cur) /\ Exists(from) /\ Exists(to))

\* The preserve strategy refuses the file
Conflicts(cur, from, to, human) ==
  IF cur = from THEN human
  ELSE \/ ~(Exists(cur) /\ Exists(from) /\ Exists(to))
       \/ \E r \in Hunk(from, to) : cur[r] # from[r]

\* applyThreeWayHunk(); the whole of "to" where the file is as it was left
Merged(cur, from, to) ==
  [r \in Regions |-> IF r \in Hunk(from, to) THEN to[r] ELSE cur[r]]

Action(cur, after) ==
  IF ~Exists(after) THEN "delete" ELSE IF Exists(cur) THEN "update" ELSE "create"

Planned(p, cur, after, destructive) ==
  [path |-> p, action |-> Action(cur, after), destructive |-> destructive]

PathsOf(o) == {p \in Paths : TreeAt(source[o])[p] # TreeAt(source[o] - 1)[p]}
From(o, dir) == IF dir = "undo" THEN TreeAt(source[o]) ELSE TreeAt(source[o] - 1)
To(o, dir) == IF dir = "undo" THEN TreeAt(source[o] - 1) ELSE TreeAt(source[o])

LaterHumanEdit(o, st, p) ==
  \E i \in 1 .. Len(edits) :
    edits[i] = p /\ i > (IF st.since = -1 THEN finished[o] ELSE st.since)

\* planFileReversal() of each path and buildReversalPlan()
FilePlan(o, dir, strategy, head, st) ==
  LET cur == TreeAt(head)
      from == From(o, dir)
      to == To(o, dir)
      open == {p \in PathsOf(o) : cur[p] # to[p]}
      refused == {p \in open : /\ strategy = "preserve"
                               /\ Conflicts(cur[p], from[p], to[p], LaterHumanEdit(o, st, p))}
      after == [p \in Paths |->
                  IF p \notin open \ refused THEN cur[p]
                  ELSE IF strategy = "preserve" THEN Merged(cur[p], from[p], to[p])
                  ELSE to[p]] IN
  [tree |-> after, conflicts |-> refused,
   changes |-> {Planned(p, cur[p], after[p],
                        strategy = "replace-target" /\ cur[p] # from[p]) : p \in open \ refused}]

\* cascadePlan(): the whole branch as it was before the operation, or before its undo
CascadePlan(o, dir, head, st) ==
  LET cur == TreeAt(head)
      after == TreeAt(IF dir = "undo" THEN source[o] - 1 ELSE st.preCascade) IN
  [tree |-> after, conflicts |-> {},
   changes |-> {Planned(p, cur[p], after[p], TRUE) : p \in {q \in Paths : cur[q] # after[q]}}]

PlanOf(k) ==
  IF k.strategy = "cascade" THEN CascadePlan(k.op, k.dir, k.head, k.state)
  ELSE FilePlan(k.op, k.dir, k.strategy, k.head, k.state)

\* assertDirectionState(), and REVERSAL_CASCADE_DESTINATION_MISSING
DirectionAllowed(dir, strategy, st) ==
  IF dir = "undo" THEN st.last # "undo"
  ELSE /\ st.last = "undo"
       /\ strategy = "cascade" => st.strategy = "cascade" /\ st.preCascade # 0

(***************************************************************************)
(* computePreview(), for a preview and again to apply it                   *)
(***************************************************************************)
\* All a preview finds before the head of the branch is the operation, which does not change
Preview(c, t, o, dir, strategy) ==
  /\ call[c].task = "none"
  /\ source[o] # 0
  /\ ticket[t].state = "free"
  /\ \A d \in Calls : ~(call[d].task = "preview" /\ call[d].ticket = t)
  /\ call' = [call EXCEPT ![c] = [Started("preview", t, o, dir, strategy)
                                   EXCEPT !.at = "headed", !.head = Top]]
  /\ UNCHANGED <<history, opsJournal, edits, states, ticket>>

\* getTicket()
Apply(c, t) ==
  /\ call[c].task = "none"
  /\ ticket[t].state = "issued"
  /\ call' = [call EXCEPT ![c] = Started("apply", t, ticket[t].op, ticket[t].dir,
                                         ticket[t].strategy)]
  /\ UNCHANGED <<history, opsJournal, edits, states, ticket>>

ReadHead(c) ==
  /\ call[c].task = "apply" /\ call[c].at = "start"
  /\ call' = [call EXCEPT ![c].at = "headed", ![c].head = Top]
  /\ UNCHANGED <<history, opsJournal, edits, states, ticket>>

ReadState(c) ==
  LET st == states[call[c].op] IN
  /\ call[c].at = "headed"
  /\ DirectionAllowed(call[c].dir, call[c].strategy, st)
  /\ call' = [call EXCEPT ![c].at = "stated", ![c].state = st]
  /\ UNCHANGED <<history, opsJournal, edits, states, ticket>>

\* An empty cascade is an error, an empty file plan only not allowed
IssuePreview(c) ==
  LET plan == PlanOf(call[c]) IN
  /\ call[c].task = "preview" /\ call[c].at = "stated"
  /\ call[c].strategy = "cascade" => plan.changes # {}
  /\ ticket' = [ticket EXCEPT ![call[c].ticket] =
                  [state |-> "issued", op |-> call[c].op, dir |-> call[c].dir,
                   strategy |-> call[c].strategy, head |-> call[c].head,
                   changes |-> plan.changes, conflicts |-> plan.conflicts,
                   shown |-> plan.tree]]
  /\ call' = [call EXCEPT ![c] = Idle]
  /\ UNCHANGED <<history, opsJournal, edits, states>>

\* Mutant: the head of the preview is not compared.
ConfirmedOnAnyHead(t, head, plan) ==
  /\ plan.changes = ticket[t].changes /\ plan.conflicts = ticket[t].conflicts
  /\ plan.conflicts = {} /\ plan.changes # {}

\* REVERSAL_HEAD_CHANGED, REVERSAL_PREVIEW_STALE and REVERSAL_CONFLICT are not raised
Confirmed(t, head, plan) ==
  /\ head = ticket[t].head
  /\ plan.changes = ticket[t].changes /\ plan.conflicts = ticket[t].conflicts
  /\ plan.conflicts = {} /\ plan.changes # {}

MarkTicketUsed(c) ==
  LET t == call[c].ticket
      plan == PlanOf(call[c]) IN
  /\ call[c].task = "apply" /\ call[c].at = "stated"
  /\ Confirmed(t, call[c].head, plan)
  /\ ticket' = [ticket EXCEPT ![t].state = "used"]
  /\ call' = [call EXCEPT ![c].at = "planned", ![c].tree = plan.tree]
  /\ UNCHANGED <<history, opsJournal, edits, states>>

(***************************************************************************)
(* applyPreview(), from the write on                                       *)
(***************************************************************************)
Reversal(k) ==
  [tree |-> k.tree, guarded |-> k.strategy # "cascade", op |-> k.op, dir |-> k.dir,
   strategy |-> k.strategy, ticket |-> k.ticket]

\* Mutant: the commit is made on whatever the head is by then.
PublishUnguarded(c) ==
  /\ call[c].at = "planned"
  /\ Top < MaxCommits
  /\ history' = Append(history, Reversal(call[c]))
  /\ call' = [call EXCEPT ![c].at = "published", ![c].tree = [p \in Paths |-> Missing]]
  /\ UNCHANGED <<opsJournal, edits, states, ticket>>

\* atomicCommit() guarded by installGuardedCommit(), or applyCascade(): the parent is the
\* head that was planned for, and updateBranch(force: false) takes nothing else
Publish(c) ==
  /\ call[c].at = "planned"
  /\ Top = call[c].head /\ Top < MaxCommits
  /\ history' = Append(history, Reversal(call[c]))
  /\ call' = [call EXCEPT ![c].at = "published", ![c].tree = [p \in Paths |-> Missing]]
  /\ UNCHANGED <<opsJournal, edits, states, ticket>>

\* applyCascade() reads the head again and fails if it is not its own commit;
\* saveState() takes the time, then loads
LoadStates(c) ==
  /\ call[c].at = "published"
  /\ call[c].strategy = "cascade" => Top = call[c].head + 1
  /\ call' = [call EXCEPT ![c].at = "loaded", ![c].loaded = states, ![c].since = Len(edits)]
  /\ UNCHANGED <<history, opsJournal, edits, states, ticket>>

\* Mutant: a cascade remembers the head it left behind, not the one it found.
PatchAfterPublish(k) ==
  [last |-> k.dir, strategy |-> k.strategy, since |-> k.since,
   preCascade |-> IF k.dir = "undo" /\ k.strategy = "cascade" THEN k.head + 1
                  ELSE k.state.preCascade]

\* Mutant: the reversal is dated after the next edit.
PatchDatedLate(k) ==
  [last |-> k.dir, strategy |-> k.strategy, since |-> k.since + 1,
   preCascade |-> IF k.dir = "undo" /\ k.strategy = "cascade" THEN k.head
                  ELSE k.state.preCascade]

Patch(k) ==
  [last |-> k.dir, strategy |-> k.strategy, since |-> k.since,
   preCascade |-> IF k.dir = "undo" /\ k.strategy = "cascade" THEN k.head
                  ELSE k.state.preCascade]

\* All states are written, as they were when they were loaded
SaveStates(c) ==
  /\ call[c].at = "loaded"
  /\ states' = [call[c].loaded EXCEPT ![call[c].op] = Patch(call[c])]
  /\ call' = [call EXCEPT ![c] = Idle]
  /\ UNCHANGED <<history, opsJournal, edits, ticket>>

\* A refusal, a network error or the death of the service worker
CallFails(c) ==
  /\ call[c].task # "none"
  /\ call' = [call EXCEPT ![c] = Idle]
  /\ UNCHANGED <<history, opsJournal, edits, states, ticket>>

(***************************************************************************)
(* The others who write                                                    *)
(***************************************************************************)
\* The tree once regions R of p are written; none: the file is removed
Written(p, R) ==
  [TreeAt(Top) EXCEPT ![p] =
     IF R = {} THEN Missing
     ELSE [r \in Regions |-> IF r \in R \/ ~Exists(TreeAt(Top)[p]) THEN Top + 1
                             ELSE TreeAt(Top)[p][r]]]

\* An approved commit of the agent, and its entry in the operation journal
AgentCommit(o, p, R) ==
  /\ source[o] = 0 /\ Top < MaxCommits
  /\ R # {} \/ Exists(TreeAt(Top)[p])
  /\ history' = Append(history, Plain(Written(p, R), TRUE))
  /\ source' = [source EXCEPT ![o] = Top + 1]
  /\ finished' = [finished EXCEPT ![o] = Len(edits)]
  /\ UNCHANGED <<edits, states, ticket, call>>

HumanPush(p, R) ==
  /\ Top < MaxCommits
  /\ R # {} \/ Exists(TreeAt(Top)[p])
  /\ history' = Append(history, Plain(Written(p, R), FALSE))
  /\ UNCHANGED <<opsJournal, edits, states, ticket, call>>

\* The editor reports an edit that is not on the branch
HumanEditObserved(p) ==
  /\ Len(edits) < MaxEdits
  /\ edits' = Append(edits, p)
  /\ UNCHANGED <<history, opsJournal, states, ticket, call>>

\* rollbackCheckpoint(): refused unless the head is the commit of the checkpoint
RollbackCheckpoint ==
  /\ history[Top].guarded /\ Top < MaxCommits
  /\ history' = Append(history, Plain(TreeAt(Top - 1), FALSE))
  /\ UNCHANGED <<opsJournal, edits, states, ticket, call>>

VInit ==
  /\ history = <<Plain([p \in Paths |-> [r \in Regions |-> 1]], FALSE)>>
  /\ source = [o \in Ops |-> 0]
  /\ finished = [o \in Ops |-> 0]
  /\ edits = <<>>
  /\ states = [o \in Ops |-> NoState]
  /\ ticket = [t \in Tickets |-> FreeTicket]
  /\ call = [c \in Calls |-> Idle]

RequestStep(c) ==
  \/ \E t \in Tickets :
       \/ \E o \in Ops, dir \in Directions, strategy \in Strategies :
            Preview(c, t, o, dir, strategy)
       \/ Apply(c, t)
  \/ ReadHead(c) \/ ReadState(c)
  \/ IssuePreview(c)
  \/ MarkTicketUsed(c) \/ Publish(c) \/ LoadStates(c) \/ SaveStates(c)
  \/ CallFails(c)

WriterStep(p) ==
  \/ \E R \in SUBSET Regions :
       \/ \E o \in Ops : AgentCommit(o, p, R)
       \/ HumanPush(p, R)
  \/ HumanEditObserved(p)

VNext ==
  \/ \E c \in Calls : RequestStep(c)
  \/ \E p \in Paths : WriterStep(p)
  \/ RollbackCheckpoint

VSpec == VInit /\ [][VNext]_reversalVars

(***************************************************************************)
(* Properties                                                              *)
(***************************************************************************)
\* The branch, the journal, the stored states, the tickets and the requests keep the shapes
\* the runtime writes.
VTypeOK ==
  /\ history \in Seq(Commit) /\ Top \in 1 .. MaxCommits
  /\ source \in [Ops -> Commits]
  /\ finished \in [Ops -> 0 .. MaxEdits]
  /\ edits \in Seq(Paths) /\ Len(edits) <= MaxEdits
  /\ states \in [Ops -> State]
  /\ ticket \in [Tickets -> Ticket]
  /\ call \in [Calls -> Call]

Reversals == {i \in 1 .. Top : history[i].op # NoOp}

\* A reversal on the branch leaves the tree its preview showed, whatever was pushed or reported
\* in between.  The redo of a cascade is excepted: the head it restores comes from the stored
\* states and is not in the fingerprint.
ConfirmedIsApplied ==
  \A i \in Reversals :
    ~(history[i].strategy = "cascade" /\ history[i].dir = "redo") =>
      TreeAt(i) = ticket[history[i].ticket].shown

\* One confirmation makes one commit, although two requests can both find the ticket unused:
\* their commits have the same parent.
OneCommitPerConfirmation ==
  \A i, j \in Reversals : history[i].ticket = history[j].ticket => i = j

\* A reversal that is to preserve later work replaces nothing but text the operation left
\* there (undo), or that was there before it (redo).
LaterWorkIsKept ==
  \A i \in Reversals : history[i].strategy = "preserve" =>
    \A p \in Paths, r \in Regions :
      TreeAt(i)[p][r] # TreeAt(i - 1)[p][r] =>
        TreeAt(i - 1)[p][r] = From(history[i].op, history[i].dir)[p][r]

\* What is stored about an operation happened on the branch: its last reversal was published,
\* and the head a cascade would return to is the one its undo was published on.
StateIsEarned ==
  \A o \in Ops :
    /\ states[o].last # "none" =>
         \E i \in Reversals : /\ history[i].op = o /\ history[i].dir = states[o].last
                              /\ history[i].strategy = states[o].strategy
    /\ states[o].preCascade # 0 =>
         /\ states[o].preCascade < Top
         /\ LET undo == history[states[o].preCascade + 1] IN
            undo.op = o /\ undo.dir = "undo" /\ undo.strategy = "cascade"
=============================================================================
