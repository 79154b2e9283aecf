---------------------- MODULE ReversibleOperationsProofs ----------------------
(***************************************************************************)
(* Smart Undo / Redo, for any number of paths, operations, tickets and     *)
(* requests.  What is known of a ticket, of a request and of a commit is   *)
(* stated of the branch H, the journal S and the tickets T, which only     *)
(* grow.                                                                   *)
(***************************************************************************)
EXTENDS ReversibleOperations, TLAPS

(***************************************************************************)
(* The inductive invariant                                                 *)
(***************************************************************************)
CascadeRedo(k) == k.strategy = "cascade" /\ k.dir = "redo"

\* From() and To()
Left(H, S, o, dir) == IF dir = "undo" THEN H[S[o]].tree ELSE H[S[o] - 1].tree
Right(H, S, o, dir) == IF dir = "undo" THEN H[S[o] - 1].tree ELSE H[S[o]].tree

\* The tree of a plan is determined by the commits it is about and the files it refuses.
PlanTree(H, S, o, dir, strategy, head, refused) ==
  LET open == {p \in Paths : /\ H[S[o]].tree[p] # H[S[o] - 1].tree[p]
                             /\ H[head].tree[p] # Right(H, S, o, dir)[p]} IN
  IF strategy = "cascade" THEN H[S[o] - 1].tree
  ELSE [p \in Paths |->
          IF p \notin open \ refused THEN H[head].tree[p]
          ELSE IF strategy = "preserve"
               THEN Merged(H[head].tree[p], Left(H, S, o, dir)[p], Right(H, S, o, dir)[p])
               ELSE Right(H, S, o, dir)[p]]

KeepsLater(H, S, o, dir, head, tree) ==
  \A p \in Paths, r \in Regions :
    tree[p][r] # H[head].tree[p][r] => H[head].tree[p][r] = Left(H, S, o, dir)[p][r]

\* What is stored about o happened on the branch H
Earned(o, st, H) ==
  /\ st.last # "none" =>
       \E i \in 1 .. Len(H) : H[i].op = o /\ H[i].dir = st.last /\ H[i].strategy = st.strategy
  /\ st.preCascade # 0 =>
       /\ st.preCascade \in 1 .. Len(H) - 1
       /\ H[st.preCascade + 1].op = o
       /\ H[st.preCascade + 1].dir = "undo" /\ H[st.preCascade + 1].strategy = "cascade"

TicketOK(t, H, S) ==
  t.state # "free" =>
    /\ t.op \in Ops /\ S[t.op] # 0 /\ t.head \in 1 .. Len(H)
    /\ ~CascadeRedo(t) => t.shown = PlanTree(H, S, t.op, t.dir, t.strategy, t.head, t.conflicts)

\* A request knows an operation, a commit and, to apply it, a ticket; what it is about to
\* publish is what the ticket shows; what it has published is on the branch.
CallOK(k, H, S, T) ==
  /\ k.task = "none" => k.at = "start"
  /\ k.task # "none" => k.op \in Ops /\ S[k.op] # 0 /\ k.ticket \in Tickets
  /\ k.at # "start" => k.head \in 1 .. Len(H)
  /\ k.at \in {"planned", "published", "loaded"} => k.task = "apply"
  /\ k.task = "apply" =>
       /\ T[k.ticket].state # "free"
       /\ k.op = T[k.ticket].op /\ k.dir = T[k.ticket].dir /\ k.strategy = T[k.ticket].strategy
  /\ k.at = "stated" /\ CascadeRedo(k) => k.state.preCascade # 0
  /\ k.at = "planned" =>
       /\ k.head = T[k.ticket].head
       /\ ~CascadeRedo(k) => k.tree = T[k.ticket].shown
       /\ k.strategy = "preserve" => KeepsLater(H, S, k.op, k.dir, k.head, k.tree)
  /\ k.at \in {"stated", "planned", "published", "loaded"} => Earned(k.op, k.state, H)
  /\ k.at \in {"published", "loaded"} =>
       /\ k.head \in 1 .. Len(H) - 1 /\ H[k.head + 1].op = k.op
       /\ H[k.head + 1].dir = k.dir /\ H[k.head + 1].strategy = k.strategy
  /\ k.at = "loaded" => \A o \in Ops : Earned(o, k.loaded[o], H)

\* A reversal on the branch was made on the head its ticket names; the first commit is of
\* nobody here.
CommitOK(i, H, S, T) ==
  /\ H[i].guarded => i > 1
  /\ H[i].op # NoOp =>
    /\ i > 1 /\ H[i].ticket \in Tickets /\ H[i].op \in Ops /\ S[H[i].op] # 0
    /\ T[H[i].ticket].state # "free" /\ i = T[H[i].ticket].head + 1
    /\ ~CascadeRedo(H[i]) => H[i].tree = T[H[i].ticket].shown
    /\ H[i].strategy = "preserve" => KeepsLater(H, S, H[i].op, H[i].dir, i - 1, H[i].tree)

JournalOK(S, H) == \A o \in Ops : S[o] # 0 => S[o] \in 2 .. Len(H)

\* A ticket that a preview is going to issue is free, and no other preview has it.
PreviewInv ==
  \A c \in Calls : call[c].task = "preview" =>
    /\ ticket[call[c].ticket].state = "free"
    /\ \A d \in Calls : call[d].task = "preview" /\ call[d].ticket = call[c].ticket => d = c

BranchInv ==
  /\ JournalOK(source, history)
  /\ \A t \in Tickets : TicketOK(ticket[t], history, source)
  /\ \A c \in Calls : CallOK(call[c], history, source, ticket)
  /\ \A i \in 1 .. Top : CommitOK(i, history, source, ticket)
  /\ \A o \in Ops : Earned(o, states[o], history)

VInv == VTypeOK /\ BranchInv /\ PreviewInv

(***************************************************************************)
(* What grows                                                              *)
(***************************************************************************)
TicketKept(t, u) ==
  /\ u.state # "free" /\ u.op = t.op /\ u.dir = t.dir /\ u.strategy = t.strategy
  /\ u.head = t.head /\ u.conflicts = t.conflicts /\ u.shown = t.shown

Grown(H, S, T, H2, S2, T2) ==
  /\ H \in Seq(Commit) /\ Len(H) \in Nat /\ Len(H2) \in Nat /\ Len(H) <= Len(H2)
  /\ \A i \in 1 .. Len(H) : H2[i] = H[i]
  /\ JournalOK(S, H)
  /\ \A o \in Ops : S[o] # 0 => S2[o] = S[o]
  /\ \A t \in Tickets : T[t].state # "free" => TicketKept(T[t], T2[t])

LEMMA EarnedStays ==
  ASSUME NEW H, NEW S, NEW T, NEW H2, NEW S2, NEW T2, Grown(H, S, T, H2, S2, T2),
         NEW o, NEW st \in State, Earned(o, st, H)
  PROVE  Earned(o, st, H2)
<1>1. st.preCascade \in Int
  BY BoundsAssumption DEF State, Commits
<1>2. \A i \in 1 .. Len(H) : i \in 1 .. Len(H2) /\ H2[i] = H[i]
  BY DEF Grown
<1>3. st.last # "none" =>
        \E i \in 1 .. Len(H2) : H2[i].op = o /\ H2[i].dir = st.last /\ H2[i].strategy = st.strategy
  <2> SUFFICES ASSUME st.last # "none"
               PROVE  \E i \in 1 .. Len(H2) :
                        H2[i].op = o /\ H2[i].dir = st.last /\ H2[i].strategy = st.strategy
    OBVIOUS
  <2>1. PICK i \in 1 .. Len(H) : H[i].op = o /\ H[i].dir = st.last /\ H[i].strategy = st.strategy
    BY DEF Earned
  <2>2. QED
    BY <1>2, <2>1
<1>4. st.preCascade # 0 =>
        /\ st.preCascade \in 1 .. Len(H2) - 1
        /\ H2[st.preCascade + 1].op = o
        /\ H2[st.preCascade + 1].dir = "undo" /\ H2[st.preCascade + 1].strategy = "cascade"
  <2> SUFFICES ASSUME st.preCascade # 0
               PROVE  /\ st.preCascade \in 1 .. Len(H2) - 1
                      /\ H2[st.preCascade + 1].op = o
                      /\ H2[st.preCascade + 1].dir = "undo"
                      /\ H2[st.preCascade + 1].strategy = "cascade"
    OBVIOUS
  <2>1. st.preCascade + 1 \in 1 .. Len(H) /\ st.preCascade \in 1 .. Len(H2) - 1
    BY <1>1 DEF Earned, Grown
  <2>2. H2[st.preCascade + 1] = H[st.preCascade + 1]
    BY <1>2, <2>1
  <2>3. QED
    BY <2>1, <2>2 DEF Earned
<1>5. QED
  BY <1>3, <1>4 DEF Earned

LEMMA CommitsStay ==
  ASSUME NEW H, NEW S, NEW T, NEW H2, NEW S2, NEW T2, Grown(H, S, T, H2, S2, T2),
         NEW o \in Ops, S[o] # 0
  PROVE  /\ S2[o] = S[o] /\ H2[S[o]] = H[S[o]] /\ H2[S[o] - 1] = H[S[o] - 1]
         /\ \A dir : Left(H2, S2, o, dir) = Left(H, S, o, dir) /\ Right(H2, S2, o, dir) = Right(H, S, o, dir)
<1>1. S[o] \in 1 .. Len(H) /\ S[o] - 1 \in 1 .. Len(H)
  BY DEF Grown, JournalOK
<1>2. S2[o] = S[o] /\ H2[S[o]] = H[S[o]] /\ H2[S[o] - 1] = H[S[o] - 1]
  BY <1>1 DEF Grown
<1>3. QED
  BY <1>2 DEF Left, Right

LEMMA KeepsLaterStays ==
  ASSUME NEW H, NEW S, NEW T, NEW H2, NEW S2, NEW T2, Grown(H, S, T, H2, S2, T2),
         NEW o \in Ops, S[o] # 0, NEW dir, NEW head \in 1 .. Len(H), NEW tree,
         KeepsLater(H, S, o, dir, head, tree)
  PROVE  KeepsLater(H2, S2, o, dir, head, tree)
<1>1. H2[head] = H[head]
  BY DEF Grown
<1>2. QED
  BY <1>1, CommitsStay DEF KeepsLater

LEMMA TicketStays ==
  ASSUME NEW H, NEW S, NEW T, NEW H2, NEW S2, NEW T2, Grown(H, S, T, H2, S2, T2),
         NEW t, NEW u, t.state # "free", TicketKept(t, u), TicketOK(t, H, S)
  PROVE  TicketOK(u, H2, S2)
<1>1. /\ t.op \in Ops /\ S[t.op] # 0 /\ t.head \in 1 .. Len(H)
      /\ ~CascadeRedo(t) => t.shown = PlanTree(H, S, t.op, t.dir, t.strategy, t.head, t.conflicts)
  BY DEF TicketOK
<1>2. H2[t.head] = H[t.head] /\ t.head \in 1 .. Len(H2)
  BY <1>1 DEF Grown
<1>3. PlanTree(H2, S2, t.op, t.dir, t.strategy, t.head, t.conflicts)
        = PlanTree(H, S, t.op, t.dir, t.strategy, t.head, t.conflicts)
  <2>1. /\ S2[t.op] = S[t.op] /\ H2[S[t.op]] = H[S[t.op]] /\ H2[S[t.op] - 1] = H[S[t.op] - 1]
        /\ Left(H2, S2, t.op, t.dir) = Left(H, S, t.op, t.dir)
        /\ Right(H2, S2, t.op, t.dir) = Right(H, S, t.op, t.dir)
    BY <1>1, CommitsStay
  <2>2. QED
    BY <1>2, <2>1 DEF PlanTree
<1>4. S2[t.op] # 0
  BY <1>1, CommitsStay
<1>5. QED
  BY <1>1, <1>2, <1>3, <1>4 DEF TicketOK, TicketKept, CascadeRedo

LEMMA CallStays ==
  ASSUME NEW H, NEW S, NEW T, NEW H2, NEW S2, NEW T2, Grown(H, S, T, H2, S2, T2),
         NEW k \in Call, CallOK(k, H, S, T)
  PROVE  CallOK(k, H2, S2, T2)
<1>0. k.head \in Int /\ k.state \in State /\ \A o \in Ops : k.loaded[o] \in State
  BY BoundsAssumption DEF Call, Commits
<1>1. CASE k.task = "none"
  BY <1>1 DEF CallOK
<1>2. CASE k.task # "none"
  <2>1. k.op \in Ops /\ S[k.op] # 0 /\ k.ticket \in Tickets
    BY <1>2 DEF CallOK
  <2>2. S2[k.op] # 0
    BY <2>1, CommitsStay
  <2>3. k.head \in 1 .. Len(H) => k.head \in 1 .. Len(H2)
    BY DEF Grown
  <2>4. k.task = "apply" => TicketKept(T[k.ticket], T2[k.ticket])
    BY <2>1 DEF CallOK, Grown
  <2>5. k.at = "planned" =>
          /\ k.head = T2[k.ticket].head
          /\ ~CascadeRedo(k) => k.tree = T2[k.ticket].shown
          /\ k.strategy = "preserve" => KeepsLater(H2, S2, k.op, k.dir, k.head, k.tree)
    BY <2>1, <2>4, KeepsLaterStays DEF CallOK, TicketKept
  <2>6. k.at \in {"stated", "planned", "published", "loaded"} => Earned(k.op, k.state, H2)
    BY <1>0, EarnedStays DEF CallOK
  <2>7. k.at \in {"published", "loaded"} =>
          /\ k.head \in 1 .. Len(H2) - 1 /\ H2[k.head + 1].op = k.op
          /\ H2[k.head + 1].dir = k.dir /\ H2[k.head + 1].strategy = k.strategy
    <3>1. k.head \in 1 .. Len(H) - 1 => k.head + 1 \in 1 .. Len(H) /\ k.head \in 1 .. Len(H2) - 1
      BY <1>0 DEF Grown
    <3>2. QED
      BY <3>1 DEF CallOK, Grown
  <2>8. k.at = "loaded" => \A o \in Ops : Earned(o, k.loaded[o], H2)
    BY <1>0, EarnedStays DEF CallOK
  <2>9. QED
    BY <2>1, <2>2, <2>3, <2>4, <2>5, <2>6, <2>7, <2>8 DEF CallOK, TicketKept
<1>3. QED
  BY <1>1, <1>2

LEMMA CommitStays ==
  ASSUME NEW H, NEW S, NEW T, NEW H2, NEW S2, NEW T2, Grown(H, S, T, H2, S2, T2),
         NEW i \in 1 .. Len(H), CommitOK(i, H, S, T)
  PROVE  CommitOK(i, H2, S2, T2)
<1>0. H2[i] = H[i]
  BY DEF Grown
<1>1. CASE H[i].op = NoOp
  BY <1>0, <1>1 DEF CommitOK
<1>2. CASE H[i].op # NoOp
  <2>1. /\ i > 1 /\ H[i].ticket \in Tickets /\ H[i].op \in Ops /\ S[H[i].op] # 0
        /\ T[H[i].ticket].state # "free" /\ i = T[H[i].ticket].head + 1
        /\ ~CascadeRedo(H[i]) => H[i].tree = T[H[i].ticket].shown
        /\ H[i].strategy = "preserve" => KeepsLater(H, S, H[i].op, H[i].dir, i - 1, H[i].tree)
    BY <1>2 DEF CommitOK
  <2>2. S2[H[i].op] # 0 /\ TicketKept(T[H[i].ticket], T2[H[i].ticket])
    BY <2>1, CommitsStay DEF Grown
  <2>3. i - 1 \in 1 .. Len(H)
    BY <2>1 DEF Grown
  <2>4. H[i].strategy = "preserve" => KeepsLater(H2, S2, H[i].op, H[i].dir, i - 1, H[i].tree)
    BY <2>1, <2>3, KeepsLaterStays
  <2>5. QED
    BY <1>0, <2>1, <2>2, <2>4 DEF CommitOK, TicketKept
<1>3. QED
  BY <1>1, <1>2

(***************************************************************************)
(* Types                                                                   *)
(***************************************************************************)
LEMMA Typed ==
  ASSUME VTypeOK
  PROVE  /\ Top \in Nat /\ Top \in 1 .. MaxCommits /\ Len(history) = Top
         /\ \A i \in 1 .. Top : history[i] \in Commit /\ TreeAt(i) \in Tree
         /\ Len(edits) \in 0 .. MaxEdits
         /\ \A o \in Ops : source[o] \in Nat /\ states[o] \in State
         /\ \A t \in Tickets : ticket[t] \in Ticket
         /\ \A c \in Calls : call[c] \in Call
<1>1. \A i \in 1 .. Top : history[i] \in Commit
  BY DEF VTypeOK, Top
<1>2. \A i \in 1 .. Top : TreeAt(i) \in Tree
  BY <1>1 DEF TreeAt, Commit
<1>3. Len(edits) \in Nat
  BY DEF VTypeOK
<1>4. \A o \in Ops : source[o] \in Nat
  BY BoundsAssumption DEF VTypeOK, Commits
<1>5. QED
  BY <1>1, <1>2, <1>3, <1>4, BoundsAssumption DEF VTypeOK, Top

LEMMA PlannedTyped ==
  ASSUME NEW p \in Paths, NEW cur, NEW after, NEW d \in BOOLEAN
  PROVE  Planned(p, cur, after, d) \in Change
BY DEF Planned, Action, Change

LEMMA MergedTyped ==
  ASSUME NEW cur \in File, NEW from, NEW to \in File
  PROVE  /\ Merged(cur, from, to) \in File
         /\ \A r \in Regions : Merged(cur, from, to)[r] # cur[r] => r \in Hunk(from, to)
BY DEF Merged, File, Hunk

\* What a plan for an operation of the journal on a commit of the branch looks like.
LEMMA PlanIs ==
  ASSUME VTypeOK, JournalOK(source, history), NEW k \in Call, k.op \in Ops, source[k.op] # 0,
         k.head \in 1 .. Top, CascadeRedo(k) => k.state.preCascade \in 1 .. Top
  PROVE  /\ PlanOf(k).tree \in Tree
         /\ PlanOf(k).conflicts \in SUBSET Paths
         /\ PlanOf(k).changes \in SUBSET Change
         /\ ~CascadeRedo(k) =>
              PlanOf(k).tree = PlanTree(history, source, k.op, k.dir, k.strategy, k.head,
                                        PlanOf(k).conflicts)
         /\ k.strategy = "preserve" /\ PlanOf(k).conflicts = {} =>
              KeepsLater(history, source, k.op, k.dir, k.head, PlanOf(k).tree)
<1>1. /\ source[k.op] \in 1 .. Top /\ source[k.op] - 1 \in 1 .. Top
      /\ TreeAt(source[k.op]) \in Tree /\ TreeAt(source[k.op] - 1) \in Tree /\ TreeAt(k.head) \in Tree
  <2>1. source[k.op] \in 2 .. Top
    BY DEF JournalOK, Top
  <2>2. QED
    BY <2>1, Typed
<1>2. k.dir \in Directions /\ k.strategy \in Strategies
  BY DEF Call
<1>3. CASE k.strategy = "cascade"
  <2> DEFINE cur == TreeAt(k.head)
             after == TreeAt(IF k.dir = "undo" THEN source[k.op] - 1 ELSE k.state.preCascade)
             plan == [tree |-> after, conflicts |-> {},
                      changes |-> {Planned(p, cur[p], after[p], TRUE) :
                                     p \in {q \in Paths : cur[q] # after[q]}}]
  <2>1. PlanOf(k) = plan
    BY <1>3 DEF PlanOf, CascadePlan
  <2>2. after \in Tree
    BY <1>1, <1>2, <1>3, Typed DEF CascadeRedo, Directions
  <2>3. plan.changes \in SUBSET Change
    BY PlannedTyped
  <2>4. ~CascadeRedo(k) => after = PlanTree(history, source, k.op, k.dir, k.strategy, k.head, {})
    BY <1>2, <1>3 DEF CascadeRedo, Directions, PlanTree, TreeAt
  <2> HIDE DEF after
  <2>5. plan.tree = after /\ plan.conflicts = {}
    OBVIOUS
  <2>6. QED
    BY <1>3, <2>1, <2>2, <2>3, <2>4, <2>5
<1>4. CASE k.strategy # "cascade"
  <2> DEFINE cur == TreeAt(k.head)
             from == From(k.op, k.dir)
             to == To(k.op, k.dir)
             human(p) == LaterHumanEdit(k.op, k.state, p)
             open == {p \in PathsOf(k.op) : cur[p] # to[p]}
             refused == {p \in open : /\ k.strategy = "preserve"
                                      /\ Conflicts(cur[p], from[p], to[p], human(p))}
             after == [p \in Paths |->
                         IF p \notin open \ refused THEN cur[p]
                         ELSE IF k.strategy = "preserve" THEN Merged(cur[p], from[p], to[p])
                         ELSE to[p]]
             destructive(p) == k.strategy = "replace-target" /\ cur[p] # from[p]
             changes == {Planned(p, cur[p], after[p], destructive(p)) : p \in open \ refused}
             plan == [tree |-> after, conflicts |-> refused, changes |-> changes]
  <2>1. PlanOf(k) = plan
    BY <1>4 DEF PlanOf, FilePlan
  <2>2. cur \in Tree /\ from \in Tree /\ to \in Tree
    BY <1>1 DEF From, To
  <2>3. open \subseteq Paths /\ refused \subseteq open
    BY DEF PathsOf
  <2>4. after \in Tree
    <3>1. \A p \in Paths : cur[p] \in File /\ to[p] \in File
      BY <2>2 DEF Tree
    <3>2. \A p \in Paths : Merged(cur[p], from[p], to[p]) \in File
      BY <3>1, MergedTyped
    <3>3. QED
      BY <3>1, <3>2 DEF Tree
  <2>5. changes \in SUBSET Change
    <3>1. \A p : destructive(p) \in BOOLEAN
      OBVIOUS
    <3> HIDE DEF after, destructive, refused, open
    <3>2. \A p \in open \ refused : Planned(p, cur[p], after[p], destructive(p)) \in Change
      BY <2>3, <3>1, PlannedTyped
    <3>3. QED
      BY <3>2
  <2>6. after = PlanTree(history, source, k.op, k.dir, k.strategy, k.head, refused)
    <3>1. from = Left(history, source, k.op, k.dir) /\ to = Right(history, source, k.op, k.dir)
      BY DEF From, To, Left, Right, TreeAt
    <3>2. open = {p \in Paths : /\ history[source[k.op]].tree[p] # history[source[k.op] - 1].tree[p]
                                /\ history[k.head].tree[p]
                                     # Right(history, source, k.op, k.dir)[p]}
      BY <3>1 DEF PathsOf, TreeAt
    <3>3. QED
      BY <1>4, <3>1, <3>2 DEF PlanTree, TreeAt
  <2>7. k.strategy = "preserve" /\ refused = {} =>
          KeepsLater(history, source, k.op, k.dir, k.head, after)
    <3> SUFFICES ASSUME k.strategy = "preserve", refused = {}, NEW p \in Paths, NEW r \in Regions,
                        after[p][r] # cur[p][r]
                 PROVE  cur[p][r] = from[p][r]
      BY DEF KeepsLater, Left, From, TreeAt
    <3>1. p \in open /\ after[p] = Merged(cur[p], from[p], to[p])
      OBVIOUS
    <3>2. cur[p] \in File /\ to[p] \in File
      BY <2>2 DEF Tree
    <3>3. r \in Hunk(from[p], to[p])
      BY <3>1, <3>2, MergedTyped
    <3>4. ~Conflicts(cur[p], from[p], to[p], human(p))
      BY <3>1
    <3>5. QED
      BY <3>3, <3>4 DEF Conflicts
  <2> HIDE DEF after, refused, changes
  <2>8. plan.tree = after /\ plan.conflicts = refused /\ plan.changes = changes
    OBVIOUS
  <2>9. QED
    BY <1>4, <2>1, <2>3, <2>4, <2>5, <2>6, <2>7, <2>8
<1>5. QED
  BY <1>3, <1>4

LEMMA StartedTyped ==
  ASSUME VTypeOK, NEW task \in {"none", "preview", "apply"}, NEW t \in Tickets \cup {NoTicket},
         NEW o \in Ops \cup {NoOp}, NEW dir \in Directions, NEW strategy \in Strategies
  PROVE  Started(task, t, o, dir, strategy) \in Call
<1>1. 0 \in Commits /\ 0 \in 0 .. MaxEdits /\ -1 \in -1 .. MaxEdits
  BY BoundsAssumption DEF Commits
<1>2. [p \in Paths |-> Missing] \in Tree
  BY <1>1 DEF Tree, File, Missing
<1>3. NoState \in State
  BY <1>1 DEF NoState, State
<1>4. [x \in Ops |-> NoState] \in [Ops -> State]
  BY <1>3
<1>5. QED
  BY <1>1, <1>2, <1>3, <1>4 DEF Started, Call

LEMMA IdleOK ==
  ASSUME VTypeOK, NEW H, NEW S, NEW T
  PROVE  Idle \in Call /\ Idle.task = "none" /\ CallOK(Idle, H, S, T)
<1>1. Idle \in Call
  BY StartedTyped DEF Idle, Directions, Strategies
<1>2. Idle.task = "none" /\ Idle.at = "start"
  BY DEF Idle, Started
<1>3. QED
  BY <1>1, <1>2 DEF CallOK

(***************************************************************************)
(* Steps                                                                   *)
(***************************************************************************)
\* The part of the invariant that speaks of the branch needs to be looked at only for what
\* the step made: tickets, requests, commits and stored states.
LEMMA Preserve ==
  ASSUME VInv, Grown(history, source, ticket, history', source', ticket'),
         JournalOK(source', history'),
         \A t \in Tickets : ticket[t].state = "free" =>
           ticket'[t] = ticket[t] \/ TicketOK(ticket'[t], history', source'),
         \A c \in Calls : call'[c] = call[c] \/ CallOK(call'[c], history', source', ticket'),
         \A i \in 1 .. Len(history') :
           i \in 1 .. Len(history) \/ CommitOK(i, history', source', ticket'),
         \A o \in Ops : states'[o] = states[o] \/ Earned(o, states'[o], history')
  PROVE  BranchInv'
<1>1. VTypeOK /\ BranchInv
  BY DEF VInv
<1>2. \A t \in Tickets : TicketOK(ticket'[t], history', source')
  <2> SUFFICES ASSUME NEW t \in Tickets
               PROVE  TicketOK(ticket'[t], history', source')
    OBVIOUS
  <2>1. CASE ticket[t].state = "free"
    BY <2>1 DEF TicketOK
  <2>2. CASE ticket[t].state # "free"
    <3>1. TicketKept(ticket[t], ticket'[t]) /\ TicketOK(ticket[t], history, source)
      BY <1>1, <2>2 DEF Grown, BranchInv
    <3>2. QED
      BY <2>2, <3>1, TicketStays
  <2>3. QED
    BY <2>1, <2>2
<1>3. \A c \in Calls : CallOK(call'[c], history', source', ticket')
  <2> SUFFICES ASSUME NEW c \in Calls, call'[c] = call[c]
               PROVE  CallOK(call'[c], history', source', ticket')
    OBVIOUS
  <2>1. call[c] \in Call /\ CallOK(call[c], history, source, ticket)
    BY <1>1, Typed DEF BranchInv
  <2>2. QED
    BY <2>1, CallStays
<1>4. \A i \in 1 .. Len(history') : CommitOK(i, history', source', ticket')
  <2> SUFFICES ASSUME NEW i \in 1 .. Len(history)
               PROVE  CommitOK(i, history', source', ticket')
    OBVIOUS
  <2>1. CommitOK(i, history, source, ticket)
    BY <1>1 DEF BranchInv, Top
  <2>2. QED
    BY <2>1, CommitStays
<1>5. \A o \in Ops : Earned(o, states'[o], history')
  <2> SUFFICES ASSUME NEW o \in Ops, states'[o] = states[o]
               PROVE  Earned(o, states'[o], history')
    OBVIOUS
  <2>1. states[o] \in State /\ Earned(o, states[o], history)
    BY <1>1, Typed DEF BranchInv
  <2>2. QED
    BY <2>1, EarnedStays
<1>6. QED
  BY <1>2, <1>3, <1>4, <1>5 DEF BranchInv, Top

LEMMA NothingGrows ==
  ASSUME VInv, history' = history, source' = source,
         \A t \in Tickets : ticket[t].state # "free" => TicketKept(ticket[t], ticket'[t])
  PROVE  /\ Grown(history, source, ticket, history', source', ticket')
         /\ JournalOK(source', history')
         /\ \A i \in 1 .. Len(history') : i \in 1 .. Len(history)
<1>1. history \in Seq(Commit) /\ Len(history) \in Nat /\ JournalOK(source, history)
  BY Typed DEF VInv, VTypeOK, BranchInv
<1>2. QED
  BY <1>1 DEF Grown

\* A step of a request that changes nothing else.
LEMMA CallOnly ==
  ASSUME VInv, NEW c \in Calls, NEW k \in Call, call' = [call EXCEPT ![c] = k],
         UNCHANGED <<history, opsJournal, edits, states, ticket>>,
         CallOK(k, history, source, ticket),
         k.task = "preview" =>
           /\ ticket[k.ticket].state = "free"
           /\ \A d \in Calls : call[d].task = "preview" /\ call[d].ticket = k.ticket => d = c
  PROVE  VInv'
<1>1. call \in [Calls -> Call]
  BY DEF VInv, VTypeOK
<1>2. VTypeOK'
  BY <1>1 DEF VInv, VTypeOK, Top, opsJournal
<1>3. call'[c] = k /\ \A d \in Calls : d # c => call'[d] = call[d]
  BY <1>1
<1>4. BranchInv'
  <2>1. /\ Grown(history, source, ticket, history', source', ticket')
        /\ JournalOK(source', history')
        /\ \A i \in 1 .. Len(history') : i \in 1 .. Len(history)
    BY NothingGrows DEF opsJournal, TicketKept
  <2>2. \A d \in Calls : call'[d] = call[d] \/ CallOK(call'[d], history', source', ticket')
    BY <1>3 DEF opsJournal
  <2>3. QED
    BY <2>1, <2>2, Preserve
<1>5. PreviewInv'
  BY <1>3 DEF VInv, PreviewInv
<1>6. QED
  BY <1>2, <1>4, <1>5 DEF VInv

LEMMA PreviewStep ==
  ASSUME VInv, NEW c \in Calls, NEW t \in Tickets, NEW o \in Ops, NEW dir \in Directions,
         NEW strategy \in Strategies, Preview(c, t, o, dir, strategy)
  PROVE  VInv'
<1> DEFINE k == [Started("preview", t, o, dir, strategy) EXCEPT !.at = "headed", !.head = Top]
<1>1. Started("preview", t, o, dir, strategy) \in Call
  BY StartedTyped DEF VInv
<1>2. Top \in Commits /\ Top \in 1 .. Len(history)
  BY Typed DEF VInv, Commits
<1>3. k \in Call
  BY <1>1, <1>2 DEF Call
<1>4. /\ k.task = "preview" /\ k.at = "headed" /\ k.op = o /\ k.ticket = t /\ k.head = Top
  BY DEF Started
<1> HIDE DEF k
<1>5. CallOK(k, history, source, ticket)
  BY <1>2, <1>4 DEF CallOK, Preview
<1>6. call' = [call EXCEPT ![c] = k]
  BY DEF Preview, k
<1>7. /\ ticket[t].state = "free"
      /\ \A d \in Calls : ~(call[d].task = "preview" /\ call[d].ticket = t)
      /\ UNCHANGED <<history, opsJournal, edits, states, ticket>>
  BY DEF Preview
<1>8. QED
  BY <1>3, <1>4, <1>5, <1>6, <1>7, CallOnly

LEMMA ApplyStep ==
  ASSUME VInv, NEW c \in Calls, NEW t \in Tickets, Apply(c, t)
  PROVE  VInv'
<1> DEFINE k == Started("apply", t, ticket[t].op, ticket[t].dir, ticket[t].strategy)
<1>1. ticket[t] \in Ticket /\ TicketOK(ticket[t], history, source) /\ ticket[t].state = "issued"
  BY Typed DEF VInv, BranchInv, Apply
<1>2. ticket[t].op \in Ops /\ source[ticket[t].op] # 0
  BY <1>1 DEF TicketOK
<1>3. ticket[t].dir \in Directions /\ ticket[t].strategy \in Strategies
  BY <1>1 DEF Ticket
<1>4. k \in Call
  BY <1>2, <1>3, StartedTyped DEF VInv
<1>5. /\ k.task = "apply" /\ k.at = "start" /\ k.op = ticket[t].op /\ k.ticket = t
      /\ k.dir = ticket[t].dir /\ k.strategy = ticket[t].strategy
  BY DEF Started
<1> HIDE DEF k
<1>6. CallOK(k, history, source, ticket)
  BY <1>1, <1>2, <1>5 DEF CallOK
<1>7. call' = [call EXCEPT ![c] = k] /\ UNCHANGED <<history, opsJournal, edits, states, ticket>>
  BY DEF Apply, k
<1>8. QED
  BY <1>4, <1>5, <1>6, <1>7, CallOnly

LEMMA CallFacts ==
  ASSUME VInv, NEW c \in Calls
  PROVE  /\ call \in [Calls -> Call] /\ call[c] \in Call
         /\ CallOK(call[c], history, source, ticket)
         /\ call[c].task = "preview" =>
              /\ ticket[call[c].ticket].state = "free"
              /\ \A d \in Calls : call[d].task = "preview" /\ call[d].ticket = call[c].ticket => d = c
BY Typed DEF VInv, VTypeOK, BranchInv, PreviewInv

LEMMA ReadHeadStep ==
  ASSUME VInv, NEW c \in Calls, ReadHead(c)
  PROVE  VInv'
<1> DEFINE k == [call[c] EXCEPT !.at = "headed", !.head = Top]
<1>1. Top \in Commits /\ Top \in 1 .. Len(history)
  BY Typed DEF VInv, Commits
<1>2. k \in Call
  BY <1>1, CallFacts DEF Call
<1>3. /\ k.task = "apply" /\ k.at = "headed" /\ k.head = Top /\ k.op = call[c].op
      /\ k.ticket = call[c].ticket /\ k.dir = call[c].dir /\ k.strategy = call[c].strategy
  BY CallFacts DEF Call, ReadHead
<1>4. call[c].task = "apply"
  BY DEF ReadHead
<1> HIDE DEF k
<1>5. CallOK(k, history, source, ticket)
  BY <1>1, <1>3, <1>4, CallFacts DEF CallOK
<1>6. call' = [call EXCEPT ![c] = k] /\ UNCHANGED <<history, opsJournal, edits, states, ticket>>
  BY DEF ReadHead, k
<1>7. QED
  BY <1>2, <1>3, <1>5, <1>6, CallOnly

LEMMA ReadStateStep ==
  ASSUME VInv, NEW c \in Calls, ReadState(c)
  PROVE  VInv'
<1> DEFINE st == states[call[c].op]
           k == [call[c] EXCEPT !.at = "stated", !.state = st]
<1>1. call[c].at = "headed" /\ DirectionAllowed(call[c].dir, call[c].strategy, st)
  BY DEF ReadState
<1>2. call[c].op \in Ops
  BY <1>1, CallFacts DEF CallOK
<1>3. st \in State /\ Earned(call[c].op, st, history)
  BY <1>2, Typed DEF VInv, BranchInv
<1> HIDE DEF st
<1>4. k \in Call
  BY <1>3, CallFacts DEF Call
<1>5. /\ k.task = call[c].task /\ k.at = "stated" /\ k.head = call[c].head /\ k.op = call[c].op
      /\ k.ticket = call[c].ticket /\ k.dir = call[c].dir /\ k.strategy = call[c].strategy
      /\ k.state = st
  BY CallFacts DEF Call
<1> HIDE DEF k
<1>6. CascadeRedo(k) => k.state.preCascade # 0
  BY <1>1, <1>5 DEF CascadeRedo, DirectionAllowed
<1>7. CallOK(k, history, source, ticket)
  BY <1>1, <1>3, <1>5, <1>6, CallFacts DEF CallOK
<1>8. call' = [call EXCEPT ![c] = k] /\ UNCHANGED <<history, opsJournal, edits, states, ticket>>
  BY DEF ReadState, k, st
<1>9. k.task = "preview" =>
        /\ ticket[k.ticket].state = "free"
        /\ \A d \in Calls : call[d].task = "preview" /\ call[d].ticket = k.ticket => d = c
  BY <1>5, CallFacts
<1>10. QED
  BY <1>4, <1>7, <1>8, <1>9, CallOnly

LEMMA LoadStatesStep ==
  ASSUME VInv, NEW c \in Calls, LoadStates(c)
  PROVE  VInv'
<1> DEFINE k == [call[c] EXCEPT !.at = "loaded", !.loaded = states, !.since = Len(edits)]
<1>1. call[c].at = "published" /\ call[c].task = "apply"
  BY CallFacts DEF LoadStates, CallOK
<1>2. Len(edits) \in 0 .. MaxEdits /\ states \in [Ops -> State]
  BY Typed DEF VInv, VTypeOK
<1>3. k \in Call
  BY <1>2, CallFacts DEF Call
<1>4. /\ k.task = "apply" /\ k.at = "loaded" /\ k.head = call[c].head /\ k.op = call[c].op
      /\ k.ticket = call[c].ticket /\ k.dir = call[c].dir /\ k.strategy = call[c].strategy
      /\ k.state = call[c].state /\ k.loaded = states
  BY <1>1, CallFacts DEF Call
<1>5. \A o \in Ops : Earned(o, states[o], history)
  BY DEF VInv, BranchInv
<1> HIDE DEF k
<1>6. CallOK(k, history, source, ticket)
  BY <1>1, <1>4, <1>5, CallFacts DEF CallOK
<1>7. call' = [call EXCEPT ![c] = k] /\ UNCHANGED <<history, opsJournal, edits, states, ticket>>
  BY DEF LoadStates, k
<1>8. QED
  BY <1>3, <1>4, <1>6, <1>7, CallOnly

LEMMA CallFailsStep ==
  ASSUME VInv, NEW c \in Calls, CallFails(c)
  PROVE  VInv'
<1>1. Idle \in Call /\ Idle.task = "none" /\ CallOK(Idle, history, source, ticket)
  BY IdleOK DEF VInv
<1>2. QED
  BY <1>1, CallOnly DEF CallFails

\* A request that is to issue or to confirm has a plan for commits of the branch.
LEMMA CallPlan ==
  ASSUME VInv, NEW c \in Calls, call[c].at = "stated", call[c].task # "none"
  PROVE  /\ PlanOf(call[c]).tree \in Tree
         /\ PlanOf(call[c]).conflicts \in SUBSET Paths
         /\ PlanOf(call[c]).changes \in SUBSET Change
         /\ ~CascadeRedo(call[c]) =>
              PlanOf(call[c]).tree = PlanTree(history, source, call[c].op, call[c].dir,
                                              call[c].strategy, call[c].head,
                                              PlanOf(call[c]).conflicts)
         /\ call[c].strategy = "preserve" /\ PlanOf(call[c]).conflicts = {} =>
              KeepsLater(history, source, call[c].op, call[c].dir, call[c].head,
                         PlanOf(call[c]).tree)
<1> DEFINE k == call[c]
<1>1. k \in Call /\ CallOK(k, history, source, ticket)
  BY CallFacts
<1>2. k.op \in Ops /\ source[k.op] # 0 /\ k.head \in 1 .. Top /\ Earned(k.op, k.state, history)
      /\ (CascadeRedo(k) => k.state.preCascade # 0)
  BY <1>1 DEF CallOK, Top
<1>3. CascadeRedo(k) => k.state.preCascade \in 1 .. Top
  <2>1. k.state.preCascade \in Int
    BY <1>1, BoundsAssumption DEF Call, State, Commits
  <2>2. Top \in Nat
    BY Typed DEF VInv
  <2>3. QED
    BY <1>2, <2>1, <2>2 DEF Earned, Top
<1>4. VTypeOK /\ JournalOK(source, history)
  BY DEF VInv, BranchInv
<1> HIDE DEF k
<1>5. /\ PlanOf(k).tree \in Tree
      /\ PlanOf(k).conflicts \in SUBSET Paths
      /\ PlanOf(k).changes \in SUBSET Change
      /\ ~CascadeRedo(k) =>
           PlanOf(k).tree = PlanTree(history, source, k.op, k.dir, k.strategy, k.head,
                                     PlanOf(k).conflicts)
      /\ k.strategy = "preserve" /\ PlanOf(k).conflicts = {} =>
           KeepsLater(history, source, k.op, k.dir, k.head, PlanOf(k).tree)
  BY <1>1, <1>2, <1>3, <1>4, PlanIs
<1>6. QED
  BY <1>5 DEF k

LEMMA IssuePreviewStep ==
  ASSUME VInv, NEW c \in Calls, IssuePreview(c)
  PROVE  VInv'
<1> DEFINE k == call[c]
           plan == PlanOf(k)
           new == [state |-> "issued", op |-> k.op, dir |-> k.dir, strategy |-> k.strategy,
                   head |-> k.head, changes |-> plan.changes, conflicts |-> plan.conflicts,
                   shown |-> plan.tree]
<1>1. /\ k.task = "preview" /\ k.at = "stated"
      /\ ticket' = [ticket EXCEPT ![k.ticket] = new]
      /\ call' = [call EXCEPT ![c] = Idle]
      /\ UNCHANGED <<history, opsJournal, edits, states>>
  BY DEF IssuePreview
<1>2. k \in Call /\ CallOK(k, history, source, ticket) /\ call \in [Calls -> Call]
      /\ ticket[k.ticket].state = "free"
      /\ \A d \in Calls : call[d].task = "preview" /\ call[d].ticket = k.ticket => d = c
  BY <1>1, CallFacts
<1>3. k.ticket \in Tickets /\ k.op \in Ops /\ source[k.op] # 0 /\ k.head \in 1 .. Len(history)
  BY <1>1, <1>2 DEF CallOK
<1>4. /\ plan.tree \in Tree /\ plan.conflicts \in SUBSET Paths /\ plan.changes \in SUBSET Change
      /\ ~CascadeRedo(k) =>
           plan.tree = PlanTree(history, source, k.op, k.dir, k.strategy, k.head, plan.conflicts)
  BY <1>1, CallPlan
<1> HIDE DEF k, plan
<1>5. new \in Ticket
  BY <1>2, <1>3, <1>4 DEF Call, Ticket
<1>6. TicketOK(new, history, source)
  <2>1. /\ new.state = "issued" /\ new.op = k.op /\ new.dir = k.dir /\ new.strategy = k.strategy
        /\ new.head = k.head /\ new.conflicts = plan.conflicts /\ new.shown = plan.tree
    OBVIOUS
  <2> HIDE DEF new
  <2>2. QED
    BY <1>3, <1>4, <2>1 DEF TicketOK, CascadeRedo
<1> HIDE DEF new
<1>7. Idle \in Call /\ Idle.task = "none" /\ CallOK(Idle, history', source', ticket')
  BY IdleOK DEF VInv
<1>8. VTypeOK /\ ticket \in [Tickets -> Ticket]
  BY DEF VInv, VTypeOK
<1>9. /\ ticket'[k.ticket] = new /\ \A t \in Tickets : t # k.ticket => ticket'[t] = ticket[t]
      /\ call'[c] = Idle /\ \A d \in Calls : d # c => call'[d] = call[d]
  BY <1>1, <1>2, <1>3, <1>8
<1>10. VTypeOK'
  BY <1>1, <1>2, <1>3, <1>5, <1>7, <1>8 DEF VTypeOK, Top, opsJournal
<1>11. BranchInv'
  <2>1. /\ Grown(history, source, ticket, history', source', ticket')
        /\ JournalOK(source', history')
        /\ \A i \in 1 .. Len(history') : i \in 1 .. Len(history)
    BY <1>1, <1>2, <1>9, NothingGrows DEF opsJournal, TicketKept
  <2>2. \A t \in Tickets : ticket'[t] = ticket[t] \/ TicketOK(ticket'[t], history', source')
    BY <1>1, <1>6, <1>9 DEF opsJournal
  <2>3. \A d \in Calls : call'[d] = call[d] \/ CallOK(call'[d], history', source', ticket')
    BY <1>7, <1>9
  <2>4. states' = states
    BY <1>1
  <2>5. QED
    BY <2>1, <2>2, <2>3, <2>4, Preserve
<1>12. PreviewInv'
  <2> SUFFICES ASSUME NEW d \in Calls, call'[d].task = "preview"
               PROVE  /\ ticket'[call'[d].ticket].state = "free"
                      /\ \A e \in Calls : call'[e].task = "preview" /\ call'[e].ticket = call'[d].ticket
                                            => e = d
    BY DEF PreviewInv
  <2>1. d # c /\ call'[d] = call[d]
    BY <1>7, <1>9
  <2>2. /\ ticket[call[d].ticket].state = "free" /\ call[d].ticket \in Tickets
        /\ \A e \in Calls : call[e].task = "preview" /\ call[e].ticket = call[d].ticket => e = d
    BY <2>1, CallFacts DEF CallOK
  <2>3. call[d].ticket # k.ticket
    BY <1>2, <2>1
  <2>4. \A e \in Calls : call'[e].task = "preview" => call'[e] = call[e]
    BY <1>7, <1>9
  <2>5. QED
    BY <1>9, <2>1, <2>2, <2>3, <2>4
<1>13. QED
  BY <1>10, <1>11, <1>12 DEF VInv

LEMMA MarkTicketUsedStep ==
  ASSUME VInv, NEW c \in Calls, MarkTicketUsed(c)
  PROVE  VInv'
<1> DEFINE k == call[c]
           plan == PlanOf(k)
           m == [k EXCEPT !.at = "planned", !.tree = plan.tree]
           marked == [ticket[k.ticket] EXCEPT !.state = "used"]
<1>1. /\ k.task = "apply" /\ k.at = "stated"
      /\ Confirmed(k.ticket, k.head, plan)
      /\ ticket' = [ticket EXCEPT ![k.ticket] = marked]
      /\ call' = [call EXCEPT ![c] = m]
      /\ UNCHANGED <<history, opsJournal, edits, states>>
  BY DEF MarkTicketUsed
<1>2. k \in Call /\ CallOK(k, history, source, ticket) /\ call \in [Calls -> Call]
  BY CallFacts
<1>3. /\ k.ticket \in Tickets /\ k.op \in Ops /\ source[k.op] # 0 /\ k.head \in 1 .. Len(history)
      /\ ticket[k.ticket].state # "free" /\ k.op = ticket[k.ticket].op
      /\ k.dir = ticket[k.ticket].dir /\ k.strategy = ticket[k.ticket].strategy
      /\ Earned(k.op, k.state, history)
  BY <1>1, <1>2 DEF CallOK
<1>4. /\ plan.tree \in Tree
      /\ ~CascadeRedo(k) =>
           plan.tree = PlanTree(history, source, k.op, k.dir, k.strategy, k.head, plan.conflicts)
      /\ k.strategy = "preserve" /\ plan.conflicts = {} =>
           KeepsLater(history, source, k.op, k.dir, k.head, plan.tree)
  BY <1>1, CallPlan
<1>5. VTypeOK /\ ticket \in [Tickets -> Ticket] /\ ticket[k.ticket] \in Ticket
      /\ TicketOK(ticket[k.ticket], history, source)
  BY <1>3 DEF VInv, VTypeOK, BranchInv
<1> HIDE DEF k, plan
<1>6. k.head = ticket[k.ticket].head /\ plan.conflicts = ticket[k.ticket].conflicts /\ plan.conflicts = {}
  BY <1>1 DEF Confirmed
<1>7. ~CascadeRedo(k) => plan.tree = ticket[k.ticket].shown
  BY <1>3, <1>4, <1>5, <1>6 DEF TicketOK, CascadeRedo
<1>8. m \in Call /\ marked \in Ticket
  BY <1>2, <1>4, <1>5 DEF Call, Ticket
<1>9. /\ m.task = "apply" /\ m.at = "planned" /\ m.tree = plan.tree /\ m.head = k.head
      /\ m.op = k.op /\ m.ticket = k.ticket /\ m.dir = k.dir /\ m.strategy = k.strategy
      /\ m.state = k.state
  BY <1>1, <1>2 DEF Call
<1>10. TicketKept(ticket[k.ticket], marked) /\ marked.state # "free"
  BY <1>5 DEF TicketKept, Ticket
<1> HIDE DEF m, marked
<1>11. /\ ticket'[k.ticket] = marked /\ \A t \in Tickets : t # k.ticket => ticket'[t] = ticket[t]
       /\ call'[c] = m /\ \A d \in Calls : d # c => call'[d] = call[d]
  BY <1>1, <1>2, <1>3, <1>5
<1>12. CallOK(m, history', source', ticket')
  <2>1. history' = history /\ source' = source
    BY <1>1 DEF opsJournal
  <2>2. /\ marked.op = k.op /\ marked.dir = k.dir /\ marked.strategy = k.strategy
        /\ marked.head = k.head /\ marked.shown = ticket[k.ticket].shown
    BY <1>3, <1>6, <1>10 DEF TicketKept
  <2>3. CascadeRedo(m) <=> CascadeRedo(k)
    BY <1>9 DEF CascadeRedo
  <2>4. QED
    BY <1>3, <1>4, <1>6, <1>7, <1>9, <1>10, <1>11, <2>1, <2>2, <2>3 DEF CallOK
<1>13. VTypeOK'
  BY <1>1, <1>2, <1>3, <1>5, <1>8 DEF VTypeOK, Top, opsJournal
<1>14. BranchInv'
  <2>1. /\ Grown(history, source, ticket, history', source', ticket')
        /\ JournalOK(source', history')
        /\ \A i \in 1 .. Len(history') : i \in 1 .. Len(history)
    BY <1>1, <1>10, <1>11, NothingGrows DEF opsJournal, TicketKept
  <2>2. \A t \in Tickets : ticket[t].state = "free" => ticket'[t] = ticket[t]
    BY <1>3, <1>11
  <2>3. \A d \in Calls : call'[d] = call[d] \/ CallOK(call'[d], history', source', ticket')
    BY <1>11, <1>12
  <2>4. states' = states
    BY <1>1
  <2>5. QED
    BY <2>1, <2>2, <2>3, <2>4, Preserve
<1>15. PreviewInv'
  <2> SUFFICES ASSUME NEW d \in Calls, call'[d].task = "preview"
               PROVE  /\ ticket'[call'[d].ticket].state = "free"
                      /\ \A e \in Calls : call'[e].task = "preview" /\ call'[e].ticket = call'[d].ticket
                                            => e = d
    BY DEF PreviewInv
  <2>1. d # c /\ call'[d] = call[d]
    BY <1>9, <1>11
  <2>2. /\ ticket[call[d].ticket].state = "free" /\ call[d].ticket \in Tickets
        /\ \A e \in Calls : call[e].task = "preview" /\ call[e].ticket = call[d].ticket => e = d
    BY <2>1, CallFacts DEF CallOK
  <2>3. call[d].ticket # k.ticket
    BY <1>3, <2>2
  <2>4. \A e \in Calls : call'[e].task = "preview" => call'[e] = call[e]
    BY <1>9, <1>11
  <2>5. QED
    BY <1>11, <2>1, <2>2, <2>3, <2>4
<1>16. QED
  BY <1>13, <1>14, <1>15 DEF VInv

\* The branch grows by a commit.
LEMMA CommitGrows ==
  ASSUME VInv, NEW x \in Commit, history' = Append(history, x), Top < MaxCommits,
         \A o \in Ops : source[o] # 0 => source'[o] = source[o], JournalOK(source', history'),
         ticket' = ticket
  PROVE  /\ Grown(history, source, ticket, history', source', ticket')
         /\ history' \in Seq(Commit) /\ Top' \in 1 .. MaxCommits /\ Top' = Top + 1
         /\ history'[Top + 1] = x /\ \A i \in 1 .. Top : history'[i] = history[i]
         /\ \A i \in 1 .. Len(history') : i \in 1 .. Len(history) \/ i = Top + 1
<1>1. /\ history \in Seq(Commit) /\ Top \in Nat /\ Len(history) = Top /\ Top \in 1 .. MaxCommits
      /\ JournalOK(source, history)
  BY Typed DEF VInv, VTypeOK, BranchInv
<1>2. /\ history' \in Seq(Commit) /\ Len(history') = Top + 1
      /\ history'[Top + 1] = x /\ \A i \in 1 .. Top : history'[i] = history[i]
  BY <1>1
<1>3. Top' = Top + 1 /\ Top' \in 1 .. MaxCommits
  BY <1>1, <1>2, BoundsAssumption DEF Top
<1>4. Grown(history, source, ticket, history', source', ticket')
  BY <1>1, <1>2 DEF Grown, TicketKept
<1>5. \A i \in 1 .. Len(history') : i \in 1 .. Len(history) \/ i = Top + 1
  BY <1>1, <1>2
<1>6. QED
  BY <1>2, <1>3, <1>4, <1>5

LEMMA PublishStep ==
  ASSUME VInv, NEW c \in Calls, Publish(c)
  PROVE  VInv'
<1> DEFINE k == call[c]
           m == [k EXCEPT !.at = "published", !.tree = [p \in Paths |-> Missing]]
           x == Reversal(k)
<1>1. /\ k.at = "planned" /\ Top = k.head /\ Top < MaxCommits
      /\ history' = Append(history, x)
      /\ call' = [call EXCEPT ![c] = m]
      /\ UNCHANGED <<opsJournal, edits, states, ticket>>
  BY DEF Publish
<1>2. k \in Call /\ CallOK(k, history, source, ticket) /\ call \in [Calls -> Call]
  BY CallFacts
<1>3. /\ k.task = "apply" /\ k.ticket \in Tickets /\ k.op \in Ops /\ source[k.op] # 0
      /\ k.head \in 1 .. Len(history)
      /\ ticket[k.ticket].state # "free" /\ k.op = ticket[k.ticket].op
      /\ k.dir = ticket[k.ticket].dir /\ k.strategy = ticket[k.ticket].strategy
      /\ k.head = ticket[k.ticket].head
      /\ ~CascadeRedo(k) => k.tree = ticket[k.ticket].shown
      /\ k.strategy = "preserve" => KeepsLater(history, source, k.op, k.dir, k.head, k.tree)
      /\ k.state \in State /\ Earned(k.op, k.state, history)
  BY <1>1, <1>2 DEF CallOK, Call
<1>4. VTypeOK /\ JournalOK(source, history) /\ Top \in Nat /\ Len(history) = Top /\ Top \in 1 .. MaxCommits
  BY Typed DEF VInv, BranchInv
<1> HIDE DEF k
<1>5. x \in Commit
  <2>1. (k.strategy # "cascade") \in BOOLEAN
    OBVIOUS
  <2>2. QED
    BY <1>2, <2>1 DEF Reversal, Commit, Call
<1>6. /\ x.tree = k.tree /\ x.op = k.op /\ x.dir = k.dir /\ x.strategy = k.strategy
      /\ x.ticket = k.ticket
  BY DEF Reversal
<1>7. m \in Call
  <2>1. [p \in Paths |-> Missing] \in Tree
    BY BoundsAssumption DEF Tree, File, Missing, Commits
  <2>2. QED
    BY <1>2, <2>1 DEF Call
<1>8. /\ m.task = "apply" /\ m.at = "published" /\ m.head = k.head
      /\ m.op = k.op /\ m.ticket = k.ticket /\ m.dir = k.dir /\ m.strategy = k.strategy
      /\ m.state = k.state
  BY <1>2, <1>3 DEF Call
<1> HIDE DEF m, x
<1>9. source' = source /\ JournalOK(source', history') /\ ticket' = ticket /\ states' = states
  BY <1>1, <1>4 DEF opsJournal, JournalOK, VTypeOK
<1>10. /\ Grown(history, source, ticket, history', source', ticket')
       /\ history' \in Seq(Commit) /\ Top' \in 1 .. MaxCommits /\ Top' = Top + 1
       /\ history'[Top + 1] = x /\ \A i \in 1 .. Top : history'[i] = history[i]
       /\ \A i \in 1 .. Len(history') : i \in 1 .. Len(history) \/ i = Top + 1
  BY <1>1, <1>5, <1>9, CommitGrows
<1>11. call'[c] = m /\ \A d \in Calls : d # c => call'[d] = call[d]
  BY <1>1, <1>2
<1>12. CallOK(m, history', source', ticket')
  <2>1. Earned(k.op, k.state, history')
    BY <1>3, <1>10, EarnedStays
  <2>2. m.head \in 1 .. Len(history') - 1 /\ m.head \in 1 .. Len(history') /\ m.head + 1 = Top + 1
    BY <1>1, <1>4, <1>8, <1>10 DEF Top
  <2>3. QED
    BY <1>3, <1>6, <1>8, <1>9, <1>10, <2>1, <2>2 DEF CallOK
<1>13. CommitOK(Top + 1, history', source', ticket')
  <2>1. CascadeRedo(x) <=> CascadeRedo(k)
    BY <1>6 DEF CascadeRedo
  <2>2. k.strategy = "preserve" => KeepsLater(history', source', k.op, k.dir, k.head, k.tree)
    BY <1>3, <1>10, KeepsLaterStays
  <2>3. Top + 1 > 1 /\ (Top + 1) - 1 = k.head
    BY <1>1, <1>4
  <2>4. QED
    <3>1. history'[Top + 1].guarded => Top + 1 > 1
      BY <2>3
    <3>2. history'[Top + 1].op # NoOp =>
            /\ Top + 1 > 1 /\ history'[Top + 1].ticket \in Tickets
            /\ history'[Top + 1].op \in Ops /\ source'[history'[Top + 1].op] # 0
            /\ ticket'[history'[Top + 1].ticket].state # "free"
            /\ Top + 1 = ticket'[history'[Top + 1].ticket].head + 1
            /\ ~CascadeRedo(history'[Top + 1]) =>
                 history'[Top + 1].tree = ticket'[history'[Top + 1].ticket].shown
            /\ history'[Top + 1].strategy = "preserve" =>
                 KeepsLater(history', source', history'[Top + 1].op, history'[Top + 1].dir,
                            (Top + 1) - 1, history'[Top + 1].tree)
      BY <1>1, <1>3, <1>6, <1>9, <1>10, <2>1, <2>2, <2>3
    <3>3. QED
      BY <3>1, <3>2 DEF CommitOK
<1>14. VTypeOK'
  BY <1>1, <1>2, <1>4, <1>7, <1>10 DEF VTypeOK, opsJournal
<1>15. BranchInv'
  <2>1. \A i \in 1 .. Len(history') : i \in 1 .. Len(history) \/ CommitOK(i, history', source', ticket')
    BY <1>10, <1>13
  <2>2. \A d \in Calls : call'[d] = call[d] \/ CallOK(call'[d], history', source', ticket')
    BY <1>11, <1>12
  <2>3. QED
    BY <1>9, <1>10, <2>1, <2>2, Preserve
<1>16. PreviewInv'
  BY <1>8, <1>9, <1>11 DEF VInv, PreviewInv
<1>17. QED
  BY <1>14, <1>15, <1>16 DEF VInv

LEMMA SaveStatesStep ==
  ASSUME VInv, NEW c \in Calls, SaveStates(c)
  PROVE  VInv'
<1> DEFINE k == call[c]
           patch == Patch(k)
<1>1. /\ k.at = "loaded"
      /\ states' = [k.loaded EXCEPT ![k.op] = patch]
      /\ call' = [call EXCEPT ![c] = Idle]
      /\ UNCHANGED <<history, opsJournal, edits, ticket>>
  BY DEF SaveStates
<1>2. k \in Call /\ CallOK(k, history, source, ticket) /\ call \in [Calls -> Call]
  BY CallFacts
<1>3. /\ k.op \in Ops /\ Earned(k.op, k.state, history)
      /\ k.head \in 1 .. Len(history) - 1 /\ history[k.head + 1].op = k.op
      /\ history[k.head + 1].dir = k.dir /\ history[k.head + 1].strategy = k.strategy
      /\ \A o \in Ops : Earned(o, k.loaded[o], history)
  BY <1>1, <1>2 DEF CallOK
<1>4. VTypeOK /\ Len(history) \in Nat
  BY Typed DEF VInv
<1>5. /\ k.loaded \in [Ops -> State] /\ k.state \in State /\ k.head \in Commits
      /\ k.dir \in Directions /\ k.strategy \in Strategies /\ k.since \in -1 .. MaxEdits
  BY <1>2, BoundsAssumption DEF Call
<1> HIDE DEF k
<1>6. /\ patch.last = k.dir /\ patch.strategy = k.strategy /\ patch.since = k.since
      /\ patch.preCascade = IF k.dir = "undo" /\ k.strategy = "cascade" THEN k.head
                            ELSE k.state.preCascade
  BY DEF Patch
<1>7. patch \in State
  <2>1. (IF k.dir = "undo" /\ k.strategy = "cascade" THEN k.head ELSE k.state.preCascade) \in Commits
    BY <1>5 DEF State
  <2>2. QED
    BY <1>5, <2>1 DEF Patch, State
<1> HIDE DEF patch
<1>8. Earned(k.op, patch, history)
  <2>1. k.head + 1 \in 1 .. Len(history)
    BY <1>3, <1>4
  <2>2. \E i \in 1 .. Len(history) :
          history[i].op = k.op /\ history[i].dir = patch.last /\ history[i].strategy = patch.strategy
    BY <1>3, <1>6, <2>1
  <2>3. CASE k.dir = "undo" /\ k.strategy = "cascade"
    BY <1>3, <1>6, <2>2, <2>3 DEF Earned
  <2>4. CASE ~(k.dir = "undo" /\ k.strategy = "cascade")
    BY <1>3, <1>6, <2>2, <2>4 DEF Earned
  <2>5. QED
    BY <2>3, <2>4
<1>9. /\ states' \in [Ops -> State] /\ \A o \in Ops : Earned(o, states'[o], history')
  BY <1>1, <1>3, <1>5, <1>7, <1>8
<1>10. Idle \in Call /\ Idle.task = "none" /\ CallOK(Idle, history', source', ticket')
  BY <1>4, IdleOK
<1>11. call'[c] = Idle /\ \A d \in Calls : d # c => call'[d] = call[d]
  BY <1>1, <1>2
<1>12. VTypeOK'
  BY <1>1, <1>2, <1>4, <1>9, <1>10 DEF VTypeOK, Top, opsJournal
<1>13. BranchInv'
  <2>1. /\ Grown(history, source, ticket, history', source', ticket')
        /\ JournalOK(source', history')
        /\ \A i \in 1 .. Len(history') : i \in 1 .. Len(history)
    BY <1>1, NothingGrows DEF opsJournal, TicketKept
  <2>2. \A d \in Calls : call'[d] = call[d] \/ CallOK(call'[d], history', source', ticket')
    BY <1>10, <1>11
  <2>3. QED
    BY <1>1, <1>9, <2>1, <2>2, Preserve
<1>14. PreviewInv'
  BY <1>1, <1>10, <1>11 DEF VInv, PreviewInv
<1>15. QED
  BY <1>12, <1>13, <1>14 DEF VInv

LEMMA PlainTyped ==
  ASSUME NEW tree \in Tree, NEW guarded \in BOOLEAN
  PROVE  Plain(tree, guarded) \in Commit /\ Plain(tree, guarded).op = NoOp
BY DEF Plain, Commit

LEMMA WrittenTyped ==
  ASSUME VTypeOK, NEW p \in Paths, NEW R, Top < MaxCommits
  PROVE  Written(p, R) \in Tree
<1> DEFINE old == TreeAt(Top)
           f == IF R = {} THEN Missing
                ELSE [r \in Regions |-> IF r \in R \/ ~Exists(old[p]) THEN Top + 1 ELSE old[p][r]]
<1>1. old \in Tree /\ Top \in Nat
  BY Typed
<1>2. Top + 1 \in Commits /\ 0 \in Commits
  BY <1>1, BoundsAssumption DEF Commits
<1>3. old[p] \in File
  BY <1>1 DEF Tree
<1>4. f \in File
  BY <1>2, <1>3 DEF File, Missing
<1>5. Written(p, R) = [old EXCEPT ![p] = f]
  BY DEF Written
<1>6. QED
  BY <1>1, <1>4, <1>5 DEF Tree

\* Commits that are no reversal: of the agent, of people, of a rollback.
LEMMA PlainStep ==
  ASSUME VInv, NEW tree \in Tree, NEW guarded \in BOOLEAN, Top < MaxCommits,
         history' = Append(history, Plain(tree, guarded)),
         \A o \in Ops : source[o] # 0 => source'[o] = source[o],
         \A o \in Ops : source'[o] = source[o] \/ source'[o] = Top + 1,
         source' \in [Ops -> Commits], finished' \in [Ops -> 0 .. MaxEdits],
         UNCHANGED <<edits, states, ticket, call>>
  PROVE  VInv'
<1> DEFINE x == Plain(tree, guarded)
<1>1. x \in Commit /\ x.op = NoOp
  BY PlainTyped
<1> HIDE DEF x
<1>2. VTypeOK /\ JournalOK(source, history) /\ Top \in Nat /\ Len(history) = Top /\ Top \in 1 .. MaxCommits
  BY Typed DEF VInv, BranchInv
<1>3. history' = Append(history, x)
  BY DEF x
<1>4. Len(history') = Top + 1
  BY <1>1, <1>2, <1>3 DEF VTypeOK
<1>5. JournalOK(source', history')
  BY <1>2, <1>4 DEF JournalOK
<1>6. /\ Grown(history, source, ticket, history', source', ticket')
      /\ history' \in Seq(Commit) /\ Top' \in 1 .. MaxCommits /\ Top' = Top + 1
      /\ history'[Top + 1] = x
      /\ \A i \in 1 .. Len(history') : i \in 1 .. Len(history) \/ i = Top + 1
  BY <1>1, <1>3, <1>5, CommitGrows
<1>7. CommitOK(Top + 1, history', source', ticket')
  BY <1>1, <1>2, <1>6 DEF CommitOK
<1>8. VTypeOK'
  BY <1>2, <1>6 DEF VTypeOK
<1>9. BranchInv'
  <2>1. \A i \in 1 .. Len(history') : i \in 1 .. Len(history) \/ CommitOK(i, history', source', ticket')
    BY <1>6, <1>7
  <2>2. QED
    BY <1>5, <1>6, <2>1, Preserve
<1>10. PreviewInv'
  BY DEF VInv, PreviewInv
<1>11. QED
  BY <1>8, <1>9, <1>10 DEF VInv

LEMMA WriterKeeps ==
  ASSUME VInv, NEW p \in Paths, WriterStep(p)
  PROVE  VInv'
<1>1. VTypeOK /\ Top \in Nat /\ Top \in 1 .. MaxCommits /\ Len(edits) \in 0 .. MaxEdits
  BY Typed DEF VInv
<1>2. ASSUME NEW R \in SUBSET Regions, NEW o \in Ops, AgentCommit(o, p, R)
      PROVE  VInv'
  <2>1. Top + 1 \in Commits /\ Written(p, R) \in Tree
    BY <1>1, <1>2, WrittenTyped, BoundsAssumption DEF AgentCommit, Commits
  <2>2. source' \in [Ops -> Commits] /\ finished' \in [Ops -> 0 .. MaxEdits]
    BY <1>1, <1>2, <2>1 DEF AgentCommit, VTypeOK
  <2>3. /\ \A q \in Ops : source[q] # 0 => source'[q] = source[q]
        /\ \A q \in Ops : source'[q] = source[q] \/ source'[q] = Top + 1
    BY <1>1, <1>2 DEF AgentCommit, VTypeOK
  <2>4. QED
    BY <1>2, <2>1, <2>2, <2>3, PlainStep DEF AgentCommit
<1>3. ASSUME NEW R \in SUBSET Regions, HumanPush(p, R)
      PROVE  VInv'
  <2>1. Written(p, R) \in Tree
    BY <1>1, <1>3, WrittenTyped DEF HumanPush
  <2>2. QED
    BY <1>1, <1>3, <2>1, PlainStep DEF HumanPush, opsJournal, VTypeOK
<1>4. ASSUME HumanEditObserved(p)
      PROVE  VInv'
  <2>1. edits' \in Seq(Paths) /\ Len(edits') <= MaxEdits
    BY <1>1, <1>4, BoundsAssumption DEF HumanEditObserved, VTypeOK
  <2>2. VTypeOK'
    BY <1>1, <1>4, <2>1 DEF HumanEditObserved, VTypeOK, Top, opsJournal
  <2>3. BranchInv' /\ PreviewInv'
    BY <1>4 DEF HumanEditObserved, opsJournal, VInv, BranchInv, PreviewInv, Top
  <2>4. QED
    BY <2>2, <2>3 DEF VInv
<1>5. QED
  BY <1>2, <1>3, <1>4 DEF WriterStep

LEMMA RollbackKeeps ==
  ASSUME VInv, RollbackCheckpoint
  PROVE  VInv'
<1>1. VTypeOK /\ Top \in Nat /\ Top \in 1 .. MaxCommits
  BY Typed DEF VInv
<1>2. Top > 1
  BY <1>1 DEF RollbackCheckpoint, VInv, BranchInv, CommitOK
<1>3. TreeAt(Top - 1) \in Tree
  BY <1>1, <1>2, Typed
<1>4. QED
  BY <1>1, <1>3, PlainStep DEF RollbackCheckpoint, opsJournal, VTypeOK

(***************************************************************************)
(* The invariant                                                           *)
(***************************************************************************)
LEMMA InitOK == VInit => VInv
<1> SUFFICES ASSUME VInit
             PROVE  VInv
  OBVIOUS
<1> DEFINE tree == [p \in Paths |-> [r \in Regions |-> 1]]
<1>1. 0 \in Commits /\ 1 \in Commits /\ 1 \in 1 .. MaxCommits /\ 0 \in 0 .. MaxEdits
  BY BoundsAssumption DEF Commits
<1>2. tree \in Tree
  BY <1>1 DEF Tree, File
<1> DEFINE first == Plain(tree, FALSE)
<1>3. first \in Commit /\ first.op = NoOp /\ first.guarded = FALSE
  BY <1>2, PlainTyped DEF Plain
<1>4. history = <<first>>
  BY DEF VInit
<1> HIDE DEF tree, first
<1>5. history \in Seq(Commit) /\ Len(history) = 1 /\ history[1] = first
  BY <1>3, <1>4
<1>6. NoState \in State /\ NoState.last = "none" /\ NoState.preCascade = 0
  BY <1>1, BoundsAssumption DEF NoState, State
<1>7. FreeTicket \in Ticket /\ FreeTicket.state = "free"
  <2>1. [p \in Paths |-> Missing] \in Tree
    BY <1>1 DEF Tree, File, Missing
  <2>2. QED
    BY <1>1, <2>1 DEF FreeTicket, Ticket, Directions, Strategies
<1>8. /\ edits = <<>> /\ source = [o \in Ops |-> 0] /\ finished = [o \in Ops |-> 0]
      /\ states = [o \in Ops |-> NoState] /\ ticket = [t \in Tickets |-> FreeTicket]
      /\ call = [c \in Calls |-> Idle]
  BY DEF VInit
<1>9. Idle \in Call
  <2>1. [p \in Paths |-> Missing] \in Tree
    BY <1>1 DEF Tree, File, Missing
  <2>2. [x \in Ops |-> NoState] \in [Ops -> State]
    BY <1>6
  <2>3. QED
    BY <1>1, <1>6, <2>1, <2>2 DEF Idle, Started, Call, Directions, Strategies
<1>10. VTypeOK
  <2>1. edits \in Seq(Paths) /\ Len(edits) <= MaxEdits
    BY <1>8, BoundsAssumption
  <2>2. QED
    BY <1>1, <1>5, <1>6, <1>7, <1>8, <1>9, <2>1 DEF VTypeOK, Top
<1>11. Idle.task = "none" /\ \A c \in Calls : CallOK(call[c], history, source, ticket)
  BY <1>8, <1>10, IdleOK
<1>12. BranchInv
  <2>1. JournalOK(source, history)
    BY <1>8 DEF JournalOK
  <2>2. \A t \in Tickets : TicketOK(ticket[t], history, source)
    BY <1>7, <1>8 DEF TicketOK
  <2>3. \A i \in 1 .. Top : CommitOK(i, history, source, ticket)
    <3>1. CommitOK(1, history, source, ticket)
      BY <1>3, <1>5 DEF CommitOK
    <3>2. \A i \in 1 .. Top : i = 1
      BY <1>5 DEF Top
    <3>3. QED
      BY <3>1, <3>2
  <2>4. \A o \in Ops : Earned(o, states[o], history)
    BY <1>6, <1>8 DEF Earned
  <2>5. QED
    BY <1>11, <2>1, <2>2, <2>3, <2>4 DEF BranchInv
<1>13. PreviewInv
  BY <1>8, <1>11 DEF PreviewInv
<1>14. QED
  BY <1>10, <1>12, <1>13 DEF VInv

LEMMA StepKeeps == VInv /\ [VNext]_reversalVars => VInv'
<1> SUFFICES ASSUME VInv, [VNext]_reversalVars
             PROVE  VInv'
  OBVIOUS
<1>1. ASSUME NEW c \in Calls, RequestStep(c)
      PROVE  VInv'
  <2>1. CASE \E t \in Tickets, o \in Ops, dir \in Directions, strategy \in Strategies :
               Preview(c, t, o, dir, strategy)
    BY <2>1, PreviewStep
  <2>2. CASE \E t \in Tickets : Apply(c, t)
    BY <2>2, ApplyStep
  <2>3. CASE ReadHead(c)
    BY <2>3, ReadHeadStep
  <2>4. CASE ReadState(c)
    BY <2>4, ReadStateStep
  <2>5. CASE IssuePreview(c)
    BY <2>5, IssuePreviewStep
  <2>6. CASE MarkTicketUsed(c)
    BY <2>6, MarkTicketUsedStep
  <2>7. CASE Publish(c)
    BY <2>7, PublishStep
  <2>8. CASE LoadStates(c)
    BY <2>8, LoadStatesStep
  <2>9. CASE SaveStates(c)
    BY <2>9, SaveStatesStep
  <2>10. CASE CallFails(c)
    BY <2>10, CallFailsStep
  <2>11. QED
    BY <1>1, <2>1, <2>2, <2>3, <2>4, <2>5, <2>6, <2>7, <2>8, <2>9, <2>10 DEF RequestStep
<1>2. CASE UNCHANGED reversalVars
  <2>1. VTypeOK'
    BY <1>2 DEF VInv, VTypeOK, Top, reversalVars, opsJournal
  <2>2. BranchInv' /\ PreviewInv'
    BY <1>2 DEF VInv, BranchInv, PreviewInv, Top, reversalVars, opsJournal
  <2>3. QED
    BY <2>1, <2>2 DEF VInv
<1>3. QED
  BY <1>1, <1>2, WriterKeeps, RollbackKeeps DEF VNext

LEMMA Invariance == VSpec => []VInv
<1>1. QED
  BY InitOK, StepKeeps, PTL DEF VSpec

(***************************************************************************)
(* Theorems                                                                *)
(***************************************************************************)
\* The branch, the journal, the stored states, the tickets and the requests keep the shapes
\* the runtime writes, always.
THEOREM ReversalTypes == VSpec => []VTypeOK
<1>1. VInv => VTypeOK
  BY DEF VInv
<1>2. QED
  BY <1>1, Invariance, PTL

\* What was previewed is what is committed: applyPreview() publishes the tree the confirmed
\* preview showed, whoever else writes to the branch.
THEOREM PreviewIsKept == VSpec => []ConfirmedIsApplied
<1>1. VInv => ConfirmedIsApplied
  BY DEF VInv, BranchInv, CommitOK, CascadeRedo, ConfirmedIsApplied, Reversals, TreeAt
<1>2. QED
  BY <1>1, Invariance, PTL

\* A confirmed ticket makes one commit, however many requests present it at once.
THEOREM TicketsAreSpentOnce == VSpec => []OneCommitPerConfirmation
<1>1. VInv => OneCommitPerConfirmation
  <2> SUFFICES ASSUME VInv, NEW i \in Reversals, NEW j \in Reversals,
                      history[i].ticket = history[j].ticket
               PROVE  i = j
    BY DEF OneCommitPerConfirmation
  <2>1. i = ticket[history[i].ticket].head + 1 /\ j = ticket[history[j].ticket].head + 1
    BY DEF VInv, BranchInv, CommitOK, Reversals
  <2>2. QED
    BY <2>1
<1>2. QED
  BY <1>1, Invariance, PTL

\* The "preserve" strategy of planFileReversal() replaces only text of the operation itself.
THEOREM LaterWorkStays == VSpec => []LaterWorkIsKept
<1>1. VInv => LaterWorkIsKept
  <2> SUFFICES ASSUME VInv, NEW i \in Reversals, history[i].strategy = "preserve",
                      NEW p \in Paths, NEW r \in Regions,
                      TreeAt(i)[p][r] # TreeAt(i - 1)[p][r]
               PROVE  TreeAt(i - 1)[p][r] = From(history[i].op, history[i].dir)[p][r]
    BY DEF LaterWorkIsKept
  <2>1. KeepsLater(history, source, history[i].op, history[i].dir, i - 1, history[i].tree)
    BY DEF VInv, BranchInv, CommitOK, Reversals
  <2>2. From(history[i].op, history[i].dir) = Left(history, source, history[i].op, history[i].dir)
    BY DEF From, Left, TreeAt
  <2>3. QED
    BY <2>1, <2>2 DEF KeepsLater, TreeAt
<1>2. QED
  BY <1>1, Invariance, PTL

\* saveState() stores nothing that did not happen on the branch, although it writes back the
\* states of all operations as it loaded them.
THEOREM StatesAreEarned == VSpec => []StateIsEarned
<1>1. VInv => StateIsEarned
  <2> SUFFICES ASSUME VInv, NEW o \in Ops
               PROVE  /\ states[o].last # "none" =>
                           \E i \in Reversals :
                             /\ history[i].op = o /\ history[i].dir = states[o].last
                             /\ history[i].strategy = states[o].strategy
                      /\ states[o].preCascade # 0 =>
                           /\ states[o].preCascade < Top
                           /\ history[states[o].preCascade + 1].op = o
                           /\ history[states[o].preCascade + 1].dir = "undo"
                           /\ history[states[o].preCascade + 1].strategy = "cascade"
    BY DEF StateIsEarned
  <2>1. Earned(o, states[o], history) /\ o # NoOp /\ Top \in Nat
    BY Typed, NamesAssumption DEF VInv, BranchInv
  <2>2. states[o].preCascade \in Int
    BY Typed, BoundsAssumption DEF VInv, State, Commits
  <2>3. QED
    BY <2>1, <2>2 DEF Earned, Reversals, Top
<1>2. QED
  BY <1>1, Invariance, PTL
=============================================================================
