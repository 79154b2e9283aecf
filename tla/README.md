# Formal models of the GITHUB DECRYPTER local runtime

This directory holds TLA+ models of the local runtime (`src/apps/local`), the TLC
configurations that check them, and proofs that TLAPS checks. The runtime is a
single-process daemon over one SQLite database. It keeps durable jobs, survives
crashes, holds work back while there is no network, controls what a running job
may do, says who changed a workspace, keeps secrets, and guards all this with a lock
file. Those parts are modelled, and with them the Smart Undo / Redo of the browser extension,
which shares a branch with people. The repository also holds many pure record
constructors and several user interfaces, which are listed under
[Not modelled](#7-not-modelled-and-why).

1. [The system](#1-the-system)
2. [Modules](#2-modules)
3. [How state and actions correspond to the code](#3-how-state-and-actions-correspond-to-the-code)
4. [Runs](#4-runs)
5. [Proofs](#5-proofs)
6. [Disagreements between code and documents](#6-disagreements-between-code-and-documents)
7. [Not modelled, and why](#7-not-modelled-and-why)
8. [Plan](#8-plan)

## 1. The system

The daemon (`daemon.ts`) takes an instance lock, opens the database and initialises
its components in a fixed order; `stop()` takes them down in the reverse order. The
components share one database connection and one event bus. A database transaction is
a synchronous function on that connection, so **transactions never interleave**.
Everything else is `async`: most operations are a transaction followed by awaited
publications, and several are two or three transactions with awaits in between.
Concurrency bugs here are therefore about what happens *between* transactions: another
call runs, the process dies, or an error is thrown.

| Component | State it keeps | Operations | Hard behaviour | What makes it correct |
|---|---|---|---|---|
| Durable Job Engine `job-engine.ts` | `gd_jobs`, `gd_job_dependencies`, `gd_job_transitions` | enqueue, add a dependency, claim, heartbeat, checkpoint, wait, complete, fail, acknowledge pause/cancel, request pause/cancel, resume, retry, skip, set priority | workers that act on a lease they lost; requests that cross attempts; edges added one at a time | one fenced owner; attempts within the budget; acyclic graph; prerequisites stay settled; checkpoints never regress |
| Jobs Center `jobs-center.ts` | none | control a job from the user interface | any order, at any time | every step is one of the engine's |
| Crash & Power Recovery `recovery-engine.ts` | `gd_runtime_sessions`, `#sessionId`, `#lastError`, `#sweepInFlight` | start session, sweep expired leases, recover all running, stop session | crash between any two transactions of a start or stop; transactions that throw; sweep racing a late worker | nothing of an earlier run is running once the daemon serves; session records tell the truth; interrupted work comes back |
| Offline Execution `offline-execution.ts` | `gd_connectivity_state`, `gd_job_network_requirements` | set connectivity, declare/clear a network requirement, wait for the network, reconcile, claim | lists worked off across awaits; two transactions that belong together | settled jobs stay settled; waits end when the network is back; running work is not disturbed |
| Capability Security `capability-security.ts` | `gd_capability_grants`, `#ready`, process instance id | issue, authorise, revoke one / a job's / all of the process | revocations racing across awaits; restart | grants never outlive their process |
| Approval Transactions `approval-transactions.ts` | `gd_approval_transactions` | request, approve, deny, cancel, consume, expire | expiry between decision and use; retries of a used receipt | one approval, one use |
| Audit Ledger `audit-ledger.ts` | `gd_audit_entries` (hash chain), subscriptions | append on security events, verify | entries are written *after* the transaction by an event handler | no entry is repeated or invented |
| Secrets Vault `secrets-vault.ts`, `vault-key-store.ts` | the key file, `gd_vault_metadata`, `gd_vault_secrets`, keys in memory | open, put, read, delete secrets under a capability, shut down | authorise, await, then act on keys that may be gone; a key file that is lost, cut or replaced | what is stored can be read as long as the vault serves |
| GitHub App `github-app-runtime.ts` | `gd_github_app_config`, two secrets in the vault | configure | three transactions with awaits in between | a configured App has its secrets; they are of one App unless writers overlapped |
| Change Tracking `change-tracker.ts` | `gd_change_sessions`, `gd_change_path_events` | begin/complete/cancel an AI session, observe human changes, invalidate sessions at start and stop | calls that check, capture the workspace across awaits, and then write; two of them overlapping; a restart under them | one active session; unknown stays unknown; what the agent wrote is not called human |
| Instance lock `instance-lock.ts` | a lock file | acquire, remove a stale file, release | two processes meeting one file, at any system call | who believes to hold the lock is named by the file |
| Daemon `daemon.ts`, `lifecycle.ts` | lifecycle state, lock, database, server | start, stop | `stop()` while `start()` awaits; a component that throws | running means all resources, stopped means none; every call ends |
| Event Bus `packages/shared/src/event-bus.ts` | subscriptions | subscribe, once, unsubscribe, clear, publish | handlers that subscribe, unsubscribe or publish during delivery, and that throw | once is once; a publication reaches all it found, and nobody else |
| Reversible operations of the extension `background/reversible-operations-runtime.js`, `core/reversible-operations.js` | `ld66_reversal_state_v1`, tickets, the branch | preview, apply an undo or redo, roll a checkpoint back | two requests and other writers between the reads, the commit and the save; a service worker that dies | what was previewed is what is committed, once, over nobody's later work |

How the components interact:

- Jobs Center, Offline Execution and workers *call* the engine. Recovery does not: its
  SQL writes `gd_jobs` *directly*, and so does the parking of Offline Execution
  (`#parkQueuedNetworkJobs`). Hence modules built over the job rows rather than over
  the engine's interface.
- Capability Security and Approval Transactions *read* the state of a job to decide
  whether it may hold a grant or an approval.
- Capability Security, Approvals and the Vault *publish* on the event bus; the ledger
  *subscribes*. A handler that throws is counted by the bus and otherwise ignored.

`PROJECT.json` lists every component with its status, and every hazard of this code at
the line where it bites with the properties that cover it.

## 2. Modules

```
WorkQueue                     what the job tables promise (abstract)
   ^ implemented by
DurableJobs                   the engine                     <- DurableJobsProofs
   ^ extended by
RecoveryPolicy                what #recover does to a row
   ^ extended by
   +-- CrashRecovery          sessions, start, sweep, stop   <- CoordinatorProofs
   +-- OfflineExecution       connectivity, parking, waits   <- CoordinatorProofs

Warrants                      what grants and approvals promise (abstract)
   ^ implemented by
Authority                     grants, approvals, ledger      <- AuthorityProofs
ChangeTracking                who wrote what                 <- ChangeTrackingProofs
RuntimeLifecycle              lock file, start(), stop()     <- RuntimeLifecycleProofs
EventBus                      delivery                       <- EventBusProofs
SecretsVault                  keys, put, delete
   ^ extended by
GitHubApp                     configure() over the vault     <- GitHubAppProofs
ReversibleOperations          undo and redo on a branch      <- ReversibleOperationsProofs
```

`MC*.tla` name the symmetry sets; each `MC*.cfg` is one run. An operator preceded by a
comment starting with "Mutant" is a deliberately wrong variant of the definition that
follows it: `PROJECT.json` pairs each with a property that must fail when the variant is
put in its place. No specification uses them.

## 3. How state and actions correspond to the code

`map` in `PROJECT.json` gives the source lines of every definition.

### DurableJobs

`job`, `deps` and `issued` are the rows of `gd_jobs`, those of `gd_job_dependencies` and
the number of lease tokens ever drawn for each job. Each public method of
`DurableJobEngine` is one transaction and one action of the same name. Its guard is what
the method checks before, or in, its `UPDATE`; a call that throws changes nothing and
is not a step.

- A **lease token** is a fresh uuid in the code and the ordinal of its claim here. A
  worker step takes *any* token ever drawn, so stale workers are always there.
- **Checkpoints and results** are represented by the token that wrote them, which is what
  "a stale worker overwrote it" is about.
- **Time**: `available_at` and `lease_expires_at` are compared with the clock only, so each
  is the Boolean "has passed", made true by a clock step at any moment. `#requireLease`
  compares the token only; an expired lease is good until it is swept, and so it is here.
- `resume` and `retry` accept any `availableAt`, hence both values.
- Transition rows, payloads, reasons and worker names are left out. No guard reads them.

### RecoveryPolicy and CrashRecovery

`Recovered(r)` is the policy of `#recover` for one row, in its order: cancel if a cancel was
asked, pause if a pause was asked, requeue while attempts are left, otherwise fail. Start,
sweep and graceful hand-off share it.

`startSession()` is three transactions (open the session, recover, mark the earlier sessions)
and `stopSession()` two (hand off, mark clean); each is an action, and `Crash` or an engine
call may come in between. `phase` is how far that has come. `KeepSession` is the early return
of `startSession()` when a session id is already in memory, which a failed `stopSession()`
leaves behind in the process. `healthy` is `#lastError === null`, which decides whether the
daemon goes on starting. `sweeping` is a sweep that has committed and is still publishing:
its last statement resets `#lastError`. A crash loses `sessionId`, `priors`, `healthy` and
`sweeping` and keeps the database. `StartFails`, `SweepFails` and `StopFails` are the catch blocks: any
transaction of theirs may throw. `run`, `claimedIn` and `failures` are history variables.

Assumed: one daemon at a time uses the database. That is the instance lock's promise, and
`RuntimeLifecycle` says when it is kept.

### OfflineExecution

Each call of the coordinator is a record in `call`: the place in the code it has reached,
what is left of the list it is working off, what follows, and its argument. The list is read ordered by
`queue_order`, which is unique and never changes (`PlacesInv`, `LifeCycle`), so the set of what is left and `NextInQueue` say the same. A call is cut wherever it
awaits. Where two transactions follow each other *without* an await
(`Synchronous`), the call holds the thread: `Free` is false and only a crash comes in.
`waitsForNet` is a history variable: the jobs whose present wait was entered for the network.

Workers claim through the coordinator's `claimNext()`, not the engine's. The
lease clock is folded into the sweep: any running row may be recovered at any time, which is
more than the sweep can do.

### Authority

`grant` and `approval` are the two tables, `entries` counts the ledger's rows per event,
`pending` the publications not yet handled, `process` is the process instance id and
`stage` how far the daemon's start or stop has come. Every public operation is one
transaction and one `Publish`. `Deliver` and `LoseEntry` are the ledger's handler
succeeding and throwing. Making the publication a separate step allows more
interleavings than the code: a single publication follows its transaction with no await in
between, and the loops of `revokeJobGrants()` and `shutdown()` publish their rows in order,
with other callers running only while one of them is awaited. Safety is checked and proved over
the larger set. `HoldingOf` and `ConsentOf` map the rows to `Warrants`: a grant is *held* while its row is unrevoked and unexpired
and either Capability Security is ready, so that it would be honoured, or it is of this process, so that it would be after a start. The end of the process
therefore ends its grants, although their rows are revoked only by a later start, and that start must not make them honoured again. A grant issued while
`shutdown()` awaits its first publication is possible in the model as in the code (section 6).

Noted while translating, and kept in the model:

- `initialize()` revokes the grants of earlier processes without publishing, so the ledger has
  no entry for those revocations.
- A failed job that is retried regains the unrevoked grants and open approvals it had.
- A receipt is presented with the approval and payload it was drawn for: any other is
  rejected without effect, so those calls are not steps.

### ChangeTracking

One workspace. `file` is what each path shows, as the number of the write that made it; a
digest in the code is that number here, so two different contents never look alike. `latest`
is the newest row of `gd_change_path_events` for each path, which is all the code reads back,
and `session` the rows of `gd_change_sessions` with the baseline of an active one.

`observeHumanChanges()`, `beginAiChange()`, `completeAiChange()` and `cancelAiChange()`
have the same shape: they check the sessions (`StartCall`), await `git status` (`ListPaths`)
and one digest after the other (`TakeDigest`), and then, without a further await, read the
latest events and write in one transaction (`RecordHumanChanges`, `InsertSession`,
`EndSession`). What was checked is not checked again, except what the final
`INSERT` or `UPDATE` itself refuses: the unique index on active sessions and the state and
process of the session that ends. `Vanished` is the digest of a path that git listed and
that was clean when it was read. `CallFails` stands for every refusal (authorisation, job state,
baseline integrity, git). A call outlives `shutdown()`: it awaits git, finds the database open
again if the daemon was started anew in the same process, and goes on.

`touched` and `overlap` are history variables: the sessions whose agent wrote a dirty path, and
whether a capture was applied after a session began that its call had not seen. The agent
writes between the return of `beginAiChange()` and the call that ends the session.

### RuntimeLifecycle

Several processes of `cli.ts` on one machine: each calls `start()` once, and `stop()` once on its first
signal, at any moment after `start()` was called. The places in `start` and `stop` are the awaits of the two
methods, except in `acquireLocalRuntimeInstanceLock()`: it is synchronous for its own process, so `stop()`
waits (`InStop`), but each of its file-system calls (open, read, stat, unlink, open again, write) is
a step, as those of another process come in between. `lock` is the file: who made it, whether its
record has been written, and whether it is younger than the grace of 5 s. The components between database and server
are one that may fail; they have modules of their own.

### EventBus

`sub` is the map of subscriptions by id; a publication is a record with the snapshot it took
and the handler it awaits. From its start, or the end of a handler, until the next handler is called, the
publication holds the thread: one step. What a handler does to the bus (subscribe, unsubscribe, clear,
publish) is any other step taken before it ends. `calls`, `served` and `limit` are history.

### SecretsVault and GitHubApp

A master key is the ordinal of its drawing; what is encrypted is kept with the key and with the id it is bound
to, as the authenticated data of the cipher does it. `keyFile` is the file, `metadata` the fingerprint in the database, `keys` the two
keys derived from it in memory: three places that a crash, a person with a backup and a shutdown change independently (`ProcessDies`, `KeyFileChanges`,
`Shutdown`). `Initialize(k)` generates or reads the key and compares it with the fingerprint in one step, as the code does without an await.
A call is cut where it awaits its authorisation; the rest of `putSecret()`, from taking the keys to the `INSERT`, is `Store`.
A call outlives a shutdown and may go on after a new start of the same process.

`configure()` is a record in `call` that says which of its writes comes next. Between them `Refuse` may end it at any await, and
other configurations, puts and deletions come in. `removed`, `alone` and `whole` are history.

### ReversibleOperations

`history` is the branch: each commit with its tree and whether it left a checkpoint that
can be rolled back. A file is one value per region, the number of the commit that last wrote it, which is
what the three-way merge of the code tells apart: where the common beginning and end of two texts are
and whether the text between them is still the old one. A request is a record in `call` and is cut at each
await: head, stored states, plan; then ticket, commit, load, save. `Publish` is atomic
because the guarded commit names its parent and moves the branch without force. `SaveStates` writes
back *all* the states loaded before, as the code does. The reports of the editor
(`edits`) are dated by their position. Confirmations and expiry of tickets can only refuse a request
(`CallFails`).

## 4. Runs

All bounds are constants of the cfg or guards named `Max...`. Symmetry is used only in
runs that check no liveness, over ids that are never compared.

| Run | Instance | Shows |
|---|---|---|
| `jobs` | 2 jobs, 2 priorities, budgets 1 and 2 | every call in every order with stale tokens: fencing, budget, acyclic graph, settled prerequisites, requests not inherited, checkpoints kept, implements `WorkQueue` |
| `recovery` | 1 job, 3 runs of the daemon; one start, one sweep and one stop may throw; fairness | results come from the latest claim; session records are truthful; the daemon serves only after reconciling; lapsed leases and interrupted work are taken back |
| `offline` | 2 jobs, 1 call, 1 crash | settled jobs are never put back in the queue by a list that has gone stale; no call takes a running job from its worker |
| `offline_live` | 1 job, 1 call, no crash, fairness | waits for the network are marked, and end while it is up |
| `authority` | 1 job, 2 grants, 1 approval, 2 processes | restart fails closed; the ledger repeats and invents nothing; receipts are spent once; implements `Warrants` |
| `changes` | 1 path, 2 sessions, 2 calls, 2 writes, 2 processes | one active session; unknown is sticky; completed work is not reported as human as long as no call overlapped the beginning of a session |
| `runtime` | 2 processes, one of which may be killed, fairness | the holder is named by the lock file; resources follow the state; every call ends |
| `vault` | 2 calls, 2 secrets, 2 values, 3 ids, 3 keys | stored secrets stay readable; a configured App has its secrets; they are of one App unless writers overlapped |
| `eventbus` | 1 event and the wildcard, 2 publications, 4 subscriptions, limit 2 | once is once; nobody is left over; handlers are called while subscribed |
| `reversal` | 1 path of 2 regions, 1 operation, 2 tickets, 2 requests, 4 commits, 1 reported edit | the commit is the preview, one per confirmation, keeps later work; the stored state is earned |
| `changes_overlap`, `runtime_stop` | smallest instance that shows it | one violated property each, see section 6 |

**Why these bounds are enough.** *jobs*: two jobs are what a dependency, a cycle attempt and
a priority order need; longer cycles are covered by the proof of `NeverCyclic` for any finite set
of jobs. A budget of two gives a stale and a current lease. *recovery*: the policy is per row and
sessions see rows only through "is it running", so one job is enough; three runs give an
interrupted run, a start that is interrupted while it recovers that run, and a start after it. Failures of each kind are
bounded by `MaxFailures` (1), and a start that may fail, or that follows a stop that failed, is not the last one
`MaxRuns` allows: liveness is about a disk that fails now and then, not for good.
*offline*: two jobs make a list whose second element goes stale while the first is worked off.
*authority*: two grants let one be issued while another's revocation is being published; two
processes make a restart. *changes*: the rules are per path, so one is enough, and two sessions,
calls and writes give every overlap of two calls, a session after a session, and a write before, during and
after a capture; two processes make a restart. *runtime*: the race of the lock is between two.
*vault*: two
calls interleave every pair of writers; the key a database knows, another one and an older one put back are three; three ids let a secret be
deleted and stored anew. *eventbus*: two publications that overlap, one of which may be by a handler of the other, a wildcard, and
subscriptions made during a delivery. *reversal*: the agent's commit, another's, an undo and
its redo fit in four commits after the first; two requests may hold one ticket or two. For the theorems of
section 5 there are no bounds.

**Fairness.** `RFairness`: the event loop runs a start or stop it has begun to its end, the daemon
is started again after it went down, a start that failed is cleaned up, and the sweep's timer
(`setInterval`) keeps firing. Transactions may throw, finitely often. Nothing is assumed of workers, so a lapsed lease is never "recovered"
by a worker that happens to be well behaved. `OFairness`: every coordinator call that
has begun runs to its end (weak), and workers keep asking for work (strong, on `StartClaim`: a poll
is possible again and again, not continuously, as other calls come in between); `claimNext()` reconciles
first, which is what ends a wait when no connectivity event arrives. `LFairness`: the event loop of a
process that is alive runs the calls under way, and Node exits when nothing keeps the loop; nothing is assumed of
signals, of `start()` being called or of the clock. `offline_live`
has one call at a time and no crash because `NetworkWaitsAreMarked` is false otherwise: a crash, or with two
overlapping calls the `UPDATE` that clears the flag after a
resume, can clear or lose the mark of a wait (section 6).

**Deadlock** is checked except where the modelled system may stop: `jobs` (every job settled, nothing
left to call),
`runtime` and `runtime_stop` (every process has ended), `eventbus` (no subscription left to make or call and the
limit `MaxId` reached) and `reversal` (the branch is as long as `MaxCommits`).

## 5. Proofs

Forty-eight results are listed under `theorems` in `PROJECT.json`; all are proved from the
assumptions stated in the modules (a finite set of jobs, integer priorities, positive budgets, at
least one process or run, 0 not a session id), for every value of the constants.

**DurableJobsProofs.** None of the invariants is inductive alone. `LeaseIsLatestClaim` needs
`attemptCount = issued`, a result needs the lease, a checkpoint needs the count, so everything about
one row is gathered in `RowInv(r, n)`, with the number `n` of tokens drawn for it: an
action that updates one row is then checked on that row alone (`UpdateStep`). `IInv` adds the graph:
absent jobs have no prerequisites, prerequisites exist, a claimed job has its prerequisites settled,
and the graph is acyclic. `enqueue` keeps it acyclic because nothing can point at the new job;
`addDependency` because the lineage query rejects an edge into a set closed under
dependencies that contains the job (`EnqueueAcyclic`, `AddDependencyAcyclic`: both work with
"every non-empty set has a member with no prerequisite in it" and so need no induction). `PlacesInv` says that the places in the queue are
distinct and number the jobs there are: with it the claim of the code's `ORDER BY priority DESC, queue_order` never has two candidates.
Results: `TypeCorrect`, `NeverCyclic`, `PrerequisitesHold`, `LeasesFence`, `BudgetsHold`, `RequestsAreNotInherited`, `CheckpointsKept`,
`ClaimIsDetermined`, and `LifeCycle`: every step moves every job along one of the transitions of `Move`, and none changes its place in the queue.
`RecoverKeeps` and `RecoverRefines` show that recovering *any* set of running rows keeps `IInv` and is the abstract `Interrupt`; the two
components that recover rows are proved from these lemmas.

**The refinement**, in the same module. Every transaction is one step of `WorkQueue` or a stutter under the mapping at
the end of `DurableJobs`: running is *owned*, completed and skipped are *delivered*, failed and cancelled are
*abandoned*, the other states *idle*; the epoch is the number of tokens drawn. `IInv` is what
makes it work: only because a lease is the latest token is a `complete` with token `t` the
delivery of epoch `t` (`Refinement`).

**CoordinatorProofs, crash recovery.** The engine's invariant and its refinement carry over
to the composed specification (`RecoveryFences`, `RecoveredCheckpoints`, `RecoveryRefinement`). `SessionInv` relates the open sessions
to the place a start or stop has reached; its last two conjuncts say why a sweep that outlives a failed
stop may clear the error flag without hiding an *older* session (`OnlyItsOwnSession`). `ClaimsInv` follows
the session in which each running row was claimed (`ReconciledMeansReconciled`). `ReadyAfterRecovery` needs no
hypothesis about failing starts and sweeps: every start that serves has opened a session of its own and recovered under it. Only a stop that
threw lets a start return early, hence the antecedent of `ServingMeansReconciled`. `RecoveredResults` says that a result
still comes from the latest claim, `RecoveryTypes` that all of this is well-typed.

**CoordinatorProofs, offline execution.** `OInv` is the engine's `IInv` with `CallsInv` and `TablesInv`. What a call carries across its awaits is true in a weak sense only
(`Carried`): the jobs left of its list exist, its token was drawn. Nothing it carries says in what state those jobs are, and
the proofs show that nothing has to: parking takes queued rows only (`ParkingKeeps`) and a resumption goes through the engine. Results, for any number of jobs,
overlapping calls and crashes: `OfflineTypes`, `OfflineFences`, `OfflineCheckpoints`, `SettledForGood`, `NobodyIsParkedAtWork`,
and `OfflineRefinement`, that the engine with the coordinator around it still implements `WorkQueue`.

`WaitsWillBeFound` is about the flag by which a reconciliation finds a wait (`NetworkWaitsAreMarked`). It has two hypotheses, that calls do not overlap
and that the process has not died yet; both are in the theorem, and it is false without either, as TLC shows with two calls and no crash, and
with one call and one crash (section 6). `WaitsInv` says what the call under way still
*owes* (`Owed`): between the two transactions of a wait, the mark of the job just parked; between the two of
a cleared requirement, the resumption of the job whose row is gone; when the flag of a resumed job is about to be cleared,
that the job has not gone back to waiting. Whenever no such debt is open, every wait is marked.

**AuthorityProofs.** `TrailInv` says that publications under way and entries made together number
at most one per event, and only for events that happened; it is inductive because an event is
published exactly by the transition that makes it true, and what has happened stays so (`Stable`).
Results: `RestartFailsClosed`, `LedgerNeverLies`, `NothingIsEnteredTwice`, `OneApprovalOneUse`, `AuthorityTypes`.

**The refinement of `Warrants`**, in the same module. The abstract specification has no processes: a grant is conferred once, held, and over for good; an
approval is asked, given and used once, or over; the record enters what has come to pass, once. `AuthorityIsWarranted` maps each step of the three
components and of the daemon to one of its steps or to none. It needs `PastInv`, that rows name no process to come, as otherwise the next process would
revive a grant, and `TrailInv`, which makes each entry the first of its event and later than what it reports. The invariants say what each state looks like; that no
later state takes an ending back is said by this theorem alone.

**ChangeTrackingProofs.** `CInv` is long because attribution goes from the file to the capture, from there to the
session's end and to the event. `AgentInv` says that an agent writes in its session and after the
baseline; `CaptureInv` what a *sound* call (one no session began after, or one that ends the session that is still active)
has seen of each path it has already read; `CompletedInv` that completed work is on record and not as human. The
antecedent `~overlap` is carried through all of it and is what `changes_overlap` shows to be needed. `UnknownInv` is the reason `UnknownIsSticky` survives the end of a session: the
baseline an active session began with was unknown wherever the record is. Results: `ChangeTypes`, `OneSession`, `UnknownStays`, `CompletedWorkKept`.

**RuntimeLifecycleProofs.** `LockInv` distinguishes whether one lock file has been made so far: then whoever is about to
write it still finds it empty and young, and whoever is about to remove it has judged it abandoned. `Standing(r)`
relates the resources of one process to the places its `start()` and `stop()` have reached, for a process whose stop did not overtake its
start; one step touches one process. Results: `TheHolderIsNamed`, `NothingIsLeftBehind`, for any number of processes and crashes.

**EventBusProofs.** `PublicationInv` says that of a snapshot, whoever lies at or before the handler now running was called or
has left; this gives the action property when no one is left. That the next handler is the least of the rest needs
the well-foundedness of the naturals (`LeastIs`). Results: `OnceIsOnce`, `EveryoneIsServed`, `OnlySubscribersAreCalled`.

**GitHubAppProofs.** `OneKey` is why no key file can hurt: a row is written only under the key in memory, which is the one
on record, and a key gets on record once, when there is no row yet (`NoKeyNoSecrets`). `Progress` says what a `configure()` has
stored so far: each of these secrets is held, or was deleted since, and is its own if nobody else wrote (`Done`, `Held`). Results:
`VaultStaysReadable`, `ConfigurationIsBacked`, `OneAppAtATime`, for any number of calls, keys, secrets and values.

**ReversibleOperationsProofs.** Tickets, requests, stored states and reversals are each judged against the branch, the
journal and the tickets, all of which only grow (`Grown`), so what was right stays right and only what
a step made has to be examined (`Preserve`). `TicketOK` says that a ticket shows the plan for its head, `CallOK` what a request at each of
its places has found and is about to publish, `CommitOK` that a reversal lies right after the head its ticket
names; that two requests with one ticket cannot both publish is this last fact alone. `PreviewInv` keeps a ticket a
preview is going to issue from being confirmed before. Results: `ReversalTypes`, `PreviewIsKept`,
`TicketsAreSpentOnce`, `LaterWorkStays`, `StatesAreEarned`, for any number of requests, tickets, operations, paths and commits.

**Only proved.** The type invariants of `CrashRecovery`, `Authority`, `ChangeTracking` and the vault, and `NoKeyNoSecrets`.

**Only model-checked.** Liveness (`LapsedLeaseIsRecovered`, `InterruptedWorkIsRecovered`, `NetworkWaitsEnd`,
`CallsEnd`), which is out of TLAPS's reach here, as are `ENABLED` and induction over data. Every safety property that a passing run checks is
also proved. No module uses recursive operators.

## 6. Disagreements between code and documents

Two are `violation` runs and entries of `findings`, where the sentence they disagree with is quoted.

- **`changes_overlap`**: `observeHumanChanges()` looks for an active session, awaits the capture and records what it
  saw as human. A session that begins and writes meanwhile has its work recorded as human.
- **`runtime_stop`**: `stop()` is accepted while `start()` awaits. `stop()` goes through to "stopped"; `start()` then goes on, binds the
  port and ends in "running".

The following are visible in the models too and have no run of their own:

- `checkpoint()` and `wait()` reset both request flags, so a cancel asked of a running job
  disappears if its worker checkpoints before it notices. `DURABLE_JOB_ENGINE.md` calls the flags durable.
- After a `stopSession()` that threw, the session id stays in the process. A sweep that was
  still publishing clears the error flag; a new start *in the same process* then returns early and serves
  without reconciling. It takes a disk error and a restart without process exit.
- `waitForNetwork()` commits the wait and the mark that it is one for the network separately. After a
  crash in between, no reconciliation looks for the row. `clearNetworkRequirement()` likewise. With two overlapping
  calls, the `UPDATE` that clears the flag after a resume can clear the mark of a wait entered since.
- A parked job resumed by hand while offline still carries `blocked_for_network = 1`, is not parked again by
  the reconciliation of `claimNext()`, and can be claimed offline.
- `shutdown()` of Capability Security revokes the rows it read, awaits one publication each, and only then stops
  accepting. A grant issued meanwhile survives a graceful shutdown. (The next process revokes it.)
- `resume()` has no attempt check, so a held job whose budget is used up goes back to
  `queued`, where no claim can ever take it.
- Two processes that judge the same lock file stale both remove a file: the slower one removes the fresh
  lock of the faster. `HolderIsNamed` is therefore about the first lock file only.
- A change session whose `INSERT` comes during the awaits of `shutdown()` outlives the stop and is invalidated by
  the next start in another process. A human edit made while `beginAiChange()` takes the
  baseline may be counted as the agent's; work of an invalidated session that is observed later is recorded as human.
- Overlapping calls of `configure()`, or one that is refused or dies half-way, leave the app id of one GitHub App with a key or webhook secret of
  another, and `status()` says "configured" all the same. The next undisturbed call repairs it (`UndisturbedMeansWhole`).
- A process that dies while it writes `vault.key` leaves a file of the wrong length; no start succeeds until somebody removes it. In
  the place of a lost key file a new key is generated, and no start succeeds until the old one is put back.
- A reversal whose service worker dies between the commit and `SaveStates` is on the branch but not in the stored
  states: it cannot be redone. Two reversals of different operations save each other's states away in the same manner.
- The redo of a cascade restores the head found in the stored states, which is not part of the fingerprint the ticket confirms;
  `ConfirmedIsApplied` excepts it.

## 7. Not modelled, and why

- **Denials** and the entries of the vault in the ledger: planned, see section 8.
- **The checkpoints of the extension beyond their rollback** (verification after the commit, automatic rollback), and the
  journal of reversals, limits and file kinds of reversible operations.
- **The hooks of HTTP and studio on the event bus**, and the validation of payloads: they refuse a publication before it
  has any effect.
- **Claims, scopes and resource matching of Capability Security**; the **hash chain** of the ledger: data, with no
  protocol between calls. `authorize()` changes nothing but the ledger (a denial).
- **Migrations and opening of the database**: sequential, run once.
- **Plans, scope lock, build orchestrator, agents, context engines** (`packages/`): pure functions from records to
  records that validate and digest fields. The task-graph compiler is the one algorithm worth stating.
- **Conversations, attachments, workspaces, project memory**: stores whose operations are single
  transactions with no protocol between them.
- **Git, GitHub beyond the configuration of the App, AI runtimes, preview browser**: adapters around external processes and services.
- **HTTP server, protocol, studio, browser extension, hosted functions, scripts**: parsing, presentation and
  deployment. What the server changes, it changes through the Jobs Center.
- **Two daemon processes on one database**: `RuntimeLifecycle` models the lock and who holds it; what two daemons
  would do to the rows is not modelled.

## 8. Plan

Done, in this order: `DurableJobs` with `WorkQueue`, then `RecoveryPolicy`/`CrashRecovery`,
`OfflineExecution`, `Authority`, `ChangeTracking`, `RuntimeLifecycle`, `EventBus`, `ReversibleOperations`,
`SecretsVault` with `GitHubApp`; proofs of all of them; the abstract `Warrants` and its refinement.

To be modelled, most important first:

1. `Authority` over `EventBus`, so that the ledger is a subscription like any other, and with `SecretsVault`, so that a grant
   revoked while a call awaits its authorisation is seen.
2. The verification after a guarded commit and its automatic rollback, on the branch of `ReversibleOperations`.
3. The task-graph compiler as recursive functions against a reference definition, and the hash chain.

To be proved: an abstract specification of who holds the lock that `RuntimeLifecycle` implements under the hypothesis of `HolderIsNamed`, and one
of a record of authorship for `ChangeTracking`; then whatever the modules above add.

## Running

In this directory, with `tlc` and `tlapm` on the path:

```
tlc -config MCDurableJobs.cfg MCDurableJobs.tla
tlapm DurableJobsProofs.tla
```

Every passing run ends within a few minutes on two workers; `eventbus`, `authority` and `jobs` are the largest.
