----------------------------- MODULE RecoveryPolicy -----------------------------
(***************************************************************************)
(* What #recover (apps/local/src/recovery-engine.ts) does to interrupted   *)
(* rows, in one transaction: the policy the start, the lease sweep and the *)
(* graceful hand-off share.                                                *)
(***************************************************************************)
EXTENDS DurableJobs

\* Mutant: an exhausted row is left as it is.
RecoveredUnlessExhausted(r) ==
  IF r.attemptCount < r.maxAttempts
  THEN [Released(r) EXCEPT !.state = "queued", !.available = TRUE]
  ELSE r

Recovered(r) ==
  IF r.cancelRequested THEN [Released(r) EXCEPT !.state = "cancelled"]
  ELSE IF r.pauseRequested THEN [Released(r) EXCEPT !.state = "paused"]
  ELSE IF r.attemptCount < r.maxAttempts
       THEN [Released(r) EXCEPT !.state = "queued", !.available = TRUE]
  ELSE [Released(r) EXCEPT !.state = "failed"]

\* The candidates of recoverAllRunning() and of sweepExpiredLeases()
Running == {j \in Jobs : job[j].state = "running"}

\* Mutant: the sweep passes over rows with a pending request.
ExpiredUnrequestedLeases ==
  {j \in Running : job[j].leaseExpired /\ ~job[j].cancelRequested}

ExpiredLeases == {j \in Running : job[j].leaseExpired}

Recover(rows) ==
  /\ job' = [j \in Jobs |-> IF j \in rows THEN Recovered(job[j]) ELSE job[j]]
  /\ UNCHANGED <<deps, issued>>
==============================================================================
