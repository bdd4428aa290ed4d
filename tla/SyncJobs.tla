------------------------------ MODULE SyncJobs ------------------------------
(***************************************************************************)
(* The row of a sync job and the writes made on it.  A connection has at   *)
(* most one queued or running job (a unique partial index), so the model   *)
(* keeps its newest row; older rows are finished and never read again by   *)
(* an operation of the queue.                                              *)
(*                                                                         *)
(* The lease is kept as the number of clock ticks left (ttl), 0 meaning    *)
(* that lease_expires_at has passed, and run_after as whether it has       *)
(* passed (due).                                                           *)
(***************************************************************************)
EXTENDS Naturals

CONSTANTS
    Tokens,      \* fencing tokens (uuid4 values)
    NoToken,     \* lease_token IS NULL
    Retries,     \* len(BACKOFF_SECONDS): retries after a transient failure
    LeaseTicks   \* clock ticks in a lease

ASSUME TokensAssumption == NoToken \notin Tokens
ASSUME RetriesAssumption == Retries \in Nat
ASSUME LeaseTicksAssumption == LeaseTicks \in Nat \ {0}

ActiveJobStates == {"queued", "running"}
JobStates == {"none", "succeeded", "failed"} \cup ActiveJobStates

\* attempts is only ever compared with Retries, so it stops one above it.
AttemptCap == Retries + 1
AttemptCounts == 0 .. AttemptCap
Ticks == 0 .. LeaseTicks

Job == [state    : JobStates,
        target   : Nat,
        attempts : AttemptCounts,
        token    : Tokens \cup {NoToken},
        ttl      : Ticks,
        due      : BOOLEAN]

NoJob == [state |-> "none", target |-> 0, attempts |-> 0,
          token |-> NoToken, ttl |-> 0, due |-> FALSE]

JobActive(j) == j.state \in ActiveJobStates
Expired(j) == j.state = "running" /\ j.ttl = 0

\* Mutant: a request that meets an active job leaves the job as it is.
EnqueuedUnlessActive(j, generation) ==
    IF JobActive(j)
      THEN j
      ELSE [NoJob EXCEPT !.state = "queued", !.target = generation, !.due = TRUE]

\* enqueue_sync: coalesce into the active job or insert a new one.
Enqueued(j, generation) ==
    IF JobActive(j)
      THEN [j EXCEPT !.target = generation]
      ELSE [NoJob EXCEPT !.state = "queued", !.target = generation, !.due = TRUE]

Claimed(j, token) ==
    [j EXCEPT !.state = "running",
              !.attempts = IF @ < AttemptCap THEN @ + 1 ELSE @,
              !.token = token,
              !.ttl = LeaseTicks]

\* The three ways a lease is given back; each clears owner, token and expiry.
Released(j) == [j EXCEPT !.token = NoToken, !.ttl = 0]
Finished(j) == [Released(j) EXCEPT !.state = "succeeded"]
Requeued(j) == [Released(j) EXCEPT !.state = "queued", !.due = TRUE]

\* Mutant: a request that arrived during the pass is not looked at.
AlwaysFinished(j, newer) == Finished(j)

\* The job's last update after a pass: needs_another_pass or not.
AfterPass(j, newer) == IF newer THEN Requeued(j) ELSE Finished(j)

\* _record_failure, for a failure of retry class "transient" or another.
Retryable(j, class) == class = "transient" /\ j.attempts <= Retries
FailedOnce(j, class) ==
    IF Retryable(j, class)
      THEN [Released(j) EXCEPT !.state = "queued", !.due = FALSE]
      ELSE [Released(j) EXCEPT !.state = "failed"]

=============================================================================
