----------------------------- MODULE SyncWorker -----------------------------
(***************************************************************************)
(* The sync queue: requests for a synchronization (manual, webhook,        *)
(* scheduler, refresh), background workers that claim a job under a        *)
(* fenced lease, optionally dispatch a provider refresh for it and then    *)
(* run /transactions/sync, the recovery loop that takes expired leases     *)
(* back, and the fleet refresh runs whose targets ride on the jobs.        *)
(*                                                                         *)
(* One action is one database transaction, or the part of one that reads   *)
(* before its first write: pysqlite opens a transaction at the first DML   *)
(* statement, so what a coroutine SELECTed before it may be stale when it  *)
(* writes.  Transactions whose first statement is an UPDATE are one step.  *)
(***************************************************************************)
EXTENDS RefreshTargets, SyncJobs

CONSTANTS
    Conns,           \* bank connections of the one owner
    Runs,            \* transaction refresh runs
    Workers,         \* worker processes (the supported deployment has one)
    None,            \* no connection, run or result in a worker's frame
    Faults,          \* the timing and local faults a configuration allows
    RefreshAnswers,  \* the answers of /transactions/refresh it allows
    SyncErrors,      \* the error classes of /transactions/sync it allows
    MaxGen,          \* bound: sync requests per connection
    MaxMishaps       \* bound: process crashes and stalled leases

FaultKinds ==
    {"lease_stall",        \* a live worker's lease may expire
     "clock_in_recovery",  \* a lease may expire between recovery's two clocks
     "local_error"}        \* an unexpected local exception in run_once

SyncErrorClasses == {"transient", "owner_action", "permanent"}

ASSUME FaultsAssumption == Faults \subseteq FaultKinds
ASSUME AnswersAssumption == RefreshAnswers \subseteq ProviderAnswers
ASSUME ErrorsAssumption == SyncErrors \subseteq SyncErrorClasses
ASSUME BoundsAssumption == MaxGen \in Nat /\ MaxMishaps \in Nat
ASSUME NoneAssumption == None \notin Conns \cup Runs

VARIABLES
    conn,      \* BankConnection rows
    job,       \* the newest SyncJob row of each connection
    target,    \* TransactionRefreshTarget rows: target[run][connection]
    run,       \* TransactionRefresh rows: their state
    worker,    \* the local variables of run_once in each worker
    recovery,  \* what recover_expired has read and not yet written
    mishaps,   \* how many crashes and stalled leases there have been
    calls,     \* history: provider refreshes sent for each target
    window     \* history: provider refreshes sent since last_refresh_at

tables == <<conn, job, target, run>>
history == <<calls, window>>
vars == <<conn, job, target, run, worker, recovery, mishaps, calls, window>>

-----------------------------------------------------------------------------
(* State *)

Connection ==
    [status    : {"absent", "active", "removed"},
     requested : Nat,      \* sync_requested_generation
     completed : Nat,      \* sync_completed_generation
     cooling   : BOOLEAN,  \* last_refresh_at is less than 15 minutes ago
     supported : BOOLEAN,  \* refresh_supported
     cursor    : Nat]      \* sync_cursor: the pass that last moved it

NoConnection == [status |-> "absent", requested |-> 0, completed |-> 0,
                 cooling |-> FALSE, supported |-> TRUE, cursor |-> 0]

\* Where run_once is: the step that comes next.
Phases == {"idle", "reserve_read", "reserve_write", "prepare_read",
           "prepare_write", "dispatch", "record_read", "record_write",
           "finish", "sync_start", "collect", "apply", "fail"}

Frame == [pc     : Phases,
          conn   : Conns \cup {None},       \* the connection of the claimed job
          token  : Tokens \cup {NoToken},   \* claim.lease_token
          gen    : Nat,                     \* claim.target_generation
          run    : Runs \cup {None},        \* the run of the reserved target
          result : Plans \cup ProviderAnswers \cup SyncErrorClasses \cup {None},
          cursor : Nat]                     \* attempt_cursor

IdleFrame == [pc |-> "idle", conn |-> None, token |-> NoToken, gen |-> 0,
              run |-> None, result |-> None, cursor |-> 0]

Recovery == [busy    : BOOLEAN,
             unknown : SUBSET (Runs \X Conns),  \* targets found dispatching
             requeue : SUBSET (Runs \X Conns)]  \* targets found reserved

NoRecovery == [busy |-> FALSE, unknown |-> {}, requeue |-> {}]

TypeOK ==
    /\ conn \in [Conns -> Connection]
    /\ job \in [Conns -> Job]
    /\ target \in [Runs -> [Conns -> Target]]
    /\ run \in [Runs -> RunStates]
    /\ worker \in [Workers -> Frame]
    /\ recovery \in Recovery
    /\ mishaps \in Nat
    /\ calls \in [Runs -> [Conns -> 0 .. 2]]
    /\ window \in [Conns -> 0 .. 2]

Init ==
    /\ conn = [c \in Conns |-> NoConnection]
    /\ job = [c \in Conns |-> NoJob]
    /\ target = [r \in Runs |-> [c \in Conns |-> NoTarget]]
    /\ run = [r \in Runs |-> "none"]
    /\ worker = [w \in Workers |-> IdleFrame]
    /\ recovery = NoRecovery
    /\ mishaps = 0
    /\ calls = [r \in Runs |-> [c \in Conns |-> 0]]
    /\ window = [c \in Conns |-> 0]

-----------------------------------------------------------------------------
(* Helpers *)

Active(c) == conn[c].status = "active"

\* The fence of the worker's writes: state = 'running' AND lease_token = claim's.
Holds(w) ==
    /\ worker[w].conn # None
    /\ job[worker[w].conn].state = "running"
    /\ job[worker[w].conn].token = worker[w].token

\* The stronger fence of the heartbeat and of the apply transaction.
HoldsLive(w) == Holds(w) /\ job[worker[w].conn].ttl > 0

\* Mutant: a token that may be in use.
AnyToken == Tokens

\* A new uuid4 is one that no job and no worker still has.
FreshTokens ==
    Tokens \ ({job[c].token : c \in Conns} \cup {worker[w].token : w \in Workers})

\* The partial unique indexes on active targets and on active runs.
UniqueRows(targets, runs) ==
    /\ \A c \in Conns, r, s \in Runs :
          IsActive(targets[r][c]) /\ IsActive(targets[s][c]) => r = s
    /\ \A r, s \in Runs :
          runs[r] \in ActiveRunStates /\ runs[s] \in ActiveRunStates => r = s

\* The target row a worker has reserved, and the table with that row written.
Row(w) == target[worker[w].run][worker[w].conn]
WithRow(w, row) == [target EXCEPT ![worker[w].run][worker[w].conn] = row]

\* derive_run for the runs whose target rows have just been written.
Rederived(runs, targets) ==
    [r \in Runs |-> IF r \in runs THEN DerivedRun(run[r], targets[r]) ELSE run[r]]

\* Mutant: the state of the target is not looked at.
CompletableAgain(c, generation) ==
    {r \in Runs : /\ target[r][c].state # "absent"
                  /\ target[r][c].required <= generation}

\* The runs whose target of c a pass of that generation completes, and those
\* whose target of c a permanent failure ends: at most one each, because only
\* one target of a connection can be active.
Completable(c, generation) ==
    {r \in Runs : /\ target[r][c].state = "syncing"
                  /\ target[r][c].required <= generation}
Unfinished(c) == {r \in Runs : IsActive(target[r][c])}

CompletedRows(c, runs, changed) ==
    [r \in Runs |-> IF r \in runs
                      THEN [target[r] EXCEPT ![c] = Completed(@, changed)]
                      ELSE target[r]]
FailedRows(c, runs, reconnect) ==
    [r \in Runs |-> IF r \in runs
                      THEN [target[r] EXCEPT ![c] = MarkedFailed(@, reconnect)]
                      ELSE target[r]]

Goto(w, phase) == worker' = [worker EXCEPT ![w].pc = phase]
Fail(w, class) == worker' = [worker EXCEPT ![w].pc = "fail", ![w].result = class]
Abandon(w) == worker' = [worker EXCEPT ![w] = IdleFrame]

-----------------------------------------------------------------------------
(* Requests: each is one transaction of an API handler, the webhook        *)
(* receiver or the scheduler.  EnqueueAll is enqueue_sync for every         *)
(* connection of a set.                                                     *)

EnqueueAll(cs) ==
    /\ conn' = [c \in Conns |->
                  IF c \in cs THEN [conn[c] EXCEPT !.requested = @ + 1] ELSE conn[c]]
    /\ job' = [c \in Conns |->
                  IF c \in cs THEN Enqueued(job[c], conn[c].requested + 1) ELSE job[c]]

\* A bank is linked; its first sync is queued in the same transaction.
Link(c) ==
    /\ conn[c].status = "absent"
    /\ MaxGen > 0
    /\ conn' = [conn EXCEPT ![c].status = "active", ![c].requested = 1]
    /\ job' = [job EXCEPT ![c] = Enqueued(@, 1)]
    /\ UNCHANGED <<target, run, worker, recovery, mishaps, history>>

\* A manual sync, a webhook or the stale-connection sweep.
EnqueueSync(c) ==
    /\ Active(c)
    /\ conn[c].requested < MaxGen
    /\ EnqueueAll({c})
    /\ UNCHANGED <<target, run, worker, recovery, mishaps, history>>

\* create_or_coalesce when it creates: a request that finds its key mapped or
\* a run active changes no row of this module.  A target row that would break
\* the unique index makes the request fail and roll back.
CreateRun(r) ==
    LET covered == {c \in Conns : Active(c)}
    IN  /\ run[r] = "none"
        /\ \A s \in Runs : run[s] \notin ActiveRunStates
        /\ covered # {}
        /\ \A c \in covered : conn[c].requested < MaxGen
        /\ EnqueueAll(covered)
        /\ run' = [run EXCEPT ![r] = "queued"]
        /\ target' = [target EXCEPT ![r] =
                [c \in Conns |-> IF c \in covered
                                   THEN NewTarget(conn[c].requested + 1)
                                   ELSE NoTarget]]
        /\ UniqueRows(target', run')
        /\ UNCHANGED <<worker, recovery, mishaps, history>>

\* The job and the targets of the connection are left as they are.
Disconnect(c) ==
    /\ Active(c)
    /\ conn' = [conn EXCEPT ![c].status = "removed", ![c].cursor = 0]
    /\ UNCHANGED <<job, target, run, worker, recovery, mishaps, history>>

-----------------------------------------------------------------------------
(* The worker: claim, refresh phase, sync phase                            *)

Claim(w) ==
    /\ worker[w].pc = "idle"
    /\ \E c \in Conns, t \in FreshTokens :
          /\ job[c].state = "queued"
          /\ job[c].due
          /\ job' = [job EXCEPT ![c] = Claimed(@, t)]
          /\ worker' = [worker EXCEPT ![w] =
                [IdleFrame EXCEPT !.pc = "reserve_read", !.conn = c,
                                  !.token = t, !.gen = job[c].target]]
    /\ UNCHANGED <<conn, target, run, recovery, mishaps, history>>

\* reserve_target_for_job: the queued target the job's target generation covers.
Reservable(w) ==
    {r \in Runs : /\ Holds(w)
                  /\ target[r][worker[w].conn].state = "queued"
                  /\ target[r][worker[w].conn].required
                        <= job[worker[w].conn].target}

ReserveRead(w) ==
    /\ worker[w].pc = "reserve_read"
    /\ \/ /\ Reservable(w) = {}
          /\ Goto(w, "sync_start")
       \/ \E r \in Reservable(w) :
             worker' = [worker EXCEPT ![w].pc = "reserve_write", ![w].run = r]
    /\ UNCHANGED <<tables, recovery, mishaps, history>>

\* The write is by primary key, without the fence.
ReserveWrite(w) ==
    LET targets == WithRow(w, Reserved(Row(w)))
        runs == [run EXCEPT ![worker[w].run] = "running"]
    IN  /\ worker[w].pc = "reserve_write"
        /\ UniqueRows(targets, runs)
        /\ target' = targets
        /\ run' = runs
        /\ Goto(w, "prepare_read")
        /\ UNCHANGED <<conn, job, recovery, mishaps, history>>

\* Mutant: the eligibility window is not looked at.
PlanWithoutWindow(c) == IF ~Active(c) THEN "disconnected"
                        ELSE IF ~conn[c].supported THEN "unsupported"
                        ELSE "dispatch"

Plan(c) == IF ~Active(c) THEN "disconnected"
           ELSE IF ~conn[c].supported THEN "unsupported"
           ELSE IF conn[c].cooling THEN "cooldown"
           ELSE "dispatch"

\* prepare_reserved_target up to its first write.  Without an owned reserved
\* target it returns None, and run_once goes on to the sync.
PrepareRead(w) ==
    /\ worker[w].pc = "prepare_read"
    /\ IF Holds(w) /\ Row(w).outcome = "reserved"
         THEN worker' = [worker EXCEPT ![w].pc = "prepare_write",
                                       ![w].result = Plan(worker[w].conn)]
         ELSE Goto(w, "sync_start")
    /\ UNCHANGED <<tables, recovery, mishaps, history>>

AfterPlan(plan) == CASE plan = "disconnected" -> "finish"
                     [] plan = "dispatch" -> "dispatch"
                     [] OTHER -> "sync_start"

PrepareWrite(w) ==
    LET c == worker[w].conn
        plan == worker[w].result
        targets == WithRow(w, Prepared(Row(w), plan))
        runs == IF plan = "disconnected"
                  THEN Rederived({worker[w].run}, targets) ELSE run
    IN  /\ worker[w].pc = "prepare_write"
        /\ UniqueRows(targets, runs)
        /\ target' = targets
        /\ run' = runs
        /\ conn' = IF plan = "dispatch" THEN [conn EXCEPT ![c].cooling = TRUE]
                                        ELSE conn
        /\ worker' = [worker EXCEPT ![w].pc = AfterPlan(plan), ![w].result = None]
        /\ UNCHANGED <<job, recovery, mishaps, history>>

Capped(n) == IF n < 2 THEN n + 1 ELSE n

\* The provider call, outside any transaction, and its answer.
Dispatch(w) ==
    LET c == worker[w].conn
    IN  /\ worker[w].pc = "dispatch"
        /\ \E answer \in RefreshAnswers :
              worker' = [worker EXCEPT ![w].pc = "record_read",
                                       ![w].result = answer]
        /\ calls' = [calls EXCEPT ![worker[w].run][c] = Capped(@)]
        /\ window' = [window EXCEPT ![c] = Capped(@)]
        /\ UNCHANGED <<tables, recovery, mishaps>>

\* record_dispatch_outcome up to its first write; False means a lost lease.
RecordRead(w) ==
    /\ worker[w].pc = "record_read"
    /\ IF Holds(w) /\ Row(w).outcome = "dispatching"
         THEN Goto(w, "record_write")
         ELSE Abandon(w)
    /\ UNCHANGED <<tables, recovery, mishaps, history>>

\* Mutant: any error skips the sync.
AfterAnswerAnyError(answer) ==
    IF answer \in FailureCodes THEN "finish" ELSE "sync_start"

\* should_sync = error.retry_class != "owner_action"
AfterAnswer(answer) == IF answer \in OwnerActionCodes THEN "finish" ELSE "sync_start"

RecordWrite(w) ==
    LET c == worker[w].conn
        answer == worker[w].result
        targets == WithRow(w, Recorded(Row(w), answer))
        runs == IF answer \in ReconnectCodes
                  THEN Rederived({worker[w].run}, targets) ELSE run
    IN  /\ worker[w].pc = "record_write"
        /\ UniqueRows(targets, runs)
        /\ target' = targets
        /\ run' = runs
        /\ conn' = IF answer = "unsupported"
                     THEN [conn EXCEPT ![c].supported = FALSE] ELSE conn
        /\ worker' = [worker EXCEPT ![w].pc = AfterAnswer(answer),
               ![w].result = IF AfterAnswer(answer) = "finish" THEN answer ELSE None]
        /\ UNCHANGED <<job, recovery, mishaps, history>>

\* The job ends without a sync pass; a lost fence changes nothing.
FinishWithoutSync(w) ==
    /\ worker[w].pc = "finish"
    /\ job' = IF Holds(w) THEN [job EXCEPT ![worker[w].conn] = Finished(@)] ELSE job
    /\ Abandon(w)
    /\ UNCHANGED <<conn, target, run, recovery, mishaps, history>>

\* The job is looked up by its token, then synchronize reads the connection
\* and its cursor and gives the snapshot up before the network.
SyncStart(w) ==
    LET c == worker[w].conn
    IN  /\ worker[w].pc = "sync_start"
        /\ \/ ~Holds(w) /\ Abandon(w)
           \/ Holds(w) /\ ~Active(c) /\ Fail(w, "permanent")
           \/ /\ Holds(w)
              /\ Active(c)
              /\ worker' = [worker EXCEPT ![w].pc = "collect",
                                          ![w].run = None,
                                          ![w].cursor = conn[c].cursor]
        /\ UNCHANGED <<tables, recovery, mishaps, history>>

\* The page loop: every page, or the error that ended it.
SyncCollect(w) ==
    /\ worker[w].pc = "collect"
    /\ \/ Goto(w, "apply")
       \/ \E class \in SyncErrors : Fail(w, class)
    /\ UNCHANGED <<tables, recovery, mishaps, history>>

\* Mutant: the apply transaction without its fence.
AppliableUnfenced(w) ==
    Active(worker[w].conn) /\ conn[worker[w].conn].cursor = worker[w].cursor

\* The fenced apply transaction and, in the same transaction, the target, the
\* run and the job.  The cursor moves when the pass brought changes.
Appliable(w) ==
    /\ HoldsLive(w)
    /\ Active(worker[w].conn)
    /\ conn[worker[w].conn].cursor = worker[w].cursor

SyncApply(w) ==
    LET c == worker[w].conn
        gen == worker[w].gen
        covered == Completable(c, gen)
    IN  /\ worker[w].pc = "apply"
        /\ IF Appliable(w)
             THEN \E changed \in BOOLEAN :
                    LET targets == CompletedRows(c, covered, changed)
                    IN  /\ target' = targets
                        /\ run' = Rederived(covered, targets)
                        /\ conn' = [conn EXCEPT
                              ![c].completed = gen,
                              ![c].cursor = IF changed THEN gen ELSE @]
                        /\ job' = [job EXCEPT ![c] =
                              AfterPass(@, conn[c].requested > gen)]
             ELSE UNCHANGED tables
        /\ Abandon(w)
        /\ UNCHANGED <<recovery, mishaps, history>>

\* _record_failure: retry a transient failure, otherwise fail the job and with
\* it whatever target of the connection is active.
RecordFailure(w) ==
    LET c == worker[w].conn
        class == worker[w].result
        ended == IF Retryable(job[c], class) THEN {} ELSE Unfinished(c)
        targets == FailedRows(c, ended, class = "owner_action")
    IN  /\ worker[w].pc = "fail"
        /\ IF Holds(w)
             THEN /\ job' = [job EXCEPT ![c] = FailedOnce(@, class)]
                  /\ target' = targets
                  /\ run' = Rederived(ended, targets)
             ELSE UNCHANGED <<job, target, run>>
        /\ Abandon(w)
        /\ UNCHANGED <<conn, recovery, mishaps, history>>

\* A stale write breaks a unique index: the transaction rolls back and the
\* exception is recorded as a transient failure.
WriteConflict(w) ==
    LET row == CASE worker[w].pc = "reserve_write" -> Reserved(Row(w))
                 [] worker[w].pc = "prepare_write" ->
                       Prepared(Row(w), worker[w].result)
                 [] worker[w].pc = "record_write" ->
                       Recorded(Row(w), worker[w].result)
        runs == IF worker[w].pc = "reserve_write"
                  THEN [run EXCEPT ![worker[w].run] = "running"] ELSE run
    IN  /\ worker[w].pc \in {"reserve_write", "prepare_write", "record_write"}
        /\ ~UniqueRows(WithRow(w, row), runs)
        /\ Fail(w, "transient")
        /\ UNCHANGED <<tables, recovery, mishaps, history>>

\* An exception nobody expected, a locked database for one: any step before
\* its commit may raise it.  It is recorded as a transient failure; when
\* recording it fails too, the loop drops the claim.
LocalError(w) ==
    /\ "local_error" \in Faults
    /\ worker[w].pc # "idle"
    /\ IF worker[w].pc = "fail" THEN Abandon(w) ELSE Fail(w, "transient")
    /\ UNCHANGED <<tables, recovery, mishaps, history>>

-----------------------------------------------------------------------------
(* Leases, recovery, crashes and time                                      *)

\* Renewal, by the task that runs beside run_once.
Heartbeat(w) ==
    /\ HoldsLive(w)
    /\ job[worker[w].conn].ttl < LeaseTicks
    /\ job' = [job EXCEPT ![worker[w].conn].ttl = LeaseTicks]
    /\ UNCHANGED <<conn, target, run, worker, recovery, mishaps, history>>

\* recover_expired is quicker than a tick of the clock, unless its two clock
\* readings are allowed to differ.
MayExpire == "clock_in_recovery" \in Faults \/ ~recovery.busy

Live(c) == \E w \in Workers : worker[w].conn = c /\ Holds(w)

\* A lease runs down; the heartbeat of a worker that still runs its job keeps
\* the last tick from passing.
LeaseTick(c) ==
    /\ job[c].state = "running"
    /\ job[c].ttl > 0
    /\ job[c].ttl = 1 => ~Live(c) /\ MayExpire
    /\ job' = [job EXCEPT ![c].ttl = @ - 1]
    /\ UNCHANGED <<conn, target, run, worker, recovery, mishaps, history>>

\* ... unless the heartbeat stalls: it stops at its first database error, and
\* it cannot run while a request blocks the event loop in a provider call.
LeaseStall(c) ==
    /\ "lease_stall" \in Faults
    /\ mishaps < MaxMishaps
    /\ job[c].state = "running"
    /\ job[c].ttl = 1
    /\ Live(c)
    /\ MayExpire
    /\ mishaps' = mishaps + 1
    /\ job' = [job EXCEPT ![c].ttl = 0]
    /\ UNCHANGED <<conn, target, run, worker, recovery, history>>

\* recover_expired up to its first write: the expired jobs and, for each, the
\* target whose reservation or dispatch was interrupted.  A pass that finds no
\* expired job matters only if one expires before its second clock reading.
Interrupted(outcome) ==
    {rc \in Runs \X Conns :
        /\ Expired(job[rc[2]])
        /\ target[rc[1]][rc[2]].state \in {"refreshing", "syncing"}
        /\ target[rc[1]][rc[2]].outcome = outcome}

RecoverRead ==
    /\ ~recovery.busy
    /\ "clock_in_recovery" \in Faults \/ \E c \in Conns : Expired(job[c])
    /\ recovery' = [busy |-> TRUE, unknown |-> Interrupted("dispatching"),
                                   requeue |-> Interrupted("reserved")]
    /\ UNCHANGED <<tables, worker, mishaps, history>>

RecoveredRows ==
    [r \in Runs |-> [c \in Conns |->
        CASE <<r, c>> \in recovery.unknown -> Unknown(target[r][c])
          [] <<r, c>> \in recovery.requeue -> Unreserved(target[r][c])
          [] OTHER -> target[r][c]]]

\* The targets read before, and whichever jobs are expired by now.  A broken
\* unique index rolls everything back.
RecoverWrite ==
    /\ recovery.busy
    /\ IF UniqueRows(RecoveredRows, run)
         THEN /\ target' = RecoveredRows
              /\ job' = [c \in Conns |-> IF Expired(job[c]) THEN Requeued(job[c])
                                                            ELSE job[c]]
         ELSE UNCHANGED <<target, job>>
    /\ recovery' = NoRecovery
    /\ UNCHANGED <<conn, run, worker, mishaps, history>>

\* A worker's process dies (or its loop is cancelled at shutdown).  The
\* recovery loop dies with it when it runs in that process.
Crash(w) ==
    /\ mishaps < MaxMishaps
    /\ mishaps' = mishaps + 1
    /\ Abandon(w)
    /\ recovery' \in {recovery, NoRecovery}
    /\ UNCHANGED <<tables, history>>

BackoffElapses(c) ==
    /\ job[c].state = "queued"
    /\ ~job[c].due
    /\ job' = [job EXCEPT ![c].due = TRUE]
    /\ UNCHANGED <<conn, target, run, worker, recovery, mishaps, history>>

\* Fifteen minutes since last_refresh_at: longer than a worker takes from the
\* commit that wrote it to the provider call.
CooldownElapses(c) ==
    /\ conn[c].cooling
    /\ \A w \in Workers : worker[w].conn = c => worker[w].pc # "dispatch"
    /\ conn' = [conn EXCEPT ![c].cooling = FALSE]
    /\ window' = [window EXCEPT ![c] = 0]
    /\ UNCHANGED <<job, target, run, worker, recovery, mishaps, calls>>

-----------------------------------------------------------------------------
(* Specification *)

\* A step of run_once that the worker takes unless it crashes.
WorkerStep(w) ==
    \/ Claim(w) \/ ReserveRead(w) \/ ReserveWrite(w)
    \/ PrepareRead(w) \/ PrepareWrite(w) \/ Dispatch(w)
    \/ RecordRead(w) \/ RecordWrite(w) \/ FinishWithoutSync(w)
    \/ SyncStart(w) \/ SyncCollect(w) \/ SyncApply(w)
    \/ RecordFailure(w) \/ WriteConflict(w)

Next ==
    \/ \E c \in Conns : Link(c) \/ EnqueueSync(c) \/ Disconnect(c)
    \/ \E r \in Runs : CreateRun(r)
    \/ \E w \in Workers :
          WorkerStep(w) \/ LocalError(w) \/ Heartbeat(w) \/ Crash(w)
    \/ \E c \in Conns : LeaseTick(c) \/ LeaseStall(c)
    \/ \E c \in Conns : BackoffElapses(c) \/ CooldownElapses(c)
    \/ RecoverRead \/ RecoverWrite

Spec == Init /\ [][Next]_vars

\* The worker and recovery loops never stop running, and time passes.
Fairness ==
    /\ \A w \in Workers : WF_vars(WorkerStep(w))
    /\ \A c \in Conns : WF_vars(LeaseTick(c)) /\ WF_vars(BackoffElapses(c))
    /\ WF_vars(RecoverRead)
    /\ WF_vars(RecoverWrite)

FairSpec == Spec /\ Fairness

=============================================================================
