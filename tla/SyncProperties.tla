--------------------------- MODULE SyncProperties ---------------------------
(***************************************************************************)
(* What the sync queue and the refresh runs must satisfy.                  *)
(***************************************************************************)
EXTENDS SyncWorker

\* The worker still owns the job it claimed for c.
Holders(c) == {w \in Workers : worker[w].conn = c /\ Holds(w)}

\* The generations of a connection fit together.  A pass never completes more
\* than was requested; a queued or running job is owed the newest request (no
\* request is lost by coalescing into it, and no job runs with nothing to do);
\* a worker that still holds its claim covers a generation that is not done.
\* About enqueue_sync, the claim, and the job's update after a sync.
GenerationsAgree ==
    /\ \A c \in Conns :
          /\ conn[c].completed <= conn[c].requested
          /\ JobActive(job[c]) =>
                /\ job[c].target = conn[c].requested
                /\ conn[c].completed < conn[c].requested
    /\ \A w \in Workers : Holds(w) =>
          /\ conn[worker[w].conn].completed < worker[w].gen
          /\ worker[w].gen <= conn[worker[w].conn].requested

\* No two workers own the same connection at once, whatever expires and
\* whoever crashes: the fencing token tells them apart.
ExclusiveClaim ==
    \A v, w \in Workers :
        Holds(v) /\ Holds(w) /\ worker[v].conn = worker[w].conn => v = w

\* At most one provider refresh per connection and eligibility window.
OneDispatchPerWindow == \A c \in Conns : window[c] <= 1

\* A target's refresh is sent at most once: an attempt whose outcome is
\* unknown is never repeated, by recovery, retry or a later window.
NeverRedispatched == \A r \in Runs, c \in Conns : calls[r][c] <= 1

\* A run is active exactly while one of its targets is: no run is reported
\* finished early, and none stays "running" (blocking every later refresh)
\* with all its targets final.
RunReflectsTargets ==
    \A r \in Runs :
        run[r] \in ActiveRunStates <=> \E c \in Conns : IsActive(target[r][c])

\* A finished run says how it went: succeeded exactly when all its targets
\* are acceptable, failed exactly when none is.
RunOutcomeHonest ==
    \A r \in Runs : run[r] \in FinalRunStates =>
        LET present == {c \in Conns : target[r][c].state # "absent"}
            good == {c \in present : target[r][c].state \in AcceptableTargetStates}
        IN  /\ run[r] = "succeeded" <=> good = present
            /\ run[r] = "failed" <=> good = {}

\* A target in "refreshing" is in the hands of a running job, so the
\* recovery of that job's lease will find it.
RefreshingIsLeased ==
    \A r \in Runs, c \in Conns : target[r][c].state = "refreshing" =>
        /\ job[c].state = "running"
        /\ target[r][c].outcome \in {"reserved", "dispatching"}

\* The provider has refused the refresh until the owner acts, with a code that
\* record_dispatch_outcome does not list: the target is left "syncing" with a
\* failed attempt, which no recovery sends again and the next pass, if there is
\* one, ends as "failed".
RefusedUnlisted(w) ==
    /\ worker[w].result \in OwnerActionCodes \ ReconnectCodes
    /\ Row(w).state = "syncing"
    /\ Row(w).outcome = "failed"

\* A worker about to end its job without a sync pass has left the target it
\* worked on decided: in a final state, because nothing else is going to end
\* it, or refused by the provider with an unlisted owner-action code (for those
\* see OwnerActionReconnects).  About every way run_once skips the pass.
NoSyncMeansDecided ==
    \A w \in Workers : worker[w].pc = "finish" =>
        Row(w).state \in FinalTargetStates \/ RefusedUnlisted(w)

\* docs/features/refresh-transactions/PRD.md, RT-PROV-007: "Owner-action
\* errors such as `ITEM_LOGIN_REQUIRED` shall finish as `reconnect_required`".
\* A worker whose job ends on an error the gateway takes to need the owner has
\* left the target in that state.  About record_dispatch_outcome, whose list of
\* codes is shorter than the gateway's.
OwnerActionReconnects ==
    \A w \in Workers :
        worker[w].pc = "finish" /\ worker[w].result \in OwnerActionCodes =>
            Row(w).state = "reconnect_required"

\* Whatever a target still waits for is owed by a job that will run: the job
\* of its connection is queued or running and will cover its generation.
ActiveTargetHasJob ==
    \A r \in Runs, c \in Conns : IsActive(target[r][c]) =>
        /\ JobActive(job[c])
        /\ target[r][c].required <= job[c].target

\* A generation asked for and not done belongs to a job, unless the job that
\* had it failed for good or the connection was removed.
OwedWorkHasJob ==
    \A c \in Conns :
        Active(c) /\ conn[c].completed < conn[c].requested =>
            JobActive(job[c]) \/ job[c].state = "failed"

\* A final target never changes again, and a final run never reopens.
FinalStays ==
    [][/\ \A r \in Runs, c \in Conns :
             target[r][c].state \in FinalTargetStates =>
                 target'[r][c] = target[r][c]
       /\ \A r \in Runs : run[r] \in FinalRunStates => run'[r] = run[r]]_vars

-----------------------------------------------------------------------------
(* What makes GenerationsAgree and ExclusiveClaim inductive.               *)

\* The steps at which a worker has a target row in its hands.
RowPhases == {"reserve_write", "prepare_read", "prepare_write", "dispatch",
              "record_read", "record_write"}

\* A worker has a connection exactly when it is past its claim; one that
\* handles a target has its run; and what it is about to write is of the kind
\* its step writes.
FramesFit ==
    \A w \in Workers :
        /\ worker[w].pc # "idle" => worker[w].conn \in Conns
        /\ worker[w].pc = "idle" => worker[w].conn = None
        /\ worker[w].pc \in RowPhases => worker[w].run \in Runs
        /\ worker[w].pc = "prepare_write" => worker[w].result \in Plans
        /\ worker[w].pc \in {"record_read", "record_write"} =>
              worker[w].result \in ProviderAnswers

\* No two claims in the workers' hands were made with the same token.
TokensDiffer ==
    \A v, w \in Workers :
        /\ v # w
        /\ worker[v].conn # None
        /\ worker[w].conn # None
        => worker[v].token # worker[w].token

\* Nothing has been asked of a bank that is not linked yet.
AbsentIsBlank ==
    \A c \in Conns : conn[c].status = "absent" => conn[c].requested = 0

\* The inductive invariant.
IndInv ==
    /\ TypeOK
    /\ FramesFit
    /\ TokensDiffer
    /\ AbsentIsBlank
    /\ GenerationsAgree

-----------------------------------------------------------------------------
(* What makes the properties of targets and runs inductive, as long as no  *)
(* lease expires under a worker that still runs its job.                   *)

LeasesKept == "lease_stall" \notin Faults

\* A worker past its claim holds its job, and the lease has not run out.
LeaseHeld(w) == worker[w].conn # None => HoldsLive(w)

\* What the row that a worker handles must say at each of its steps: nobody
\* else writes it between a read and the write that follows.
RowInHand(w) ==
    /\ worker[w].pc = "reserve_write" => Row(w).state = "queued"
    /\ worker[w].pc \in {"prepare_read", "prepare_write"} =>
          Row(w).state = "refreshing" /\ Row(w).outcome = "reserved"
    /\ worker[w].pc \in {"dispatch", "record_read", "record_write"} =>
          Row(w).state = "refreshing" /\ Row(w).outcome = "dispatching"
    /\ worker[w].pc \in {"record_read", "record_write"} =>
          worker[w].result \in RefreshAnswers
    /\ worker[w].pc = "finish" =>
          /\ worker[w].run \in Runs
          /\ Row(w).state \in FinalTargetStates \/ RefusedUnlisted(w)

\* Between the commit that dispatches and the call, the window is closed and
\* nothing has been sent in it, nor ever for this target.
DispatchDue(w) ==
    LET c == worker[w].conn
    IN  /\ worker[w].pc = "prepare_write" /\ worker[w].result = "dispatch" =>
              ~conn[c].cooling
        /\ worker[w].pc = "dispatch" =>
              /\ conn[c].cooling
              /\ window[c] = 0
              /\ calls[worker[w].run][c] = 0

\* What an active target says of its attempt, and when a refresh was sent.
RowSound(r, c) ==
    /\ target[r][c].state \in {"absent", "queued"} =>
          target[r][c].outcome = "not_attempted" /\ calls[r][c] = 0
    /\ target[r][c].state = "refreshing" =>
          \/ target[r][c].outcome = "reserved" /\ calls[r][c] = 0
          \/ target[r][c].outcome = "dispatching"
    /\ target[r][c].state = "syncing" =>
          target[r][c].outcome \notin {"reserved", "dispatching"}
    /\ calls[r][c] <= 1

\* A refresh sent in a window has closed it.
WindowSound(c) == window[c] <= 1 /\ (window[c] = 1 => conn[c].cooling)

\* A run says what its targets say.
RunSound(r) ==
    LET present == {c \in Conns : target[r][c].state # "absent"}
        good == {c \in present : target[r][c].state \in AcceptableTargetStates}
    IN  /\ run[r] = "none" => present = {}
        /\ run[r] \in ActiveRunStates <=> \E c \in Conns : IsActive(target[r][c])
        /\ run[r] \in FinalRunStates => /\ run[r] = "succeeded" <=> good = present
                                        /\ run[r] = "failed" <=> good = {}

\* What the recovery has read is still so.
RecoveryMatches ==
    /\ recovery.unknown \subseteq Interrupted("dispatching")
    /\ recovery.requeue \subseteq Interrupted("reserved")

RowInv ==
    /\ IndInv
    /\ \A w \in Workers : LeaseHeld(w) /\ RowInHand(w) /\ DispatchDue(w)
    /\ \A r \in Runs, c \in Conns : RowSound(r, c)
    /\ \A c \in Conns : WindowSound(c)
    /\ \A r \in Runs : RunSound(r)
    /\ RecoveryMatches

(* Without the other faults a step that ends in the middle of a refresh is *)
(* always found by the recovery, and no write breaks a unique index.       *)

\* Phases in which a worker has a target in "refreshing".
RefreshPhases == RowPhases \ {"reserve_write"}

\* A worker leaves no target behind: one in "refreshing" is the one it handles,
\* and past the reservation nothing its pass covers is queued.
NoneLeftBehind(w) ==
    LET c == worker[w].conn
    IN  worker[w].pc # "idle" =>
          \A r \in Runs :
            /\ target[r][c].state = "refreshing" =>
                  worker[w].pc \in RefreshPhases /\ r = worker[w].run
            /\ /\ target[r][c].state = "queued"
               /\ target[r][c].required <= worker[w].gen
               => \/ worker[w].pc = "reserve_read"
                  \/ worker[w].pc = "reserve_write" /\ r = worker[w].run

\* The recovery has read everything there is to recover.
RecoveryComplete ==
    recovery.busy =>
        /\ Interrupted("dispatching") \subseteq recovery.unknown
        /\ Interrupted("reserved") \subseteq recovery.requeue

HandInv ==
    /\ RowInv
    /\ UniqueRows(target, run)
    /\ RefreshingIsLeased
    /\ \A w \in Workers : NoneLeftBehind(w)
    /\ RecoveryComplete

\* Without answers that need the owner, a job ends without a pass only when its
\* connection is gone, and then none of its targets is active.
EndsUnlinked(w) ==
    LET c == worker[w].conn
    IN  /\ worker[w].pc = "prepare_write" /\ worker[w].result = "disconnected" =>
              ~Active(c)
        /\ worker[w].pc = "finish" =>
              ~Active(c) /\ \A r \in Runs : ~IsActive(target[r][c])

OwedInv ==
    /\ HandInv
    /\ ActiveTargetHasJob
    /\ OwedWorkHasJob
    /\ \A w \in Workers : EndsUnlinked(w)

-----------------------------------------------------------------------------
(* The queue implements the contract.  The pass under way is that of the   *)
(* worker that holds the connection's job.                                 *)

PassOf(c) == IF Holders(c) = {} THEN 0
             ELSE worker[CHOOSE w \in Holders(c) : TRUE].gen

Contract == INSTANCE SyncContract WITH
    status    <- [c \in Conns |-> conn[c].status],
    requested <- [c \in Conns |-> conn[c].requested],
    completed <- [c \in Conns |-> conn[c].completed],
    pass      <- [c \in Conns |-> PassOf(c)]

\* Passes of one connection never overlap; each completes only the
\* generations requested before it was claimed, and only while it holds the
\* job of a connection that is still active.
KeepsContract == Contract!Spec

-----------------------------------------------------------------------------
(* Liveness                                                                *)

\* Every refresh run ends.
RunsFinish == \A r \in Runs : run[r] \in ActiveRunStates ~> run[r] \in FinalRunStates

\* Every requested generation is synchronized, unless the connection is
\* removed or its job has failed for good.
RequestsServed ==
    \A c \in Conns, g \in 1 .. MaxGen :
        (conn[c].requested >= g) ~>
            \/ conn[c].completed >= g
            \/ conn[c].status = "removed"
            \/ job[c].state = "failed"

=============================================================================
