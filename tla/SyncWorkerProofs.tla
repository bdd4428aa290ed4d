-------------------------- MODULE SyncWorkerProofs --------------------------
(***************************************************************************)
(* Proofs about the sync queue for any number of connections, runs,        *)
(* workers and tokens, with every fault allowed.                           *)
(***************************************************************************)
EXTENDS SyncProperties, TLAPS

-----------------------------------------------------------------------------
(* Rows keep their type *)

\* The bounds of a lease and of the attempts of a job.
LEMMA CounterBounds ==
    /\ 0 \in Ticks
    /\ LeaseTicks \in Ticks
    /\ 0 \in AttemptCounts
    /\ \A n \in AttemptCounts : n < AttemptCap => n + 1 \in AttemptCounts
    /\ \A n \in Ticks : n > 0 => n - 1 \in Ticks
  BY LeaseTicksAssumption, RetriesAssumption
     DEF Ticks, AttemptCounts, AttemptCap

\* The writes of sync_service and sync_worker on a job give a job.
LEMMA JobWrites ==
    ASSUME NEW j \in Job
    PROVE  /\ NoJob \in Job
           /\ \A g \in Nat : Enqueued(j, g) \in Job
           /\ \A t \in Tokens : Claimed(j, t) \in Job
           /\ Finished(j) \in Job
           /\ Requeued(j) \in Job
           /\ \A class : FailedOnce(j, class) \in Job
<1>1. NoJob \in Job
  BY CounterBounds DEF NoJob, Job, JobStates
<1>2. \A g \in Nat : Enqueued(j, g) \in Job
  BY <1>1 DEF Enqueued, Job, JobStates, ActiveJobStates
<1>3. \A t \in Tokens : Claimed(j, t) \in Job
  BY CounterBounds DEF Claimed, Job, JobStates, ActiveJobStates
<1>4. Released(j) \in Job
  BY CounterBounds DEF Released, Job
<1>5. Finished(j) \in Job
  BY <1>4 DEF Finished, Job, JobStates
<1>6. Requeued(j) \in Job
  BY <1>4 DEF Requeued, Job, JobStates, ActiveJobStates
<1>7. \A class : FailedOnce(j, class) \in Job
  BY <1>4 DEF FailedOnce, Job, JobStates, ActiveJobStates
<1>8. QED
  BY <1>1, <1>2, <1>3, <1>5, <1>6, <1>7

\* The writes of TransactionRefreshService on a target give a target, and the
\* state it derives for a run is a run state.
LEMMA TargetWrites ==
    ASSUME NEW t \in Target
    PROVE  /\ Reserved(t) \in Target
           /\ \A plan \in Plans : Prepared(t, plan) \in Target
           /\ \A answer \in ProviderAnswers : Recorded(t, answer) \in Target
           /\ Unknown(t) \in Target
           /\ Unreserved(t) \in Target
           /\ \A changed \in BOOLEAN : Completed(t, changed) \in Target
           /\ \A reconnect \in BOOLEAN : MarkedFailed(t, reconnect) \in Target
<1> USE DEF Target, Outcomes, ActiveTargetStates, FinalTargetStates,
            AcceptableTargetStates
<1>1. Reserved(t) \in Target
  BY DEF Reserved
<1>2. \A plan \in Plans : Prepared(t, plan) \in Target
  BY DEF Prepared, Plans
<1>3. \A answer \in ProviderAnswers : Recorded(t, answer) \in Target
  BY DEF Recorded, ProviderAnswers, FailureCodes, OwnerActionCodes, ReconnectCodes
<1>4. /\ Unknown(t) \in Target
      /\ Unreserved(t) \in Target
  BY DEF Unknown, Unreserved
<1>5. \A changed \in BOOLEAN : Completed(t, changed) \in Target
  BY DEF Completed, CompletedState
<1>6. \A reconnect \in BOOLEAN : MarkedFailed(t, reconnect) \in Target
  BY DEF MarkedFailed
<1>7. QED
  BY <1>1, <1>2, <1>3, <1>4, <1>5, <1>6

\* derive_run leaves the state or gives a final one.
LEMMA RunWrites ==
    ASSUME NEW s \in RunStates, NEW ts
    PROVE  DerivedRun(s, ts) \in RunStates
  BY DEF DerivedRun, RunStates, FinalRunStates, ActiveRunStates

-----------------------------------------------------------------------------
(* Tables and frames keep their type *)

\* The target a worker handles is a row of the table.
LEMMA RowTyped ==
    ASSUME TypeOK, FramesFit, NEW w \in Workers, worker[w].pc \in RowPhases
    PROVE  /\ worker[w].run \in Runs
           /\ worker[w].conn \in Conns
           /\ Row(w) \in Target
  BY DEF TypeOK, FramesFit, RowPhases, Row

\* Replacing that row gives a table of targets.
LEMMA WithRowTyped ==
    ASSUME TypeOK, NEW w \in Workers, worker[w].run \in Runs,
           worker[w].conn \in Conns, NEW row \in Target
    PROVE  WithRow(w, row) \in [Runs -> [Conns -> Target]]
  BY DEF TypeOK, WithRow

\* Deriving the runs again, whatever the targets say, gives run states.
LEMMA RederivedTyped ==
    ASSUME TypeOK, NEW runs, NEW targets
    PROVE  Rederived(runs, targets) \in [Runs -> RunStates]
  BY RunWrites DEF TypeOK, Rederived

\* Completing or failing the targets of a connection gives a table of targets.
LEMMA RowsTyped ==
    ASSUME TypeOK, NEW c \in Conns, NEW runs \in SUBSET Runs, NEW b \in BOOLEAN
    PROVE  /\ CompletedRows(c, runs, b) \in [Runs -> [Conns -> Target]]
           /\ FailedRows(c, runs, b) \in [Runs -> [Conns -> Target]]
<1>1. \A r \in Runs : /\ [target[r] EXCEPT ![c] = Completed(@, b)] \in [Conns -> Target]
                      /\ [target[r] EXCEPT ![c] = MarkedFailed(@, b)] \in [Conns -> Target]
  BY TargetWrites DEF TypeOK
<1>2. QED
  BY <1>1 DEF TypeOK, CompletedRows, FailedRows

\* The moves a worker's frame makes give a frame.
Results == Plans \cup ProviderAnswers \cup SyncErrorClasses \cup {None}

LEMMA FrameMoves ==
    ASSUME TypeOK, NEW w \in Workers
    PROVE  /\ [worker EXCEPT ![w] = IdleFrame] \in [Workers -> Frame]
           /\ \A phase \in Phases :
                 [worker EXCEPT ![w].pc = phase] \in [Workers -> Frame]
           /\ \A phase \in Phases, result \in Results :
                 [worker EXCEPT ![w].pc = phase, ![w].result = result]
                    \in [Workers -> Frame]
           /\ \A phase \in Phases, r \in Runs :
                 [worker EXCEPT ![w].pc = phase, ![w].run = r]
                    \in [Workers -> Frame]
           /\ \A phase \in Phases, n \in Nat :
                 [worker EXCEPT ![w].pc = phase, ![w].run = None, ![w].cursor = n]
                    \in [Workers -> Frame]
<1>1. IdleFrame \in Frame
  BY DEF IdleFrame, Frame, Phases
<1>2. worker \in [Workers -> Frame] /\ worker[w] \in Frame
  BY DEF TypeOK
<1>3. ASSUME NEW phase \in Phases
      PROVE  /\ [worker[w] EXCEPT !.pc = phase] \in Frame
             /\ \A result \in Results :
                   [worker[w] EXCEPT !.pc = phase, !.result = result] \in Frame
             /\ \A r \in Runs :
                   [worker[w] EXCEPT !.pc = phase, !.run = r] \in Frame
             /\ \A n \in Nat : [worker[w] EXCEPT !.pc = phase, !.run = None,
                                                 !.cursor = n] \in Frame
  BY <1>2 DEF Frame, Results
<1>4. QED
  BY <1>1, <1>2, <1>3

\* The phases and results that run_once names.
LEMMA PhaseNames ==
    /\ "idle" \in Phases /\ "reserve_read" \in Phases
    /\ "reserve_write" \in Phases /\ "prepare_read" \in Phases
    /\ "prepare_write" \in Phases /\ "dispatch" \in Phases
    /\ "record_read" \in Phases /\ "record_write" \in Phases
    /\ "finish" \in Phases /\ "sync_start" \in Phases
    /\ "collect" \in Phases /\ "apply" \in Phases
    /\ "fail" \in Phases
    /\ Plans \subseteq Results
    /\ RefreshAnswers \subseteq Results
    /\ SyncErrors \subseteq Results
    /\ SyncErrorClasses \subseteq Results
    /\ None \in Results
    /\ \A plan : AfterPlan(plan) \in Phases
    /\ \A answer : AfterAnswer(answer) \in Phases
    /\ \A c : Plan(c) \in Plans
  BY AnswersAssumption, ErrorsAssumption
     DEF Phases, Results, AfterPlan, AfterAnswer, Plan, Plans

-----------------------------------------------------------------------------
(* The type invariant is preserved *)

\* enqueue_sync for a set of connections, as part of any request.
LEMMA EnqueueTyped ==
    ASSUME TypeOK, NEW cs \in SUBSET Conns, EnqueueAll(cs)
    PROVE  /\ conn' \in [Conns -> Connection]
           /\ job' \in [Conns -> Job]
<1>1. ASSUME NEW c \in Conns
      PROVE  /\ [conn[c] EXCEPT !.requested = @ + 1] \in Connection
             /\ conn[c].requested + 1 \in Nat
  <2>1. conn[c] \in Connection
    BY DEF TypeOK
  <2>2. QED
    BY <2>1 DEF Connection
<1>2. \A c \in Conns : Enqueued(job[c], conn[c].requested + 1) \in Job
  BY <1>1, JobWrites DEF TypeOK
<1>3. QED
  BY <1>1, <1>2 DEF EnqueueAll, TypeOK

\* Every request leaves tables of the right type.
LEMMA RequestsTyped ==
    ASSUME TypeOK,
           \/ \E c \in Conns : Link(c) \/ EnqueueSync(c) \/ Disconnect(c)
           \/ \E r \in Runs : CreateRun(r)
    PROVE  TypeOK'
<1>1. ASSUME NEW c \in Conns, Link(c) PROVE TypeOK'
  <2>1. conn' \in [Conns -> Connection]
    BY ZenonT(30), <1>1 DEF Link, TypeOK, Connection
  <2>2. job' \in [Conns -> Job]
    BY <1>1, JobWrites DEF Link, TypeOK
  <2>3. QED
    BY <1>1, <2>1, <2>2 DEF Link, TypeOK, history
<1>2. ASSUME NEW c \in Conns, EnqueueSync(c) PROVE TypeOK'
  <2>1. /\ conn' \in [Conns -> Connection]
        /\ job' \in [Conns -> Job]
    BY <1>2, EnqueueTyped DEF EnqueueSync
  <2>2. QED
    BY <1>2, <2>1 DEF EnqueueSync, TypeOK, history
<1>3. ASSUME NEW c \in Conns, Disconnect(c) PROVE TypeOK'
  <2>1. conn' \in [Conns -> Connection]
    BY ZenonT(30), <1>3 DEF Disconnect, TypeOK, Connection
  <2>2. QED
    BY <1>3, <2>1 DEF Disconnect, TypeOK, history
<1>4. ASSUME NEW r \in Runs, CreateRun(r) PROVE TypeOK'
  <2> DEFINE covered == {c \in Conns : Active(c)}
  <2>1. EnqueueAll(covered)
    BY <1>4 DEF CreateRun
  <2>2. /\ conn' \in [Conns -> Connection]
        /\ job' \in [Conns -> Job]
    BY <2>1, EnqueueTyped, covered \in SUBSET Conns
  <2>3. run' \in [Runs -> RunStates]
    BY <1>4 DEF CreateRun, TypeOK, RunStates, ActiveRunStates
  <2>4. \A c \in Conns : /\ NewTarget(conn[c].requested + 1) \in Target
                         /\ NoTarget \in Target
    BY DEF NewTarget, NoTarget, Target, TypeOK, Connection, Outcomes,
           ActiveTargetStates
  <2>5. target' \in [Runs -> [Conns -> Target]]
    BY <1>4, <2>4 DEF CreateRun, TypeOK
  <2>6. QED
    BY <1>4, <2>2, <2>3, <2>5 DEF CreateRun, TypeOK, history
<1>5. QED
  BY <1>1, <1>2, <1>3, <1>4

\* The refresh phase of a worker does.
LEMMA RefreshPhaseTyped ==
    ASSUME TypeOK, FramesFit, NEW w \in Workers,
           \/ ReserveRead(w) \/ ReserveWrite(w) \/ PrepareRead(w)
           \/ PrepareWrite(w) \/ Dispatch(w) \/ RecordRead(w) \/ RecordWrite(w)
    PROVE  TypeOK'
<1>1. CASE ReserveRead(w)
  <2>1. \A r \in Reservable(w) : r \in Runs
    BY DEF Reservable
  <2>2. ASSUME Goto(w, "sync_start") PROVE worker' \in [Workers -> Frame]
    BY <2>2, FrameMoves, PhaseNames DEF Goto
  <2>3. ASSUME NEW r \in Runs,
               worker' = [worker EXCEPT ![w].pc = "reserve_write", ![w].run = r]
        PROVE  worker' \in [Workers -> Frame]
    BY <2>3, FrameMoves, PhaseNames
  <2>4. worker' \in [Workers -> Frame]
    BY <1>1, <2>1, <2>2, <2>3 DEF ReserveRead
  <2>5. QED
    BY <1>1, <2>4 DEF ReserveRead, TypeOK, tables, history
<1>2. CASE ReserveWrite(w)
  <2>1. target' \in [Runs -> [Conns -> Target]]
    BY <1>2, RowTyped, WithRowTyped, TargetWrites DEF ReserveWrite, RowPhases
  <2>2. run' \in [Runs -> RunStates]
    BY <1>2 DEF ReserveWrite, TypeOK, RunStates, ActiveRunStates
  <2>3. worker' \in [Workers -> Frame]
    BY <1>2, FrameMoves, PhaseNames DEF ReserveWrite, Goto
  <2>4. QED
    BY <1>2, <2>1, <2>2, <2>3 DEF ReserveWrite, TypeOK, history
<1>3. CASE PrepareRead(w)
  <2>1. ASSUME Goto(w, "sync_start") PROVE worker' \in [Workers -> Frame]
    BY <2>1, FrameMoves, PhaseNames DEF Goto
  <2>2. ASSUME worker' = [worker EXCEPT ![w].pc = "prepare_write",
                                        ![w].result = Plan(worker[w].conn)]
        PROVE  worker' \in [Workers -> Frame]
    BY <2>2, FrameMoves, PhaseNames
  <2>3. worker' \in [Workers -> Frame]
    BY <1>3, <2>1, <2>2 DEF PrepareRead
  <2>4. QED
    BY <1>3, <2>3 DEF PrepareRead, TypeOK, tables, history
<1>4. CASE PrepareWrite(w)
  <2> DEFINE row == Prepared(Row(w), worker[w].result)
  <2>1. /\ worker[w].run \in Runs
        /\ worker[w].conn \in Conns
        /\ row \in Target
    BY <1>4, RowTyped, TargetWrites DEF PrepareWrite, FramesFit, RowPhases
  <2>2. /\ target' = WithRow(w, row)
        /\ run' = run \/ run' = Rederived({worker[w].run}, WithRow(w, row))
    BY <1>4 DEF PrepareWrite
  <2>3. target' \in [Runs -> [Conns -> Target]]
    BY <2>1, <2>2, WithRowTyped
  <2>4. run' \in [Runs -> RunStates]
    BY <2>2, RederivedTyped DEF TypeOK
  <2>5. conn' \in [Conns -> Connection]
    BY <1>4 DEF PrepareWrite, TypeOK, Connection
  <2>6. worker' \in [Workers -> Frame]
    BY <1>4, FrameMoves, PhaseNames DEF PrepareWrite
  <2>7. QED
    BY <1>4, <2>3, <2>4, <2>5, <2>6 DEF PrepareWrite, TypeOK, history
<1>5. CASE Dispatch(w)
  <2>1. worker' \in [Workers -> Frame]
    <3>1. PICK answer \in RefreshAnswers :
             worker' = [worker EXCEPT ![w].pc = "record_read", ![w].result = answer]
      BY <1>5 DEF Dispatch
    <3>2. QED
      BY <3>1, FrameMoves, PhaseNames
  <2>2. \A n \in 0 .. 2 : Capped(n) \in 0 .. 2
    BY DEF Capped
  <2>3. /\ calls' \in [Runs -> [Conns -> 0 .. 2]]
        /\ window' \in [Conns -> 0 .. 2]
    <3> DEFINE r == worker[w].run
               c == worker[w].conn
    <3>1. /\ r \in Runs
          /\ c \in Conns
      BY <1>5, RowTyped DEF Dispatch, RowPhases
    <3>2. /\ calls' = [calls EXCEPT ![r][c] = Capped(@)]
          /\ window' = [window EXCEPT ![c] = Capped(@)]
      BY <1>5 DEF Dispatch
    <3> HIDE DEF r, c
    <3>3. QED
      BY <2>2, <3>1, <3>2 DEF TypeOK
  <2>4. QED
    BY <1>5, <2>1, <2>3 DEF Dispatch, TypeOK, tables
<1>6. CASE RecordRead(w)
  <2>1. ASSUME Goto(w, "record_write") PROVE worker' \in [Workers -> Frame]
    BY <2>1, FrameMoves, PhaseNames DEF Goto
  <2>2. ASSUME Abandon(w) PROVE worker' \in [Workers -> Frame]
    BY <2>2, FrameMoves DEF Abandon
  <2>3. worker' \in [Workers -> Frame]
    BY <1>6, <2>1, <2>2 DEF RecordRead
  <2>4. QED
    BY <1>6, <2>3 DEF RecordRead, TypeOK, tables, history
<1>7. CASE RecordWrite(w)
  <2> DEFINE row == Recorded(Row(w), worker[w].result)
  <2>1. /\ worker[w].run \in Runs
        /\ worker[w].conn \in Conns
        /\ row \in Target
    BY <1>7, RowTyped, TargetWrites DEF RecordWrite, FramesFit, RowPhases
  <2>2. /\ target' = WithRow(w, row)
        /\ run' = run \/ run' = Rederived({worker[w].run}, WithRow(w, row))
    BY <1>7 DEF RecordWrite
  <2>3. target' \in [Runs -> [Conns -> Target]]
    BY <2>1, <2>2, WithRowTyped
  <2>4. run' \in [Runs -> RunStates]
    BY <2>2, RederivedTyped DEF TypeOK
  <2>5. conn' \in [Conns -> Connection]
    BY ZenonT(30), <1>7 DEF RecordWrite, TypeOK, Connection
  <2>6. worker' \in [Workers -> Frame]
    <3> DEFINE answer == worker[w].result
               kept == IF AfterAnswer(answer) = "finish" THEN answer ELSE None
    <3>1. answer \in Results /\ None \in Results
      BY <1>7, PhaseNames DEF RecordWrite, FramesFit, Results
    <3>2. kept \in Results
      BY <3>1
    <3>3. AfterAnswer(answer) \in Phases
      BY PhaseNames DEF AfterAnswer
    <3>4. worker' = [worker EXCEPT ![w].pc = AfterAnswer(answer), ![w].result = kept]
      BY <1>7 DEF RecordWrite
    <3>5. QED
      BY <3>2, <3>3, <3>4, FrameMoves
  <2>7. QED
    BY <1>7, <2>3, <2>4, <2>5, <2>6 DEF RecordWrite, TypeOK, history
<1>8. QED
  BY <1>1, <1>2, <1>3, <1>4, <1>5, <1>6, <1>7

\* The sync phase and the failures of a worker do.
LEMMA SyncPhaseTyped ==
    ASSUME TypeOK, FramesFit, NEW w \in Workers,
           \/ Claim(w) \/ FinishWithoutSync(w) \/ SyncStart(w) \/ SyncCollect(w)
           \/ SyncApply(w) \/ RecordFailure(w) \/ WriteConflict(w) \/ LocalError(w)
    PROVE  TypeOK'
<1>a. ASSUME Abandon(w) PROVE worker' \in [Workers -> Frame]
  BY <1>a, FrameMoves DEF Abandon
<1>b. ASSUME NEW class \in SyncErrorClasses, Fail(w, class)
      PROVE  worker' \in [Workers -> Frame]
  BY <1>b, FrameMoves, PhaseNames DEF Fail
<1>c. ASSUME NEW phase \in Phases, Goto(w, phase)
      PROVE  worker' \in [Workers -> Frame]
  BY <1>c, FrameMoves DEF Goto
<1>1. CASE Claim(w)
  <2>1. PICK c \in Conns, t \in FreshTokens :
          /\ job' = [job EXCEPT ![c] = Claimed(@, t)]
          /\ worker' = [worker EXCEPT ![w] =
                [IdleFrame EXCEPT !.pc = "reserve_read", !.conn = c,
                                  !.token = t, !.gen = job[c].target]]
    BY <1>1 DEF Claim
  <2>2. t \in Tokens
    BY <2>1 DEF FreshTokens
  <2>3. job' \in [Conns -> Job]
    BY <2>1, <2>2, JobWrites DEF TypeOK
  <2>4. job[c].target \in Nat
    BY <2>1 DEF TypeOK, Job
  <2>5. [IdleFrame EXCEPT !.pc = "reserve_read", !.conn = c, !.token = t,
                          !.gen = job[c].target] \in Frame
    BY <2>1, <2>2, <2>4 DEF IdleFrame, Frame, Phases
  <2>6. worker' \in [Workers -> Frame]
    BY <2>1, <2>5 DEF TypeOK
  <2>7. QED
    BY <1>1, <2>3, <2>6 DEF Claim, TypeOK, history
<1>2. CASE FinishWithoutSync(w)
  <2>1. job' \in [Conns -> Job]
    BY <1>2, JobWrites DEF FinishWithoutSync, TypeOK
  <2>2. QED
    BY <1>2, <1>a, <2>1 DEF FinishWithoutSync, TypeOK, history
<1>3. CASE SyncStart(w)
  <2>1. ASSUME worker' = [worker EXCEPT ![w].pc = "collect", ![w].run = None,
                                        ![w].cursor = conn[worker[w].conn].cursor]
        PROVE  worker' \in [Workers -> Frame]
    <3>1. conn[worker[w].conn].cursor \in Nat
      BY <1>3 DEF TypeOK, Connection, FramesFit, SyncStart
    <3>2. QED
      BY <2>1, <3>1, FrameMoves, PhaseNames
  <2>2. worker' \in [Workers -> Frame]
    BY <1>3, <1>a, <1>b, <2>1 DEF SyncStart, SyncErrorClasses
  <2>3. QED
    BY <1>3, <2>2 DEF SyncStart, TypeOK, tables, history
<1>4. CASE SyncCollect(w)
  <2>1. worker' \in [Workers -> Frame]
    BY <1>4, <1>b, <1>c, PhaseNames, ErrorsAssumption DEF SyncCollect
  <2>2. QED
    BY <1>4, <2>1 DEF SyncCollect, TypeOK, tables, history
<1>5. CASE SyncApply(w)
  <2> DEFINE c == worker[w].conn
             gen == worker[w].gen
             covered == Completable(c, gen)
  <2>1. worker' \in [Workers -> Frame]
    BY <1>5, <1>a DEF SyncApply
  <2>2. CASE UNCHANGED tables
    BY <1>5, <2>1, <2>2 DEF SyncApply, TypeOK, tables, history
  <2>3. ASSUME NEW changed \in BOOLEAN,
               target' = CompletedRows(c, covered, changed),
               run' = Rederived(covered, CompletedRows(c, covered, changed)),
               conn' = [conn EXCEPT ![c].completed = gen,
                                    ![c].cursor = IF changed THEN gen ELSE @],
               job' = [job EXCEPT ![c] = AfterPass(@, conn[c].requested > gen)]
        PROVE  TypeOK'
    <3>1. c \in Conns /\ gen \in Nat /\ covered \in SUBSET Runs
      BY <1>5 DEF SyncApply, FramesFit, TypeOK, Frame, Completable
    <3>2. target' \in [Runs -> [Conns -> Target]]
      BY <2>3, <3>1, RowsTyped
    <3>3. run' \in [Runs -> RunStates]
      BY <2>3, RederivedTyped
    <3>4. conn' \in [Conns -> Connection]
      <4>1. conn[c] \in Connection
        BY <3>1 DEF TypeOK
      <4>2. [conn[c] EXCEPT !.completed = gen,
                            !.cursor = IF changed THEN gen ELSE @] \in Connection
        BY <3>1, <4>1 DEF Connection
      <4>3. QED
        BY <2>3, <4>2 DEF TypeOK
    <3>5. job' \in [Conns -> Job]
      BY <2>3, <3>1, JobWrites DEF TypeOK, AfterPass
    <3>6. QED
      BY <1>5, <2>1, <3>2, <3>3, <3>4, <3>5 DEF SyncApply, TypeOK, history
  <2>4. QED
    BY <1>5, <2>2, <2>3 DEF SyncApply
<1>6. CASE RecordFailure(w)
  <2> DEFINE c == worker[w].conn
             class == worker[w].result
             ended == IF Retryable(job[c], class) THEN {} ELSE Unfinished(c)
             owner == class = "owner_action"
  <2>1. c \in Conns /\ ended \in SUBSET Runs
    BY <1>6 DEF RecordFailure, FramesFit, Unfinished
  <2>2. worker' \in [Workers -> Frame]
    BY <1>6, <1>a DEF RecordFailure
  <2>3. job' \in [Conns -> Job]
    <3>1. FailedOnce(job[c], class) \in Job
      BY <2>1, JobWrites DEF TypeOK
    <3>2. job' = job \/ job' = [job EXCEPT ![c] = FailedOnce(@, class)]
      BY <1>6 DEF RecordFailure
    <3>3. QED
      BY <3>1, <3>2 DEF TypeOK
  <2>4. target' \in [Runs -> [Conns -> Target]]
    <3>1. target' = target \/ target' = FailedRows(c, ended, owner)
      BY <1>6 DEF RecordFailure
    <3>2. owner \in BOOLEAN
      OBVIOUS
    <3>3. FailedRows(c, ended, owner) \in [Runs -> [Conns -> Target]]
      BY <2>1, <3>2, RowsTyped
    <3>4. QED
      BY <3>1, <3>3 DEF TypeOK
  <2>5. run' \in [Runs -> RunStates]
    BY <1>6, RederivedTyped DEF RecordFailure, TypeOK
  <2>6. QED
    BY <1>6, <2>2, <2>3, <2>4, <2>5 DEF RecordFailure, TypeOK, history
<1>7. CASE WriteConflict(w)
  <2>1. worker' \in [Workers -> Frame]
    BY <1>7, <1>b DEF WriteConflict, SyncErrorClasses
  <2>2. QED
    BY <1>7, <2>1 DEF WriteConflict, TypeOK, tables, history
<1>8. CASE LocalError(w)
  <2>1. worker' \in [Workers -> Frame]
    BY <1>8, <1>a, <1>b DEF LocalError, SyncErrorClasses
  <2>2. QED
    BY <1>8, <2>1 DEF LocalError, TypeOK, tables, history
<1>9. QED
  BY <1>1, <1>2, <1>3, <1>4, <1>5, <1>6, <1>7, <1>8

\* Leases, recovery, crashes and time do.
LEMMA EnvironmentTyped ==
    ASSUME TypeOK,
           \/ \E w \in Workers : Heartbeat(w) \/ Crash(w)
           \/ \E c \in Conns : \/ LeaseTick(c) \/ LeaseStall(c)
                               \/ BackoffElapses(c) \/ CooldownElapses(c)
           \/ RecoverRead \/ RecoverWrite
    PROVE  TypeOK'
<1>1. ASSUME NEW w \in Workers, Heartbeat(w) PROVE TypeOK'
  <2>1. job' \in [Conns -> Job]
    BY <1>1, CounterBounds DEF Heartbeat, TypeOK, Job
  <2>2. QED
    BY <1>1, <2>1 DEF Heartbeat, TypeOK, history
<1>2. ASSUME NEW w \in Workers, Crash(w) PROVE TypeOK'
  <2>1. worker' \in [Workers -> Frame]
    BY <1>2, FrameMoves DEF Crash, Abandon
  <2>2. recovery' \in Recovery
    <3>1. NoRecovery \in Recovery
      BY DEF NoRecovery, Recovery
    <3>2. QED
      BY <1>2, <3>1 DEF Crash, TypeOK
  <2>3. QED
    BY <1>2, <2>1, <2>2 DEF Crash, TypeOK, tables, history
<1>3. ASSUME NEW c \in Conns, LeaseTick(c) \/ LeaseStall(c) PROVE TypeOK'
  <2>1. ASSUME LeaseTick(c) PROVE [job[c] EXCEPT !.ttl = @ - 1] \in Job
    <3>1. job[c] \in Job /\ job[c].ttl > 0
      BY <2>1 DEF LeaseTick, TypeOK
    <3>2. job[c].ttl - 1 \in Ticks
      BY <3>1, CounterBounds DEF Job
    <3>3. QED
      BY <3>1, <3>2 DEF Job
  <2>2. [job[c] EXCEPT !.ttl = 0] \in Job
    BY CounterBounds DEF TypeOK, Job
  <2>3. job' \in [Conns -> Job]
    BY <1>3, <2>1, <2>2 DEF LeaseTick, LeaseStall, TypeOK
  <2>4. mishaps' \in Nat
    BY <1>3 DEF LeaseTick, LeaseStall, TypeOK
  <2>5. QED
    BY <1>3, <2>3, <2>4 DEF LeaseTick, LeaseStall, TypeOK, history
<1>4. ASSUME NEW c \in Conns, BackoffElapses(c) PROVE TypeOK'
  <2>1. job' \in [Conns -> Job]
    BY <1>4 DEF BackoffElapses, TypeOK, Job
  <2>2. QED
    BY <1>4, <2>1 DEF BackoffElapses, TypeOK, history
<1>5. ASSUME NEW c \in Conns, CooldownElapses(c) PROVE TypeOK'
  <2>1. conn' \in [Conns -> Connection]
    BY <1>5 DEF CooldownElapses, TypeOK, Connection
  <2>2. QED
    BY <1>5, <2>1 DEF CooldownElapses, TypeOK
<1>6. CASE RecoverRead
  <2>1. recovery' \in Recovery
    BY <1>6 DEF RecoverRead, Recovery, Interrupted
  <2>2. QED
    BY <1>6, <2>1 DEF RecoverRead, TypeOK, tables, history
<1>7. CASE RecoverWrite
  <2>1. RecoveredRows \in [Runs -> [Conns -> Target]]
    BY TargetWrites DEF RecoveredRows, TypeOK
  <2>2. target' \in [Runs -> [Conns -> Target]]
    BY <1>7, <2>1 DEF RecoverWrite, TypeOK
  <2>3. job' \in [Conns -> Job]
    BY <1>7, JobWrites DEF RecoverWrite, TypeOK
  <2>4. recovery' \in Recovery
    BY <1>7 DEF RecoverWrite, NoRecovery, Recovery
  <2>5. QED
    BY <1>7, <2>2, <2>3, <2>4 DEF RecoverWrite, TypeOK, history
<1>8. QED
  BY <1>1, <1>2, <1>3, <1>4, <1>5, <1>6, <1>7

\* Every step keeps the type invariant.
LEMMA NextTyped ==
    ASSUME TypeOK, FramesFit, [Next]_vars
    PROVE  TypeOK'
<1>1. CASE UNCHANGED vars
  BY <1>1 DEF vars, TypeOK
<1>2. ASSUME NEW w \in Workers, WorkerStep(w) \/ LocalError(w) PROVE TypeOK'
  BY <1>2, RefreshPhaseTyped, SyncPhaseTyped DEF WorkerStep
<1>3. QED
  BY <1>1, <1>2, RequestsTyped, EnvironmentTyped DEF Next

-----------------------------------------------------------------------------
(* Frames fit the steps they are at *)

\* A step that leaves every other worker alone has only its own to fit.
FrameFits(w) ==
    /\ worker[w].pc # "idle" => worker[w].conn \in Conns
    /\ worker[w].pc = "idle" => worker[w].conn = None
    /\ worker[w].pc \in RowPhases => worker[w].run \in Runs
    /\ worker[w].pc = "prepare_write" => worker[w].result \in Plans
    /\ worker[w].pc \in {"record_read", "record_write"} =>
          worker[w].result \in ProviderAnswers

\* Every step keeps the workers' frames fit for the step they are at.
LEMMA NextFits ==
    ASSUME TypeOK, FramesFit, [Next]_vars
    PROVE  FramesFit'
<1> USE DEF FramesFit, RowPhases
<1>1. CASE worker' = worker
  BY <1>1
<1>2. ASSUME NEW w \in Workers,
             \A v \in Workers : v # w => worker'[v] = worker[v],
             FrameFits(w)'
      PROVE  FramesFit'
  BY <1>2 DEF FrameFits
<1>3. ASSUME NEW w \in Workers, Abandon(w) PROVE FramesFit'
  BY <1>3, <1>2 DEF Abandon, FrameFits, IdleFrame, TypeOK
<1>4. ASSUME NEW w \in Workers, NEW class, worker[w].pc # "idle", Fail(w, class)
      PROVE  FramesFit'
  BY <1>4, <1>2 DEF Fail, FrameFits, TypeOK, Frame
<1>5. ASSUME NEW w \in Workers, worker[w].pc # "idle",
             NEW phase \in {"sync_start", "apply", "finish"}, Goto(w, phase)
      PROVE  FramesFit'
  BY <1>5, <1>2 DEF Goto, FrameFits, TypeOK, Frame
<1>6. ASSUME NEW w \in Workers, Claim(w) PROVE FramesFit'
  BY <1>6, <1>2 DEF Claim, FrameFits, IdleFrame, TypeOK, Frame
<1>7. ASSUME NEW w \in Workers, ReserveRead(w) PROVE FramesFit'
  <2>1. ASSUME NEW r \in Reservable(w),
               worker' = [worker EXCEPT ![w].pc = "reserve_write", ![w].run = r]
        PROVE  FramesFit'
    <3>1. /\ r \in Runs
          /\ worker[w].conn \in Conns
      BY <1>7, <2>1 DEF ReserveRead, Reservable
    <3>2. FrameFits(w)'
      BY <2>1, <3>1 DEF FrameFits, TypeOK, Frame
    <3>3. \A v \in Workers : v # w => worker'[v] = worker[v]
      BY <2>1 DEF TypeOK
    <3>4. QED
      BY <1>2, <3>2, <3>3
  <2>2. QED
    BY <1>7, <1>5, <2>1 DEF ReserveRead
<1>8. ASSUME NEW w \in Workers, ReserveWrite(w) PROVE FramesFit'
  BY <1>8, <1>2 DEF ReserveWrite, Goto, FrameFits, TypeOK, Frame
<1>9. ASSUME NEW w \in Workers, PrepareRead(w) PROVE FramesFit'
  <2>1. ASSUME worker' = [worker EXCEPT ![w].pc = "prepare_write",
                                        ![w].result = Plan(worker[w].conn)]
        PROVE  FramesFit'
    BY <1>9, <2>1, <1>2, PhaseNames DEF PrepareRead, FrameFits, TypeOK, Frame
  <2>2. QED
    BY <1>9, <1>5, <2>1 DEF PrepareRead
<1>10. ASSUME NEW w \in Workers, PrepareWrite(w) PROVE FramesFit'
  BY SMTT(20), <1>10, <1>2 DEF PrepareWrite, AfterPlan, FrameFits, TypeOK, Frame
<1>11. ASSUME NEW w \in Workers, Dispatch(w) PROVE FramesFit'
  BY <1>11, <1>2, AnswersAssumption DEF Dispatch, FrameFits, TypeOK, Frame
<1>12. ASSUME NEW w \in Workers, RecordRead(w) PROVE FramesFit'
  <2>1. ASSUME Goto(w, "record_write") PROVE FramesFit'
    BY <1>12, <2>1, <1>2 DEF RecordRead, Goto, FrameFits, TypeOK, Frame
  <2>2. QED
    BY <1>12, <1>3, <2>1 DEF RecordRead
<1>13. ASSUME NEW w \in Workers, RecordWrite(w) PROVE FramesFit'
  BY <1>13, <1>2 DEF RecordWrite, AfterAnswer, FrameFits, TypeOK, Frame
<1>14. ASSUME NEW w \in Workers, SyncStart(w) PROVE FramesFit'
  <2>1. ASSUME worker' = [worker EXCEPT ![w].pc = "collect", ![w].run = None,
                                        ![w].cursor = conn[worker[w].conn].cursor]
        PROVE  FramesFit'
    BY <1>14, <2>1, <1>2 DEF SyncStart, FrameFits, TypeOK, Frame
  <2>2. QED
    BY <1>14, <1>3, <1>4, <2>1 DEF SyncStart
<1>15. ASSUME NEW w \in Workers, SyncCollect(w) PROVE FramesFit'
  BY <1>15, <1>4, <1>5 DEF SyncCollect
<1>16. ASSUME NEW w \in Workers,
              FinishWithoutSync(w) \/ SyncApply(w) \/ RecordFailure(w) \/ Crash(w)
       PROVE  FramesFit'
  BY <1>16, <1>3 DEF FinishWithoutSync, SyncApply, RecordFailure, Crash
<1>17. ASSUME NEW w \in Workers, WriteConflict(w) \/ LocalError(w)
       PROVE  FramesFit'
  BY <1>17, <1>3, <1>4 DEF WriteConflict, LocalError
<1>18. ASSUME \/ UNCHANGED vars
              \/ \E c \in Conns : \/ Link(c) \/ EnqueueSync(c) \/ Disconnect(c)
                                  \/ LeaseTick(c) \/ LeaseStall(c)
                                  \/ BackoffElapses(c) \/ CooldownElapses(c)
              \/ \E r \in Runs : CreateRun(r)
              \/ \E w \in Workers : Heartbeat(w)
              \/ RecoverRead \/ RecoverWrite
       PROVE  FramesFit'
  BY <1>18, <1>1 DEF vars, Link, EnqueueSync, Disconnect, LeaseTick, LeaseStall,
        BackoffElapses, CooldownElapses, CreateRun, Heartbeat, RecoverRead,
        RecoverWrite
<1>19. QED
  BY <1>3, <1>6, <1>7, <1>8, <1>9, <1>10, <1>11, <1>12, <1>13, <1>14, <1>15,
     <1>16, <1>17, <1>18 DEF Next, WorkerStep

-----------------------------------------------------------------------------
(* The generations of a connection stay in agreement *)

\* A step that asks for nothing, completes nothing and claims nothing: jobs can
\* only end or go back to the queue, and claims can only be given up.
QuietConns ==
    \A c \in Conns : /\ conn'[c].status = conn[c].status
                     /\ conn'[c].requested = conn[c].requested
                     /\ conn'[c].completed = conn[c].completed
QuietJobs ==
    \A c \in Conns :
        /\ job'[c].target = job[c].target
        /\ JobActive(job'[c]) => JobActive(job[c])
        /\ job'[c].state = "running" => /\ job[c].state = "running"
                                        /\ job'[c].token = job[c].token
QuietWorkers ==
    \A w \in Workers :
        \/ worker'[w].conn = None
        \/ /\ worker'[w].conn = worker[w].conn
           /\ worker'[w].token = worker[w].token
           /\ worker'[w].gen = worker[w].gen
Quiet == QuietConns /\ QuietJobs /\ QuietWorkers

\* A worker that holds its job after a quiet step held it before.
LEMMA QuietHolds ==
    ASSUME TypeOK, TypeOK', Quiet, NEW w \in Workers, Holds(w)'
    PROVE  /\ Holds(w)
           /\ worker[w].conn \in Conns
           /\ worker'[w].conn = worker[w].conn
           /\ worker'[w].gen = worker[w].gen
<1>1. /\ worker'[w].conn # None
      /\ job'[worker'[w].conn].state = "running"
      /\ job'[worker'[w].conn].token = worker'[w].token
  BY DEF Holds
<1>2. /\ worker'[w].conn = worker[w].conn
      /\ worker'[w].token = worker[w].token
      /\ worker'[w].gen = worker[w].gen
  BY <1>1 DEF Quiet, QuietWorkers
<1>3. worker[w].conn \in Conns
  BY <1>1, <1>2 DEF TypeOK, Frame
<1>4. QED
  BY <1>1, <1>2, <1>3 DEF Quiet, QuietConns, QuietJobs, Holds

\* A quiet step disturbs no part of the invariant.
LEMMA QuietKeeps ==
    ASSUME TypeOK, TypeOK', TokensDiffer, AbsentIsBlank, GenerationsAgree, Quiet
    PROVE  /\ TokensDiffer'
           /\ AbsentIsBlank'
           /\ GenerationsAgree'
<1>1. TokensDiffer'
  BY DEF TokensDiffer, Quiet, QuietWorkers
<1>2. AbsentIsBlank'
  BY DEF AbsentIsBlank, Quiet, QuietConns
<1>3. ASSUME NEW c \in Conns
      PROVE  /\ conn'[c].completed <= conn'[c].requested
             /\ JobActive(job'[c]) =>
                   /\ job'[c].target = conn'[c].requested
                   /\ conn'[c].completed < conn'[c].requested
  BY DEF GenerationsAgree, Quiet, QuietConns, QuietJobs
<1>4. ASSUME NEW w \in Workers, Holds(w)'
      PROVE  /\ conn'[worker'[w].conn].completed < worker'[w].gen
             /\ worker'[w].gen <= conn'[worker'[w].conn].requested
  BY <1>4, QuietHolds DEF GenerationsAgree, Quiet, QuietConns, QuietJobs
<1>5. QED
  BY <1>1, <1>2, <1>3, <1>4 DEF GenerationsAgree

\* The ways a worker's frame moves after the claim are quiet.
LEMMA QuietMoves ==
    ASSUME TypeOK, NEW w \in Workers
    PROVE  /\ Abandon(w) => QuietWorkers
           /\ \A phase : Goto(w, phase) => QuietWorkers
           /\ \A class : Fail(w, class) => QuietWorkers
           /\ \A phase, result :
                 worker' = [worker EXCEPT ![w].pc = phase, ![w].result = result]
                 => QuietWorkers
           /\ \A phase, r :
                 worker' = [worker EXCEPT ![w].pc = phase, ![w].run = r]
                 => QuietWorkers
           /\ \A phase, n :
                 worker' = [worker EXCEPT ![w].pc = phase, ![w].run = None,
                                          ![w].cursor = n]
                 => QuietWorkers
           /\ worker' = worker => QuietWorkers
<1>1. worker \in [Workers -> Frame] /\ worker[w] \in Frame
  BY DEF TypeOK
<1>2. ASSUME NEW frame, worker' = [worker EXCEPT ![w] = frame],
             \/ frame.conn = None
             \/ /\ frame.conn = worker[w].conn
                /\ frame.token = worker[w].token
                /\ frame.gen = worker[w].gen
      PROVE  QuietWorkers
  BY <1>1, <1>2 DEF QuietWorkers
<1>3. Abandon(w) => QuietWorkers
  BY <1>2 DEF Abandon, IdleFrame
<1>4. ASSUME NEW phase, Goto(w, phase) PROVE QuietWorkers
  <2> DEFINE frame == [worker[w] EXCEPT !.pc = phase]
  <2>1. /\ worker' = [worker EXCEPT ![w] = frame]
        /\ frame.conn = worker[w].conn
        /\ frame.token = worker[w].token
        /\ frame.gen = worker[w].gen
    BY <1>1, <1>4 DEF Goto, Frame
  <2>2. QED
    BY <1>2, <2>1
<1>5. ASSUME NEW phase, NEW result,
             worker' = [worker EXCEPT ![w].pc = phase, ![w].result = result]
      PROVE  QuietWorkers
  <2> DEFINE frame == [worker[w] EXCEPT !.pc = phase, !.result = result]
  <2>1. /\ worker' = [worker EXCEPT ![w] = frame]
        /\ frame.conn = worker[w].conn
        /\ frame.token = worker[w].token
        /\ frame.gen = worker[w].gen
    BY <1>1, <1>5 DEF Frame
  <2>2. QED
    BY <1>2, <2>1
<1>6. ASSUME NEW phase, NEW r,
             worker' = [worker EXCEPT ![w].pc = phase, ![w].run = r]
      PROVE  QuietWorkers
  <2> DEFINE frame == [worker[w] EXCEPT !.pc = phase, !.run = r]
  <2>1. /\ worker' = [worker EXCEPT ![w] = frame]
        /\ frame.conn = worker[w].conn
        /\ frame.token = worker[w].token
        /\ frame.gen = worker[w].gen
    BY <1>1, <1>6 DEF Frame
  <2>2. QED
    BY <1>2, <2>1
<1>7. ASSUME NEW phase, NEW n,
             worker' = [worker EXCEPT ![w].pc = phase, ![w].run = None,
                                      ![w].cursor = n]
      PROVE  QuietWorkers
  <2> DEFINE frame == [worker[w] EXCEPT !.pc = phase, !.run = None, !.cursor = n]
  <2>1. /\ worker' = [worker EXCEPT ![w] = frame]
        /\ frame.conn = worker[w].conn
        /\ frame.token = worker[w].token
        /\ frame.gen = worker[w].gen
    BY <1>1, <1>7 DEF Frame
  <2>2. QED
    BY <1>2, <2>1
<1>8. \A class : Fail(w, class) => QuietWorkers
  BY <1>5 DEF Fail
<1>9. worker' = worker => QuietWorkers
  BY DEF QuietWorkers
<1>10. QED
  BY <1>3, <1>4, <1>5, <1>6, <1>7, <1>8, <1>9

\* So is every way in which a job ends, goes back to the queue or keeps its
\* lease going.
LEMMA QuietWrites ==
    ASSUME NEW j \in Job, NEW k,
           \/ k = j \/ k = Finished(j) \/ k = Requeued(j)
           \/ \E class : k = FailedOnce(j, class)
           \/ \E n : k = [j EXCEPT !.ttl = n]
           \/ j.state = "queued" /\ k = [j EXCEPT !.due = TRUE],
           JobActive(k) => JobActive(j)
    PROVE  /\ k.target = j.target
           /\ k.state = "running" => j.state = "running" /\ k.token = j.token
  BY DEF Job, Finished, Requeued, FailedOnce, Released

\* Before a claim is given up, the job was running.
LEMMA QuietSteps ==
    ASSUME TypeOK, FramesFit,
           \/ UNCHANGED vars
           \/ \E w \in Workers :
                 \/ ReserveRead(w) \/ ReserveWrite(w) \/ PrepareRead(w)
                 \/ PrepareWrite(w) \/ Dispatch(w) \/ RecordRead(w)
                 \/ RecordWrite(w) \/ FinishWithoutSync(w) \/ SyncStart(w)
                 \/ SyncCollect(w) \/ (SyncApply(w) /\ UNCHANGED tables)
                 \/ RecordFailure(w) \/ WriteConflict(w) \/ LocalError(w)
                 \/ Heartbeat(w) \/ Crash(w)
           \/ \E c \in Conns : \/ LeaseTick(c) \/ LeaseStall(c)
                               \/ BackoffElapses(c) \/ CooldownElapses(c)
           \/ RecoverRead \/ RecoverWrite
    PROVE  Quiet
<1>1. conn' = conn => QuietConns
  BY DEF QuietConns
<1>2. job' = job => QuietJobs
  BY DEF QuietJobs
<1>3. ASSUME UNCHANGED vars PROVE Quiet
  BY <1>1, <1>2, <1>3 DEF Quiet, QuietWorkers, vars
<1>4. ASSUME NEW w \in Workers,
             \/ ReserveRead(w) \/ ReserveWrite(w) \/ PrepareRead(w)
             \/ PrepareWrite(w) \/ Dispatch(w) \/ RecordRead(w)
             \/ RecordWrite(w) \/ SyncStart(w) \/ SyncCollect(w)
      PROVE  Quiet
  <2>1. QuietJobs
    BY <1>2, <1>4 DEF ReserveRead, ReserveWrite, PrepareRead, PrepareWrite,
       Dispatch, RecordRead, RecordWrite, SyncStart, SyncCollect, tables
  <2>2. QuietConns
    <3>1. ASSUME NEW c, \/ conn' = [conn EXCEPT ![c].cooling = TRUE]
                        \/ conn' = [conn EXCEPT ![c].supported = FALSE]
          PROVE  QuietConns
      <4>1. \A d \in Conns : conn[d] \in Connection
        BY DEF TypeOK
      <4>2. \A d \in Conns : conn'[d] \in {conn[d], [conn[d] EXCEPT !.cooling = TRUE],
                                            [conn[d] EXCEPT !.supported = FALSE]}
        BY <3>1 DEF TypeOK
      <4>3. QED
        BY <4>1, <4>2 DEF QuietConns, Connection
    <3>2. ASSUME PrepareWrite(w) \/ RecordWrite(w) PROVE QuietConns
      <4> DEFINE c == worker[w].conn
      <4>1. \/ conn' = conn
            \/ conn' = [conn EXCEPT ![c].cooling = TRUE]
            \/ conn' = [conn EXCEPT ![c].supported = FALSE]
        BY <3>2 DEF PrepareWrite, RecordWrite
      <4> HIDE DEF c
      <4>2. QED
        BY <1>1, <3>1, <4>1
    <3>3. QED
      BY <1>1, <1>4, <3>2 DEF ReserveRead, ReserveWrite, PrepareRead, Dispatch,
         RecordRead, SyncStart, SyncCollect, tables
  <2>3. QuietWorkers
    <3>1. CASE ReserveRead(w)
      BY <3>1, QuietMoves DEF ReserveRead
    <3>2. CASE ReserveWrite(w) \/ RecordRead(w)
      BY <3>2, QuietMoves DEF ReserveWrite, RecordRead
    <3>3. CASE PrepareRead(w)
      BY <3>3, QuietMoves DEF PrepareRead
    <3>4. CASE PrepareWrite(w) \/ RecordWrite(w)
      BY <3>4, QuietMoves DEF PrepareWrite, RecordWrite
    <3>5. CASE Dispatch(w)
      BY <3>5, QuietMoves DEF Dispatch
    <3>6. CASE SyncStart(w)
      <4>1. ASSUME worker' = [worker EXCEPT ![w].pc = "collect", ![w].run = None,
                                            ![w].cursor = conn[worker[w].conn].cursor]
            PROVE  QuietWorkers
        BY <4>1, QuietMoves
      <4>2. QED
        BY <3>6, <4>1, QuietMoves DEF SyncStart
    <3>7. CASE SyncCollect(w)
      BY <3>7, QuietMoves DEF SyncCollect
    <3>8. QED
      BY <1>4, <3>1, <3>2, <3>3, <3>4, <3>5, <3>6, <3>7
  <2>4. QED
    BY <2>1, <2>2, <2>3 DEF Quiet
<1>5. ASSUME NEW w \in Workers,
             \/ SyncApply(w) /\ UNCHANGED tables
             \/ WriteConflict(w) \/ LocalError(w) \/ Crash(w)
      PROVE  Quiet
  <2>1. QuietJobs /\ QuietConns
    BY <1>1, <1>2, <1>5 DEF WriteConflict, LocalError, Crash, tables
  <2>2. QuietWorkers
    BY <1>5, QuietMoves DEF SyncApply, WriteConflict, LocalError, Crash
  <2>3. QED
    BY <2>1, <2>2 DEF Quiet
<1>6. ASSUME NEW w \in Workers, FinishWithoutSync(w) \/ RecordFailure(w)
      PROVE  Quiet
  <2>1. QuietConns
    BY <1>1, <1>6 DEF FinishWithoutSync, RecordFailure
  <2>2. QuietWorkers
    BY <1>6, QuietMoves DEF FinishWithoutSync, RecordFailure
  <2>3. ASSUME NEW c \in Conns
        PROVE  /\ job[c] \in Job
               /\ job'[c] # job[c] => job[c].state = "running"
               /\ \/ job'[c] = job[c] \/ job'[c] = Finished(job[c])
                  \/ \E class : job'[c] = FailedOnce(job[c], class)
    BY <1>6 DEF FinishWithoutSync, RecordFailure, Holds, TypeOK
  <2>4. QuietJobs
    BY <2>3, QuietWrites DEF QuietJobs, JobActive, ActiveJobStates
  <2>5. QED
    BY <2>1, <2>2, <2>4 DEF Quiet
<1>7. ASSUME NEW w \in Workers, Heartbeat(w) PROVE Quiet
  <2>1. ASSUME NEW c \in Conns
        PROVE  \E n : job'[c] = [job[c] EXCEPT !.ttl = n] \/ job'[c] = job[c]
    BY <1>7 DEF Heartbeat, TypeOK
  <2>2. \A c \in Conns : job[c] \in Job
    BY DEF TypeOK
  <2>3. QuietJobs
    BY <2>1, <2>2 DEF QuietJobs, Job, JobActive
  <2>4. QuietConns /\ QuietWorkers
    BY <1>1, <1>7, QuietMoves DEF Heartbeat
  <2>5. QED
    BY <2>3, <2>4 DEF Quiet
<1>8. ASSUME NEW c \in Conns,
             \/ LeaseTick(c) \/ LeaseStall(c) \/ BackoffElapses(c)
             \/ CooldownElapses(c)
      PROVE  Quiet
  <2>1. QuietConns
    <3>1. ASSUME CooldownElapses(c) PROVE QuietConns
      BY <3>1 DEF CooldownElapses, QuietConns, TypeOK, Connection
    <3>2. QED
      BY <1>1, <1>8, <3>1 DEF LeaseTick, LeaseStall, BackoffElapses
  <2>2. QuietWorkers
    BY <1>8 DEF LeaseTick, LeaseStall, BackoffElapses, CooldownElapses,
       QuietWorkers
  <2>3. QuietJobs
    <3>1. ASSUME NEW d \in Conns
          PROVE  /\ job[d] \in Job
                 /\ \/ job'[d] = job[d]
                    \/ \E n : job'[d] = [job[d] EXCEPT !.ttl = n]
                    \/ /\ job[d].state = "queued"
                       /\ job'[d] = [job[d] EXCEPT !.due = TRUE]
      BY ZenonT(30), <1>8 DEF LeaseTick, LeaseStall, BackoffElapses, CooldownElapses, TypeOK
    <3>2. QED
      BY ZenonT(30), <3>1 DEF QuietJobs, Job, JobActive
  <2>4. QED
    BY <2>1, <2>2, <2>3 DEF Quiet
<1>9. ASSUME RecoverRead \/ RecoverWrite PROVE Quiet
  <2>1. QuietConns
    BY <1>1, <1>9 DEF RecoverRead, RecoverWrite, tables
  <2>2. QuietWorkers
    BY <1>9 DEF RecoverRead, RecoverWrite, QuietWorkers
  <2>3. ASSUME NEW c \in Conns
        PROVE  /\ job[c] \in Job
               /\ \/ job'[c] = job[c]
                  \/ job[c].state = "running" /\ job'[c] = Requeued(job[c])
    BY <1>9 DEF RecoverRead, RecoverWrite, TypeOK, tables, Expired
  <2>4. QuietJobs
    BY <2>3, QuietWrites DEF QuietJobs, JobActive, ActiveJobStates
  <2>5. QED
    BY <2>1, <2>2, <2>4 DEF Quiet
<1>10. QED
  BY <1>3, <1>4, <1>5, <1>6, <1>7, <1>8, <1>9

\* What every request does to the connections it is for, and to no other.
Asked(cs) ==
    /\ worker' = worker
    /\ \A c \in cs :
          /\ conn'[c].status # "absent"
          /\ conn'[c].requested = conn[c].requested + 1
          /\ conn'[c].completed = conn[c].completed
          /\ job'[c] = Enqueued(job[c], conn[c].requested + 1)
    /\ \A c \in Conns \ cs : conn'[c] = conn[c] /\ job'[c] = job[c]

\* A request keeps the invariant: the job it leaves, whether coalesced or new,
\* has the new generation for its target.
LEMMA AskedKeeps ==
    ASSUME TypeOK, TypeOK', TokensDiffer, AbsentIsBlank, GenerationsAgree,
           NEW cs \in SUBSET Conns, Asked(cs)
    PROVE  /\ TokensDiffer'
           /\ AbsentIsBlank'
           /\ GenerationsAgree'
<1>1. TokensDiffer'
  BY DEF TokensDiffer, Asked
<1>2. AbsentIsBlank'
  BY DEF AbsentIsBlank, Asked
<1>3. ASSUME NEW c \in Conns
      PROVE  /\ job[c] \in Job
             /\ conn[c].requested \in Nat
             /\ conn[c].completed \in Nat
             /\ conn[c].completed <= conn[c].requested
  BY DEF TypeOK, Connection, GenerationsAgree
<1>4. ASSUME NEW c \in cs
      PROVE  /\ conn'[c].completed < conn'[c].requested
             /\ job'[c].target = conn'[c].requested
             /\ job'[c].state = "running" => /\ job[c].state = "running"
                                             /\ job'[c].token = job[c].token
  <2>1. /\ job'[c] = Enqueued(job[c], conn[c].requested + 1)
        /\ conn'[c].requested = conn[c].requested + 1
        /\ conn'[c].completed = conn[c].completed
        /\ c \in Conns
    BY <1>4 DEF Asked
  <2>2. /\ Enqueued(job[c], conn[c].requested + 1).target = conn[c].requested + 1
        /\ Enqueued(job[c], conn[c].requested + 1).state = "running" =>
              /\ job[c].state = "running"
              /\ Enqueued(job[c], conn[c].requested + 1).token = job[c].token
    BY <1>3, <2>1 DEF Enqueued, Job, NoJob
  <2>3. conn[c].completed < conn[c].requested + 1
    BY <1>3, <2>1
  <2>4. QED
    BY <2>1, <2>2, <2>3
<1>5. ASSUME NEW c \in Conns
      PROVE  /\ conn'[c].completed <= conn'[c].requested
             /\ JobActive(job'[c]) =>
                   /\ job'[c].target = conn'[c].requested
                   /\ conn'[c].completed < conn'[c].requested
  <2>1. CASE c \in cs
    <3>1. conn'[c].completed \in Nat /\ conn'[c].requested \in Nat
      BY <1>3, <2>1 DEF Asked
    <3>2. QED
      BY <1>4, <2>1, <3>1
  <2>2. CASE c \notin cs
    BY <2>2 DEF Asked, GenerationsAgree
  <2>3. QED
    BY <2>1, <2>2
<1>6. ASSUME NEW w \in Workers, Holds(w)'
      PROVE  /\ conn'[worker'[w].conn].completed < worker'[w].gen
             /\ worker'[w].gen <= conn'[worker'[w].conn].requested
  <2> DEFINE c == worker[w].conn
  <2>1. /\ worker'[w] = worker[w]
        /\ c # None
        /\ job'[c].state = "running"
        /\ job'[c].token = worker[w].token
    BY <1>6 DEF Holds, Asked
  <2>2. c \in Conns /\ worker[w].gen \in Nat
    BY <2>1 DEF TypeOK, Frame
  <2>3. Holds(w)
    BY <1>4, <2>1, <2>2 DEF Holds, Asked
  <2>4. /\ conn[c].completed < worker[w].gen
        /\ worker[w].gen <= conn[c].requested
    BY <2>3 DEF GenerationsAgree
  <2>5. /\ conn'[c].completed = conn[c].completed
        /\ conn'[c].requested \in {conn[c].requested, conn[c].requested + 1}
    BY <2>2 DEF Asked
  <2>6. QED
    BY <1>3, <2>1, <2>2, <2>4, <2>5
<1>7. QED
  BY <1>1, <1>2, <1>5, <1>6 DEF GenerationsAgree

\* Requests of every kind ask.
LEMMA RequestsAsk ==
    ASSUME TypeOK, AbsentIsBlank
    PROVE  /\ \A c \in Conns : Link(c) \/ EnqueueSync(c) => Asked({c})
           /\ \A r \in Runs : CreateRun(r) => Asked({c \in Conns : Active(c)})
<1>1. ASSUME NEW cs \in SUBSET Conns, EnqueueAll(cs), worker' = worker,
             \A c \in cs : Active(c)
      PROVE  Asked(cs)
  <2>1. \A c \in Conns : conn[c] \in Connection
    BY DEF TypeOK
  <2>2. QED
    BY <1>1, <2>1 DEF EnqueueAll, Asked, Active, Connection
<1>2. ASSUME NEW c \in Conns, Link(c) PROVE Asked({c})
  <2>1. conn[c] \in Connection /\ conn[c].requested = 0
    BY <1>2 DEF TypeOK, AbsentIsBlank, Link
  <2>2. /\ conn'[c] = [conn[c] EXCEPT !.status = "active", !.requested = 1]
        /\ job'[c] = Enqueued(job[c], 1)
        /\ worker' = worker
        /\ \A d \in Conns \ {c} : conn'[d] = conn[d] /\ job'[d] = job[d]
    BY <1>2 DEF Link, TypeOK
  <2>3. QED
    <3>1. /\ conn'[c].status = "active"
          /\ conn'[c].requested = 1
          /\ conn'[c].completed = conn[c].completed
      BY <2>1, <2>2 DEF Connection
    <3>2. conn[c].requested + 1 = 1
      BY <2>1
    <3>3. QED
      BY <2>2, <3>1, <3>2 DEF Asked
<1>3. ASSUME NEW c \in Conns, EnqueueSync(c) PROVE Asked({c})
  BY <1>1, <1>3 DEF EnqueueSync
<1>4. ASSUME NEW r \in Runs, CreateRun(r)
      PROVE  Asked({c \in Conns : Active(c)})
  BY <1>1, <1>4 DEF CreateRun
<1>5. QED
  BY <1>2, <1>3, <1>4

\* A claim keeps the invariant: its token is fresh, and the job it takes is
\* owed the newest generation.
LEMMA ClaimKeeps ==
    ASSUME TypeOK, TypeOK', TokensDiffer, AbsentIsBlank, GenerationsAgree,
           NEW w \in Workers, Claim(w)
    PROVE  /\ TokensDiffer'
           /\ AbsentIsBlank'
           /\ GenerationsAgree'
<1>1. PICK c \in Conns, t \in FreshTokens :
        /\ job[c].state = "queued"
        /\ job' = [job EXCEPT ![c] = Claimed(@, t)]
        /\ worker' = [worker EXCEPT ![w] =
              [IdleFrame EXCEPT !.pc = "reserve_read", !.conn = c,
                                !.token = t, !.gen = job[c].target]]
  BY DEF Claim
<1>2. /\ conn' = conn
      /\ worker'[w].conn = c
      /\ worker'[w].token = t
      /\ worker'[w].gen = job[c].target
      /\ \A v \in Workers \ {w} : worker'[v] = worker[v]
  BY ZenonT(30), <1>1 DEF Claim, IdleFrame, TypeOK
<1>3. \A v \in Workers : worker[v].token # t
  BY <1>1 DEF FreshTokens
<1>4. /\ job'[c].target = job[c].target
      /\ job'[c].token = t
      /\ \A d \in Conns \ {c} : job'[d] = job[d]
  BY <1>1 DEF Claimed, TypeOK, Job
<1>5. JobActive(job[c])
  BY <1>1 DEF JobActive, ActiveJobStates
<1>6. TokensDiffer'
  BY <1>2, <1>3 DEF TokensDiffer
<1>7. AbsentIsBlank'
  BY <1>2 DEF AbsentIsBlank
<1>8. ASSUME NEW d \in Conns
      PROVE  /\ conn'[d].completed <= conn'[d].requested
             /\ JobActive(job'[d]) =>
                   /\ job'[d].target = conn'[d].requested
                   /\ conn'[d].completed < conn'[d].requested
  BY <1>2, <1>4, <1>5 DEF GenerationsAgree
<1>9. ASSUME NEW v \in Workers, Holds(v)'
      PROVE  /\ conn'[worker'[v].conn].completed < worker'[v].gen
             /\ worker'[v].gen <= conn'[worker'[v].conn].requested
  <2>1. CASE v = w
    <3>1. conn[c].requested \in Nat
      BY DEF TypeOK, Connection
    <3>2. QED
      BY <1>2, <1>5, <2>1, <3>1 DEF GenerationsAgree
  <2>2. CASE v # w
    <3>1. worker[v].conn # c
      BY <1>2, <1>3, <1>4, <1>9, <2>2 DEF Holds
    <3>2. worker[v].conn \in Conns
      BY <1>2, <1>9, <2>2 DEF Holds, TypeOK, Frame
    <3>3. Holds(v)
      BY <1>2, <1>4, <1>9, <2>2, <3>1, <3>2 DEF Holds
    <3>4. QED
      BY <1>2, <2>2, <3>3 DEF GenerationsAgree
  <2>3. QED
    BY <2>1, <2>2
<1>10. QED
  BY <1>6, <1>7, <1>8, <1>9 DEF GenerationsAgree

\* What the commit of a pass does to the connection and its job.
LEMMA ApplyWrites ==
    ASSUME TypeOK, FramesFit, NEW w \in Workers, SyncApply(w), ~UNCHANGED tables
    PROVE  /\ HoldsLive(w)
           /\ Active(worker[w].conn)
           /\ worker[w].conn \in Conns
           /\ conn'[worker[w].conn].status = conn[worker[w].conn].status
           /\ conn'[worker[w].conn].requested = conn[worker[w].conn].requested
           /\ conn'[worker[w].conn].completed = worker[w].gen
           /\ job'[worker[w].conn].target = job[worker[w].conn].target
           /\ job'[worker[w].conn].state \in {"queued", "succeeded"}
           /\ JobActive(job'[worker[w].conn]) =>
                 conn[worker[w].conn].requested > worker[w].gen
           /\ \A d \in Conns \ {worker[w].conn} :
                 conn'[d] = conn[d] /\ job'[d] = job[d]
           /\ worker'[w].conn = None
           /\ \A v \in Workers \ {w} : worker'[v] = worker[v]
<1> DEFINE c == worker[w].conn
           gen == worker[w].gen
<1>1. c \in Conns /\ conn[c] \in Connection /\ job[c] \in Job
  BY DEF SyncApply, FramesFit, TypeOK
<1>2. /\ Appliable(w)
      /\ job' = [job EXCEPT ![c] = AfterPass(@, conn[c].requested > gen)]
      /\ \E changed \in BOOLEAN :
            conn' = [conn EXCEPT ![c].completed = gen,
                                 ![c].cursor = IF changed THEN gen ELSE @]
  BY DEF SyncApply
<1>3. PICK changed \in BOOLEAN :
         conn' = [conn EXCEPT ![c].completed = gen,
                              ![c].cursor = IF changed THEN gen ELSE @]
  BY <1>2
<1>4. /\ conn'[c] = [conn[c] EXCEPT !.completed = gen,
                                    !.cursor = IF changed THEN gen ELSE @]
      /\ job'[c] = AfterPass(job[c], conn[c].requested > gen)
      /\ \A d \in Conns \ {c} : conn'[d] = conn[d] /\ job'[d] = job[d]
  BY <1>1, <1>2, <1>3 DEF TypeOK
<1>5. /\ conn'[c].status = conn[c].status
      /\ conn'[c].requested = conn[c].requested
      /\ conn'[c].completed = gen
  BY <1>1, <1>4 DEF Connection
<1>6. /\ job'[c].target = job[c].target
      /\ job'[c].state \in {"queued", "succeeded"}
      /\ JobActive(job'[c]) => conn[c].requested > gen
  BY <1>1, <1>4 DEF AfterPass, Requeued, Finished, Released, Job, JobActive,
                    ActiveJobStates
<1>7. /\ worker'[w].conn = None
      /\ \A v \in Workers \ {w} : worker'[v] = worker[v]
  BY DEF SyncApply, Abandon, IdleFrame, TypeOK
<1>8. QED
  BY <1>1, <1>2, <1>4, <1>5, <1>6, <1>7 DEF Appliable

\* The commit of a pass keeps the invariant: it completes the generation the
\* worker was claimed for, and keeps the job only for a newer one.
LEMMA ApplyKeeps ==
    ASSUME TypeOK, TypeOK', FramesFit, TokensDiffer, AbsentIsBlank,
           GenerationsAgree, NEW w \in Workers, SyncApply(w), ~UNCHANGED tables
    PROVE  /\ TokensDiffer'
           /\ AbsentIsBlank'
           /\ GenerationsAgree'
<1> DEFINE c == worker[w].conn
           gen == worker[w].gen
<1>1. /\ c \in Conns
      /\ conn'[c].status = conn[c].status
      /\ conn'[c].requested = conn[c].requested
      /\ conn'[c].completed = gen
      /\ job'[c].target = job[c].target
      /\ job'[c].state \in {"queued", "succeeded"}
      /\ JobActive(job'[c]) => conn[c].requested > gen
      /\ \A d \in Conns \ {c} : conn'[d] = conn[d] /\ job'[d] = job[d]
      /\ worker'[w].conn = None
      /\ \A v \in Workers \ {w} : worker'[v] = worker[v]
  BY ApplyWrites
<1>2. Holds(w) /\ JobActive(job[c])
  BY ApplyWrites DEF HoldsLive, Holds, JobActive, ActiveJobStates
<1>3. gen <= conn[c].requested /\ job[c].target = conn[c].requested
  BY <1>1, <1>2 DEF GenerationsAgree
<1>4. gen \in Nat /\ conn[c].requested \in Nat
  BY <1>1 DEF TypeOK, Frame, Connection
<1> HIDE DEF c, gen
<1>5. TokensDiffer'
  BY <1>1 DEF TokensDiffer
<1>6. AbsentIsBlank'
  BY <1>1 DEF AbsentIsBlank
<1>7. ASSUME NEW d \in Conns
      PROVE  /\ conn'[d].completed <= conn'[d].requested
             /\ JobActive(job'[d]) =>
                   /\ job'[d].target = conn'[d].requested
                   /\ conn'[d].completed < conn'[d].requested
  BY <1>1, <1>3, <1>4 DEF GenerationsAgree
<1>8. ASSUME NEW v \in Workers, Holds(v)'
      PROVE  /\ conn'[worker'[v].conn].completed < worker'[v].gen
             /\ worker'[v].gen <= conn'[worker'[v].conn].requested
  <2>1. v # w /\ worker'[v] = worker[v] /\ worker[v].conn # c
    BY <1>1, <1>8 DEF Holds
  <2>2. worker[v].conn \in Conns \ {c}
    BY <1>8, <2>1 DEF Holds, TypeOK, Frame
  <2>3. Holds(v)
    BY <1>1, <1>8, <2>1, <2>2 DEF Holds
  <2>4. QED
    BY <1>1, <2>1, <2>2, <2>3 DEF GenerationsAgree
<1>9. QED
  BY <1>5, <1>6, <1>7, <1>8 DEF GenerationsAgree

-----------------------------------------------------------------------------
(* The inductive invariant and what follows from it *)

\* The empty tables satisfy it.
LEMMA InitInd ==
    ASSUME Init
    PROVE  IndInv
<1>1. conn \in [Conns -> Connection]
  BY DEF Init, NoConnection, Connection
<1>2. job \in [Conns -> Job]
  BY CounterBounds DEF Init, NoJob, Job, JobStates
<1>3. target \in [Runs -> [Conns -> Target]]
  BY DEF Init, NoTarget, Target, Outcomes
<1>4. run \in [Runs -> RunStates]
  BY DEF Init, RunStates
<1>5. worker \in [Workers -> Frame]
  BY DEF Init, IdleFrame, Frame, Phases
<1>6. recovery \in Recovery
  BY DEF Init, NoRecovery, Recovery
<1>7. TypeOK
  BY <1>1, <1>2, <1>3, <1>4, <1>5, <1>6 DEF Init, TypeOK
<1>8. FramesFit /\ TokensDiffer /\ AbsentIsBlank
  BY DEF Init, FramesFit, RowPhases, IdleFrame, TokensDiffer, AbsentIsBlank,
         NoConnection
<1>9. GenerationsAgree
  BY DEF Init, GenerationsAgree, NoConnection, NoJob, JobActive,
         ActiveJobStates, Holds, IdleFrame
<1>10. QED
  BY <1>7, <1>8, <1>9 DEF IndInv

\* Every step is a request, a disconnection, a claim, the commit of a pass, or
\* quiet.
LEMMA StepKinds ==
    ASSUME TypeOK, FramesFit, AbsentIsBlank, [Next]_vars
    PROVE  \/ \E c \in Conns : Link(c) /\ Asked({c})
           \/ \E cs \in SUBSET Conns :
                 Asked(cs) /\ EnqueueAll(cs) /\ \A c \in cs : Active(c)
           \/ \E c \in Conns : Disconnect(c)
           \/ \E w \in Workers : Claim(w)
           \/ \E w \in Workers : SyncApply(w) /\ ~UNCHANGED tables
           \/ Quiet
<1>1. ASSUME NEW c \in Conns, EnqueueSync(c)
      PROVE  /\ Asked({c})
             /\ EnqueueAll({c})
             /\ Active(c)
  BY <1>1, RequestsAsk DEF EnqueueSync
<1>2. ASSUME NEW r \in Runs, CreateRun(r)
      PROVE  /\ Asked({c \in Conns : Active(c)})
             /\ EnqueueAll({c \in Conns : Active(c)})
  BY <1>2, RequestsAsk DEF CreateRun
<1>3. ASSUME NEW c \in Conns, Link(c) PROVE Asked({c})
  BY <1>3, RequestsAsk
<1>4. ASSUME NEW w \in Workers,
             WorkerStep(w) \/ LocalError(w) \/ Heartbeat(w) \/ Crash(w)
      PROVE  \/ Claim(w)
             \/ SyncApply(w) /\ ~UNCHANGED tables
             \/ Quiet
  <2>1. CASE Claim(w)
    BY <2>1
  <2>2. CASE SyncApply(w)
    BY <2>2, QuietSteps
  <2>3. CASE ~(Claim(w) \/ SyncApply(w))
    BY <1>4, <2>3, QuietSteps DEF WorkerStep
  <2>4. QED
    BY <2>1, <2>2, <2>3
<1>5. QED
  <2>1. CASE UNCHANGED vars
    BY <2>1, QuietSteps
  <2>2. CASE \E c \in Conns : Link(c) \/ EnqueueSync(c) \/ Disconnect(c)
    BY <1>1, <1>3, <2>2
  <2>3. CASE \E r \in Runs : CreateRun(r)
    <3>1. PICK r \in Runs : CreateRun(r)
      BY <2>3
    <3> DEFINE covered == {c \in Conns : Active(c)}
    <3>2. /\ covered \in SUBSET Conns
          /\ Asked(covered)
          /\ EnqueueAll(covered)
          /\ \A c \in covered : Active(c)
      BY <1>2, <3>1
    <3> HIDE DEF covered
    <3>3. QED
      BY <3>2
  <2>4. CASE \E w \in Workers :
                WorkerStep(w) \/ LocalError(w) \/ Heartbeat(w) \/ Crash(w)
    BY <1>4, <2>4
  <2>5. CASE \/ \E c \in Conns : \/ LeaseTick(c) \/ LeaseStall(c)
                                \/ BackoffElapses(c) \/ CooldownElapses(c)
             \/ RecoverRead \/ RecoverWrite
    BY <2>5, QuietSteps
  <2>6. QED
    BY <2>1, <2>2, <2>3, <2>4, <2>5 DEF Next

\* Removing a connection touches neither generations nor jobs nor claims.
LEMMA DisconnectKeeps ==
    ASSUME TypeOK, TokensDiffer, AbsentIsBlank, GenerationsAgree,
           NEW c \in Conns, Disconnect(c)
    PROVE  /\ TokensDiffer'
           /\ AbsentIsBlank'
           /\ GenerationsAgree'
<1>1. /\ job' = job
      /\ worker' = worker
      /\ \A d \in Conns : /\ conn'[d].requested = conn[d].requested
                          /\ conn'[d].completed = conn[d].completed
                          /\ conn'[d].status = "absent" => conn[d].status = "absent"
  BY DEF Disconnect, TypeOK, Connection
<1>2. TokensDiffer'
  BY <1>1 DEF TokensDiffer
<1>3. AbsentIsBlank'
  BY <1>1 DEF AbsentIsBlank
<1>4. ASSUME NEW w \in Workers, Holds(w)'
      PROVE  /\ conn'[worker'[w].conn].completed < worker'[w].gen
             /\ worker'[w].gen <= conn'[worker'[w].conn].requested
  <2>1. Holds(w) /\ worker[w].conn \in Conns
    BY <1>1, <1>4 DEF Holds, TypeOK, Frame
  <2>2. QED
    BY <1>1, <2>1 DEF GenerationsAgree
<1>5. ASSUME NEW d \in Conns
      PROVE  /\ conn'[d].completed <= conn'[d].requested
             /\ JobActive(job'[d]) =>
                   /\ job'[d].target = conn'[d].requested
                   /\ conn'[d].completed < conn'[d].requested
  BY <1>1 DEF GenerationsAgree
<1>6. GenerationsAgree'
  BY <1>4, <1>5 DEF GenerationsAgree
<1>7. QED
  BY <1>2, <1>3, <1>6

\* Every step keeps it.
LEMMA NextInd ==
    ASSUME IndInv, [Next]_vars
    PROVE  IndInv'
<1> TypeOK /\ FramesFit /\ TokensDiffer /\ AbsentIsBlank /\ GenerationsAgree
  BY DEF IndInv
<1>1. TypeOK' /\ FramesFit'
  BY NextTyped, NextFits
<1>2. /\ TokensDiffer'
      /\ AbsentIsBlank'
      /\ GenerationsAgree'
  <2>1. CASE \E c \in Conns : Asked({c})
    <3>1. PICK c \in Conns : Asked({c})
      BY <2>1
    <3>2. {c} \in SUBSET Conns
      OBVIOUS
    <3>3. QED
      BY <1>1, <3>1, <3>2, AskedKeeps
  <2>2. CASE \E cs \in SUBSET Conns : Asked(cs)
    <3>1. PICK cs \in SUBSET Conns : Asked(cs)
      BY <2>2
    <3>2. QED
      BY <1>1, <3>1, AskedKeeps
  <2>3. CASE \E c \in Conns : Disconnect(c)
    <3>1. PICK c \in Conns : Disconnect(c)
      BY <2>3
    <3>2. QED
      BY <1>1, <3>1, DisconnectKeeps
  <2>4. CASE \E w \in Workers : Claim(w)
    <3>1. PICK w \in Workers : Claim(w)
      BY <2>4
    <3>2. QED
      BY <1>1, <3>1, ClaimKeeps
  <2>5. CASE \E w \in Workers : SyncApply(w) /\ ~UNCHANGED tables
    <3>1. PICK w \in Workers : SyncApply(w) /\ ~UNCHANGED tables
      BY <2>5
    <3>2. QED
      BY <1>1, <3>1, ApplyKeeps
  <2>6. CASE Quiet
    BY <1>1, <2>6, QuietKeeps
  <2>7. QED
    BY <2>1, <2>2, <2>3, <2>4, <2>5, <2>6, StepKinds
<1>3. QED
  BY <1>1, <1>2 DEF IndInv

\* The inductive invariant holds of every reachable state.
THEOREM Invariant == Spec => []IndInv
<1>1. Init => IndInv
  BY InitInd
<1>2. IndInv /\ [Next]_vars => IndInv'
  BY NextInd
<1>3. QED
  BY <1>1, <1>2, PTL DEF Spec

\* Type correctness: every table, frame and counter keeps its type, so that no
\* handler reads a field or a row that is not there.
THEOREM TypeCorrect == Spec => []TypeOK
<1>1. IndInv => TypeOK
  BY DEF IndInv
<1>2. QED
  BY <1>1, Invariant, PTL

\* No request is lost by coalescing and no pass completes more than was asked:
\* the generations of the connections, the jobs and the claims always agree.
THEOREM GenerationsCorrect == Spec => []GenerationsAgree
<1>1. IndInv => GenerationsAgree
  BY DEF IndInv
<1>2. QED
  BY <1>1, Invariant, PTL

\* Fencing: no two workers ever own the job of one connection.
THEOREM ClaimsExclusive == Spec => []ExclusiveClaim
<1>1. IndInv => ExclusiveClaim
  BY DEF IndInv, TokensDiffer, ExclusiveClaim, Holds
<1>2. QED
  BY <1>1, Invariant, PTL

=============================================================================
