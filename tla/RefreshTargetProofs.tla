------------------------ MODULE RefreshTargetProofs ------------------------
(***************************************************************************)
(* Proofs about the targets and runs of a refresh, for any number of       *)
(* connections, runs, workers and tokens, as long as no lease expires      *)
(* under a worker that still runs its job.                                 *)
(***************************************************************************)
EXTENDS SyncWorkerProofs

-----------------------------------------------------------------------------
(* A worker past its claim holds its job *)

\* A lease that is held has one holder.
LEMMA OneHolding ==
    ASSUME TokensDiffer, NEW v \in Workers, NEW w \in Workers,
           LeaseHeld(v), LeaseHeld(w),
           worker[v].conn # None, worker[v].conn = worker[w].conn
    PROVE  v = w
  BY DEF TokensDiffer, LeaseHeld, HoldsLive, Holds

\* A worker that keeps its claim still holds the job if nobody took it away.
LEMMA HeldKept ==
    ASSUME TypeOK, NEW v \in Workers, LeaseHeld(v),
           worker'[v].conn # None =>
               /\ worker'[v].conn = worker[v].conn
               /\ worker'[v].token = worker[v].token,
           NEW c, c = worker[v].conn,
           c # None => /\ job'[c].state = job[c].state
                       /\ job'[c].token = job[c].token
                       /\ job'[c].ttl > 0
    PROVE  LeaseHeld(v)'
  BY DEF LeaseHeld, HoldsLive, Holds

\* What the clock, the heartbeat, the recovery and a request do to a job whose
\* lease has not run out.
LEMMA EnvironmentHolds ==
    ASSUME TypeOK, TypeOK', FramesFit, AbsentIsBlank, LeasesKept,
           \A w \in Workers : LeaseHeld(w),
           \/ UNCHANGED vars
           \/ \E c \in Conns : \/ Link(c) \/ EnqueueSync(c) \/ Disconnect(c)
                               \/ LeaseTick(c) \/ LeaseStall(c)
                               \/ BackoffElapses(c) \/ CooldownElapses(c)
           \/ \E r \in Runs : CreateRun(r)
           \/ \E w \in Workers : Heartbeat(w)
           \/ RecoverRead \/ RecoverWrite
    PROVE  \A w \in Workers : LeaseHeld(w)'
<1> SUFFICES ASSUME NEW v \in Workers, worker[v].conn # None
             PROVE  LeaseHeld(v)'
  <2>1. worker' = worker
    BY DEF vars, Link, EnqueueSync, Disconnect, LeaseTick, LeaseStall,
       BackoffElapses, CooldownElapses, CreateRun, Heartbeat, RecoverRead,
       RecoverWrite
  <2>2. QED
    BY <2>1 DEF LeaseHeld
<1> DEFINE c == worker[v].conn
<1>1. worker' = worker
  BY DEF vars, Link, EnqueueSync, Disconnect, LeaseTick, LeaseStall,
     BackoffElapses, CooldownElapses, CreateRun, Heartbeat, RecoverRead,
     RecoverWrite
<1>2. /\ c \in Conns
      /\ job[c] \in Job
      /\ job[c].state = "running"
      /\ job[c].token = worker[v].token
      /\ job[c].ttl > 0
      /\ Live(c)
  BY DEF TypeOK, Frame, LeaseHeld, HoldsLive, Holds, Live
<1> HIDE DEF c
<1> DEFINE Kept == /\ job'[c].state = "running"
                   /\ job'[c].token = job[c].token
                   /\ job'[c].ttl > 0
<1>3. SUFFICES Kept
  BY <1>1, <1>2 DEF c, LeaseHeld, HoldsLive, Holds
<1>4. ASSUME job' = job PROVE Kept
  BY <1>2, <1>4
<1>5. ASSUME NEW cs \in SUBSET Conns, Asked(cs) PROVE Kept
  <2>1. job'[c] = job[c] \/ job'[c] = Enqueued(job[c], conn[c].requested + 1)
    BY <1>2, <1>5 DEF Asked
  <2>2. QED
    BY <1>2, <2>1 DEF Enqueued, JobActive, ActiveJobStates, Job
<1>6. ASSUME NEW d \in Conns, LeaseTick(d) PROVE Kept
  <2>1. d = c => job[c].ttl # 1
    BY <1>2, <1>6 DEF LeaseTick
  <2>2. /\ job[c].ttl \in Nat
        /\ job'[c] = IF d = c THEN [job[c] EXCEPT !.ttl = @ - 1] ELSE job[c]
    BY SMTT(20), <1>2, <1>6 DEF LeaseTick, TypeOK, Job, Ticks
  <2>3. QED
    BY <1>2, <2>1, <2>2 DEF Job
<1>7. ASSUME NEW w \in Workers, Heartbeat(w) PROVE Kept
  <2>1. job'[c] = job[c] \/ job'[c] = [job[c] EXCEPT !.ttl = LeaseTicks]
    BY <1>2, <1>7 DEF Heartbeat, TypeOK
  <2>2. QED
    BY <1>2, <2>1, LeaseTicksAssumption DEF Job
<1>8. ASSUME NEW d \in Conns, BackoffElapses(d) PROVE Kept
  BY <1>2, <1>8 DEF BackoffElapses, TypeOK
<1>9. ASSUME RecoverWrite PROVE Kept
  BY <1>2, <1>9 DEF RecoverWrite, Expired
<1>10. ASSUME NEW d \in Conns, Link(d) \/ EnqueueSync(d) PROVE Kept
  BY <1>5, <1>10, RequestsAsk
<1>11. ASSUME NEW r \in Runs, CreateRun(r) PROVE Kept
  <2>1. Asked({d \in Conns : Active(d)})
    BY <1>11, RequestsAsk
  <2>2. QED
    BY <1>5, <2>1
<1>12. QED
  BY <1>4, <1>6, <1>7, <1>8, <1>9, <1>10, <1>11
     DEF vars, Disconnect, LeaseStall, LeasesKept, CooldownElapses, RecoverRead,
         tables

\* The steps of run_once after which a worker has the frame it had, apart from
\* where it is and what it is about to write.
FrameStays(w) ==
    /\ worker'[w].conn = worker[w].conn
    /\ worker'[w].token = worker[w].token
    /\ worker'[w].gen = worker[w].gen

\* What a step of a worker leaves alone: the frames of the others and the rows
\* of every connection but the one it works on.
OthersKept(w, c) ==
    /\ \A v \in Workers \ {w} : worker'[v] = worker[v]
    /\ \A d \in Conns \ {c} :
          /\ conn'[d] = conn[d]
          /\ job'[d] = job[d]
          /\ window'[d] = window[d]
          /\ \A r \in Runs : /\ target'[r][d] = target[r][d]
                             /\ calls'[r][d] = calls[r][d]

\* The ways in which a frame moves keep the others' frames.
LEMMA FrameMoved ==
    ASSUME TypeOK, NEW w \in Workers,
           \/ Abandon(w)
           \/ \E phase : Goto(w, phase)
           \/ \E class : Fail(w, class)
           \/ \E phase, result :
                 worker' = [worker EXCEPT ![w].pc = phase, ![w].result = result]
           \/ \E phase, r :
                 worker' = [worker EXCEPT ![w].pc = phase, ![w].run = r]
           \/ \E phase, n :
                 worker' = [worker EXCEPT ![w].pc = phase, ![w].run = None,
                                          ![w].cursor = n]
    PROVE  /\ \A v \in Workers \ {w} : worker'[v] = worker[v]
           /\ worker'[w] = IdleFrame \/ FrameStays(w)
<1>1. worker \in [Workers -> Frame] /\ worker[w] \in Frame
  BY DEF TypeOK
<1>2. CASE Abandon(w)
  BY <1>1, <1>2 DEF Abandon
<1>3. CASE \E phase : Goto(w, phase)
  BY <1>1, <1>3 DEF Goto, Frame, FrameStays
<1>4. CASE \E class : Fail(w, class)
  BY <1>1, <1>4 DEF Fail, Frame, FrameStays
<1>5. CASE \E phase, result :
              worker' = [worker EXCEPT ![w].pc = phase, ![w].result = result]
  BY <1>1, <1>5 DEF Frame, FrameStays
<1>6. CASE \E phase, r : worker' = [worker EXCEPT ![w].pc = phase, ![w].run = r]
  BY <1>1, <1>6 DEF Frame, FrameStays
<1>7. CASE \E phase, n : worker' = [worker EXCEPT ![w].pc = phase,
                                               ![w].run = None, ![w].cursor = n]
  <2>1. PICK phase, n : worker' = [worker EXCEPT ![w].pc = phase,
                                               ![w].run = None, ![w].cursor = n]
    BY <1>7
  <2> DEFINE frame == [worker[w] EXCEPT !.pc = phase, !.run = None, !.cursor = n]
  <2>2. worker' = [worker EXCEPT ![w] = frame]
    BY <1>1, <2>1
  <2>3. /\ frame.conn = worker[w].conn
        /\ frame.token = worker[w].token
        /\ frame.gen = worker[w].gen
    BY <1>1 DEF Frame
  <2> HIDE DEF frame
  <2>4. QED
    BY <1>1, <2>2, <2>3 DEF FrameStays
<1>8. QED
  BY <1>2, <1>3, <1>4, <1>5, <1>6, <1>7

\* Every step of a worker after its claim leaves the others alone; it gives its
\* claim up or leaves the job as it is.
LEMMA WorkerSteps ==
    ASSUME TypeOK, FramesFit, NEW w \in Workers,
           WorkerStep(w) \/ LocalError(w) \/ Crash(w), ~Claim(w)
    PROVE  /\ OthersKept(w, worker[w].conn)
           /\ recovery' \in {recovery, NoRecovery}
           /\ worker'[w] = IdleFrame \/ (FrameStays(w) /\ job' = job)
<1> DEFINE c == worker[w].conn
           Result == /\ OthersKept(w, worker[w].conn)
                     /\ recovery' \in {recovery, NoRecovery}
                     /\ worker'[w] = IdleFrame \/ (FrameStays(w) /\ job' = job)
<1>1. ASSUME \A v \in Workers \ {w} : worker'[v] = worker[v],
             worker'[w] = IdleFrame \/ FrameStays(w),
             UNCHANGED <<tables, history>>,
             recovery' \in {recovery, NoRecovery}
      PROVE  Result
  BY <1>1 DEF OthersKept, tables, history
<1>2. CASE ReserveRead(w)
  BY <1>1, <1>2, FrameMoved DEF ReserveRead
<1>3. CASE PrepareRead(w)
  <2>1. \/ \E phase : Goto(w, phase)
        \/ \E phase, result :
              worker' = [worker EXCEPT ![w].pc = phase, ![w].result = result]
    BY <1>3 DEF PrepareRead
  <2>2. QED
    BY <1>1, <1>3, <2>1, FrameMoved DEF PrepareRead
<1>4. CASE RecordRead(w)
  BY <1>1, <1>4, FrameMoved DEF RecordRead
<1>5. CASE SyncStart(w)
  <2>1. \/ Abandon(w)
        \/ \E class : Fail(w, class)
        \/ \E phase, n :
              worker' = [worker EXCEPT ![w].pc = phase, ![w].run = None,
                                       ![w].cursor = n]
    BY <1>5 DEF SyncStart
  <2>2. QED
    BY <1>1, <1>5, <2>1, FrameMoved DEF SyncStart
<1>6. CASE SyncCollect(w)
  BY <1>1, <1>6, FrameMoved DEF SyncCollect
<1>7. CASE WriteConflict(w)
  BY <1>1, <1>7, FrameMoved DEF WriteConflict
<1>8. CASE LocalError(w)
  BY <1>1, <1>8, FrameMoved DEF LocalError
<1>9. CASE Crash(w)
  BY <1>1, <1>9, FrameMoved DEF Crash
<1>10. ASSUME NEW row, worker[w].pc \in RowPhases, target' = WithRow(w, row)
       PROVE  \A d \in Conns \ {c}, r \in Runs : target'[r][d] = target[r][d]
  BY <1>10, RowTyped DEF WithRow, TypeOK
<1>11. CASE ReserveWrite(w)
  <2>1. \A d \in Conns \ {c}, r \in Runs : target'[r][d] = target[r][d]
    BY <1>10, <1>11 DEF ReserveWrite, RowPhases
  <2>2. /\ \A v \in Workers \ {w} : worker'[v] = worker[v]
        /\ worker'[w] = IdleFrame \/ FrameStays(w)
    BY <1>11, FrameMoved DEF ReserveWrite
  <2>3. QED
    BY <1>11, <2>1, <2>2 DEF ReserveWrite, OthersKept, history
<1>12. CASE PrepareWrite(w)
  <2>1. \A d \in Conns \ {c}, r \in Runs : target'[r][d] = target[r][d]
    BY <1>10, <1>12 DEF PrepareWrite, RowPhases
  <2>2. /\ \A v \in Workers \ {w} : worker'[v] = worker[v]
        /\ worker'[w] = IdleFrame \/ FrameStays(w)
    BY <1>12, FrameMoved DEF PrepareWrite
  <2>3. \A d \in Conns \ {c} : conn'[d] = conn[d]
    BY <1>12 DEF PrepareWrite, TypeOK
  <2>4. QED
    BY <1>12, <2>1, <2>2, <2>3 DEF PrepareWrite, OthersKept, history
<1>13. CASE Dispatch(w)
  <2>1. /\ \A v \in Workers \ {w} : worker'[v] = worker[v]
        /\ worker'[w] = IdleFrame \/ FrameStays(w)
    BY <1>13, FrameMoved DEF Dispatch
  <2>2. worker[w].run \in Runs
    BY <1>13, RowTyped DEF Dispatch, RowPhases
  <2>3. \A d \in Conns \ {c} : /\ window'[d] = window[d]
                              /\ \A r \in Runs : calls'[r][d] = calls[r][d]
    BY <1>13, <2>2 DEF Dispatch, TypeOK
  <2>4. QED
    BY <1>13, <2>1, <2>3 DEF Dispatch, OthersKept, tables
<1>14. CASE RecordWrite(w)
  <2>1. \A d \in Conns \ {c}, r \in Runs : target'[r][d] = target[r][d]
    BY <1>10, <1>14 DEF RecordWrite, RowPhases
  <2>2. /\ \A v \in Workers \ {w} : worker'[v] = worker[v]
        /\ worker'[w] = IdleFrame \/ FrameStays(w)
    BY <1>14, FrameMoved DEF RecordWrite
  <2>3. \A d \in Conns \ {c} : conn'[d] = conn[d]
    BY <1>14 DEF RecordWrite, TypeOK
  <2>4. QED
    BY <1>14, <2>1, <2>2, <2>3 DEF RecordWrite, OthersKept, history
<1>15. ASSUME Abandon(w)
       PROVE  /\ \A v \in Workers \ {w} : worker'[v] = worker[v]
              /\ worker'[w] = IdleFrame
  BY <1>15 DEF Abandon, TypeOK
<1>16. CASE FinishWithoutSync(w)
  <2>1. \A d \in Conns \ {c} : job'[d] = job[d]
    BY <1>16 DEF FinishWithoutSync, TypeOK
  <2>2. QED
    BY <1>15, <1>16, <2>1 DEF FinishWithoutSync, OthersKept, history
<1>17. CASE SyncApply(w)
  <2>1. \A runs, b : \A d \in Conns \ {c}, r \in Runs :
           CompletedRows(c, runs, b)[r][d] = target[r][d]
    BY DEF CompletedRows, TypeOK
  <2>2. \A d \in Conns \ {c} :
           /\ conn'[d] = conn[d]
           /\ job'[d] = job[d]
           /\ \A r \in Runs : target'[r][d] = target[r][d]
    <3>1. CASE UNCHANGED tables
      BY <3>1 DEF tables
    <3>2. CASE ~UNCHANGED tables
      <4> DEFINE runs == Completable(c, worker[w].gen)
      <4>1. PICK changed \in BOOLEAN :
              /\ target' = CompletedRows(c, runs, changed)
              /\ conn' = [conn EXCEPT
                    ![c].completed = worker[w].gen,
                    ![c].cursor = IF changed THEN worker[w].gen ELSE @]
              /\ job' = [job EXCEPT ![c] =
                    AfterPass(@, conn[c].requested > worker[w].gen)]
        BY <1>17, <3>2 DEF SyncApply
      <4> HIDE DEF c, runs
      <4>2. \A d \in Conns \ {c} : conn'[d] = conn[d]
        BY <4>1 DEF TypeOK
      <4>3. \A d \in Conns \ {c} : job'[d] = job[d]
        BY <4>1 DEF TypeOK
      <4>4. \A d \in Conns \ {c}, r \in Runs : target'[r][d] = target[r][d]
        BY <2>1, <4>1
      <4>5. QED
        BY <4>2, <4>3, <4>4
    <3>3. QED
      BY <3>1, <3>2
  <2>3. QED
    BY <1>15, <1>17, <2>2 DEF SyncApply, OthersKept, history
<1>18. CASE RecordFailure(w)
  <2>1. \A runs, b : \A d \in Conns \ {c}, r \in Runs :
           FailedRows(c, runs, b)[r][d] = target[r][d]
    BY DEF FailedRows, TypeOK
  <2>2. \A d \in Conns \ {c} :
           /\ job'[d] = job[d]
           /\ \A r \in Runs : target'[r][d] = target[r][d]
    <3>1. CASE UNCHANGED <<job, target>>
      BY <3>1
    <3>2. CASE ~UNCHANGED <<job, target>>
      <4>1. PICK runs, b, class :
              /\ target' = FailedRows(c, runs, b)
              /\ job' = [job EXCEPT ![c] = FailedOnce(@, class)]
        BY <1>18, <3>2 DEF RecordFailure
      <4> HIDE DEF c
      <4>2. \A d \in Conns \ {c} : job'[d] = job[d]
        BY <4>1 DEF TypeOK
      <4>3. \A d \in Conns \ {c}, r \in Runs : target'[r][d] = target[r][d]
        BY <2>1, <4>1
      <4>4. QED
        BY <4>2, <4>3
    <3>3. QED
      BY <3>1, <3>2
  <2>3. QED
    BY <1>15, <1>18, <2>2 DEF RecordFailure, OthersKept, history
<1>19. QED
  BY <1>2, <1>3, <1>4, <1>5, <1>6, <1>7, <1>8, <1>9, <1>11, <1>12, <1>13, <1>14,
     <1>16, <1>17, <1>18 DEF WorkerStep

\* A claim takes a queued job and leaves the others alone.
LEMMA ClaimSteps ==
    ASSUME TypeOK, FramesFit, NEW w \in Workers, Claim(w)
    PROVE  \E c \in Conns :
              /\ OthersKept(w, c)
              /\ job[c].state = "queued"
              /\ job'[c].state = "running"
              /\ job'[c].token = worker'[w].token
              /\ job'[c].ttl > 0
              /\ job'[c].target = job[c].target
              /\ worker'[w].conn = c
              /\ worker'[w].pc = "reserve_read"
              /\ worker'[w].gen = job[c].target
              /\ UNCHANGED <<conn, target, run, recovery, history>>
<1>1. PICK c \in Conns, t \in FreshTokens :
        /\ job[c].state = "queued"
        /\ job' = [job EXCEPT ![c] = Claimed(@, t)]
        /\ worker' = [worker EXCEPT ![w] =
              [IdleFrame EXCEPT !.pc = "reserve_read", !.conn = c,
                                !.token = t, !.gen = job[c].target]]
  BY DEF Claim
<1>2. /\ worker'[w].conn = c
      /\ worker'[w].pc = "reserve_read"
      /\ worker'[w].token = t
      /\ worker'[w].gen = job[c].target
      /\ \A v \in Workers \ {w} : worker'[v] = worker[v]
  BY <1>1 DEF IdleFrame, TypeOK
<1>3. /\ job'[c].state = "running"
      /\ job'[c].token = t
      /\ job'[c].ttl = LeaseTicks
      /\ job'[c].target = job[c].target
      /\ \A d \in Conns \ {c} : job'[d] = job[d]
  BY <1>1 DEF Claimed, TypeOK, Job
<1>4. UNCHANGED <<conn, target, run, recovery, mishaps, history>>
  BY DEF Claim
<1>5. OthersKept(w, c)
  BY <1>2, <1>3, <1>4 DEF OthersKept, history
<1>6. LeaseTicks > 0
  BY LeaseTicksAssumption
<1>7. QED
  BY <1>1, <1>2, <1>3, <1>4, <1>5, <1>6

\* No other worker has the connection of a step in its hands: the job it works
\* on is its own, and the one it claims was nobody's.
LEMMA NobodyElse ==
    ASSUME TypeOK, TokensDiffer, \A v \in Workers : LeaseHeld(v),
           NEW w \in Workers, NEW c \in Conns,
           c = worker[w].conn \/ job[c].state = "queued"
    PROVE  /\ \A v \in Workers \ {w} : worker[v].conn # c
           /\ ~Expired(job[c])
<1>1. CASE c = worker[w].conn
  <2>1. c # None
    BY NoneAssumption
  <2>2. \A v \in Workers \ {w} : worker[v].conn # c
    BY <1>1, <2>1, OneHolding
  <2>3. job[c].ttl > 0
    BY <1>1, <2>1 DEF LeaseHeld, HoldsLive
  <2>4. QED
    BY <2>2, <2>3 DEF Expired
<1>2. CASE job[c].state = "queued"
  <2>1. \A v \in Workers : worker[v].conn # c
    BY <1>2, NoneAssumption DEF LeaseHeld, HoldsLive, Holds
  <2>2. QED
    BY <1>2, <2>1 DEF Expired
<1>3. QED
  BY <1>1, <1>2

\* A step of a worker takes no job from another.
LEMMA OthersHold ==
    ASSUME TypeOK, TokensDiffer, \A v \in Workers : LeaseHeld(v),
           NEW w \in Workers, NEW c, OthersKept(w, c),
           c = None \/ (c \in Conns /\ (c = worker[w].conn \/ job[c].state = "queued"))
    PROVE  \A v \in Workers \ {w} : LeaseHeld(v)'
<1> SUFFICES ASSUME NEW v \in Workers \ {w}, worker[v].conn # None
             PROVE  LeaseHeld(v)'
  BY DEF OthersKept, LeaseHeld
<1>1. worker[v].conn \in Conns /\ worker'[v] = worker[v]
  BY DEF TypeOK, Frame, OthersKept
<1>2. worker[v].conn # c
  BY <1>1, NobodyElse
<1>3. job'[worker[v].conn] = job[worker[v].conn]
  BY <1>1, <1>2 DEF OthersKept
<1>4. QED
  BY <1>1, <1>3 DEF LeaseHeld, HoldsLive, Holds

\* Every step leaves every worker past its claim with a live lease.
LEMMA NextHolds ==
    ASSUME IndInv, IndInv', LeasesKept, \A w \in Workers : LeaseHeld(w),
           [Next]_vars
    PROVE  \A w \in Workers : LeaseHeld(w)'
<1> USE DEF IndInv
<1>1. ASSUME NEW w \in Workers, Claim(w)
      PROVE  \A v \in Workers : LeaseHeld(v)'
  <2>1. PICK c \in Conns :
          /\ OthersKept(w, c)
          /\ job[c].state = "queued"
          /\ job'[c].state = "running"
          /\ job'[c].token = worker'[w].token
          /\ job'[c].ttl > 0
          /\ worker'[w].conn = c
    BY <1>1, ClaimSteps
  <2>2. LeaseHeld(w)'
    BY <2>1 DEF LeaseHeld, HoldsLive, Holds
  <2>3. QED
    BY <2>1, <2>2, OthersHold
<1>2. ASSUME NEW w \in Workers, WorkerStep(w) \/ LocalError(w) \/ Crash(w),
             ~Claim(w)
      PROVE  \A v \in Workers : LeaseHeld(v)'
  <2>1. /\ OthersKept(w, worker[w].conn)
        /\ worker'[w] = IdleFrame \/ (FrameStays(w) /\ job' = job)
    BY <1>2, WorkerSteps
  <2>2. LeaseHeld(w)'
    BY <2>1 DEF LeaseHeld, HoldsLive, Holds, IdleFrame, FrameStays
  <2>3. worker[w].conn = None \/ worker[w].conn \in Conns
    BY DEF TypeOK, Frame
  <2>4. QED
    BY <2>1, <2>2, <2>3, OthersHold
<1>3. CASE \E w \in Workers : WorkerStep(w) \/ LocalError(w) \/ Crash(w)
  BY <1>1, <1>2, <1>3
<1>4. CASE ~(\E w \in Workers : WorkerStep(w) \/ LocalError(w) \/ Crash(w))
  BY <1>4, EnvironmentHolds DEF Next
<1>5. QED
  BY <1>3, <1>4

-----------------------------------------------------------------------------
(* What a step of one worker leaves as it was *)

\* The rows of other connections, what the other workers know of them and what
\* the recovery has read stay true.
LEMMA OthersSound ==
    ASSUME RowInv, NEW w \in Workers, NEW c, OthersKept(w, c),
           recovery' \in {recovery, NoRecovery},
           c = None \/ (c \in Conns /\ (c = worker[w].conn \/ job[c].state = "queued"))
    PROVE  /\ \A v \in Workers \ {w} : RowInHand(v)' /\ DispatchDue(v)'
           /\ \A d \in Conns \ {c} : /\ WindowSound(d)'
                                     /\ \A r \in Runs : RowSound(r, d)'
           /\ RecoveryMatches'
<1> USE DEF RowInv, IndInv
<1>1. ASSUME NEW v \in Workers \ {w} PROVE RowInHand(v)' /\ DispatchDue(v)'
  <2> DEFINE d == worker[v].conn
             r == worker[v].run
  <2>1. worker'[v] = worker[v]
    BY DEF OthersKept
  <2>2. CASE worker[v].pc = "idle"
    BY <2>1, <2>2 DEF RowInHand, DispatchDue
  <2>3. CASE worker[v].pc # "idle"
    <3>1. d \in Conns /\ d # c
      <4>1. d \in Conns
        BY <2>3 DEF FramesFit
      <4>2. d # c
        BY <4>1, NobodyElse, NoneAssumption
      <4>3. QED
        BY <4>1, <4>2
    <3>2. /\ conn'[d] = conn[d]
          /\ window'[d] = window[d]
          /\ \A s \in Runs : /\ target'[s][d] = target[s][d]
                             /\ calls'[s][d] = calls[s][d]
      BY <3>1 DEF OthersKept
    <3>3. RowInHand(v) /\ DispatchDue(v)
      OBVIOUS
    <3>4. worker[v].pc \in RowPhases => r \in Runs
      BY DEF FramesFit
    <3>5. RowInHand(v)'
      BY <2>1, <3>2, <3>3, <3>4 DEF RowInHand, Row, RowPhases, RefusedUnlisted
    <3>6. DispatchDue(v)'
      BY <2>1, <3>2, <3>3, <3>4 DEF DispatchDue, RowPhases
    <3>7. QED
      BY <3>5, <3>6
  <2>4. QED
    BY <2>2, <2>3
<1>2. ASSUME NEW d \in Conns \ {c} PROVE WindowSound(d)'
  BY DEF WindowSound, OthersKept
<1>3. ASSUME NEW d \in Conns \ {c}, NEW r \in Runs PROVE RowSound(r, d)'
  BY DEF RowSound, OthersKept
<1>4. RecoveryMatches'
  <2>1. /\ recovery'.unknown \subseteq recovery.unknown
        /\ recovery'.requeue \subseteq recovery.requeue
    BY DEF NoRecovery
  <2>2. ASSUME NEW outcome, NEW rc \in Interrupted(outcome)
        PROVE  rc \in Interrupted(outcome)'
    <3>1. /\ rc[1] \in Runs
          /\ rc[2] \in Conns
          /\ rc \in Runs \X Conns
          /\ Expired(job[rc[2]])
      BY <2>2 DEF Interrupted
    <3>2. rc[2] # c
      BY <3>1, NobodyElse, NoneAssumption
    <3>3. /\ job'[rc[2]] = job[rc[2]]
          /\ target'[rc[1]][rc[2]] = target[rc[1]][rc[2]]
      BY <3>1, <3>2 DEF OthersKept
    <3>4. QED
      BY <2>2, <3>1, <3>3 DEF Interrupted
  <2>3. QED
    BY <2>1, <2>2 DEF RecoveryMatches
<1>5. QED
  BY <1>1, <1>2, <1>3, <1>4

-----------------------------------------------------------------------------
(* A run follows its targets *)

\* What a transaction may do to the rows of a run: write active targets but not
\* the generation they wait for, leave no run active without a target or the
\* reverse, and derive the run again if it ends a target.
RunStep(r) ==
    /\ \A c \in Conns :
          \/ target'[r][c] = target[r][c]
          \/ /\ IsActive(target[r][c])
             /\ target'[r][c].state \in ActiveTargetStates \cup FinalTargetStates
             /\ target'[r][c].required = target[r][c].required
    /\ \/ /\ run'[r] = run[r] \/ (run[r] \in ActiveRunStates /\ run'[r] = "running")
          /\ \A c \in Conns : IsActive(target'[r][c]) <=> IsActive(target[r][c])
       \/ /\ run[r] \in ActiveRunStates
          /\ run'[r] = DerivedRun(run[r], target'[r])

\* Final targets and runs are left as they are.
FinalKept(r) ==
    /\ \A c \in Conns :
          target[r][c].state \in FinalTargetStates => target'[r][c] = target[r][c]
    /\ run[r] \in FinalRunStates => run'[r] = run[r]

\* The states of targets and runs are told apart.
LEMMA StatesApart ==
    /\ "absent" \notin ActiveTargetStates \cup FinalTargetStates
    /\ ActiveTargetStates \cap FinalTargetStates = {}
    /\ AcceptableTargetStates \subseteq FinalTargetStates
    /\ ActiveRunStates \cap FinalRunStates = {}
    /\ "none" \notin ActiveRunStates \cup FinalRunStates
    /\ "running" \in ActiveRunStates
    /\ "queued" \in ActiveRunStates
    /\ RunStates = {"none"} \cup ActiveRunStates \cup FinalRunStates
  BY DEF ActiveTargetStates, FinalTargetStates, AcceptableTargetStates,
         ActiveRunStates, FinalRunStates, RunStates

\* No write of the service changes the generation a target waits for.
LEMMA RequiredStays ==
    ASSUME NEW t \in Target
    PROVE  /\ Reserved(t).required = t.required
           /\ \A plan \in Plans : Prepared(t, plan).required = t.required
           /\ \A answer : Recorded(t, answer).required = t.required
           /\ Unknown(t).required = t.required
           /\ Unreserved(t).required = t.required
           /\ \A changed : Completed(t, changed).required = t.required
           /\ \A reconnect : MarkedFailed(t, reconnect).required = t.required
  BY DEF Target, Reserved, Prepared, Plans, Recorded, Unknown, Unreserved,
         Completed, MarkedFailed

\* Such a transaction keeps the run in step with its targets, and final rows.
LEMMA RunKept ==
    ASSUME TypeOK, TypeOK', NEW r \in Runs, RunSound(r), RunStep(r)
    PROVE  RunSound(r)' /\ FinalKept(r)
<1> DEFINE present == {c \in Conns : target[r][c].state # "absent"}
           good == {c \in present : target[r][c].state \in AcceptableTargetStates}
           present2 == {c \in Conns : target'[r][c].state # "absent"}
           good2 == {c \in present2 : target'[r][c].state \in AcceptableTargetStates}
<1>1. /\ run[r] \in RunStates
      /\ run'[r] \in RunStates
      /\ DOMAIN target'[r] = Conns
  BY DEF TypeOK
<1>2. \A c \in Conns : IsActive(target[r][c]) => target[r][c].state # "absent"
  BY StatesApart DEF IsActive
<1>3. \A c \in Conns : target'[r][c].state = "absent"
                         <=> target[r][c].state = "absent"
  BY <1>2, StatesApart DEF RunStep
<1>4. present2 = present
  BY <1>3
<1>5. \A c \in Conns :
         target[r][c].state \in FinalTargetStates => target'[r][c] = target[r][c]
  BY StatesApart DEF RunStep, IsActive
<1>6. CASE /\ run'[r] = run[r] \/ (run[r] \in ActiveRunStates /\ run'[r] = "running")
           /\ \A c \in Conns : IsActive(target'[r][c]) <=> IsActive(target[r][c])
  <2>1. run[r] \in FinalRunStates => run'[r] = run[r]
    BY <1>6, StatesApart
  <2>2. run'[r] \in ActiveRunStates <=> run[r] \in ActiveRunStates
    BY <1>6, StatesApart
  <2>3. run'[r] \in FinalRunStates => good2 = good
    <3> SUFFICES ASSUME run'[r] \in FinalRunStates PROVE good2 = good
      OBVIOUS
    <3>1. run[r] \notin ActiveRunStates
      BY <2>2, StatesApart
    <3>2. \A c \in Conns : ~IsActive(target[r][c])
      BY <3>1 DEF RunSound
    <3>3. \A c \in Conns : target'[r][c] = target[r][c]
      BY <3>2 DEF RunStep
    <3>4. QED
      BY <3>3
  <2>4. run'[r] = "none" => present2 = {}
    <3>1. run'[r] = "none" => run[r] = "none"
      BY <1>6, StatesApart
    <3>2. QED
      BY <1>4, <3>1 DEF RunSound
  <2>5. run'[r] \in FinalRunStates => /\ run'[r] = "succeeded" <=> good2 = present2
                                      /\ run'[r] = "failed" <=> good2 = {}
    <3> SUFFICES ASSUME run'[r] \in FinalRunStates
                 PROVE  /\ run'[r] = "succeeded" <=> good2 = present2
                        /\ run'[r] = "failed" <=> good2 = {}
      OBVIOUS
    <3>1. run'[r] = run[r]
      BY <1>6, StatesApart
    <3>2. /\ run[r] = "succeeded" <=> good = present
          /\ run[r] = "failed" <=> good = {}
      BY <3>1 DEF RunSound
    <3> HIDE DEF present, present2, good, good2
    <3>3. QED
      BY <1>4, <2>3, <3>1, <3>2
  <2>6. run'[r] \in ActiveRunStates <=> \E c \in Conns : IsActive(target'[r][c])
    BY <1>6, <2>2 DEF RunSound
  <2>7. RunSound(r)'
    BY <2>4, <2>5, <2>6 DEF RunSound
  <2>8. QED
    BY <1>5, <2>1, <2>7 DEF FinalKept
<1>7. CASE run[r] \in ActiveRunStates /\ run'[r] = DerivedRun(run[r], target'[r])
  <2>1. present2 # {}
    BY <1>2, <1>3, <1>7 DEF RunSound
  <2>2. run'[r] = IF \E c \in present2 : IsActive(target'[r][c]) THEN run[r]
                  ELSE IF good2 = present2 THEN "succeeded"
                  ELSE IF good2 = {} THEN "failed"
                  ELSE "partial"
    BY <1>1, <1>7, <2>1 DEF DerivedRun
  <2>3. (\E c \in Conns : IsActive(target'[r][c]))
          <=> \E c \in present2 : IsActive(target'[r][c])
    BY StatesApart DEF IsActive
  <2> HIDE DEF present, good, present2, good2
  <2>4. /\ run'[r] # "none"
        /\ run'[r] \in ActiveRunStates <=> \E c \in present2 : IsActive(target'[r][c])
        /\ run'[r] \in FinalRunStates => /\ run'[r] = "succeeded" <=> good2 = present2
                                         /\ run'[r] = "failed" <=> good2 = {}
    BY <1>7, <2>1, <2>2 DEF ActiveRunStates, FinalRunStates
  <2>5. RunSound(r)'
    BY <2>3, <2>4 DEF RunSound, present2, good2
  <2>6. run[r] \notin FinalRunStates
    BY <1>7, StatesApart
  <2>7. QED
    BY <1>5, <2>5, <2>6 DEF FinalKept
<1>8. QED
  BY <1>6, <1>7 DEF RunStep

-----------------------------------------------------------------------------
(* What a step of a worker does to its own connection *)

\* What has to hold of a worker and its connection after its step, and what the
\* step may do to the runs.
OwnSound(w, c) ==
    /\ RowInHand(w)'
    /\ DispatchDue(w)'
    /\ c \in Conns => WindowSound(c)' /\ \A r \in Runs : RowSound(r, c)'
    /\ \A r \in Runs : RunStep(r)

\* Rows nobody writes follow their runs.
LEMMA RowsRest ==
    ASSUME target' = target, run' = run
    PROVE  \A r \in Runs : RunStep(r)
<1> SUFFICES ASSUME NEW r \in Runs PROVE RunStep(r)
  OBVIOUS
<1>1. \A c \in Conns : target'[r][c] = target[r][c]
  OBVIOUS
<1>2. \A c \in Conns : IsActive(target'[r][c]) <=> IsActive(target[r][c])
  BY <1>1 DEF IsActive
<1>3. run'[r] = run[r]
  OBVIOUS
<1>4. QED
  BY <1>1, <1>2, <1>3 DEF RunStep

\* A worker without a claim has nothing in its hands.
LEMMA IdleInHand ==
    ASSUME NEW w \in Workers, worker'[w] = IdleFrame
    PROVE  RowInHand(w)' /\ DispatchDue(w)'
  BY DEF RowInHand, DispatchDue, IdleFrame

\* The write of a worker is to one row, that of its run and connection.
LEMMA RowWritten ==
    ASSUME TypeOK, FramesFit, NEW w \in Workers, worker[w].pc \in RowPhases,
           NEW row, target' = WithRow(w, row)
    PROVE  /\ worker[w].run \in Runs
           /\ worker[w].conn \in Conns
           /\ target'[worker[w].run][worker[w].conn] = row
           /\ \A r \in Runs, c \in Conns :
                 r # worker[w].run \/ c # worker[w].conn =>
                     target'[r][c] = target[r][c]
  BY RowTyped DEF WithRow, TypeOK

\* Reading steps: what a worker finds of its row is what it says at the next.
LEMMA ReadsSound ==
    ASSUME RowInv, NEW w \in Workers, NEW c, c = worker[w].conn,
           \/ ReserveRead(w) \/ PrepareRead(w) \/ RecordRead(w) \/ SyncStart(w)
           \/ SyncCollect(w) \/ WriteConflict(w) \/ LocalError(w) \/ Crash(w)
    PROVE  OwnSound(w, c)
<1> USE DEF RowInv, IndInv
<1>1. UNCHANGED <<conn, target, run, calls, window>>
  BY DEF ReserveRead, PrepareRead, RecordRead, SyncStart, SyncCollect,
     WriteConflict, LocalError, Crash, tables, history
<1>2. \A r \in Runs : RunStep(r)
  BY <1>1, RowsRest
<1>3. ASSUME c \in Conns
      PROVE  WindowSound(c)' /\ \A r \in Runs : RowSound(r, c)'
  BY <1>1, <1>3 DEF WindowSound, RowSound
<1>4. worker[w] \in Frame
  BY DEF TypeOK
<1>5. ASSUME NEW phase \in {"sync_start", "apply", "fail", "collect"},
             worker'[w].pc = phase
      PROVE  RowInHand(w)' /\ DispatchDue(w)'
  BY <1>5 DEF RowInHand, DispatchDue
<1>6. ASSUME Abandon(w) PROVE RowInHand(w)' /\ DispatchDue(w)'
  BY <1>6, IdleInHand DEF Abandon, TypeOK
<1>7. ASSUME NEW class, Fail(w, class) PROVE RowInHand(w)' /\ DispatchDue(w)'
  BY <1>4, <1>5, <1>7 DEF Fail, TypeOK, Frame
<1>8. ASSUME NEW phase \in {"sync_start", "apply"}, Goto(w, phase)
      PROVE  RowInHand(w)' /\ DispatchDue(w)'
  BY <1>4, <1>5, <1>8 DEF Goto, TypeOK, Frame
<1>9. RowInHand(w)' /\ DispatchDue(w)'
  <2>1. CASE ReserveRead(w)
    <3>1. ASSUME NEW r \in Reservable(w),
                 worker' = [worker EXCEPT ![w].pc = "reserve_write", ![w].run = r]
          PROVE  RowInHand(w)' /\ DispatchDue(w)'
      <4>1. target[r][worker[w].conn].state = "queued"
        BY <3>1 DEF Reservable
      <4>2. /\ worker'[w].pc = "reserve_write"
            /\ worker'[w].run = r
            /\ worker'[w].conn = worker[w].conn
        BY <1>4, <3>1 DEF TypeOK, Frame
      <4>3. QED
        BY <1>1, <4>1, <4>2 DEF RowInHand, DispatchDue, Row
    <3>2. QED
      BY <1>8, <2>1, <3>1 DEF ReserveRead
  <2>2. CASE PrepareRead(w)
    <3>1. ASSUME worker' = [worker EXCEPT ![w].pc = "prepare_write",
                                          ![w].result = Plan(worker[w].conn)]
          PROVE  RowInHand(w)' /\ DispatchDue(w)'
      <4>1. /\ worker'[w].pc = "prepare_write"
            /\ worker'[w].result = Plan(worker[w].conn)
            /\ worker'[w].run = worker[w].run
            /\ worker'[w].conn = worker[w].conn
        BY <1>4, <3>1 DEF TypeOK, Frame
      <4>2. Row(w).state = "refreshing" /\ Row(w).outcome = "reserved"
        BY <2>2 DEF PrepareRead, RowInHand
      <4>3. RowInHand(w)'
        BY <1>1, <4>1, <4>2 DEF RowInHand, Row
      <4>4. Plan(worker[w].conn) = "dispatch" => ~conn[worker[w].conn].cooling
        BY DEF Plan
      <4>5. DispatchDue(w)'
        BY <1>1, <4>1, <4>4 DEF DispatchDue
      <4>6. QED
        BY <4>3, <4>5
    <3>2. QED
      BY <1>8, <2>2, <3>1 DEF PrepareRead
  <2>3. CASE RecordRead(w)
    <3>1. ASSUME Goto(w, "record_write") PROVE RowInHand(w)' /\ DispatchDue(w)'
      <4>1. /\ worker'[w].pc = "record_write"
            /\ worker'[w].result = worker[w].result
            /\ worker'[w].run = worker[w].run
            /\ worker'[w].conn = worker[w].conn
        BY <1>4, <3>1 DEF Goto, TypeOK, Frame
      <4>2. /\ Row(w).state = "refreshing"
            /\ Row(w).outcome = "dispatching"
            /\ worker[w].result \in RefreshAnswers
        BY <2>3 DEF RecordRead, RowInHand
      <4>3. QED
        BY <1>1, <4>1, <4>2 DEF RowInHand, DispatchDue, Row
    <3>2. QED
      BY <1>6, <2>3, <3>1 DEF RecordRead
  <2>4. CASE SyncStart(w)
    <3>1. ASSUME worker' = [worker EXCEPT ![w].pc = "collect", ![w].run = None,
                                          ![w].cursor = conn[worker[w].conn].cursor]
          PROVE  worker'[w].pc = "collect"
      BY <1>4, <3>1 DEF TypeOK, Frame
    <3>2. QED
      BY <1>5, <1>6, <1>7, <2>4, <3>1 DEF SyncStart
  <2>5. CASE SyncCollect(w)
    BY <1>7, <1>8, <2>5 DEF SyncCollect
  <2>6. CASE WriteConflict(w) \/ LocalError(w) \/ Crash(w)
    BY <1>6, <1>7, <2>6 DEF WriteConflict, LocalError, Crash
  <2>7. QED
    BY <2>1, <2>2, <2>3, <2>4, <2>5, <2>6
<1>10. QED
  BY <1>2, <1>3, <1>9 DEF OwnSound

\* The reservation turns the queued row it read into a reserved one.
LEMMA ReserveWriteSound ==
    ASSUME RowInv, NEW w \in Workers, NEW c, c = worker[w].conn, ReserveWrite(w)
    PROVE  OwnSound(w, c)
<1> USE DEF RowInv, IndInv
<1> DEFINE r0 == worker[w].run
<1>1. /\ target' = WithRow(w, Reserved(Row(w)))
      /\ run' = [run EXCEPT ![r0] = "running"]
      /\ worker[w].pc = "reserve_write"
      /\ worker' = [worker EXCEPT ![w].pc = "prepare_read"]
      /\ UNCHANGED <<conn, calls, window>>
  BY DEF ReserveWrite, Goto, history
<1>2. /\ r0 \in Runs
      /\ c \in Conns
      /\ target'[r0][c] = Reserved(target[r0][c])
      /\ \A r \in Runs, d \in Conns :
            r # r0 \/ d # c => target'[r][d] = target[r][d]
  BY <1>1, RowWritten DEF RowPhases, Row
<1>3. /\ worker'[w].pc = "prepare_read"
      /\ worker'[w].run = r0
      /\ worker'[w].conn = c
  BY <1>1 DEF TypeOK, Frame
<1>4. target[r0][c] \in Target /\ target[r0][c].state = "queued"
  BY <1>1, <1>2 DEF RowInHand, Row, TypeOK
<1> HIDE DEF r0
<1>5. /\ target'[r0][c].state = "refreshing"
      /\ target'[r0][c].outcome = "reserved"
  BY <1>2, <1>4 DEF Reserved, Target
<1>6. RowInHand(w)' /\ DispatchDue(w)'
  BY <1>3, <1>5 DEF RowInHand, DispatchDue, Row
<1>7. WindowSound(c)'
  BY <1>1, <1>2 DEF WindowSound
<1>8. ASSUME NEW r \in Runs PROVE RowSound(r, c)'
  <2>1. RowSound(r, c)
    BY <1>2
  <2>2. CASE r = r0
    BY <1>1, <1>4, <1>5, <2>1, <2>2 DEF RowSound
  <2>3. CASE r # r0
    BY <1>1, <1>2, <2>1, <2>3 DEF RowSound
  <2>4. QED
    BY <2>2, <2>3
<1>9. ASSUME NEW r \in Runs PROVE RunStep(r)
  <2>1. CASE r = r0
    <3>1. IsActive(target[r0][c]) /\ IsActive(target'[r0][c])
      BY <1>4, <1>5 DEF IsActive, ActiveTargetStates
    <3>2. run[r0] \in ActiveRunStates
      BY <1>2, <3>1 DEF RunSound
    <3>3. run'[r0] = "running"
      BY <1>1, <1>2 DEF TypeOK
    <3>4. \A d \in Conns : d = c \/ target'[r0][d] = target[r0][d]
      BY <1>2
    <3>5. \A d \in Conns : IsActive(target'[r0][d]) <=> IsActive(target[r0][d])
      BY <3>1, <3>4
    <3>6. target'[r0][c].state \in ActiveTargetStates \cup FinalTargetStates
      BY <3>1 DEF IsActive
    <3>7. target'[r0][c].required = target[r0][c].required
      BY <1>2, <1>4, RequiredStays
    <3>8. QED
      BY <2>1, <3>1, <3>2, <3>3, <3>4, <3>5, <3>6, <3>7 DEF RunStep
  <2>2. CASE r # r0
    <3>1. run'[r] = run[r]
      BY <1>1, <2>2 DEF TypeOK
    <3>2. \A d \in Conns : target'[r][d] = target[r][d]
      BY <1>2, <2>2
    <3>3. \A d \in Conns : IsActive(target'[r][d]) <=> IsActive(target[r][d])
      BY <3>2
    <3>4. QED
      BY <3>1, <3>2, <3>3 DEF RunStep
  <2>3. QED
    BY <2>1, <2>2
<1>10. QED
  BY <1>6, <1>7, <1>8, <1>9 DEF OwnSound

\* A write to an active row of a run that stays active, or is derived again.
LEMMA RowRuns ==
    ASSUME RowInv, NEW w \in Workers, worker[w].pc \in RowPhases,
           NEW row, target' = WithRow(w, row), IsActive(Row(w)),
           row.state \in ActiveTargetStates \cup FinalTargetStates,
           row.required = Row(w).required,
           \/ run' = run /\ IsActive(row)
           \/ run' = Rederived({worker[w].run}, WithRow(w, row))
    PROVE  \A r \in Runs : RunStep(r)
<1> USE DEF RowInv, IndInv
<1> SUFFICES ASSUME NEW r \in Runs PROVE RunStep(r)
  OBVIOUS
<1>1. PICK r0, c :
        /\ r0 = worker[w].run
        /\ c = worker[w].conn
  OBVIOUS
<1>2. /\ r0 \in Runs
      /\ c \in Conns
      /\ target'[r0][c] = row
      /\ \A s \in Runs, d \in Conns :
            s # r0 \/ d # c => target'[s][d] = target[s][d]
      /\ IsActive(target[r0][c])
      /\ row.required = target[r0][c].required
  BY <1>1, RowWritten DEF Row
<1>3. CASE r = r0
  <2>1. \A d \in Conns :
           \/ target'[r][d] = target[r][d]
           \/ /\ IsActive(target[r][d])
              /\ target'[r][d].state \in ActiveTargetStates \cup FinalTargetStates
              /\ target'[r][d].required = target[r][d].required
    BY <1>2, <1>3
  <2>2. CASE run' = run /\ IsActive(row)
    <3>1. \A d \in Conns : IsActive(target'[r][d]) <=> IsActive(target[r][d])
      BY <1>2, <1>3, <2>2
    <3>2. QED
      BY <2>1, <2>2, <3>1 DEF RunStep
  <2>3. CASE run' = Rederived({worker[w].run}, WithRow(w, row))
    <3>1. run'[r] = DerivedRun(run[r], target'[r])
      BY <1>1, <1>2, <1>3, <2>3 DEF Rederived
    <3>2. run[r] \in ActiveRunStates
      BY <1>2, <1>3 DEF RunSound
    <3>3. QED
      BY <2>1, <3>1, <3>2 DEF RunStep
  <2>4. QED
    BY <2>2, <2>3
<1>4. CASE r # r0
  <2>1. run'[r] = run[r]
    BY <1>1, <1>4 DEF Rederived
  <2>2. \A d \in Conns : target'[r][d] = target[r][d]
    BY <1>2, <1>4
  <2>3. \A d \in Conns : IsActive(target'[r][d]) <=> IsActive(target[r][d])
    BY <2>2
  <2>4. QED
    BY <2>1, <2>2, <2>3 DEF RunStep
<1>5. QED
  BY <1>3, <1>4

\* The plan ends the target, sends it on to the sync, or closes the window.
LEMMA PrepareWriteSound ==
    ASSUME RowInv, NEW w \in Workers, NEW c, c = worker[w].conn, PrepareWrite(w)
    PROVE  OwnSound(w, c)
<1> USE DEF RowInv, IndInv
<1>1. PICK r0, plan, row :
        /\ r0 = worker[w].run
        /\ plan = worker[w].result
        /\ row = Prepared(Row(w), plan)
  OBVIOUS
<1>2. /\ target' = WithRow(w, row)
      /\ run' = IF plan = "disconnected"
                  THEN Rederived({r0}, WithRow(w, row)) ELSE run
      /\ conn' = IF plan = "dispatch" THEN [conn EXCEPT ![c].cooling = TRUE]
                                      ELSE conn
      /\ worker[w].pc = "prepare_write"
      /\ worker' = [worker EXCEPT ![w].pc = AfterPlan(plan), ![w].result = None]
      /\ calls' = calls
      /\ window' = window
  BY <1>1 DEF PrepareWrite, history
<1>3. /\ r0 \in Runs
      /\ c \in Conns
      /\ target'[r0][c] = row
      /\ \A r \in Runs, d \in Conns :
            r # r0 \/ d # c => target'[r][d] = target[r][d]
      /\ plan \in Plans
  BY <1>1, <1>2, RowWritten DEF RowPhases, FramesFit
<1>4. /\ worker'[w].pc = AfterPlan(plan)
      /\ worker'[w].run = r0
      /\ worker'[w].conn = c
  BY <1>1, <1>2 DEF TypeOK, Frame
<1>5. /\ Row(w) = target[r0][c]
      /\ Row(w) \in Target
      /\ Row(w).state = "refreshing"
      /\ Row(w).outcome = "reserved"
  BY <1>1, <1>2, <1>3 DEF RowInHand, Row, TypeOK
<1>6. /\ plan = "disconnected" => row.state = "disconnected"
      /\ plan = "unsupported" => row.state = "syncing" /\ row.outcome = "unsupported"
      /\ plan = "cooldown" => row.state = "syncing" /\ row.outcome = "cooldown"
      /\ plan = "dispatch" => row.state = "refreshing" /\ row.outcome = "dispatching"
  BY <1>1, <1>5 DEF Prepared, Target
<1>7. calls[r0][c] = 0
  BY <1>3, <1>5 DEF RowSound
<1>8. plan = "dispatch" => window[c] = 0
  <2>1. plan = "dispatch" => ~conn[c].cooling
    BY <1>1, <1>2 DEF DispatchDue
  <2>2. WindowSound(c) /\ window[c] \in 0 .. 2
    BY <1>3 DEF TypeOK
  <2>3. QED
    BY <2>1, <2>2 DEF WindowSound
<1>9. conn'[c].cooling = (plan = "dispatch" \/ conn[c].cooling)
  BY <1>2, <1>3 DEF TypeOK, Connection
<1>10. RowInHand(w)'
  BY <1>3, <1>4, <1>6 DEF RowInHand, Row, AfterPlan, Plans, FinalTargetStates
<1>11. DispatchDue(w)'
  <2>1. AfterPlan(plan) \in {"finish", "dispatch", "sync_start"}
    BY <1>3 DEF AfterPlan, Plans
  <2>2. AfterPlan(plan) = "dispatch" => plan = "dispatch"
    BY <1>3 DEF AfterPlan, Plans
  <2>3. CASE AfterPlan(plan) # "dispatch"
    BY <1>4, <2>1, <2>3 DEF DispatchDue
  <2>4. CASE AfterPlan(plan) = "dispatch"
    <3>1. conn'[c].cooling /\ window'[c] = 0 /\ calls'[r0][c] = 0
      BY <1>2, <1>7, <1>8, <1>9, <2>2, <2>4
    <3>2. QED
      BY <1>4, <2>4, <3>1 DEF DispatchDue
  <2>5. QED
    BY <2>3, <2>4
<1>12. WindowSound(c)'
  BY <1>2, <1>3, <1>9 DEF WindowSound
<1>13. ASSUME NEW r \in Runs PROVE RowSound(r, c)'
  <2>1. RowSound(r, c)
    BY <1>3
  <2>2. CASE r = r0
    BY <1>2, <1>3, <1>6, <1>7, <2>2 DEF RowSound, Plans
  <2>3. CASE r # r0
    BY <1>2, <1>3, <2>1, <2>3 DEF RowSound
  <2>4. QED
    BY <2>2, <2>3
<1>14. \A r \in Runs : RunStep(r)
  <2>1. worker[w].pc \in RowPhases
    BY <1>2 DEF RowPhases
  <2>2. /\ IsActive(Row(w))
        /\ row.state \in ActiveTargetStates \cup FinalTargetStates
        /\ plan # "disconnected" => IsActive(row)
        /\ row.required = Row(w).required
    BY SMTT(20), <1>1, <1>3, <1>5, <1>6, RequiredStays
       DEF IsActive, ActiveTargetStates, FinalTargetStates, Plans
  <2>3. \/ run' = run /\ IsActive(row)
        \/ run' = Rederived({worker[w].run}, WithRow(w, row))
    BY <1>1, <1>2, <2>2
  <2>4. QED
    BY <1>2, <2>1, <2>2, <2>3, RowRuns
<1>15. QED
  BY <1>10, <1>11, <1>12, <1>13, <1>14 DEF OwnSound

\* The call is the first of its target and of its window.
LEMMA DispatchSound ==
    ASSUME RowInv, NEW w \in Workers, NEW c, c = worker[w].conn, Dispatch(w)
    PROVE  OwnSound(w, c)
<1> USE DEF RowInv, IndInv
<1>1. PICK r0 : r0 = worker[w].run
  OBVIOUS
<1>2. PICK answer \in RefreshAnswers :
        worker' = [worker EXCEPT ![w].pc = "record_read", ![w].result = answer]
  BY DEF Dispatch
<1>3. /\ worker[w].pc = "dispatch"
      /\ calls' = [calls EXCEPT ![r0][c] = Capped(@)]
      /\ window' = [window EXCEPT ![c] = Capped(@)]
      /\ UNCHANGED <<conn, target, run>>
  BY <1>1 DEF Dispatch, tables
<1>4. r0 \in Runs /\ c \in Conns
  BY <1>1, <1>3 DEF FramesFit, RowPhases
<1>5. /\ worker'[w].pc = "record_read"
      /\ worker'[w].result = answer
      /\ worker'[w].run = r0
      /\ worker'[w].conn = c
  BY <1>1, <1>2 DEF TypeOK, Frame
<1>6. /\ target[r0][c].state = "refreshing"
      /\ target[r0][c].outcome = "dispatching"
      /\ conn[c].cooling
      /\ window[c] = 0
      /\ calls[r0][c] = 0
  BY <1>1, <1>3 DEF RowInHand, DispatchDue, Row
<1>7. window'[c] = 1
  BY <1>3, <1>4, <1>6 DEF Capped, TypeOK
<1>8. /\ calls'[r0][c] = 1
      /\ \A r \in Runs \ {r0} : calls'[r][c] = calls[r][c]
  BY <1>3, <1>4, <1>6 DEF Capped, TypeOK
<1>9. RowInHand(w)' /\ DispatchDue(w)'
  BY <1>3, <1>5, <1>6 DEF RowInHand, DispatchDue, Row
<1>10. WindowSound(c)'
  BY <1>3, <1>6, <1>7 DEF WindowSound
<1>11. ASSUME NEW r \in Runs PROVE RowSound(r, c)'
  <2>1. RowSound(r, c)
    BY <1>4
  <2>2. CASE r = r0
    BY <1>3, <1>6, <1>8, <2>2 DEF RowSound
  <2>3. CASE r # r0
    BY <1>3, <1>8, <2>1, <2>3 DEF RowSound
  <2>4. QED
    BY <2>2, <2>3
<1>12. QED
  BY <1>3, <1>9, <1>10, <1>11, RowsRest DEF OwnSound

\* The answer is recorded on the row that was dispatched.
LEMMA RecordWriteSound ==
    ASSUME RowInv, NEW w \in Workers, NEW c, c = worker[w].conn, RecordWrite(w)
    PROVE  OwnSound(w, c)
<1> USE DEF RowInv, IndInv
<1>1. PICK r0, answer, row :
        /\ r0 = worker[w].run
        /\ answer = worker[w].result
        /\ row = Recorded(Row(w), answer)
  OBVIOUS
<1>2. /\ target' = WithRow(w, row)
      /\ run' = IF answer \in ReconnectCodes
                  THEN Rederived({r0}, WithRow(w, row)) ELSE run
      /\ conn' = IF answer = "unsupported"
                   THEN [conn EXCEPT ![c].supported = FALSE] ELSE conn
      /\ worker[w].pc = "record_write"
      /\ worker' = [worker EXCEPT ![w].pc = AfterAnswer(answer),
              ![w].result = IF AfterAnswer(answer) = "finish" THEN answer ELSE None]
      /\ calls' = calls
      /\ window' = window
  BY <1>1 DEF RecordWrite, history
<1>3. /\ r0 \in Runs
      /\ c \in Conns
      /\ target'[r0][c] = row
      /\ \A r \in Runs, d \in Conns :
            r # r0 \/ d # c => target'[r][d] = target[r][d]
  BY <1>1, <1>2, RowWritten DEF RowPhases
<1>4. answer \in RefreshAnswers /\ answer \in ProviderAnswers
  BY <1>1, <1>2, AnswersAssumption DEF RowInHand
<1>5. /\ worker'[w].pc = AfterAnswer(answer)
      /\ worker'[w].run = r0
      /\ worker'[w].conn = c
      /\ AfterAnswer(answer) = "finish" => worker'[w].result = answer
  BY <1>1, <1>2 DEF TypeOK, Frame
<1>6. /\ Row(w) = target[r0][c]
      /\ Row(w) \in Target
      /\ Row(w).state = "refreshing"
      /\ Row(w).outcome = "dispatching"
  BY <1>1, <1>2, <1>3 DEF RowInHand, Row, TypeOK
<1>7. /\ row.state = IF answer \in ReconnectCodes THEN "reconnect_required"
                                                  ELSE "syncing"
      /\ row.outcome = IF answer \in FailureCodes THEN "failed" ELSE answer
  BY <1>1, <1>6 DEF Recorded, Target
<1>8. calls[r0][c] <= 1
  BY <1>3 DEF RowSound
<1>9. conn'[c].cooling = conn[c].cooling
  BY <1>2, <1>3 DEF TypeOK, Connection
<1>10. RowInHand(w)'
  <2>1. AfterAnswer(answer) = "finish" => answer \in OwnerActionCodes
    BY DEF AfterAnswer
  <2>2. answer \in ReconnectCodes => row.state \in FinalTargetStates
    BY <1>7 DEF FinalTargetStates
  <2>3. AfterAnswer(answer) \in {"finish", "sync_start"}
    BY DEF AfterAnswer
  <2>4. Row(w)' = row
    BY <1>3, <1>5 DEF Row
  <2>5. answer \in OwnerActionCodes \ ReconnectCodes =>
           row.state = "syncing" /\ row.outcome = "failed"
    BY <1>7 DEF FailureCodes
  <2>6. worker'[w].pc = "finish" =>
           Row(w)'.state \in FinalTargetStates \/ RefusedUnlisted(w)'
    BY <1>5, <2>1, <2>2, <2>4, <2>5 DEF RefusedUnlisted
  <2>7. QED
    BY <1>3, <1>5, <2>3, <2>6 DEF RowInHand
<1>11. DispatchDue(w)'
  BY <1>5 DEF DispatchDue, AfterAnswer
<1>12. WindowSound(c)'
  BY <1>2, <1>3, <1>9 DEF WindowSound
<1>13. ASSUME NEW r \in Runs PROVE RowSound(r, c)'
  <2>1. RowSound(r, c)
    BY <1>3
  <2>2. CASE r = r0
    <3>1. row.outcome \notin {"reserved", "dispatching"}
      BY <1>4, <1>7 DEF ProviderAnswers, FailureCodes, OwnerActionCodes
    <3>2. row.state \in {"reconnect_required", "syncing"}
      BY <1>7
    <3>3. QED
      BY <1>2, <1>3, <1>8, <2>2, <3>1, <3>2 DEF RowSound
  <2>3. CASE r # r0
    BY <1>2, <1>3, <2>1, <2>3 DEF RowSound
  <2>4. QED
    BY <2>2, <2>3
<1>14. \A r \in Runs : RunStep(r)
  <2>1. worker[w].pc \in RowPhases
    BY <1>2 DEF RowPhases
  <2>2. /\ IsActive(Row(w))
        /\ row.state \in ActiveTargetStates \cup FinalTargetStates
        /\ answer \notin ReconnectCodes => IsActive(row)
        /\ row.required = Row(w).required
    BY <1>1, <1>6, <1>7, RequiredStays DEF IsActive, ActiveTargetStates, FinalTargetStates
  <2>3. \/ run' = run /\ IsActive(row)
        \/ run' = Rederived({worker[w].run}, WithRow(w, row))
    BY <1>1, <1>2, <2>2
  <2>4. QED
    BY <1>2, <2>1, <2>2, <2>3, RowRuns
<1>15. QED
  BY <1>10, <1>11, <1>12, <1>13, <1>14 DEF OwnSound

\* The active targets of a connection in some runs end together, and the runs
\* are derived again.
EndsRows(c, runs) ==
    /\ runs \subseteq Runs
    /\ \A r \in Runs, d \in Conns :
          r \notin runs \/ d # c => target'[r][d] = target[r][d]
    /\ \A r \in runs : /\ IsActive(target[r][c])
                       /\ target'[r][c].state \in FinalTargetStates
                       /\ target'[r][c].required = target[r][c].required
    /\ run' = Rederived(runs, target')

LEMMA RowsEnded ==
    ASSUME RowInv, NEW c \in Conns, NEW runs, EndsRows(c, runs), calls' = calls
    PROVE  \A r \in Runs : RunStep(r) /\ RowSound(r, c)'
<1> USE DEF RowInv, IndInv, EndsRows
<1> SUFFICES ASSUME NEW r \in Runs PROVE RunStep(r) /\ RowSound(r, c)'
  OBVIOUS
<1>1. RowSound(r, c)
  OBVIOUS
<1>2. CASE r \in runs
  <2>1. \A d \in Conns :
           \/ target'[r][d] = target[r][d]
           \/ /\ IsActive(target[r][d])
              /\ target'[r][d].state \in ActiveTargetStates \cup FinalTargetStates
              /\ target'[r][d].required = target[r][d].required
    BY <1>2
  <2>2. run'[r] = DerivedRun(run[r], target'[r])
    BY <1>2 DEF Rederived
  <2>3. run[r] \in ActiveRunStates
    BY <1>2 DEF RunSound
  <2>4. target'[r][c].state \notin {"absent", "queued", "refreshing", "syncing"}
    BY <1>2, StatesApart DEF ActiveTargetStates
  <2>5. RowSound(r, c)'
    BY <1>1, <2>4 DEF RowSound
  <2>6. QED
    BY <2>1, <2>2, <2>3, <2>5 DEF RunStep
<1>3. CASE r \notin runs
  <2>1. run'[r] = run[r]
    BY <1>3 DEF Rederived
  <2>2. \A d \in Conns : target'[r][d] = target[r][d]
    BY <1>3
  <2>3. \A d \in Conns : IsActive(target'[r][d]) <=> IsActive(target[r][d])
    BY <2>2
  <2>4. RowSound(r, c)'
    BY <1>1, <2>2 DEF RowSound
  <2>5. QED
    BY <2>1, <2>2, <2>3, <2>4 DEF RunStep
<1>4. QED
  BY <1>2, <1>3

\* A worker that ends its job leaves the rows as they are.
LEMMA FinishSound ==
    ASSUME RowInv, NEW w \in Workers, NEW c, c = worker[w].conn,
           FinishWithoutSync(w)
    PROVE  OwnSound(w, c)
<1> USE DEF RowInv, IndInv
<1>1. UNCHANGED <<conn, target, run, calls, window>> /\ worker'[w] = IdleFrame
  BY DEF FinishWithoutSync, Abandon, history, TypeOK
<1>2. ASSUME c \in Conns
      PROVE  WindowSound(c)' /\ \A r \in Runs : RowSound(r, c)'
  BY <1>1, <1>2 DEF WindowSound, RowSound
<1>3. QED
  BY <1>1, <1>2, IdleInHand, RowsRest DEF OwnSound

\* What the apply transaction writes: it ends every target the pass covers, and
\* the job unless more was asked for.
LEMMA ApplyEnds ==
    ASSUME RowInv, NEW w \in Workers, NEW c, c = worker[w].conn, SyncApply(w),
           ~UNCHANGED tables,
           NEW gen, gen = worker[w].gen, NEW runs, runs = Completable(c, gen)
    PROVE  /\ c \in Conns
           /\ EndsRows(c, runs)
           /\ job'[c] = AfterPass(job[c], conn[c].requested > gen)
           /\ conn'[c].status = conn[c].status
           /\ conn'[c].requested = conn[c].requested
           /\ conn'[c].completed = gen
           /\ conn'[c].cooling = conn[c].cooling
<1> USE DEF RowInv, IndInv
<1>1. c \in Conns
  BY DEF SyncApply, FramesFit
<1>2. PICK changed \in BOOLEAN :
        /\ target' = CompletedRows(c, runs, changed)
        /\ run' = Rederived(runs, CompletedRows(c, runs, changed))
        /\ conn' = [conn EXCEPT
              ![c].completed = gen,
              ![c].cursor = IF changed THEN gen ELSE @]
        /\ job' = [job EXCEPT ![c] = AfterPass(@, conn[c].requested > gen)]
  BY DEF SyncApply
<1>3. /\ conn'[c].status = conn[c].status
      /\ conn'[c].requested = conn[c].requested
      /\ conn'[c].completed = gen
      /\ conn'[c].cooling = conn[c].cooling
  <2>1. conn[c] \in Connection /\ conn \in [Conns -> Connection]
    BY <1>1 DEF TypeOK
  <2>2. PICK n : n = IF changed THEN gen ELSE conn[c].cursor
    OBVIOUS
  <2>3. conn'[c] = [conn[c] EXCEPT !.completed = gen, !.cursor = n]
    BY <1>1, <1>2, <2>1, <2>2
  <2>4. QED
    BY <2>1, <2>3 DEF Connection
<1>4. job'[c] = AfterPass(job[c], conn[c].requested > gen)
  BY <1>1, <1>2 DEF TypeOK
<1>5. runs \in SUBSET Runs /\ \A r \in runs : target[r][c].state = "syncing"
  BY DEF Completable
<1>6. \A r \in Runs, d \in Conns :
         r \notin runs \/ d # c => target'[r][d] = target[r][d]
  BY <1>1, <1>2 DEF CompletedRows, TypeOK
<1>7. ASSUME NEW r \in runs
      PROVE  /\ IsActive(target[r][c])
             /\ target'[r][c].state \in FinalTargetStates
             /\ target'[r][c].required = target[r][c].required
  <2>1. IsActive(target[r][c])
    BY <1>5 DEF IsActive, ActiveTargetStates
  <2>2. RowSound(r, c) /\ target[r][c] \in Target
    BY <1>1, <1>5 DEF TypeOK
  <2>3. target[r][c].outcome \in Outcomes \ {"reserved", "dispatching"}
    BY <1>5, <2>2 DEF RowSound, Target
  <2>4. CompletedState(target[r][c].outcome, changed) \in FinalTargetStates
    BY <2>3 DEF CompletedState, FinalTargetStates, AcceptableTargetStates, Outcomes
  <2>5. target'[r][c] = Completed(target[r][c], changed)
    BY <1>1, <1>2, <1>5 DEF CompletedRows, TypeOK
  <2>6. target'[r][c].state = CompletedState(target[r][c].outcome, changed)
    BY <2>2, <2>5 DEF Completed, Target
  <2>7. target'[r][c].required = target[r][c].required
    BY <2>2, <2>5, RequiredStays
  <2>8. QED
    BY <2>1, <2>4, <2>6, <2>7
<1>8. QED
  BY <1>1, <1>2, <1>3, <1>4, <1>5, <1>6, <1>7 DEF EndsRows

LEMMA ApplySound ==
    ASSUME RowInv, NEW w \in Workers, NEW c, c = worker[w].conn, SyncApply(w)
    PROVE  OwnSound(w, c)
<1> USE DEF RowInv, IndInv
<1>1. worker'[w] = IdleFrame
  BY DEF SyncApply, Abandon, TypeOK
<1>2. calls' = calls /\ window' = window /\ c \in Conns
  BY DEF SyncApply, history, FramesFit
<1>3. CASE UNCHANGED tables
  <2>1. UNCHANGED <<conn, target, run>>
    BY <1>3 DEF tables
  <2>2. WindowSound(c)' /\ \A r \in Runs : RowSound(r, c)'
    BY <1>2, <2>1 DEF WindowSound, RowSound
  <2>3. QED
    BY <1>1, <2>1, <2>2, IdleInHand, RowsRest DEF OwnSound
<1>4. CASE ~UNCHANGED tables
  <2>1. PICK gen, runs : gen = worker[w].gen /\ runs = Completable(c, gen)
    OBVIOUS
  <2>2. EndsRows(c, runs) /\ conn'[c].cooling = conn[c].cooling
    BY <1>4, <2>1, ApplyEnds
  <2>3. WindowSound(c)'
    BY <1>2, <2>2 DEF WindowSound
  <2>4. \A r \in Runs : RunStep(r) /\ RowSound(r, c)'
    BY <1>2, <2>2, RowsEnded
  <2>5. QED
    BY <1>1, <2>3, <2>4, IdleInHand DEF OwnSound
<1>5. QED
  BY <1>3, <1>4

\* What the record of a failure writes: one that is not retried ends every
\* active target of the connection.
LEMMA FailureEnds ==
    ASSUME RowInv, NEW w \in Workers, NEW c, c = worker[w].conn, RecordFailure(w),
           ~UNCHANGED <<job, target, run>>,
           NEW runs,
           runs = IF Retryable(job[c], worker[w].result) THEN {} ELSE Unfinished(c)
    PROVE  /\ EndsRows(c, runs)
           /\ job'[c] = FailedOnce(job[c], worker[w].result)
<1> USE DEF RowInv, IndInv
<1>1. c \in Conns
  BY DEF RecordFailure, FramesFit
<1>2. PICK reconnect : reconnect = (worker[w].result = "owner_action")
  OBVIOUS
<1>3. /\ target' = FailedRows(c, runs, reconnect)
      /\ run' = Rederived(runs, FailedRows(c, runs, reconnect))
      /\ job' = [job EXCEPT ![c] = FailedOnce(@, worker[w].result)]
  BY <1>2 DEF RecordFailure
<1>4. runs \in SUBSET Runs /\ \A r \in runs : IsActive(target[r][c])
  BY DEF Unfinished
<1>5. \A r \in Runs, d \in Conns :
         r \notin runs \/ d # c => target'[r][d] = target[r][d]
  BY <1>1, <1>3 DEF FailedRows, TypeOK
<1>6. ASSUME NEW r \in runs
      PROVE  /\ target'[r][c].state \in FinalTargetStates
             /\ target'[r][c].required = target[r][c].required
  <2>1. target[r][c] \in Target
    BY <1>1, <1>4 DEF TypeOK
  <2>2. target'[r][c] = MarkedFailed(target[r][c], reconnect)
    BY <1>1, <1>3, <1>4 DEF FailedRows, TypeOK
  <2>3. target'[r][c].state \in {"reconnect_required", "failed"}
    BY <2>1, <2>2 DEF MarkedFailed, Target
  <2>4. QED
    BY <2>1, <2>2, <2>3, RequiredStays DEF FinalTargetStates
<1>7. job'[c] = FailedOnce(job[c], worker[w].result)
  BY <1>1, <1>3 DEF TypeOK
<1>8. QED
  BY <1>3, <1>4, <1>5, <1>6, <1>7 DEF EndsRows

LEMMA FailureSound ==
    ASSUME RowInv, NEW w \in Workers, NEW c, c = worker[w].conn, RecordFailure(w)
    PROVE  OwnSound(w, c)
<1> USE DEF RowInv, IndInv
<1>1. worker'[w] = IdleFrame
  BY DEF RecordFailure, Abandon, TypeOK
<1>2. /\ UNCHANGED <<conn, calls, window>>
      /\ c \in Conns
  BY DEF RecordFailure, history, FramesFit
<1>3. WindowSound(c)'
  BY <1>2 DEF WindowSound
<1>4. CASE UNCHANGED <<job, target, run>>
  <2>1. UNCHANGED <<target, run>>
    BY <1>4
  <2>2. \A r \in Runs : RowSound(r, c)'
    BY <1>2, <2>1 DEF RowSound
  <2>3. QED
    BY <1>1, <1>3, <2>1, <2>2, IdleInHand, RowsRest DEF OwnSound
<1>5. CASE ~UNCHANGED <<job, target, run>>
  <2>1. PICK runs :
          runs = IF Retryable(job[c], worker[w].result) THEN {} ELSE Unfinished(c)
    OBVIOUS
  <2>2. EndsRows(c, runs)
    BY <1>5, <2>1, FailureEnds
  <2>3. \A r \in Runs : RunStep(r) /\ RowSound(r, c)'
    BY <1>2, <2>2, RowsEnded
  <2>4. QED
    BY <1>1, <1>3, <2>3, IdleInHand DEF OwnSound
<1>6. QED
  BY <1>4, <1>5

-----------------------------------------------------------------------------
(* Every step keeps the rows sound *)

\* The parts of the invariant that are about rows.
RowsSound ==
    /\ \A w \in Workers : RowInHand(w) /\ DispatchDue(w)
    /\ \A r \in Runs, c \in Conns : RowSound(r, c)
    /\ \A c \in Conns : WindowSound(c)
    /\ RecoveryMatches

LEMMA ClaimSound ==
    ASSUME RowInv, NEW w \in Workers, Claim(w)
    PROVE  RowsSound' /\ \A r \in Runs : RunStep(r)
<1> USE DEF RowInv, IndInv
<1>1. PICK c \in Conns : /\ OthersKept(w, c)
                         /\ job[c].state = "queued"
                         /\ worker'[w].conn = c
  BY ClaimSteps
<1>2. UNCHANGED <<conn, target, run, recovery, calls, window>>
  BY DEF Claim, history
<1>3. worker'[w].pc = "reserve_read"
  BY DEF Claim, IdleFrame, TypeOK
<1>4. RowInHand(w)' /\ DispatchDue(w)'
  BY <1>3 DEF RowInHand, DispatchDue
<1>5. WindowSound(c)' /\ \A r \in Runs : RowSound(r, c)'
  BY <1>2 DEF WindowSound, RowSound
<1>6. /\ \A v \in Workers \ {w} : RowInHand(v)' /\ DispatchDue(v)'
      /\ \A d \in Conns \ {c} : /\ WindowSound(d)'
                                /\ \A r \in Runs : RowSound(r, d)'
      /\ RecoveryMatches'
  BY <1>1, <1>2, OthersSound
<1>7. RowsSound'
  BY <1>4, <1>5, <1>6 DEF RowsSound
<1>8. QED
  BY <1>2, <1>7, RowsRest

LEMMA WorkerSound ==
    ASSUME RowInv, NEW w \in Workers, WorkerStep(w) \/ LocalError(w) \/ Crash(w),
           ~Claim(w)
    PROVE  RowsSound' /\ \A r \in Runs : RunStep(r)
<1> USE DEF RowInv, IndInv
<1>1. PICK c : c = worker[w].conn
  OBVIOUS
<1>2. OwnSound(w, c)
  BY <1>1, ReadsSound, ReserveWriteSound, PrepareWriteSound, DispatchSound,
     RecordWriteSound, FinishSound, ApplySound, FailureSound DEF WorkerStep
<1>3. OthersKept(w, c) /\ recovery' \in {recovery, NoRecovery}
  BY <1>1, WorkerSteps
<1>4. c = None \/ (c \in Conns /\ c = worker[w].conn)
  BY <1>1 DEF TypeOK, Frame
<1>5. /\ \A v \in Workers \ {w} : RowInHand(v)' /\ DispatchDue(v)'
      /\ \A d \in Conns \ {c} : /\ WindowSound(d)'
                                /\ \A r \in Runs : RowSound(r, d)'
      /\ RecoveryMatches'
  BY <1>3, <1>4, OthersSound
<1>6. RowsSound'
  BY <1>2, <1>5 DEF RowsSound, OwnSound
<1>7. QED
  BY <1>2, <1>6 DEF OwnSound

\* Steps that touch no row, frame or window.
LEMMA QuietSound ==
    ASSUME RowInv, UNCHANGED <<target, run, worker, calls, window>>,
           \A c \in Conns : /\ conn'[c].cooling = conn[c].cooling
                            /\ Expired(job[c]) => Expired(job'[c]),
           \/ recovery' = recovery
           \/ recovery' = [busy |-> TRUE, unknown |-> Interrupted("dispatching"),
                                          requeue |-> Interrupted("reserved")]
    PROVE  RowsSound' /\ \A r \in Runs : RunStep(r)
<1> USE DEF RowInv, IndInv
<1>1. ASSUME NEW w \in Workers PROVE RowInHand(w)' /\ DispatchDue(w)'
  <2>1. RowInHand(w) /\ DispatchDue(w)
    OBVIOUS
  <2>2. RowInHand(w)'
    BY <2>1 DEF RowInHand, Row, RefusedUnlisted
  <2>3. worker[w].pc \in {"prepare_write", "dispatch"} => worker[w].conn \in Conns
    BY DEF FramesFit
  <2>4. DispatchDue(w)'
    BY <2>1, <2>3 DEF DispatchDue
  <2>5. QED
    BY <2>2, <2>4
<1>2. \A r \in Runs, c \in Conns : RowSound(r, c)'
  BY DEF RowSound
<1>3. \A c \in Conns : WindowSound(c)'
  BY DEF WindowSound
<1>4. RecoveryMatches'
  <2>1. /\ recovery'.unknown \subseteq Interrupted("dispatching")
        /\ recovery'.requeue \subseteq Interrupted("reserved")
    BY DEF RecoveryMatches
  <2>2. ASSUME NEW outcome PROVE Interrupted(outcome) \subseteq Interrupted(outcome)'
    BY DEF Interrupted
  <2>3. QED
    BY <2>1, <2>2 DEF RecoveryMatches
<1>5. QED
  BY <1>1, <1>2, <1>3, <1>4, RowsRest DEF RowsSound

LEMMA CooldownSound ==
    ASSUME RowInv, NEW c \in Conns, CooldownElapses(c)
    PROVE  RowsSound' /\ \A r \in Runs : RunStep(r)
<1> USE DEF RowInv, IndInv
<1>1. /\ UNCHANGED <<job, target, run, worker, recovery, calls>>
      /\ conn' = [conn EXCEPT ![c].cooling = FALSE]
      /\ window' = [window EXCEPT ![c] = 0]
  BY DEF CooldownElapses
<1>2. /\ conn'[c].cooling = FALSE
      /\ window'[c] = 0
      /\ \A d \in Conns \ {c} : conn'[d] = conn[d] /\ window'[d] = window[d]
  BY <1>1 DEF TypeOK, Connection
<1>3. ASSUME NEW w \in Workers PROVE RowInHand(w)' /\ DispatchDue(w)'
  <2>1. RowInHand(w) /\ DispatchDue(w)
    OBVIOUS
  <2>2. RowInHand(w)'
    BY <1>1, <2>1 DEF RowInHand, Row, RefusedUnlisted
  <2>3. CASE worker[w].conn = c
    <3>1. worker[w].pc # "dispatch"
      BY <2>3 DEF CooldownElapses
    <3>2. QED
      BY <1>1, <1>2, <2>2, <2>3, <3>1 DEF DispatchDue
  <2>4. CASE worker[w].conn # c
    <3>1. worker[w].pc \in {"prepare_write", "dispatch"} =>
             worker[w].conn \in Conns \ {c}
      BY <2>4 DEF FramesFit
    <3>2. DispatchDue(w)'
      BY <1>1, <1>2, <2>1, <3>1 DEF DispatchDue
    <3>3. QED
      BY <2>2, <3>2
  <2>5. QED
    BY <2>3, <2>4
<1>4. \A r \in Runs, d \in Conns : RowSound(r, d)'
  BY <1>1 DEF RowSound
<1>5. \A d \in Conns : WindowSound(d)'
  BY <1>2 DEF WindowSound
<1>6. RecoveryMatches'
  BY <1>1 DEF RecoveryMatches, Interrupted
<1>7. QED
  BY <1>1, <1>3, <1>4, <1>5, <1>6, RowsRest DEF RowsSound

\* The rows the recovery writes are nobody's: an interrupted dispatch goes on
\* to the sync, an interrupted reservation back to the queue.
LEMMA RecoveredRow ==
    ASSUME RowInv, NEW r \in Runs, NEW c \in Conns,
           RecoveredRows[r][c] # target[r][c]
    PROVE  /\ Expired(job[c])
           /\ target[r][c].state = "refreshing"
           /\ RecoveredRows[r][c].required = target[r][c].required
           /\ \/ /\ target[r][c].outcome = "dispatching"
                 /\ RecoveredRows[r][c].state = "syncing"
                 /\ RecoveredRows[r][c].outcome = "outcome_unknown"
              \/ /\ target[r][c].outcome = "reserved"
                 /\ RecoveredRows[r][c].state = "queued"
                 /\ RecoveredRows[r][c].outcome = "not_attempted"
                 /\ calls[r][c] = 0
<1> USE DEF RowInv, IndInv
<1>1. RowSound(r, c) /\ target[r][c] \in Target
  BY DEF TypeOK
<1>2. ASSUME NEW outcome, <<r, c>> \in Interrupted(outcome)
      PROVE  /\ Expired(job[c])
             /\ target[r][c].state \in {"refreshing", "syncing"}
             /\ target[r][c].outcome = outcome
  BY <1>2 DEF Interrupted
<1>3. CASE <<r, c>> \in recovery.unknown
  <2>1. <<r, c>> \in Interrupted("dispatching")
    BY <1>3 DEF RecoveryMatches
  <2>2. <<r, c>> \notin recovery.requeue
    BY <1>2, <2>1 DEF RecoveryMatches
  <2>3. RecoveredRows[r][c] = Unknown(target[r][c])
    BY <1>3, <2>2 DEF RecoveredRows
  <2>4. target[r][c].state = "refreshing"
    BY <1>1, <1>2, <2>1 DEF RowSound
  <2>5. QED
    BY <1>1, <1>2, <2>1, <2>3, <2>4, RequiredStays DEF Unknown, Target
<1>4. CASE <<r, c>> \notin recovery.unknown /\ <<r, c>> \in recovery.requeue
  <2>1. <<r, c>> \in Interrupted("reserved")
    BY <1>4 DEF RecoveryMatches
  <2>2. RecoveredRows[r][c] = Unreserved(target[r][c])
    BY <1>4 DEF RecoveredRows
  <2>3. target[r][c].state = "refreshing" /\ calls[r][c] = 0
    BY <1>1, <1>2, <2>1 DEF RowSound
  <2>4. QED
    BY <1>1, <1>2, <2>1, <2>2, <2>3, RequiredStays DEF Unreserved, Target
<1>5. CASE <<r, c>> \notin recovery.unknown /\ <<r, c>> \notin recovery.requeue
  BY <1>5 DEF RecoveredRows
<1>6. QED
  BY <1>3, <1>4, <1>5

LEMMA RecoverSound ==
    ASSUME RowInv, RecoverWrite
    PROVE  RowsSound' /\ \A r \in Runs : RunStep(r)
<1> USE DEF RowInv, IndInv
<1>1. /\ UNCHANGED <<conn, run, worker, calls, window>>
      /\ recovery' = NoRecovery
      /\ target' = target \/ target' = RecoveredRows
  BY DEF RecoverWrite, history
<1>2. ASSUME NEW r \in Runs, NEW c \in Conns
      PROVE  \/ target'[r][c] = target[r][c]
             \/ /\ Expired(job[c])
                /\ target[r][c].state = "refreshing"
                /\ target'[r][c].required = target[r][c].required
                /\ \/ /\ target'[r][c].state = "syncing"
                      /\ target'[r][c].outcome = "outcome_unknown"
                   \/ /\ target'[r][c].state = "queued"
                      /\ target'[r][c].outcome = "not_attempted"
                      /\ calls[r][c] = 0
  BY <1>1, RecoveredRow
<1>3. ASSUME NEW w \in Workers PROVE RowInHand(w)' /\ DispatchDue(w)'
  <2>1. RowInHand(w) /\ DispatchDue(w) /\ LeaseHeld(w)
    OBVIOUS
  <2>2. CASE worker[w].pc = "idle"
    BY <1>1, <2>2 DEF RowInHand, DispatchDue
  <2>3. CASE worker[w].pc # "idle"
    <3>1. worker[w].conn \in Conns
      BY <2>3 DEF FramesFit
    <3>2. ~Expired(job[worker[w].conn])
      BY <2>1, <3>1, NoneAssumption DEF LeaseHeld, HoldsLive, Expired
    <3>3. \A r \in Runs : target'[r][worker[w].conn] = target[r][worker[w].conn]
      BY <1>2, <3>1, <3>2
    <3>4. worker[w].pc \in RowPhases => worker[w].run \in Runs
      BY DEF FramesFit
    <3>5. RowInHand(w)'
      BY <1>1, <2>1, <3>3, <3>4 DEF RowInHand, Row, RowPhases,
         RefusedUnlisted
    <3>6. DispatchDue(w)'
      BY <1>1, <2>1 DEF DispatchDue
    <3>7. QED
      BY <3>5, <3>6
  <2>4. QED
    BY <2>2, <2>3
<1>4. ASSUME NEW r \in Runs, NEW c \in Conns PROVE RowSound(r, c)'
  <2>1. RowSound(r, c)
    OBVIOUS
  <2>2. QED
    BY <1>1, <1>2, <2>1 DEF RowSound
<1>5. \A c \in Conns : WindowSound(c)'
  BY <1>1 DEF WindowSound
<1>6. RecoveryMatches'
  BY <1>1 DEF RecoveryMatches, NoRecovery
<1>7. ASSUME NEW r \in Runs PROVE RunStep(r)
  <2>1. ASSUME NEW c \in Conns
        PROVE  /\ \/ target'[r][c] = target[r][c]
                  \/ /\ IsActive(target[r][c])
                     /\ target'[r][c].state \in ActiveTargetStates \cup FinalTargetStates
                     /\ target'[r][c].required = target[r][c].required
               /\ IsActive(target'[r][c]) <=> IsActive(target[r][c])
    BY <1>2 DEF IsActive, ActiveTargetStates
  <2>2. run'[r] = run[r]
    BY <1>1
  <2>3. QED
    BY <2>1, <2>2 DEF RunStep
<1>8. QED
  BY <1>3, <1>4, <1>5, <1>6, <1>7 DEF RowsSound

\* A new run's rows are those nobody has looked at.
LEMMA CreateSound ==
    ASSUME RowInv, NEW s \in Runs, CreateRun(s)
    PROVE  /\ RowsSound'
           /\ RunSound(s)' /\ FinalKept(s)
           /\ \A r \in Runs \ {s} : RunStep(r)
<1> USE DEF RowInv, IndInv
<1>1. PICK cs \in SUBSET Conns : cs = {c \in Conns : Active(c)} /\ cs # {}
  BY DEF CreateRun
<1>2. /\ run[s] = "none"
      /\ EnqueueAll(cs)
      /\ run' = [run EXCEPT ![s] = "queued"]
      /\ target' = [target EXCEPT ![s] =
            [c \in Conns |-> IF c \in cs THEN NewTarget(conn[c].requested + 1)
                                         ELSE NoTarget]]
      /\ UNCHANGED <<worker, recovery, calls, window>>
  BY <1>1 DEF CreateRun, history
<1>3. \A c \in Conns : target[s][c].state = "absent" /\ calls[s][c] = 0
  <2>1. RunSound(s) /\ \A c \in Conns : RowSound(s, c)
    OBVIOUS
  <2>2. QED
    BY <1>2, <2>1 DEF RunSound, RowSound
<1>4. \A r \in Runs \ {s} : target'[r] = target[r] /\ run'[r] = run[r]
  BY <1>2 DEF TypeOK
<1>5. \A c \in Conns : /\ target'[s][c].outcome = "not_attempted"
                       /\ c \in cs => target'[s][c].state = "queued"
                       /\ c \notin cs => target'[s][c].state = "absent"
  BY <1>2 DEF TypeOK, NewTarget, NoTarget
<1>6. \A c \in Conns : /\ conn'[c].cooling = conn[c].cooling
                       /\ Expired(job'[c]) <=> Expired(job[c])
  <2>1. \A c \in Conns : conn[c] \in Connection /\ job[c] \in Job
    BY DEF TypeOK
  <2>2. \A c \in Conns : conn'[c].cooling = conn[c].cooling
    BY <1>2, <2>1 DEF EnqueueAll, Connection
  <2>3. \A c \in Conns : Expired(job'[c]) <=> Expired(job[c])
    BY <1>2, <2>1 DEF EnqueueAll, Enqueued, Expired, JobActive, ActiveJobStates,
       Job, NoJob
  <2>4. QED
    BY <2>2, <2>3
<1>7. ASSUME NEW w \in Workers PROVE RowInHand(w)' /\ DispatchDue(w)'
  <2>1. RowInHand(w) /\ DispatchDue(w)
    OBVIOUS
  <2>2. worker[w].pc # "idle" => worker[w].conn \in Conns
    BY DEF FramesFit
  <2>3. worker[w].pc \in RowPhases => worker[w].run \in Runs \ {s}
    <3>1. worker[w].pc \in RowPhases => Row(w).state \in {"queued", "refreshing"}
      BY <2>1 DEF RowInHand, RowPhases
    <3>2. QED
      BY <1>3, <2>2, <3>1 DEF FramesFit, RowPhases, Row
  <2>4. worker[w].pc = "finish" => worker[w].run \in Runs \ {s}
    <3>1. worker[w].pc = "finish" =>
             /\ worker[w].run \in Runs
             /\ Row(w).state \in FinalTargetStates \cup {"syncing"}
      BY <2>1 DEF RowInHand, RefusedUnlisted
    <3>2. QED
      BY <1>3, <2>2, <3>1, StatesApart DEF Row
  <2>5. RowInHand(w)'
    <3>1. Row(w)' = target'[worker[w].run][worker[w].conn]
      BY <1>2 DEF Row
    <3>2. worker[w].run \in Runs \ {s} => Row(w)' = Row(w)
      BY <1>4, <3>1 DEF Row
    <3>3. worker'[w] = worker[w]
      BY <1>2
    <3>4. QED
      BY <2>1, <2>3, <2>4, <3>2, <3>3 DEF RowInHand, RowPhases, RefusedUnlisted
  <2>6. DispatchDue(w)'
    BY <1>2, <1>6, <2>1, <2>2 DEF DispatchDue
  <2>7. QED
    BY <2>5, <2>6
<1>8. ASSUME NEW r \in Runs, NEW c \in Conns PROVE RowSound(r, c)'
  <2>1. RowSound(r, c)
    OBVIOUS
  <2>2. CASE r = s
    BY <1>2, <1>3, <1>5, <2>2 DEF RowSound
  <2>3. CASE r # s
    BY <1>2, <1>4, <2>1, <2>3 DEF RowSound
  <2>4. QED
    BY <2>2, <2>3
<1>9. \A c \in Conns : WindowSound(c)'
  BY <1>2, <1>6 DEF WindowSound
<1>10. RecoveryMatches'
  <2>1. ASSUME NEW outcome, NEW rc \in Interrupted(outcome)
        PROVE  rc \in Interrupted(outcome)'
    <3>1. /\ rc[1] \in Runs
          /\ rc[2] \in Conns
          /\ rc \in Runs \X Conns
          /\ target[rc[1]][rc[2]].state \in {"refreshing", "syncing"}
      BY <2>1 DEF Interrupted
    <3>2. rc[1] # s
      BY <1>3, <3>1
    <3>3. target'[rc[1]][rc[2]] = target[rc[1]][rc[2]]
      BY <1>4, <3>1, <3>2
    <3>4. QED
      BY <1>6, <2>1, <3>1, <3>3 DEF Interrupted
  <2>2. QED
    BY <1>2, <2>1 DEF RecoveryMatches
<1>11. RunSound(s)' /\ FinalKept(s)
  <2>1. run'[s] = "queued"
    BY <1>2 DEF TypeOK
  <2>2. \E c \in Conns : IsActive(target'[s][c])
    BY <1>1, <1>5 DEF IsActive, ActiveTargetStates
  <2>3. RunSound(s)'
    BY <2>1, <2>2, StatesApart DEF RunSound
  <2>4. FinalKept(s)
    BY <1>2, <1>3, StatesApart DEF FinalKept
  <2>5. QED
    BY <2>3, <2>4
<1>12. ASSUME NEW r \in Runs \ {s} PROVE RunStep(r)
  BY <1>4 DEF RunStep
<1>13. QED
  BY <1>7, <1>8, <1>9, <1>10, <1>11, <1>12 DEF RowsSound

\* What the other steps of the environment leave as it was.
LEMMA QuietRows ==
    ASSUME TypeOK,
           \/ UNCHANGED vars
           \/ \E c \in Conns : \/ Link(c) \/ EnqueueSync(c) \/ Disconnect(c)
                               \/ LeaseTick(c) \/ BackoffElapses(c)
           \/ \E w \in Workers : Heartbeat(w)
           \/ RecoverRead
    PROVE  /\ UNCHANGED <<target, run, worker, calls, window>>
           /\ \A c \in Conns : /\ conn'[c].cooling = conn[c].cooling
                               /\ Expired(job[c]) => Expired(job'[c])
           /\ \/ recovery' = recovery
              \/ recovery' = [busy |-> TRUE, unknown |-> Interrupted("dispatching"),
                                             requeue |-> Interrupted("reserved")]
<1>1. \A c \in Conns : conn[c] \in Connection /\ job[c] \in Job
  BY DEF TypeOK
<1>2. ASSUME NEW c \in Conns, Link(c) \/ EnqueueSync(c) \/ Disconnect(c)
      PROVE  \A d \in Conns : conn'[d].cooling = conn[d].cooling
  <2>1. CASE Link(c)
    <3>1. conn'[c] = [conn[c] EXCEPT !.status = "active", !.requested = 1]
      BY <2>1 DEF Link, TypeOK
    <3>2. \A d \in Conns \ {c} : conn'[d] = conn[d]
      BY <2>1 DEF Link, TypeOK
    <3>3. conn'[c].cooling = conn[c].cooling
      BY <1>1, <3>1 DEF Connection
    <3>4. QED
      BY <3>2, <3>3
  <2>2. CASE EnqueueSync(c)
    BY <1>1, <2>2 DEF EnqueueSync, EnqueueAll, Connection
  <2>3. CASE Disconnect(c)
    <3>1. conn'[c] = [conn[c] EXCEPT !.status = "removed", !.cursor = 0]
      BY <2>3 DEF Disconnect, TypeOK
    <3>2. \A d \in Conns \ {c} : conn'[d] = conn[d]
      BY <2>3 DEF Disconnect, TypeOK
    <3>3. conn'[c].cooling = conn[c].cooling
      BY <1>1, <3>1 DEF Connection
    <3>4. QED
      BY <3>2, <3>3
  <2>4. QED
    BY <1>2, <2>1, <2>2, <2>3
<1>3. ASSUME NEW j \in Job, NEW n, Expired(j) PROVE Expired(Enqueued(j, n))
  BY <1>3 DEF Expired, Enqueued, JobActive, ActiveJobStates, Job
<1>4. ASSUME NEW c \in Conns, Link(c) \/ EnqueueSync(c)
      PROVE  \A d \in Conns : Expired(job[d]) => Expired(job'[d])
  <2>1. \A d \in Conns :
           job'[d] = job[d] \/ \E n : job'[d] = Enqueued(job[d], n)
    BY <1>4 DEF Link, EnqueueSync, EnqueueAll, TypeOK
  <2>2. QED
    BY <1>1, <1>3, <2>1
<1>5. ASSUME NEW c \in Conns, LeaseTick(c) \/ BackoffElapses(c)
      PROVE  \A d \in Conns : Expired(job[d]) => Expired(job'[d])
  <2>1. ~Expired(job[c])
    BY <1>1, <1>5 DEF LeaseTick, BackoffElapses, Expired, Job
  <2>2. \A d \in Conns \ {c} : job'[d] = job[d]
    BY <1>5 DEF LeaseTick, BackoffElapses, TypeOK
  <2>3. QED
    BY <2>1, <2>2
<1>6. ASSUME NEW w \in Workers, Heartbeat(w)
      PROVE  \A d \in Conns : Expired(job[d]) => Expired(job'[d])
  <2>1. PICK c : c = worker[w].conn
    OBVIOUS
  <2>2. c \in Conns /\ ~Expired(job[c])
    BY <1>1, <1>6, <2>1 DEF Heartbeat, HoldsLive, Holds, Expired, TypeOK, Frame
  <2>3. \A d \in Conns \ {c} : job'[d] = job[d]
    BY <1>6, <2>1 DEF Heartbeat, TypeOK
  <2>4. QED
    BY <2>2, <2>3
<1>7. QED
  BY <1>2, <1>4, <1>5, <1>6
     DEF vars, Link, EnqueueSync, Disconnect, LeaseTick, BackoffElapses,
         Heartbeat, RecoverRead, tables, history

-----------------------------------------------------------------------------
(* The inductive invariant of rows and runs, and what follows from it *)

\* Every step keeps the rows sound; all but the creation of a run write its rows
\* as RunStep says.
LEMMA NextRunSteps ==
    ASSUME RowInv, LeasesKept, [Next]_vars, ~\E s \in Runs : CreateRun(s)
    PROVE  RowsSound' /\ \A r \in Runs : RunStep(r)
<1>1. CASE \E w \in Workers : WorkerStep(w) \/ LocalError(w) \/ Crash(w)
  BY <1>1, ClaimSound, WorkerSound
<1>2. CASE \E c \in Conns : CooldownElapses(c)
  BY <1>2, CooldownSound
<1>3. CASE RecoverWrite
  BY <1>3, RecoverSound
<1>4. CASE \/ UNCHANGED vars
           \/ \E c \in Conns : \/ Link(c) \/ EnqueueSync(c) \/ Disconnect(c)
                               \/ LeaseTick(c) \/ BackoffElapses(c)
           \/ \E w \in Workers : Heartbeat(w)
           \/ RecoverRead
  <2>1. TypeOK
    BY DEF RowInv, IndInv
  <2>2. QED
    BY <1>4, <2>1, QuietRows, QuietSound
<1>5. ~ \E c \in Conns : LeaseStall(c)
  BY DEF LeaseStall, LeasesKept
<1>6. QED
  BY <1>1, <1>2, <1>3, <1>4, <1>5 DEF Next

\* Every step keeps the rows sound and every run in step with its targets.
LEMMA NextRows ==
    ASSUME RowInv, IndInv', LeasesKept, [Next]_vars
    PROVE  RowsSound' /\ \A r \in Runs : RunSound(r)' /\ FinalKept(r)
<1>1. TypeOK /\ TypeOK' /\ \A r \in Runs : RunSound(r)
  BY DEF RowInv, IndInv
<1>2. CASE \E s \in Runs : CreateRun(s)
  <2>1. PICK s \in Runs : CreateRun(s)
    BY <1>2
  <2>2. /\ RowsSound'
        /\ RunSound(s)' /\ FinalKept(s)
        /\ \A r \in Runs \ {s} : RunStep(r)
    BY <2>1, CreateSound
  <2>3. \A r \in Runs \ {s} : RunSound(r)' /\ FinalKept(r)
    BY <1>1, <2>2, RunKept
  <2>4. QED
    BY <2>2, <2>3
<1>3. CASE ~\E s \in Runs : CreateRun(s)
  BY <1>1, <1>3, NextRunSteps, RunKept
<1>4. QED
  BY <1>2, <1>3

LEMMA NextRow ==
    ASSUME RowInv, LeasesKept, [Next]_vars
    PROVE  RowInv' /\ \A r \in Runs : FinalKept(r)
<1>1. IndInv'
  BY NextInd DEF RowInv
<1>2. \A w \in Workers : LeaseHeld(w)'
  BY <1>1, NextHolds DEF RowInv
<1>3. RowsSound' /\ \A r \in Runs : RunSound(r)' /\ FinalKept(r)
  BY <1>1, NextRows
<1>4. QED
  BY <1>1, <1>2, <1>3 DEF RowInv, RowsSound

\* The empty tables satisfy it.
LEMMA InitRow ==
    ASSUME Init
    PROVE  RowInv
<1> USE DEF Init
<1>1. IndInv
  BY InitInd
<1>2. \A w \in Workers : LeaseHeld(w) /\ RowInHand(w) /\ DispatchDue(w)
  BY DEF LeaseHeld, RowInHand, DispatchDue, IdleFrame
<1>3. \A r \in Runs, c \in Conns : RowSound(r, c)
  BY DEF RowSound, NoTarget
<1>4. \A c \in Conns : WindowSound(c)
  BY DEF WindowSound
<1>5. ASSUME NEW r \in Runs PROVE RunSound(r)
  <2>1. run[r] = "none" /\ \A c \in Conns : target[r][c].state = "absent"
    BY DEF NoTarget
  <2>2. run[r] \notin ActiveRunStates \cup FinalRunStates
    BY <2>1, StatesApart
  <2>3. \A c \in Conns : ~IsActive(target[r][c])
    BY <2>1, StatesApart DEF IsActive
  <2>4. QED
    BY <2>1, <2>2, <2>3 DEF RunSound
<1>6. RecoveryMatches
  BY DEF RecoveryMatches, NoRecovery
<1>7. QED
  BY <1>1, <1>2, <1>3, <1>4, <1>5, <1>6 DEF RowInv

\* As long as no lease runs out under a worker that still runs its job, every
\* reachable state satisfies the strengthened invariant.
THEOREM RowsInvariant ==
    ASSUME LeasesKept
    PROVE  Spec => []RowInv
<1>1. Init => RowInv
  BY InitRow
<1>2. RowInv /\ [Next]_vars => RowInv'
  BY NextRow
<1>3. QED
  BY <1>1, <1>2, PTL DEF Spec

\* prepare_reserved_target and the recovery: no target's refresh is ever sent
\* to the provider twice.
THEOREM SentOnce ==
    ASSUME LeasesKept
    PROVE  Spec => []NeverRedispatched
<1>1. RowInv => NeverRedispatched
  BY DEF RowInv, RowSound, NeverRedispatched
<1>2. QED
  BY <1>1, RowsInvariant, PTL

\* The window that the dispatching commit closes lets one refresh through.
THEOREM SentOncePerWindow ==
    ASSUME LeasesKept
    PROVE  Spec => []OneDispatchPerWindow
<1>1. RowInv => OneDispatchPerWindow
  BY DEF RowInv, WindowSound, OneDispatchPerWindow
<1>2. QED
  BY <1>1, RowsInvariant, PTL

\* Every transaction that ends a target derives its run again: a run is active
\* exactly while one of its targets is.
THEOREM RunsFollowTargets ==
    ASSUME LeasesKept
    PROVE  Spec => []RunReflectsTargets
<1>1. RowInv => RunReflectsTargets
  BY DEF RowInv, RunSound, RunReflectsTargets
<1>2. QED
  BY <1>1, RowsInvariant, PTL

\* A finished run reports what became of its targets.
THEOREM RunsTellTheTruth ==
    ASSUME LeasesKept
    PROVE  Spec => []RunOutcomeHonest
<1>1. RowInv => RunOutcomeHonest
  BY DEF RowInv, RunSound, RunOutcomeHonest
<1>2. QED
  BY <1>1, RowsInvariant, PTL

\* No step changes a final target or reopens a final run.
THEOREM FinalRowsStay ==
    ASSUME LeasesKept
    PROVE  Spec => FinalStays
<1>1. RowInv /\ [Next]_vars =>
         [/\ \A r \in Runs, c \in Conns :
                target[r][c].state \in FinalTargetStates =>
                    target'[r][c] = target[r][c]
          /\ \A r \in Runs : run[r] \in FinalRunStates => run'[r] = run[r]]_vars
  BY NextRow DEF FinalKept
<1>2. QED
  BY <1>1, RowsInvariant, PTL DEF Spec, FinalStays

\* A job that ends without a sync pass leaves its target final, or refused by
\* the provider with an owner-action code that the service does not list.
THEOREM NoSyncLeavesDecided ==
    ASSUME LeasesKept
    PROVE  Spec => []NoSyncMeansDecided
<1>1. RowInv => NoSyncMeansDecided
  BY DEF RowInv, RowInHand, NoSyncMeansDecided
<1>2. QED
  BY <1>1, RowsInvariant, PTL

-----------------------------------------------------------------------------
(* Without faults a worker leaves no target behind *)

\* No step but the creation of a run makes a row or a run active.
LEMMA UniqueKept ==
    ASSUME UniqueRows(target, run), \A r \in Runs : RunStep(r)
    PROVE  UniqueRows(target', run')
<1>1. ASSUME NEW r \in Runs, NEW c \in Conns, IsActive(target'[r][c])
      PROVE  IsActive(target[r][c])
  BY <1>1 DEF RunStep
<1>2. ASSUME NEW r \in Runs, run'[r] \in ActiveRunStates
      PROVE  run[r] \in ActiveRunStates
  BY <1>2 DEF RunStep
<1>3. QED
  BY <1>1, <1>2 DEF UniqueRows

\* A write to an active row, and to its run, breaks no unique index.
LEMMA NoConflict ==
    ASSUME HandInv, NEW w \in Workers
    PROVE  ~WriteConflict(w)
<1> USE DEF HandInv, RowInv, IndInv
<1> SUFFICES ASSUME WriteConflict(w) PROVE FALSE
  OBVIOUS
<1>1. PICK r0, c, row, runs :
        /\ r0 = worker[w].run
        /\ c = worker[w].conn
        /\ runs = run \/ runs = [run EXCEPT ![r0] = "running"]
        /\ ~UniqueRows(WithRow(w, row), runs)
  BY DEF WriteConflict
<1>2. worker[w].pc \in {"reserve_write", "prepare_write", "record_write"}
  BY DEF WriteConflict
<1>3. r0 \in Runs /\ c \in Conns /\ IsActive(target[r0][c])
  BY <1>1, <1>2 DEF FramesFit, RowPhases, RowInHand, Row, IsActive,
     ActiveTargetStates
<1>4. run[r0] \in ActiveRunStates
  BY <1>3 DEF RunSound
<1>5. \A r \in Runs, d \in Conns :
         IsActive(WithRow(w, row)[r][d]) => IsActive(target[r][d])
  BY <1>1, <1>3 DEF WithRow, TypeOK
<1>6. \A r \in Runs : runs[r] \in ActiveRunStates => run[r] \in ActiveRunStates
  BY <1>1, <1>4 DEF TypeOK
<1>7. UniqueRows(WithRow(w, row), runs)
  BY <1>5, <1>6 DEF UniqueRows
<1>8. QED
  BY <1>1, <1>7

\* A worker's claim covers no more than its job does.
LEMMA ClaimCovered ==
    ASSUME RowInv, NEW w \in Workers, NEW c \in Conns, c = worker[w].conn
    PROVE  /\ worker[w].gen \in Nat
           /\ worker[w].gen <= conn[c].requested
           /\ conn[c].completed < worker[w].gen
           /\ job[c].target = conn[c].requested
           /\ conn[c] \in Connection
           /\ Holds(w)
           /\ conn[c].status # "absent"
<1> USE DEF RowInv, IndInv
<1>1. Holds(w)
  BY NoneAssumption DEF LeaseHeld, HoldsLive
<1>2. worker[w].gen \in Nat /\ conn[c] \in Connection
  BY DEF TypeOK, Frame
<1>3. /\ worker[w].gen <= conn[c].requested
      /\ conn[c].completed < worker[w].gen
      /\ job[c].target = conn[c].requested
  BY <1>1 DEF GenerationsAgree, Holds, JobActive, ActiveJobStates
<1>4. conn[c].requested \in Nat /\ conn[c].completed \in Nat
  BY <1>2 DEF Connection
<1>5. conn[c].status # "absent"
  BY <1>2, <1>3, <1>4 DEF AbsentIsBlank
<1>6. QED
  BY <1>1, <1>2, <1>3, <1>5

\* The steps that only move the worker on.
LEMMA ReadsClean ==
    ASSUME HandInv, NEW w \in Workers, NEW c, c = worker[w].conn,
           \/ ReserveRead(w) \/ PrepareRead(w) \/ Dispatch(w) \/ RecordRead(w)
           \/ SyncStart(w) \/ SyncCollect(w)
    PROVE  NoneLeftBehind(w)'
<1> USE DEF HandInv, RowInv, IndInv
<1>1. target' = target /\ worker[w].pc # "idle"
  BY DEF ReserveRead, PrepareRead, Dispatch, RecordRead, SyncStart, SyncCollect,
     tables
<1>2. c \in Conns /\ worker[w] \in Frame
  BY <1>1 DEF FramesFit, TypeOK
<1>3. /\ \A r \in Runs : target[r][c].state = "refreshing" =>
            worker[w].pc \in RefreshPhases /\ r = worker[w].run
      /\ \A r \in Runs :
            /\ target[r][c].state = "queued"
            /\ target[r][c].required <= worker[w].gen
            => \/ worker[w].pc = "reserve_read"
               \/ worker[w].pc = "reserve_write" /\ r = worker[w].run
  BY <1>1 DEF NoneLeftBehind
<1>4. /\ "reserve_read" \notin RefreshPhases
      /\ "sync_start" \notin RefreshPhases
      /\ "collect" \notin RefreshPhases
  BY DEF RefreshPhases, RowPhases
<1>5. ASSUME worker'[w] = IdleFrame PROVE NoneLeftBehind(w)'
  BY <1>5 DEF NoneLeftBehind, IdleFrame
<1>6. ASSUME worker'[w].conn = worker[w].conn,
             worker'[w].gen = worker[w].gen,
             worker[w].pc \notin RefreshPhases \cup {"reserve_read", "reserve_write"}
      PROVE  NoneLeftBehind(w)'
  BY <1>1, <1>3, <1>6 DEF NoneLeftBehind
<1>7. ASSUME worker'[w].conn = worker[w].conn,
             worker'[w].gen = worker[w].gen,
             worker'[w].run = worker[w].run,
             worker[w].pc \in RefreshPhases,
             worker'[w].pc \in RefreshPhases
      PROVE  NoneLeftBehind(w)'
  <2>1. worker[w].pc \notin {"reserve_read", "reserve_write"}
    BY <1>4, <1>7 DEF RefreshPhases
  <2>2. QED
    BY <1>1, <1>3, <1>7, <2>1 DEF NoneLeftBehind
<1>8. CASE ReserveRead(w)
  <2>1. worker[w].pc = "reserve_read"
    BY <1>8 DEF ReserveRead
  <2>2. \A r \in Runs : target[r][c].state # "refreshing"
    BY <1>3, <1>4, <2>1
  <2>3. ASSUME NEW r \in Runs, target[r][c].state = "queued",
               target[r][c].required <= worker[w].gen
        PROVE  r \in Reservable(w)
    <3>1. target[r][c].required \in Nat
      BY <1>2 DEF TypeOK, Target
    <3>2. /\ Holds(w)
          /\ worker[w].gen \in Nat
          /\ conn[c].requested \in Nat
          /\ worker[w].gen <= conn[c].requested
          /\ job[c].target = conn[c].requested
      BY <1>2, ClaimCovered DEF Connection
    <3>3. target[r][c].required <= job[c].target
      BY <2>3, <3>1, <3>2
    <3>4. QED
      BY <2>3, <3>2, <3>3 DEF Reservable
  <2>4. CASE Reservable(w) = {} /\ Goto(w, "sync_start")
    <3>1. worker'[w].conn = worker[w].conn /\ worker'[w].gen = worker[w].gen
      BY <1>2, <2>4 DEF Goto, TypeOK, Frame
    <3>2. QED
      BY <1>1, <2>2, <2>3, <2>4, <3>1 DEF NoneLeftBehind
  <2>5. CASE \E r \in Reservable(w) :
               worker' = [worker EXCEPT ![w].pc = "reserve_write", ![w].run = r]
    <3>1. PICK r \in Reservable(w) :
               worker' = [worker EXCEPT ![w].pc = "reserve_write", ![w].run = r]
      BY <2>5
    <3>2. /\ worker'[w].conn = worker[w].conn
          /\ worker'[w].gen = worker[w].gen
          /\ worker'[w].pc = "reserve_write"
          /\ worker'[w].run = r
      BY <1>2, <3>1 DEF TypeOK, Frame
    <3>3. r \in Runs /\ target[r][c].state = "queued"
      BY <3>1 DEF Reservable
    <3>4. ASSUME NEW s \in Runs, target[s][c].state = "queued" PROVE s = r
      BY <1>2, <3>3, <3>4 DEF UniqueRows, IsActive, ActiveTargetStates
    <3>5. QED
      BY <1>1, <2>2, <3>2, <3>4 DEF NoneLeftBehind
  <2>6. QED
    BY <1>8, <2>4, <2>5 DEF ReserveRead
<1>9. CASE PrepareRead(w)
  <2>1. /\ worker[w].pc = "prepare_read"
        /\ Holds(w)
        /\ Row(w).outcome = "reserved"
    BY <1>2, <1>9, ClaimCovered DEF PrepareRead, RowInHand
  <2>2. worker' = [worker EXCEPT ![w].pc = "prepare_write",
                                 ![w].result = Plan(worker[w].conn)]
    BY <1>9, <2>1 DEF PrepareRead
  <2>3. /\ worker'[w].conn = worker[w].conn
        /\ worker'[w].gen = worker[w].gen
        /\ worker'[w].run = worker[w].run
        /\ worker'[w].pc = "prepare_write"
    BY <1>2, <2>2 DEF TypeOK, Frame
  <2>4. QED
    BY <1>7, <2>1, <2>3 DEF RefreshPhases, RowPhases
<1>10. CASE Dispatch(w)
  <2>1. PICK answer : worker' = [worker EXCEPT ![w].pc = "record_read",
                                               ![w].result = answer]
    BY <1>10 DEF Dispatch
  <2>2. /\ worker'[w].conn = worker[w].conn
        /\ worker'[w].gen = worker[w].gen
        /\ worker'[w].run = worker[w].run
        /\ worker'[w].pc = "record_read"
        /\ worker[w].pc = "dispatch"
    BY <1>2, <1>10, <2>1 DEF TypeOK, Frame, Dispatch
  <2>3. QED
    BY <1>7, <2>2 DEF RefreshPhases, RowPhases
<1>11. CASE RecordRead(w)
  <2>1. CASE Abandon(w)
    BY <1>5, <2>1 DEF Abandon, TypeOK
  <2>2. CASE Goto(w, "record_write")
    <3>1. /\ worker'[w].conn = worker[w].conn
          /\ worker'[w].gen = worker[w].gen
          /\ worker'[w].run = worker[w].run
          /\ worker'[w].pc = "record_write"
          /\ worker[w].pc = "record_read"
      BY <1>2, <1>11, <2>2 DEF TypeOK, Frame, RecordRead, Goto
    <3>2. QED
      BY <1>7, <3>1 DEF RefreshPhases, RowPhases
  <2>3. QED
    BY <1>11, <2>1, <2>2 DEF RecordRead
<1>12. CASE SyncStart(w) \/ SyncCollect(w)
  <2>1. worker'[w] = IdleFrame \/ FrameStays(w)
    <3>1. ~Claim(w)
      BY <1>1 DEF Claim
    <3>2. QED
      BY <1>12, <3>1, WorkerSteps DEF WorkerStep
  <2>2. worker[w].pc \in {"sync_start", "collect"}
    BY <1>12 DEF SyncStart, SyncCollect
  <2>3. QED
    BY <1>4, <1>5, <1>6, <2>1, <2>2 DEF FrameStays
<1>13. QED
  BY <1>8, <1>9, <1>10, <1>11, <1>12

\* The steps that write the worker's row.
LEMMA WritesClean ==
    ASSUME HandInv, NEW w \in Workers, NEW c, c = worker[w].conn,
           ReserveWrite(w) \/ PrepareWrite(w) \/ RecordWrite(w)
    PROVE  NoneLeftBehind(w)'
<1> USE DEF HandInv, RowInv, IndInv
<1>1. PICK r0 : r0 = worker[w].run
  OBVIOUS
<1>2. worker[w].pc \in {"reserve_write", "prepare_write", "record_write"}
  BY DEF ReserveWrite, PrepareWrite, RecordWrite
<1>3. PICK row : /\ target' = WithRow(w, row)
                 /\ \/ ReserveWrite(w) /\ row = Reserved(Row(w))
                    \/ PrepareWrite(w) /\ row = Prepared(Row(w), worker[w].result)
                    \/ RecordWrite(w) /\ row = Recorded(Row(w), worker[w].result)
  BY DEF ReserveWrite, PrepareWrite, RecordWrite
<1>4. /\ r0 \in Runs
      /\ c \in Conns
      /\ target'[r0][c] = row
      /\ \A r \in Runs, d \in Conns :
            r # r0 \/ d # c => target'[r][d] = target[r][d]
  BY <1>1, <1>2, <1>3, RowWritten DEF RowPhases
<1>5. /\ worker'[w].conn = c
      /\ worker'[w].gen = worker[w].gen
      /\ worker'[w].run = r0
  BY <1>1 DEF ReserveWrite, PrepareWrite, RecordWrite, Goto, TypeOK, Frame
<1>6. ASSUME NEW r \in Runs \ {r0}
      PROVE  /\ target'[r][c].state # "refreshing"
             /\ ~(target'[r][c].state = "queued"
                  /\ target'[r][c].required <= worker[w].gen)
  <2>1. target'[r][c] = target[r][c]
    BY <1>4
  <2>2. NoneLeftBehind(w)
    OBVIOUS
  <2>3. QED
    BY <1>1, <1>2, <1>4, <2>1, <2>2 DEF NoneLeftBehind
<1>7. SUFFICES /\ row.state = "refreshing" => worker'[w].pc \in RefreshPhases
               /\ row.state # "queued"
  BY <1>4, <1>5, <1>6 DEF NoneLeftBehind
<1>8. Row(w) \in Target
  BY <1>1, <1>4 DEF TypeOK, Row
<1>9. CASE ReserveWrite(w) /\ row = Reserved(Row(w))
  <2>1. row.state = "refreshing"
    BY <1>8, <1>9 DEF Reserved, Target
  <2>2. worker'[w].pc = "prepare_read"
    BY <1>9 DEF ReserveWrite, Goto, TypeOK, Frame
  <2>3. QED
    BY <2>1, <2>2 DEF RefreshPhases, RowPhases
<1>10. CASE PrepareWrite(w) /\ row = Prepared(Row(w), worker[w].result)
  <2>1. PICK plan : plan = worker[w].result
    OBVIOUS
  <2>2. plan \in Plans /\ Row(w).state = "refreshing"
    BY <1>10, <2>1 DEF PrepareWrite, FramesFit, RowInHand
  <2>3. worker'[w].pc = AfterPlan(plan)
    BY <1>10, <2>1 DEF PrepareWrite, TypeOK, Frame
  <2>4. /\ row.state \in {"disconnected", "syncing", "refreshing"}
        /\ row.state = "refreshing" => plan = "dispatch"
    BY <1>8, <1>10, <2>1, <2>2 DEF Prepared, Target, Plans
  <2>5. plan = "dispatch" => AfterPlan(plan) = "dispatch"
    BY DEF AfterPlan
  <2>6. QED
    BY <2>3, <2>4, <2>5 DEF RefreshPhases, RowPhases
<1>11. CASE RecordWrite(w) /\ row = Recorded(Row(w), worker[w].result)
  <2>1. row.state \in {"reconnect_required", "syncing"}
    BY <1>8, <1>11 DEF Recorded, Target
  <2>2. QED
    BY <2>1
<1>12. QED
  BY <1>3, <1>9, <1>10, <1>11

\* A job that a worker gives back is not expired, and a job that a worker ends
\* leaves no target in "refreshing".
LEMMA EndsClean ==
    ASSUME HandInv, NEW w \in Workers, NEW c \in Conns, c = worker[w].conn,
           FinishWithoutSync(w) \/ SyncApply(w) \/ RecordFailure(w)
    PROVE  /\ \A r \in Runs : target'[r][c].state # "refreshing"
           /\ ~Expired(job'[c])
<1> USE DEF HandInv, RowInv, IndInv
<1>1. worker[w].pc \in {"finish", "apply", "fail"}
  BY DEF FinishWithoutSync, SyncApply, RecordFailure
<1>2. \A r \in Runs : target[r][c].state # "refreshing"
  <2>1. NoneLeftBehind(w)
    OBVIOUS
  <2>2. QED
    BY <1>1, <2>1 DEF NoneLeftBehind, RefreshPhases, RowPhases
<1>3. job[c] \in Job /\ ~Expired(job[c])
  BY NoneAssumption DEF TypeOK, LeaseHeld, HoldsLive, Expired
<1>4. CASE UNCHANGED <<job, target>>
  BY <1>2, <1>3, <1>4
<1>5. CASE FinishWithoutSync(w)
  <2>1. target' = target
    BY <1>5 DEF FinishWithoutSync
  <2>2. job'[c] = job[c] \/ job'[c] = Finished(job[c])
    BY <1>5 DEF FinishWithoutSync, TypeOK
  <2>3. ~Expired(job'[c])
    BY <1>3, <2>2 DEF Finished, Released, Expired, Job
  <2>4. QED
    BY <1>2, <2>1, <2>3
<1>6. CASE SyncApply(w) /\ ~UNCHANGED tables
  <2>1. PICK gen, runs : gen = worker[w].gen /\ runs = Completable(c, gen)
    OBVIOUS
  <2>2. EndsRows(c, runs) /\ job'[c] = AfterPass(job[c], conn[c].requested > gen)
    BY <1>6, <2>1, ApplyEnds
  <2>3. \A r \in Runs : target'[r][c].state # "refreshing"
    BY <1>2, <2>2 DEF EndsRows, FinalTargetStates, AcceptableTargetStates
  <2>4. ~Expired(job'[c])
    BY <1>3, <2>2 DEF AfterPass, Requeued, Finished, Released, Expired, Job
  <2>5. QED
    BY <2>3, <2>4
<1>7. CASE RecordFailure(w) /\ ~UNCHANGED <<job, target, run>>
  <2>1. PICK runs :
          runs = IF Retryable(job[c], worker[w].result) THEN {} ELSE Unfinished(c)
    OBVIOUS
  <2>2. EndsRows(c, runs) /\ job'[c] = FailedOnce(job[c], worker[w].result)
    BY <1>7, <2>1, FailureEnds
  <2>3. \A r \in Runs : target'[r][c].state # "refreshing"
    BY <1>2, <2>2 DEF EndsRows, FinalTargetStates, AcceptableTargetStates
  <2>4. ~Expired(job'[c])
    BY <1>3, <2>2 DEF FailedOnce, Released, Expired, Job
  <2>5. QED
    BY <2>3, <2>4
<1>8. QED
  BY <1>4, <1>5, <1>6, <1>7 DEF tables

\* A worker's own connection after its step.
LEMMA OwnClean ==
    ASSUME HandInv, Faults = {}, NEW w \in Workers, NEW c, c = worker[w].conn,
           WorkerStep(w) \/ LocalError(w) \/ Crash(w), ~Claim(w)
    PROVE  /\ NoneLeftBehind(w)'
           /\ c \in Conns =>
                /\ \A r \in Runs : target'[r][c].state = "refreshing" =>
                                      job'[c].state = "running"
                /\ ~Expired(job'[c])
<1>1. CASE \/ ReserveRead(w) \/ PrepareRead(w) \/ Dispatch(w) \/ RecordRead(w)
           \/ SyncStart(w) \/ SyncCollect(w) \/ Crash(w)
           \/ ReserveWrite(w) \/ PrepareWrite(w) \/ RecordWrite(w)
  <2>1. job' = job
    BY <1>1 DEF ReserveRead, PrepareRead, Dispatch, RecordRead, SyncStart,
       SyncCollect, Crash, ReserveWrite, PrepareWrite, RecordWrite, tables
  <2>2. c \in Conns => job[c].state = "running" /\ ~Expired(job[c])
    BY NoneAssumption DEF HandInv, RowInv, LeaseHeld, HoldsLive, Holds, Expired
  <2>3. Crash(w) => NoneLeftBehind(w)'
    BY DEF Crash, Abandon, NoneLeftBehind, IdleFrame, HandInv, RowInv, IndInv,
       TypeOK
  <2>4. NoneLeftBehind(w)'
    BY <1>1, <2>3, ReadsClean, WritesClean
  <2>5. QED
    BY <2>1, <2>2, <2>4
<1>2. CASE FinishWithoutSync(w) \/ SyncApply(w) \/ RecordFailure(w)
  <2>1. worker'[w] = IdleFrame
    BY <1>2 DEF FinishWithoutSync, SyncApply, RecordFailure, Abandon, HandInv,
       RowInv, IndInv, TypeOK
  <2>2. NoneLeftBehind(w)'
    BY <2>1 DEF NoneLeftBehind, IdleFrame
  <2>3. QED
    BY <1>2, <2>2, EndsClean
<1>3. ~WriteConflict(w) /\ ~LocalError(w)
  BY NoConflict DEF LocalError
<1>4. QED
  BY <1>1, <1>2, <1>3 DEF WorkerStep

\* The rest of the state after a step of a worker.
LEMMA OthersClean ==
    ASSUME HandInv, RowsSound', NEW w \in Workers, NEW c, OthersKept(w, c),
           recovery' \in {recovery, NoRecovery},
           c = None \/ (c \in Conns /\ (c = worker[w].conn \/ job[c].state = "queued")),
           NoneLeftBehind(w)',
           c \in Conns =>
              /\ \A r \in Runs : target'[r][c].state = "refreshing" =>
                                    job'[c].state = "running"
              /\ ~Expired(job'[c])
    PROVE  /\ RefreshingIsLeased'
           /\ \A v \in Workers : NoneLeftBehind(v)'
           /\ RecoveryComplete'
<1> USE DEF HandInv, RowInv, IndInv
<1>1. ASSUME NEW d \in Conns \ {c}, NEW r \in Runs
      PROVE  target'[r][d] = target[r][d] /\ job'[d] = job[d]
  BY DEF OthersKept
<1>2. ASSUME NEW d \in Conns, NEW r \in Runs, target'[r][d].state = "refreshing"
      PROVE  /\ job'[d].state = "running"
             /\ target'[r][d].outcome \in {"reserved", "dispatching"}
  <2>1. RowSound(r, d)'
    BY DEF RowsSound
  <2>2. target'[r][d].outcome \in {"reserved", "dispatching"}
    BY <1>2, <2>1 DEF RowSound
  <2>3. job'[d].state = "running"
    BY <1>1, <1>2 DEF RefreshingIsLeased
  <2>4. QED
    BY <2>2, <2>3
<1>3. ASSUME NEW v \in Workers \ {w} PROVE NoneLeftBehind(v)'
  <2>1. worker'[v] = worker[v] /\ NoneLeftBehind(v)
    BY DEF OthersKept
  <2>2. CASE worker[v].pc = "idle"
    BY <2>1, <2>2 DEF NoneLeftBehind
  <2>3. CASE worker[v].pc # "idle"
    <3>1. worker[v].conn \in Conns
      BY <2>3 DEF FramesFit
    <3>2. worker[v].conn # c
      BY <3>1, NobodyElse, NoneAssumption
    <3>3. \A r \in Runs : target'[r][worker[v].conn] = target[r][worker[v].conn]
      BY <1>1, <3>1, <3>2
    <3>4. QED
      BY <2>1, <2>3, <3>3 DEF NoneLeftBehind
  <2>4. QED
    BY <2>2, <2>3
<1>4. RecoveryComplete'
  <2>1. ASSUME NEW outcome, NEW rc \in Interrupted(outcome)'
        PROVE  rc \in Interrupted(outcome)
    <3>1. /\ rc \in Runs \X Conns
          /\ rc[1] \in Runs
          /\ rc[2] \in Conns
          /\ Expired(job'[rc[2]])
      BY <2>1 DEF Interrupted
    <3>2. rc[2] # c
      BY <3>1
    <3>3. /\ job'[rc[2]] = job[rc[2]]
          /\ target'[rc[1]][rc[2]] = target[rc[1]][rc[2]]
      BY <1>1, <3>1, <3>2
    <3>4. QED
      BY <2>1, <3>1, <3>3 DEF Interrupted
  <2>2. recovery' = recovery \/ ~recovery'.busy
    BY DEF NoRecovery
  <2>3. QED
    BY <2>1, <2>2 DEF RecoveryComplete
<1>5. RefreshingIsLeased'
  BY <1>2 DEF RefreshingIsLeased
<1>6. QED
  BY <1>3, <1>4, <1>5

\* What a claim and the other steps of a worker leave.
LEMMA WorkerClean ==
    ASSUME HandInv, RowsSound', Faults = {}, NEW w \in Workers,
           WorkerStep(w) \/ LocalError(w) \/ Crash(w)
    PROVE  /\ RefreshingIsLeased'
           /\ \A v \in Workers : NoneLeftBehind(v)'
           /\ RecoveryComplete'
<1> USE DEF HandInv, RowInv, IndInv
<1>1. CASE Claim(w)
  <2>1. PICK c \in Conns : /\ OthersKept(w, c)
                           /\ job[c].state = "queued"
                           /\ job'[c].state = "running"
                           /\ job'[c].ttl > 0
                           /\ worker'[w].conn = c
    BY <1>1, ClaimSteps
  <2>2. UNCHANGED <<target, recovery>>
    BY <1>1 DEF Claim
  <2>3. worker'[w].pc = "reserve_read"
    BY <1>1 DEF Claim, IdleFrame, TypeOK
  <2>4. \A r \in Runs : target[r][c].state # "refreshing"
    BY <2>1 DEF RefreshingIsLeased
  <2>5. NoneLeftBehind(w)'
    BY <2>1, <2>2, <2>3, <2>4 DEF NoneLeftBehind
  <2>6. ~Expired(job'[c])
    BY <2>1 DEF Expired
  <2>7. QED
    BY <2>1, <2>2, <2>5, <2>6, OthersClean
<1>2. CASE ~Claim(w)
  <2>1. PICK c : c = worker[w].conn
    OBVIOUS
  <2>2. OthersKept(w, c) /\ recovery' \in {recovery, NoRecovery}
    BY <1>2, <2>1, WorkerSteps
  <2>3. c = None \/ (c \in Conns /\ c = worker[w].conn)
    BY <2>1 DEF TypeOK, Frame
  <2>4. /\ NoneLeftBehind(w)'
        /\ c \in Conns =>
             /\ \A r \in Runs : target'[r][c].state = "refreshing" =>
                                   job'[c].state = "running"
             /\ ~Expired(job'[c])
    BY <1>2, <2>1, OwnClean
  <2>5. QED
    BY <2>2, <2>3, <2>4, OthersClean
<1>3. QED
  BY <1>1, <1>2

\* The jobs under the steps of the environment: none stops running, and while
\* the recovery is between its read and its write none expires.
LEMMA JobsUnderTime ==
    ASSUME TypeOK, Faults = {},
           \/ UNCHANGED vars
           \/ \E c \in Conns : \/ Link(c) \/ EnqueueSync(c) \/ Disconnect(c)
                               \/ LeaseTick(c) \/ BackoffElapses(c)
                               \/ CooldownElapses(c)
           \/ \E r \in Runs : CreateRun(r)
           \/ \E w \in Workers : Heartbeat(w)
           \/ RecoverRead
    PROVE  \A c \in Conns :
              /\ job[c].state = "running" => job'[c].state = "running"
              /\ recovery.busy => (Expired(job'[c]) => Expired(job[c]))
<1> SUFFICES ASSUME NEW c \in Conns
             PROVE  /\ job[c].state = "running" => job'[c].state = "running"
                    /\ recovery.busy => (Expired(job'[c]) => Expired(job[c]))
  OBVIOUS
<1>1. job[c] \in Job
  BY DEF TypeOK
<1>2. CASE job'[c] = job[c]
  BY <1>2
<1>3. CASE \E n : job'[c] = Enqueued(job[c], n)
  BY <1>1, <1>3 DEF Enqueued, Expired, JobActive, ActiveJobStates, Job, NoJob
<1>4. CASE LeaseTick(c)
  <2>1. job'[c] = [job[c] EXCEPT !.ttl = @ - 1]
    BY <1>4 DEF LeaseTick, TypeOK
  <2>2. recovery.busy => job[c].ttl # 1
    BY <1>4 DEF LeaseTick, MayExpire
  <2>3. job[c].ttl \in Nat /\ job[c].ttl > 0
    BY <1>1, <1>4 DEF LeaseTick, Job, Ticks
  <2>4. job'[c].state = job[c].state /\ job'[c].ttl = job[c].ttl - 1
    BY <1>1, <2>1 DEF Job
  <2>5. QED
    BY <2>2, <2>3, <2>4 DEF Expired
<1>5. CASE BackoffElapses(c)
  BY <1>1, <1>5 DEF BackoffElapses, Expired, TypeOK, Job
<1>6. CASE \E w \in Workers : Heartbeat(w)
  <2>1. PICK w \in Workers : Heartbeat(w)
    BY <1>6
  <2>2. job'[c] = job[c] \/ job'[c] = [job[c] EXCEPT !.ttl = LeaseTicks]
    BY <2>1 DEF Heartbeat, TypeOK
  <2>3. QED
    BY <1>1, <2>2, LeaseTicksAssumption DEF Expired, Job
<1>7. ASSUME NEW d \in Conns, Link(d) \/ EnqueueSync(d)
      PROVE  job'[c] = job[c] \/ \E n : job'[c] = Enqueued(job[c], n)
  BY <1>7 DEF Link, EnqueueSync, EnqueueAll, TypeOK
<1>8. ASSUME NEW r \in Runs, CreateRun(r)
      PROVE  job'[c] = job[c] \/ \E n : job'[c] = Enqueued(job[c], n)
  BY <1>8 DEF CreateRun, EnqueueAll
<1>9. ASSUME NEW d \in Conns \ {c}, LeaseTick(d) \/ BackoffElapses(d)
      PROVE  job'[c] = job[c]
  BY <1>9 DEF LeaseTick, BackoffElapses, TypeOK
<1>10. QED
  BY <1>2, <1>3, <1>4, <1>5, <1>6, <1>7, <1>8, <1>9
     DEF vars, Disconnect, CooldownElapses, RecoverRead, tables

\* The steps of the environment that touch no row.
LEMMA QuietClean ==
    ASSUME HandInv, RowsSound', UNCHANGED <<target, worker>>,
           \A c \in Conns :
              /\ job[c].state = "running" => job'[c].state = "running"
              /\ recovery.busy => (Expired(job'[c]) => Expired(job[c])),
           \/ recovery' = recovery
           \/ RecoverRead
    PROVE  /\ RefreshingIsLeased'
           /\ \A v \in Workers : NoneLeftBehind(v)'
           /\ RecoveryComplete'
<1> USE DEF HandInv, RowInv, IndInv
<1>1. RefreshingIsLeased'
  BY DEF RefreshingIsLeased
<1>2. \A v \in Workers : NoneLeftBehind(v)'
  BY DEF NoneLeftBehind
<1>3. RecoveryComplete'
  <2>1. CASE recovery' = recovery
    <3>1. ASSUME NEW outcome, recovery.busy
          PROVE  Interrupted(outcome)' \subseteq Interrupted(outcome)
      BY <3>1 DEF Interrupted
    <3>2. QED
      BY <2>1, <3>1 DEF RecoveryComplete
  <2>2. CASE RecoverRead
    <3>1. ASSUME NEW outcome PROVE Interrupted(outcome)' = Interrupted(outcome)
      BY <2>2 DEF RecoverRead, Interrupted, tables
    <3>2. /\ recovery'.unknown = Interrupted("dispatching")
          /\ recovery'.requeue = Interrupted("reserved")
      BY <2>2 DEF RecoverRead
    <3>3. QED
      BY <3>1, <3>2 DEF RecoveryComplete
  <2>3. QED
    BY <2>1, <2>2
<1>4. QED
  BY <1>1, <1>2, <1>3

\* A new run's rows are queued for a generation that no claim covers.
LEMMA CreateClean ==
    ASSUME HandInv, RowsSound', Faults = {}, NEW s \in Runs, CreateRun(s)
    PROVE  /\ UniqueRows(target', run')
           /\ RefreshingIsLeased'
           /\ \A v \in Workers : NoneLeftBehind(v)'
           /\ RecoveryComplete'
<1> USE DEF HandInv, RowInv, IndInv
<1>1. /\ UniqueRows(target', run')
      /\ UNCHANGED <<worker, recovery>>
      /\ target' = [target EXCEPT ![s] =
            [c \in Conns |-> IF Active(c) THEN NewTarget(conn[c].requested + 1)
                                          ELSE NoTarget]]
  BY DEF CreateRun
<1>2. \A c \in Conns :
         /\ job[c].state = "running" => job'[c].state = "running"
         /\ recovery.busy => (Expired(job'[c]) => Expired(job[c]))
  BY JobsUnderTime
<1>3. ASSUME NEW c \in Conns
      PROVE  /\ target'[s][c].state \in {"queued", "absent"}
             /\ target'[s][c].state = "queued" =>
                   target'[s][c].required = conn[c].requested + 1
             /\ \A r \in Runs \ {s} : target'[r][c] = target[r][c]
  BY <1>1 DEF TypeOK, NewTarget, NoTarget
<1>4. RefreshingIsLeased'
  <2>1. ASSUME NEW r \in Runs, NEW c \in Conns, target'[r][c].state = "refreshing"
        PROVE  target'[r][c] = target[r][c]
    BY <1>3, <2>1
  <2>2. QED
    BY <1>2, <2>1 DEF RefreshingIsLeased
<1>5. ASSUME NEW v \in Workers PROVE NoneLeftBehind(v)'
  <2>1. CASE worker[v].pc = "idle"
    BY <1>1, <2>1 DEF NoneLeftBehind
  <2>2. CASE worker[v].pc # "idle"
    <3>1. PICK c \in Conns : c = worker[v].conn
      BY <2>2 DEF FramesFit
    <3>2. /\ worker[v].gen \in Nat
          /\ conn[c].requested \in Nat
          /\ worker[v].gen <= conn[c].requested
      BY <3>1, ClaimCovered DEF Connection
    <3>3. /\ target'[s][c].state # "refreshing"
          /\ target'[s][c].state = "queued" =>
                ~(target'[s][c].required <= worker[v].gen)
      BY <1>3, <3>2
    <3>4. NoneLeftBehind(v)
      OBVIOUS
    <3>5. QED
      BY SMTT(20), <1>1, <1>3, <3>1, <3>3, <3>4 DEF NoneLeftBehind
  <2>3. QED
    BY <2>1, <2>2
<1>6. RecoveryComplete'
  <2>1. ASSUME recovery.busy, NEW outcome, NEW rc \in Interrupted(outcome)'
        PROVE  rc \in Interrupted(outcome)
    <3>1. /\ rc \in Runs \X Conns
          /\ rc[1] \in Runs
          /\ rc[2] \in Conns
          /\ Expired(job'[rc[2]])
          /\ target'[rc[1]][rc[2]].state \in {"refreshing", "syncing"}
      BY <2>1 DEF Interrupted
    <3>2. target'[rc[1]][rc[2]] = target[rc[1]][rc[2]]
      BY <1>3, <3>1
    <3>3. QED
      BY <1>2, <2>1, <3>1, <3>2 DEF Interrupted
  <2>2. QED
    BY <1>1, <2>1 DEF RecoveryComplete
<1>7. QED
  BY <1>1, <1>4, <1>5, <1>6

\* The recovery writes what it has read, and leaves no target of an expired job
\* in "refreshing".
LEMMA RecoverWrites ==
    ASSUME HandInv, RecoverWrite
    PROVE  /\ target' = RecoveredRows
           /\ job' = [c \in Conns |-> IF Expired(job[c]) THEN Requeued(job[c])
                                                         ELSE job[c]]
<1> USE DEF HandInv
<1>1. ASSUME NEW r \in Runs, NEW c \in Conns, IsActive(RecoveredRows[r][c])
      PROVE  IsActive(target[r][c])
  <2>1. CASE RecoveredRows[r][c] # target[r][c]
    BY <2>1, RecoveredRow DEF IsActive, ActiveTargetStates
  <2>2. CASE RecoveredRows[r][c] = target[r][c]
    BY <1>1, <2>2
  <2>3. QED
    BY <2>1, <2>2
<1>2. UniqueRows(RecoveredRows, run)
  BY <1>1 DEF UniqueRows
<1>3. QED
  BY <1>2 DEF RecoverWrite

LEMMA RecoverClean ==
    ASSUME HandInv, RowsSound', RecoverWrite
    PROVE  /\ RefreshingIsLeased'
           /\ \A v \in Workers : NoneLeftBehind(v)'
           /\ RecoveryComplete'
<1>0. RowInv /\ recovery.busy /\ RecoveryComplete /\ RefreshingIsLeased
  BY DEF HandInv, RecoverWrite
<1>1. /\ target' = RecoveredRows
      /\ job' = [c \in Conns |-> IF Expired(job[c]) THEN Requeued(job[c])
                                                    ELSE job[c]]
      /\ worker' = worker
      /\ recovery' = NoRecovery
  BY RecoverWrites DEF RecoverWrite
<1>2. ASSUME NEW r \in Runs, NEW c \in Conns, target'[r][c].state = "refreshing"
      PROVE  /\ target'[r][c] = target[r][c]
             /\ ~Expired(job[c])
  <2>1. target'[r][c] = target[r][c]
    BY <1>0, <1>1, <1>2, RecoveredRow
  <2>2. /\ target[r][c].state = "refreshing"
        /\ target[r][c].outcome \in {"reserved", "dispatching"}
        /\ target[r][c] \in Target
    BY <1>0, <1>2, <2>1 DEF RefreshingIsLeased, RowInv, IndInv, TypeOK
  <2>3. ASSUME Expired(job[c]) PROVE FALSE
    <3>1. <<r, c>> \in Interrupted(target[r][c].outcome)
      BY <2>2, <2>3 DEF Interrupted
    <3>2. <<r, c>> \in recovery.unknown \/ <<r, c>> \in recovery.requeue
      BY <1>0, <2>2, <3>1 DEF RecoveryComplete
    <3>3. RecoveredRows[r][c] \in {Unknown(target[r][c]), Unreserved(target[r][c])}
      BY <3>2 DEF RecoveredRows
    <3>4. RecoveredRows[r][c].state \in {"syncing", "queued"}
      BY <2>2, <3>3 DEF Unknown, Unreserved, Target
    <3>5. QED
      BY <1>1, <1>2, <3>4
  <2>4. QED
    BY <2>1, <2>3
<1>3. RefreshingIsLeased'
  BY <1>0, <1>1, <1>2 DEF RefreshingIsLeased
<1>4. ASSUME NEW v \in Workers PROVE NoneLeftBehind(v)'
  <2>1. NoneLeftBehind(v)
    BY DEF HandInv
  <2>2. CASE worker[v].pc = "idle"
    BY <1>1, <2>2 DEF NoneLeftBehind
  <2>3. CASE worker[v].pc # "idle"
    <3>1. worker[v].conn \in Conns
      BY <1>0, <2>3 DEF RowInv, IndInv, FramesFit
    <3>2. ~Expired(job[worker[v].conn])
      BY <1>0, <3>1, NoneAssumption DEF RowInv, LeaseHeld, HoldsLive, Expired
    <3>3. \A r \in Runs : target'[r][worker[v].conn] = target[r][worker[v].conn]
      BY <1>0, <1>1, <3>1, <3>2, RecoveredRow
    <3>4. QED
      BY <1>1, <2>1, <2>3, <3>3 DEF NoneLeftBehind
  <2>4. QED
    BY <2>2, <2>3
<1>5. RecoveryComplete'
  BY <1>1 DEF RecoveryComplete, NoRecovery
<1>6. QED
  BY <1>3, <1>4, <1>5

\* Every step keeps the unique indexes and leaves no target behind.
LEMMA NextHand ==
    ASSUME HandInv, Faults = {}, [Next]_vars
    PROVE  HandInv'
<1>1. LeasesKept /\ RowInv
  BY DEF LeasesKept, HandInv
<1>2. RowInv'
  BY <1>1, NextRow
<1>3. RowsSound'
  BY <1>2 DEF RowInv, RowsSound
<1>4. UniqueRows(target', run')
  <2>1. CASE \E s \in Runs : CreateRun(s)
    BY <1>3, <2>1, CreateClean
  <2>2. CASE ~\E s \in Runs : CreateRun(s)
    <3>1. \A r \in Runs : RunStep(r)
      BY <1>1, <2>2, NextRunSteps
    <3>2. QED
      BY <3>1, UniqueKept DEF HandInv
  <2>3. QED
    BY <2>1, <2>2
<1>5. /\ RefreshingIsLeased'
      /\ \A v \in Workers : NoneLeftBehind(v)'
      /\ RecoveryComplete'
  <2>1. CASE \E w \in Workers : WorkerStep(w) \/ LocalError(w) \/ Crash(w)
    BY <1>3, <2>1, WorkerClean
  <2>2. CASE \E s \in Runs : CreateRun(s)
    BY <1>3, <2>2, CreateClean
  <2>3. CASE RecoverWrite
    BY <1>3, <2>3, RecoverClean
  <2>4. CASE \/ UNCHANGED vars
             \/ \E c \in Conns : \/ Link(c) \/ EnqueueSync(c) \/ Disconnect(c)
                                 \/ LeaseTick(c) \/ BackoffElapses(c)
                                 \/ CooldownElapses(c)
             \/ \E w \in Workers : Heartbeat(w)
             \/ RecoverRead
    <3>1. UNCHANGED <<target, worker>> /\ (recovery' = recovery \/ RecoverRead)
      BY <2>4 DEF vars, Link, EnqueueSync, Disconnect, LeaseTick,
         BackoffElapses, CooldownElapses, Heartbeat, RecoverRead, tables
    <3>2. \A c \in Conns :
             /\ job[c].state = "running" => job'[c].state = "running"
             /\ recovery.busy => (Expired(job'[c]) => Expired(job[c]))
      BY <1>1, <2>4, JobsUnderTime DEF RowInv, IndInv
    <3>3. QED
      BY <1>3, <3>1, <3>2, QuietClean
  <2>5. ~ \E c \in Conns : LeaseStall(c)
    BY DEF LeaseStall
  <2>6. QED
    BY <2>1, <2>2, <2>3, <2>4, <2>5 DEF Next
<1>6. QED
  BY <1>2, <1>4, <1>5 DEF HandInv

LEMMA InitHand ==
    ASSUME Init
    PROVE  HandInv
<1>1. RowInv
  BY InitRow
<1>2. \A r \in Runs, c \in Conns : target[r][c].state = "absent"
  BY DEF Init, NoTarget
<1>3. \A r \in Runs : run[r] \notin ActiveRunStates
  BY StatesApart DEF Init
<1>4. UniqueRows(target, run)
  BY <1>2, <1>3, StatesApart DEF UniqueRows, IsActive
<1>5. RefreshingIsLeased
  BY <1>2 DEF RefreshingIsLeased
<1>6. \A w \in Workers : NoneLeftBehind(w)
  BY DEF Init, NoneLeftBehind, IdleFrame
<1>7. RecoveryComplete
  BY DEF Init, RecoveryComplete, NoRecovery
<1>8. QED
  BY <1>1, <1>4, <1>5, <1>6, <1>7 DEF HandInv

\* Without the timing and local faults, whatever crashes, every reachable state
\* keeps the unique indexes and every target within reach of the recovery.
THEOREM HandsInvariant ==
    ASSUME Faults = {}
    PROVE  Spec => []HandInv
<1>1. Init => HandInv
  BY InitHand
<1>2. HandInv /\ [Next]_vars => HandInv'
  BY NextHand
<1>3. QED
  BY <1>1, <1>2, PTL DEF Spec

\* A target in "refreshing" always belongs to a running job, so a crash never
\* strands it: the recovery of the job's lease finds it.
THEOREM TargetsLeased ==
    ASSUME Faults = {}
    PROVE  Spec => []RefreshingIsLeased
<1>1. HandInv => RefreshingIsLeased
  BY DEF HandInv
<1>2. QED
  BY <1>1, HandsInvariant, PTL

\* No write of a worker runs into the unique indexes on active targets and
\* active runs: the rollback that would undo it is there for the faults only.
THEOREM IndexesHold ==
    ASSUME Faults = {}
    PROVE  Spec => [][\A w \in Workers : ~WriteConflict(w)]_vars
<1>1. HandInv => [\A w \in Workers : ~WriteConflict(w)]_vars
  BY NoConflict
<1>2. QED
  BY <1>1, HandsInvariant, PTL DEF Spec

-----------------------------------------------------------------------------
(* Whatever is owed has a job *)

\* A worker's plan and its end without a pass, after its own step.
LEMMA OwnUnlinked ==
    ASSUME OwedInv, RefreshAnswers \cap OwnerActionCodes = {},
           NEW w \in Workers, NEW c, c = worker[w].conn,
           \/ ReserveRead(w) \/ PrepareRead(w) \/ Dispatch(w) \/ RecordRead(w)
           \/ SyncStart(w) \/ SyncCollect(w)
           \/ ReserveWrite(w) \/ PrepareWrite(w) \/ RecordWrite(w)
    PROVE  EndsUnlinked(w)'
<1> USE DEF OwedInv, HandInv, RowInv, IndInv
<1>1. worker[w] \in Frame /\ c \in Conns /\ EndsUnlinked(w)
  BY DEF TypeOK, FramesFit, ReserveRead, PrepareRead, Dispatch, RecordRead,
     SyncStart, SyncCollect, ReserveWrite, PrepareWrite, RecordWrite
<1>2. ASSUME worker'[w].pc \notin {"prepare_write", "finish"}
      PROVE  EndsUnlinked(w)'
  BY <1>2 DEF EndsUnlinked
<1>3. CASE PrepareRead(w)
  <2>1. CASE Goto(w, "sync_start")
    BY <1>1, <1>2, <2>1 DEF Goto, TypeOK, Frame
  <2>2. CASE worker' = [worker EXCEPT ![w].pc = "prepare_write",
                                      ![w].result = Plan(worker[w].conn)]
    <3>1. /\ worker'[w].pc = "prepare_write"
          /\ worker'[w].result = Plan(c)
          /\ worker'[w].conn = c
      BY <1>1, <2>2 DEF TypeOK, Frame
    <3>2. conn' = conn
      BY <1>3 DEF PrepareRead, tables
    <3>3. Plan(c) = "disconnected" => ~Active(c)
      BY DEF Plan
    <3>4. QED
      BY <3>1, <3>2, <3>3 DEF EndsUnlinked, Active
  <2>3. QED
    BY <1>3, <2>1, <2>2 DEF PrepareRead
<1>4. CASE PrepareWrite(w)
  <2>1. PICK r0, plan, row :
          /\ r0 = worker[w].run
          /\ plan = worker[w].result
          /\ row = Prepared(Row(w), plan)
    OBVIOUS
  <2>2. /\ target' = WithRow(w, row)
        /\ worker[w].pc = "prepare_write"
        /\ worker' = [worker EXCEPT ![w].pc = AfterPlan(plan), ![w].result = None]
        /\ conn' = IF plan = "dispatch" THEN [conn EXCEPT ![c].cooling = TRUE]
                                        ELSE conn
        /\ plan \in Plans
    BY <1>4, <2>1 DEF PrepareWrite, FramesFit
  <2>3. worker'[w].pc = AfterPlan(plan) /\ worker'[w].conn = c
    BY <1>1, <2>2 DEF TypeOK, Frame
  <2>4. CASE plan # "disconnected"
    <3>1. AfterPlan(plan) \in {"dispatch", "sync_start"}
      BY <2>2, <2>4 DEF AfterPlan, Plans
    <3>2. QED
      BY <1>2, <2>3, <3>1
  <2>5. CASE plan = "disconnected"
    <3>1. ~Active(c) /\ conn' = conn
      BY <1>1, <2>1, <2>2, <2>5 DEF EndsUnlinked
    <3>2. /\ r0 \in Runs
          /\ target'[r0][c] = row
          /\ \A r \in Runs, d \in Conns :
                r # r0 \/ d # c => target'[r][d] = target[r][d]
      BY <1>1, <2>1, <2>2, RowWritten DEF RowPhases
    <3>3. Row(w) = target[r0][c] /\ Row(w) \in Target
      BY <1>1, <2>1, <3>2 DEF Row, TypeOK
    <3>4. IsActive(target[r0][c])
      BY <2>2, <3>3 DEF RowInHand, IsActive, ActiveTargetStates
    <3>5. row.state = "disconnected"
      BY <2>1, <2>5, <3>3 DEF Prepared, Target
    <3>6. ASSUME NEW r \in Runs PROVE ~IsActive(target'[r][c])
      <4>1. CASE r = r0
        BY <3>2, <3>5, <4>1 DEF IsActive, ActiveTargetStates
      <4>2. CASE r # r0
        BY <1>1, <3>2, <3>4, <4>2 DEF UniqueRows
      <4>3. QED
        BY <4>1, <4>2
    <3>7. AfterPlan(plan) = "finish"
      BY <2>5 DEF AfterPlan
    <3>8. QED
      BY <2>3, <3>1, <3>6, <3>7 DEF EndsUnlinked, Active
  <2>6. QED
    BY <2>4, <2>5
<1>5. CASE RecordWrite(w)
  <2>1. worker[w].result \in RefreshAnswers
    BY <1>5 DEF RecordWrite, RowInHand
  <2>2. AfterAnswer(worker[w].result) = "sync_start"
    BY <2>1 DEF AfterAnswer
  <2>3. worker'[w].pc = "sync_start"
    BY <1>1, <1>5, <2>2 DEF RecordWrite, TypeOK, Frame
  <2>4. QED
    BY <1>2, <2>3
<1>6. ASSUME ReserveRead(w) \/ Dispatch(w) \/ RecordRead(w) \/ SyncStart(w)
             \/ SyncCollect(w) \/ ReserveWrite(w)
      PROVE  worker'[w].pc \notin {"prepare_write", "finish"}
  BY <1>1, <1>6 DEF ReserveRead, Dispatch, RecordRead, SyncStart, SyncCollect,
     ReserveWrite, Goto, Abandon, Fail, IdleFrame, TypeOK, Frame
<1>7. QED
  BY <1>2, <1>3, <1>4, <1>5, <1>6

\* Jobs and connections change in one of these ways in every step that ends no
\* job: an active job stays active and covers what it did, what is owed is what
\* was owed or has a job, and only a bank that is linked becomes active.
OwedStep(c) ==
    /\ JobActive(job[c]) => JobActive(job'[c]) /\ job[c].target <= job'[c].target
    /\ \/ JobActive(job'[c])
       \/ conn'[c].status # "active"
       \/ /\ conn'[c].status = conn[c].status
          /\ conn'[c].requested = conn[c].requested
          /\ conn'[c].completed = conn[c].completed
          /\ job'[c].state = job[c].state
    /\ conn'[c].status = "active" =>
          Active(c) \/ conn[c].status = "absent"

\* ActiveTargetHasJob and OwedWorkHasJob, for one connection.
TargetsOwed(c) ==
    \A r \in Runs : IsActive(target[r][c]) =>
        JobActive(job[c]) /\ target[r][c].required <= job[c].target
WorkOwed(c) ==
    Active(c) /\ conn[c].completed < conn[c].requested =>
        JobActive(job[c]) \/ job[c].state = "failed"

LEMMA OwedKept ==
    ASSUME OwedInv, TypeOK', NEW c \in Conns, OwedStep(c),
           \A r \in Runs : IsActive(target'[r][c]) =>
              \/ /\ IsActive(target[r][c])
                 /\ target'[r][c].required = target[r][c].required
              \/ /\ JobActive(job'[c])
                 /\ target'[r][c].required <= job'[c].target
    PROVE  TargetsOwed(c)' /\ WorkOwed(c)'
<1> USE DEF OwedInv, HandInv, RowInv, IndInv
<1>1. job[c].target \in Nat /\ job'[c].target \in Nat
  BY DEF TypeOK, Job
<1>2. ASSUME NEW r \in Runs, IsActive(target'[r][c])
      PROVE  JobActive(job'[c]) /\ target'[r][c].required <= job'[c].target
  <2>1. SUFFICES ASSUME IsActive(target[r][c]),
                        target'[r][c].required = target[r][c].required
                 PROVE  /\ JobActive(job'[c])
                        /\ target'[r][c].required <= job'[c].target
    BY <1>2
  <2>2. JobActive(job[c]) /\ target[r][c].required <= job[c].target
    BY <2>1 DEF ActiveTargetHasJob
  <2>3. JobActive(job'[c]) /\ job[c].target <= job'[c].target
    BY <2>2 DEF OwedStep
  <2>4. target[r][c].required \in Nat
    BY DEF TypeOK, Target
  <2>5. QED
    BY <1>1, <2>1, <2>2, <2>3, <2>4
<1>3. TargetsOwed(c)'
  BY <1>2 DEF TargetsOwed
<1>4. WorkOwed(c)'
  <2>1. SUFFICES ASSUME conn'[c].status = "active",
                        conn'[c].completed < conn'[c].requested,
                        ~JobActive(job'[c])
                 PROVE  job'[c].state = "failed"
    BY DEF WorkOwed, Active
  <2>2. /\ conn'[c].status = conn[c].status
        /\ conn'[c].requested = conn[c].requested
        /\ conn'[c].completed = conn[c].completed
        /\ job'[c].state = job[c].state
        /\ ~JobActive(job[c])
    BY <2>1 DEF OwedStep
  <2>3. QED
    BY <2>1, <2>2 DEF OwedWorkHasJob, Active
<1>5. QED
  BY <1>3, <1>4

\* The worker that ends its job leaves nothing that waits for it.
LEMMA EndsOwed ==
    ASSUME OwedInv, TypeOK', NEW w \in Workers, NEW c \in Conns, c = worker[w].conn,
           FinishWithoutSync(w) \/ SyncApply(w) \/ RecordFailure(w)
    PROVE  /\ TargetsOwed(c)'
           /\ WorkOwed(c)'
           /\ conn'[c].status = conn[c].status
<1>1. /\ job[c] \in Job
      /\ Holds(w)
      /\ JobActive(job[c])
      /\ worker[w].gen \in Nat
      /\ conn[c].requested \in Nat
      /\ worker[w].gen <= conn[c].requested
      /\ job[c].target = conn[c].requested
      /\ \A r \in Runs : target[r][c].required \in Nat
  <2>1. RowInv
    BY DEF OwedInv, HandInv
  <2>2. /\ Holds(w)
        /\ worker[w].gen \in Nat
        /\ conn[c] \in Connection
        /\ worker[w].gen <= conn[c].requested
        /\ job[c].target = conn[c].requested
    BY <2>1, ClaimCovered
  <2>3. job[c] \in Job /\ \A r \in Runs : target[r][c] \in Target
    BY <2>1 DEF RowInv, IndInv, TypeOK
  <2>4. JobActive(job[c])
    BY <2>2 DEF Holds, JobActive, ActiveJobStates
  <2>5. QED
    BY <2>2, <2>3, <2>4 DEF Connection, Target
<1> USE DEF OwedInv, HandInv, RowInv, IndInv
<1>2. TargetsOwed(c) /\ WorkOwed(c)
  BY DEF ActiveTargetHasJob, OwedWorkHasJob, TargetsOwed, WorkOwed
<1>3. CASE UNCHANGED <<conn, job, target>>
  <2>1. TargetsOwed(c)' /\ WorkOwed(c)'
    BY <1>2, <1>3 DEF TargetsOwed, WorkOwed, Active
  <2>2. QED
    BY <1>3, <2>1
<1>4. CASE FinishWithoutSync(w)
  <2>1. ~Active(c) /\ \A r \in Runs : ~IsActive(target[r][c])
    <3>1. EndsUnlinked(w) /\ worker[w].pc = "finish"
      BY <1>4 DEF FinishWithoutSync
    <3>2. QED
      BY <3>1 DEF EndsUnlinked
  <2>2. UNCHANGED <<conn, target>>
    BY <1>4 DEF FinishWithoutSync
  <2>3. QED
    BY <2>1, <2>2 DEF TargetsOwed, WorkOwed, Active
<1>5. CASE SyncApply(w) /\ ~UNCHANGED tables
  <2>1. PICK gen, runs : gen = worker[w].gen /\ runs = Completable(c, gen)
    OBVIOUS
  <2>2. /\ EndsRows(c, runs)
        /\ job'[c] = AfterPass(job[c], conn[c].requested > gen)
        /\ conn'[c].status = conn[c].status
        /\ conn'[c].requested = conn[c].requested
        /\ conn'[c].completed = gen
    BY <1>5, <2>1, ApplyEnds
  <2>3. CASE conn[c].requested > gen
    <3>1. JobActive(job'[c]) /\ job'[c].target = job[c].target
      BY <1>1, <2>2, <2>3 DEF AfterPass, Requeued, Released, JobActive,
         ActiveJobStates, Job
    <3>2. \A r \in Runs : IsActive(target'[r][c]) => target'[r][c] = target[r][c]
      BY <2>2, StatesApart DEF EndsRows, IsActive
    <3>3. TargetsOwed(c)'
      BY <1>2, <3>1, <3>2 DEF TargetsOwed
    <3>4. QED
      BY <2>2, <3>1, <3>3 DEF WorkOwed
  <2>4. CASE ~(conn[c].requested > gen)
    <3>1. conn[c].requested = gen
      BY <1>1, <2>1, <2>4
    <3>2. WorkOwed(c)'
      BY <1>1, <2>2, <3>1 DEF WorkOwed
    <3>3. ASSUME NEW r \in Runs PROVE ~IsActive(target'[r][c])
      <4>1. CASE r \in runs
        BY <2>2, <4>1, StatesApart DEF EndsRows, IsActive
      <4>2. CASE r \notin runs
        <5>1. target'[r][c] = target[r][c]
          BY <2>2, <4>2 DEF EndsRows
        <5>2. SUFFICES ASSUME IsActive(target[r][c]) PROVE FALSE
          BY <5>1
        <5>3. target[r][c].required <= gen
          BY <1>1, <1>2, <3>1, <5>2 DEF TargetsOwed
        <5>4. NoneLeftBehind(w) /\ worker[w].pc = "apply"
          BY <1>5 DEF SyncApply
        <5>5. target[r][c].state \notin {"queued", "refreshing"}
          BY <2>1, <5>3, <5>4 DEF NoneLeftBehind, RefreshPhases, RowPhases
        <5>6. target[r][c].state # "syncing"
          BY <2>1, <4>2, <5>3 DEF Completable
        <5>7. QED
          BY <5>2, <5>5, <5>6 DEF IsActive, ActiveTargetStates
      <4>3. QED
        BY <4>1, <4>2
    <3>4. QED
      BY <2>2, <3>2, <3>3 DEF TargetsOwed
  <2>5. QED
    BY <2>3, <2>4
<1>6. CASE RecordFailure(w) /\ ~UNCHANGED <<job, target, run>>
  <2>1. PICK runs :
          runs = IF Retryable(job[c], worker[w].result) THEN {} ELSE Unfinished(c)
    OBVIOUS
  <2>2. EndsRows(c, runs) /\ job'[c] = FailedOnce(job[c], worker[w].result)
    BY <1>6, <2>1, FailureEnds
  <2>3. conn' = conn
    BY <1>6 DEF RecordFailure
  <2>4. CASE Retryable(job[c], worker[w].result)
    <3>1. JobActive(job'[c]) /\ job'[c].target = job[c].target
      BY <1>1, <2>2, <2>4 DEF FailedOnce, Released, JobActive, ActiveJobStates, Job
    <3>2. \A r \in Runs : target'[r][c] = target[r][c]
      BY <2>1, <2>2, <2>4 DEF EndsRows
    <3>3. QED
      BY <1>2, <2>3, <3>1, <3>2 DEF TargetsOwed, WorkOwed
  <2>5. CASE ~Retryable(job[c], worker[w].result)
    <3>1. job'[c].state = "failed"
      BY <1>1, <2>2, <2>5 DEF FailedOnce, Released, Job
    <3>2. ASSUME NEW r \in Runs PROVE ~IsActive(target'[r][c])
      <4>1. r \in runs <=> IsActive(target[r][c])
        BY <2>1, <2>5 DEF Unfinished
      <4>2. QED
        BY <2>2, <4>1, StatesApart DEF EndsRows, IsActive
    <3>3. QED
      BY <2>3, <3>1, <3>2 DEF TargetsOwed, WorkOwed
  <2>6. QED
    BY <2>4, <2>5
<1>7. QED
  BY <1>3, <1>4, <1>5, <1>6 DEF tables, RecordFailure

\* All steps but those that end a job are of that form.
LEMMA OwedSteps ==
    ASSUME RowInv, TypeOK', [Next]_vars, NEW c \in Conns,
           ~\E w \in Workers :
               /\ FinishWithoutSync(w) \/ SyncApply(w) \/ RecordFailure(w)
               /\ worker[w].conn = c
    PROVE  OwedStep(c)
<1> USE DEF RowInv, IndInv
<1>1. /\ job[c] \in Job
      /\ job[c].target \in Nat
      /\ conn[c] \in Connection
      /\ conn[c].requested \in Nat
      /\ JobActive(job[c]) => job[c].target = conn[c].requested
  BY DEF TypeOK, Job, Connection, GenerationsAgree
<1>2. ASSUME job'[c] = job[c],
             conn'[c].status = conn[c].status,
             conn'[c].requested = conn[c].requested,
             conn'[c].completed = conn[c].completed
      PROVE  OwedStep(c)
  BY <1>1, <1>2 DEF OwedStep, Active
<1>3. ASSUME conn'[c].status = conn[c].status,
             JobActive(job'[c]),
             job'[c].target = job[c].target
      PROVE  OwedStep(c)
  BY <1>1, <1>3 DEF OwedStep, Active
<1>4. ASSUME NEW cs \in SUBSET Conns, Asked(cs),
             conn'[c].status = "active" => Active(c) \/ conn[c].status = "absent"
      PROVE  OwedStep(c)
  <2>1. CASE c \in cs
    <3>1. job'[c] = Enqueued(job[c], conn[c].requested + 1)
      BY <1>4, <2>1 DEF Asked
    <3>2. JobActive(job'[c]) /\ job'[c].target = conn[c].requested + 1
      BY <1>1, <3>1 DEF Enqueued, JobActive, ActiveJobStates, Job, NoJob
    <3>3. QED
      BY <1>1, <1>4, <3>2 DEF OwedStep
  <2>2. CASE c \notin cs
    BY <1>2, <1>4, <2>2 DEF Asked
  <2>3. QED
    BY <2>1, <2>2
<1>5. ASSUME NEW w \in Workers, WorkerStep(w) \/ LocalError(w) \/ Crash(w)
      PROVE  OwedStep(c)
  <2>1. CASE Claim(w)
    <3>1. PICK d \in Conns : /\ OthersKept(w, d)
                             /\ job'[d].state = "running"
                             /\ job'[d].target = job[d].target
      BY <2>1, ClaimSteps
    <3>2. conn' = conn
      BY <2>1 DEF Claim
    <3>3. CASE c = d
      BY <1>3, <3>1, <3>2, <3>3 DEF JobActive, ActiveJobStates
    <3>4. CASE c # d
      BY <1>2, <3>1, <3>2, <3>4 DEF OthersKept
    <3>5. QED
      BY <3>3, <3>4
  <2>2. CASE ~Claim(w) /\ worker[w].conn # c
    <3>1. OthersKept(w, worker[w].conn)
      BY <1>5, <2>2, WorkerSteps
    <3>2. QED
      BY <1>2, <2>2, <3>1 DEF OthersKept
  <2>3. CASE ~Claim(w) /\ worker[w].conn = c
    <3>1. ~(FinishWithoutSync(w) \/ SyncApply(w) \/ RecordFailure(w))
      BY <2>3
    <3>2. job' = job
      BY <1>5, <2>3, <3>1 DEF WorkerStep, ReserveRead, PrepareRead, Dispatch,
         RecordRead, SyncStart, SyncCollect, Crash, LocalError, WriteConflict,
         ReserveWrite, PrepareWrite, RecordWrite, tables
    <3>3. \/ conn' = conn
          \/ conn' = [conn EXCEPT ![c].cooling = TRUE]
          \/ conn' = [conn EXCEPT ![c].supported = FALSE]
      BY <1>5, <2>3, <3>1 DEF WorkerStep, ReserveRead, PrepareRead, Dispatch,
         RecordRead, SyncStart, SyncCollect, Crash, LocalError, WriteConflict,
         ReserveWrite, PrepareWrite, RecordWrite, tables
    <3>4. /\ conn'[c].status = conn[c].status
          /\ conn'[c].requested = conn[c].requested
          /\ conn'[c].completed = conn[c].completed
      BY <1>1, <3>3 DEF TypeOK, Connection
    <3>5. QED
      BY <1>2, <3>2, <3>4
  <2>4. QED
    BY <2>1, <2>2, <2>3
<1>6. ASSUME NEW d \in Conns, Link(d) \/ EnqueueSync(d)
      PROVE  OwedStep(c)
  <2>1. Asked({d})
    BY <1>6, RequestsAsk
  <2>2. conn'[c].status = "active" => Active(c) \/ conn[c].status = "absent"
    BY <1>6, <2>1 DEF Asked, Link, EnqueueSync, Active
  <2>3. QED
    BY <1>4, <2>1, <2>2
<1>7. ASSUME NEW r \in Runs, CreateRun(r)
      PROVE  OwedStep(c)
  <2>1. Asked({d \in Conns : Active(d)})
    BY <1>7, RequestsAsk
  <2>2. conn'[c].status = "active" => Active(c) \/ conn[c].status = "absent"
    BY <2>1 DEF Asked, Active
  <2>3. QED
    BY <1>4, <2>1, <2>2
<1>8. ASSUME NEW d \in Conns, Disconnect(d) PROVE OwedStep(c)
  <2>1. job' = job
    BY <1>8 DEF Disconnect
  <2>2. CASE c = d
    <3>1. conn'[c].status = "removed"
      BY <1>1, <1>8, <2>2 DEF Disconnect, TypeOK, Connection
    <3>2. QED
      BY <1>1, <2>1, <3>1 DEF OwedStep
  <2>3. CASE c # d
    BY <1>2, <1>8, <2>1, <2>3 DEF Disconnect, TypeOK
  <2>4. QED
    BY <2>2, <2>3
<1>9. ASSUME NEW d \in Conns, CooldownElapses(d) PROVE OwedStep(c)
  <2>1. job' = job /\ conn' = [conn EXCEPT ![d].cooling = FALSE]
    BY <1>9 DEF CooldownElapses
  <2>2. /\ conn'[c].status = conn[c].status
        /\ conn'[c].requested = conn[c].requested
        /\ conn'[c].completed = conn[c].completed
    BY <1>1, <2>1 DEF TypeOK, Connection
  <2>3. QED
    BY <1>2, <2>1, <2>2
<1>10. ASSUME conn' = conn,
              job'[c].state = job[c].state \/ JobActive(job'[c]),
              job'[c].target = job[c].target
       PROVE  OwedStep(c)
  BY <1>1, <1>10 DEF OwedStep, Active, JobActive
<1>11. ASSUME NEW d \in Conns, LeaseTick(d) \/ LeaseStall(d) \/ BackoffElapses(d)
       PROVE  OwedStep(c)
  <2>1. job \in [Conns -> Job]
    BY <1>1 DEF TypeOK
  <2>2. /\ conn' = conn
        /\ \/ \E n : job' = [job EXCEPT ![d].ttl = n]
           \/ job' = [job EXCEPT ![d].due = TRUE]
    <3>1. CASE LeaseTick(d)
      BY <3>1 DEF LeaseTick
    <3>2. CASE LeaseStall(d)
      BY <3>2 DEF LeaseStall
    <3>3. CASE BackoffElapses(d)
      BY <3>3 DEF BackoffElapses
    <3>4. QED
      BY <1>11, <3>1, <3>2, <3>3
  <2>3. job'[c].state = job[c].state /\ job'[c].target = job[c].target
    BY <2>1, <2>2 DEF Job
  <2>4. QED
    BY <1>10, <2>2, <2>3
<1>12. ASSUME NEW w \in Workers, Heartbeat(w) PROVE OwedStep(c)
  <2>1. /\ conn' = conn
        /\ job'[c] = job[c] \/ job'[c] = [job[c] EXCEPT !.ttl = LeaseTicks]
    BY <1>12 DEF Heartbeat, TypeOK
  <2>2. QED
    BY <1>1, <1>10, <2>1 DEF Job
<1>13. ASSUME RecoverWrite PROVE OwedStep(c)
  <2>1. conn' = conn /\ job'[c] \in {job[c], Requeued(job[c])}
    BY <1>13 DEF RecoverWrite
  <2>2. QED
    BY <1>1, <1>10, <2>1 DEF Requeued, Released, JobActive, ActiveJobStates, Job
<1>14. ASSUME UNCHANGED vars \/ RecoverRead PROVE OwedStep(c)
  BY <1>2, <1>14 DEF vars, RecoverRead, tables
<1>15. QED
  BY <1>5, <1>6, <1>7, <1>8, <1>9, <1>11, <1>12, <1>13, <1>14 DEF Next

\* The rows that are active after a step were active before, or are those of a
\* new run and their job has just been asked for.
LEMMA ActiveRows ==
    ASSUME RowInv, TypeOK', LeasesKept, [Next]_vars, NEW r \in Runs, NEW c \in Conns,
           IsActive(target'[r][c])
    PROVE  \/ /\ IsActive(target[r][c])
              /\ target'[r][c].required = target[r][c].required
           \/ /\ Active(c)
              /\ JobActive(job'[c])
              /\ target'[r][c].required <= job'[c].target
<1> USE DEF RowInv, IndInv
<1>1. CASE ~\E s \in Runs : CreateRun(s)
  <2>1. RunStep(r)
    BY <1>1, NextRunSteps
  <2>2. QED
    BY <2>1 DEF RunStep
<1>2. ASSUME NEW s \in Runs, CreateRun(s)
      PROVE  \/ target'[r][c] = target[r][c]
             \/ /\ Active(c)
                /\ JobActive(job'[c])
                /\ target'[r][c].required <= job'[c].target
  <2>1. target' = [target EXCEPT ![s] =
            [d \in Conns |-> IF Active(d) THEN NewTarget(conn[d].requested + 1)
                                          ELSE NoTarget]]
    BY <1>2 DEF CreateRun
  <2>2. CASE r # s
    BY <2>1, <2>2 DEF TypeOK
  <2>3. CASE r = s
    <3>1. target'[r][c] = IF Active(c) THEN NewTarget(conn[c].requested + 1)
                                       ELSE NoTarget
      BY <2>1, <2>3 DEF TypeOK
    <3>2. Active(c)
      BY <3>1, StatesApart DEF IsActive, NoTarget
    <3>3. target'[r][c].required = conn[c].requested + 1
      BY <3>1, <3>2 DEF NewTarget
    <3>4. job'[c] = Enqueued(job[c], conn[c].requested + 1)
      BY <1>2, <3>2, RequestsAsk DEF Asked
    <3>5. job[c] \in Job /\ conn[c].requested \in Nat
      BY DEF TypeOK, Connection
    <3>6. JobActive(job'[c]) /\ job'[c].target = conn[c].requested + 1
      BY <3>4, <3>5 DEF Enqueued, JobActive, ActiveJobStates, Job, NoJob
    <3>7. QED
      BY <3>2, <3>3, <3>5, <3>6
  <2>4. QED
    BY <2>2, <2>3
<1>3. QED
  BY <1>1, <1>2

\* A worker whose frame a step leaves alone still ends its job for nobody.
LEMMA UnlinkedKept ==
    ASSUME OwedInv, NEW v \in Workers, worker'[v] = worker[v],
           NEW c, c = worker[v].conn,
           c \in Conns =>
              /\ conn'[c].status = "active" => Active(c) \/ conn[c].status = "absent"
              /\ \A r \in Runs :
                    IsActive(target'[r][c]) => IsActive(target[r][c]) \/ Active(c)
    PROVE  EndsUnlinked(v)'
<1>1. RowInv /\ EndsUnlinked(v)
  BY DEF OwedInv, HandInv
<1>2. worker[v].pc # "idle" => c \in Conns
  BY <1>1 DEF RowInv, IndInv, FramesFit
<1>3. c \in Conns => conn[c].status # "absent"
  BY <1>1, ClaimCovered
<1>4. CASE c \in Conns
  BY <1>1, <1>3, <1>4 DEF EndsUnlinked, Active
<1>5. CASE c \notin Conns
  BY <1>2, <1>5 DEF EndsUnlinked
<1>6. QED
  BY <1>4, <1>5

\* Only its own steps move a worker.
LEMMA OwnMove ==
    ASSUME TypeOK, FramesFit, [Next]_vars, NEW v \in Workers
    PROVE  worker'[v] = worker[v] \/ WorkerStep(v) \/ LocalError(v) \/ Crash(v)
<1>1. ASSUME NEW w \in Workers \ {v}, WorkerStep(w) \/ LocalError(w) \/ Crash(w)
      PROVE  worker'[v] = worker[v]
  BY <1>1, WorkerSteps, ClaimSteps DEF OthersKept
<1>2. ASSUME ~\E w \in Workers : WorkerStep(w) \/ LocalError(w) \/ Crash(w)
      PROVE  worker' = worker
  BY <1>2 DEF Next, vars, Link, EnqueueSync, Disconnect, LeaseTick, LeaseStall,
     BackoffElapses, CooldownElapses, CreateRun, Heartbeat, RecoverRead,
     RecoverWrite
<1>3. QED
  BY <1>1, <1>2

\* Every step keeps the jobs of what is owed.
LEMMA NextOwed ==
    ASSUME OwedInv, Faults = {}, RefreshAnswers \cap OwnerActionCodes = {},
           [Next]_vars
    PROVE  OwedInv'
<1>1. HandInv /\ RowInv /\ LeasesKept
  BY DEF OwedInv, HandInv, LeasesKept
<1>2. HandInv' /\ RowInv' /\ TypeOK'
  BY <1>1, NextHand DEF HandInv, RowInv, IndInv
<1>3. TypeOK /\ FramesFit
  BY <1>1 DEF RowInv, IndInv
<1>4. ASSUME NEW c \in Conns
      PROVE  /\ TargetsOwed(c)'
             /\ WorkOwed(c)'
             /\ conn'[c].status = "active" => Active(c) \/ conn[c].status = "absent"
  <2>1. CASE \E w \in Workers :
                /\ FinishWithoutSync(w) \/ SyncApply(w) \/ RecordFailure(w)
                /\ worker[w].conn = c
    BY <1>2, <2>1, EndsOwed DEF Active
  <2>2. CASE ~\E w \in Workers :
                 /\ FinishWithoutSync(w) \/ SyncApply(w) \/ RecordFailure(w)
                 /\ worker[w].conn = c
    <3>1. OwedStep(c)
      BY <1>1, <1>2, <2>2, OwedSteps
    <3>2. \A r \in Runs : IsActive(target'[r][c]) =>
             \/ /\ IsActive(target[r][c])
                /\ target'[r][c].required = target[r][c].required
             \/ /\ JobActive(job'[c])
                /\ target'[r][c].required <= job'[c].target
      BY <1>1, <1>2, ActiveRows
    <3>3. QED
      BY <1>2, <3>1, <3>2, OwedKept DEF OwedStep
  <2>3. QED
    BY <2>1, <2>2
<1>5. ASSUME NEW v \in Workers PROVE EndsUnlinked(v)'
  <2>1. CASE worker'[v] = worker[v]
    <3>1. PICK c : c = worker[v].conn
      OBVIOUS
    <3>2. c \in Conns => \A r \in Runs :
             IsActive(target'[r][c]) => IsActive(target[r][c]) \/ Active(c)
      BY <1>1, <1>2, ActiveRows
    <3>3. QED
      BY <1>4, <2>1, <3>1, <3>2, UnlinkedKept
  <2>2. ASSUME worker'[v].pc \notin {"prepare_write", "finish"}
        PROVE  EndsUnlinked(v)'
    BY <2>2 DEF EndsUnlinked
  <2>3. CASE Claim(v)
    BY <1>3, <2>2, <2>3 DEF Claim, IdleFrame, TypeOK
  <2>4. CASE FinishWithoutSync(v) \/ SyncApply(v) \/ RecordFailure(v) \/ Crash(v)
    BY <1>3, <2>2, <2>4 DEF FinishWithoutSync, SyncApply, RecordFailure, Crash,
       Abandon, IdleFrame, TypeOK
  <2>5. ~WriteConflict(v) /\ ~LocalError(v)
    BY <1>1, NoConflict DEF LocalError
  <2>6. CASE \/ ReserveRead(v) \/ PrepareRead(v) \/ Dispatch(v) \/ RecordRead(v)
             \/ SyncStart(v) \/ SyncCollect(v)
             \/ ReserveWrite(v) \/ PrepareWrite(v) \/ RecordWrite(v)
    BY <2>6, OwnUnlinked
  <2>7. QED
    BY <1>3, <2>1, <2>3, <2>4, <2>5, <2>6, OwnMove DEF WorkerStep
<1>6. ActiveTargetHasJob' /\ OwedWorkHasJob'
  BY <1>4 DEF ActiveTargetHasJob, OwedWorkHasJob, TargetsOwed, WorkOwed
<1>7. QED
  BY <1>2, <1>5, <1>6 DEF OwedInv

LEMMA InitOwed ==
    ASSUME Init
    PROVE  OwedInv
<1>1. HandInv
  BY InitHand
<1>2. \A r \in Runs, c \in Conns : ~IsActive(target[r][c])
  BY StatesApart DEF Init, NoTarget, IsActive
<1>3. OwedWorkHasJob
  BY DEF Init, OwedWorkHasJob, Active, NoConnection
<1>4. \A w \in Workers : EndsUnlinked(w)
  BY DEF Init, EndsUnlinked, IdleFrame
<1>5. QED
  BY <1>1, <1>2, <1>3, <1>4 DEF OwedInv, ActiveTargetHasJob

\* Without the faults, and as long as the provider does not ask for the owner,
\* every reachable state satisfies the last strengthening too.
THEOREM OwedInvariant ==
    ASSUME Faults = {}, RefreshAnswers \cap OwnerActionCodes = {}
    PROVE  Spec => []OwedInv
<1>1. Init => OwedInv
  BY InitOwed
<1>2. OwedInv /\ [Next]_vars => OwedInv'
  BY NextOwed
<1>3. QED
  BY <1>1, <1>2, PTL DEF Spec

\* No target is forgotten: the job that will end it is queued or running, and
\* the pass it makes covers the generation the target waits for.
THEOREM TargetsHaveJobs ==
    ASSUME Faults = {}, RefreshAnswers \cap OwnerActionCodes = {}
    PROVE  Spec => []ActiveTargetHasJob
<1>1. OwedInv => ActiveTargetHasJob
  BY DEF OwedInv
<1>2. QED
  BY <1>1, OwedInvariant, PTL

\* No request is forgotten: what was asked of an active connection and is not
\* done has a job, unless that job has failed for good.
THEOREM WorkHasJobs ==
    ASSUME Faults = {}, RefreshAnswers \cap OwnerActionCodes = {}
    PROVE  Spec => []OwedWorkHasJob
<1>1. OwedInv => OwedWorkHasJob
  BY DEF OwedInv
<1>2. QED
  BY <1>1, OwedInvariant, PTL

=============================================================================
