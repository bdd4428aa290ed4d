------------------------- MODULE SyncContractProofs -------------------------
(***************************************************************************)
(* The sync queue implements SyncContract: the pass of a connection is the *)
(* one of the worker that holds its job, and every step of the queue is a  *)
(* step of the contract or leaves its variables alone.                     *)
(***************************************************************************)
EXTENDS SyncWorkerProofs

-----------------------------------------------------------------------------
(* The pass under way *)

\* The worker that holds a job is the only one, so the pass is its pass.
LEMMA OneHolder ==
    ASSUME ExclusiveClaim, NEW c \in Conns, NEW w \in Holders(c)
    PROVE  PassOf(c) = worker[w].gen
<1>1. \A v \in Holders(c) : v = w
  BY DEF Holders, ExclusiveClaim
<1>2. (CHOOSE v \in Holders(c) : TRUE) \in Holders(c)
  OBVIOUS
<1>3. QED
  BY <1>1, <1>2 DEF PassOf

\* The same of the state after a step.
LEMMA OneHolderAfter ==
    ASSUME ExclusiveClaim', NEW c \in Conns, NEW w \in Holders(c)'
    PROVE  PassOf(c)' = worker'[w].gen
<1>1. \A v \in Holders(c)' : v = w
  BY DEF Holders, ExclusiveClaim
<1>2. (CHOOSE v \in Holders(c)' : TRUE) \in Holders(c)'
  OBVIOUS
<1>3. QED
  BY <1>1, <1>2 DEF PassOf

\* A pass stays what it is while the same workers hold the job.
LEMMA SamePass ==
    ASSUME ExclusiveClaim, ExclusiveClaim', NEW c \in Conns,
           \A v \in Workers : v \in Holders(c)' <=> v \in Holders(c),
           \A v \in Holders(c) : worker'[v].gen = worker[v].gen
    PROVE  PassOf(c)' = PassOf(c)
<1>1. CASE Holders(c) = {}
  <2>1. Holders(c)' = {}
    BY <1>1 DEF Holders
  <2>2. QED
    BY <1>1, <2>1 DEF PassOf
<1>2. ASSUME NEW w \in Holders(c) PROVE PassOf(c)' = PassOf(c)
  <2>1. w \in Holders(c)'
    BY DEF Holders
  <2>2. QED
    BY <2>1, OneHolder, OneHolderAfter
<1>3. QED
  BY <1>1, <1>2

\* A quiet step leaves a pass as it is or ends it.
LEMMA QuietPass ==
    ASSUME TypeOK, TypeOK', ExclusiveClaim, ExclusiveClaim', Quiet,
           NEW c \in Conns
    PROVE  PassOf(c)' \in {0, PassOf(c)}
<1>1. CASE Holders(c)' = {}
  BY <1>1 DEF PassOf
<1>2. ASSUME NEW w \in Holders(c)' PROVE PassOf(c)' = PassOf(c)
  <2>1. w \in Workers /\ Holds(w)' /\ worker'[w].conn = c
    BY DEF Holders
  <2>2. w \in Holders(c) /\ worker'[w].gen = worker[w].gen
    BY <2>1, QuietHolds DEF Holders
  <2>3. QED
    BY <2>2, OneHolder, OneHolderAfter
<1>3. QED
  BY <1>1, <1>2

\* A request leaves every pass as it is.
LEMMA AskedPass ==
    ASSUME TypeOK, ExclusiveClaim, ExclusiveClaim',
           NEW cs \in SUBSET Conns, Asked(cs), NEW c \in Conns
    PROVE  PassOf(c)' = PassOf(c)
<1>1. job[c] \in Job
  BY DEF TypeOK
<1>2. /\ job'[c].state = "running" <=> job[c].state = "running"
      /\ job[c].state = "running" => job'[c].token = job[c].token
  <2>1. ASSUME NEW g
        PROVE  /\ Enqueued(job[c], g).state = "running" <=> job[c].state = "running"
               /\ job[c].state = "running" => Enqueued(job[c], g).token = job[c].token
    BY <1>1 DEF Enqueued, JobActive, ActiveJobStates, Job, NoJob
  <2>2. job'[c] = job[c] \/ job'[c] = Enqueued(job[c], conn[c].requested + 1)
    BY DEF Asked
  <2>3. QED
    BY <2>1, <2>2
<1>3. worker' = worker
  BY DEF Asked
<1>4. \A v \in Workers : v \in Holders(c)' <=> v \in Holders(c)
  BY <1>2, <1>3 DEF Holders, Holds
<1>5. QED
  BY <1>3, <1>4, SamePass

-----------------------------------------------------------------------------
(* Every step is a step of the contract *)

\* A quiet step drops the passes that it ends.
LEMMA QuietDrops ==
    ASSUME TypeOK, TypeOK', ExclusiveClaim, ExclusiveClaim', Quiet
    PROVE  Contract!Next
<1> DEFINE cs == {c \in Conns : PassOf(c)' = 0}
<1>1. cs \in SUBSET Conns
  OBVIOUS
<1>2. \A c \in Conns : PassOf(c)' = IF c \in cs THEN 0 ELSE PassOf(c)
  BY QuietPass
<1>3. \A c \in Conns : /\ conn'[c].status = conn[c].status
                       /\ conn'[c].requested = conn[c].requested
                       /\ conn'[c].completed = conn[c].completed
  BY DEF Quiet, QuietConns
<1> HIDE DEF cs
<1>4. Contract!Drop(cs)
  BY <1>2, <1>3 DEF Contract!Drop
<1>5. QED
  BY <1>1, <1>4 DEF Contract!Next

\* enqueue_sync, for one connection or for all a run covers, is a request.
LEMMA EnqueueRequests ==
    ASSUME TypeOK, ExclusiveClaim, ExclusiveClaim',
           NEW cs \in SUBSET Conns, Asked(cs), EnqueueAll(cs),
           \A c \in cs : Active(c)
    PROVE  Contract!Next
<1>1. \A c \in Conns : PassOf(c)' = PassOf(c)
  BY AskedPass
<1>2. \A c \in Conns :
         /\ conn'[c].status = conn[c].status
         /\ conn'[c].requested = IF c \in cs THEN conn[c].requested + 1
                                             ELSE conn[c].requested
         /\ conn'[c].completed = conn[c].completed
  BY DEF EnqueueAll, TypeOK, Connection
<1>3. Contract!Request(cs)
  BY <1>1, <1>2 DEF Contract!Request, Active
<1>4. QED
  BY <1>3 DEF Contract!Next

\* Linking a bank connects it with its first request.
LEMMA LinkConnects ==
    ASSUME TypeOK, ExclusiveClaim, ExclusiveClaim', NEW c \in Conns, Link(c),
           Asked({c})
    PROVE  Contract!Next
<1>1. \A d \in Conns : PassOf(d)' = PassOf(d)
  BY AskedPass, {c} \in SUBSET Conns
<1>2. /\ conn[c].status = "absent"
      /\ \A d \in Conns :
            /\ conn'[d].status = IF d = c THEN "active" ELSE conn[d].status
            /\ conn'[d].requested = IF d = c THEN 1 ELSE conn[d].requested
            /\ conn'[d].completed = conn[d].completed
  BY DEF Link, TypeOK, Connection
<1>3. Contract!Connect(c)
  BY <1>1, <1>2 DEF Contract!Connect
<1>4. QED
  BY <1>3 DEF Contract!Next

\* Disconnecting removes the connection and nothing else.
LEMMA DisconnectRemoves ==
    ASSUME TypeOK, ExclusiveClaim, ExclusiveClaim', NEW c \in Conns, Disconnect(c)
    PROVE  Contract!Next
<1>1. job' = job /\ worker' = worker
  BY DEF Disconnect
<1>2. \A d \in Conns : PassOf(d)' = PassOf(d)
  BY <1>1, SamePass DEF Holders, Holds
<1>3. /\ conn[c].status = "active"
      /\ \A d \in Conns :
            /\ conn'[d].status = IF d = c THEN "removed" ELSE conn[d].status
            /\ conn'[d].requested = conn[d].requested
            /\ conn'[d].completed = conn[d].completed
  BY DEF Disconnect, Active, TypeOK, Connection
<1>4. Contract!Remove(c)
  BY <1>2, <1>3 DEF Contract!Remove
<1>5. QED
  BY <1>4 DEF Contract!Next

\* A claim begins a pass for the newest generation: its job was nobody's, and
\* it is owed that generation.
LEMMA ClaimBegins ==
    ASSUME TypeOK, FramesFit, GenerationsAgree, ExclusiveClaim, ExclusiveClaim',
           NEW w \in Workers, Claim(w)
    PROVE  Contract!Next
<1>1. PICK c \in Conns, t \in FreshTokens :
        /\ job[c].state = "queued"
        /\ job' = [job EXCEPT ![c] = Claimed(@, t)]
        /\ worker' = [worker EXCEPT ![w] =
              [IdleFrame EXCEPT !.pc = "reserve_read", !.conn = c,
                                !.token = t, !.gen = job[c].target]]
  BY DEF Claim
<1>2. /\ conn' = conn
      /\ worker'[w].conn = c
      /\ worker'[w].token = t
      /\ worker'[w].gen = job[c].target
      /\ \A v \in Workers \ {w} : worker'[v] = worker[v]
      /\ job'[c].state = "running"
      /\ job'[c].token = t
      /\ \A d \in Conns \ {c} : job'[d] = job[d]
  <2>1. /\ conn' = conn
        /\ worker'[w].conn = c
        /\ worker'[w].token = t
        /\ worker'[w].gen = job[c].target
        /\ \A v \in Workers \ {w} : worker'[v] = worker[v]
    BY <1>1 DEF Claim, IdleFrame, TypeOK
  <2>2. /\ job'[c].state = "running"
        /\ job'[c].token = t
        /\ \A d \in Conns \ {c} : job'[d] = job[d]
    BY <1>1 DEF Claimed, TypeOK, Job
  <2>3. QED
    BY <2>1, <2>2
<1>3. /\ conn[c].completed < conn[c].requested
      /\ job[c].target = conn[c].requested
  BY <1>1 DEF GenerationsAgree, JobActive, ActiveJobStates
<1>4. c # None /\ worker[w].conn = None
  BY NoneAssumption DEF Claim, FramesFit
<1>5. PassOf(c) = 0
  BY <1>1 DEF PassOf, Holders, Holds
<1>6. PassOf(c)' = conn[c].requested
  <2>1. w \in Holders(c)'
    BY <1>2, <1>4 DEF Holders, Holds
  <2>2. QED
    BY <1>2, <1>3, <2>1, OneHolderAfter
<1>7. ASSUME NEW d \in Conns \ {c} PROVE PassOf(d)' = PassOf(d)
  <2>1. \A v \in Workers : v \in Holders(d)' <=> v \in Holders(d)
    BY <1>2, <1>4, NoneAssumption DEF Holders, Holds
  <2>2. \A v \in Holders(d) : worker'[v].gen = worker[v].gen
    BY <1>2, <1>4, NoneAssumption DEF Holders
  <2>3. QED
    BY <2>1, <2>2, SamePass
<1>8. Contract!Begin(c)
  BY <1>2, <1>3, <1>5, <1>6, <1>7 DEF Contract!Begin
<1>9. QED
  BY <1>8 DEF Contract!Next

\* The commit of a pass completes it.
LEMMA ApplyCompletes ==
    ASSUME TypeOK, FramesFit, GenerationsAgree, ExclusiveClaim, ExclusiveClaim',
           NEW w \in Workers, SyncApply(w), ~UNCHANGED tables
    PROVE  Contract!Next
<1>a. PICK c \in Conns, gen \in Nat : c = worker[w].conn /\ gen = worker[w].gen
  BY DEF SyncApply, FramesFit, TypeOK, Frame
<1>1. /\ HoldsLive(w)
      /\ Active(c)
      /\ c \in Conns
      /\ conn'[c].status = conn[c].status
      /\ conn'[c].requested = conn[c].requested
      /\ conn'[c].completed = gen
      /\ job'[c].state \in {"queued", "succeeded"}
      /\ \A d \in Conns \ {c} : conn'[d] = conn[d] /\ job'[d] = job[d]
      /\ worker'[w].conn = None
      /\ \A v \in Workers \ {w} : worker'[v] = worker[v]
  BY <1>a, ApplyWrites
<1>2. w \in Holders(c)
  BY <1>a, <1>1 DEF HoldsLive, Holders
<1>3. PassOf(c) = gen
  BY <1>a, <1>2, OneHolder
<1>4. gen # 0
  <2>1. conn[c].completed \in Nat
    BY DEF TypeOK, Connection
  <2>2. conn[c].completed < gen
    BY <1>a, <1>1 DEF HoldsLive, GenerationsAgree
  <2>3. QED
    BY <2>1, <2>2
<1>5. PassOf(c)' = 0
  BY <1>1 DEF PassOf, Holders, Holds
<1>6. ASSUME NEW d \in Conns \ {c} PROVE PassOf(d)' = PassOf(d)
  <2>1. w \notin Holders(d) /\ w \notin Holders(d)'
    BY <1>a, <1>1, NoneAssumption DEF Holders
  <2>2. \A v \in Workers : v \in Holders(d)' <=> v \in Holders(d)
    BY <1>1, <2>1 DEF Holders, Holds
  <2>3. \A v \in Holders(d) : worker'[v].gen = worker[v].gen
    BY <1>1, <2>1 DEF Holders
  <2>4. QED
    BY <2>2, <2>3, SamePass
<1>7. Contract!Complete(c)
  BY <1>1, <1>3, <1>4, <1>5, <1>6 DEF Contract!Complete, Active
<1>8. QED
  BY <1>1, <1>7 DEF Contract!Next

\* The queue implements the contract, for every number of connections, workers
\* and tokens and with every fault: passes of one connection never overlap, a
\* pass covers what was requested before its claim, and only the pass that
\* still holds the job of an active connection completes a generation.
THEOREM QueueKeepsContract == Spec => KeepsContract
<1>1. Init => Contract!Init
  <2>1. ASSUME Init, NEW c \in Conns
        PROVE  /\ conn[c].status = "absent"
               /\ conn[c].requested = 0
               /\ conn[c].completed = 0
               /\ PassOf(c) = 0
    BY <2>1 DEF Init, NoConnection, IdleFrame, PassOf, Holders, Holds
  <2>2. QED
    BY <2>1 DEF Contract!Init
<1>2. IndInv => ExclusiveClaim
  BY DEF IndInv, TokensDiffer, ExclusiveClaim, Holds
<1>3. IndInv /\ ExclusiveClaim /\ IndInv' /\ ExclusiveClaim' /\ [Next]_vars
      => [Contract!Next]_Contract!contractVars
  <2> SUFFICES ASSUME IndInv, ExclusiveClaim, IndInv', ExclusiveClaim',
                      [Next]_vars
               PROVE  Contract!Next
    OBVIOUS
  <2>1. /\ TypeOK /\ FramesFit /\ AbsentIsBlank /\ GenerationsAgree
        /\ TypeOK'
    BY DEF IndInv
  <2>2. CASE \E c \in Conns : Link(c) /\ Asked({c})
    BY <2>1, <2>2, LinkConnects
  <2>3. CASE \E cs \in SUBSET Conns :
                Asked(cs) /\ EnqueueAll(cs) /\ \A c \in cs : Active(c)
    BY <2>1, <2>3, EnqueueRequests
  <2>4. CASE \E c \in Conns : Disconnect(c)
    BY <2>1, <2>4, DisconnectRemoves
  <2>5. CASE \E w \in Workers : Claim(w)
    BY <2>1, <2>5, ClaimBegins
  <2>6. CASE \E w \in Workers : SyncApply(w) /\ ~UNCHANGED tables
    BY <2>1, <2>6, ApplyCompletes
  <2>7. CASE Quiet
    BY <2>1, <2>7, QuietDrops
  <2>8. QED
    BY <2>1, <2>2, <2>3, <2>4, <2>5, <2>6, <2>7, StepKinds
<1>4. QED
  BY <1>1, <1>2, <1>3, Invariant, PTL DEF Spec, KeepsContract, Contract!Spec

=============================================================================
