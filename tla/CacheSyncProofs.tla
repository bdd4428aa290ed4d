-------------------------- MODULE CacheSyncProofs --------------------------
(***************************************************************************)
(* The cache of a connection is what the bank had at its cursor: proved    *)
(* for any rows, accounts, workers and limits, with any provider errors,   *)
(* lost leases and crashes.                                                *)
(***************************************************************************)
EXTENDS CacheSync, FiniteSetTheorems, TLAPS

\* The bounds of the counters of an attempt.
LEMMA CacheBounds ==
    /\ 0 \in Positions
    /\ 0 \in Versions
    /\ 0 \in 0 .. MaxPages
    /\ NoRows \in Rows
    /\ Idle \in Attempt
    /\ NoCounts \in Counts
    /\ Positions \subseteq Nat
<1>1. 0 \in Positions /\ 0 \in Versions /\ 0 \in 0 .. MaxPages /\ Positions \subseteq Nat
  BY LimitsAssumption DEF Positions, Versions
<1>2. NoRows \in Rows
  BY <1>1 DEF NoRows, Rows
<1>3. Idle \in Attempt
  BY <1>1, <1>2 DEF Idle, Attempt
<1>4. NoCounts \in Counts
  BY DEF NoCounts, Counts
<1>5. QED
  BY <1>1, <1>2, <1>3, <1>4

\* One worker's frame of AttemptsFit.
Fits(a) ==
    /\ a.from <= last
    /\ a.to <= last
    /\ \A i \in a.sent \cup a.again : a.rows[i] = feed[a.to][i]
    /\ \A i \in a.again : feed[a.from][i] = feed[a.to][i]
    /\ a.sent = {} /\ a.pc # "apply" => a.again = {}
    /\ a.pc = "apply" =>
          a.from <= a.to /\ Changed(a.from, a.to) \subseteq a.sent
    /\ a.sent # {} => a.from <= a.to

LEMMA FitsAll == AttemptsFit <=> \A w \in Workers : Fits(attempt[w])
  BY DEF AttemptsFit, Fits

\* An idle worker has nothing in its hands.
LEMMA IdleFits ==
    ASSUME TypeOK
    PROVE  Fits(Idle)
  BY CacheBounds DEF Fits, Idle, TypeOK, Positions

\* A step that leaves the bank alone and only gives attempts up.
LEMMA AttemptsGivenUp ==
    ASSUME CacheInv, UNCHANGED <<feed, last>>,
           NEW w \in Workers,
           attempt' = [attempt EXCEPT ![w] = Idle]
    PROVE  /\ attempt' \in [Workers -> Attempt]
           /\ AttemptsFit'
<1>1. attempt' \in [Workers -> Attempt]
  BY CacheBounds DEF CacheInv, TypeOK
<1>2. Fits(Idle)
  BY IdleFits DEF CacheInv
<1>3. ASSUME NEW v \in Workers PROVE Fits(attempt[v])'
  <2>1. attempt'[v] = attempt[v] \/ attempt'[v] = Idle
    BY DEF CacheInv, TypeOK
  <2>2. Fits(attempt[v])
    BY FitsAll DEF CacheInv
  <2>3. QED
    BY <1>2, <2>1, <2>2 DEF Fits, Changed
<1>4. QED
  BY <1>1, <1>3 DEF AttemptsFit, Fits

\* A step that leaves the bank and the attempts alone.
LEMMA AttemptsKept ==
    ASSUME CacheInv, UNCHANGED <<feed, last, attempt>>
    PROVE  AttemptsFit'
  BY DEF CacheInv, AttemptsFit, Changed

\* The cache and its cursor stay while they and the connection are left alone.
LEMMA CacheKept ==
    ASSUME CacheInv, UNCHANGED <<feed, last, database>>
    PROVE  StartsEmpty' /\ CacheMatchesCursor' /\ NothingAfterRemoval'
  BY DEF CacheInv, StartsEmpty, CacheMatchesCursor, NothingAfterRemoval, database

LEMMA BankChangesKeepsInv ==
    ASSUME CacheInv, BankChanges
    PROVE  CacheInv'
<1> USE DEF CacheInv
<1>1. PICK i \in Ids, v \in Versions :
        feed' = [feed EXCEPT ![last + 1] = [feed[last] EXCEPT ![i] = v]]
  BY DEF BankChanges
<1>2. last + 1 \in Positions /\ last' = last + 1
  BY LimitsAssumption DEF BankChanges, TypeOK, Positions
<1>3. TypeOK'
  BY <1>1, <1>2 DEF BankChanges, TypeOK, Rows, database
<1>4. \A n \in Positions : n <= last => feed'[n] = feed[n]
  BY <1>1 DEF TypeOK, Positions
<1>5. ASSUME NEW w \in Workers PROVE Fits(attempt[w])'
  <2>1. Fits(attempt[w]) /\ attempt' = attempt
    BY FitsAll DEF BankChanges
  <2>2. attempt[w].from \in Positions /\ attempt[w].to \in Positions
    BY DEF TypeOK, Attempt
  <2>3. feed'[attempt[w].from] = feed[attempt[w].from]
        /\ feed'[attempt[w].to] = feed[attempt[w].to]
    BY <1>4, <2>1, <2>2 DEF Fits
  <2>4. attempt[w].from <= last' /\ attempt[w].to <= last'
    BY <1>2, <2>1, <2>2 DEF Fits, TypeOK, Positions
  <2>5. QED
    BY <2>1, <2>3, <2>4 DEF Fits, Changed
<1>6. AttemptsFit'
  BY <1>5 DEF AttemptsFit, Fits
<1>7. 0 <= last /\ 0 \in Positions
  BY CacheBounds DEF TypeOK, Positions
<1>8. StartsEmpty'
  BY <1>4, <1>7 DEF StartsEmpty, BankChanges, database
<1>9. CacheMatchesCursor'
  BY <1>2, <1>4 DEF CacheMatchesCursor, BankChanges, database, TypeOK, Positions
<1>10. NothingAfterRemoval'
  BY DEF NothingAfterRemoval, BankChanges, database
<1>11. QED
  BY <1>3, <1>6, <1>8, <1>9, <1>10

LEMMA LinkKeepsInv ==
    ASSUME CacheInv, Link
    PROVE  CacheInv'
<1> USE DEF CacheInv, Link
<1>1. TypeOK'
  BY AccountsAssumption DEF TypeOK
<1>2. AttemptsFit'
  BY AttemptsKept
<1>3. StartsEmpty' /\ NothingAfterRemoval'
  BY DEF StartsEmpty, NothingAfterRemoval
<1>4. \A i \in Ids : NoRows[i] = 0
  BY DEF NoRows
<1>5. CacheMatchesCursor'
  BY <1>4 DEF CacheMatchesCursor, StartsEmpty
<1>6. QED
  BY <1>1, <1>2, <1>3, <1>5

LEMMA DisconnectKeepsInv ==
    ASSUME CacheInv, Disconnect
    PROVE  CacheInv'
<1> USE DEF CacheInv, Disconnect, bank
<1>1. \A i \in Ids : AccountOf[i] \notin cards => cache[i] = 0
  BY DEF CacheMatchesCursor
<1>2. cache' = NoRows
  BY <1>1 DEF NoRows
<1>3. TypeOK'
  BY <1>2, CacheBounds DEF TypeOK
<1>4. AttemptsFit'
  BY AttemptsKept
<1>5. StartsEmpty' /\ NothingAfterRemoval'
  BY <1>2 DEF StartsEmpty, NothingAfterRemoval
<1>6. CacheMatchesCursor'
  BY DEF CacheMatchesCursor, TypeOK, Positions
<1>7. QED
  BY <1>3, <1>4, <1>5, <1>6

LEMMA BeginKeepsInv ==
    ASSUME CacheInv, NEW w \in Workers, Begin(w)
    PROVE  CacheInv'
<1> USE DEF CacheInv, Begin, bank
<1> DEFINE a == [Idle EXCEPT !.pc = "collect", !.from = cursor]
<1>1. a \in Attempt /\ a.from = cursor /\ a.to = 0 /\ a.sent = {} /\ a.again = {}
      /\ a.pc = "collect"
  BY CacheBounds DEF Idle, Attempt, TypeOK
<1>2. attempt' = [attempt EXCEPT ![w] = a]
  OBVIOUS
<1> HIDE DEF a
<1>3. TypeOK'
  BY <1>1, <1>2 DEF TypeOK, database
<1>4. ASSUME NEW v \in Workers PROVE Fits(attempt[v])'
  <2>1. attempt'[v] = attempt[v] \/ attempt'[v] = a
    BY <1>2 DEF TypeOK
  <2>2. Fits(attempt[v])
    BY FitsAll
  <2>3. Fits(a)
    BY <1>1 DEF Fits, CacheMatchesCursor, TypeOK, Positions
  <2>4. QED
    BY ZenonT(30), <2>1, <2>2, <2>3 DEF Fits, Changed
<1>5. AttemptsFit'
  BY <1>4 DEF AttemptsFit, Fits
<1>6. QED
  BY <1>3, <1>5, CacheKept

LEMMA RestartKeepsInv ==
    ASSUME CacheInv, NEW w \in Workers, Restart(w)
    PROVE  CacheInv'
<1> USE DEF CacheInv, Restart, bank
<1> DEFINE a == Restarted(attempt[w])
<1>1. attempt[w] \in Attempt /\ Fits(attempt[w])
  BY FitsAll DEF TypeOK
<1>2. a.from = attempt[w].from /\ a.to = 0 /\ a.sent = {} /\ a.again = {}
      /\ a.pc = "collect"
  BY DEF Restarted, Idle
<1>3. attempt[w].pages + 1 \in 0 .. MaxPages
  BY <1>1, LimitsAssumption DEF Attempt, Budget
<1>4. a \in Attempt
  BY <1>1, <1>3, CacheBounds DEF Restarted, Idle, Attempt
<1>5. attempt' = [attempt EXCEPT ![w] = a]
  BY DEF TypeOK
<1> HIDE DEF a
<1>6. TypeOK'
  BY <1>4, <1>5 DEF TypeOK, database
<1>7. ASSUME NEW v \in Workers PROVE Fits(attempt[v])'
  <2>1. attempt'[v] = attempt[v] \/ attempt'[v] = a
    BY <1>5 DEF TypeOK
  <2>2. Fits(attempt[v])
    BY FitsAll
  <2>3. Fits(a)
    BY <1>1, <1>2 DEF Fits, TypeOK, Positions
  <2>4. QED
    BY <2>1, <2>2, <2>3 DEF Fits, Changed
<1>8. AttemptsFit'
  BY <1>7 DEF AttemptsFit, Fits
<1>9. QED
  BY <1>6, <1>8, CacheKept

LEMMA CollectPageKeepsInv ==
    ASSUME CacheInv, NEW w \in Workers, CollectPage(w)
    PROVE  CacheInv'
<1> USE DEF CacheInv
<1> DEFINE a == attempt[w]
           to == IF Paging(w) THEN a.to ELSE last
           due == Changed(a.from, to) \ a.sent
<1>1. PICK page \in SUBSET due, again \in SUBSET (Ids \ Changed(a.from, to)) :
        /\ page = {} => due = {}
        /\ attempt' = [attempt EXCEPT ![w] =
             [a EXCEPT
                !.pc = IF page = due THEN "apply" ELSE "collect",
                !.to = to,
                !.sent = @ \cup page,
                !.again = @ \cup again,
                !.modified = @ \cup {i \in page : /\ feed[a.from][i] # 0
                                                  /\ feed[to][i] # 0},
                !.rows = [i \in Ids |-> IF i \in page \cup again
                                          THEN feed[to][i] ELSE @[i]],
                !.pages = @ + 1]]
  BY DEF CollectPage
<1>2. to = last /\ a.pc = "collect" /\ Budget(a)
  BY DEF CollectPage
<1>3. UNCHANGED <<bank, database, lease, mishaps>>
  BY DEF CollectPage
<1>4. a \in Attempt /\ Fits(a)
  BY FitsAll DEF TypeOK
<1>5. last \in Positions /\ feed[last] \in Rows /\ feed[a.from] \in Rows
  BY <1>4 DEF TypeOK, Attempt
<1> DEFINE b == attempt'[w]
<1>6. /\ b.pc = IF page = due THEN "apply" ELSE "collect"
      /\ b.from = a.from
      /\ b.to = last
      /\ b.sent = a.sent \cup page
      /\ b.again = a.again \cup again
      /\ b.modified = a.modified \cup {i \in page : /\ feed[a.from][i] # 0
                                                    /\ feed[to][i] # 0}
      /\ b.rows = [i \in Ids |-> IF i \in page \cup again
                                   THEN feed[last][i] ELSE a.rows[i]]
      /\ b.pages = a.pages + 1
  BY <1>1, <1>2, <1>4 DEF TypeOK, Attempt
<1>7. page \subseteq Ids /\ again \subseteq Ids /\ a.sent \subseteq Ids
      /\ a.again \subseteq Ids
  BY <1>4 DEF Changed, Attempt
<1>8. b \in Attempt
  <2>1. a.pages + 1 \in 0 .. MaxPages
    BY <1>2, <1>4, LimitsAssumption DEF Attempt, Budget
  <2>2. [i \in Ids |-> IF i \in page \cup again THEN feed[last][i] ELSE a.rows[i]]
          \in Rows
    BY <1>4, <1>5 DEF Attempt, Rows
  <2>3. a.modified \cup {i \in page : feed[a.from][i] # 0 /\ feed[to][i] # 0}
          \in SUBSET Ids
    BY <1>4, <1>7 DEF Attempt
  <2>4. b = [pc |-> b.pc, from |-> b.from, to |-> b.to, sent |-> b.sent,
             again |-> b.again, modified |-> b.modified, rows |-> b.rows,
             pages |-> b.pages]
    BY <1>1, <1>4 DEF TypeOK, Attempt
  <2>5. /\ b.pc \in {"idle", "collect", "apply"}
        /\ b.from \in Positions
        /\ b.to \in Positions
        /\ b.sent \in SUBSET Ids
        /\ b.again \in SUBSET Ids
        /\ b.modified \in SUBSET Ids
        /\ b.rows \in Rows
        /\ b.pages \in 0 .. MaxPages
    <3>1. a.from \in Positions
      BY <1>4 DEF Attempt
    <3> HIDE DEF a, b, to, due
    <3>2. QED
      BY <1>5, <1>6, <1>7, <2>1, <2>2, <2>3, <3>1
  <2> HIDE DEF b
  <2>6. QED
    BY <2>4, <2>5 DEF Attempt
<1>9. TypeOK'
  <2>1. attempt' \in [Workers -> Attempt]
    BY <1>1, <1>8 DEF TypeOK
  <2>2. QED
    BY <1>3, <2>1 DEF TypeOK, bank, database
\* While pages are coming the attempt leads to the newest position; before the
\* first one it has delivered nothing.
<1>10. a.sent # {} => a.to = last
  BY <1>2 DEF Paging
<1>11. a.sent = {} => a.again = {}
  BY <1>2, <1>4 DEF Fits
<1>12. a.from <= last
  BY <1>4 DEF Fits
<1>13. \A i \in b.sent \cup b.again : b.rows[i] = feed[last][i]
  BY <1>4, <1>6, <1>7, <1>10, <1>11 DEF Fits
<1>14. \A i \in b.again : feed[b.from][i] = feed[last][i]
  BY <1>2, <1>4, <1>6, <1>7, <1>10, <1>11 DEF Fits, Changed
<1>15. b.pc = "apply" => Changed(b.from, last) \subseteq b.sent
  BY <1>2, <1>6 DEF Changed
<1>16. b.sent = {} /\ b.pc # "apply" => b.again = {}
  BY <1>1, <1>6
<1>17. Fits(b)
  BY <1>6, <1>12, <1>13, <1>14, <1>15, <1>16, <1>5 DEF Fits, Positions
<1> HIDE DEF a, to, due
<1>18. ASSUME NEW v \in Workers PROVE Fits(attempt[v])'
  <2>1. attempt'[v] = attempt[v] \/ attempt'[v] = b
    BY <1>1 DEF TypeOK
  <2>2. Fits(attempt[v])
    BY FitsAll
  <2>3. Fits(attempt'[v])
    BY <1>17, <2>1, <2>2
  <2>4. QED
    BY <1>3, <2>3 DEF Fits, Changed, bank
<1>19. AttemptsFit'
  BY <1>18 DEF AttemptsFit, Fits
<1>20. QED
  BY <1>3, <1>9, <1>19, CacheKept DEF bank

\* The rows an attempt brings take the cache from its start to its end.
LEMMA AppliedMatches ==
    ASSUME CacheInv, NEW w \in Workers,
           attempt[w].pc = "apply", Appliable(w)
    PROVE  \A i \in Ids :
              Applied(attempt[w])[i] = IF AccountOf[i] \in cards
                                         THEN feed[attempt[w].to][i] ELSE 0
<1> DEFINE a == attempt[w]
<1>1. Fits(a) /\ a \in Attempt
  BY FitsAll DEF CacheInv, TypeOK
<1>2. \A i \in Ids : cache[i] = IF AccountOf[i] \in cards THEN feed[a.from][i] ELSE 0
  BY DEF CacheInv, CacheMatchesCursor, Appliable
<1>3. Changed(a.from, a.to) \subseteq a.sent
  BY <1>1 DEF Fits
<1>4. \A i \in Ids : i \notin a.sent => feed[a.from][i] = feed[a.to][i]
  BY <1>3 DEF Changed
<1>5. \A i \in a.sent \cup a.again : a.rows[i] = feed[a.to][i]
  BY <1>1 DEF Fits
<1> HIDE DEF a
<1>6. TAKE i \in Ids
<1>7. Applied(a)[i] =
        IF i \in a.sent \cup a.again /\ (a.rows[i] = 0 \/ AccountOf[i] \in cards)
          THEN a.rows[i] ELSE cache[i]
  BY DEF Applied
<1>8. CASE i \in a.sent \cup a.again
  BY <1>2, <1>5, <1>7, <1>8 DEF a
<1>9. CASE i \notin a.sent \cup a.again
  BY <1>2, <1>4, <1>7, <1>9 DEF a
<1>10. QED
  BY <1>8, <1>9

LEMMA ApplyKeepsInv ==
    ASSUME CacheInv, NEW w \in Workers, Apply(w)
    PROVE  CacheInv'
<1> USE DEF CacheInv
<1> DEFINE a == attempt[w]
<1>1. UNCHANGED <<feed, last, shared, status, cards, mishaps>>
      /\ attempt' = [attempt EXCEPT ![w] = Idle]
      /\ lease' \in {None, lease}
      /\ a.pc = "apply"
  BY DEF Apply, bank, Drop, Given
<1>2. a \in Attempt /\ Fits(a)
  BY FitsAll DEF TypeOK
<1>3. attempt' \in [Workers -> Attempt] /\ AttemptsFit'
  BY <1>1, AttemptsGivenUp
<1>4. CASE ~Appliable(w)
  <2>1. UNCHANGED <<cache, counts, cursor>>
    BY <1>4 DEF Apply
  <2>2. TypeOK'
    BY <1>1, <1>3, <2>1 DEF TypeOK
  <2>3. QED
    BY <1>1, <1>3, <2>1, <2>2, CacheKept DEF database
<1>5. CASE Appliable(w)
  <2>1. cache' = Applied(a) /\ cursor' = a.to /\ counts' = Counted(a)
    BY <1>5 DEF Apply
  <2>2. Applied(a) \in Rows
    BY <1>2 DEF Applied, Rows, Attempt, TypeOK
  <2>3. Counted(a) \in Counts
    <3>1. \A S \in SUBSET Ids : Cardinality(S) \in Nat
      BY IdsAssumption, FS_Subset, FS_CardinalityType
    <3>2. a.modified \subseteq Ids /\ a.sent \cup a.again \subseteq Ids
      BY <1>2 DEF Attempt
    <3>3. QED
      BY <3>1, <3>2 DEF Counted, Counts
  <2>4. TypeOK'
    BY <1>1, <1>2, <1>3, <2>1, <2>2, <2>3 DEF TypeOK, Attempt
  <2>5. status = "active"
    BY <1>5 DEF Appliable
  <2>6. CacheMatchesCursor'
    <3>1. \A i \in Ids : cache'[i] = IF AccountOf[i] \in cards
                                       THEN feed[a.to][i] ELSE 0
      BY <1>1, <1>5, <2>1, AppliedMatches
    <3>2. QED
      BY <1>1, <1>2, <2>1, <3>1 DEF CacheMatchesCursor, Fits
  <2>7. StartsEmpty' /\ NothingAfterRemoval'
    BY <1>1, <2>5 DEF StartsEmpty, NothingAfterRemoval
  <2>8. QED
    BY <1>3, <2>4, <2>6, <2>7
<1>6. QED
  BY <1>4, <1>5

\* The steps that end an attempt without touching the database.
LEMMA EndKeepsInv ==
    ASSUME CacheInv, NEW w \in Workers,
           PageLimit(w) \/ CollectFails(w) \/ Crash(w)
    PROVE  CacheInv'
<1> USE DEF CacheInv
<1>1. /\ UNCHANGED <<bank, database>>
      /\ attempt' = [attempt EXCEPT ![w] = Idle]
      /\ lease' \in {None, lease}
      /\ mishaps' \in {mishaps, mishaps + 1}
  BY DEF PageLimit, CollectFails, Crash, Drop, Given
<1>2. attempt' \in [Workers -> Attempt] /\ AttemptsFit'
  BY <1>1, AttemptsGivenUp DEF bank
<1>3. TypeOK'
  BY <1>1, <1>2 DEF TypeOK, bank, database
<1>4. QED
  BY <1>1, <1>2, <1>3, CacheKept DEF bank

LEMMA OthersKeepInv ==
    ASSUME CacheInv,
           LeaseExpires \/ (\E a \in Accounts : SelectAccount(a)) \/ UNCHANGED vars
    PROVE  CacheInv'
<1> USE DEF CacheInv
<1>1. /\ UNCHANGED <<feed, last, database, attempt>>
      /\ shared' \subseteq Accounts
      /\ lease' \in {None, lease}
      /\ mishaps' \in {mishaps, mishaps + 1}
  BY DEF LeaseExpires, SelectAccount, vars, bank, database, TypeOK
<1>2. TypeOK'
  BY <1>1 DEF TypeOK, database
<1>3. QED
  BY <1>1, <1>2, AttemptsKept, CacheKept

LEMMA InitCacheInv == Init => CacheInv
<1> SUFFICES ASSUME Init PROVE CacheInv
  OBVIOUS
<1> USE DEF Init
<1>1. TypeOK
  BY CacheBounds DEF TypeOK
<1>2. feed[0] = NoRows /\ \A n \in Positions : feed[n] = NoRows
  BY CacheBounds
<1>3. StartsEmpty /\ NothingAfterRemoval
  BY <1>2 DEF StartsEmpty, NothingAfterRemoval
<1>4. CacheMatchesCursor
  BY DEF CacheMatchesCursor
<1>5. AttemptsFit
  BY <1>1, IdleFits DEF AttemptsFit, Fits
<1>6. QED
  BY <1>1, <1>3, <1>4, <1>5 DEF CacheInv

LEMMA StepKeepsInv == CacheInv /\ [Next]_vars => CacheInv'
<1> SUFFICES ASSUME CacheInv, [Next]_vars PROVE CacheInv'
  OBVIOUS
<1>1. CASE BankChanges
  BY <1>1, BankChangesKeepsInv
<1>2. CASE Link
  BY <1>2, LinkKeepsInv
<1>3. CASE Disconnect
  BY <1>3, DisconnectKeepsInv
<1>4. CASE LeaseExpires \/ (\E a \in Accounts : SelectAccount(a)) \/ UNCHANGED vars
  BY <1>4, OthersKeepInv
<1>5. ASSUME NEW w \in Workers, Begin(w) PROVE CacheInv'
  BY <1>5, BeginKeepsInv
<1>6. ASSUME NEW w \in Workers, AttemptStep(w) PROVE CacheInv'
  BY <1>6, CollectPageKeepsInv, RestartKeepsInv, EndKeepsInv, ApplyKeepsInv
     DEF AttemptStep
<1>7. ASSUME NEW w \in Workers, CollectFails(w) \/ Crash(w) PROVE CacheInv'
  BY <1>7, EndKeepsInv
<1>8. QED
  BY <1>1, <1>2, <1>3, <1>4, <1>5, <1>6, <1>7 DEF Next

\* The inductive invariant holds of every reachable state: of collecting pages,
\* restarting on a mutation, the apply transaction and the purge.
THEOREM CacheInvariant == Spec => []CacheInv
<1>1. QED
  BY InitCacheInv, StepKeepsInv, PTL DEF Spec

\* The cache is exactly what the bank had at the cursor, and a removed
\* connection keeps nothing, whatever SyncService and disconnect interleave.
THEOREM CacheIsAPastState == Spec => [](CacheMatchesCursor /\ NothingAfterRemoval)
<1>1. CacheInv => CacheMatchesCursor /\ NothingAfterRemoval
  BY DEF CacheInv
<1>2. QED
  BY <1>1, CacheInvariant, PTL

\* The cursor of a connection never goes back: a pass that lost its lease
\* cannot put older rows over newer ones.
THEOREM CursorAdvances == Spec => CursorNeverBack
<1>1. CacheInv /\ [Next]_vars => [status' = "active" => cursor' >= cursor]_vars
  <2> SUFFICES ASSUME CacheInv, [Next]_vars, status' = "active"
               PROVE  cursor' >= cursor
    OBVIOUS
  <2>1. cursor \in Positions /\ cursor >= cursor
    BY CacheBounds DEF CacheInv, TypeOK
  <2>2. ASSUME NEW w \in Workers, Apply(w) PROVE cursor' >= cursor
    <3>1. cursor' = cursor \/ (Appliable(w) /\ cursor' = attempt[w].to)
      BY <2>2 DEF Apply
    <3>2. Fits(attempt[w]) /\ attempt[w] \in Attempt /\ attempt[w].pc = "apply"
      BY <2>2, FitsAll DEF CacheInv, TypeOK, Apply
    <3>3. attempt[w].from <= attempt[w].to
      BY <3>2 DEF Fits
    <3>4. QED
      BY <2>1, <3>1, <3>2, <3>3 DEF Appliable, Attempt, Positions
  <2>3. CASE \E w \in Workers : Apply(w)
    BY <2>2, <2>3
  <2>4. CASE ~ \E w \in Workers : Apply(w)
    <3>1. cursor' = cursor
      BY <2>4 DEF Next, vars, BankChanges, Link, Disconnect, LeaseExpires,
             SelectAccount, Begin, AttemptStep, CollectPage, Restart, PageLimit,
             CollectFails, Crash, database
    <3>2. QED
      BY <2>1, <3>1
  <2>5. QED
    BY <2>3, <2>4
<1>2. QED
  BY <1>1, CacheInvariant, PTL DEF Spec, CursorNeverBack

-----------------------------------------------------------------------------
(* The counts of a pass *)

\* What is delivered because it differs does differ, and is "modified" exactly
\* when it was there before and still is.
SentFits(a) ==
    /\ a.sent \subseteq Changed(a.from, a.to)
    /\ a.modified = {i \in a.sent : feed[a.from][i] # 0 /\ feed[a.to][i] # 0}

CountInv == CacheInv /\ \A w \in Workers : SentFits(attempt[w])

\* The data of the positions the bank has passed stays as it is.
LEMMA PastKept ==
    ASSUME CacheInv, [Next]_vars
    PROVE  \A n \in Positions : n <= last => feed'[n] = feed[n]
<1> USE DEF CacheInv
<1>1. CASE BankChanges
  BY <1>1 DEF BankChanges, TypeOK, Positions
<1>2. CASE feed' = feed
  BY <1>2
<1>3. BankChanges \/ feed' = feed
  BY DEF Next, vars, Link, Disconnect, LeaseExpires, SelectAccount, Begin,
         AttemptStep, CollectPage, Restart, PageLimit, Apply, CollectFails, Crash, bank
<1>4. QED
  BY <1>1, <1>2, <1>3

LEMMA CollectSends ==
    ASSUME CountInv, NEW w \in Workers, CollectPage(w)
    PROVE  \A v \in Workers : SentFits(attempt[v])'
<1> USE DEF CountInv, CacheInv
<1> DEFINE a == attempt[w]
           to == IF Paging(w) THEN a.to ELSE last
           due == Changed(a.from, to) \ a.sent
           b == attempt'[w]
<1>1. PICK page \in SUBSET due, again \in SUBSET (Ids \ Changed(a.from, to)) :
        /\ page = {} => due = {}
        /\ attempt' = [attempt EXCEPT ![w] =
             [a EXCEPT
                !.pc = IF page = due THEN "apply" ELSE "collect",
                !.to = to,
                !.sent = @ \cup page,
                !.again = @ \cup again,
                !.modified = @ \cup {i \in page : /\ feed[a.from][i] # 0
                                                  /\ feed[to][i] # 0},
                !.rows = [i \in Ids |-> IF i \in page \cup again
                                          THEN feed[to][i] ELSE @[i]],
                !.pages = @ + 1]]
  BY DEF CollectPage
<1>2. UNCHANGED <<feed, last>>
  BY DEF CollectPage, bank
<1>3. a \in Attempt /\ SentFits(a)
  BY DEF TypeOK
<1>4. /\ b.from = a.from /\ b.to = to /\ b.sent = a.sent \cup page
      /\ b.modified = a.modified \cup {i \in page : /\ feed[a.from][i] # 0
                                                    /\ feed[to][i] # 0}
  BY <1>1, <1>3 DEF TypeOK, Attempt
<1>5. a.sent # {} => to = a.to
  BY DEF Paging
<1>6. a.sent \subseteq Changed(a.from, to)
  BY <1>3, <1>5 DEF SentFits
<1>7. a.modified = {i \in a.sent : feed[a.from][i] # 0 /\ feed[to][i] # 0}
  BY <1>3, <1>5 DEF SentFits
<1>8. page \subseteq Changed(a.from, to)
  OBVIOUS
<1> HIDE DEF to, due, a, b
<1>9. SentFits(b)
  BY <1>4, <1>6, <1>7, <1>8 DEF SentFits
<1>10. \A v \in Workers : v # w => attempt'[v] = attempt[v]
  BY <1>1 DEF TypeOK
<1>11. \A v \in Workers : SentFits(attempt'[v])
  BY <1>9, <1>10 DEF b
<1>12. QED
  BY <1>2, <1>11 DEF SentFits, Changed

\* Every other step leaves an attempt alone or starts it anew.
LEMMA OthersSend ==
    ASSUME CountInv, [Next]_vars, ~ \E w \in Workers : CollectPage(w)
    PROVE  \A v \in Workers : SentFits(attempt[v])'
<1> USE DEF CountInv, CacheInv
<1>1. SUFFICES ASSUME NEW v \in Workers PROVE SentFits(attempt[v])'
  OBVIOUS
<1>2. \/ attempt'[v] = attempt[v]
      \/ attempt'[v].sent = {} /\ attempt'[v].modified = {}
  <2>1. ASSUME NEW w \in Workers, Begin(w)
        PROVE  attempt'[v] = attempt[v]
               \/ (attempt'[v].sent = {} /\ attempt'[v].modified = {})
    BY <2>1 DEF Begin, TypeOK, Idle
  <2>2. ASSUME NEW w \in Workers, Restart(w)
        PROVE  attempt'[v] = attempt[v]
               \/ (attempt'[v].sent = {} /\ attempt'[v].modified = {})
    BY <2>2 DEF Restart, TypeOK, Restarted, Idle
  <2>3. ASSUME NEW w \in Workers,
               PageLimit(w) \/ Apply(w) \/ CollectFails(w) \/ Crash(w)
        PROVE  attempt'[v] = attempt[v]
               \/ (attempt'[v].sent = {} /\ attempt'[v].modified = {})
    <3>1. attempt' = [attempt EXCEPT ![w] = Idle]
      BY <2>3 DEF PageLimit, Apply, CollectFails, Crash, Drop
    <3>2. QED
      BY <3>1 DEF TypeOK, Idle
  <2>4. CASE \/ BankChanges \/ Link \/ Disconnect \/ LeaseExpires
             \/ \E a \in Accounts : SelectAccount(a)
             \/ UNCHANGED vars
    BY <2>4 DEF BankChanges, Link, Disconnect, LeaseExpires, SelectAccount, vars
  <2>5. QED
    BY <2>1, <2>2, <2>3, <2>4 DEF Next, AttemptStep
<1>3. SentFits(attempt[v]) /\ Fits(attempt[v]) /\ attempt[v] \in Attempt
  BY FitsAll DEF TypeOK
<1>4. feed'[attempt[v].from] = feed[attempt[v].from]
      /\ feed'[attempt[v].to] = feed[attempt[v].to]
  BY <1>3, PastKept DEF Fits, Attempt
<1>5. CASE attempt'[v] = attempt[v]
  BY <1>3, <1>4, <1>5 DEF SentFits, Changed
<1>6. CASE attempt'[v].sent = {} /\ attempt'[v].modified = {}
  BY <1>6 DEF SentFits
<1>7. QED
  BY <1>2, <1>5, <1>6

LEMMA CountInvariant == Spec => []CountInv
<1>1. Init => CountInv
  <2> SUFFICES ASSUME Init PROVE CountInv
    OBVIOUS
  <2>1. \A w \in Workers : attempt[w].sent = {} /\ attempt[w].modified = {}
    BY DEF Init, Idle
  <2>2. QED
    BY <2>1, InitCacheInv DEF CountInv, SentFits
<1>2. CountInv /\ [Next]_vars => CountInv'
  <2> SUFFICES ASSUME CountInv, [Next]_vars PROVE CountInv'
    OBVIOUS
  <2>1. \A v \in Workers : SentFits(attempt[v])'
    BY CollectSends, OthersSend
  <2>2. CacheInv'
    BY StepKeepsInv DEF CountInv
  <2>3. QED
    BY <2>1, <2>2 DEF CountInv
<1>3. QED
  BY <1>1, <1>2, PTL DEF Spec

LEMMA DisjointUnion ==
    ASSUME NEW A, NEW B, IsFiniteSet(A), IsFiniteSet(B), A \cap B = {}
    PROVE  Cardinality(A \cup B) = Cardinality(A) + Cardinality(B)
<1>1. Cardinality(A \cup B) = Cardinality(A) + Cardinality(B) - Cardinality(A \cap B)
  BY FS_Union
<1>2. Cardinality(A \cap B) = 0
  BY FS_EmptySet
<1>3. Cardinality(A) \in Nat /\ Cardinality(B) \in Nat
  BY FS_CardinalityType
<1>4. QED
  BY <1>1, <1>2, <1>3

\* What the counts count is what the apply transaction does to the cache.
LEMMA AppliedCounts ==
    ASSUME CountInv, NEW w \in Workers, Apply(w), Appliable(w)
    PROVE  /\ Cached' + counts'.removed = Cached + counts'.added
           /\ counts' = NoCounts <=> cache' = cache
<1> USE DEF CountInv, CacheInv
<1> DEFINE a == attempt[w]
           All == a.sent \cup a.again
           Before == {i \in Ids : cache[i] # 0}
           After == {i \in Ids : cache'[i] # 0}
           Added == {i \in All : /\ a.rows[i] # 0
                                 /\ AccountOf[i] \in cards
                                 /\ i \notin a.modified
                                 /\ cache[i] = 0}
           Modified == {i \in a.modified : AccountOf[i] \in cards}
           Removed == {i \in All : a.rows[i] = 0 /\ cache[i] # 0}
<1>1. a \in Attempt /\ Fits(a) /\ SentFits(a) /\ a.pc = "apply"
  BY FitsAll DEF TypeOK, Apply
<1>2. cache' = Applied(a) /\ counts' = Counted(a)
  BY DEF Apply
<1>3. All \subseteq Ids /\ a.modified \subseteq a.sent
  BY <1>1 DEF Attempt, SentFits
<1>4. \A i \in Ids : cache[i] = IF AccountOf[i] \in cards THEN feed[a.from][i] ELSE 0
  BY DEF CacheMatchesCursor, Appliable
<1>5. \A i \in Ids : cache'[i] = IF i \in All /\ (a.rows[i] = 0 \/ AccountOf[i] \in cards)
                                   THEN a.rows[i] ELSE cache[i]
  BY <1>2 DEF Applied
<1>6. /\ \A i \in All : a.rows[i] = feed[a.to][i]
      /\ \A i \in a.again : feed[a.from][i] = feed[a.to][i]
  BY <1>1 DEF Fits
<1>7. \A i \in a.sent : feed[a.from][i] # feed[a.to][i]
  BY <1>1 DEF SentFits, Changed
<1>8. \A i \in a.sent : i \in a.modified <=> feed[a.from][i] # 0 /\ feed[a.to][i] # 0
  BY <1>1 DEF SentFits
<1>9. /\ counts'.added = Cardinality(Added)
      /\ counts'.modified = Cardinality(Modified)
      /\ counts'.removed = Cardinality(Removed)
  BY <1>2 DEF Counted
<1>10. counts' = NoCounts <=> counts'.added = 0 /\ counts'.modified = 0 /\ counts'.removed = 0
  BY <1>2 DEF Counted, NoCounts
<1> HIDE DEF a
<1>11. Added \subseteq After /\ Removed \subseteq Before
  BY <1>3, <1>5
<1>12. Added \cap Before = {} /\ Removed \cap After = {}
  BY <1>5
<1>13. Before \ Removed = After \ Added
  <2>1. ASSUME NEW i \in Before, i \notin Removed PROVE i \in After /\ i \notin Added
    BY <2>1, <1>5
  <2>2. ASSUME NEW i \in After, i \notin Added PROVE i \in Before /\ i \notin Removed
    <3>1. CASE i \in All /\ (a.rows[i] = 0 \/ AccountOf[i] \in cards)
      <4>1. cache'[i] = a.rows[i] /\ a.rows[i] # 0 /\ AccountOf[i] \in cards
        BY <1>5, <2>2, <3>1
      <4>2. CASE i \in a.modified
        BY <1>3, <1>4, <1>8, <4>1, <4>2
      <4>3. CASE i \notin a.modified
        BY <2>2, <3>1, <4>1, <4>3
      <4>4. QED
        BY <4>1, <4>2, <4>3
    <3>2. CASE ~(i \in All /\ (a.rows[i] = 0 \/ AccountOf[i] \in cards))
      BY <1>5, <2>2, <3>2
    <3>3. QED
      BY <3>1, <3>2
  <2>3. QED
    BY <2>1, <2>2
<1>14. /\ IsFiniteSet(Before) /\ IsFiniteSet(After)
       /\ IsFiniteSet(Added) /\ IsFiniteSet(Removed) /\ IsFiniteSet(Modified)
  BY <1>3, IdsAssumption, FS_Subset
<1> DEFINE Kept == Before \ Removed
<1>15. Before = Kept \cup Removed /\ Kept \cap Removed = {}
  BY <1>11
<1>16. After = Kept \cup Added /\ Kept \cap Added = {}
  BY <1>11, <1>13
<1>17. IsFiniteSet(Kept)
  BY <1>14, FS_Difference
<1> HIDE DEF Before, After, Added, Removed, Modified, Kept
<1>18. Cardinality(Before) = Cardinality(Kept) + Cardinality(Removed)
  BY <1>14, <1>15, <1>17, DisjointUnion
<1>19. Cardinality(After) = Cardinality(Kept) + Cardinality(Added)
  BY <1>14, <1>16, <1>17, DisjointUnion
<1>20. Cached = Cardinality(Before) /\ Cached' = Cardinality(After)
  BY DEF Cached, Before, After
<1>21. /\ Cardinality(Kept) \in Nat /\ Cardinality(Added) \in Nat
       /\ Cardinality(Removed) \in Nat
  BY <1>14, <1>17, FS_CardinalityType
<1>22. Cached' + counts'.removed = Cached + counts'.added
  BY <1>9, <1>18, <1>19, <1>20, <1>21
<1>23. counts' = NoCounts <=> Added = {} /\ Modified = {} /\ Removed = {}
  BY <1>9, <1>10, <1>14, FS_EmptySet
<1>24. ASSUME cache' = cache PROVE Added = {} /\ Modified = {} /\ Removed = {}
  <2>1. Added = {} /\ Removed = {}
    BY <1>24, <1>11, <1>12 DEF Before, After
  <2>2. ASSUME NEW i \in Modified PROVE FALSE
    <3>1. i \in a.sent /\ i \in Ids /\ AccountOf[i] \in cards
      BY <1>3 DEF Modified
    <3>2. cache'[i] = feed[a.to][i] /\ cache[i] = feed[a.from][i]
      BY <1>4, <1>5, <1>6, <3>1
    <3>3. QED
      BY <1>7, <1>24, <3>1, <3>2
  <2>3. QED
    BY <2>1, <2>2
<1>25. ASSUME Added = {}, Modified = {}, Removed = {} PROVE cache' = cache
  <2>1. ASSUME NEW i \in Ids PROVE cache'[i] = cache[i]
    <3>1. CASE i \in All /\ (a.rows[i] = 0 \/ AccountOf[i] \in cards)
      <4>1. cache'[i] = a.rows[i] /\ a.rows[i] = feed[a.to][i]
        BY <1>5, <1>6, <3>1
      <4>2. CASE a.rows[i] = 0
        BY <1>25, <3>1, <4>1, <4>2 DEF Removed
      <4>3. CASE a.rows[i] # 0
        <5>1. AccountOf[i] \in cards /\ cache[i] = feed[a.from][i]
          BY <1>4, <3>1, <4>3
        <5>2. i \notin a.modified
          BY <1>25, <5>1 DEF Modified
        <5>3. cache[i] # 0
          BY <1>25, <3>1, <4>3, <5>1, <5>2 DEF Added
        <5>4. i \notin a.sent
          BY <1>8, <4>1, <4>3, <5>1, <5>2, <5>3
        <5>5. QED
          BY <1>6, <3>1, <4>1, <5>1, <5>4
      <4>4. QED
        BY <4>2, <4>3
    <3>2. CASE ~(i \in All /\ (a.rows[i] = 0 \/ AccountOf[i] \in cards))
      BY <1>5, <3>2
    <3>3. QED
      BY <3>1, <3>2
  <2>2. cache \in [Ids -> Versions] /\ cache' \in [Ids -> Versions]
    BY StepKeepsInv DEF TypeOK, Rows, Next, AttemptStep
  <2>3. QED
    BY <2>1, <2>2
<1>26. QED
  BY <1>22, <1>23, <1>24, <1>25

\* The counts of a pass say what it did to the cache: as many rows came and went,
\* and nothing is counted exactly when nothing changed, whatever rows are
\* delivered again (_apply_pages).
THEOREM CountsTellTheTruth == Spec => CountsAddUp
<1>1. CountInv /\ [Next]_vars =>
         [cursor' # cursor /\ status' = "active" =>
             /\ Cached' + counts'.removed = Cached + counts'.added
             /\ counts' = NoCounts <=> cache' = cache]_vars
  <2> SUFFICES ASSUME CountInv, [Next]_vars, cursor' # cursor, status' = "active"
               PROVE  /\ Cached' + counts'.removed = Cached + counts'.added
                      /\ counts' = NoCounts <=> cache' = cache
    OBVIOUS
  <2>1. \E w \in Workers : Apply(w)
    BY DEF Next, vars, BankChanges, Link, Disconnect, LeaseExpires, SelectAccount,
           Begin, AttemptStep, CollectPage, Restart, PageLimit, CollectFails, Crash,
           database
  <2>2. PICK w \in Workers : Apply(w)
    BY <2>1
  <2>3. Appliable(w)
    BY <2>2 DEF Apply
  <2>4. QED
    BY <2>2, <2>3, AppliedCounts
<1>2. QED
  BY <1>1, CountInvariant, PTL DEF Spec, CountsAddUp

=============================================================================
