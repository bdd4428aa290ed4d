----------------------------- MODULE CacheSync -----------------------------
(***************************************************************************)
(* The rows of one connection: what the bank has, what /transactions/sync  *)
(* delivers of it page by page, and the cache that one atomic transaction  *)
(* brings up to date.  Jobs, generations and refreshes are SyncWorker's;   *)
(* here a worker holds the lease of the connection or it does not.         *)
(*                                                                         *)
(* The bank (external) is modelled as the code relies on it.  feed[n] is   *)
(* what it has after n changes, and a cursor is such an n, 0 being the     *)
(* empty cursor.  An attempt that starts from cursor n is given, over some *)
(* pages, the rows that differ between n and the newest position, perhaps  *)
(* among rows that do not.  Once the data has changed, the next page of    *)
(* the attempt is refused.                                                 *)
(***************************************************************************)
EXTENDS Naturals, FiniteSets

CONSTANTS
    Ids,             \* plaid_transaction_ids
    Accounts,        \* accounts the bank has for the owner
    CreditAccounts,  \* those that become cards
    AccountOf,       \* the account of a transaction
    Workers,
    None,            \* no worker holds the lease
    MaxVersion,      \* bound: contents a row may have
    MaxUpdates,      \* bound: changes of the bank's data
    MaxPages,        \* MAX_PAGES_PER_ATTEMPT
    MaxMishaps       \* bound: provider errors, lost leases and crashes

ASSUME AccountsAssumption ==
    CreditAccounts \subseteq Accounts /\ AccountOf \in [Ids -> Accounts]
ASSUME IdsAssumption == IsFiniteSet(Ids)
ASSUME NoWorkerAssumption == None \notin Workers
ASSUME LimitsAssumption ==
    /\ MaxVersion \in Nat
    /\ MaxUpdates \in Nat
    /\ MaxPages \in Nat
    /\ MaxMishaps \in Nat

VARIABLES
    feed,      \* the bank: its rows after each change
    last,      \* the bank: how many changes there have been
    shared,    \* the bank: the accounts the owner selected in Link
    status,    \* lifecycle_status
    cards,     \* CardAccount rows
    cursor,    \* sync_cursor
    cache,     \* Transaction rows
    counts,    \* the counts of the newest SyncRun
    lease,     \* the worker whose token the running job has
    attempt,   \* the local variables of synchronize in each worker
    mishaps

bank == <<feed, last, shared>>
database == <<status, cards, cursor, cache, counts>>
vars == <<feed, last, shared, status, cards, cursor, cache, counts,
          lease, attempt, mishaps>>

-----------------------------------------------------------------------------
(* State *)

\* Contents of a row; 0 if there is no such row.
Versions == 0 .. MaxVersion
Rows == [Ids -> Versions]
NoRows == [i \in Ids |-> 0]

Positions == 0 .. MaxUpdates

Counts == [added : Nat, modified : Nat, removed : Nat]
NoCounts == [added |-> 0, modified |-> 0, removed |-> 0]

\* The pages collected so far, merged: a later row replaces an earlier one, as
\* applying the pages one after the other does.
Attempt ==
    [pc       : {"idle", "collect", "apply"},
     from     : Positions,    \* attempt_cursor
     to       : Positions,    \* the position the pages lead to
     sent     : SUBSET Ids,   \* rows delivered because they differ
     again    : SUBSET Ids,   \* rows delivered though they do not
     modified : SUBSET Ids,   \* rows delivered under "modified"
     rows     : Rows,         \* the contents of the delivered rows
     pages    : 0 .. MaxPages]  \* guard

Idle == [pc |-> "idle", from |-> 0, to |-> 0, sent |-> {}, again |-> {},
         modified |-> {}, rows |-> NoRows, pages |-> 0]

TypeOK ==
    /\ feed \in [Positions -> Rows]
    /\ last \in Positions
    /\ shared \subseteq Accounts
    /\ status \in {"absent", "active", "removed"}
    /\ cards \subseteq CreditAccounts
    /\ cursor \in Positions
    /\ cache \in Rows
    /\ counts \in Counts
    /\ lease \in Workers \cup {None}
    /\ attempt \in [Workers -> Attempt]
    /\ mishaps \in Nat

Init ==
    /\ feed = [n \in Positions |-> NoRows]
    /\ last = 0
    /\ shared = {}
    /\ status = "absent"
    /\ cards = {}
    /\ cursor = 0
    /\ cache = NoRows
    /\ counts = NoCounts
    /\ lease = None
    /\ attempt = [w \in Workers |-> Idle]
    /\ mishaps = 0

-----------------------------------------------------------------------------
(* The bank *)

\* The rows that differ between two positions.
Changed(from, to) == {i \in Ids : feed[from][i] # feed[to][i]}

\* A transaction of a selected account is posted, changed or withdrawn.
BankChanges ==
    /\ last < MaxUpdates
    /\ status # "absent"
    /\ \E i \in Ids, v \in Versions :
          /\ AccountOf[i] \in shared
          /\ v # feed[last][i]
          /\ feed' = [feed EXCEPT ![last + 1] = [feed[last] EXCEPT ![i] = v]]
    /\ last' = last + 1
    /\ UNCHANGED <<shared, database, lease, attempt, mishaps>>

\* The owner selects one more account in Link's update mode.  Nothing in the
\* application is called.
SelectAccount(a) ==
    /\ status = "active"
    /\ a \notin shared
    /\ shared' = shared \cup {a}
    /\ UNCHANGED <<feed, last, database, lease, attempt, mishaps>>

-----------------------------------------------------------------------------
(* Linking and disconnecting *)

\* Link with the accounts the owner selected: the credit ones become cards.
Link ==
    /\ status = "absent"
    /\ \E selected \in SUBSET Accounts :
          /\ selected # {}
          /\ shared' = selected
          /\ cards' = selected \cap CreditAccounts
    /\ status' = "active"
    /\ UNCHANGED <<feed, last, cursor, cache, counts, lease, attempt, mishaps>>

\* The purge of the connection's cards and their transactions.
Disconnect ==
    /\ status = "active"
    /\ status' = "removed"
    /\ cards' = {}
    /\ cache' = [i \in Ids |-> IF AccountOf[i] \in cards THEN 0 ELSE cache[i]]
    /\ cursor' = 0
    /\ UNCHANGED <<bank, counts, lease, attempt, mishaps>>

-----------------------------------------------------------------------------
(* One attempt of synchronize *)

\* The lease is given up with the attempt; a lost one is another worker's.
Given(w) == IF lease = w THEN None ELSE lease
Drop(w) == attempt' = [attempt EXCEPT ![w] = Idle]

\* The job is claimed and the connection is read.
Begin(w) ==
    /\ attempt[w].pc = "idle"
    /\ lease = None
    /\ status = "active"
    /\ lease' = w
    /\ attempt' = [attempt EXCEPT ![w] =
                      [Idle EXCEPT !.pc = "collect", !.from = cursor]]
    /\ UNCHANGED <<bank, database, mishaps>>

\* A page has been received since the attempt began or was restarted.
Paging(w) == attempt[w].sent # {}

\* Another request is within the limit.
Budget(a) == a.pages < MaxPages

\* One page of the attempt: some of the rows still to come, and rows that are
\* there or not there as before.
CollectPage(w) ==
    LET a == attempt[w]
        to == IF Paging(w) THEN a.to ELSE last
        due == Changed(a.from, to) \ a.sent
    IN  /\ a.pc = "collect"
        /\ Budget(a)
        /\ to = last
        /\ \E page \in SUBSET due, again \in SUBSET (Ids \ Changed(a.from, to)) :
              /\ page = {} => due = {}
              /\ attempt' = [attempt EXCEPT ![w] =
                   [a EXCEPT
                      !.pc = IF page = due THEN "apply" ELSE "collect",
                      !.to = to,
                      !.sent = @ \cup page,
                      !.again = @ \cup again,
                      !.modified = @ \cup {i \in page : /\ feed[a.from][i] # 0
                                                        /\ feed[to][i] # 0},
                      !.rows = [i \in Ids |-> IF i \in page \cup again
                                                THEN feed[to][i] ELSE @[i]],
                      !.pages = @ + 1]]
        /\ UNCHANGED <<bank, database, lease, mishaps>>

\* Mutants: the pages of before the mutation are kept; the refused request is
\* sent again.
RestartedWithPages(a) == [a EXCEPT !.to = last, !.pages = @ + 1]
RestartedInPlace(a) == a

\* The attempt goes back to the cursor it began with.
Restarted(a) ==
    [Idle EXCEPT !.pc = "collect", !.from = a.from, !.pages = a.pages + 1]

\* The bank's data changed during the pagination.
Restart(w) ==
    /\ attempt[w].pc = "collect"
    /\ Budget(attempt[w])
    /\ Paging(w)
    /\ attempt[w].to # last
    /\ attempt' = [attempt EXCEPT ![w] = Restarted(@)]
    /\ UNCHANGED <<bank, database, lease, mishaps>>

\* TRANSACTIONS_SYNC_LIMIT.
PageLimit(w) ==
    /\ attempt[w].pc = "collect"
    /\ ~Budget(attempt[w])
    /\ Drop(w)
    /\ lease' = Given(w)
    /\ UNCHANGED <<bank, database, mishaps>>

\* A provider error or timeout ends the attempt.
CollectFails(w) ==
    /\ attempt[w].pc = "collect"
    /\ mishaps < MaxMishaps
    /\ mishaps' = mishaps + 1
    /\ Drop(w)
    /\ lease' = Given(w)
    /\ UNCHANGED <<bank, database>>

\* Mutants: the apply transaction without its fence and its look at the
\* cursor, and without its look at the lifecycle.
AppliableIfActive(w) == status = "active"
AppliableIfLeased(w) == lease = w /\ cursor = attempt[w].from

\* The fence and the second look at the connection, in the transaction that
\* applies the pages.
Appliable(w) == /\ lease = w
                /\ status = "active"
                /\ cursor = attempt[w].from

\* Rows of accounts that are not cards are ignored; removal goes by id alone.
Applied(a) ==
    [i \in Ids |->
        IF i \in a.sent \cup a.again /\ (a.rows[i] = 0 \/ AccountOf[i] \in cards)
          THEN a.rows[i] ELSE cache[i]]

\* Mutant: a row that is delivered again is counted as added.
CountedAgain(a) ==
    [added    |-> Cardinality({i \in a.sent \cup a.again :
                      a.rows[i] # 0 /\ AccountOf[i] \in cards /\ i \notin a.modified}),
     modified |-> Cardinality({i \in a.modified : AccountOf[i] \in cards}),
     removed  |-> Cardinality({i \in a.sent \cup a.again :
                      a.rows[i] = 0 /\ cache[i] # 0})]

\* An added row counts if it was not cached, a modified one always, a removed
\* one if it was there.
Counted(a) ==
    [added    |-> Cardinality({i \in a.sent \cup a.again :
                      /\ a.rows[i] # 0
                      /\ AccountOf[i] \in cards
                      /\ i \notin a.modified
                      /\ cache[i] = 0}),
     modified |-> Cardinality({i \in a.modified : AccountOf[i] \in cards}),
     removed  |-> Cardinality({i \in a.sent \cup a.again :
                      a.rows[i] = 0 /\ cache[i] # 0})]

\* Everything in one transaction with the new cursor, or nothing.
Apply(w) ==
    LET a == attempt[w]
    IN  /\ a.pc = "apply"
        /\ IF Appliable(w)
             THEN /\ cache' = Applied(a)
                  /\ counts' = Counted(a)
                  /\ cursor' = a.to
             ELSE UNCHANGED <<cache, counts, cursor>>
        /\ Drop(w)
        /\ lease' = Given(w)
        /\ UNCHANGED <<bank, status, cards, mishaps>>

Crash(w) ==
    /\ attempt[w].pc # "idle"
    /\ mishaps < MaxMishaps
    /\ mishaps' = mishaps + 1
    /\ Drop(w)
    /\ UNCHANGED <<bank, database, lease>>

\* The lease of a worker that is gone expires and the job is recovered, and so
\* may the lease of one that is not.
LeaseExpires ==
    /\ lease # None
    /\ \/ attempt[lease].pc = "idle" /\ UNCHANGED mishaps
       \/ /\ attempt[lease].pc # "idle"
          /\ mishaps < MaxMishaps
          /\ mishaps' = mishaps + 1
    /\ lease' = None
    /\ UNCHANGED <<bank, database, attempt>>

-----------------------------------------------------------------------------
(* Specification *)

AttemptStep(w) == CollectPage(w) \/ Restart(w) \/ PageLimit(w) \/ Apply(w)

Next ==
    \/ BankChanges \/ Link \/ Disconnect \/ LeaseExpires
    \/ \E a \in Accounts : SelectAccount(a)
    \/ \E w \in Workers :
          Begin(w) \/ AttemptStep(w) \/ CollectFails(w) \/ Crash(w)

Spec == Init /\ [][Next]_vars

\* The scheduler queues a connection again and again and a worker takes it; the
\* worker's loop goes on; the lease of a worker that is gone runs out.
Fairness ==
    /\ WF_vars(\E w \in Workers : Begin(w))
    /\ \A w \in Workers : WF_vars(AttemptStep(w))
    /\ WF_vars(LeaseExpires /\ UNCHANGED mishaps)

FairSpec == Spec /\ Fairness

-----------------------------------------------------------------------------
(* Properties *)

\* The cache is what the bank had at the cursor, for the accounts that are
\* cards: nothing skipped, nothing twice, nothing of a discarded page.
CacheMatchesCursor ==
    /\ cursor <= last
    /\ status = "active" =>
          \A i \in Ids : cache[i] = IF AccountOf[i] \in cards
                                      THEN feed[cursor][i] ELSE 0

\* A removed connection keeps no transaction and no cursor, whatever pass was
\* under way when it was removed.
NothingAfterRemoval == status = "removed" => cache = NoRows /\ cursor = 0

\* The counts of a pass, from which a refresh says "updated" or "no changes",
\* are those of what it did to the cache.
Cached == Cardinality({i \in Ids : cache[i] # 0})
CountsAddUp ==
    [][cursor' # cursor /\ status' = "active" =>
          /\ Cached' + counts'.removed = Cached + counts'.added
          /\ counts' = NoCounts <=> cache' = cache]_vars

\* The cursor of a connection never goes back: no update is applied a second
\* time over a newer one.
CursorNeverBack == [][status' = "active" => cursor' >= cursor]_vars

\* An attempt's rows are those of the position its pages lead to; what it has
\* not been sent differs from its start only while there is more to collect.
AttemptsFit ==
    \A w \in Workers :
        LET a == attempt[w]
        IN  /\ a.from <= last
            /\ a.to <= last
            /\ \A i \in a.sent \cup a.again : a.rows[i] = feed[a.to][i]
            /\ \A i \in a.again : feed[a.from][i] = feed[a.to][i]
            /\ a.sent = {} /\ a.pc # "apply" => a.again = {}
            /\ a.pc = "apply" =>
                  a.from <= a.to /\ Changed(a.from, a.to) \subseteq a.sent
            /\ a.sent # {} => a.from <= a.to

\* Before the link there is nothing, and the empty cursor stands for nothing.
StartsEmpty ==
    /\ feed[0] = NoRows
    /\ status = "absent" => cache = NoRows /\ cursor = 0

\* The inductive invariant of the proofs.
CacheInv ==
    /\ TypeOK
    /\ StartsEmpty
    /\ AttemptsFit
    /\ CacheMatchesCursor
    /\ NothingAfterRemoval

\* Whatever the bank has reaches the cache, without any webhook, whenever the
\* bank is quiet for long enough.
CatchesUp == []<>(status = "active" => cursor = last)

=============================================================================
