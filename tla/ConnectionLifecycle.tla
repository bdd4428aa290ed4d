------------------------ MODULE ConnectionLifecycle ------------------------
(***************************************************************************)
(* The banks of the owner: Link sessions and exchanges, the Trial limit,   *)
(* disconnecting, the provider's webhooks, the scheduler's sweep, what a   *)
(* pass writes about the health of its connection, and the rotation of the *)
(* key that encrypts the tokens.  Leases, retries and rows of transactions *)
(* are in SyncWorker and CacheSync.                                        *)
(*                                                                         *)
(* A request of the owner is one transaction: its session check writes, so *)
(* it holds SQLite's only write lock from then on, its provider calls      *)
(* included.  The provider does not roll back with it, which is what the   *)
(* failures below are about.  The sweep and the rotation read before they  *)
(* write and so take two steps.                                            *)
(*                                                                         *)
(* Every Item of the provider (external) has at most one row.              *)
(***************************************************************************)
EXTENDS Naturals, FiniteSets, Functions

CONSTANTS
    Items,       \* Plaid Items
    Banks,       \* bank slugs
    BankOf,      \* the bank of an Item
    None,        \* no bank, or none of the supported ones
    TrialLimit,  \* TRIAL_ITEM_LIMIT
    MaxLinks,    \* bound: Link sessions open at once
    MaxVersion,  \* bound: key versions
    MaxEvents,   \* bound: things that happen at the banks, and rotations
    MaxMishaps   \* bound: crashes, provider trouble, lost or repeated calls

ASSUME BankOfAssumption == BankOf \in [Items -> Banks \cup {None}]
ASSUME ItemsAssumption == IsFiniteSet(Items) /\ None \notin Banks
ASSUME LimitsAssumption ==
    /\ TrialLimit \in Nat
    /\ MaxLinks \in Nat
    /\ MaxVersion \in Nat \ {0}
    /\ MaxEvents \in Nat
    /\ MaxMishaps \in Nat

VARIABLES
    item,      \* the provider: what has become of an Item
    mail,      \* the provider: webhooks under way
    links,     \* Link sessions that may still deliver a public token
    row,       \* BankConnection rows
    job,       \* the connection's active sync job
    pass,      \* the worker: what the provider answered to the pass
    sweep,     \* the scheduler: the stale connections it has read
    rotation,  \* the rotation: the rows it has read
    appKey,    \* key version of the running application; 0 if it is down
    envKey,    \* key version in the settings
    lost,      \* history: Items whose exchange failed after they were created
    late,      \* history: Items whose token a rotation has not seen as it is
    events,
    mishaps

provider == <<item, mail, events>>
settings == <<appKey, envKey>>
history == <<lost, late>>
vars == <<item, mail, links, row, job, pass, sweep, rotation, appKey, envKey, lost,
          late, events, mishaps>>

-----------------------------------------------------------------------------
(* State *)

\* ending: the consent is about to expire; login: the owner must sign in again.
ItemStates == {"none", "ok", "ending", "login", "gone"}

\* Classes of last_error_code, named for the set of codes each belongs to.
Errors == {"none", "login", "consent", "degraded", "other"}

\* last_successful_sync_at: null, recent, past the sweep's threshold, and past
\* the threshold for display.
Ages == {"never", "fresh", "due", "stale"}

Row == [status : {"none", "active", "removed"},
        bank   : Banks \cup {None},
        key    : 0 .. MaxVersion,   \* access_token_key_version; 0 if null
        error  : Errors,
        age    : Ages]
NoRow == [status |-> "none", bank |-> None, key |-> 0, error |-> "none",
          age |-> "never"]

\* again: running, and a newer generation has been requested.
JobStates == {"none", "queued", "running", "again"}
PassStates == {"idle", "ok", "login", "degraded", "other"}

WebhookCodes == {"data", "consent", "login"}  \* ENQUEUE_CODES, ATTENTION_CODES

TypeOK ==
    /\ item \in [Items -> ItemStates]
    /\ mail \subseteq Items \X WebhookCodes
    /\ links \in [Banks -> Nat]
    /\ row \in [Items -> Row]
    /\ job \in [Items -> JobStates]
    /\ pass \in [Items -> PassStates]
    /\ sweep \subseteq Items
    /\ rotation \subseteq Items
    /\ appKey \in 0 .. MaxVersion
    /\ envKey \in 1 .. MaxVersion
    /\ lost \subseteq Items
    /\ late \subseteq Items
    /\ events \in Nat
    /\ mishaps \in Nat

Init ==
    /\ item = [i \in Items |-> "none"]
    /\ mail = {}
    /\ links = [b \in Banks |-> 0]
    /\ row = [i \in Items |-> NoRow]
    /\ job = [i \in Items |-> "none"]
    /\ pass = [i \in Items |-> "idle"]
    /\ sweep = {}
    /\ rotation = {}
    /\ appKey = 1
    /\ envKey = 1
    /\ lost = {}
    /\ late = {}
    /\ events = 0
    /\ mishaps = 0

Up == appKey # 0
Active(i) == row[i].status = "active"
Readable(i) == row[i].key = appKey

\* _production_item_count: the owner's rows, removed ones included.
ItemCount == Cardinality({i \in Items : row[i].status # "none"})
Connected(b) == \E i \in Items : Active(i) /\ row[i].bank = b

\* enqueue_sync
Requested(state) ==
    CASE state = "none" -> "queued"
      [] state = "running" -> "again"
      [] OTHER -> state

Mishap == mishaps < MaxMishaps /\ mishaps' = mishaps + 1

-----------------------------------------------------------------------------
(* Linking *)

\* create_link_token
OpenLink(b) ==
    /\ Up
    /\ ~Connected(b)
    /\ ItemCount < TrialLimit
    /\ FoldFunction(+, 0, links) < MaxLinks
    /\ links' = [links EXCEPT ![b] = @ + 1]
    /\ UNCHANGED <<provider, row, job, pass, sweep, rotation, settings, history,
                   mishaps>>

\* Mutant: only the limit is checked again.
AdmittedByLimit(b) == ItemCount < TrialLimit

\* The two checks made before the public token is exchanged.
Admitted(b) == ~Connected(b) /\ ItemCount < TrialLimit

ExchangeRejected(b) ==
    /\ Up
    /\ links[b] > 0
    /\ ~Admitted(b)
    /\ links' = [links EXCEPT ![b] = @ - 1]
    /\ UNCHANGED <<provider, row, job, pass, sweep, rotation, settings, history,
                   mishaps>>

\* Mutant: the tombstone of a wrong bank goes with the error that is raised.
TombstoneRolledBack(b, i) == UNCHANGED row

\* A token-free row that keeps the Item counted, committed before the error.
Tombstone(b, i) ==
    row' = [row EXCEPT ![i] = [NoRow EXCEPT !.status = "removed", !.bank = b,
                                            !.error = "other"]]

\* The owner finishes a Link session opened for bank b and signs in to the bank
\* of Item i, which is created.
Exchange(b, i) ==
    /\ Up
    /\ links[b] > 0
    /\ Admitted(b)
    /\ item[i] = "none"
    /\ links' = [links EXCEPT ![b] = @ - 1]
    /\ \/ /\ BankOf[i] = b
          /\ item' = [item EXCEPT ![i] = "ok"]
          /\ row' = [row EXCEPT ![i] = [NoRow EXCEPT !.status = "active", !.bank = b,
                                                     !.key = appKey]]
          /\ job' = [job EXCEPT ![i] = "queued"]
          /\ late' = IF appKey = envKey THEN late ELSE late \cup {i}
          /\ UNCHANGED <<lost, mishaps>>
       \/ /\ BankOf[i] # b
          /\ item' = [item EXCEPT ![i] = "gone"]
          /\ Tombstone(b, i)
          /\ UNCHANGED <<job, history, mishaps>>
       \/ \* A later provider call raises, or the process ends: rolled back.
          /\ Mishap
          /\ item' = [item EXCEPT ![i] = "ok"]
          /\ lost' = lost \cup {i}
          /\ UNCHANGED <<row, job, late>>
    /\ UNCHANGED <<mail, events, pass, sweep, rotation, settings>>

\* disconnect: the provider's refusal to remove the Item is ignored; a crash
\* after it keeps the row.  The age of a removed row is not kept: nothing reads it.
Disconnect(i) ==
    /\ Up
    /\ Active(i)
    /\ Readable(i)
    /\ LET removed == [row EXCEPT ![i] = [NoRow EXCEPT !.status = "removed",
                                                       !.bank = row[i].bank]] IN
       \/ /\ item' = [item EXCEPT ![i] = "gone"]
          /\ row' = removed
          /\ UNCHANGED mishaps
       \/ Mishap /\ row' = removed /\ UNCHANGED item
       \/ Mishap /\ item' = [item EXCEPT ![i] = "gone"] /\ UNCHANGED row
    /\ UNCHANGED <<mail, events, links, job, pass, sweep, rotation, settings, history>>

-----------------------------------------------------------------------------
(* Requesting passes *)

\* trigger_sync
Sync(i) ==
    /\ Up
    /\ Active(i)
    /\ job' = [job EXCEPT ![i] = Requested(@)]
    /\ UNCHANGED <<provider, links, row, pass, sweep, rotation, settings, history,
                   mishaps>>

\* Update mode (create_update_link_token): the owner signs in again or renews
\* the consent, and the browser asks for a pass, unless it is closed.
Reconnect(i) ==
    /\ Up
    /\ Active(i)
    /\ Readable(i)
    /\ item[i] \in {"login", "ending"}
    /\ item' = [item EXCEPT ![i] = "ok"]
    /\ \/ job' = [job EXCEPT ![i] = Requested(@)] /\ UNCHANGED mishaps
       \/ Mishap /\ UNCHANGED job
    /\ UNCHANGED <<mail, events, links, row, pass, sweep, rotation, settings, history>>

\* What a webhook writes on the row: ATTENTION_CODES.
Noted(i, code) == [row EXCEPT ![i].error = IF code = "data" THEN @ ELSE code]

\* receive_plaid_webhook: a repeated delivery is handled like the first.
Webhook(i, code) ==
    /\ Up
    /\ <<i, code>> \in mail
    /\ \/ mail' = mail \ {<<i, code>>} /\ UNCHANGED mishaps
       \/ Mishap /\ UNCHANGED mail
    /\ IF Active(i)
         THEN /\ row' = Noted(i, code)
              /\ job' = [job EXCEPT ![i] = Requested(@)]
         ELSE UNCHANGED <<row, job>>
    /\ UNCHANGED <<item, events, links, pass, sweep, rotation, settings, history>>

\* Mutant: a connection that needs its owner is not queued again.
StaleUnlessFailed == {i \in Items : Active(i) /\ row[i].age # "fresh"
                                             /\ row[i].error = "none"}

\* The connections of enqueue_stale_connections.
Stale == {i \in Items : Active(i) /\ row[i].age # "fresh"}

SweepReads ==
    /\ Up
    /\ sweep = {}
    /\ Stale # {}
    /\ sweep' = Stale
    /\ UNCHANGED <<provider, links, row, job, pass, rotation, settings, history,
                   mishaps>>

\* A connection disconnected since it was read aborts the sweep, until the next.
SweepWrites ==
    /\ sweep # {}
    /\ job' = IF \A i \in sweep : Active(i)
                THEN [i \in Items |-> IF i \in sweep THEN Requested(job[i]) ELSE job[i]]
                ELSE job
    /\ sweep' = {}
    /\ UNCHANGED <<provider, links, row, pass, rotation, settings, history,
                   mishaps>>

-----------------------------------------------------------------------------
(* Passes *)

\* Mutant: the provider's word is taken for an error class.
AnswerUnclassified(i) == IF Active(i) THEN item[i] ELSE "other"

\* A token that cannot be decrypted is an unexpected exception (WORKER_ERROR).
Answer(i) ==
    CASE ~Active(i) -> "other"
      [] Active(i) /\ ~Readable(i) -> "degraded"
      [] Active(i) /\ Readable(i) /\ item[i] = "login" -> "login"
      [] Active(i) /\ Readable(i) /\ item[i] = "gone" -> "other"
      [] OTHER -> "ok"

\* The job is claimed, the connection is read and the provider is called, which
\* may have trouble of its own.
PassStarts(i) ==
    /\ Up
    /\ job[i] = "queued"
    /\ job' = [job EXCEPT ![i] = "running"]
    /\ \/ pass' = [pass EXCEPT ![i] = Answer(i)] /\ UNCHANGED mishaps
       \/ pass' = [pass EXCEPT ![i] = "degraded"] /\ Mishap
    /\ UNCHANGED <<provider, links, row, sweep, rotation, settings, history>>

\* What a successful pass writes on the row.
Applied(r) == [r EXCEPT !.age = "fresh", !.error = "none"]

\* The apply transaction.  A connection removed meanwhile loses the job.
PassSucceeds(i) ==
    /\ pass[i] = "ok"
    /\ pass' = [pass EXCEPT ![i] = "idle"]
    /\ row' = IF Active(i) THEN [row EXCEPT ![i] = Applied(@)] ELSE row
    /\ job' = [job EXCEPT ![i] = IF @ = "again" /\ Active(i) THEN "queued" ELSE "none"]
    /\ UNCHANGED <<provider, links, sweep, rotation, settings, history, mishaps>>

\* Mutant: the code of a failed pass stays in the job.
FailureUnnoted(r, code) == r

\* What a failed pass writes on the row; nothing reads it on a removed one.
Failed(r, code) == [r EXCEPT !.error = code]

\* _record_failure: retried only if transient, and not for ever.
PassFails(i) ==
    /\ pass[i] \in {"login", "degraded", "other"}
    /\ pass' = [pass EXCEPT ![i] = "idle"]
    /\ row' = IF Active(i) THEN [row EXCEPT ![i] = Failed(@, pass[i])] ELSE row
    /\ \/ job' = [job EXCEPT ![i] = "none"]
       \/ pass[i] = "degraded" /\ job' = [job EXCEPT ![i] = "queued"]
    /\ UNCHANGED <<provider, links, sweep, rotation, settings, history, mishaps>>

-----------------------------------------------------------------------------
(* The provider and the clock *)

\* Something happens at the bank; its webhook may be lost.
BankEvent(i, code) ==
    /\ item[i] \in {"ok", "ending"}
    /\ events < MaxEvents
    /\ events' = events + 1
    /\ item' = [item EXCEPT ![i] = CASE code = "data" -> @
                                     [] code = "consent" -> "ending"
                                     [] code = "login" -> "login"]
    /\ \/ mail' = mail \cup {<<i, code>>}
       \/ UNCHANGED mail
    /\ UNCHANGED <<links, row, job, pass, sweep, rotation, settings, history,
                   mishaps>>

Older(age) == CASE age = "fresh" -> "due" [] age = "due" -> "stale" [] OTHER -> age

HourPasses ==
    /\ row' = [i \in Items |-> IF Active(i) THEN [row[i] EXCEPT !.age = Older(@)]
                               ELSE row[i]]
    /\ row' # row
    /\ UNCHANGED <<provider, links, job, pass, sweep, rotation, settings, history,
                   mishaps>>

-----------------------------------------------------------------------------
(* Restarts and the rotation of the key *)

\* The process ends, in a crash or to be restarted with the new settings.  Its
\* passes are lost with their leases.
Stop ==
    /\ Up
    /\ \/ Mishap
       \/ appKey # envKey /\ UNCHANGED mishaps
    /\ appKey' = 0
    /\ pass' = [i \in Items |-> "idle"]
    /\ job' = [i \in Items |-> IF job[i] \in {"running", "again"} THEN "queued"
                               ELSE job[i]]
    /\ sweep' = {}
    /\ UNCHANGED <<provider, links, row, rotation, envKey, history>>

\* lifespan: the key comes from the settings, and a sweep starts at once.
Restart ==
    /\ ~Up
    /\ appKey' = envKey
    /\ job' = [i \in Items |-> IF i \in Stale THEN Requested(job[i]) ELSE job[i]]
    /\ UNCHANGED <<provider, links, row, pass, sweep, rotation, envKey, history,
                   mishaps>>

Stored == {i \in Items : row[i].key # 0}

\* rotate_token_encryption_key: its query, if there is a token to rotate, and no
\* token of another key than the current one, which would abort it.  Nothing asks
\* whether the application is running.
RotationReads ==
    /\ rotation = {}
    /\ envKey < MaxVersion
    /\ Stored # {}
    /\ \A i \in Stored : row[i].key = envKey
    /\ rotation' = Stored
    /\ events < MaxEvents
    /\ events' = events + 1
    /\ UNCHANGED <<item, mail, links, row, job, pass, sweep, settings, history,
                   mishaps>>

\* Mutant: the rows before one that fails to decrypt stay written.
RotatedSome(rows) ==
    \E some \in SUBSET rows :
        row' = [i \in Items |-> IF i \in some THEN [row[i] EXCEPT !.key = envKey + 1]
                                ELSE row[i]]

\* One transaction: every row that was read gets the new key, and a token if it
\* has none any more.
Rotated(rows) ==
    row' = [i \in Items |-> IF i \in rows THEN [row[i] EXCEPT !.key = envKey + 1]
                            ELSE row[i]]

\* Its update, by primary key, and the new settings; or it fails and changes
\* nothing.  Tokens written or cleared since they were read are late.
RotationWrites ==
    /\ rotation # {}
    /\ rotation' = {}
    /\ \/ /\ Rotated(rotation)
          /\ envKey' = envKey + 1
          /\ late' = late \cup (Stored \ rotation) \cup (rotation \ Stored)
          /\ UNCHANGED mishaps
       \/ Mishap /\ UNCHANGED <<row, envKey, late>>
    /\ UNCHANGED <<provider, links, job, pass, sweep, appKey, lost>>

-----------------------------------------------------------------------------

Next ==
    \/ \E b \in Banks : OpenLink(b) \/ ExchangeRejected(b)
    \/ \E b \in Banks, i \in Items : Exchange(b, i)
    \/ \E i \in Items : Disconnect(i) \/ Sync(i) \/ Reconnect(i)
    \/ \E i \in Items, code \in WebhookCodes : Webhook(i, code) \/ BankEvent(i, code)
    \/ SweepReads \/ SweepWrites \/ HourPasses
    \/ \E i \in Items :
          PassStarts(i) \/ PassSucceeds(i) \/ PassFails(i)
    \/ Stop \/ Restart \/ RotationReads \/ RotationWrites

Spec == Init /\ [][Next]_vars

\* The loops of the application run, it is started again, as it is after a
\* rotation (docs/operations.md), and time passes.
Fairness ==
    /\ WF_vars(SweepReads)
    /\ WF_vars(SweepWrites)
    /\ WF_vars(HourPasses)
    /\ WF_vars(appKey # envKey /\ Stop)
    /\ WF_vars(Restart)
    /\ WF_vars(RotationWrites)
    /\ \A i \in Items :
          /\ WF_vars(PassStarts(i))
          /\ WF_vars(PassSucceeds(i) \/ PassFails(i))

FairSpec == Spec /\ Fairness

-----------------------------------------------------------------------------
(* Properties *)

\* classify_connection_health, in its order of precedence.
Health(i) ==
    IF ~Active(i) THEN "disconnected"
    ELSE CASE row[i].error = "login" -> "needs_reconnect"
           [] row[i].error = "consent" -> "consent_expired"
           [] row[i].error = "degraded" -> "provider_degraded"
           [] row[i].error \in {"none", "other"} /\ job[i] # "none" -> "syncing"
           [] row[i].error \in {"none", "other"} /\ job[i] = "none"
                 /\ row[i].age \in {"never", "stale"} -> "stale"
           [] OTHER -> "ready"

\* Every Item the provider has created for the owner is counted, for ever, so
\* the Trial limit is never passed, whatever Link sessions are open at once,
\* wrong banks are signed in to and banks are disconnected; except an Item whose
\* exchange failed after the provider had created it.
Created == {i \in Items : item[i] # "none"} \ lost
SlotsCounted ==
    /\ \A i \in Created : row[i].status # "none"
    /\ Cardinality(Created) <= TrialLimit

\* A bank is connected at most once, and under the bank that was chosen.
OneConnectionPerBank ==
    /\ \A i, j \in Items : Active(i) /\ Active(j) /\ row[i].bank = row[j].bank => i = j
    /\ \A i \in Items : Active(i) => row[i].bank = BankOf[i]

\* The application that runs with the key of the settings can decrypt the token
\* of every connection, and a removed connection holds none, through restarts,
\* rotations while it runs and rotations that fail.  Late, and excepted, are the
\* tokens that the application wrote or cleared between a rotation's read and the
\* restart with the new key: the rotation does not notice them.
TokensUsable ==
    \A i \in Items \ late :
        /\ row[i].status = "removed" => row[i].key = 0
        /\ Active(i) /\ Up /\ appKey = envKey => Readable(i)

\* A bank that needs the owner to sign in comes to be shown so, though the
\* webhook is lost and a pass that began before succeeds after it; and once the
\* owner has, it ceases to be.  A token that a rotation has missed is never read
\* again.
ConnectionsTo(b) == {i \in Items : Active(i) /\ row[i].bank = b}
BrokenLinkShown ==
    \A b \in Banks :
        (\E i \in ConnectionsTo(b) : item[i] = "login")
            ~> \A i \in ConnectionsTo(b) \ late :
                   item[i] = "login" => Health(i) = "needs_reconnect"
RepairShown ==
    \A b \in Banks :
        (\E i \in ConnectionsTo(b) : item[i] = "ok")
            ~> \A i \in ConnectionsTo(b) \ late :
                   item[i] = "ok" => Health(i) \in {"ready", "syncing"}

=============================================================================
