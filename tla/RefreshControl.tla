--------------------------- MODULE RefreshControl ---------------------------
(***************************************************************************)
(* The refresh button: the hook useTransactionRefresh of one dashboard     *)
(* page, the registry of runs and idempotency keys it talks to, and the    *)
(* network between them.  A run is only active or final here; what happens *)
(* to its targets in between is SyncWorker's.                              *)
(*                                                                         *)
(* A request to the server is one transaction, atomic because the database *)
(* has one writer (create_or_coalesce begins with a write).  A poll is     *)
(* answered in one step: an answer that comes after anything else the page *)
(* did to its run is cancelled.  The other answers take two steps, so that *)
(* they may arrive late; any call may be lost, before or after the server  *)
(* has acted on it.                                                        *)
(*                                                                         *)
(* Other tabs of the owner start runs with keys of their own.  Leaving the *)
(* dashboard and coming back keeps only the query cache.                   *)
(***************************************************************************)
EXTENDS Naturals, FiniteSets

CONSTANTS
    Runs,        \* refresh ids, numbered in the order of their creation
    Keys,        \* idempotency keys, numbered likewise
    None,        \* no run, no key
    Retention,   \* REFRESH_RETENTION_DAYS
    Limit,       \* foregroundLimitMs, in ticks of the page's clock
    Losses,      \* the calls that may be lost: "post", "poll", "ask", "active"
    MaxAsks,     \* bound: uncancelled fetches in flight
    MaxMishaps   \* bound: lost calls, and times the page is left

ASSUME IdsAssumption == Runs \subseteq Nat /\ Keys \subseteq Nat
ASSUME NoneAssumption == None \notin Runs \cup Keys
ASSUME LimitsAssumption ==
    /\ Retention \in Nat \ {0}
    /\ Limit \in Nat \ {0}
    /\ MaxAsks \in Nat
    /\ MaxMishaps \in Nat

VARIABLES
    run,       \* TransactionRefresh rows
    request,   \* TransactionRefreshRequest rows
    page,      \* the hook's state and refs that follow the run
    key,       \* idempotencyKeyRef
    post,      \* the page's POST; startingRef is set while there is one
    asks,      \* uncancelled fetches of the known run
    active,    \* activeQuery: what it last returned
    probe,     \* activeQuery: the fetch in flight
    online,
    visible,
    used,      \* history: who generated a key, and whether it was answered
    told,      \* history: which key was answered with which run
    mishaps

registry == <<run, request>>
environment == <<online, visible>>
history == <<used, told>>
vars == <<run, request, page, key, post, asks, active, probe, online, visible,
          used, told, mishaps>>

-----------------------------------------------------------------------------
(* State *)

RunStates == {"absent", "active", "final", "deleted"}
Days == 0 .. Retention

\* days: how far expires_at is; 0 once it has passed.
RunRow == [state : RunStates, days : Days]
Request == [run : Runs \cup {None}, days : Days]
NoRequest == [run |-> None, days |-> 0]

\* A run as an answer shows it.
View == [run : Runs, active : BOOLEAN]
NoView == [run |-> None, active |-> FALSE]
Views == View \cup {NoView}

Ticks == 0 .. Limit

\* since: the age of pollingStartedAtRef, which is unset until a run is shown.
\* pollSince: the age of the startedAt that the polling effect captured.
\* stranded: history: a recovery's fetch was lost while no timer was set, and the
\* polling effect has not run since.
Page == [shown     : Views,
         since     : Ticks,
         timedOut  : BOOLEAN,
         poll      : {"off", "timer", "fetch"},
         pollSince : Ticks,
         noticed   : SUBSET Runs,
         resets    : [Runs -> 0 .. 2],
         stranded  : BOOLEAN]

NewPage == [shown |-> NoView, since |-> 0, timedOut |-> FALSE, poll |-> "off",
            pollSince |-> 0, noticed |-> {}, resets |-> [r \in Runs |-> 0],
            stranded |-> FALSE]

Answers == {"refused", "conflict"}
Post == [pc : {"none", "sent", "run", "refused", "conflict"}, view : Views]
NoPost == [pc |-> "none", view |-> NoView]

\* A fetch whose answer has not been read, or a read one.
Pending(r) == [run |-> r, active |-> TRUE, read |-> FALSE]
Ask == [run : Runs, active : BOOLEAN, read : BOOLEAN]

Probe == [pc : {"none", "sent", "read"}, view : Views]
NoProbe == [pc |-> "none", view |-> NoView]

TypeOK ==
    /\ run \in [Runs -> RunRow]
    /\ request \in [Keys -> Request]
    /\ page \in Page
    /\ key \in Keys \cup {None}
    /\ post \in Post
    /\ asks \subseteq Ask
    /\ active \in Views
    /\ probe \in Probe
    /\ online \in BOOLEAN
    /\ visible \in BOOLEAN
    /\ used \in [Keys -> {"no", "here", "answered", "elsewhere"}]
    /\ told \in SUBSET (Keys \X Runs)
    /\ mishaps \in Nat

\* The page is opened for the first time: the active run is asked for.
Init ==
    /\ run = [r \in Runs |-> [state |-> "absent", days |-> 0]]
    /\ request = [k \in Keys |-> NoRequest]
    /\ page = NewPage
    /\ key = None
    /\ post = NoPost
    /\ asks = {}
    /\ active = NoView
    /\ probe = [NoProbe EXCEPT !.pc = "sent"]
    /\ online = TRUE
    /\ visible = TRUE
    /\ used = [k \in Keys |-> "no"]
    /\ told = {}
    /\ mishaps = 0

-----------------------------------------------------------------------------
(* The registry *)

ActiveRuns == {r \in Runs : run[r].state = "active"}
ViewOf(r) == [run |-> r, active |-> run[r].state = "active"]

\* get_owned: an expired run is not found, whatever its state.
Found(r) == run[r].state \in {"active", "final"} /\ run[r].days > 0

\* active_for_owner
ActiveView == IF ActiveRuns = {} THEN NoView
              ELSE ViewOf(CHOOSE r \in ActiveRuns : TRUE)

\* Mutant: the key is not looked up before the active run.
NeverMapped(k) == FALSE

\* The mapping of a key, found while it is retained.
Mapped(k) == request[k].run # None /\ request[k].days > 0

\* The row of a key that has expired still occupies the unique index.
Occupied(k) == request[k].run # None /\ request[k].days = 0

\* Mutant: the day a row is made is not counted.
LifetimeFromTomorrow == Retention + 1

\* Days until expires_at of a new row.
Lifetime == Retention

Map(k, r) ==
    /\ request' = [request EXCEPT ![k] = [run |-> r, days |-> Lifetime]]
    /\ told' = told \cup {<<k, r>>}

NextRun(r) ==
    run[r].state = "absent" /\ \A q \in Runs : q < r => run[q].state # "absent"
NextKey(k) ==
    used[k] = "no" /\ \A j \in Keys : j < k => used[j] # "no"

Replay(k, answer) ==
    /\ Mapped(k)
    /\ answer = [pc |-> "run", view |-> ViewOf(request[k].run)]
    /\ told' = told \cup {<<k, request[k].run>>}
    /\ UNCHANGED registry

Coalesce(k, answer) ==
    /\ ~Mapped(k) /\ ~Occupied(k)
    /\ \E r \in ActiveRuns :
          /\ Map(k, r)
          /\ answer = [pc |-> "run", view |-> ViewOf(r)]
    /\ UNCHANGED run

Create(k, answer) ==
    /\ ~Mapped(k) /\ ~Occupied(k)
    /\ ActiveRuns = {}
    /\ \E r \in Runs :
          /\ NextRun(r)
          /\ run' = [run EXCEPT ![r] = [state |-> "active", days |-> Lifetime]]
          /\ Map(k, r)
          /\ answer = [pc |-> "run", view |-> [run |-> r, active |-> TRUE]]

\* NO_ACTIVE_CONNECTIONS, or the unique index refuses the key: rolled back.
CreateFails(k, answer) ==
    /\ ~Mapped(k)
    /\ \/ ActiveRuns = {} /\ answer = [pc |-> "refused", view |-> NoView]
       \/ Occupied(k) /\ answer = [pc |-> "conflict", view |-> NoView]
    /\ UNCHANGED <<registry, told>>

\* create_or_coalesce and the response to it.
CreateOrCoalesce(k, answer) ==
    \/ Replay(k, answer)
    \/ Coalesce(k, answer)
    \/ Create(k, answer)
    \/ CreateFails(k, answer)

\* The last target of a run is completed (SyncWorker).
RunEnds(r) ==
    /\ run[r].state = "active"
    /\ run' = [run EXCEPT ![r].state = "final"]
    /\ UNCHANGED <<request, page, key, post, asks, active, probe, environment,
                   history, mishaps>>

\* Another tab, or an earlier visit of this one, activates the button; its answer
\* is not this page's.
OtherTab(k) ==
    /\ NextKey(k)
    /\ used' = [used EXCEPT ![k] = "elsewhere"]
    /\ \E answer \in Post : CreateOrCoalesce(k, answer)
    /\ UNCHANGED <<page, key, post, asks, active, probe, environment, mishaps>>

Removable == {r \in Runs : run[r].state = "final" /\ run[r].days = 0}

\* cleanup_expired: one batch of expired runs, with the keys mapped to them.
Cleanup ==
    /\ Removable # {}
    /\ run' = [r \in Runs |->
                  IF r \in Removable THEN [run[r] EXCEPT !.state = "deleted"]
                  ELSE run[r]]
    /\ request' = [k \in Keys |->
                      IF request[k].run \in Removable THEN NoRequest ELSE request[k]]
    /\ UNCHANGED <<page, key, post, asks, active, probe, environment, history,
                   mishaps>>

-----------------------------------------------------------------------------
(* The hook's effects *)

\* The polling effect: cleaned up and run again.
Repolled(p, on, vis) ==
    LET wanted == p.shown.active /\ on /\ vis /\ ~p.timedOut IN
    [p EXCEPT !.poll = IF wanted /\ p.since < Limit THEN "timer" ELSE "off",
              !.pollSince = IF wanted /\ p.since < Limit THEN p.since ELSE 0,
              !.timedOut = @ \/ (wanted /\ p.since >= Limit),
              !.stranded = FALSE]

\* Mutant: the end of a run is handled every time it is shown.
NoticedAgain(p) ==
    IF p.shown = NoView \/ p.shown.active THEN p
    ELSE LET r == p.shown.run IN
         [p EXCEPT !.noticed = @ \cup {r},
                   !.resets[r] = IF @ < 2 THEN @ + 1 ELSE @]

\* The terminal effect: onTerminal and the invalidations, once for a run.
Noticed(p) ==
    IF p.shown = NoView \/ p.shown.active \/ p.shown.run \in p.noticed THEN p
    ELSE LET r == p.shown.run IN
         [p EXCEPT !.noticed = @ \cup {r},
                   !.resets[r] = IF @ < 2 THEN @ + 1 ELSE @]

\* setRun, and the effects that depend on run.
Rendered(p, view) == Noticed(Repolled([p EXCEPT !.shown = view], online, visible))

\* The foreground limit starts anew.  The polling effect follows timedOut, so it
\* runs again only if the page p had timed out before.
Renewed(p, wasTimedOut) ==
    LET fresh == [p EXCEPT !.since = 0, !.timedOut = FALSE, !.stranded = FALSE] IN
    IF wasTimedOut THEN Repolled(fresh, TRUE, visible) ELSE fresh

-----------------------------------------------------------------------------
(* Activating the button *)

Mishap == mishaps < MaxMishaps /\ mishaps' = mishaps + 1

\* A call or its answer is lost.
Lost(call) == call \in Losses /\ Mishap

\* start
Start ==
    /\ online
    /\ post = NoPost
    /\ ~page.shown.active
    /\ \/ key # None /\ UNCHANGED <<key, used>>
       \/ /\ key = None
          /\ \E k \in Keys :
                /\ NextKey(k)
                /\ key' = k
                /\ used' = [used EXCEPT ![k] = "here"]
    /\ post' = [NoPost EXCEPT !.pc = "sent"]
    /\ UNCHANGED <<registry, page, asks, active, probe, environment, told, mishaps>>

HandlePost ==
    /\ post.pc = "sent"
    /\ \E answer \in Post : CreateOrCoalesce(key, answer) /\ post' = answer
    /\ UNCHANGED <<page, key, asks, active, probe, environment, used, mishaps>>

\* onSuccess
Started ==
    /\ post.pc = "run"
    /\ key' = None
    /\ used' = [used EXCEPT ![key] = "answered"]
    /\ page' = Rendered([page EXCEPT !.since = 0, !.timedOut = FALSE], post.view)
    /\ post' = NoPost
    /\ UNCHANGED <<registry, asks, active, probe, environment, told, mishaps>>

\* Mutant: the key is given up after any error.
AlwaysForgotten(pc) == None

\* onError: the key is kept unless the server refused the request.
KeyAfter(pc) == IF pc = "refused" THEN None ELSE key

\* onError with an answer, or without one: the call or its answer is lost.
StartFails ==
    /\ \/ /\ post.pc \in Answers
          /\ UNCHANGED mishaps
       \/ post.pc \in {"sent", "run"} /\ Lost("post")
    /\ key' = KeyAfter(post.pc)
    /\ post' = NoPost
    /\ UNCHANGED <<registry, page, asks, active, probe, environment, history>>

-----------------------------------------------------------------------------
(* Polling *)

\* The timer of the polling effect.
PollFires ==
    /\ page.poll = "timer"
    /\ page' = IF page.pollSince >= Limit
                 THEN Repolled([page EXCEPT !.timedOut = TRUE], online, visible)
                 ELSE [page EXCEPT !.poll = "fetch"]
    /\ UNCHANGED <<registry, key, post, asks, active, probe, environment, history,
                   mishaps>>

PollAnswered ==
    /\ page.poll = "fetch"
    /\ Found(page.shown.run)
    /\ page' = Rendered(page, ViewOf(page.shown.run))
    /\ UNCHANGED <<registry, key, post, asks, active, probe, environment, history,
                   mishaps>>

\* Mutant: a failed poll is not followed by another.
PollDropped == [page EXCEPT !.poll = "off"]

\* A failed poll renders a copy of the run, which starts the effect again.
PollAgain == Rendered(page, page.shown)

\* The run is not found, or the call is lost.
PollFails ==
    /\ page.poll = "fetch"
    /\ \/ ~Found(page.shown.run) /\ UNCHANGED mishaps
       \/ Lost("poll")
    /\ page' = PollAgain
    /\ UNCHANGED <<registry, key, post, asks, active, probe, environment, history>>

\* Time passes, while a run is shown or was.
Tick ==
    /\ page.shown # NoView
    /\ page.since < Limit \/ (page.poll # "off" /\ page.pollSince < Limit)
    /\ page' = [page EXCEPT
                   !.since = IF @ < Limit THEN @ + 1 ELSE @,
                   !.pollSince = IF page.poll # "off" /\ @ < Limit THEN @ + 1 ELSE @]
    /\ UNCHANGED <<registry, key, post, asks, active, probe, environment, history,
                   mishaps>>

-----------------------------------------------------------------------------
(* Recovering what is shown *)

Asked(r) ==
    /\ Cardinality(asks) < MaxAsks
    /\ asks' = asks \cup {Pending(r)}
Refetched == probe' = IF probe.pc = "none" THEN [NoProbe EXCEPT !.pc = "sent"]
                      ELSE probe

\* recover, on a focus event.
Focus ==
    /\ online
    /\ \/ /\ page.shown.active
          /\ page' = Renewed(page, page.timedOut)
          /\ Asked(page.shown.run)
          /\ UNCHANGED probe
       \/ /\ ~page.shown.active
          /\ Refetched
          /\ UNCHANGED <<page, asks>>
    /\ UNCHANGED <<registry, key, post, active, environment, history, mishaps>>

\* visibilitychange: the polling effect is cleaned up, or started.
SetVisible(v) ==
    /\ visible # v
    /\ visible' = v
    /\ page' = Repolled(page, online, v)
    /\ UNCHANGED <<registry, key, post, asks, active, probe, online, history, mishaps>>

GoOffline ==
    /\ online
    /\ online' = FALSE
    /\ page' = Repolled(page, FALSE, visible)
    /\ UNCHANGED <<registry, key, post, asks, active, probe, visible, history, mishaps>>

\* The effect on becoming online and the query's own refetch.  The polling effect
\* runs before it; if that finds the limit passed, it leaves the timer unset and
\* sets timedOut, which is set back before anything is rendered.
GoOnline ==
    /\ ~online
    /\ online' = TRUE
    /\ LET polled == Repolled(page, TRUE, visible) IN
       IF page.shown.active
         THEN Asked(page.shown.run) /\ page' = Renewed(polled, page.timedOut)
         ELSE page' = polled /\ UNCHANGED asks
    /\ Refetched
    /\ UNCHANGED <<registry, key, post, active, visible, history, mishaps>>

ReadAsk(a) ==
    /\ ~a.read
    /\ asks' = (asks \ {a}) \cup
               IF Found(a.run)
                 THEN {[run |-> a.run, active |-> ViewOf(a.run).active, read |-> TRUE]}
                 ELSE {}
    /\ UNCHANGED <<registry, page, key, post, active, probe, environment, history,
                   mishaps>>

\* then(setRun): nothing cancels it.
AskAnswered(a) ==
    /\ a.read
    /\ asks' = asks \ {a}
    /\ page' = Rendered(page, [run |-> a.run, active |-> a.active])
    /\ UNCHANGED <<registry, key, post, active, probe, environment, history, mishaps>>

ReadActive ==
    /\ probe.pc = "sent"
    /\ probe' = [pc |-> "read", view |-> ActiveView]
    /\ UNCHANGED <<registry, page, key, post, asks, active, environment, history,
                   mishaps>>

\* The query's data is adopted while no run is known.
ActiveAnswered ==
    /\ probe.pc = "read"
    /\ probe' = NoProbe
    /\ active' = probe.view
    /\ page' = IF probe.view # NoView /\ page.shown = NoView
                 THEN Rendered(page, probe.view) ELSE page
    /\ UNCHANGED <<registry, key, post, asks, environment, history, mishaps>>

\* A fetch of the known run, or the query's: when it fails, the error is dropped.
\* Without a timer and another fetch, nothing is left that would show the end.
FetchFails ==
    /\ \/ /\ Lost("ask")
          /\ \E a \in asks : asks' = asks \ {a}
          /\ page' = [page EXCEPT !.stranded = @ \/ (page.poll = "off" /\ asks' = {})]
          /\ UNCHANGED probe
       \/ /\ Lost("active")
          /\ probe # NoProbe
          /\ probe' = NoProbe
          /\ UNCHANGED <<page, asks>>
    /\ UNCHANGED <<registry, key, post, active, environment, history>>

\* The dashboard is left and opened again: state and refs are new, answers that
\* are under way go nowhere, and the query starts from what it has cached.
Remount ==
    /\ Mishap
    /\ page' = IF active = NoView THEN NewPage ELSE Rendered(NewPage, active)
    /\ key' = None
    /\ post' = NoPost
    /\ asks' = {}
    /\ probe' = [NoProbe EXCEPT !.pc = "sent"]
    /\ used' = [k \in Keys |-> IF used[k] = "here" THEN "elsewhere" ELSE used[k]]
    /\ UNCHANGED <<registry, active, environment, told>>

\* A day passes: no call takes that long, and the page's clock has run out.
Day ==
    /\ \/ \E r \in Runs : run[r].days > 0
       \/ \E k \in Keys : request[k].days > 0
    /\ post = NoPost /\ asks = {} /\ probe = NoProbe /\ page.poll # "fetch"
    /\ run' = [r \in Runs |->
                  [run[r] EXCEPT !.days = IF @ > 0 THEN @ - 1 ELSE @]]
    /\ request' = [k \in Keys |->
                      [request[k] EXCEPT !.days = IF @ > 0 THEN @ - 1 ELSE @]]
    /\ page' = [page EXCEPT
                   !.since = IF page.shown = NoView THEN 0 ELSE Limit,
                   !.pollSince = IF page.poll = "off" THEN 0 ELSE Limit]
    /\ UNCHANGED <<key, post, asks, active, probe, environment, history, mishaps>>

-----------------------------------------------------------------------------

Next ==
    \/ \E r \in Runs : RunEnds(r)
    \/ \E k \in Keys : OtherTab(k)
    \/ Cleanup \/ Day
    \/ Start \/ HandlePost \/ Started \/ StartFails
    \/ PollFires \/ PollAnswered \/ PollFails \/ Tick
    \/ Focus \/ GoOffline \/ GoOnline
    \/ \E v \in BOOLEAN : SetVisible(v)
    \/ \E a \in asks : ReadAsk(a) \/ AskAnswered(a)
    \/ ReadActive \/ ActiveAnswered \/ FetchFails
    \/ Remount

Spec == Init /\ [][Next]_vars

\* Timers fire, calls return, clocks run, and workers end the runs.
Fairness ==
    /\ WF_vars(PollFires)
    /\ WF_vars(PollAnswered \/ PollFails)
    /\ WF_vars(Tick)
    /\ WF_vars(\E a \in asks : ReadAsk(a))
    /\ WF_vars(\E a \in asks : AskAnswered(a))
    /\ \A r \in Runs : WF_vars(RunEnds(r))

FairSpec == Spec /\ Fairness

-----------------------------------------------------------------------------
(* Properties *)

\* An owner never has two active runs, and a key is never answered with two
\* runs unless the first has been deleted, however often a lost POST is
\* repeated, from how many tabs, and when runs expire.
Retained(k) == {r \in Runs : <<k, r>> \in told /\ run[r].state # "deleted"}
KeyNamesOneRun ==
    /\ Cardinality(ActiveRuns) <= 1
    /\ \A k \in Keys : Cardinality(Retained(k)) <= 1

\* A key that the registry remembers and whose answer the page has not had is
\* the key it will send again: pressing the button after a lost answer does not
\* check the banks twice.
UnansweredKeyHeld ==
    \A k \in Keys : used[k] = "here" /\ Mapped(k) => key = k

\* The end of a run resets the page's rows once: not missed when it is shown,
\* and not repeated by a late answer that shows the run again.
EndNoticedOnce ==
    /\ \A r \in Runs : page.resets[r] <= 1
    /\ page.shown # NoView /\ ~page.shown.active => page.resets[page.shown.run] = 1

\* A run shown as active, of which the page does not say that its check goes on
\* in the background.  While the page is offline or hidden nothing is promised,
\* nor of a run that has expired.
Unsettled ==
    page.shown.active /\ ~page.timedOut /\ online /\ visible /\ Found(page.shown.run)

\* A run shown as active is shown to have ended, or the page says that the check
\* continues in the background; polling neither stops before nor goes on
\* forever, whichever calls are lost.  The one way out is that the only fetch of
\* a recovery was lost with no timer set (for that see SettledOrInBackground).
\* About the polling effect, its failed polls and the recoveries.
ShownRunSettles == Unsettled ~> (~Unsettled \/ page.stranded)

\* docs/features/refresh-transactions/PRD.md, RT-UX-007: "A refresh run that
\* outlives 90 seconds of foreground polling shall continue in the background
\* without indefinite browser polling."  A run that is shown as active and not
\* as continuing in the background is one or the other in the end.  About the
\* recoveries, which drop the error of their only fetch.
SettledOrInBackground == Unsettled ~> ~Unsettled

=============================================================================
