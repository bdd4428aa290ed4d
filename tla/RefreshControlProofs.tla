------------------------ MODULE RefreshControlProofs ------------------------
(***************************************************************************)
(* Proofs about RefreshControl, for any numbers of runs and keys, any      *)
(* retention and any loss of calls.                                        *)
(***************************************************************************)
EXTENDS RefreshControl, FiniteSetTheorems, TLAPS

-----------------------------------------------------------------------------
(* What the helpers return *)

LEMMA ViewsType ==
    /\ NoView \in Views
    /\ \A v \in Views : v.active => v \in View /\ v.run \in Runs
    /\ \A v \in Views : v # NoView => v \in View /\ v.run \in Runs
    /\ \A r \in Runs, b \in BOOLEAN : [run |-> r, active |-> b] \in Views \ {NoView}
  BY NoneAssumption DEF Views, View, NoView

LEMMA ViewOfType == ASSUME NEW r \in Runs PROVE ViewOf(r) \in Views \ {NoView}
  BY ViewsType DEF ViewOf

LEMMA ActiveViewType == ActiveView \in Views
<1>1. CASE ActiveRuns = {}
  BY <1>1, ViewsType DEF ActiveView
<1>2. CASE ActiveRuns # {}
  <2>1. (CHOOSE r \in ActiveRuns : TRUE) \in Runs
    BY <1>2 DEF ActiveRuns
  <2> QED BY <1>2, <2>1, ViewOfType DEF ActiveView
<1> QED BY <1>1, <1>2

\* The parts of the page that follow the end of a run.
SameEnds(p, q) == p.noticed = q.noticed /\ p.resets = q.resets

\* A page and its clocks, flags and polling.
With(p, since, timedOut, poll, pollSince, stranded) ==
    [shown |-> p.shown, since |-> since, timedOut |-> timedOut, poll |-> poll,
     pollSince |-> pollSince, noticed |-> p.noticed, resets |-> p.resets,
     stranded |-> stranded]

LEMMA SinceTimedOut ==
    ASSUME NEW p \in Page, NEW since, NEW timedOut
    PROVE  [p EXCEPT !.since = since, !.timedOut = timedOut]
             = With(p, since, timedOut, p.poll, p.pollSince, p.stranded)
<1>1. SUFFICES ASSUME NEW q, q = [p EXCEPT !.since = since, !.timedOut = timedOut]
               PROVE  q = With(p, since, timedOut, p.poll, p.pollSince, p.stranded)
  OBVIOUS
<1> QED BY <1>1, Zenon DEF Page, With

LEMMA FreshPage ==
    ASSUME NEW p \in Page
    PROVE  [p EXCEPT !.since = 0, !.timedOut = FALSE, !.stranded = FALSE]
             = With(p, 0, FALSE, p.poll, p.pollSince, FALSE)
<1>1. SUFFICES ASSUME NEW q,
                      q = [p EXCEPT !.since = 0, !.timedOut = FALSE,
                                    !.stranded = FALSE]
               PROVE  q = With(p, 0, FALSE, p.poll, p.pollSince, FALSE)
  OBVIOUS
<1> QED BY <1>1, Zenon DEF Page, With

LEMMA SincePollSince ==
    ASSUME NEW p \in Page, NEW since, NEW pollSince
    PROVE  [p EXCEPT !.since = since, !.pollSince = pollSince]
             = With(p, since, p.timedOut, p.poll, pollSince, p.stranded)
<1>1. SUFFICES ASSUME NEW q, q = [p EXCEPT !.since = since, !.pollSince = pollSince]
               PROVE  q = With(p, since, p.timedOut, p.poll, pollSince, p.stranded)
  OBVIOUS
<1> QED BY <1>1, Zenon DEF Page, With

LEMMA RepolledPage ==
    ASSUME NEW p \in Page, NEW on \in BOOLEAN, NEW vis \in BOOLEAN
    PROVE  /\ Repolled(p, on, vis) \in Page
           /\ Repolled(p, on, vis).shown = p.shown
           /\ Repolled(p, on, vis).poll # "off" => p.shown.active
           /\ SameEnds(Repolled(p, on, vis), p)
<1> DEFINE wanted == p.shown.active /\ on /\ vis /\ ~p.timedOut
           polled == wanted /\ p.since < Limit
           poll == IF polled THEN "timer" ELSE "off"
           since == IF polled THEN p.since ELSE 0
           timedOut == p.timedOut \/ (wanted /\ p.since >= Limit)
<1>1. Repolled(p, on, vis) =
        [p EXCEPT !.poll = poll, !.pollSince = since, !.timedOut = timedOut,
                  !.stranded = FALSE]
  BY DEF Repolled
<1>5. Repolled(p, on, vis) = With(p, p.since, timedOut, poll, since, FALSE)
  <2> DEFINE q == Repolled(p, on, vis)
  <2>1. q = [p EXCEPT !.poll = poll, !.pollSince = since, !.timedOut = timedOut,
                      !.stranded = FALSE]
    BY <1>1
  <2> HIDE DEF q, wanted, polled, poll, since, timedOut
  <2>2. q = With(p, p.since, timedOut, poll, since, FALSE)
    BY <2>1, Zenon DEF Page, With
  <2> QED BY <2>2 DEF q
<1>2. poll \in {"off", "timer", "fetch"} /\ (poll # "off" => p.shown.active)
  OBVIOUS
<1>3. since \in Ticks
  BY LimitsAssumption DEF Page, Ticks
<1>4. timedOut \in BOOLEAN
  BY DEF Page
<1> HIDE DEF wanted, polled, poll, since, timedOut
<1>6. p.since \in Ticks
  BY DEF Page
<1> QED BY <1>2, <1>3, <1>4, <1>5, <1>6 DEF With, Page, SameEnds

LEMMA NoticedPage ==
    ASSUME NEW p \in Page
    PROVE  /\ Noticed(p) \in Page
           /\ Noticed(p).shown = p.shown
           /\ Noticed(p).poll = p.poll
<1>1. CASE p.shown = NoView \/ p.shown.active \/ p.shown.run \in p.noticed
  BY <1>1 DEF Noticed
<1>2. CASE ~(p.shown = NoView \/ p.shown.active \/ p.shown.run \in p.noticed)
  <2> DEFINE r == p.shown.run
             noticed == p.noticed \cup {r}
             resets == [p.resets EXCEPT ![r] = IF @ < 2 THEN @ + 1 ELSE @]
  <2>1. r \in Runs
    BY <1>2, ViewsType DEF Page
  <2>2. noticed \in SUBSET Runs /\ resets \in [Runs -> 0 .. 2]
    BY <2>1 DEF Page
  <2>3. Noticed(p) =
          [shown |-> p.shown, since |-> p.since, timedOut |-> p.timedOut,
           poll |-> p.poll, pollSince |-> p.pollSince, noticed |-> noticed,
           resets |-> resets, stranded |-> p.stranded]
    BY <1>2 DEF Noticed, Page
  <2> HIDE DEF noticed, resets
  <2> QED BY <2>2, <2>3 DEF Page
<1> QED BY <1>1, <1>2

LEMMA RenderedPage ==
    ASSUME TypeOK, NEW p \in Page, NEW view \in Views
    PROVE  /\ Rendered(p, view) \in Page
           /\ Rendered(p, view).shown = view
           /\ Rendered(p, view).poll # "off" => view.active
<1> DEFINE q == [p EXCEPT !.shown = view]
<1>1. q \in Page /\ q.shown = view
  BY DEF Page
<1>2. Rendered(p, view) = Noticed(Repolled(q, online, visible))
  BY DEF Rendered
<1> HIDE DEF q
<1> QED BY SMTT(20), <1>1, <1>2, RepolledPage, NoticedPage DEF TypeOK

LEMMA RenewedPage ==
    ASSUME TypeOK, NEW p \in Page, NEW was \in BOOLEAN
    PROVE  /\ Renewed(p, was) \in Page
           /\ Renewed(p, was).shown = p.shown
           /\ Renewed(p, was).poll # "off" => p.poll # "off" \/ p.shown.active
           /\ SameEnds(Renewed(p, was), p)
<1> DEFINE q == [p EXCEPT !.since = 0, !.timedOut = FALSE, !.stranded = FALSE]
<1>1. q \in Page /\ q.shown = p.shown /\ q.poll = p.poll /\ SameEnds(q, p)
  <2>1. 0 \in Ticks
    BY LimitsAssumption DEF Ticks
  <2>2. q = With(p, 0, FALSE, p.poll, p.pollSince, FALSE)
    BY FreshPage
  <2>3. p.poll \in {"off", "timer", "fetch"} /\ p.pollSince \in Ticks
    BY DEF Page
  <2> QED BY <2>1, <2>2, <2>3 DEF With, Page, SameEnds
<1>2. Renewed(p, was) = IF was THEN Repolled(q, TRUE, visible) ELSE q
  BY DEF Renewed
<1> HIDE DEF q
<1>3. CASE was
  <2>1. visible \in BOOLEAN /\ TRUE \in BOOLEAN
    BY DEF TypeOK
  <2>2. Renewed(p, was) = Repolled(q, TRUE, visible)
    BY <1>2, <1>3
  <2>3. /\ Repolled(q, TRUE, visible) \in Page
        /\ Repolled(q, TRUE, visible).shown = q.shown
        /\ Repolled(q, TRUE, visible).poll # "off" => q.shown.active
        /\ SameEnds(Repolled(q, TRUE, visible), q)
    BY <1>1, <2>1, RepolledPage
  <2> QED BY <1>1, <2>2, <2>3 DEF SameEnds
<1>4. CASE ~was
  BY <1>1, <1>2, <1>4
<1> QED BY <1>3, <1>4

LEMMA NewPageType == NewPage \in Page
  BY ViewsType, LimitsAssumption DEF NewPage, Page, Ticks

-----------------------------------------------------------------------------
(* Types *)

\* The page polls a run it shows as active, and posts a key.
Attached ==
    /\ page.poll # "off" => page.shown.active
    /\ post.pc # "none" => key \in Keys

TypeInv == TypeOK /\ Attached

LEMMA TypeInit == Init => TypeInv
  BY NewPageType, ViewsType, LimitsAssumption, NoneAssumption
  DEF Init, TypeInv, TypeOK, Attached, RunRow, RunStates, Days, Request, NoRequest,
      NewPage, Post, NoPost, Probe, NoProbe

LEMMA RegistryType ==
    ASSUME TypeOK, NEW k \in Keys, NEW answer, CreateOrCoalesce(k, answer)
    PROVE  /\ run' \in [Runs -> RunRow]
           /\ request' \in [Keys -> Request]
           /\ told' \in SUBSET (Keys \X Runs)
           /\ answer \in Post
<1> USE LimitsAssumption, NoneAssumption
    DEF TypeOK, Lifetime, RunRow, Request, Days, RunStates, Map, registry
<1>1. CASE Replay(k, answer)
  <2>1. request[k].run \in Runs
    BY <1>1 DEF Replay, Mapped
  <2> QED BY <1>1, <2>1, ViewOfType DEF Replay, Post
<1>2. CASE Coalesce(k, answer)
  <2>1. PICK r \in ActiveRuns : Map(k, r) /\ answer = [pc |-> "run", view |-> ViewOf(r)]
    BY <1>2 DEF Coalesce
  <2>2. r \in Runs
    BY DEF ActiveRuns
  <2> QED BY <1>2, <2>1, <2>2, ViewOfType DEF Coalesce, Post
<1>3. CASE Create(k, answer)
  <2>1. PICK r \in Runs :
          /\ run' = [run EXCEPT ![r] = [state |-> "active", days |-> Lifetime]]
          /\ Map(k, r)
          /\ answer = [pc |-> "run", view |-> [run |-> r, active |-> TRUE]]
    BY <1>3 DEF Create
  <2>2. [state |-> "active", days |-> Lifetime] \in RunRow
    OBVIOUS
  <2>3. answer \in Post
    BY <2>1, ViewsType DEF Post
  <2>4. run' \in [Runs -> RunRow]
    BY <2>1, <2>2
  <2>5. request' \in [Keys -> Request] /\ told' \in SUBSET (Keys \X Runs)
    BY <2>1
  <2> QED BY <2>3, <2>4, <2>5
<1>4. CASE CreateFails(k, answer)
  BY <1>4, ViewsType DEF CreateFails, Post
<1> QED BY <1>1, <1>2, <1>3, <1>4 DEF CreateOrCoalesce

LEMMA AskedType ==
    ASSUME TypeOK, page.shown.active, Asked(page.shown.run)
    PROVE  asks' \subseteq Ask
<1>1. page.shown.run \in Runs
  BY ViewsType DEF TypeOK, Page
<1>2. Pending(page.shown.run) \in Ask
  BY <1>1 DEF Pending, Ask
<1> QED BY <1>2 DEF TypeOK, Asked

LEMMA TypeStep == TypeInv /\ [Next]_vars => TypeInv'
<1> SUFFICES ASSUME TypeInv, [Next]_vars PROVE TypeInv'
  OBVIOUS
<1> USE LimitsAssumption, NoneAssumption
    DEF TypeInv, TypeOK, Attached, registry, environment, history
<1>1. ASSUME NEW r \in Runs, RunEnds(r) PROVE TypeInv'
  BY <1>1 DEF RunEnds, RunRow, RunStates
<1>2. ASSUME NEW k \in Keys, OtherTab(k) PROVE TypeInv'
  <2>1. used' \in [Keys -> {"no", "here", "answered", "elsewhere"}]
    BY <1>2 DEF OtherTab
  <2>2. PICK answer \in Post : CreateOrCoalesce(k, answer)
    BY <1>2 DEF OtherTab
  <2> QED BY <1>2, <2>1, <2>2, RegistryType DEF OtherTab
<1>3. CASE Cleanup
  BY <1>3 DEF Cleanup, RunRow, RunStates, Request, NoRequest, Days
<1>4. CASE Day
  <2>1. run' \in [Runs -> RunRow]
    <3>1. \A r \in Runs : run'[r] = [run[r] EXCEPT !.days = IF @ > 0 THEN @ - 1 ELSE @]
      BY <1>4 DEF Day
    <3> QED BY <1>4, <3>1 DEF Day, RunRow, Days
  <2>2. request' \in [Keys -> Request]
    <3>1. \A k \in Keys :
            request'[k] = [request[k] EXCEPT !.days = IF @ > 0 THEN @ - 1 ELSE @]
      BY <1>4 DEF Day
    <3>2. \A k \in Keys : request'[k] \in Request
      <4> SUFFICES ASSUME NEW k \in Keys PROVE request'[k] \in Request
        OBVIOUS
      <4> DEFINE days == IF request[k].days > 0 THEN request[k].days - 1
                         ELSE request[k].days
      <4>1. days \in Days /\ request[k].run \in Runs \cup {None}
        BY DEF Request, Days
      <4>2. request'[k] = [run |-> request[k].run, days |-> days]
        BY <3>1 DEF Request
      <4> HIDE DEF days
      <4> QED BY <4>1, <4>2 DEF Request
    <3> QED BY <1>4, <3>2 DEF Day
  <2>3. page' \in Page /\ page'.poll = page.poll /\ page'.shown = page.shown
    <3> DEFINE since == IF page.shown = NoView THEN 0 ELSE Limit
               pollSince == IF page.poll = "off" THEN 0 ELSE Limit
    <3>1. since \in Ticks /\ pollSince \in Ticks
      BY DEF Ticks
    <3>2. page' = [page EXCEPT !.since = since, !.pollSince = pollSince]
      BY <1>4 DEF Day
    <3>3. /\ page.timedOut \in BOOLEAN
          /\ page.poll \in {"off", "timer", "fetch"}
          /\ page.stranded \in BOOLEAN
      BY DEF Page
    <3> HIDE DEF since, pollSince
    <3>4. page' = With(page, since, page.timedOut, page.poll, pollSince,
                       page.stranded)
      BY <3>2, SincePollSince
    <3> QED BY <3>1, <3>3, <3>4 DEF With, Page
  <2> QED BY <1>4, <2>1, <2>2, <2>3 DEF Day
<1>5. CASE Start
  <2>1. key' \in Keys /\ used' \in [Keys -> {"no", "here", "answered", "elsewhere"}]
    BY <1>5 DEF Start
  <2>2. post' \in Post
    BY <1>5, ViewsType DEF Start, Post, NoPost
  <2> QED BY <1>5, <2>1, <2>2 DEF Start
<1>6. CASE HandlePost
  <2>1. PICK answer \in Post : CreateOrCoalesce(key, answer) /\ post' = answer
    BY <1>6 DEF HandlePost
  <2>2. key \in Keys
    BY <1>6 DEF HandlePost
  <2> QED BY <1>6, <2>1, <2>2, RegistryType DEF HandlePost
<1>7. CASE Started
  <2>1. post.view \in Views
    BY DEF Post
  <2>2. [page EXCEPT !.since = 0, !.timedOut = FALSE] \in Page
    <3>1. [page EXCEPT !.since = 0, !.timedOut = FALSE] =
            With(page, 0, FALSE, page.poll, page.pollSince, page.stranded)
      BY SinceTimedOut
    <3>2. 0 \in Ticks /\ page.pollSince \in Ticks
          /\ page.poll \in {"off", "timer", "fetch"}
          /\ page.stranded \in BOOLEAN
      BY DEF Page, Ticks
    <3> QED BY <3>1, <3>2 DEF With, Page
  <2>3. page' \in Page /\ (page'.poll # "off" => page'.shown.active)
    BY <1>7, <2>1, <2>2, RenderedPage DEF Started
  <2>4. used' \in [Keys -> {"no", "here", "answered", "elsewhere"}]
    BY <1>7 DEF Started
  <2>5. post' \in Post /\ post'.pc = "none"
    BY <1>7, ViewsType DEF Started, Post, NoPost
  <2> QED BY <1>7, <2>3, <2>4, <2>5 DEF Started
<1>8. CASE StartFails
  <2>1. post' \in Post /\ post'.pc = "none"
    BY <1>8, ViewsType DEF StartFails, Post, NoPost
  <2>2. key' \in Keys \cup {None}
    BY <1>8 DEF StartFails, KeyAfter
  <2>3. mishaps' \in Nat
    BY <1>8 DEF StartFails, Lost, Mishap
  <2> QED BY <1>8, <2>1, <2>2, <2>3 DEF StartFails
<1>9. CASE PollFires
  <2>1. [page EXCEPT !.timedOut = TRUE] \in Page
        /\ [page EXCEPT !.timedOut = TRUE].shown = page.shown
    BY DEF Page
  <2>2. [page EXCEPT !.poll = "fetch"] \in Page
        /\ [page EXCEPT !.poll = "fetch"].shown = page.shown
    BY DEF Page
  <2>3. page' \in Page /\ (page'.poll # "off" => page'.shown.active)
    BY SMTT(20), <1>9, <2>1, <2>2, RepolledPage DEF PollFires
  <2> QED BY <1>9, <2>3 DEF PollFires
<1>10. CASE PollAnswered
  <2>1. page.shown.run \in Runs
    BY <1>10, ViewsType DEF PollAnswered, Page
  <2>2. page' \in Page /\ (page'.poll # "off" => page'.shown.active)
    BY <1>10, <2>1, ViewOfType, RenderedPage DEF PollAnswered
  <2> QED BY <1>10, <2>2 DEF PollAnswered
<1>11. CASE PollFails
  <2>1. page.shown \in Views
    BY DEF Page
  <2>2. page' \in Page /\ (page'.poll # "off" => page'.shown.active)
    BY <1>11, <2>1, RenderedPage DEF PollFails, PollAgain
  <2> QED BY <1>11, <2>2 DEF PollFails, Lost, Mishap
<1>12. CASE Tick
  <2>1. page' \in Page /\ page'.poll = page.poll /\ page'.shown = page.shown
    <3> DEFINE since == IF page.since < Limit THEN page.since + 1 ELSE page.since
               pollSince == IF page.poll # "off" /\ page.pollSince < Limit
                              THEN page.pollSince + 1 ELSE page.pollSince
    <3>1. since \in Ticks /\ pollSince \in Ticks
      BY DEF Page, Ticks
    <3>2. page' = [page EXCEPT !.since = since, !.pollSince = pollSince]
      BY <1>12 DEF Tick
    <3>3. /\ page.timedOut \in BOOLEAN
          /\ page.poll \in {"off", "timer", "fetch"}
          /\ page.stranded \in BOOLEAN
      BY DEF Page
    <3> HIDE DEF since, pollSince
    <3>4. page' = With(page, since, page.timedOut, page.poll, pollSince,
                       page.stranded)
      BY <3>2, SincePollSince
    <3> QED BY <3>1, <3>3, <3>4 DEF With, Page
  <2> QED BY <1>12, <2>1 DEF Tick
<1>13. CASE Focus
  <2>1. asks' \subseteq Ask
    BY <1>13, AskedType DEF Focus
  <2>2. probe' \in Probe
    BY <1>13, ViewsType DEF Focus, Refetched, Probe, NoProbe
  <2>3. page' \in Page /\ (page'.poll # "off" => page'.shown.active)
    <3>1. page.timedOut \in BOOLEAN
      BY DEF Page
    <3> QED BY <1>13, <3>1, RenewedPage DEF Focus
  <2> QED BY <1>13, <2>1, <2>2, <2>3 DEF Focus
<1>14. CASE GoOffline
  <2>1. page' \in Page /\ (page'.poll # "off" => page'.shown.active)
    <3>1. page' = Repolled(page, FALSE, visible)
      BY <1>14 DEF GoOffline
    <3>2. /\ page' \in Page
          /\ page'.shown = page.shown
          /\ page'.poll # "off" => page.shown.active
      BY <3>1, RepolledPage
    <3> QED BY <3>2
  <2> QED BY <1>14, <2>1 DEF GoOffline
<1>15. CASE GoOnline
  <2> DEFINE polled == Repolled(page, TRUE, visible)
  <2>1. polled \in Page /\ polled.shown = page.shown
        /\ (polled.poll # "off" => page.shown.active)
    BY RepolledPage
  <2>2. page.timedOut \in BOOLEAN
    BY DEF Page
  <2>3. page' \in Page /\ (page'.poll # "off" => page'.shown.active)
    <3>1. page' = IF page.shown.active THEN Renewed(polled, page.timedOut) ELSE polled
      BY <1>15 DEF GoOnline
    <3> HIDE DEF polled
    <3> QED BY <2>1, <2>2, <3>1, RenewedPage
  <2>4. asks' \subseteq Ask
    BY <1>15, AskedType DEF GoOnline
  <2>5. probe' \in Probe
    BY <1>15, ViewsType DEF GoOnline, Refetched, Probe, NoProbe
  <2>6. online' = TRUE
        /\ UNCHANGED <<registry, key, post, active, visible, history, mishaps>>
    BY <1>15 DEF GoOnline
  <2> QED BY <2>3, <2>4, <2>5, <2>6
<1>16. ASSUME NEW v \in BOOLEAN, SetVisible(v) PROVE TypeInv'
  <2>1. page' \in Page /\ (page'.poll # "off" => page'.shown.active)
    <3>1. page' = Repolled(page, online, v)
      BY <1>16 DEF SetVisible
    <3>2. /\ page' \in Page
          /\ page'.shown = page.shown
          /\ page'.poll # "off" => page.shown.active
      BY <3>1, RepolledPage
    <3> QED BY <3>2
  <2> QED BY <1>16, <2>1 DEF SetVisible
<1>17. ASSUME NEW a \in asks, ReadAsk(a) PROVE TypeInv'
  <2>1. asks' \subseteq Ask
    <3>1. a.run \in Runs /\ ViewOf(a.run).active \in BOOLEAN
      BY DEF Ask, ViewOf
    <3>2. [run |-> a.run, active |-> ViewOf(a.run).active, read |-> TRUE] \in Ask
      BY <3>1 DEF Ask
    <3> QED BY <1>17, <3>2 DEF ReadAsk
  <2> QED BY <1>17, <2>1 DEF ReadAsk
<1>18. ASSUME NEW a \in asks, AskAnswered(a) PROVE TypeInv'
  <2>1. [run |-> a.run, active |-> a.active] \in Views
    BY ViewsType DEF Ask
  <2>2. page' \in Page /\ (page'.poll # "off" => page'.shown.active)
    BY <1>18, <2>1, RenderedPage DEF AskAnswered
  <2> QED BY <1>18, <2>2 DEF AskAnswered
<1>19. CASE ReadActive
  BY <1>19, ActiveViewType DEF ReadActive, Probe
<1>20. CASE ActiveAnswered
  <2>1. probe.view \in Views /\ probe' \in Probe
    BY <1>20, ViewsType DEF ActiveAnswered, Probe, NoProbe
  <2>2. page' \in Page /\ (page'.poll # "off" => page'.shown.active)
    BY <1>20, <2>1, RenderedPage DEF ActiveAnswered
  <2> QED BY <1>20, <2>1, <2>2 DEF ActiveAnswered
<1>21. CASE FetchFails
  <2>1. page' \in Page /\ page'.poll = page.poll /\ page'.shown = page.shown
    <3>1. CASE UNCHANGED page
      BY <3>1
    <3>2. ASSUME NEW b \in BOOLEAN, page' = [page EXCEPT !.stranded = b]
          PROVE  page' \in Page /\ page'.poll = page.poll /\ page'.shown = page.shown
      BY <3>2 DEF Page
    <3>3. page.stranded \in BOOLEAN
      BY DEF Page
    <3> QED BY <1>21, <3>1, <3>2, <3>3 DEF FetchFails
  <2>2. asks' \subseteq asks /\ probe' \in Probe /\ mishaps' \in Nat
    BY <1>21, ViewsType DEF FetchFails, Lost, Mishap, Probe, NoProbe
  <2>3. UNCHANGED <<registry, key, post, active, environment, history>>
    BY <1>21 DEF FetchFails
  <2> QED BY <2>1, <2>2, <2>3
<1>22. CASE Remount
  <2>1. page' \in Page /\ (page'.poll # "off" => page'.shown.active)
    <3>1. NewPage.poll = "off"
      BY DEF NewPage
    <3> QED BY <1>22, <3>1, NewPageType, RenderedPage DEF Remount
  <2>2. used' \in [Keys -> {"no", "here", "answered", "elsewhere"}]
    BY <1>22 DEF Remount
  <2>3. probe' \in Probe /\ post' \in Post /\ post'.pc = "none"
    BY <1>22, ViewsType DEF Remount, Probe, NoProbe, Post, NoPost
  <2> QED BY <1>22, <2>1, <2>2, <2>3 DEF Remount, Mishap
<1>23. CASE UNCHANGED vars
  BY <1>23 DEF vars
<1> QED
  BY <1>1, <1>2, <1>3, <1>4, <1>5, <1>6, <1>7, <1>8, <1>9, <1>10, <1>11, <1>12,
     <1>13, <1>14, <1>15, <1>16, <1>17, <1>18, <1>19, <1>20, <1>21, <1>22, <1>23
  DEF Next

LEMMA TypeAlways == Spec => []TypeInv
  BY TypeInit, TypeStep, PTL DEF Spec

\* Every state is of its type; no row outlives its retention
\* (create_or_coalesce, useTransactionRefresh).
THEOREM TypeCorrect == Spec => []TypeOK
  BY TypeAlways, PTL DEF TypeInv

-----------------------------------------------------------------------------
(* Runs and keys *)

\* One run is active, and what a key was answered with is what it is mapped to,
\* until that run is deleted.
KeysMapped ==
    /\ \A r, q \in ActiveRuns : r = q
    /\ \A k \in Keys, r \in Runs :
          <<k, r>> \in told /\ run[r].state # "deleted" => request[k].run = r

LEMMA AnswerKeepsMapping ==
    ASSUME TypeOK, KeysMapped, NEW k \in Keys, NEW answer, CreateOrCoalesce(k, answer)
    PROVE  KeysMapped'
<1> USE DEF KeysMapped, ActiveRuns, registry, TypeOK
<1>1. CASE Replay(k, answer)
  BY <1>1 DEF Replay
<1>2. ASSUME ~Mapped(k), ~Occupied(k)
      PROVE  \A r \in Runs : <<k, r>> \in told => run[r].state = "deleted"
  BY <1>2, NoneAssumption DEF Mapped, Occupied, Request, Days
<1>3. ASSUME NEW r \in Runs, Map(k, r), ~Mapped(k), ~Occupied(k),
             \A q \in Runs : run'[q].state = "deleted" <=> run[q].state = "deleted"
      PROVE  \A j \in Keys, q \in Runs :
                <<j, q>> \in told' /\ run'[q].state # "deleted" => request'[j].run = q
  BY <1>2, <1>3 DEF Map
<1>4. CASE Coalesce(k, answer)
  <2>1. PICK r \in Runs : Map(k, r)
    BY <1>4 DEF Coalesce
  <2> QED BY <1>3, <1>4, <2>1 DEF Coalesce
<1>5. CASE Create(k, answer)
  <2>1. PICK r \in Runs :
          /\ NextRun(r)
          /\ run' = [run EXCEPT ![r] = [state |-> "active", days |-> Lifetime]]
          /\ Map(k, r)
    BY <1>5 DEF Create
  <2>2. \A q \in Runs : run'[q].state = "deleted" <=> run[q].state = "deleted"
    BY <2>1 DEF NextRun
  <2>3. \A q \in Runs : run'[q].state = "active" => q = r
    BY <1>5, <2>1 DEF Create
  <2> QED BY <1>3, <1>5, <2>1, <2>2, <2>3 DEF Create
<1>6. CASE CreateFails(k, answer)
  BY <1>6 DEF CreateFails
<1> QED BY <1>1, <1>4, <1>5, <1>6 DEF CreateOrCoalesce

LEMMA KeysMappedStep ==
    TypeInv /\ KeysMapped /\ [Next]_vars => KeysMapped'
<1> SUFFICES ASSUME TypeInv, KeysMapped, [Next]_vars PROVE KeysMapped'
  OBVIOUS
<1> USE DEF TypeInv, registry, history
<1>1. ASSUME NEW r \in Runs, RunEnds(r) PROVE KeysMapped'
  BY <1>1 DEF RunEnds, KeysMapped, ActiveRuns, TypeOK
<1>2. ASSUME NEW k \in Keys, OtherTab(k) PROVE KeysMapped'
  BY <1>2, AnswerKeepsMapping DEF OtherTab
<1>3. CASE Cleanup
  <2>1. \A r \in Runs : run'[r].state = "deleted" <=>
                            r \in Removable \/ run[r].state = "deleted"
    BY <1>3 DEF Cleanup, TypeOK, RunRow
  <2>2. \A r \in Runs : run'[r].state = "active" => run[r].state = "active"
    BY <1>3 DEF Cleanup, TypeOK, RunRow
  <2>3. \A k \in Keys : request[k].run \notin Removable => request'[k] = request[k]
    BY <1>3 DEF Cleanup
  <2>4. told' = told
    BY <1>3 DEF Cleanup
  <2> QED BY <2>1, <2>2, <2>3, <2>4 DEF KeysMapped, ActiveRuns
<1>4. CASE Day
  <2>1. \A r \in Runs : run'[r].state = run[r].state
    BY <1>4 DEF Day, TypeOK, RunRow
  <2>2. \A k \in Keys : request'[k].run = request[k].run
    BY <1>4 DEF Day, TypeOK, Request
  <2>3. told' = told
    BY <1>4 DEF Day
  <2> QED BY <2>1, <2>2, <2>3 DEF KeysMapped, ActiveRuns
<1>5. CASE HandlePost
  <2>1. key \in Keys
    BY <1>5 DEF HandlePost, Attached
  <2> QED BY <1>5, <2>1, AnswerKeepsMapping DEF HandlePost
<1>6. ASSUME UNCHANGED <<run, request, told>> PROVE KeysMapped'
  BY <1>6 DEF KeysMapped, ActiveRuns
<1>7. ASSUME NEW v \in BOOLEAN, SetVisible(v) PROVE KeysMapped'
  BY <1>6, <1>7 DEF SetVisible
<1>8. ASSUME NEW a \in asks, ReadAsk(a) \/ AskAnswered(a) PROVE KeysMapped'
  BY <1>6, <1>8 DEF ReadAsk, AskAnswered
<1>9. CASE Start \/ Started \/ StartFails \/ PollFires \/ PollAnswered \/ PollFails \/ Tick
  BY <1>6, <1>9 DEF Start, Started, StartFails, PollFires, PollAnswered, PollFails, Tick
<1>10. CASE Focus \/ GoOffline \/ GoOnline
  BY <1>6, <1>10, Zenon DEF Focus, GoOffline, GoOnline
<1>11. CASE ReadActive \/ ActiveAnswered \/ FetchFails \/ Remount
  BY <1>6, <1>11 DEF ReadActive, ActiveAnswered, FetchFails, Remount
<1>12. CASE UNCHANGED vars
  BY <1>6, <1>12 DEF vars
<1> QED
  BY <1>1, <1>2, <1>3, <1>4, <1>5, <1>7, <1>8, <1>9, <1>10, <1>11, <1>12 DEF Next

LEMMA AtMostOne ==
    ASSUME NEW S, \A x, y \in S : x = y
    PROVE  Cardinality(S) <= 1
<1>1. CASE S = {}
  BY <1>1, FS_EmptySet
<1>2. ASSUME NEW x \in S PROVE Cardinality(S) <= 1
  <2>1. S = {x}
    BY <1>2
  <2>2. Cardinality({x}) = 1
    BY FS_Singleton
  <2> QED BY <2>1, <2>2
<1> QED BY <1>1, <1>2

\* An owner has one active run, and a key one run while that run exists, for any
\* number of tabs and repeated requests (create_or_coalesce, cleanup_expired).
THEOREM KeysNameOneRun == Spec => []KeyNamesOneRun
<1>1. Init => KeysMapped
  BY DEF Init, KeysMapped, ActiveRuns
<1>2. KeysMapped => KeyNamesOneRun
  <2> SUFFICES ASSUME KeysMapped PROVE KeyNamesOneRun
    OBVIOUS
  <2>1. Cardinality(ActiveRuns) <= 1
    BY AtMostOne DEF KeysMapped
  <2>2. ASSUME NEW k \in Keys PROVE Cardinality(Retained(k)) <= 1
    <3>1. \A r, q \in Retained(k) : r = q
      BY DEF KeysMapped, Retained
    <3> QED BY <3>1, AtMostOne
  <2> QED BY <2>1, <2>2 DEF KeyNamesOneRun
<1> QED BY <1>1, <1>2, TypeAlways, KeysMappedStep, PTL DEF Spec

-----------------------------------------------------------------------------
(* Lost answers *)

\* The key that is held is the page's; and a request that was refused left no
\* mapping behind.
KeyHeld ==
    /\ key # None => used[key] = "here"
    /\ UnansweredKeyHeld
    /\ post.pc = "refused" => ~Mapped(key)

LEMMA AnswerMapsOneKey ==
    ASSUME TypeOK, NEW k \in Keys, NEW answer, CreateOrCoalesce(k, answer)
    PROVE  /\ \A j \in Keys \ {k} : request'[j] = request[j]
           /\ answer.pc = "refused" => ~Mapped(k)'
  BY DEF TypeOK, CreateOrCoalesce, Replay, Coalesce, Create, CreateFails, Map, Mapped,
         registry

LEMMA KeyHeldStep ==
    TypeInv /\ KeyHeld /\ [Next]_vars => KeyHeld'
<1> SUFFICES ASSUME TypeInv, KeyHeld, [Next]_vars PROVE KeyHeld'
  OBVIOUS
<1> USE NoneAssumption
    DEF TypeInv, TypeOK, Attached, KeyHeld, UnansweredKeyHeld, registry, history
<1>1. ASSUME NEW k \in Keys, OtherTab(k) PROVE KeyHeld'
  <2>1. \A j \in Keys \ {k} : request'[j] = request[j]
    BY <1>1, AnswerMapsOneKey DEF OtherTab
  <2>2. key # k
    BY <1>1 DEF OtherTab, NextKey
  <2>3. post.pc = "refused" => key \in Keys \ {k}
    BY <2>2
  <2> QED BY <1>1, <2>1, <2>2, <2>3 DEF OtherTab, Mapped
<1>2. ASSUME NEW k \in Keys, Mapped(k)', Cleanup \/ Day PROVE Mapped(k)
  <2>1. CASE Cleanup
    BY <1>2, <2>1, NoneAssumption DEF Cleanup, Mapped, NoRequest
  <2>2. CASE Day
    <3>1. request'[k] =
            [request[k] EXCEPT !.days = IF @ > 0 THEN @ - 1 ELSE @]
      BY <2>2 DEF Day
    <3> QED BY <1>2, <3>1 DEF Mapped, Request, Days
  <2> QED BY <1>2, <2>1, <2>2
<1>3. CASE Cleanup \/ Day
  <2>1. UNCHANGED <<key, used, post>>
    BY <1>3 DEF Cleanup, Day
  <2>2. post.pc = "refused" => ~Mapped(key)'
    <3>1. ASSUME post.pc = "refused" PROVE ~Mapped(key)'
      <4>1. PICK k \in Keys : k = key
        BY <3>1
      <4>2. ~Mapped(k)'
        BY <1>2, <1>3, <3>1, <4>1
      <4> QED BY <2>1, <4>1, <4>2 DEF Mapped
    <3> QED BY <3>1
  <2> QED BY <1>2, <1>3, <2>1, <2>2 DEF Mapped
<1>4. CASE Start
  BY <1>4 DEF Start, NextKey, Mapped, NoPost
<1>5. CASE HandlePost
  <2>1. PICK answer \in Post : CreateOrCoalesce(key, answer) /\ post' = answer
    BY <1>5 DEF HandlePost
  <2>2. PICK k \in Keys : k = key
    BY <1>5 DEF HandlePost
  <2>3. /\ \A j \in Keys \ {k} : request'[j] = request[j]
        /\ answer.pc = "refused" => ~Mapped(k)'
    BY <2>1, <2>2, AnswerMapsOneKey
  <2>4. UNCHANGED <<key, used>>
    BY <1>5 DEF HandlePost
  <2> QED BY <2>1, <2>2, <2>3, <2>4 DEF Mapped
<1>6. CASE Started
  BY <1>6 DEF Started, Mapped, NoPost
<1>7. CASE StartFails
  <2>1. UNCHANGED <<request, used>> /\ post'.pc = "none"
    BY <1>7 DEF StartFails, NoPost
  <2>2. key' = IF post.pc = "refused" THEN None ELSE key
    BY <1>7 DEF StartFails, KeyAfter
  <2> QED BY <2>1, <2>2 DEF Mapped
<1>8. CASE Remount
  <2>1. \A k \in Keys : used'[k] # "here"
    BY <1>8 DEF Remount
  <2> QED BY <1>8, <2>1 DEF Remount, NoPost
<1>9. ASSUME UNCHANGED <<request, key, used, post>> PROVE KeyHeld'
  BY <1>9 DEF Mapped
<1> HIDE DEF TypeInv, TypeOK, Attached, KeyHeld, UnansweredKeyHeld
<1>10. ASSUME NEW r \in Runs, RunEnds(r) PROVE KeyHeld'
  BY <1>9, <1>10 DEF RunEnds
<1>11. ASSUME NEW v \in BOOLEAN, SetVisible(v) PROVE KeyHeld'
  BY <1>9, <1>11 DEF SetVisible
<1>12. ASSUME NEW a \in asks, ReadAsk(a) \/ AskAnswered(a) PROVE KeyHeld'
  BY <1>9, <1>12 DEF ReadAsk, AskAnswered
<1>13. CASE PollFires \/ PollAnswered \/ PollFails \/ Tick
  BY <1>9, <1>13 DEF PollFires, PollAnswered, PollFails, Tick
<1>14. CASE Focus \/ GoOffline \/ GoOnline
  BY <1>9, <1>14, Zenon DEF Focus, GoOffline, GoOnline
<1>15. CASE ReadActive \/ ActiveAnswered \/ FetchFails
  BY <1>9, <1>15 DEF ReadActive, ActiveAnswered, FetchFails
<1>16. CASE UNCHANGED vars
  BY <1>9, <1>16 DEF vars
<1> QED
  BY <1>1, <1>3, <1>4, <1>5, <1>6, <1>7, <1>8, <1>10, <1>11, <1>12, <1>13, <1>14,
     <1>15, <1>16
  DEF Next

\* A POST whose answer was lost is repeated with its own key, however many calls
\* are lost, so that it finds the run it has started (useTransactionRefresh's
\* idempotencyKeyRef).
THEOREM LostAnswerKeepsKey == Spec => []UnansweredKeyHeld
<1>1. Init => KeyHeld
  BY DEF Init, KeyHeld, UnansweredKeyHeld, NoPost
<1>2. KeyHeld => UnansweredKeyHeld
  BY DEF KeyHeld
<1> QED BY <1>1, <1>2, TypeAlways, KeyHeldStep, PTL DEF Spec

-----------------------------------------------------------------------------
(* The end of a run *)

\* Every end that was noticed reset the page once; and an end that is shown was
\* noticed.
EndsHandled(p) ==
    /\ \A r \in Runs : p.resets[r] = IF r \in p.noticed THEN 1 ELSE 0
    /\ p.shown # NoView /\ ~p.shown.active => p.shown.run \in p.noticed

\* Before the terminal effect has run.
Counted(p) == \A r \in Runs : p.resets[r] = IF r \in p.noticed THEN 1 ELSE 0

LEMMA SameEndsHandled ==
    ASSUME NEW p, NEW q, EndsHandled(p), SameEnds(q, p), q.shown = p.shown
    PROVE  EndsHandled(q)
  BY DEF EndsHandled, SameEnds

LEMMA NoticedHandles ==
    ASSUME NEW p \in Page, Counted(p)
    PROVE  EndsHandled(Noticed(p))
<1>1. CASE p.shown = NoView \/ p.shown.active \/ p.shown.run \in p.noticed
  BY <1>1 DEF Noticed, Counted, EndsHandled
<1>2. CASE ~(p.shown = NoView \/ p.shown.active \/ p.shown.run \in p.noticed)
  <2> DEFINE r == p.shown.run
             resets == [p.resets EXCEPT ![r] = IF @ < 2 THEN @ + 1 ELSE @]
  <2>1. r \in Runs
    BY <1>2, ViewsType DEF Page
  <2>2. \A q \in Runs : resets[q] = IF q \in p.noticed \cup {r} THEN 1 ELSE 0
    BY <1>2, <2>1 DEF Counted, Page
  <2>3. /\ Noticed(p).shown = p.shown
        /\ Noticed(p).noticed = p.noticed \cup {r}
        /\ Noticed(p).resets = resets
    BY <1>2 DEF Noticed, Page
  <2> HIDE DEF resets
  <2> QED BY <2>2, <2>3 DEF EndsHandled
<1> QED BY <1>1, <1>2

LEMMA RenderedHandles ==
    ASSUME TypeOK, NEW p \in Page, NEW view \in Views, Counted(p)
    PROVE  EndsHandled(Rendered(p, view))
<1> DEFINE q == [p EXCEPT !.shown = view]
           polled == Repolled(q, online, visible)
<1>1. q \in Page /\ SameEnds(q, p)
  BY DEF Page, SameEnds
<1> HIDE DEF q
<1>2. online \in BOOLEAN /\ visible \in BOOLEAN
  BY DEF TypeOK
<1>3. polled \in Page /\ SameEnds(polled, q)
  BY <1>1, <1>2, RepolledPage
<1>4. Rendered(p, view) = Noticed(polled)
  BY DEF Rendered, q
<1> HIDE DEF polled
<1>5. Counted(polled)
  BY <1>1, <1>3 DEF Counted, SameEnds
<1> QED BY <1>3, <1>4, <1>5, NoticedHandles

LEMMA EndsHandledStep ==
    TypeInv /\ EndsHandled(page) /\ [Next]_vars => EndsHandled(page)'
<1> SUFFICES ASSUME TypeInv, EndsHandled(page), [Next]_vars PROVE EndsHandled(page')
  BY DEF EndsHandled
<1> USE DEF TypeInv, environment
<1>1. page \in Page /\ page.shown \in Views /\ Counted(page)
  BY DEF TypeOK, Page, EndsHandled, Counted
<1>2. online \in BOOLEAN /\ visible \in BOOLEAN /\ page.timedOut \in BOOLEAN
  BY DEF TypeOK, Page
<1>3. ASSUME NEW q, SameEnds(q, page), q.shown = page.shown PROVE EndsHandled(q)
  BY <1>3, SameEndsHandled
<1>4. ASSUME NEW on \in BOOLEAN, NEW vis \in BOOLEAN
      PROVE  EndsHandled(Repolled(page, on, vis))
  BY <1>1, <1>3, RepolledPage
<1>5. ASSUME UNCHANGED page PROVE EndsHandled(page')
  BY <1>5
<1>6. CASE Day \/ Tick
  <2>1. SameEnds(page', page) /\ page'.shown = page.shown
    BY <1>1, <1>6 DEF Day, Tick, SameEnds, Page
  <2> QED BY <1>3, <2>1
<1>7. CASE Started
  <2>1. [page EXCEPT !.since = 0, !.timedOut = FALSE]
          = With(page, 0, FALSE, page.poll, page.pollSince, page.stranded)
    BY <1>1, SinceTimedOut
  <2>2. 0 \in Ticks
    BY LimitsAssumption DEF Ticks
  <2>3. With(page, 0, FALSE, page.poll, page.pollSince, page.stranded) \in Page
        /\ Counted(With(page, 0, FALSE, page.poll, page.pollSince, page.stranded))
    BY <1>1, <2>2 DEF With, Page, Counted
  <2>4. post.view \in Views
    BY DEF TypeOK, Post
  <2> QED BY <1>7, <2>1, <2>3, <2>4, RenderedHandles DEF Started
<1>8. CASE PollFires
  <2>1. page.poll = "timer"
    BY <1>8 DEF PollFires
  <2>2. CASE page.pollSince >= Limit
    <3> DEFINE q == [page EXCEPT !.timedOut = TRUE]
    <3>1. q \in Page /\ SameEnds(q, page) /\ q.shown = page.shown
      BY <1>1 DEF Page, SameEnds
    <3>2. page' = Repolled(q, online, visible)
      BY <1>8, <2>2 DEF PollFires
    <3> HIDE DEF q
    <3>3. SameEnds(page', q) /\ page'.shown = q.shown
      BY <1>2, <3>1, <3>2, RepolledPage
    <3>4. SameEnds(page', page) /\ page'.shown = page.shown
      BY <3>1, <3>3 DEF SameEnds
    <3> QED BY <1>3, <3>4
  <2>3. CASE ~(page.pollSince >= Limit)
    <3>1. SameEnds(page', page) /\ page'.shown = page.shown
      BY <1>1, <1>8, <2>3 DEF PollFires, SameEnds, Page
    <3> QED BY <1>3, <3>1
  <2> QED BY <2>2, <2>3
<1>9. CASE PollAnswered
  <2>1. page.shown.run \in Runs
    BY <1>1, <1>9, ViewsType DEF PollAnswered, Attached
  <2> QED BY <1>1, <1>9, <2>1, ViewOfType, RenderedHandles DEF PollAnswered
<1>10. CASE PollFails
  BY <1>1, <1>10, RenderedHandles DEF PollFails, PollAgain
<1>11. ASSUME NEW p \in Page, SameEnds(p, page), p.shown = page.shown
       PROVE  EndsHandled(Renewed(p, page.timedOut))
  <2>1. SameEnds(Renewed(p, page.timedOut), p) /\ Renewed(p, page.timedOut).shown = p.shown
    BY <1>2, RenewedPage
  <2>2. SameEnds(Renewed(p, page.timedOut), page)
        /\ Renewed(p, page.timedOut).shown = page.shown
    BY <1>11, <2>1 DEF SameEnds
  <2> QED BY <1>3, <2>2
<1>12. CASE Focus
  <2>1. page' = page \/ page' = Renewed(page, page.timedOut)
    BY <1>12 DEF Focus
  <2>2. SameEnds(page, page)
    BY DEF SameEnds
  <2> QED BY <1>1, <1>5, <1>11, <2>1, <2>2
<1>13. CASE GoOffline
  <2>1. page' = Repolled(page, FALSE, visible)
    BY <1>13 DEF GoOffline
  <2> QED BY <1>2, <1>4, <2>1
<1>14. CASE GoOnline
  <2> DEFINE polled == Repolled(page, TRUE, visible)
  <2>1. page' = IF page.shown.active THEN Renewed(polled, page.timedOut) ELSE polled
    BY <1>14 DEF GoOnline
  <2>2. polled \in Page /\ SameEnds(polled, page) /\ polled.shown = page.shown
    BY <1>1, <1>2, RepolledPage
  <2>3. EndsHandled(polled)
    BY <1>2, <1>4
  <2> HIDE DEF polled
  <2> QED BY <1>11, <2>1, <2>2, <2>3
<1>15. ASSUME NEW v \in BOOLEAN, SetVisible(v) PROVE EndsHandled(page')
  <2>1. page' = Repolled(page, online, v)
    BY <1>15 DEF SetVisible
  <2> QED BY <1>2, <1>4, <2>1
<1>16. ASSUME NEW a \in asks, AskAnswered(a) PROVE EndsHandled(page')
  <2>1. [run |-> a.run, active |-> a.active] \in Views
    BY ViewsType DEF TypeOK, Ask
  <2> QED BY <1>1, <1>16, <2>1, RenderedHandles DEF AskAnswered
<1>17. CASE ActiveAnswered
  <2>1. probe.view \in Views
    BY DEF TypeOK, Probe
  <2>2. page' = page \/ page' = Rendered(page, probe.view)
    BY <1>17 DEF ActiveAnswered
  <2> QED BY <1>1, <1>5, <2>1, <2>2, RenderedHandles
<1>18. CASE Remount
  <2>1. EndsHandled(NewPage) /\ Counted(NewPage)
    BY DEF EndsHandled, Counted, NewPage
  <2>2. active \in Views
    BY DEF TypeOK
  <2> QED BY <1>18, <2>1, <2>2, NewPageType, RenderedHandles DEF Remount
<1>19. ASSUME NEW r \in Runs, RunEnds(r) PROVE EndsHandled(page')
  BY <1>5, <1>19 DEF RunEnds
<1>20. ASSUME NEW k \in Keys, OtherTab(k) PROVE EndsHandled(page')
  BY <1>5, <1>20 DEF OtherTab
<1>21. ASSUME NEW a \in asks, ReadAsk(a) PROVE EndsHandled(page')
  BY <1>5, <1>21 DEF ReadAsk
<1>22. CASE Cleanup \/ Start \/ HandlePost \/ StartFails \/ ReadActive
  BY <1>5, <1>22 DEF Cleanup, Start, HandlePost, StartFails, ReadActive
<1>23. CASE FetchFails
  <2>1. SameEnds(page', page) /\ page'.shown = page.shown
    <3>1. ASSUME NEW b, page' = [page EXCEPT !.stranded = b]
          PROVE  SameEnds(page', page) /\ page'.shown = page.shown
      BY <1>1, <3>1 DEF SameEnds, Page
    <3> QED BY <1>23, <3>1 DEF FetchFails, SameEnds
  <2> QED BY <1>3, <2>1
<1>24. CASE UNCHANGED vars
  BY <1>5, <1>24 DEF vars
<1> HIDE DEF TypeInv, environment
<1> QED
  BY <1>6, <1>7, <1>8, <1>9, <1>10, <1>12, <1>13, <1>14, <1>15, <1>16, <1>17, <1>18,
     <1>19, <1>20, <1>21, <1>22, <1>23, <1>24
  DEF Next

\* Whatever answers arrive late, the end of a run resets the page's rows once
\* (useTransactionRefresh's terminalHandledRef).
THEOREM EndsNoticedOnce == Spec => []EndNoticedOnce
<1>1. Init => EndsHandled(page)
  BY DEF Init, EndsHandled, NewPage
<1>2. TypeOK /\ EndsHandled(page) => EndNoticedOnce
  <2> SUFFICES ASSUME TypeOK, EndsHandled(page) PROVE EndNoticedOnce
    OBVIOUS
  <2>1. page.shown # NoView => page.shown.run \in Runs
    BY ViewsType DEF TypeOK, Page
  <2> QED BY <2>1 DEF EndsHandled, EndNoticedOnce
<1> QED BY <1>1, <1>2, TypeCorrect, TypeAlways, EndsHandledStep, PTL DEF Spec
=============================================================================
