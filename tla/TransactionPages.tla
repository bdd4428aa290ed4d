-------------------------- MODULE TransactionPages --------------------------
(***************************************************************************)
(* The lists of transactions: the keyset pages of the search service, the  *)
(* two views of DashboardPage that ask for them, and the snapshots kept in *)
(* the browser's session storage.                                          *)
(*                                                                         *)
(* The service answers a request from one state of the local cache; an     *)
(* answer takes its time to arrive, and may fail.  While it is under way   *)
(* the owner may submit another query, change the view, lose the network   *)
(* or reload the page, a refresh may end, and a pass may change the cache. *)
(*                                                                         *)
(* The query cache of the browser (external, TanStack Query) keeps what    *)
(* each query last returned, calls the page again after each answer, and   *)
(* shows the card view the previous query's result until there is a new    *)
(* one.  A mutation that a later one replaced keeps the page's last        *)
(* callbacks, and so the query, view and generation they saw.              *)
(***************************************************************************)
EXTENDS Naturals, FiniteSets, Sequences, SequencesExt

CONSTANTS
    Rows,          \* transactions, numbered as their ids are ordered
    Cards,
    Queries,       \* submitted queries, the blank one included
    None,
    CardOf,        \* card_account_id
    DateOf,        \* coalesce(posted_date, authorized_date); 0 for neither
    Matches,       \* the rows a query is a substring of
    CachedAtFirst, \* the local cache when the dashboard is first opened
    PerCard,       \* DEFAULT_PER_CARD_LIMIT
    PerPage,       \* DEFAULT_ALL_TRANSACTIONS_LIMIT
    Overlap,       \* may "Load more" be pressed on two cards at once?
    MaxMoves,      \* bound: new lists (queries, views, refreshes, reloads)
    MaxLoads,      \* bound: continuations under way
    MaxSyncs       \* bound: changes of the local cache

ASSUME RowsAssumption == Rows \subseteq Nat /\ IsFiniteSet(Rows) /\ None \notin Rows
ASSUME ContentAssumption ==
    /\ CardOf \in [Rows -> Cards]
    /\ DateOf \in [Rows -> Nat]
    /\ Matches \in [Queries -> SUBSET Rows]
    /\ CachedAtFirst \subseteq Rows
ASSUME LimitsAssumption ==
    /\ {PerCard, PerPage} \subseteq Nat \ {0}
    /\ {MaxMoves, MaxLoads, MaxSyncs} \subseteq Nat
    /\ Overlap \in BOOLEAN

VARIABLES
    cached,     \* the transactions of active cards in the local cache
    syncs,
    online,
    scope,      \* the URL's query and view, and the continuation generation
    search,     \* the query cache: grouped results, by query
    all,        \* the query cache: first pages of the table, by query
    previous,   \* the query whose result the card view shows as placeholder
    flights,    \* first pages under way, by view and query
    pageState,  \* the pages loaded after a card's first
    aggregatePage, \* the pages loaded after the table's first
    cardLoads,  \* continuations of a card under way
    tableLoads, \* continuations of the table under way
    store       \* session storage, by view and query

pages == <<pageState, aggregatePage>>
loads == <<cardLoads, tableLoads>>
results == <<search, all, previous>>
server == <<cached, syncs>>
vars == <<cached, syncs, online, scope, search, all, previous, flights, pageState,
          aggregatePage, cardLoads, tableLoads, store>>

-----------------------------------------------------------------------------
(* The search service *)

Dated(r) == DateOf[r] # 0

\* sort_date desc, rows without a date last, then id desc.
Before(a, b) == DateOf[a] > DateOf[b] \/ (DateOf[a] = DateOf[b] /\ a > b)
Sorted(S) ==
    [i \in 1 .. Cardinality(S) |->
        CHOOSE r \in S : Cardinality({x \in S : Before(x, r)}) = i - 1]

\* Mutant: the table's cursor, too, leaves out the rows without a date.
AllAfterDated(c) == {r \in Rows : Before(c, r) /\ (Dated(c) => Dated(r))}

\* Mutant: the id does not break the tie of two rows of one day.
CardAfterDate(c) == {r \in Rows : DateOf[c] > DateOf[r]}

\* What a cursor leaves to come.  The per-card one compares the date in SQL,
\* so a dated cursor leaves out every row without a date.
AllAfter(c) == {r \in Rows : Before(c, r)}
CardAfter(c) == {r \in Rows : Before(c, r) /\ (Dated(c) => Dated(r))}

\* Mutant: the last page, too, has a cursor.
PageWithCursor(S, limit) ==
    LET order == Sorted(S)
        n == IF Len(order) > limit THEN limit ELSE Len(order)
    IN  [rows    |-> SubSeq(order, 1, n),
         cursor  |-> IF n = 0 THEN None ELSE order[n],
         hasMore |-> Len(order) > limit,
         reading |-> cached]

\* reading: the state of the cache the rows were read from (history).
Page(S, limit) ==
    LET order == Sorted(S)
        more == Len(order) > limit
    IN  [rows    |-> IF more THEN SubSeq(order, 1, limit) ELSE order,
         cursor  |-> IF more THEN order[limit] ELSE None,
         hasMore |-> more,
         reading |-> cached]

CardMatches(c, q) == {r \in cached \cap Matches[q] : CardOf[r] = c}
CardPage(c, q, cursor) ==
    Page(CardMatches(c, q) \cap (IF cursor = None THEN Rows ELSE CardAfter(cursor)),
         PerCard)
AllPage(q, cursor) ==
    Page(cached \cap Matches[q] \cap (IF cursor = None THEN Rows ELSE AllAfter(cursor)),
         PerPage)

GroupedResult(q) == [query |-> q, groups |-> [c \in Cards |-> CardPage(c, q, None)]]
AllResult(q) == [query |-> q, page |-> AllPage(q, None)]

-----------------------------------------------------------------------------
(* State of the page *)

Views == {"cards", "transactions"}
Scope == [view : Views, query : Queries, gen : 0 .. MaxMoves]

\* There is a cursor exactly when there is more.  The rows of several pages have
\* no reading unless each page continues the one before in the same one.
Parts == {p \in [rows    : Seq(Rows),
                 cursor  : Rows \cup {None},
                 hasMore : BOOLEAN,
                 reading : (SUBSET Rows) \cup {None}] : p.hasMore <=> p.cursor # None}

\* Pages loaded after a first one; the cursor they continue from, and the
\* generation they were asked for in, are history.
Extra == [part : Parts, after : Rows \cup {None}, query : Queries, gen : 0 .. MaxMoves]

\* live: the mutation observer still follows it and gives it the callbacks of
\* each render; otherwise they are those that saw the scope seen.
Load == [card : Cards \cup {None}, query : Queries, gen : 0 .. MaxMoves,
         after : Rows \cup {None}, page : Parts, live : BOOLEAN, seen : Scope]

Grouped == [query : Queries, groups : [Cards -> Parts]]
Table == [query : Queries, page : Parts]

TypeOK ==
    /\ cached \subseteq Rows
    /\ syncs \in 0 .. MaxSyncs
    /\ online \in BOOLEAN
    /\ scope \in Scope
    /\ search \in [Queries -> Grouped \cup {None}]
    /\ all \in [Queries -> Table \cup {None}]
    /\ previous \in Queries \cup {None}
    /\ flights.cards \in [Queries -> Grouped \cup {None}]
    /\ flights.transactions \in [Queries -> Table \cup {None}]
    /\ pageState \in [Cards -> Extra \cup {None}]
    /\ aggregatePage \in Extra \cup {None}
    /\ cardLoads \subseteq Load
    /\ tableLoads \subseteq Load
    /\ store.cards \in [Queries -> Grouped \cup {None}]
    /\ store.transactions \in [Queries -> Table \cup {None}]

\* searchQuery.data: with keepPreviousData, the previous query's until the
\* submitted one has its own.
Shown(q, data, last) ==
    IF data[q] # None \/ last = None THEN data[q] ELSE data[last]
ShownGroups == Shown(scope.query, search, previous)

\* Array.filter: the elements of s at the positions in I.
Filtered(s, I) ==
    [k \in 1 .. Cardinality(I) |->
        s[CHOOSE i \in I : Cardinality({j \in I : j < i}) = k - 1]]

\* uniqueRows
UniqueRows(s) == Filtered(s, {i \in DOMAIN s : \A j \in 1 .. i - 1 : s[j] # s[i]})

\* The reading of a page and of what was loaded after it, from cursor after on.
Joined(first, after, next) ==
    IF after = first.cursor /\ first.reading = next.reading THEN next.reading ELSE None

\* aggregateData
Aggregated(result, extra, q) ==
    IF result = None \/ extra = None THEN result
    ELSE IF extra.query # q THEN result
    ELSE [query |-> result.query,
          page  |-> [rows    |-> UniqueRows(result.page.rows \o extra.part.rows),
                     cursor  |-> extra.part.cursor,
                     hasMore |-> extra.part.hasMore,
                     reading |-> Joined(result.page, extra.after, extra.part)]]
AggregateData == Aggregated(all[scope.query], aggregatePage, scope.query)

\* groups: a card's first page and the pages loaded after it.
CardGroup(c) ==
    LET first == ShownGroups.groups[c]
        extra == pageState[c]
    IN  IF extra = None THEN first
        ELSE [rows    |-> first.rows \o extra.part.rows,
              cursor  |-> extra.part.cursor,
              hasMore |-> extra.part.hasMore,
              reading |-> Joined(first, extra.after, extra.part)]

-----------------------------------------------------------------------------
(* What happens to the lists *)

\* initialData, read again at each render until the query has data.
Hydrated(data, kept, q) == IF data[q] = None THEN [data EXCEPT ![q] = kept[q]] ELSE data

\* persistSearchResult and persistAllTransactionsResult, after a render.
Snapshot(old, q, data) == IF data = None THEN old ELSE [old EXCEPT ![q] = data]
Persisted(q, groups, table) ==
    [cards        |-> Snapshot(store.cards, q, groups),
     transactions |-> Snapshot(store.transactions, q, table)]

\* The render and its effects that follow every change.
Rendered ==
    LET q == scope'.query
    IN  /\ previous' = IF search'[q] # None THEN q ELSE previous
        /\ store' = Persisted(q, Shown(q, search', previous),
                              Aggregated(all'[q], aggregatePage', q))

\* The first page of a list, asked for unless it is on its way.
FirstPage(v, q) == IF v = "cards" THEN GroupedResult(q) ELSE AllResult(q)
Asked(fl, v, q) == IF fl[v][q] = None THEN [fl EXCEPT ![v][q] = FirstPage(v, q)] ELSE fl
AskedIf(up, fl, v, q) == IF up THEN Asked(fl, v, q) ELSE fl

NoPages == [c \in Cards |-> None]
NoFlights == [v \in Views |-> [q \in Queries |-> None]]
Nothing == [q \in Queries |-> None]

\* resetContinuationState, and the effect on the query and the view.
Cleared == pageState' = NoPages /\ aggregatePage' = None

NewScope(v, q) ==
    /\ scope.gen < MaxMoves
    /\ scope' = [view |-> v, query |-> q, gen |-> scope.gen + 1]

\* A mutation that is no longer followed keeps the callbacks of scope s.
Detached(ls, s) == {IF l.live THEN [l EXCEPT !.live = FALSE, !.seen = s] ELSE l : l \in ls}

Init ==
    /\ cached = CachedAtFirst
    /\ syncs = 0
    /\ online = TRUE
    /\ scope \in {s \in Scope : s.gen = 0 /\ s.view = "cards"}
    /\ search = Nothing
    /\ all = Nothing
    /\ previous = None
    /\ flights = Asked(NoFlights, "cards", scope.query)
    /\ pageState = NoPages
    /\ aggregatePage = None
    /\ cardLoads = {}
    /\ tableLoads = {}
    /\ store = [v \in Views |-> Nothing]

\* handleSearchSubmit and handleViewChange: the table's continuation is reset
\* after it was given the new callbacks.
Navigate(v, q) ==
    /\ v # scope.view \/ q # scope.query
    /\ NewScope(v, q)
    /\ Cleared
    /\ search' = Hydrated(search, store.cards, q)
    /\ all' = Hydrated(all, store.transactions, q)
    /\ flights' = AskedIf(online, flights, v, q)
    /\ tableLoads' = Detached(tableLoads, scope')
    /\ Rendered
    /\ UNCHANGED <<server, online, cardLoads>>

\* A refresh ends: the continuations are cleared and both views invalidated.
\* A first page under way is asked for again if it replaces one.
RefreshEnds ==
    /\ NewScope(scope.view, scope.query)
    /\ Cleared
    /\ LET v == scope.view
           q == scope.query
           data == IF v = "cards" THEN search[q] ELSE all[q]
           dropped == IF data = None THEN flights ELSE [flights EXCEPT ![v][q] = None]
       IN  flights' = IF online THEN Asked(dropped, v, q) ELSE flights
    /\ UNCHANGED <<search, all>>
    /\ Rendered
    /\ UNCHANGED <<server, online, loads>>

\* The window regains the focus.
Focus ==
    /\ online
    /\ flights' = Asked(flights, scope.view, scope.query)
    /\ UNCHANGED <<server, online, scope, results, pages, loads, store>>

ChangeNetwork ==
    /\ online' = ~online
    /\ flights' = AskedIf(online', flights, scope.view, scope.query)
    /\ UNCHANGED <<server, scope, results, pages, loads, store>>

\* A first page arrives, for the list shown or for an earlier one, or fails.
Arrive(v, q) ==
    /\ flights[v][q] # None
    /\ flights' = [flights EXCEPT ![v][q] = None]
    /\ \/ /\ v = "cards"
          /\ search' = [search EXCEPT ![q] = flights[v][q]]
          /\ all' = all
       \/ /\ v = "transactions"
          /\ all' = [all EXCEPT ![q] = flights[v][q]]
          /\ search' = search
       \/ UNCHANGED <<search, all>>
    /\ UNCHANGED pages
    /\ UNCHANGED scope
    /\ Rendered
    /\ UNCHANGED <<server, online, loads>>

\* Any render: a query without data takes the snapshot stored under its key.
Rerender ==
    /\ search' = Hydrated(search, store.cards, scope.query)
    /\ all' = Hydrated(all, store.transactions, scope.query)
    /\ UNCHANGED <<scope, pages>>
    /\ Rendered
    /\ UNCHANGED <<server, online, flights, loads>>

\* Everything but the URL and session storage is lost.
Reload ==
    /\ NewScope(scope.view, scope.query)
    /\ Cleared
    /\ search' = Hydrated(Nothing, store.cards, scope.query)
    /\ all' = Hydrated(Nothing, store.transactions, scope.query)
    /\ previous' = IF search'[scope.query] # None THEN scope.query ELSE None
    /\ flights' = AskedIf(online, NoFlights, scope.view, scope.query)
    /\ cardLoads' = {}
    /\ tableLoads' = {}
    /\ UNCHANGED <<server, online, store>>

\* A pass adds or removes a transaction.
Sync(r) ==
    /\ syncs < MaxSyncs
    /\ syncs' = syncs + 1
    /\ cached' = IF r \in cached THEN cached \ {r} ELSE cached \cup {r}
    /\ UNCHANGED <<online, scope, results, flights, pages, loads, store>>

-----------------------------------------------------------------------------
(* Continuations *)

NewLoad(c, page, after) ==
    [card |-> c, query |-> scope.query, gen |-> scope.gen, after |-> after,
     page |-> page, live |-> TRUE, seen |-> scope]

Begins(extra, cursor) == IF extra = None THEN cursor ELSE extra.after

\* onLoadMore of a card: the button of the card whose load is followed is
\* disabled.
LoadMoreOfCard(c) ==
    /\ scope.view = "cards"
    /\ online
    /\ ShownGroups # None
    /\ CardGroup(c).hasMore
    /\ \A l \in cardLoads : l.live => l.card # c
    /\ Overlap \/ cardLoads = {}
    /\ Cardinality(cardLoads) < MaxLoads
    /\ LET cursor == CardGroup(c).cursor
       IN  cardLoads' = Detached(cardLoads, scope) \cup
                          {NewLoad(c, CardPage(c, scope.query, cursor),
                                   Begins(pageState[c], cursor))}
    /\ UNCHANGED <<server, online, scope, results, flights, pages, tableLoads, store>>

\* onLoadMore of the table: not while one is followed.
LoadMoreOfTable ==
    /\ scope.view = "transactions"
    /\ online
    /\ AggregateData # None
    /\ AggregateData.page.hasMore
    /\ \A l \in tableLoads : ~l.live
    /\ Cardinality(tableLoads) < MaxLoads
    /\ LET cursor == AggregateData.page.cursor
       IN  tableLoads' = tableLoads \cup
                           {NewLoad(None, AllPage(scope.query, cursor),
                                    Begins(aggregatePage, cursor))}
    /\ UNCHANGED <<server, online, scope, results, flights, pages, cardLoads, store>>

\* The scope that the callbacks of a load see.
Sees(l) == IF l.live THEN scope ELSE l.seen

\* Mutant: the generation is not compared.
AcceptsAnyGeneration(l, v) == l.query = Sees(l).query /\ Sees(l).view = v

Accepts(l, v) == l.query = Sees(l).query /\ Sees(l).view = v /\ l.gen = Sees(l).gen

Merged(extra, l, rows, reading) ==
    [part  |-> [rows    |-> rows,
                cursor  |-> l.page.cursor,
                hasMore |-> l.page.hasMore,
                reading |-> IF extra = None \/ extra.part.reading = reading
                              THEN reading ELSE None],
     after |-> IF extra = None THEN l.after ELSE extra.after,
     query |-> l.query,
     gen   |-> l.gen]

RowsOf(extra) == IF extra = None THEN <<>> ELSE extra.part.rows

\* onSuccess of loadMoreMutation, or its failure.
CardPageArrives(l) ==
    /\ cardLoads' = cardLoads \ {l}
    /\ \/ /\ Accepts(l, "cards")
          /\ LET extra == pageState[l.card]
             IN  pageState' = [pageState EXCEPT ![l.card] =
                                 Merged(extra, l, RowsOf(extra) \o l.page.rows,
                                        l.page.reading)]
       \/ UNCHANGED pageState
    /\ UNCHANGED <<server, online, scope, results, flights, aggregatePage, tableLoads,
                   store>>

\* onSuccess of aggregateMoreMutation, or its failure.  Rows of the first page
\* that is there by then are left out.
TablePageArrives(l) ==
    /\ tableLoads' = tableLoads \ {l}
    /\ \/ /\ Accepts(l, "transactions")
          /\ LET result == all[l.query]
                 base == IF result = None THEN <<>> ELSE result.page.rows
                 known == IF aggregatePage # None /\ aggregatePage.query = l.query
                            THEN aggregatePage ELSE None
                 rows == UniqueRows(base \o RowsOf(known) \o l.page.rows)
                 reading == IF result = None THEN None
                            ELSE Joined(result.page, l.after, l.page)
             IN  aggregatePage' =
                     Merged(known, l,
                            Filtered(rows, {i \in DOMAIN rows : ~Contains(base, rows[i])}),
                            reading)
       \/ UNCHANGED aggregatePage
    /\ UNCHANGED <<scope, search, all, pageState>>
    /\ Rendered
    /\ UNCHANGED <<server, online, flights, cardLoads>>

Next ==
    \/ \E v \in Views, q \in Queries : Navigate(v, q) \/ Arrive(v, q)
    \/ RefreshEnds
    \/ Focus
    \/ ChangeNetwork
    \/ Rerender
    \/ Reload
    \/ \E r \in Rows : Sync(r)
    \/ \E c \in Cards : LoadMoreOfCard(c)
    \/ LoadMoreOfTable
    \/ \E l \in cardLoads : CardPageArrives(l)
    \/ \E l \in tableLoads : TablePageArrives(l)

Spec == Init /\ [][Next]_vars

-----------------------------------------------------------------------------
(* Properties *)

\* Pages loaded after the first belong to the list that is shown: they were
\* asked for with its query, after the last refresh that ended, and not before
\* an earlier change of query or view (DashboardPage's generation).
NoLatePage ==
    \A extra \in {pageState[c] : c \in Cards} \cup {aggregatePage} :
        extra # None => extra.query = scope.query /\ extra.gen = scope.gen

Distinct(s) == Cardinality(ToSet(s)) = Len(s)

\* The table shows every row once, in order, and all of them when there is
\* nothing more to load, when its pages are of one reading
\* (all_transactions, AggregateCursorCodec, uniqueRows).
\* It never shows a row twice, whatever the cache did in between.
TableInOrder ==
    scope.view = "transactions" /\ AggregateData # None =>
        LET page == AggregateData.page
            due == Sorted(page.reading \cap Matches[scope.query])
        IN  /\ Distinct(page.rows)
            /\ ToSet(page.rows) \subseteq Matches[scope.query]
            /\ page.reading # None =>
                  /\ IsPrefix(page.rows, due)
                  /\ page.hasMore <=> Len(page.rows) < Len(due)

\* A card shows its dated transactions once, in order, and all of them when
\* there is nothing more to load, when its pages are of one reading (search,
\* card_transactions, _page).
CardsInOrder ==
    scope.view = "cards" /\ ShownGroups # None /\ ShownGroups.query = scope.query =>
        \A c \in Cards :
            LET page == CardGroup(c)
                rows == page.rows
                dated == Filtered(rows, {i \in DOMAIN rows : Dated(rows[i])})
                due == Sorted({r \in page.reading \cap Matches[scope.query] :
                                  CardOf[r] = c /\ Dated(r)})
            IN  page.reading # None =>
                   /\ Distinct(rows)
                   /\ IsPrefix(dated, due)
                   /\ ~page.hasMore => dated = due

=============================================================================
