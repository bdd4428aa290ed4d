----------------------------- MODULE Definitions -----------------------------
(***************************************************************************)
(* What the owner defines over the local cache, and what is derived from   *)
(* it: transaction limits with their alerts, saved aggregates with their   *)
(* totals, and the summaries of a search.                                  *)
(*                                                                         *)
(* A request of the owner is one step: resolving the session writes        *)
(* last_seen_at, so each request holds SQLite's write lock to its end.     *)
(* Between requests a pass changes the cache, a bank is linked or          *)
(* disconnected, and the days go by.                                       *)
(*                                                                         *)
(* Text is a sequence of characters, of which one is the space; case       *)
(* folding and Unicode normalization map one character to one.             *)
(***************************************************************************)
EXTENDS Integers, FiniteSets, SequencesExt

CONSTANTS
    RuleIds,
    AggregateIds,
    Cards,
    Banks,
    BankOf,        \* the bank of a card
    Rows,          \* transactions
    Transaction,   \* their contents
    Chars,
    Space,
    Folded,        \* casefold
    QueryLength,   \* MAX_QUERY_LENGTH
    TrigramMinimum,
    MaxThreshold,
    MaxCents,
    MaxDays,
    None,
    Creations,     \* requests the owner may send
    Patches,
    AggregateCreations,
    AggregatePatches,
    BanksAtFirst,
    MaxEdits,      \* bound: requests
    MaxSyncs,      \* bound: changes of the cache by passes
    LastDay        \* bound: days

VARIABLES
    active,     \* banks whose connection is active
    unlinked,   \* banks not yet linked: a card's id is never used again
    cards,      \* card_accounts
    cached,     \* transactions
    rule,       \* transaction_limitations and transaction_limitation_cards
    aggregate,  \* transaction_aggregates and transaction_aggregate_cards
    today,      \* the host's date
    wanted,     \* what the owner last asked of each rule (history)
    edits,
    syncs

bank == <<active, unlinked, cards>>
vars == <<active, unlinked, cards, cached, rule, aggregate, today, wanted, edits, syncs>>

-----------------------------------------------------------------------------
(* Text *)

\* Folding leaves what it has folded, and makes no spaces.
ASSUME TextAssumption ==
    /\ Space \in Chars
    /\ Folded \in [Chars -> Chars]
    /\ \A x \in Chars : Folded[Folded[x]] = Folded[x] /\ (Folded[x] = Space <=> x = Space)
    /\ QueryLength \in Nat /\ TrigramMinimum \in Nat

\* str.strip
Strip(s) ==
    LET marks == {i \in DOMAIN s : s[i] # Space}
    IN  IF marks = {} THEN <<>> ELSE SubSeq(s, Min(marks), Max(marks))

\* " ".join(s.casefold().split())
Collapsed(s) ==
    FoldLeft(LAMBDA t, x : IF x = Space /\ t # <<>> /\ Last(t) = Space
                             THEN t ELSE Append(t, Folded[x]),
             <<>>, Strip(s))

Limited(s) == SubSeq(s, 1, Min({Len(s), QueryLength}))
Normalized(s) == Collapsed(Limited(Strip(s)))

\* normalize_search_text, of all the text of a transaction
SearchText == [r \in Rows |-> Collapsed(Transaction[r].text)]

UsesIndex(q) == Len(q) >= TrigramMinimum

\* A phrase shorter than a trigram is not in the index.
InIndex(phrase, text) == UsesIndex(phrase) /\ phrase \in SubSeqs(text)
Like(q, text) == q \in SubSeqs(text)

\* transaction_match_filter
Matches(q, r) ==
    \/ q = <<>>
    \/ UsesIndex(q) /\ InIndex(q, SearchText[r])
    \/ ~UsesIndex(q) /\ Like(q, SearchText[r])

-----------------------------------------------------------------------------
(* Rows *)

Metrics == {"count", "net_total_usd"}
Scopes == {"all_cards", "selected_cards"}

\* TransactionWindow: the fields that a type does not have are null.
Window ==
    [type : {"all_time"}, days : {None}, start : {None}, end : {None}]
        \cup [type : {"rolling"}, days : Nat, start : {None}, end : {None}]
        \cup [type : {"fixed"}, days : {None}, start : Int, end : Int]

Rule == [keyword    : Seq(Chars),
         normalized : Seq(Chars),
         metric     : Metrics,
         threshold  : Nat,
         total      : Nat \cup {None},
         scope      : Scopes,
         links      : SUBSET Cards,
         window     : Window,
         enabled    : BOOLEAN]

Aggregate == [keyword    : Seq(Chars),
              normalized : Seq(Chars),
              scope      : Scopes,
              links      : SUBSET Cards]

\* What the owner may ask for; in a patch, a field may be absent.
Creation == [keyword   : Seq(Chars),
             metric    : Metrics,
             threshold : Nat \cup {None},
             total     : Nat \cup {None},
             scope     : Scopes,
             cards     : SUBSET Cards,
             window    : Window,
             enabled   : BOOLEAN]
Patch == [keyword   : Seq(Chars) \cup {None},
          metric    : Metrics \cup {None},
          threshold : Nat \cup {None},
          total     : Nat \cup {None},
          scope     : Scopes \cup {None},
          cards     : (SUBSET Cards) \cup {None},
          window    : Window \cup {None},
          enabled   : BOOLEAN \cup {None}]
\* What the owner has asked for of a rule: the last that was given of each field.
Wish == [keyword : Seq(Chars),
         metric  : Metrics,
         limit   : Nat,
         scope   : Scopes,
         cards   : SUBSET Cards,
         window  : Window,
         enabled : BOOLEAN]

ASSUME NoneAssumption ==
    /\ None \notin Int
    /\ None \notin Seq(Chars)
    /\ None \notin Metrics \cup Scopes
    /\ \A ids \in SUBSET Cards : None # ids
    /\ None \notin BOOLEAN
    /\ None \notin Window
    /\ None \notin Rule
    /\ None \notin Aggregate
    /\ None \notin Wish

ASSUME RequestsAssumption ==
    /\ Creations \subseteq Creation
    /\ Patches \subseteq Patch
    /\ AggregateCreations \subseteq
           [keyword : Seq(Chars), scope : Scopes, cards : SUBSET Cards]
    /\ AggregatePatches \subseteq
           [keyword : Seq(Chars) \cup {None}, scope : Scopes \cup {None},
            cards : (SUBSET Cards) \cup {None}]

ASSUME RowsAssumption ==
    /\ IsFiniteSet(Rows) /\ IsFiniteSet(Cards)
    /\ Transaction \in [Rows -> [card : Cards, text : Seq(Chars), date : Int \cup {None},
                                 cents : Int, usd : BOOLEAN, pending : BOOLEAN]]
    /\ BankOf \in [Cards -> Banks]
    /\ BanksAtFirst \subseteq Banks

ASSUME BoundsAssumption ==
    /\ MaxThreshold \in Nat \ {0} /\ MaxCents \in Nat /\ MaxDays \in Nat
    /\ MaxEdits \in Nat /\ MaxSyncs \in Nat /\ LastDay \in Nat \ {0}

\* The CHECK constraints of transaction_limitations.
WindowChecked(w) ==
    \/ w.type = "all_time" /\ w.days = None /\ w.start = None /\ w.end = None
    \/ w.type = "rolling" /\ w.days \in 1 .. MaxDays /\ w.start = None /\ w.end = None
    \/ w.type = "fixed" /\ w.days = None /\ w.start # None /\ w.end # None /\ w.start <= w.end
Checked(d) ==
    /\ d.threshold \in 1 .. MaxThreshold
    /\ \/ d.metric = "count" /\ d.total = None
       \/ d.metric = "net_total_usd" /\ d.total \in 1 .. MaxCents
    /\ d.scope \in Scopes
    /\ WindowChecked(d.window)

TypeOK ==
    /\ active \subseteq Banks
    /\ unlinked \subseteq Banks
    /\ cards \subseteq Cards
    /\ cached \subseteq Rows
    /\ rule \in [RuleIds -> Rule \cup {None}]
    /\ \A r \in RuleIds : rule[r] # None => Checked(rule[r])
    /\ aggregate \in [AggregateIds -> Aggregate \cup {None}]
    /\ wanted \in [RuleIds -> Wish \cup {None}]
    /\ today \in 1 .. LastDay
    /\ edits \in 0 .. MaxEdits
    /\ syncs \in 0 .. MaxSyncs

\* list_cards
ActiveCards == {c \in cards : BankOf[c] \in active}

-----------------------------------------------------------------------------
(* Transaction limits *)

\* An absent or null field keeps the stored value.
Given(new, old) == IF new = None THEN old ELSE new

WindowValid(w) ==
    /\ w.type = "rolling" => w.days \in 1 .. MaxDays
    /\ w.type = "fixed" => w.start <= w.end

\* The validators of the request models.
Valid(p) ==
    /\ p.threshold # None => p.threshold \in 1 .. MaxThreshold
    /\ p.total # None => p.total \in 1 .. MaxCents
    /\ p.metric = "count" => p.threshold # None /\ p.total = None
    /\ p.metric = "net_total_usd" => p.threshold = None /\ p.total # None
    /\ p.keyword # None => p.keyword # <<>>
    /\ p.window # None => WindowValid(p.window)

\* _validate_cards
Selectable(scope, ids) ==
    \/ scope = "all_cards" /\ ids = {}
    \/ scope = "selected_cards" /\ ids # {} /\ ids \subseteq ActiveCards

\* Mutant: only a request that gives cards is validated.
PatchSelectableIfGiven(d, p) ==
    p.cards # None => Selectable(Given(p.scope, d.scope), p.cards)

\* The selection that a patch leaves, if it is about scope or cards.
PatchSelectable(d, p) ==
    p.scope # None \/ p.cards # None =>
        Selectable(Given(p.scope, d.scope), Given(p.cards, d.links))

NamesSomething(keyword) == Normalized(keyword) # <<>>

\* Mutant: the other metric's limit is kept.
LimitsKept(d, p) ==
    [d EXCEPT !.metric = Given(p.metric, @),
              !.threshold = Given(p.threshold, @),
              !.total = Given(p.total, @)]

\* The part of a row that says when it alerts.
Limits(d, p) ==
    LET metric == Given(p.metric, d.metric)
    IN  [d EXCEPT !.metric = metric,
                  !.threshold = IF metric = "count" THEN Given(p.threshold, @) ELSE 1,
                  !.total = IF metric = "count" THEN None ELSE Given(p.total, @)]

Merged(d, p) ==
    [Limits(d, p) EXCEPT
        !.keyword = IF p.keyword = None THEN @ ELSE Strip(p.keyword),
        !.normalized = IF p.keyword = None THEN @ ELSE Normalized(p.keyword),
        !.scope = Given(p.scope, @),
        !.window = Given(p.window, @),
        !.enabled = Given(p.enabled, @),
        !.links = Given(p.cards, @)]

LimitOf(p) == IF p.threshold # None THEN p.threshold ELSE p.total

\* What the owner has asked for by field (history).
Wanted(w, p) ==
    [keyword |-> IF p.keyword = None THEN w.keyword ELSE p.keyword,
     metric  |-> Given(p.metric, w.metric),
     limit   |-> Given(LimitOf(p), w.limit),
     scope   |-> Given(p.scope, w.scope),
     cards   |-> Given(p.cards, w.cards),
     window  |-> Given(p.window, w.window),
     enabled |-> Given(p.enabled, w.enabled)]
NothingWanted ==
    [keyword |-> <<>>, metric |-> None, limit |-> None, scope |-> None, cards |-> {},
     window |-> None, enabled |-> FALSE]

Edit == edits < MaxEdits /\ edits' = edits + 1

\* create_rule
CreateRule(r, p) ==
    /\ rule[r] = None
    /\ Edit
    /\ Valid(p)
    /\ NamesSomething(p.keyword)
    /\ Selectable(p.scope, p.cards)
    /\ rule' = [rule EXCEPT ![r] =
                   [keyword    |-> Strip(p.keyword),
                    normalized |-> Normalized(p.keyword),
                    metric     |-> p.metric,
                    threshold  |-> Given(p.threshold, 1),
                    total      |-> p.total,
                    scope      |-> p.scope,
                    links      |-> p.cards,
                    window     |-> p.window,
                    enabled    |-> p.enabled]]
    /\ wanted' = [wanted EXCEPT ![r] = Wanted(NothingWanted, p)]
    /\ UNCHANGED <<bank, cached, aggregate, today, syncs>>

\* update_rule
UpdateRule(r, p) ==
    /\ rule[r] # None
    /\ Edit
    /\ Valid(p)
    /\ PatchSelectable(rule[r], p)
    /\ p.threshold # None => Given(p.metric, rule[r].metric) = "count"
    /\ p.total # None => Given(p.metric, rule[r].metric) = "net_total_usd"
    /\ p.keyword # None => NamesSomething(p.keyword)
    /\ rule' = [rule EXCEPT ![r] = Merged(@, p)]
    /\ wanted' = [wanted EXCEPT ![r] = Wanted(@, p)]
    /\ UNCHANGED <<bank, cached, aggregate, today, syncs>>

\* delete_rule
DeleteRule(r) ==
    /\ rule[r] # None
    /\ Edit
    /\ rule' = [rule EXCEPT ![r] = None]
    /\ wanted' = [wanted EXCEPT ![r] = None]
    /\ UNCHANGED <<bank, cached, aggregate, today, syncs>>

-----------------------------------------------------------------------------
(* Saved aggregates *)

\* create_aggregate
CreateAggregate(a, p) ==
    /\ aggregate[a] = None
    /\ Edit
    /\ p.keyword # <<>> /\ NamesSomething(p.keyword)
    /\ Selectable(p.scope, p.cards)
    /\ aggregate' = [aggregate EXCEPT ![a] =
                        [keyword    |-> Strip(p.keyword),
                         normalized |-> Normalized(p.keyword),
                         scope      |-> p.scope,
                         links      |-> p.cards]]
    /\ UNCHANGED <<bank, cached, rule, wanted, today, syncs>>

\* update_aggregate: unlike a limit's, its selection goes when the scope
\* becomes all cards.
UpdateAggregate(a, p) ==
    /\ aggregate[a] # None
    /\ Edit
    /\ LET d == aggregate[a]
           ids == IF p.cards # None THEN p.cards
                  ELSE IF p.scope = "all_cards" THEN {} ELSE d.links
           chosen == p.scope # None \/ p.cards # None
       IN  /\ chosen => Selectable(Given(p.scope, d.scope), ids)
           /\ p.keyword # None => p.keyword # <<>> /\ NamesSomething(p.keyword)
           /\ aggregate' = [aggregate EXCEPT ![a] =
                  [keyword    |-> IF p.keyword = None THEN d.keyword ELSE Strip(p.keyword),
                   normalized |-> IF p.keyword = None THEN d.normalized
                                  ELSE Normalized(p.keyword),
                   scope      |-> Given(p.scope, d.scope),
                   links      |-> IF chosen THEN ids ELSE d.links]]
    /\ UNCHANGED <<bank, cached, rule, wanted, today, syncs>>

\* delete_aggregate
DeleteAggregate(a) ==
    /\ aggregate[a] # None
    /\ Edit
    /\ aggregate' = [aggregate EXCEPT ![a] = None]
    /\ UNCHANGED <<bank, cached, rule, wanted, today, syncs>>

-----------------------------------------------------------------------------
(* Banks, passes and days *)

\* ON DELETE CASCADE from card_accounts to the selections.
Unlinked(rows, gone) ==
    [x \in DOMAIN rows |->
        IF rows[x] = None THEN None ELSE [rows[x] EXCEPT !.links = @ \ gone]]

OfBank(b) == {c \in Cards : BankOf[c] = b}

\* exchange_public_token: the new connection's cards.
Link(b) ==
    /\ b \in unlinked
    /\ unlinked' = unlinked \ {b}
    /\ active' = active \cup {b}
    /\ cards' = cards \cup OfBank(b)
    /\ UNCHANGED <<cached, rule, aggregate, wanted, today, edits, syncs>>

\* disconnect
Disconnect(b) ==
    /\ b \in active
    /\ active' = active \ {b}
    /\ cards' = cards \ OfBank(b)
    /\ cached' = {r \in cached : Transaction[r].card \notin OfBank(b)}
    /\ rule' = Unlinked(rule, OfBank(b))
    /\ aggregate' = Unlinked(aggregate, OfBank(b))
    /\ UNCHANGED <<unlinked, wanted, today, edits, syncs>>

\* A pass adds or removes a transaction.
Sync(r) ==
    /\ syncs < MaxSyncs
    /\ Transaction[r].card \in ActiveCards
    /\ syncs' = syncs + 1
    /\ cached' = IF r \in cached THEN cached \ {r} ELSE cached \cup {r}
    /\ UNCHANGED <<bank, rule, aggregate, wanted, today, edits>>

NextDay ==
    /\ today < LastDay
    /\ today' = today + 1
    /\ UNCHANGED <<bank, cached, rule, aggregate, wanted, edits, syncs>>

Init ==
    /\ active = BanksAtFirst
    /\ unlinked = Banks \ BanksAtFirst
    /\ cards = {c \in Cards : BankOf[c] \in BanksAtFirst}
    /\ cached = {r \in Rows : Transaction[r].card \in cards}
    /\ rule = [r \in RuleIds |-> None]
    /\ aggregate = [a \in AggregateIds |-> None]
    /\ wanted = [r \in RuleIds |-> None]
    /\ today = 1
    /\ edits = 0
    /\ syncs = 0

Next ==
    \/ \E r \in RuleIds :
          \/ \E p \in Creations : CreateRule(r, p)
          \/ \E p \in Patches : UpdateRule(r, p)
          \/ DeleteRule(r)
    \/ \E a \in AggregateIds :
          \/ \E p \in AggregateCreations : CreateAggregate(a, p)
          \/ \E p \in AggregatePatches : UpdateAggregate(a, p)
          \/ DeleteAggregate(a)
    \/ \E b \in Banks : Link(b) \/ Disconnect(b)
    \/ \E r \in Rows : Sync(r)
    \/ NextDay

Spec == Init /\ [][Next]_vars

-----------------------------------------------------------------------------
(* Summaries *)

CentsOf(S) == MapThenSumSet(LAMBDA r : Transaction[r].cents, S)
Usd(S) == {r \in S : Transaction[r].usd}
Pending(S) == {r \in S : Transaction[r].pending}

\* Mutant: amounts of every currency are added.
SummaryOfAllCurrencies(S) ==
    [count |-> Cardinality(Usd(S)),
     pending |-> Cardinality(Pending(Usd(S))),
     purchases |-> CentsOf({r \in Usd(S) : Transaction[r].cents > 0}),
     refunds |-> -CentsOf({r \in Usd(S) : Transaction[r].cents < 0}),
     net |-> CentsOf(S)]

\* transaction_summary_columns
Summary(S) ==
    LET usd == Usd(S)
    IN  [count     |-> Cardinality(usd),
         pending   |-> Cardinality(Pending(usd)),
         purchases |-> CentsOf({r \in usd : Transaction[r].cents > 0}),
         refunds   |-> -CentsOf({r \in usd : Transaction[r].cents < 0}),
         net       |-> CentsOf(usd)]

OnCard(c) == {r \in cached : Transaction[r].card = c}

\* search: the summary of one card's whole result.
CardSummary(c, query) ==
    LET q == Normalized(query) IN Summary({r \in OnCard(c) : Matches(q, r)})

\* all_transactions: the summary of the whole result.
AllSummary(query) ==
    LET q == Normalized(query)
    IN  Summary({r \in cached : Transaction[r].card \in ActiveCards /\ Matches(q, r)})

\* aggregateUsdSummaries
FieldTotal(summaries, f) == MapThenSumSet(LAMBDA c : summaries[c][f], DOMAIN summaries)
Totalled(summaries) ==
    [count     |-> FieldTotal(summaries, "count"),
     pending   |-> FieldTotal(summaries, "pending"),
     purchases |-> FieldTotal(summaries, "purchases"),
     refunds   |-> FieldTotal(summaries, "refunds"),
     net       |-> FieldTotal(summaries, "net")]

\* The cards that a limit or an aggregate is about.
TargetCards(d) == IF d.scope = "all_cards" THEN ActiveCards ELSE d.links \cap ActiveCards

\* evaluate_saved_aggregates
SavedTotals ==
    UNION {{[id      |-> a,
             keyword |-> aggregate[a].keyword,
             card    |-> c,
             summary |-> Summary({r \in OnCard(c) :
                                    Matches(Normalized(aggregate[a].normalized), r)})] :
                c \in TargetCards(aggregate[a])} :
           a \in {x \in AggregateIds : aggregate[x] # None}}

-----------------------------------------------------------------------------
(* evaluate_active_alerts *)

\* Rules with a limit and a card.
Prepared ==
    {r \in RuleIds :
        /\ rule[r] # None
        /\ rule[r].enabled
        /\ rule[r].metric = "net_total_usd" => rule[r].total # None
        /\ TargetCards(rule[r]) # {}}

Queries == [r \in Prepared |-> Normalized(rule[r].keyword)]
Start(w) == IF w.type = "rolling" THEN today - w.days + 1 ELSE w.start
End(w) == IF w.type = "rolling" THEN today ELSE w.end

\* _batched_match_filter: one phrase for the queries of the index if they have
\* a prefix that is long enough.
Batched(queries, text) ==
    LET indexed == {q \in queries : UsesIndex(q)}
        shared == Strip(LongestCommonPrefix(indexed))
        phrases == IF UsesIndex(shared) THEN {Normalized(shared)} ELSE indexed
    IN  \/ indexed # {} /\ \E q \in phrases : InIndex(q, text)
        \/ \E q \in queries \ indexed : Like(q, text)

\* One query for all rules.
Fetched(queries) ==
    LET targets == UNION {TargetCards(rule[r]) : r \in Prepared}
        texts == {t \in Range(SearchText) : Batched(Range(queries), t)}
    IN  {x \in cached : Transaction[x].card \in targets /\ SearchText[x] \in texts}

InWindow(w, date) ==
    w.type = "all_time" \/ (date # None /\ Start(w) <= date /\ date <= End(w))

\* The rules that a row counts for.
MatchingRules(x, queries) ==
    {r \in Prepared :
        /\ Transaction[x].card \in TargetCards(rule[r])
        /\ Like(queries[r], SearchText[x])
        /\ rule[r].metric = "net_total_usd" => Transaction[x].usd
        /\ InWindow(rule[r].window, Transaction[x].date)}

\* Mutant: the currency is not part of the key.
MemoKeyWithoutCurrency(x) == <<Transaction[x].card, SearchText[x], Transaction[x].date>>

\* matching_rules_cache: the rules of the rows with one key are found once.
MemoKey(x) ==
    <<Transaction[x].card, SearchText[x], Transaction[x].date, Transaction[x].usd>>

\* counts
Counted ==
    LET queries == Queries
        fetched == Fetched(queries)
        memo == [k \in {MemoKey(x) : x \in fetched} |->
                    MatchingRules(CHOOSE x \in fetched : MemoKey(x) = k, queries)]
    IN  [r \in Prepared |-> [c \in Cards |->
            {x \in fetched : Transaction[x].card = c /\ r \in memo[MemoKey(x)]}]]

Exceeds(d, rows) ==
    IF d.metric = "net_total_usd" THEN CentsOf(rows) >= d.total
    ELSE Cardinality(rows) >= d.threshold

Alert(r, c, rows) == [rule |-> r, card |-> c,
                      count |-> Cardinality(rows),
                      pending |-> Cardinality(Pending(rows)),
                      total |-> CentsOf(rows),
                      pendingTotal |-> CentsOf(Pending(rows))]

Alerts ==
    LET counted == Counted
    IN  UNION {{Alert(r, c, counted[r][c]) :
                   c \in {k \in TargetCards(rule[r]) : Exceeds(rule[r], counted[r][k])}} :
               r \in Prepared}

-----------------------------------------------------------------------------
(* Properties *)

\* A rule, taken by itself, card by card, as the owner last asked for it.
DueRows(w, c) ==
    LET q == Normalized(w.keyword)
    IN  {x \in OnCard(c) :
            /\ Like(q, SearchText[x])
            /\ w.metric = "net_total_usd" => Transaction[x].usd
            /\ CASE w.window.type = "all_time" -> TRUE
                 [] w.window.type = "rolling" ->
                        Transaction[x].date \in today - w.window.days + 1 .. today
                 [] w.window.type = "fixed" ->
                        Transaction[x].date \in w.window.start .. w.window.end}
Due(w, c) ==
    /\ w # None
    /\ w.enabled
    /\ c \in ActiveCards
    /\ w.scope = "all_cards" \/ c \in w.cards
    /\ LET rows == DueRows(w, c)
       IN  IF w.metric = "count" THEN Cardinality(rows) >= w.limit
           ELSE CentsOf(rows) >= w.limit

\* The alerts are those that the rules, as the owner last asked for them and
\* each taken by itself, call for: merging patches, losing cards, one query for
\* all rules and remembering the rules of a row change nothing (update_rule,
\* evaluate_active_alerts, disconnect).
AlertsExact ==
    Alerts = {Alert(x[1], x[2], DueRows(wanted[x[1]], x[2])) :
                 x \in {y \in RuleIds \X Cards : Due(wanted[y[1]], y[2])}}

\* What is said of one keyword agrees wherever it is said: the cards of a
\* search add up to the table's summary, a saved aggregate shows what searching
\* for its keyword shows, and so does an alert on a total of all time.
TotalsAgree ==
    /\ \A query \in {p.keyword : p \in AggregateCreations} :
          AllSummary(query) = Totalled([c \in ActiveCards |-> CardSummary(c, query)])
    /\ \A s \in SavedTotals :
          /\ s.summary = CardSummary(s.card, s.keyword)
          /\ s.summary.net = s.summary.purchases - s.summary.refunds
    /\ \A a \in Alerts :
          LET d == rule[a.rule]
          IN  d.metric = "net_total_usd" /\ d.window.type = "all_time" =>
                 LET s == CardSummary(a.card, d.keyword)
                 IN  /\ a.count = s.count
                     /\ a.pending = s.pending
                     /\ a.total = s.net

\* Only a selection has cards, and only cards that there are: a rule for all
\* cards never keeps some of them, and no rule keeps a removed one
\* (_validate_cards, the cascades of disconnect).
ScopeKept ==
    \A d \in {rule[r] : r \in RuleIds} \cup {aggregate[a] : a \in AggregateIds} :
        d # None => /\ d.scope = "all_cards" => d.links = {}
                    /\ d.links \subseteq ActiveCards
=============================================================================
