---------------------------- MODULE MCDefinitions ----------------------------
(* Three cards of two banks and a few transactions and requests for TLC. *)
EXTENDS Definitions

CONSTANTS c1, c2, c3, x, y

MCCards == {c1, c2, c3}
MCBankOf == [c \in MCCards |-> IF c = c3 THEN y ELSE x]
Letters == {"a", "b", "A", "B", " "}
Lower == [k \in Letters |-> CASE k = "A" -> "a" [] k = "B" -> "b" [] OTHER -> k]

Row(card, text, date, cents, usd, pending) ==
    [card |-> card, text |-> text, date |-> date, cents |-> cents, usd |-> usd,
     pending |-> pending]

\* 1 and 2 differ in their currency, 3 has no date, 4 is pending.
MCTransaction ==
    <<Row(c1, <<"a", "b", "A", "b">>, 1, 2, TRUE, FALSE),
      Row(c1, <<"a", "b", "A", "b">>, 1, 2, FALSE, FALSE),
      Row(c1, <<" ", "A", "b", "a">>, None, -1, TRUE, FALSE),
      Row(c1, <<"a", "b", " ", " ", "B">>, 2, 3, TRUE, TRUE),
      Row(c2, <<"B", "a", "b", "a">>, 2, 1, TRUE, FALSE),
      Row(c3, <<"b">>, 2, 2, TRUE, FALSE)>>

\* Two words of the index with a common prefix, one without, and a short one.
Aba == <<"A", "b", "a">>
Abab == <<"a", "b", "a", "b", " ">>
AbB == <<"a", "b", " ", " ", "b">>
B == <<" ", "B">>
Blank == <<" ">>

AllTime == [type |-> "all_time", days |-> None, start |-> None, end |-> None]
Rolling(n) == [type |-> "rolling", days |-> n, start |-> None, end |-> None]
Fixed(a, b) == [type |-> "fixed", days |-> None, start |-> a, end |-> b]

Ask(keyword, metric, threshold, total, scope, ids, window) ==
    [keyword |-> keyword, metric |-> metric, threshold |-> threshold, total |-> total,
     scope |-> scope, cards |-> ids, window |-> window, enabled |-> TRUE]

MCCreations ==
    {Ask(Aba, "count", 2, None, "all_cards", {}, AllTime),
     Ask(Abab, "net_total_usd", None, 2, "selected_cards", {c1}, AllTime),
     Ask(AbB, "count", 1, None, "selected_cards", {c1, c2}, Rolling(1)),
     Ask(B, "net_total_usd", None, 1, "all_cards", {}, Fixed(1, 2)),
     \* refused
     Ask(B, "count", 1, None, "all_cards", {c1}, AllTime),
     Ask(Blank, "count", 1, None, "all_cards", {}, AllTime),
     Ask(Aba, "count", None, 2, "all_cards", {}, AllTime)}

Fields == {"keyword", "metric", "threshold", "total", "scope", "cards", "window", "enabled"}
Absent(p) == Cardinality({f \in Fields : p[f] = None})

\* Patches of at most two fields.
MCPatches ==
    {p \in [keyword   : {None, B, Blank},
            metric    : {None, "count", "net_total_usd"},
            threshold : {None, 1},
            total     : {None, 3},
            scope     : {None, "all_cards", "selected_cards"},
            cards     : {None, {}, {c2}, {c1, c3}},
            window    : {None, AllTime, Rolling(2), Fixed(2, 1)},
            enabled   : {None, FALSE}] : Absent(p) \in {6, 7}}

MCAggregateCreations ==
    {[keyword |-> Abab, scope |-> "selected_cards", cards |-> {c1}],
     [keyword |-> B, scope |-> "all_cards", cards |-> {}],
     [keyword |-> Blank, scope |-> "all_cards", cards |-> {}]}
MCAggregatePatches ==
    [keyword : {None, AbB}, scope : {None, "all_cards", "selected_cards"},
     cards : {None, {}, {c2}, {c1, c3}}]
=============================================================================
