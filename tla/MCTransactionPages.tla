------------------------- MODULE MCTransactionPages -------------------------
(* A few transactions of two cards and two queries for TLC. *)
EXTENDS TransactionPages

CONSTANTS c1, c2, q1, q2

FiveRows == 1 .. 5
\* Two cards with more than one page; 1 has no date, 2 and 3 share one.
TwoCardsOf == [r \in FiveRows |-> IF r > 3 THEN c2 ELSE c1]
SomeDates == [r \in FiveRows |-> CASE r = 1 -> 0 [] r = 4 -> 2 [] OTHER -> 1]
BlankOrSome == [q \in Queries |-> IF q = q1 THEN FiveRows ELSE {1, 3, 4}]
=============================================================================
