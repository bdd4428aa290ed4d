---------------------------- MODULE MCCacheSync ----------------------------
(* Instances of CacheSync for TLC: one row of a card, one of an account   *)
(* that is no card.                                                        *)
EXTENDS CacheSync, TLC

CONSTANTS i1, i2, a1, a2, w1, w2

TwoIds == {i1, i2}
TwoAccounts == {a1, a2}
OneCard == {a1}
MCAccountOf == [i \in Ids |-> IF i = i2 THEN a2 ELSE a1]
TwoWorkers == {w1, w2}

=============================================================================
