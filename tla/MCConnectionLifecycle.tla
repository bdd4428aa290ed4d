----------------------- MODULE MCConnectionLifecycle -----------------------
(* One supported bank and three Items for TLC; the last is of another bank,
   which is a wrong one to sign in to. *)
EXTENDS ConnectionLifecycle

CONSTANTS i1, i2, i3, b1

ThreeItems == {i1, i2, i3}
OneBank == {b1}
LastIsOther == [i \in Items |-> IF i = i3 THEN None ELSE b1]
=============================================================================
