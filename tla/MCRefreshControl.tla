-------------------------- MODULE MCRefreshControl --------------------------
(* Small registries and pages for TLC. *)
EXTENDS RefreshControl

OneKey == {1}
TwoKeys == 1 .. 2
OneRun == {1}
TwoRuns == 1 .. 2

AllCalls == {"post", "poll", "ask", "active"}
Recoveries == {"ask"}
=============================================================================
