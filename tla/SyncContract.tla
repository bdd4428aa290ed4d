---------------------------- MODULE SyncContract ----------------------------
(***************************************************************************)
(* What the sync queue promises each bank connection, without jobs, leases *)
(* or workers.  Every request advances a generation.  At most one pass is  *)
(* under way; it covers the generations requested before it began and none *)
(* that came later.  Only that pass can complete its generation, only for  *)
(* a connection that is still active, and a pass may be dropped.           *)
(***************************************************************************)
EXTENDS Naturals

CONSTANT Conns

VARIABLES
    status,     \* "absent", "active" or "removed"
    requested,  \* the last generation asked for
    completed,  \* the last generation a pass has covered
    pass        \* the generation the current pass covers, 0 if none

contractVars == <<status, requested, completed, pass>>

Init ==
    /\ status = [c \in Conns |-> "absent"]
    /\ requested = [c \in Conns |-> 0]
    /\ completed = [c \in Conns |-> 0]
    /\ pass = [c \in Conns |-> 0]

\* A new connection comes with its first request.
Connect(c) ==
    /\ status[c] = "absent"
    /\ status' = [status EXCEPT ![c] = "active"]
    /\ requested' = [requested EXCEPT ![c] = 1]
    /\ UNCHANGED <<completed, pass>>

Request(cs) ==
    /\ \A c \in cs : status[c] = "active"
    /\ requested' = [c \in Conns |-> IF c \in cs THEN requested[c] + 1
                                                 ELSE requested[c]]
    /\ UNCHANGED <<status, completed, pass>>

Remove(c) ==
    /\ status[c] = "active"
    /\ status' = [status EXCEPT ![c] = "removed"]
    /\ UNCHANGED <<requested, completed, pass>>

Begin(c) ==
    /\ pass[c] = 0
    /\ completed[c] < requested[c]
    /\ pass' = [pass EXCEPT ![c] = requested[c]]
    /\ UNCHANGED <<status, requested, completed>>

Complete(c) ==
    /\ pass[c] # 0
    /\ status[c] = "active"
    /\ completed' = [completed EXCEPT ![c] = pass[c]]
    /\ pass' = [pass EXCEPT ![c] = 0]
    /\ UNCHANGED <<status, requested>>

Drop(cs) ==
    /\ pass' = [c \in Conns |-> IF c \in cs THEN 0 ELSE pass[c]]
    /\ UNCHANGED <<status, requested, completed>>

Next ==
    \/ \E cs \in SUBSET Conns : Request(cs) \/ Drop(cs)
    \/ \E c \in Conns : Connect(c) \/ Remove(c) \/ Begin(c) \/ Complete(c)

Spec == Init /\ [][Next]_contractVars

=============================================================================
