---------------------------- MODULE MCSyncWorker ----------------------------
(* Instances of SyncWorker for TLC. *)
EXTENDS SyncProperties, TLC

CONSTANTS c1, c2, r1, r2, w1, w2, t1, t2

OneConn == {c1}
TwoConns == {c1, c2}
OneRun == {r1}
TwoRuns == {r1, r2}
OneWorker == {w1}
TwoWorkers == {w1, w2}
TwoTokens == {t1, t2}

NoFaults == {}
LeaseFaults == {"lease_stall", "clock_in_recovery"}
LocalErrors == {"local_error"}

\* Answers and errors that do not ask the owner to act, and all of them.
PlainAnswers == {"accepted", "unsupported", "outcome_unknown", "RATE_LIMIT"}
AllAnswers == ProviderAnswers
AcceptedOnly == {"accepted"}
PermanentErrors == {"permanent"}
AllErrors == SyncErrorClasses

Symmetry == Permutations({c1, c2}) \cup Permutations({r1, r2})
            \cup Permutations({t1, t2}) \cup Permutations({w1, w2})

=============================================================================
