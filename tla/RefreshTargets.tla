--------------------------- MODULE RefreshTargets ---------------------------
(***************************************************************************)
(* The rows of a transaction refresh: one run (the parent) and one target  *)
(* per connection the run covers, with the transitions that               *)
(* TransactionRefreshService makes on a row.  This module has no state:    *)
(* the operators return the row after a write, and SyncWorker says when    *)
(* each write happens and under which guard.                               *)
(*                                                                         *)
(* Left out of a row: timestamps, counts, the provider's request id and    *)
(* the error code, none of which the service reads back.                   *)
(***************************************************************************)
EXTENDS Naturals

ActiveRunStates == {"queued", "running"}
FinalRunStates == {"succeeded", "partial", "failed"}

\* "none": the run does not exist yet.
RunStates == {"none"} \cup ActiveRunStates \cup FinalRunStates

ActiveTargetStates == {"queued", "refreshing", "syncing"}
AcceptableTargetStates ==
    {"updated", "no_changes", "automatic_updates_only", "cooldown"}
FinalTargetStates == AcceptableTargetStates \cup
    {"reconnect_required", "outcome_unknown", "failed", "disconnected"}

Outcomes == {"not_attempted", "reserved", "dispatching", "accepted",
             "unsupported", "cooldown", "outcome_unknown", "failed"}

\* "absent": the run has no target for the connection.
Target == [state    : {"absent"} \cup ActiveTargetStates \cup FinalTargetStates,
           outcome  : Outcomes,
           required : Nat]

NoTarget == [state |-> "absent", outcome |-> "not_attempted", required |-> 0]

NewTarget(generation) ==
    [state |-> "queued", outcome |-> "not_attempted", required |-> generation]

IsActive(t) == t.state \in ActiveTargetStates

-----------------------------------------------------------------------------
(* What the provider may answer to /transactions/refresh.  The error codes *)
(* stand for their classes: a code both the gateway and the service treat  *)
(* as needing the owner, one that only the gateway's list has, and any     *)
(* other error.                                                            *)

ReconnectCodes == {"ITEM_LOGIN_REQUIRED"}
OwnerActionCodes == {"ITEM_LOGIN_REQUIRED", "INVALID_CREDENTIALS"}
FailureCodes == OwnerActionCodes \cup {"RATE_LIMIT"}
ProviderAnswers ==
    {"accepted", "unsupported", "outcome_unknown"} \cup FailureCodes

\* What prepare_reserved_target decides from the connection it has read.
Plans == {"disconnected", "unsupported", "cooldown", "dispatch"}

Reserved(t) == [t EXCEPT !.state = "refreshing", !.outcome = "reserved"]

Prepared(t, plan) ==
    CASE plan = "disconnected" ->
            [t EXCEPT !.state = "disconnected", !.outcome = "failed"]
      [] plan = "unsupported" ->
            [t EXCEPT !.state = "syncing", !.outcome = "unsupported"]
      [] plan = "cooldown" ->
            [t EXCEPT !.state = "syncing", !.outcome = "cooldown"]
      [] plan = "dispatch" -> [t EXCEPT !.outcome = "dispatching"]

Recorded(t, answer) ==
    [t EXCEPT !.state =
                 IF answer \in ReconnectCodes THEN "reconnect_required"
                                              ELSE "syncing",
              !.outcome = IF answer \in FailureCodes THEN "failed" ELSE answer]

\* Mutants of the next two: an interrupted dispatch is sent again; the state of
\* an interrupted reservation is left behind.
UnknownRetried(t) == [t EXCEPT !.state = "queued", !.outcome = "not_attempted"]
UnreservedInPlace(t) == [t EXCEPT !.outcome = "not_attempted"]

\* An interrupted dispatch may have reached the provider; an interrupted
\* reservation has not.
Unknown(t) == [t EXCEPT !.state = "syncing", !.outcome = "outcome_unknown"]
Unreserved(t) == [t EXCEPT !.state = "queued", !.outcome = "not_attempted"]

CompletedState(outcome, changed) ==
    CASE outcome = "cooldown" -> "cooldown"
      [] outcome = "unsupported" -> "automatic_updates_only"
      [] outcome \in {"outcome_unknown", "failed"} -> outcome
      [] OTHER -> IF changed THEN "updated" ELSE "no_changes"

Completed(t, changed) ==
    [t EXCEPT !.state = CompletedState(t.outcome, changed)]

MarkedFailed(t, reconnect) ==
    [t EXCEPT !.state = IF reconnect THEN "reconnect_required" ELSE "failed"]

\* Mutants: a run is final as soon as one target is; no run is ever "failed".
DerivedRunEager(s, ts) ==
    LET present == {c \in DOMAIN ts : ts[c].state # "absent"}
        acceptable == {c \in present : ts[c].state \in AcceptableTargetStates}
    IN  IF acceptable = present THEN "succeeded"
        ELSE IF acceptable = {} THEN "failed" ELSE "partial"
DerivedRunNeverFailed(s, ts) ==
    LET present == {c \in DOMAIN ts : ts[c].state # "absent"}
        acceptable == {c \in present : ts[c].state \in AcceptableTargetStates}
    IN  IF \E c \in present : IsActive(ts[c]) THEN s
        ELSE IF acceptable = present THEN "succeeded" ELSE "partial"

\* derive_run: the state of a run whose state was s and whose targets, by
\* connection, are now ts.
DerivedRun(s, ts) ==
    LET present == {c \in DOMAIN ts : ts[c].state # "absent"}
        acceptable == {c \in present : ts[c].state \in AcceptableTargetStates}
    IN  IF present = {} \/ \E c \in present : IsActive(ts[c]) THEN s
        ELSE IF acceptable = present THEN "succeeded"
        ELSE IF acceptable = {} THEN "failed"
        ELSE "partial"

=============================================================================
