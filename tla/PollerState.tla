----------------------------- MODULE PollerState -----------------------------
(***************************************************************************)
(* The state record of one poller, internal/manager/state.go: its admin,   *)
(* oper and health states and the dirty flag, and the methods that change  *)
(* them.  Every method holds the record's mutex, so it is a function from  *)
(* records to records.  The two counters are only compared with their      *)
(* thresholds and are kept at most there.  Error texts and time stamps are *)
(* left out.  MarkError is left out: nothing calls it.                     *)
(***************************************************************************)
EXTENDS Naturals

CONSTANTS HealthDegradedThreshold, HealthDownThreshold, HealthRecoveryCount

ASSUME ThresholdAssumption ==
  /\ HealthDegradedThreshold \in Nat \ {0}
  /\ HealthDownThreshold \in Nat \ {0}
  /\ HealthRecoveryCount \in Nat \ {0}
  /\ HealthDegradedThreshold <= HealthDownThreshold

AdminStates == {"enabled", "disabled"}
OperStates == {"stopped", "starting", "running", "stopping", "error"}
HealthStates == {"unknown", "up", "degraded", "down"}

PollerStates ==
  [admin : AdminStates, oper : OperStates, health : HealthStates,
   failures : 0 .. HealthDownThreshold, successes : 0 .. HealthRecoveryCount,
   dirty : BOOLEAN]

NewPollerState ==
  [admin |-> "disabled", oper |-> "stopped", health |-> "unknown",
   failures |-> 0, successes |-> 0, dirty |-> FALSE]

SetAdmin(s, admin) == [s EXCEPT !.admin = admin, !.dirty = TRUE]

\* The errors of Start ("admin state is disabled", "currently stopping") are
\* ignored by every caller.
Start(s) ==
  IF s.admin = "enabled" /\ s.oper \in {"stopped", "error"}
  THEN [s EXCEPT !.oper = "starting", !.dirty = TRUE]
  ELSE s

MarkRunning(s) ==
  IF s.oper = "starting" THEN [s EXCEPT !.oper = "running", !.dirty = TRUE]
                         ELSE s

Stop(s) ==
  CASE s.oper \in {"running", "starting"} ->
         [s EXCEPT !.oper = "stopping", !.dirty = TRUE]
    [] s.oper \in {"stopped", "stopping"} -> s
    [] s.oper = "error" -> [s EXCEPT !.oper = "stopped", !.dirty = TRUE]

MarkStopped(s) == [s EXCEPT !.oper = "stopped", !.dirty = TRUE]

ClearDirty(s) == [s EXCEPT !.dirty = FALSE]

Inc(n, max) == IF n < max THEN n + 1 ELSE max

\* Mutant of RecordSuccess: the failures are not counted from zero again.
RecordSuccessKeepsFailures(s) ==
  [s EXCEPT !.successes = Inc(@, HealthRecoveryCount), !.health = "up",
            !.dirty = TRUE]

RecordSuccess(s) ==
  LET n == Inc(s.successes, HealthRecoveryCount)
      stillDown == s.health = "down" /\ n < HealthRecoveryCount
  IN  [s EXCEPT !.failures = 0, !.successes = n,
                !.health = IF stillDown THEN "down" ELSE "up",
                !.dirty = TRUE]

HealthAfter(failures, health) ==
  CASE failures >= HealthDownThreshold -> "down"
    [] /\ failures < HealthDownThreshold
       /\ failures >= HealthDegradedThreshold -> "degraded"
    [] failures < HealthDegradedThreshold -> health

RecordFailure(s) ==
  LET n == Inc(s.failures, HealthDownThreshold)
  IN  [s EXCEPT !.failures = n, !.successes = 0,
                !.health = HealthAfter(n, s.health), !.dirty = TRUE]

RecordPollResult(s, success) ==
  IF success THEN RecordSuccess(s) ELSE RecordFailure(s)

\* The columns of the poller_state row a state is saved to.
Saved(s) == [oper |-> s.oper, health |-> s.health, failures |-> s.failures]

SavedStates ==
  [oper : OperStates, health : HealthStates,
   failures : 0 .. HealthDownThreshold]

\* The health of a poller agrees with its count of consecutive failures.
HealthFits(s) ==
  /\ s.failures >= HealthDownThreshold => s.health = "down"
  /\ s.failures \in HealthDegradedThreshold .. HealthDownThreshold - 1
       => s.health = "degraded"
=============================================================================
