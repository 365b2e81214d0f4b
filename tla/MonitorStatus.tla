---------------------------- MODULE MonitorStatus ----------------------------
(***************************************************************************)
(* The health state machine of one monitored service: what a finished      *)
(* check does to the status and to the two consecutive-result counters of  *)
(* the service's database row.  Nothing here has state; HealthCheck and    *)
(* MonitorSpec are built from these operators.                             *)
(*                                                                         *)
(* The code's counters grow without bound and are only ever compared with  *)
(* >= to the two thresholds (and reset to 0), so a counter is kept here    *)
(* only up to its threshold.                                               *)
(***************************************************************************)
EXTENDS Naturals

CONSTANTS
    FailureThreshold,   \* service.failureThreshold
    RecoveryThreshold   \* service.recoveryThreshold

\* Both DTOs ask for an integer of at least 1.
ASSUME ThresholdAssumption ==
    /\ FailureThreshold \in Nat \ {0}
    /\ RecoveryThreshold \in Nat \ {0}

Statuses == {"UNKNOWN", "HEALTHY", "DEGRADED", "DOWN", "RECOVERING"}

\* What a check finds: an answer below the degraded latency, one above it, or
\* no usable answer (FAILURE, TIMEOUT and ERROR are not told apart).
Outcomes == {"fast", "slow", "fail"}

Rows == [status : Statuses,
         fails  : 0..FailureThreshold,
         succs  : 0..RecoveryThreshold]

\* The row of a service that was just created.
NewRow == [status |-> "UNKNOWN", fails |-> 0, succs |-> 0]

\* The row an operator's manual resolution leaves.
ResetRow == [status |-> "HEALTHY", fails |-> 0, succs |-> 0]

Bump(count, threshold) == IF count < threshold THEN count + 1 ELSE threshold

\* Mutant of Settled: latency is ignored.
SettledIgnoringLatency(outcome) == "HEALTHY"

Settled(outcome) == IF outcome = "slow" THEN "DEGRADED" ELSE "HEALTHY"

AfterSuccess(status, succs, outcome) ==
    IF status \in {"UNKNOWN", "HEALTHY"} \/ succs >= RecoveryThreshold
        THEN Settled(outcome)
        ELSE IF status = "DOWN" THEN "RECOVERING" ELSE status

\* Mutant of AfterFailure: the threshold has to be exceeded.
AfterFailureOffByOne(status, fails) ==
    IF fails > FailureThreshold \/ status = "RECOVERING"
        THEN "DOWN"
        ELSE IF status \in {"HEALTHY", "DEGRADED"} THEN "DEGRADED" ELSE status

\* Mutant of AfterFailure: the threshold is compared with =.
AfterFailureExactly(status, fails) ==
    IF fails = FailureThreshold \/ status = "RECOVERING"
        THEN "DOWN"
        ELSE IF status \in {"HEALTHY", "DEGRADED"} THEN "DEGRADED" ELSE status

AfterFailure(status, fails) ==
    IF fails >= FailureThreshold \/ status = "RECOVERING"
        THEN "DOWN"
        ELSE IF status \in {"HEALTHY", "DEGRADED"} THEN "DEGRADED" ELSE status

\* determineNextStatus together with the counters its callers compute and store.
NextRow(row, outcome) ==
    LET fails == IF outcome = "fail" THEN Bump(row.fails, FailureThreshold) ELSE 0
        succs == IF outcome = "fail" THEN 0 ELSE Bump(row.succs, RecoveryThreshold)
    IN  [status |-> IF outcome = "fail"
                        THEN AfterFailure(row.status, fails)
                        ELSE AfterSuccess(row.status, succs, outcome),
         fails  |-> fails,
         succs  |-> succs]

\* Mutant of EntersOutage: falling back from RECOVERING is forgotten.
EntersOutageFirst(from, to) == to = "DOWN" /\ from \notin {"DOWN", "RECOVERING"}

\* The two status changes that concern incidents.
EntersOutage(from, to) == to = "DOWN" /\ from # "DOWN"
LeavesOutage(from, to) == to \in {"HEALTHY", "DEGRADED"} /\ from \in {"DOWN", "RECOVERING"}
==============================================================================
