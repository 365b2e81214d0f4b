--------------------------- MODULE EditedThresholds ---------------------------
(***************************************************************************)
(* Checks of one service while its thresholds are edited through the API.   *)
(* HealthCheck has them as constants; here a check uses the thresholds and  *)
(* counters it read at its start, and an edit may come between any two of   *)
(* its queries.  Checks follow one another and run to their end (lock,      *)
(* circuit and faults are HealthCheck's subject).  What a check finds is    *)
(* the outcome of its probe, or the failure an open circuit stands for.     *)
(***************************************************************************)
EXTENDS Naturals

CONSTANTS
    Limits,     \* values either threshold can be given
    MaxCount    \* a counter is kept up to here

\* All that is asked of a counter is whether it has reached a threshold.
ASSUME LimitAssumption ==
    /\ Limits \subseteq Nat \ {0}
    /\ MaxCount \in Nat /\ \A n \in Limits : n < MaxCount

\* The health state machine with a service's thresholds.
Machine(with) ==
    INSTANCE MonitorStatus WITH FailureThreshold <- with.failure, RecoveryThreshold <- with.recovery

VARIABLES
    limits,      \* failureThreshold and recoveryThreshold of the service
    record,      \* its status and counters
    unresolved,  \* whether it has an active incident
    awaits,      \* what the check does next
    copy,        \* limits and record as the check read them
    finding,     \* the record the check will store
    health       \* what a check finds

editVars == <<limits, record, unresolved, awaits, copy, finding, health>>
Thresholds == [failure : Limits, recovery : Limits]
New == [status |-> "UNKNOWN", fails |-> 0, succs |-> 0]

------------------------------------------------------------------------------
EditInit ==
    /\ limits \in Thresholds /\ record = New /\ unresolved = FALSE
    /\ awaits = "schedule" /\ copy = [limits |-> limits, record |-> New] /\ finding = New
    /\ health = "fast"

Count(n) == IF n < MaxCount THEN n + 1 ELSE n

\* service.findUnique.
ReadService ==
    /\ awaits = "schedule" /\ awaits' = "probe"
    /\ copy' = [limits |-> limits, record |-> record]
    /\ UNCHANGED <<limits, record, unresolved, finding, health>>

\* The counters and determineNextStatus, from what was read.
Evaluated(old, with, outcome) ==
    LET fails == IF outcome = "fail" THEN Count(old.fails) ELSE 0
        succs == IF outcome = "fail" THEN 0 ELSE Count(old.succs)
    IN [status |-> IF outcome = "fail"
                       THEN Machine(with)!AfterFailure(old.status, fails)
                       ELSE Machine(with)!AfterSuccess(old.status, succs, outcome),
        fails |-> fails, succs |-> succs]

EvaluateProbe ==
    /\ awaits = "probe" /\ awaits' = "incident"
    /\ finding' = Evaluated(copy.record, copy.limits, health)
    /\ UNCHANGED <<limits, record, unresolved, copy, health>>

\* ensureIncidentCreated or ensureIncidentResolved, or neither.
SettleIncident ==
    /\ awaits = "incident" /\ awaits' = "update"
    /\ LET from == copy.record.status
           to == finding.status
       IN unresolved' = CASE Machine(copy.limits)!EntersOutage(from, to) -> TRUE
                          [] Machine(copy.limits)!LeavesOutage(from, to) -> FALSE
                          [] OTHER -> unresolved
    /\ UNCHANGED <<limits, record, copy, finding, health>>

\* service.update writes status and counters and leaves the thresholds alone.
UpdateRecord ==
    /\ awaits = "update" /\ awaits' = "schedule"
    /\ record' = finding
    /\ finding' = New /\ copy' = [limits |-> limits, record |-> New]
    /\ UNCHANGED <<limits, unresolved, health>>

\* PATCH of the service: whatever it names is written, in one query.
EditThresholds ==
    /\ limits' \in Thresholds /\ limits' # limits
    /\ UNCHANGED <<record, unresolved, awaits, copy, finding, health>>

HealthChanges ==
    /\ health' \in {"fast", "slow", "fail"} /\ health' # health
    /\ UNCHANGED <<limits, record, unresolved, awaits, copy, finding>>

CheckProceeds == ReadService \/ EvaluateProbe \/ SettleIncident \/ UpdateRecord
EditNext == CheckProceeds \/ EditThresholds \/ HealthChanges

\* The scheduler repeats the check and awaited calls settle.
EditFairness == WF_editVars(CheckProceeds)
EditSpec == EditInit /\ [][EditNext]_editVars /\ EditFairness

------------------------------------------------------------------------------
\* Every variable has its type.
EditTypeOK ==
    LET Records == [status : {"UNKNOWN", "HEALTHY", "DEGRADED", "DOWN", "RECOVERING"},
                    fails : 0..MaxCount, succs : 0..MaxCount]
    IN /\ limits \in Thresholds /\ record \in Records /\ unresolved \in BOOLEAN
       /\ awaits \in {"schedule", "probe", "incident", "update"}
       /\ copy \in [limits : Thresholds, record : Records] /\ finding \in Records
       /\ health \in {"fast", "slow", "fail"}

\* The status that says what checks find.
Verdict(outcome) ==
    CASE outcome = "fast" -> "HEALTHY" [] outcome = "slow" -> "DEGRADED" [] outcome = "fail" -> "DOWN"

\* However often the thresholds are edited, and wherever in a check, a service that is
\* checked again and again, each time with the same outcome, ends with the status
\* that says so, and with an active incident exactly when it is down.
EndsAsFound ==
    \A outcome \in {"fast", "slow", "fail"} :
        <>[](health = outcome) /\ []<>(awaits = "update") =>
            <>[](record.status = Verdict(outcome) /\ (unresolved <=> outcome = "fail"))
==============================================================================
