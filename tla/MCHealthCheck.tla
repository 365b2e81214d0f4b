---------------------------- MODULE MCHealthCheck ----------------------------
(***************************************************************************)
(* Values of the constants of HealthCheck for TLC.                          *)
(***************************************************************************)
EXTENDS HealthCheck, TLC

CONSTANTS w1, w2, o1, i1, i2, i3

OneWorker == {w1}
TwoWorkers == {w1, w2}
OneOperator == {o1}
Nobody == {}
TwoIncidents == {i1, i2}
ThreeIncidents == {i1, i2, i3}

NoAlertTypes == {}
ClosingAlerts == {"INCIDENT_RESOLVED"}
AllAlerts == AlertTypes

NoCalls == {}
AllCalls == {"toggle", "remove"}
ToggleOnly == {"toggle"}
RemoveOnly == {"remove"}

NoFaults == {}
CrashOnly == {"crash"}
ExpiryOnly == {"ttl"}
CrashAndRedis == {"crash", "redis"}
OutageFaults == {"db", "redis", "crash"}
AllFaults == {"db", "redis", "crash", "ttl"}

\* No incident is singled out by Init, Next or an invariant, and neither is a
\* worker; runs with a liveness property use no symmetry.
IncidentSymmetry == Permutations(Incidents)
FleetSymmetry == Permutations(Workers) \union Permutations(Incidents)
==============================================================================
