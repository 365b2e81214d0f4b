--------------------------- MODULE HealthCheckLive ---------------------------
(***************************************************************************)
(* HealthCheck in an environment that eventually calms down: until `calm'   *)
(* becomes TRUE anything in Faults, the target and the API may interfere;   *)
(* afterwards only the workers and the clocks of Redis move.  Whatever      *)
(* state the disturbances left, the service row, the circuit and the lock   *)
(* must then converge to what the target is.                                *)
(***************************************************************************)
EXTENDS HealthCheck

VARIABLE calm

liveVars == <<vars, calm>>

LiveInit == Init /\ calm = FALSE

CalmDown == ~calm /\ calm' = TRUE /\ UNCHANGED vars

LiveNext ==
    \/ System /\ UNCHANGED calm
    \/ (Fault \/ Environment) /\ ~calm /\ UNCHANGED calm
    \/ CalmDown

(***************************************************************************)
(* Fairness.  A worker that is up keeps taking jobs (the BullMQ scheduler   *)
(* repeats them for an enabled service) and every awaited call settles;     *)
(* Redis expires keys and time passes.  Nothing is assumed of the faults,   *)
(* the target, the API, or of calm ever becoming TRUE.                      *)
(***************************************************************************)
Fairness ==
    /\ \A w \in Workers : WF_liveVars(WorkerStep(w) /\ UNCHANGED calm)
    /\ WF_liveVars(OrphanExpires /\ UNCHANGED calm)
    /\ WF_liveVars(CoolDown /\ UNCHANGED calm)

LiveSpec == LiveInit /\ [][LiveNext]_liveVars /\ Fairness

\* The environment has calmed down, the service is monitored, and every probe
\* finds the same.
Steady(outcome) == calm /\ exists /\ enabled /\ target = outcome

\* A target that works ends up shown HEALTHY with its circuit closed, from
\* every state that crashes, Redis errors and lost queries can leave: an open
\* circuit cools down, half-opens, and one successful probe closes it; an
\* orphaned lock expires.
Recovers == Steady("fast") ~> [](row.status = "HEALTHY" /\ circuit = "CLOSED")

\* A target that is down ends up shown DOWN with an active incident, and stays so
\* while the circuit opens and half-opens over and over.
Detects == Steady("fail") ~> [](row.status = "DOWN" /\ ActiveIncidents # {})

\* While the target is down the circuit never stays open for good: a probe is
\* let through again and again.
ProbesAgain == Steady("fail") ~> (circuit = "HALF_OPEN")

\* A slow target ends up shown DEGRADED with its circuit closed.
SettlesDegraded == Steady("slow") ~> [](row.status = "DEGRADED" /\ circuit = "CLOSED")
==============================================================================
