----------------------------- MODULE CircuitKeys -----------------------------
(***************************************************************************)
(* The two Redis keys of a service's circuit, for those to whom a call of   *)
(* CircuitBreakerService is one step.  HealthCheck moves the keys this way; *)
(* Circuit shows the commands each call consists of.                        *)
(***************************************************************************)
VARIABLES
    circuit,      \* circuit:state, CLOSED when the key is absent
    openedAt      \* circuit:opened_at: absent, younger or older than 60 s

breaker == <<circuit, openedAt>>

CircuitStates == {"CLOSED", "OPEN", "HALF_OPEN"}

\* CircuitBreakerService.transitionTo when its Redis commands succeed.
Transition(state) ==
    /\ circuit' = state
    /\ openedAt' = IF circuit = state THEN openedAt
                   ELSE IF state = "OPEN" THEN "fresh" ELSE "none"

\* transitionTo when a command fails or the process dies between commands: the
\* state key may have been written, the opened_at key has not been touched.
Interrupted(state) ==
    /\ circuit' \in {circuit, state}
    /\ UNCHANGED openedAt

\* getState finds the 60 seconds over.
CooledDown == circuit = "OPEN" /\ openedAt = "old"

\* getState finds no opened_at for an open circuit and records it as now.
RecordMissing ==
    /\ circuit = "OPEN" /\ openedAt = "none"
    /\ openedAt' = "fresh"
    /\ UNCHANGED circuit

\* The 60 seconds pass.
Age == openedAt = "fresh" /\ openedAt' = "old" /\ UNCHANGED circuit

KeysInit == circuit = "CLOSED" /\ openedAt = "none"

\* The job opens or closes the circuit; getState half-opens it.
Move(state) ==
    /\ state = "HALF_OPEN" => CooledDown
    /\ Transition(state) \/ Interrupted(state)

KeysNext == RecordMissing \/ Age \/ \E state \in CircuitStates : Move(state)

\* What the service as a whole keeps to: one call at a time, and no way to HALF_OPEN
\* but from an OPEN whose 60 seconds are over.
KeysSpec == KeysInit /\ [][KeysNext]_breaker
==============================================================================
