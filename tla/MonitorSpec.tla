----------------------------- MODULE MonitorSpec -----------------------------
(***************************************************************************)
(* What a monitor of one service promises, without workers, locks, circuit  *)
(* or faults: each check moves the row by one application of the health     *)
(* state machine, an incident is raised only by a check that is about to    *)
(* take the service down and before the row says so, and it is cleared only *)
(* by a check that is about to end the outage and before the row says so.   *)
(* A check may be given up between the two (the row then keeps its value).  *)
(***************************************************************************)
EXTENDS MonitorStatus

VARIABLES
    row,      \* the service row
    exists,   \* the service has not been deleted
    open      \* some incident of the service is active

vars == <<row, exists, open>>

\* A check that finds `outcome' would enter, or leave, the outage.
WouldEnter(outcome) == EntersOutage(row.status, NextRow(row, outcome).status)
WouldLeave(outcome) == LeavesOutage(row.status, NextRow(row, outcome).status)

Init == row = NewRow /\ exists = TRUE /\ open = FALSE

Raise ==
    /\ exists /\ ~open /\ WouldEnter("fail")
    /\ open' = TRUE
    /\ UNCHANGED <<row, exists>>

Clear ==
    /\ exists /\ open
    /\ \E outcome \in Outcomes : WouldLeave(outcome)
    /\ open' = FALSE
    /\ UNCHANGED <<row, exists>>

Check(outcome) ==
    /\ exists
    /\ WouldEnter(outcome) => open
    /\ WouldLeave(outcome) => ~open
    /\ row' = NextRow(row, outcome)
    /\ UNCHANGED <<exists, open>>

\* The service is deleted, and its incidents with it.
Retire ==
    /\ exists
    /\ exists' = FALSE /\ open' = FALSE
    /\ UNCHANGED row

Next == Raise \/ Clear \/ Retire \/ \E outcome \in Outcomes : Check(outcome)

Spec == Init /\ [][Next]_vars
==============================================================================
