-------------------------- MODULE HealthCheckProofs --------------------------
(***************************************************************************)
(* Theorems about HealthCheck for every number of workers, operators and    *)
(* incidents, every threshold and retry count, and every set of faults.     *)
(***************************************************************************)
EXTENDS HealthCheck, TLAPS

LEMMA BumpType ==
    ASSUME NEW threshold \in Nat, NEW count \in 0..threshold
    PROVE  Bump(count, threshold) \in 0..threshold
BY DEF Bump

\* determineNextStatus and its callers keep a row a row.
LEMMA NextRowType ==
    ASSUME NEW r \in Rows, NEW outcome \in Outcomes
    PROVE  NextRow(r, outcome) \in Rows
BY ThresholdAssumption
   DEF Rows, Statuses, Outcomes, NextRow, Bump, AfterFailure, AfterSuccess, Settled

\* ... and a consistent row consistent.
LEMMA NextRowConsistent ==
    ASSUME NEW r \in Rows, Consistent(r), NEW outcome \in Outcomes
    PROVE  Consistent(NextRow(r, outcome))
BY ThresholdAssumption
   DEF Rows, Statuses, Outcomes, NextRow, Bump, AfterFailure, AfterSuccess, Settled, Consistent

LEMMA FixedRows ==
    /\ NewRow \in Rows /\ Consistent(NewRow)
    /\ ResetRow \in Rows /\ Consistent(ResetRow)
BY ThresholdAssumption DEF Rows, Statuses, NewRow, ResetRow, Consistent

LEMMA AlertType ==
    ASSUME NEW i, NEW type, alerts \in [Incidents -> [Counted -> 0..2]], Alert(i, type)
    PROVE  alerts' \in [Incidents -> [Counted -> 0..2]]
BY BumpType DEF Alert

LEMMA TransitionType ==
    ASSUME NEW state \in CircuitStates, openedAt \in {"none", "fresh", "old"}, Transition(state)
    PROVE  circuit' \in CircuitStates /\ openedAt' \in {"none", "fresh", "old"}
BY DEF Transition

LEMMA NoAlertsType == NoAlerts \in [Counted -> 0..2]
BY DEF NoAlerts

LEMMA FinishType ==
    ASSUME NEW w \in Workers, TypeOK, Finish(w)
    PROVE  /\ pc' \in [Workers -> Calls]
           /\ snap' \in [Workers -> Rows] /\ next' \in [Workers -> Rows]
           /\ seen' \in [Workers -> CircuitStates]
           /\ attempt' \in [Workers -> 0..(RetryCount + 1)]
           /\ subject' \in [Workers -> Incidents \union {NoIncident}]
           /\ pc' = [pc EXCEPT ![w] = "idle"]
BY CheckAssumption, FixedRows DEF TypeOK, Finish, Goto, Calls, WriteCalls, CircuitStates

\* A job that is about to move the circuit has a state to move it to; TypeOK
\* needs this to say that the circuit is always in one of its three states.
TransitionDue ==
    \A w \in Workers : At(w, "transition") => CircuitTarget(seen[w], next[w]) \in CircuitStates

TypeInv == TypeOK /\ TransitionDue

LEMMA TypeStep == TypeInv /\ [Next]_vars => TypeOK'
<1> USE CheckAssumption, ThresholdAssumption DEF TypeOK, Calls, WriteCalls, CircuitStates, Outcomes
<1> SUFFICES ASSUME TypeInv, [Next]_vars PROVE TypeOK'
  OBVIOUS
<1> USE DEF TypeInv
<1> USE DEF database, breaker, job, request, At, Goto, Finish
<1>1. ASSUME NEW w \in Workers, StartJob(w) PROVE TypeOK'
  BY <1>1 DEF StartJob
<1>2. ASSUME NEW w \in Workers, GetState(w) PROVE TypeOK'
  BY <1>2 DEF GetState, Transition
<1>3. ASSUME NEW w \in Workers, ShortCircuit(w) PROVE TypeOK'
  BY <1>3, NextRowType DEF ShortCircuit, IncidentCall, StatusCall
<1>4. ASSUME NEW w \in Workers, AcquireLock(w) PROVE TypeOK'
  BY <1>4 DEF AcquireLock
<1>5. ASSUME NEW w \in Workers, SkipCheck(w) PROVE TypeOK'
  BY <1>5, FinishType DEF SkipCheck
<1>6. ASSUME NEW w \in Workers, Retry(w) PROVE TypeOK'
  BY <1>6 DEF Retry, MaxAttempts
<1>7. ASSUME NEW w \in Workers, Probe(w) PROVE TypeOK'
  BY <1>7, NextRowType DEF Probe, IncidentCall, StatusCall
<1>8. ASSUME NEW w \in Workers, FindOpen(w) PROVE TypeOK'
  BY <1>8 DEF FindOpen
<1>9. ASSUME NEW w \in Workers, CreateIncident(w) PROVE TypeOK'
  BY <1>9 DEF CreateIncident, NoAlerts, Active
<1>10. ASSUME NEW w \in Workers, AlertCreated(w) PROVE TypeOK'
  BY <1>10, AlertType DEF AlertCreated
<1>11. ASSUME NEW w \in Workers, AlertDown(w) PROVE TypeOK'
  BY <1>11, AlertType DEF AlertDown
<1>12. ASSUME NEW w \in Workers, FindActive(w) PROVE TypeOK'
  BY <1>12 DEF FindActive, StatusCall, ActiveIncidents
<1>13. ASSUME NEW w \in Workers, ResolveIncident(w) PROVE TypeOK'
  BY <1>13 DEF ResolveIncident, Active
<1>14. ASSUME NEW w \in Workers, AlertRecovered(w) PROVE TypeOK'
  BY <1>14, AlertType DEF AlertRecovered
<1>15. ASSUME NEW w \in Workers, AlertResolved(w) PROVE TypeOK'
  BY <1>15, AlertType DEF AlertResolved, StatusCall, ActiveIncidents
<1>16. ASSUME NEW w \in Workers, AlertStatus(w) PROVE TypeOK'
  BY <1>16, AlertType DEF AlertStatus
<1>17. ASSUME NEW w \in Workers, UpdateService(w) PROVE TypeOK'
  BY <1>17, FinishType DEF UpdateService
<1>18. ASSUME NEW w \in Workers, TransitionCircuit(w) PROVE TypeOK'
  BY <1>18 DEF TransitionDue, TransitionCircuit, Transition
<1>19. ASSUME NEW w \in Workers, ReleaseLock(w) PROVE TypeOK'
  BY <1>19, FinishType DEF ReleaseLock
<1>20. ASSUME NEW w \in Workers, WriteToDeleted(w) PROVE TypeOK'
  BY <1>20, FinishType DEF WriteToDeleted, Abandon
<1>21. ASSUME NEW w \in Workers, QueryFails(w) PROVE TypeOK'
  BY <1>21, FinishType DEF QueryFails, Abandon
<1>22. ASSUME NEW w \in Workers, GetStateFails(w) PROVE TypeOK'
  BY <1>22 DEF GetStateFails, RecordMissing
<1>23. ASSUME NEW w \in Workers, UpgradeFails(w) PROVE TypeOK'
  BY <1>23 DEF UpgradeFails, Interrupted, CircuitTarget
<1>24. ASSUME NEW w \in Workers, AcquireFails(w) PROVE TypeOK'
  BY <1>24, FinishType DEF AcquireFails
<1>25. ASSUME NEW w \in Workers, TransitionFails(w) PROVE TypeOK'
  BY <1>25 DEF TransitionDue, TransitionFails, Interrupted
<1>26. ASSUME NEW w \in Workers, ReleaseFails(w) PROVE TypeOK'
  BY <1>26, FinishType DEF ReleaseFails
<1>27. ASSUME NEW w \in Workers, Crash(w) PROVE TypeOK'
  BY <1>27, FinishType DEF Crash
<1>28. ASSUME NEW o \in Operators, OpRead(o) PROVE TypeOK'
  BY <1>28 DEF OpRead, OpAt, OpGoto, OpFinish, OpCalls, Active, ActiveIncidents
<1>29. ASSUME NEW o \in Operators, OpAcknowledge(o) PROVE TypeOK'
  BY <1>29 DEF OpAcknowledge, OpAt, OpGoto, OpFinish, OpCalls, Active, ActiveIncidents
<1>30. ASSUME NEW o \in Operators, OpResolve(o) PROVE TypeOK'
  BY <1>30 DEF OpResolve, OpAt, OpGoto, OpFinish, OpCalls, Active, ActiveIncidents
<1>31. ASSUME NEW o \in Operators, OpAlertResolved(o) PROVE TypeOK'
  BY <1>31, AlertType DEF OpAlertResolved, OpAt, OpGoto, OpFinish, OpCalls, Active, ActiveIncidents
<1>32. ASSUME NEW o \in Operators, OpAlertRecovered(o) PROVE TypeOK'
  BY <1>32, AlertType DEF OpAlertRecovered, OpAt, OpGoto, OpFinish, OpCalls, Active, ActiveIncidents
<1>33. ASSUME NEW o \in Operators, OpReset(o) PROVE TypeOK'
  BY <1>33, FixedRows DEF OpReset, OpAt, OpGoto, OpFinish, OpCalls, Active, ActiveIncidents
<1>34. ASSUME NEW o \in Operators, OpAborts(o) PROVE TypeOK'
  BY <1>34 DEF OpAborts, OpAt, OpGoto, OpFinish, OpCalls, Active, ActiveIncidents
<1>35. ASSUME OrphanExpires PROVE TypeOK'
  BY <1>35 DEF OrphanExpires
<1>36. ASSUME CoolDown PROVE TypeOK'
  BY <1>36 DEF CoolDown, Age
<1>37. ASSUME HeldLockExpires PROVE TypeOK'
  BY <1>37 DEF HeldLockExpires
<1>38. ASSUME TargetChanges PROVE TypeOK'
  BY <1>38 DEF TargetChanges
<1>39. ASSUME ToggleEnabled PROVE TypeOK'
  BY <1>39 DEF ToggleEnabled
<1>40. ASSUME RemoveService PROVE TypeOK'
  BY <1>40, NoAlertsType DEF RemoveService, Active
<1>41. CASE UNCHANGED vars
  BY <1>41 DEF vars, OpCalls, Active
<1> QED
  BY <1>1, <1>2, <1>3, <1>4, <1>5, <1>6, <1>7, <1>8, <1>9, <1>10, <1>11, <1>12, <1>13, <1>14, <1>15, <1>16, <1>17, <1>18, <1>19, <1>20, <1>21, <1>22, <1>23, <1>24, <1>25, <1>26, <1>27, <1>28, <1>29, <1>30, <1>31, <1>32, <1>33, <1>34, <1>35, <1>36, <1>37, <1>38, <1>39, <1>40, <1>41
     DEF Next, System, Fault, Environment, WorkerStep, WorkerFault, OperatorStep

------------------------------------------------------------------------------
(***************************************************************************)
(* What a step leaves alone: a step of one worker the jobs of the others,   *)
(* a step of Redis, of the target or of the API every job.                  *)
(***************************************************************************)
SameJob(v) ==
    /\ pc'[v] = pc[v] /\ snap'[v] = snap[v] /\ seen'[v] = seen[v]
    /\ attempt'[v] = attempt[v] /\ next'[v] = next[v] /\ subject'[v] = subject[v]

LEMMA OtherJobs ==
    ASSUME TypeOK, NEW w \in Workers, WorkerStep(w) \/ WorkerFault(w),
           NEW v \in Workers, v # w
    PROVE  SameJob(v)
<1> USE DEF TypeOK, SameJob, job, At, Goto, Finish
<1>1. CASE StartJob(w)
  BY <1>1 DEF StartJob
<1>2. CASE GetState(w)
  BY <1>2 DEF GetState
<1>3. CASE ShortCircuit(w)
  BY <1>3 DEF ShortCircuit
<1>4. CASE AcquireLock(w)
  BY <1>4 DEF AcquireLock
<1>5. CASE SkipCheck(w)
  BY <1>5 DEF SkipCheck
<1>6. CASE Retry(w)
  BY <1>6 DEF Retry
<1>7. CASE Probe(w)
  BY <1>7 DEF Probe
<1>8. CASE FindOpen(w)
  BY <1>8 DEF FindOpen
<1>9. CASE CreateIncident(w)
  BY <1>9 DEF CreateIncident
<1>10. CASE AlertCreated(w)
  BY <1>10 DEF AlertCreated
<1>11. CASE AlertDown(w)
  BY <1>11 DEF AlertDown
<1>12. CASE FindActive(w)
  BY <1>12 DEF FindActive
<1>13. CASE ResolveIncident(w)
  BY <1>13 DEF ResolveIncident
<1>14. CASE AlertRecovered(w)
  BY <1>14 DEF AlertRecovered
<1>15. CASE AlertResolved(w)
  BY <1>15 DEF AlertResolved
<1>16. CASE AlertStatus(w)
  BY <1>16 DEF AlertStatus
<1>17. CASE UpdateService(w)
  BY <1>17 DEF UpdateService
<1>18. CASE TransitionCircuit(w)
  BY <1>18 DEF TransitionCircuit
<1>19. CASE ReleaseLock(w)
  BY <1>19 DEF ReleaseLock
<1>20. CASE WriteToDeleted(w)
  BY <1>20 DEF WriteToDeleted, Abandon
<1>21. CASE QueryFails(w)
  BY <1>21 DEF QueryFails, Abandon
<1>22. CASE GetStateFails(w)
  BY <1>22 DEF GetStateFails
<1>23. CASE UpgradeFails(w)
  BY <1>23 DEF UpgradeFails
<1>24. CASE AcquireFails(w)
  BY <1>24 DEF AcquireFails
<1>25. CASE TransitionFails(w)
  BY <1>25 DEF TransitionFails
<1>26. CASE ReleaseFails(w)
  BY <1>26 DEF ReleaseFails
<1>27. CASE Crash(w)
  BY <1>27 DEF Crash
<1> QED
  BY <1>1, <1>2, <1>3, <1>4, <1>5, <1>6, <1>7, <1>8, <1>9, <1>10, <1>11, <1>12, <1>13, <1>14, <1>15, <1>16, <1>17, <1>18, <1>19, <1>20, <1>21, <1>22, <1>23, <1>24, <1>25, <1>26, <1>27
     DEF WorkerStep, WorkerFault

Surroundings ==
    \/ OrphanExpires \/ CoolDown \/ HeldLockExpires
    \/ Environment
    \/ UNCHANGED vars

LEMMA SurroundingsKeepJobs == Surroundings => UNCHANGED <<pc, job>>
BY DEF Surroundings, OrphanExpires, CoolDown, Age, HeldLockExpires, Environment, TargetChanges,
       ToggleEnabled, RemoveService, OperatorStep, OpRead, OpAcknowledge, OpResolve,
       OpAlertResolved, OpAlertRecovered, OpReset, OpAborts, vars, job

\* The three kinds of steps, the way the proofs below split [Next]_vars.
LEMMA NextCases ==
    ASSUME [Next]_vars
    PROVE  \/ Surroundings
           \/ \E w \in Workers : WorkerStep(w)
           \/ \E w \in Workers : WorkerFault(w)
BY DEF Next, System, Fault, Surroundings

------------------------------------------------------------------------------
(***************************************************************************)
(* A job that reached "transition" has a state to move the circuit to.      *)
(***************************************************************************)
LEMMA OwnTransitionDue ==
    ASSUME TypeInv, NEW w \in Workers, WorkerStep(w) \/ WorkerFault(w)
    PROVE  (At(w, "transition") => CircuitTarget(seen[w], next[w]) \in CircuitStates)'
<1> USE DEF TypeInv, TypeOK, TransitionDue, job, At, Goto, Finish
<1>1. CASE StartJob(w)
  BY <1>1 DEF StartJob
<1>2. CASE GetState(w)
  BY <1>2 DEF GetState
<1>3. CASE ShortCircuit(w)
  BY <1>3 DEF ShortCircuit, IncidentCall, StatusCall
<1>4. CASE AcquireLock(w)
  BY <1>4 DEF AcquireLock
<1>5. CASE SkipCheck(w)
  BY <1>5 DEF SkipCheck
<1>6. CASE Retry(w)
  BY <1>6 DEF Retry
<1>7. CASE Probe(w)
  BY <1>7 DEF Probe, IncidentCall, StatusCall
<1>8. CASE FindOpen(w)
  BY <1>8 DEF FindOpen
<1>9. CASE CreateIncident(w)
  BY <1>9 DEF CreateIncident
<1>10. CASE AlertCreated(w)
  BY <1>10 DEF AlertCreated
<1>11. CASE AlertDown(w)
  BY <1>11 DEF AlertDown
<1>12. CASE FindActive(w)
  BY <1>12 DEF FindActive, StatusCall
<1>13. CASE ResolveIncident(w)
  BY <1>13 DEF ResolveIncident
<1>14. CASE AlertRecovered(w)
  BY <1>14 DEF AlertRecovered
<1>15. CASE AlertResolved(w)
  BY <1>15 DEF AlertResolved, StatusCall
<1>16. CASE AlertStatus(w)
  BY <1>16 DEF AlertStatus
<1>17. CASE UpdateService(w)
  BY <1>17 DEF UpdateService, CircuitTarget, CircuitStates
<1>18. CASE TransitionCircuit(w)
  BY <1>18 DEF TransitionCircuit
<1>19. CASE ReleaseLock(w)
  BY <1>19 DEF ReleaseLock
<1>20. CASE WriteToDeleted(w)
  BY <1>20 DEF WriteToDeleted, Abandon
<1>21. CASE QueryFails(w)
  BY <1>21 DEF QueryFails, Abandon
<1>22. CASE GetStateFails(w)
  BY <1>22 DEF GetStateFails
<1>23. CASE UpgradeFails(w)
  BY <1>23 DEF UpgradeFails
<1>24. CASE AcquireFails(w)
  BY <1>24 DEF AcquireFails
<1>25. CASE TransitionFails(w)
  BY <1>25 DEF TransitionFails
<1>26. CASE ReleaseFails(w)
  BY <1>26 DEF ReleaseFails
<1>27. CASE Crash(w)
  BY <1>27 DEF Crash
<1> QED
  BY <1>1, <1>2, <1>3, <1>4, <1>5, <1>6, <1>7, <1>8, <1>9, <1>10, <1>11, <1>12, <1>13, <1>14, <1>15, <1>16, <1>17, <1>18, <1>19, <1>20, <1>21, <1>22, <1>23, <1>24, <1>25, <1>26, <1>27
     DEF WorkerStep, WorkerFault

LEMMA TransitionDueStep == TypeInv /\ [Next]_vars => TransitionDue'
<1> SUFFICES ASSUME TypeInv, [Next]_vars PROVE TransitionDue'
  OBVIOUS
<1>1. CASE Surroundings
  BY <1>1, SurroundingsKeepJobs DEF TypeInv, TransitionDue, At, job
<1>2. ASSUME NEW w \in Workers, WorkerStep(w) \/ WorkerFault(w) PROVE TransitionDue'
  BY <1>2, OtherJobs, OwnTransitionDue DEF TypeInv, TransitionDue, At, SameJob
<1> QED
  BY <1>1, <1>2, NextCases

LEMMA TypeHolds == Spec => []TypeInv
<1>1. Init => TypeInv
  BY CheckAssumption, ThresholdAssumption, FixedRows
     DEF Init, TypeInv, TypeOK, TransitionDue, At, NoAlerts, OpCalls, Active, CircuitStates,
         Calls, WriteCalls, Outcomes
<1>2. TypeInv /\ [Next]_vars => TypeInv'
  BY TypeStep, TransitionDueStep DEF TypeInv
<1> QED
  BY <1>1, <1>2, PTL DEF Spec

\* Every variable keeps its type through every step of Next.
THEOREM TypeCorrect == Spec => []TypeOK
<1>1. TypeInv => TypeOK
  BY DEF TypeInv
<1> QED
  BY <1>1, TypeHolds, PTL

------------------------------------------------------------------------------
(***************************************************************************)
(* Status and counters.  The row alone is not inductive: what a job read,   *)
(* however long ago, and what it is about to store are consistent too.      *)
(***************************************************************************)
RowInv ==
    /\ Consistent(row)
    /\ \A w \in Workers : Consistent(snap[w]) /\ Consistent(next[w])

LEMMA OwnRowInv ==
    ASSUME TypeInv, RowInv, NEW w \in Workers, WorkerStep(w) \/ WorkerFault(w)
    PROVE  Consistent(row') /\ Consistent(snap'[w]) /\ Consistent(next'[w])
<1> USE DEF TypeInv, TypeOK, RowInv, database, job, At, Goto, Finish
<1>1. CASE StartJob(w)
  BY <1>1 DEF StartJob
<1>2. CASE GetState(w)
  BY <1>2 DEF GetState
<1>3. CASE ShortCircuit(w)
  BY <1>3, NextRowConsistent DEF Outcomes, ShortCircuit
<1>4. CASE AcquireLock(w)
  BY <1>4 DEF AcquireLock
<1>5. CASE SkipCheck(w)
  BY <1>5, FixedRows DEF SkipCheck
<1>6. CASE Retry(w)
  BY <1>6 DEF Retry
<1>7. CASE Probe(w)
  BY <1>7, NextRowConsistent DEF Probe
<1>8. CASE FindOpen(w)
  BY <1>8 DEF FindOpen
<1>9. CASE CreateIncident(w)
  BY <1>9 DEF CreateIncident
<1>10. CASE AlertCreated(w)
  BY <1>10 DEF AlertCreated
<1>11. CASE AlertDown(w)
  BY <1>11 DEF AlertDown
<1>12. CASE FindActive(w)
  BY <1>12 DEF FindActive
<1>13. CASE ResolveIncident(w)
  BY <1>13 DEF ResolveIncident
<1>14. CASE AlertRecovered(w)
  BY <1>14 DEF AlertRecovered
<1>15. CASE AlertResolved(w)
  BY <1>15 DEF AlertResolved
<1>16. CASE AlertStatus(w)
  BY <1>16 DEF AlertStatus
<1>17. CASE UpdateService(w)
  BY <1>17, FixedRows DEF UpdateService
<1>18. CASE TransitionCircuit(w)
  BY <1>18 DEF TransitionCircuit
<1>19. CASE ReleaseLock(w)
  BY <1>19, FixedRows DEF ReleaseLock
<1>20. CASE WriteToDeleted(w)
  BY <1>20, FixedRows DEF WriteToDeleted, Abandon
<1>21. CASE QueryFails(w)
  BY <1>21, FixedRows DEF QueryFails, Abandon
<1>22. CASE GetStateFails(w)
  BY <1>22 DEF GetStateFails
<1>23. CASE UpgradeFails(w)
  BY <1>23 DEF UpgradeFails
<1>24. CASE AcquireFails(w)
  BY <1>24, FixedRows DEF AcquireFails
<1>25. CASE TransitionFails(w)
  BY <1>25 DEF TransitionFails
<1>26. CASE ReleaseFails(w)
  BY <1>26, FixedRows DEF ReleaseFails
<1>27. CASE Crash(w)
  BY <1>27, FixedRows DEF Crash
<1> QED
  BY <1>1, <1>2, <1>3, <1>4, <1>5, <1>6, <1>7, <1>8, <1>9, <1>10, <1>11, <1>12, <1>13, <1>14, <1>15, <1>16, <1>17, <1>18, <1>19, <1>20, <1>21, <1>22, <1>23, <1>24, <1>25, <1>26, <1>27
     DEF WorkerStep, WorkerFault

\* The surroundings write the row only by a manual reset.
LEMMA SurroundingsRow == Surroundings => row' = row \/ row' = ResetRow
BY DEF Surroundings, OrphanExpires, CoolDown, Age, HeldLockExpires, Environment, TargetChanges,
       ToggleEnabled, RemoveService, OperatorStep, OpRead, OpAcknowledge, OpResolve,
       OpAlertResolved, OpAlertRecovered, OpReset, OpAborts, vars, database

LEMMA RowInvStep == TypeInv /\ RowInv /\ [Next]_vars => RowInv'
<1> SUFFICES ASSUME TypeInv, RowInv, [Next]_vars PROVE RowInv'
  OBVIOUS
<1>1. CASE Surroundings
  BY <1>1, SurroundingsKeepJobs, SurroundingsRow, FixedRows DEF RowInv, job
<1>2. ASSUME NEW w \in Workers, WorkerStep(w) \/ WorkerFault(w) PROVE RowInv'
  BY <1>2, OtherJobs, OwnRowInv DEF TypeInv, RowInv, SameJob
<1> QED
  BY <1>1, <1>2, NextCases

\* For any number of workers and operators, any thresholds and any faults, the
\* stored status and counters are consistent with each other.
THEOREM RowsStayConsistent == Spec => []RowConsistent
<1>1. Init => TypeInv /\ RowInv
  BY CheckAssumption, ThresholdAssumption, FixedRows
     DEF Init, TypeInv, TypeOK, TransitionDue, At, NoAlerts, OpCalls, Active, CircuitStates,
         Calls, WriteCalls, Outcomes, RowInv
<1>2. TypeInv /\ RowInv /\ [Next]_vars => (TypeInv /\ RowInv)'
  BY TypeStep, TransitionDueStep, RowInvStep DEF TypeInv
<1>3. RowInv => RowConsistent
  BY DEF RowInv, RowConsistent
<1> QED
  BY <1>1, <1>2, <1>3, PTL DEF Spec

------------------------------------------------------------------------------
(***************************************************************************)
(* The check lock.  Mutual exclusion follows from a stronger fact: a worker *)
(* in the locked section is the one the lock names.                         *)
(***************************************************************************)
LockInv == "ttl" \notin Faults => \A w \in Workers : InLockedSection(w) => lock = w

\* A worker takes the lock, or leaves it to its time to live, only when it is free and
\* gives back only its own.
LEMMA OwnLockMove ==
    ASSUME TypeInv, NEW w \in Workers, WorkerStep(w) \/ WorkerFault(w)
    PROVE  lock' = lock \/ lock = w \/ (lock = "free" /\ lock' \in {w, "orphan"})
<1> USE DEF At
<1>1. CASE StartJob(w)
  BY <1>1 DEF StartJob
<1>2. CASE GetState(w)
  BY <1>2 DEF GetState
<1>3. CASE ShortCircuit(w)
  BY <1>3 DEF ShortCircuit
<1>4. CASE AcquireLock(w)
  BY <1>4 DEF AcquireLock
<1>5. CASE SkipCheck(w)
  BY <1>5 DEF SkipCheck
<1>6. CASE Retry(w)
  BY <1>6 DEF Retry
<1>7. CASE Probe(w)
  BY <1>7 DEF Probe
<1>8. CASE FindOpen(w)
  BY <1>8 DEF FindOpen
<1>9. CASE CreateIncident(w)
  BY <1>9 DEF CreateIncident
<1>10. CASE AlertCreated(w)
  BY <1>10 DEF AlertCreated
<1>11. CASE AlertDown(w)
  BY <1>11 DEF AlertDown
<1>12. CASE FindActive(w)
  BY <1>12 DEF FindActive
<1>13. CASE ResolveIncident(w)
  BY <1>13 DEF ResolveIncident
<1>14. CASE AlertRecovered(w)
  BY <1>14 DEF AlertRecovered
<1>15. CASE AlertResolved(w)
  BY <1>15 DEF AlertResolved
<1>16. CASE AlertStatus(w)
  BY <1>16 DEF AlertStatus
<1>17. CASE UpdateService(w)
  BY <1>17 DEF UpdateService
<1>18. CASE TransitionCircuit(w)
  BY <1>18 DEF TransitionCircuit
<1>19. CASE ReleaseLock(w)
  BY <1>19 DEF ReleaseLock
<1>20. CASE WriteToDeleted(w)
  BY <1>20 DEF WriteToDeleted, Abandon
<1>21. CASE QueryFails(w)
  BY <1>21 DEF QueryFails, Abandon
<1>22. CASE GetStateFails(w)
  BY <1>22 DEF GetStateFails
<1>23. CASE UpgradeFails(w)
  BY <1>23 DEF UpgradeFails
<1>24. CASE AcquireFails(w)
  BY <1>24 DEF AcquireFails
<1>25. CASE TransitionFails(w)
  BY <1>25 DEF TransitionFails
<1>26. CASE ReleaseFails(w)
  BY <1>26 DEF ReleaseFails
<1>27. CASE Crash(w)
  BY <1>27 DEF Crash
<1> QED
  BY <1>1, <1>2, <1>3, <1>4, <1>5, <1>6, <1>7, <1>8, <1>9, <1>10, <1>11, <1>12, <1>13, <1>14, <1>15, <1>16, <1>17, <1>18, <1>19, <1>20, <1>21, <1>22, <1>23, <1>24, <1>25, <1>26, <1>27
     DEF WorkerStep, WorkerFault

\* A job is in the locked section because it was already, or because it just
\* took the lock; while it stays there it does not touch the lock.
LEMMA OwnSection ==
    ASSUME TypeInv, NEW w \in Workers, WorkerStep(w) \/ WorkerFault(w), InLockedSection(w)'
    PROVE  lock' = w \/ (InLockedSection(w) /\ lock' = lock)
<1> USE DEF TypeInv, TypeOK, InLockedSection, job, At, Goto, Finish, Calls, WriteCalls
<1>1. CASE StartJob(w)
  BY <1>1 DEF StartJob
<1>2. CASE GetState(w)
  BY <1>2 DEF GetState
<1>3. CASE ShortCircuit(w)
  BY <1>3 DEF ShortCircuit
<1>4. CASE AcquireLock(w)
  BY <1>4 DEF AcquireLock
<1>5. CASE SkipCheck(w)
  BY <1>5 DEF SkipCheck
<1>6. CASE Retry(w)
  BY <1>6 DEF Retry
<1>7. CASE Probe(w)
  BY <1>7 DEF Probe
<1>8. CASE FindOpen(w)
  BY <1>8 DEF FindOpen
<1>9. CASE CreateIncident(w)
  BY <1>9 DEF CreateIncident
<1>10. CASE AlertCreated(w)
  BY <1>10 DEF AlertCreated
<1>11. CASE AlertDown(w)
  BY <1>11 DEF AlertDown
<1>12. CASE FindActive(w)
  BY <1>12 DEF FindActive
<1>13. CASE ResolveIncident(w)
  BY <1>13 DEF ResolveIncident
<1>14. CASE AlertRecovered(w)
  BY <1>14 DEF AlertRecovered
<1>15. CASE AlertResolved(w)
  BY <1>15 DEF AlertResolved
<1>16. CASE AlertStatus(w)
  BY <1>16 DEF AlertStatus
<1>17. CASE UpdateService(w)
  BY <1>17 DEF UpdateService
<1>18. CASE TransitionCircuit(w)
  BY <1>18 DEF TransitionCircuit
<1>19. CASE ReleaseLock(w)
  BY <1>19 DEF ReleaseLock
<1>20. CASE WriteToDeleted(w)
  BY <1>20 DEF WriteToDeleted, Abandon
<1>21. CASE QueryFails(w)
  BY <1>21 DEF QueryFails, Abandon
<1>22. CASE GetStateFails(w)
  BY <1>22 DEF GetStateFails
<1>23. CASE UpgradeFails(w)
  BY <1>23 DEF UpgradeFails
<1>24. CASE AcquireFails(w)
  BY <1>24 DEF AcquireFails
<1>25. CASE TransitionFails(w)
  BY <1>25 DEF TransitionFails
<1>26. CASE ReleaseFails(w)
  BY <1>26 DEF ReleaseFails
<1>27. CASE Crash(w)
  BY <1>27 DEF Crash
<1> QED
  BY <1>1, <1>2, <1>3, <1>4, <1>5, <1>6, <1>7, <1>8, <1>9, <1>10, <1>11, <1>12, <1>13, <1>14, <1>15, <1>16, <1>17, <1>18, <1>19, <1>20, <1>21, <1>22, <1>23, <1>24, <1>25, <1>26, <1>27
     DEF WorkerStep, WorkerFault

\* As long as no lock expires under a running check, the locked section belongs
\* to one worker at a time, for any number of workers and any other faults.
THEOREM LockExcludes == Spec => []LockedSectionExclusive
<1>1. Init => TypeInv /\ LockInv
  BY CheckAssumption, ThresholdAssumption, FixedRows
     DEF Init, TypeInv, TypeOK, TransitionDue, At, NoAlerts, OpCalls, Active, CircuitStates,
         Calls, WriteCalls, Outcomes, LockInv, InLockedSection
<1>2. TypeInv /\ LockInv /\ [Next]_vars => (TypeInv /\ LockInv)'
  <2> SUFFICES ASSUME TypeInv, LockInv, [Next]_vars, "ttl" \notin Faults,
                      NEW v \in Workers, InLockedSection(v)'
               PROVE  lock' = v
    BY TypeStep, TransitionDueStep DEF TypeInv, LockInv
  <2>1. CASE Surroundings
    <3>1. InLockedSection(v) /\ lock = v
      BY <2>1, SurroundingsKeepJobs DEF InLockedSection, LockInv, job
    <3>2. lock' = lock
      BY <2>1, <3>1, CheckAssumption
         DEF Surroundings, OrphanExpires, CoolDown, Age, HeldLockExpires, Environment,
             TargetChanges, ToggleEnabled, RemoveService, OperatorStep, OpRead,
             OpAcknowledge, OpResolve, OpAlertResolved, OpAlertRecovered, OpReset,
             OpAborts, vars
    <3> QED
      BY <3>1, <3>2
  <2>2. ASSUME NEW w \in Workers, WorkerStep(w) \/ WorkerFault(w) PROVE lock' = v
    <3>1. CASE v = w
      BY <2>2, <3>1, OwnSection DEF LockInv
    <3>2. CASE v # w
      <4>1. InLockedSection(v) /\ lock = v
        BY <2>2, <3>2, OtherJobs DEF TypeInv, SameJob, InLockedSection, LockInv
      <4> QED
        BY <2>2, <3>2, <4>1, OwnLockMove, CheckAssumption
    <3> QED
      BY <3>1, <3>2
  <2> QED
    BY <2>1, <2>2, NextCases
<1>3. LockInv => LockedSectionExclusive
  BY DEF LockInv, LockedSectionExclusive
<1> QED
  BY <1>1, <1>2, <1>3, PTL DEF Spec

------------------------------------------------------------------------------
(***************************************************************************)
(* Operators who only acknowledge, and only an incident that is still open, *)
(* are not seen by the monitor: it makes no difference to a check which of  *)
(* its two active statuses an incident has.                                 *)
(***************************************************************************)
OnlyAcknowledged ==
    /\ ResolvedIsFinal
    /\ [][\A o \in Operators : ~OpResolve(o)]_vars

\* What an operator holds is an incident, unless the service is gone with all of them.
HeldInv ==
    exists => \A o \in Operators :
        ~OpAt(o, "idle") => opInc[o] \in Incidents /\ incident[opInc[o]] # "NONE"

BystandersInv == HeldInv /\ \A o \in Operators : opPc[o] \in {"idle", "acknowledge", "resolve"}

\* The monitor's surroundings leave it alone, or remove the service.
Spared ==
    Surroundings => RemoveService \/ UNCHANGED <<row, exists, ActiveIncidents, alerts, circuit>>

\* What a job does to the incidents: it opens one, resolves one or leaves them alone.
LEMMA JobMovesIncidents ==
    ASSUME TypeInv, NEW w \in Workers, WorkerStep(w) \/ WorkerFault(w)
    PROVE  /\ exists' = exists /\ UNCHANGED request
           /\ CreateIncident(w) \/ ResolveIncident(w) \/ UNCHANGED incident
BY DEF WorkerStep, WorkerFault, StartJob, GetState, ShortCircuit,
       AcquireLock, SkipCheck, Retry, Probe, FindOpen, CreateIncident, AlertCreated, AlertDown,
       FindActive, ResolveIncident, AlertRecovered, AlertResolved, AlertStatus, UpdateService,
       TransitionCircuit, ReleaseLock, WriteToDeleted, QueryFails, GetStateFails, UpgradeFails,
       AcquireFails, TransitionFails, ReleaseFails, Crash, Abandon, Finish, database

LEMMA HeldStep ==
    ASSUME TypeInv, HeldInv, [Next]_vars
    PROVE  HeldInv'
<1> USE DEF TypeInv, TypeOK, HeldInv, OpAt, OpGoto, OpFinish
<1>1. ASSUME NEW w \in Workers, WorkerStep(w) \/ WorkerFault(w) PROVE HeldInv'
  <2>1. exists' = exists /\ UNCHANGED <<opPc, opInc>>
    BY <1>1, JobMovesIncidents DEF request
  <2>2. \A i \in Incidents : incident[i] # "NONE" => incident'[i] # "NONE"
    BY <1>1, JobMovesIncidents DEF CreateIncident, ResolveIncident
  <2> QED
    BY <2>1, <2>2
<1>2. ASSUME NEW o \in Operators, OperatorStep(o) PROVE HeldInv'
  <2>1. CASE OpRead(o)
    BY <2>1 DEF OpRead, database, ActiveIncidents, Active
  <2>2. CASE OpAcknowledge(o) \/ OpResolve(o)
    BY <2>2 DEF OpAcknowledge, OpResolve
  <2>3. CASE OpAlertResolved(o) \/ OpAlertRecovered(o) \/ OpReset(o) \/ OpAborts(o)
    BY <2>3 DEF OpAlertResolved, OpAlertRecovered, OpReset, OpAborts, database
  <2> QED
    BY <1>2, <2>1, <2>2, <2>3 DEF OperatorStep
<1>3. CASE RemoveService
  BY <1>3 DEF RemoveService
<1>4. CASE UNCHANGED <<exists, incident, opPc, opInc>>
  BY <1>4
<1>5. Surroundings => \/ RemoveService \/ UNCHANGED <<exists, incident, opPc, opInc>>
                      \/ \E o \in Operators : OperatorStep(o)
  BY DEF Surroundings, Environment, OrphanExpires, CoolDown, HeldLockExpires, TargetChanges,
         ToggleEnabled, vars, database, request
<1> QED
  BY <1>1, <1>2, <1>3, <1>4, <1>5, NextCases

LEMMA HeldHolds == Spec => []HeldInv
<1>1. Init => HeldInv
  BY DEF Init, HeldInv, OpAt
<1> QED
  BY <1>1, HeldStep, TypeHolds, PTL DEF Spec

LEMMA BystandersStep ==
    ASSUME TypeInv, BystandersInv, [Next]_vars, [\A o \in Operators : ~OpResolve(o)]_vars,
           [\A i \in Incidents : incident[i] = "RESOLVED" => incident'[i] # "ACKNOWLEDGED"]_incident
    PROVE  BystandersInv' /\ Spared
<1> USE DEF TypeInv, TypeOK, OpAt, OpGoto, OpFinish
<1>1. ASSUME NEW o \in Operators, OperatorStep(o)
      PROVE  /\ UNCHANGED <<row, exists, ActiveIncidents, alerts, circuit>>
             /\ opPc' = opPc
                \/ \E call \in {"idle", "acknowledge", "resolve"} : opPc' = [opPc EXCEPT ![o] = call]
  <2>1. CASE OpRead(o) \/ OpAborts(o)
    BY <2>1 DEF OpRead, OpAborts, database, breaker, ActiveIncidents
  <2>2. CASE OpAcknowledge(o)
    <3>1. /\ opInc[o] \in Incidents /\ incident[opInc[o]] # "NONE"
          /\ incident' = [incident EXCEPT ![opInc[o]] = "ACKNOWLEDGED"]
          /\ UNCHANGED <<row, exists, alerts, circuit>>
      BY <2>2 DEF OpAcknowledge, BystandersInv, HeldInv, breaker
    <3>2. incident[opInc[o]] # "RESOLVED"
      BY <3>1
    <3>3. ActiveIncidents' = ActiveIncidents
      BY <3>1, <3>2 DEF ActiveIncidents, Active
    <3> QED
      BY <2>2, <3>1, <3>3 DEF OpAcknowledge
  <2>3. CASE OpResolve(o)
    <3>1. UNCHANGED vars
      BY <2>3
    <3> QED
      BY <2>3, <3>1 DEF OpResolve, vars, request
  <2>4. ~\/ OpAlertResolved(o) \/ OpAlertRecovered(o) \/ OpReset(o)
    BY DEF OpAlertResolved, OpAlertRecovered, OpReset, BystandersInv
  <2> QED
    BY <1>1, <2>1, <2>2, <2>3, <2>4 DEF OperatorStep
<1>2. Spared
  BY <1>1
     DEF Spared, Surroundings, Environment, OrphanExpires, CoolDown, Age, HeldLockExpires,
         TargetChanges, ToggleEnabled, vars, database, breaker, ActiveIncidents
<1>3. UNCHANGED opPc \/ \E o \in Operators : OperatorStep(o)
  BY NextCases, JobMovesIncidents
     DEF Surroundings, Environment, OrphanExpires, CoolDown, HeldLockExpires, TargetChanges,
         ToggleEnabled, RemoveService, vars, request
<1>4. \A o \in Operators : opPc'[o] \in {"idle", "acknowledge", "resolve"}
  BY <1>1, <1>3 DEF BystandersInv
<1> QED
  BY <1>2, <1>4, HeldStep DEF BystandersInv

LEMMA Bystanders == Spec /\ OnlyAcknowledged => [][Spared]_vars
<1>1. Init => BystandersInv
  BY DEF Init, BystandersInv, HeldInv, OpAt
<1>2. /\ TypeInv /\ BystandersInv /\ [Next]_vars /\ [\A o \in Operators : ~OpResolve(o)]_vars
      /\ [\A i \in Incidents : incident[i] = "RESOLVED" => incident'[i] # "ACKNOWLEDGED"]_incident
      => BystandersInv' /\ [Spared]_vars
  BY BystandersStep
<1> QED
  BY <1>1, <1>2, TypeHolds, PTL DEF Spec, OnlyAcknowledged, ResolvedIsFinal

LEMMA SparedAlways == [Spared]_vars => Spared
BY DEF Spared, vars, database, breaker, ActiveIncidents

\* Where there are no operators none of them resolves, and jobs never touch a resolved
\* incident again.
LEMMA NobodyResolves ==
    ASSUME Operators = {}
    PROVE  Spec => OnlyAcknowledged
<1>1. TypeInv /\ [Next]_vars =>
        [\A i \in Incidents : incident[i] = "RESOLVED" => incident'[i] # "ACKNOWLEDGED"]_incident
  <2> SUFFICES ASSUME TypeInv, [Next]_vars, incident' # incident,
                      NEW i \in Incidents, incident[i] = "RESOLVED"
               PROVE  incident'[i] # "ACKNOWLEDGED"
    OBVIOUS
  <2>1. CASE RemoveService
    BY <2>1 DEF RemoveService
  <2>2. ASSUME NEW w \in Workers, CreateIncident(w) \/ ResolveIncident(w)
        PROVE  incident'[i] # "ACKNOWLEDGED"
    BY <2>2 DEF CreateIncident, ResolveIncident, TypeInv, TypeOK
  <2>3. Surroundings => RemoveService
    BY DEF Surroundings, Environment, OrphanExpires, CoolDown, HeldLockExpires, TargetChanges,
           ToggleEnabled, vars, database
  <2> QED
    BY <2>1, <2>2, <2>3, NextCases, JobMovesIncidents
<1>2. [Next]_vars => [\A o \in Operators : ~OpResolve(o)]_vars
  OBVIOUS
<1> QED
  BY <1>1, <1>2, TypeHolds, PTL DEF Spec, OnlyAcknowledged, ResolvedIsFinal

------------------------------------------------------------------------------
(***************************************************************************)
(* One worker, where nobody resolves by hand: process() is the abstract     *)
(* monitor.                                                                 *)
(***************************************************************************)

\* Only a failed check enters an outage, and a failed check never ends one.
LEMMA OutageEdges ==
    ASSUME NEW r \in Rows, NEW outcome \in Outcomes
    PROVE  /\ EntersOutage(r.status, NextRow(r, outcome).status) => outcome = "fail"
           /\ ~LeavesOutage(r.status, NextRow(r, "fail").status)
BY ThresholdAssumption
   DEF Rows, Statuses, Outcomes, NextRow, Bump, AfterFailure, AfterSuccess, Settled,
       EntersOutage, LeavesOutage

Raising  == {"findOpen", "create", "alertCreated", "alertDown"}
Clearing == {"findActive", "resolve", "alertRecovered", "alertResolved"}
Storing  == {"alertStatus", "update"}

\* What a job that acts alone knows at each of its calls: the row is still the one it
\* read, what it will store is one application of NextRow to it, and the incidents
\* already are what the new status asks for.
SoloInv(w) ==
    /\ AtMostOneActiveIncident
    /\ pc[w] \in Calls \ {"idle", "transition", "release"} => row = snap[w]
    /\ pc[w] \in {"lock", "probe"} => seen[w] # "OPEN"
    /\ pc[w] \in Raising \union Clearing \union Storing =>
           \E outcome \in Outcomes : next[w] = NextRow(snap[w], outcome)
    /\ pc[w] \in Raising => EntersOutage(snap[w].status, next[w].status)
    /\ pc[w] \in Clearing => LeavesOutage(snap[w].status, next[w].status)
    /\ exists =>
        /\ pc[w] = "create" => ActiveIncidents = {}
        /\ pc[w] \in {"alertCreated", "alertDown"} => ActiveIncidents # {}
        /\ pc[w] = "resolve" => subject[w] \in ActiveIncidents
        /\ pc[w] \in {"alertRecovered", "alertResolved"} => ActiveIncidents = {}
        /\ pc[w] \in Storing =>
            /\ EntersOutage(snap[w].status, next[w].status) => ActiveIncidents # {}
            /\ LeavesOutage(snap[w].status, next[w].status) => ActiveIncidents = {}

LEMMA SoloWorkerStep ==
    ASSUME NEW w \in Workers, TypeInv, SoloInv(w), WorkerStep(w) \/ WorkerFault(w)
    PROVE  SoloInv(w)'
<1> USE OutageEdges
    DEF TypeInv, TypeOK, SoloInv, AtMostOneActiveIncident, ActiveIncidents, Active, database,
        job, At, Goto, Finish, Raising, Clearing, Storing, Calls, WriteCalls
<1>1. CASE StartJob(w)
  BY <1>1 DEF StartJob
<1>2. CASE GetState(w)
  BY <1>2 DEF GetState
<1>3. CASE ShortCircuit(w)
  BY <1>3 DEF ShortCircuit, IncidentCall, StatusCall, Outcomes
<1>4. CASE AcquireLock(w)
  BY <1>4 DEF AcquireLock
<1>5. CASE SkipCheck(w)
  BY <1>5 DEF SkipCheck
<1>6. CASE Retry(w)
  BY <1>6 DEF Retry
<1>7. CASE Probe(w)
  BY <1>7 DEF Probe, IncidentCall, StatusCall
<1>8. CASE FindOpen(w)
  BY <1>8 DEF FindOpen, EntersOutage, LeavesOutage
<1>9. CASE CreateIncident(w)
  BY <1>9 DEF CreateIncident
<1>10. CASE AlertCreated(w)
  BY <1>10 DEF AlertCreated
<1>11. CASE AlertDown(w)
  BY <1>11 DEF AlertDown, EntersOutage, LeavesOutage
<1>12. CASE FindActive(w)
  BY <1>12 DEF FindActive, StatusCall, EntersOutage, LeavesOutage
<1>13. CASE ResolveIncident(w)
  BY <1>13 DEF ResolveIncident
<1>14. CASE AlertRecovered(w)
  BY <1>14 DEF AlertRecovered
<1>15. CASE AlertResolved(w)
  BY <1>15 DEF AlertResolved, StatusCall, EntersOutage, LeavesOutage
<1>16. CASE AlertStatus(w)
  BY <1>16 DEF AlertStatus
<1>17. CASE UpdateService(w)
  BY <1>17 DEF UpdateService
<1>18. CASE TransitionCircuit(w)
  BY <1>18 DEF TransitionCircuit
<1>19. CASE ReleaseLock(w)
  BY <1>19 DEF ReleaseLock
<1>20. CASE WriteToDeleted(w)
  BY <1>20 DEF WriteToDeleted, Abandon
<1>21. CASE QueryFails(w)
  BY <1>21 DEF QueryFails, Abandon
<1>22. CASE GetStateFails(w)
  BY <1>22 DEF GetStateFails
<1>23. CASE UpgradeFails(w)
  BY <1>23 DEF UpgradeFails
<1>24. CASE AcquireFails(w)
  BY <1>24 DEF AcquireFails
<1>25. CASE TransitionFails(w)
  BY <1>25 DEF TransitionFails
<1>26. CASE ReleaseFails(w)
  BY <1>26 DEF ReleaseFails
<1>27. CASE Crash(w)
  BY <1>27 DEF Crash
<1> QED
  BY <1>1, <1>2, <1>3, <1>4, <1>5, <1>6, <1>7, <1>8, <1>9, <1>10, <1>11, <1>12, <1>13, <1>14, <1>15, <1>16, <1>17, <1>18, <1>19, <1>20, <1>21, <1>22, <1>23, <1>24, <1>25, <1>26, <1>27
     DEF WorkerStep, WorkerFault

LEMMA SoloSurroundings ==
    ASSUME NEW w, Workers = {w}, TypeInv, SoloInv(w), Spared, Surroundings
    PROVE  SoloInv(w)'
<1>1. CASE RemoveService
  BY <1>1, SurroundingsKeepJobs
     DEF RemoveService, SoloInv, ActiveIncidents, Active, AtMostOneActiveIncident, job
<1>2. CASE UNCHANGED <<row, exists, ActiveIncidents>>
  BY <1>2, SurroundingsKeepJobs DEF SoloInv, AtMostOneActiveIncident, job
<1> QED
  BY <1>1, <1>2 DEF Spared

LEMMA SoloInit ==
    ASSUME NEW w, Workers = {w}, Init
    PROVE  TypeInv /\ SoloInv(w)
BY CheckAssumption, ThresholdAssumption, FixedRows
   DEF Init, TypeInv, TypeOK, TransitionDue, At, NoAlerts, OpCalls, Active, CircuitStates,
       Calls, WriteCalls, Outcomes, SoloInv, AtMostOneActiveIncident, ActiveIncidents,
       Raising, Clearing, Storing

LEMMA SoloNext ==
    ASSUME NEW w, Workers = {w}, TypeInv, SoloInv(w), [Next]_vars, [Spared]_vars
    PROVE  (TypeInv /\ SoloInv(w))'
BY TypeStep, TransitionDueStep, NextCases, SoloWorkerStep, SoloSurroundings, SparedAlways
   DEF TypeInv

\* MonitorSpec brings its own copies of the operators of MonitorStatus.
LEMMA MonitorOperators ==
    /\ Monitor!Outcomes = Outcomes /\ Monitor!NewRow = NewRow
    /\ \A r, outcome : Monitor!NextRow(r, outcome) = NextRow(r, outcome)
    /\ \A from, to : /\ Monitor!EntersOutage(from, to) = EntersOutage(from, to)
                     /\ Monitor!LeavesOutage(from, to) = LeavesOutage(from, to)
BY DEF Outcomes, NewRow, NextRow, Bump, AfterFailure, AfterSuccess, Settled, EntersOutage,
       LeavesOutage, Monitor!Outcomes, Monitor!NewRow, Monitor!NextRow, Monitor!Bump,
       Monitor!AfterFailure, Monitor!AfterSuccess, Monitor!Settled, Monitor!EntersOutage,
       Monitor!LeavesOutage

\* The steps of such a job that the abstract monitor sees.
LEMMA SoloStepRefines ==
    ASSUME NEW w \in Workers, TypeInv, SoloInv(w), WorkerStep(w) \/ WorkerFault(w)
    PROVE  Monitor!Next \/ UNCHANGED <<row, exists, ActiveIncidents>>
<1> USE MonitorOperators DEF TypeInv, TypeOK, SoloInv, At, Goto
<1>1. CASE CreateIncident(w)
  <2>1. exists /\ ActiveIncidents = {} /\ EntersOutage(row.status, NextRow(row, "fail").status)
    BY <1>1, OutageEdges DEF CreateIncident, Raising, Clearing, Storing, Calls, WriteCalls
  <2>2. ActiveIncidents' # {} /\ UNCHANGED <<row, exists>>
    BY <1>1 DEF CreateIncident, ActiveIncidents, Active
  <2> QED
    BY <2>1, <2>2 DEF Monitor!Next, Monitor!Raise, Monitor!WouldEnter
<1>2. CASE ResolveIncident(w)
  <2>1. PICK outcome \in Outcomes : LeavesOutage(row.status, NextRow(row, outcome).status)
    BY <1>2 DEF ResolveIncident, Raising, Clearing, Storing, Calls, WriteCalls
  <2>2. exists /\ ActiveIncidents = {subject[w]}
    BY <1>2 DEF ResolveIncident, AtMostOneActiveIncident, ActiveIncidents
  <2>3. ActiveIncidents' = {} /\ UNCHANGED <<row, exists>>
    BY <1>2, <2>2 DEF ResolveIncident, ActiveIncidents, Active
  <2> QED
    BY <2>1, <2>2, <2>3 DEF Monitor!Next, Monitor!Clear, Monitor!WouldLeave
<1>3. CASE UpdateService(w)
  <2>1. PICK outcome \in Outcomes : next[w] = NextRow(row, outcome)
    BY <1>3 DEF UpdateService, Raising, Clearing, Storing, Calls, WriteCalls
  <2>2. exists /\ row' = NextRow(row, outcome) /\ UNCHANGED <<exists, incident>>
    BY <1>3, <2>1 DEF UpdateService
  <2>3. /\ EntersOutage(row.status, NextRow(row, outcome).status) => ActiveIncidents # {}
        /\ LeavesOutage(row.status, NextRow(row, outcome).status) => ActiveIncidents = {}
    BY <1>3, <2>1 DEF UpdateService, Storing, Calls, WriteCalls
  <2>4. Monitor!Check(outcome)
    BY <2>2, <2>3 DEF Monitor!Check, Monitor!WouldEnter, Monitor!WouldLeave, ActiveIncidents
  <2> QED
    BY <2>4 DEF Monitor!Next, Outcomes
<1>4. CASE ~(CreateIncident(w) \/ ResolveIncident(w) \/ UpdateService(w))
  <2>1. UNCHANGED <<row, exists, incident>>
    BY <1>4
       DEF WorkerStep, WorkerFault, StartJob, GetState, ShortCircuit,
           AcquireLock, SkipCheck, Retry, Probe, FindOpen, AlertCreated, AlertDown,
           FindActive, AlertRecovered, AlertResolved, AlertStatus,
           TransitionCircuit, ReleaseLock, WriteToDeleted, QueryFails,
           GetStateFails, UpgradeFails, AcquireFails, TransitionFails, ReleaseFails,
           Crash, Abandon, Finish, database
  <2> QED
    BY <2>1 DEF ActiveIncidents
<1> QED
  BY <1>1, <1>2, <1>3, <1>4

LEMMA SoloNextRefines ==
    ASSUME NEW w, Workers = {w}, TypeInv, SoloInv(w), [Next]_vars, [Spared]_vars
    PROVE  [Monitor!Next]_(Monitor!vars)
<1>1. CASE RemoveService
  <2>1. Monitor!Retire
    BY <1>1 DEF RemoveService, Monitor!Retire, ActiveIncidents, Active
  <2> QED
    BY <2>1 DEF Monitor!Next
<1>2. CASE UNCHANGED <<row, exists, ActiveIncidents>>
  BY <1>2 DEF Monitor!vars
<1>3. CASE WorkerStep(w) \/ WorkerFault(w)
  BY <1>3, SoloStepRefines DEF Monitor!vars
<1> QED
  BY <1>1, <1>2, <1>3, NextCases, SparedAlways DEF Spared

\* For any thresholds, retry count, incident names and faults: with one worker, beside
\* operators who only acknowledge, process() with its incident handling implements the
\* abstract monitor.
THEOREM SoloImplementsMonitor ==
    ASSUME NEW w, Workers = {w}
    PROVE  Spec /\ OnlyAcknowledged => ImplementsMonitor
<1>1. Init => TypeInv /\ SoloInv(w)
  BY SoloInit
<1>2. TypeInv /\ SoloInv(w) /\ [Next]_vars /\ [Spared]_vars => (TypeInv /\ SoloInv(w))'
  BY SoloNext
<1>3. Init => Monitor!Init
  BY MonitorOperators DEF Init, Monitor!Init, ActiveIncidents, Active
<1>4. TypeInv /\ SoloInv(w) /\ [Next]_vars /\ [Spared]_vars => [Monitor!Next]_(Monitor!vars)
  BY SoloNextRefines
<1> QED
  BY <1>1, <1>2, <1>3, <1>4, Bystanders, PTL DEF Spec, ImplementsMonitor, Monitor!Spec

\* With a recovery threshold above 1 a consistent row does not leave DOWN for
\* good in one check, so the incident of a service shown DOWN is not touched.
LEMMA DownIsNotLeftAtOnce ==
    ASSUME NEW r \in Rows, Consistent(r), r.status = "DOWN", RecoveryThreshold > 1,
           NEW outcome \in Outcomes
    PROVE  ~LeavesOutage(r.status, NextRow(r, outcome).status)
BY ThresholdAssumption
   DEF Rows, Statuses, Outcomes, NextRow, Bump, AfterFailure, AfterSuccess, Settled, LeavesOutage,
       Consistent

\* So a step of the abstract monitor never leaves a service shown DOWN without an incident.
LEMMA MonitorKeepsDown ==
    ASSUME RecoveryThreshold > 1, TypeOK, RowInv, DownHasIncident, [Monitor!Next]_(Monitor!vars)
    PROVE  DownHasIncident'
<1> USE DEF TypeOK, DownHasIncident
<1>1. CASE Monitor!Raise
  BY <1>1 DEF Monitor!Raise
<1>2. CASE Monitor!Clear
  BY <1>2, MonitorOperators, DownIsNotLeftAtOnce DEF Monitor!Clear, Monitor!WouldLeave, RowInv
<1>3. CASE Monitor!Retire
  BY <1>3 DEF Monitor!Retire
<1>4. ASSUME NEW outcome \in Outcomes, Monitor!Check(outcome) PROVE DownHasIncident'
  BY <1>4, MonitorOperators DEF Monitor!Check, Monitor!WouldEnter, EntersOutage
<1>5. CASE UNCHANGED Monitor!vars
  BY <1>5 DEF Monitor!vars
<1> QED
  BY <1>1, <1>2, <1>3, <1>4, <1>5, MonitorOperators DEF Monitor!Next

\* For one worker beside operators who only acknowledge, and any faults: a service shown
\* DOWN has an active incident, provided recovery takes at least two good checks.
THEOREM SoloDownHasIncident ==
    ASSUME NEW w, Workers = {w}, RecoveryThreshold > 1
    PROVE  Spec /\ OnlyAcknowledged => []DownHasIncident
<1>1. Init => TypeInv /\ RowInv /\ SoloInv(w) /\ DownHasIncident
  BY SoloInit, FixedRows DEF Init, RowInv, DownHasIncident, NewRow
<1>2. /\ TypeInv /\ RowInv /\ SoloInv(w) /\ DownHasIncident /\ [Next]_vars /\ [Spared]_vars
      => (TypeInv /\ RowInv /\ SoloInv(w) /\ DownHasIncident)'
  BY SoloNext, SoloNextRefines, RowInvStep, MonitorKeepsDown DEF TypeInv
<1> QED
  BY <1>1, <1>2, Bystanders, PTL DEF Spec

------------------------------------------------------------------------------
(***************************************************************************)
(* The closing alerts.  A handler that is about to send one holds an        *)
(* incident that is over and stays over: whoever opens an incident takes an *)
(* identifier that no handler holds.                                        *)
(***************************************************************************)
Closing == {"alertRecovered", "alertResolved"}
Over == {"ACKNOWLEDGED", "RESOLVED"}

ClosingInv ==
    /\ ResolvedBeforeAnnounced
    /\ \A w \in Workers : pc[w] \in Closing \union {"resolve"} => subject[w] \in Incidents
    /\ \A o \in Operators : ~OpAt(o, "idle") => opInc[o] \in Incidents
    /\ exists =>
        /\ \A w \in Workers : pc[w] \in Closing => incident[subject[w]] \in Over
        /\ \A o \in Operators : opPc[o] \in Closing => incident[opInc[o]] \in Over

ClosingTypes == {"SERVICE_RECOVERED", "INCIDENT_RESOLVED"}

\* What a step does to the incidents and their closing alerts: it leaves them
\* alone, resolves or acknowledges one, opens one that nobody holds and that no alert
\* names, or announces the end of one that is over.
KeptIncident(i) ==
    /\ \/ incident'[i] = incident[i]
       \/ incident'[i] \in Over
       \/ exists /\ Unused(i) /\ alerts'[i] = NoAlerts
    /\ \A t \in Counted \cap ClosingTypes :
           \/ alerts'[i][t] = alerts[i][t]
           \/ alerts'[i] = NoAlerts
           \/ incident[i] \in Over /\ incident'[i] = incident[i]

\* Every call of a job but these leaves the incidents and alerts alone and leads to no
\* call that needs an incident in hand.
LEMMA OtherCalls ==
    ASSUME TypeInv, NEW w \in Workers, WorkerStep(w) \/ WorkerFault(w),
           ~CreateIncident(w), ~AlertCreated(w), ~AlertDown(w), ~FindActive(w),
           ~ResolveIncident(w), ~AlertRecovered(w), ~AlertResolved(w)
    PROVE  UNCHANGED <<exists, incident, alerts>> /\ pc'[w] \notin Closing \union {"resolve"}
<1> USE DEF TypeInv, TypeOK, database, job, At, Goto, Finish, Closing
<1>1. CASE StartJob(w)
  BY <1>1 DEF StartJob
<1>2. CASE GetState(w)
  BY <1>2 DEF GetState
<1>3. CASE ShortCircuit(w)
  BY <1>3 DEF ShortCircuit, IncidentCall, StatusCall
<1>4. CASE AcquireLock(w)
  BY <1>4 DEF AcquireLock
<1>5. CASE SkipCheck(w)
  BY <1>5 DEF SkipCheck
<1>6. CASE Retry(w)
  BY <1>6 DEF Retry
<1>7. CASE Probe(w)
  BY <1>7 DEF Probe, IncidentCall, StatusCall
<1>8. CASE FindOpen(w)
  BY <1>8 DEF FindOpen
<1>9. CASE AlertStatus(w)
  BY <1>9 DEF AlertStatus
<1>10. CASE UpdateService(w)
  BY <1>10 DEF UpdateService
<1>11. CASE TransitionCircuit(w)
  BY <1>11 DEF TransitionCircuit
<1>12. CASE ReleaseLock(w)
  BY <1>12 DEF ReleaseLock
<1>13. CASE WriteToDeleted(w) \/ QueryFails(w)
  BY <1>13 DEF WriteToDeleted, QueryFails, Abandon
<1>14. CASE GetStateFails(w) \/ UpgradeFails(w)
  BY <1>14 DEF GetStateFails, UpgradeFails
<1>15. CASE AcquireFails(w) \/ TransitionFails(w)
  BY <1>15 DEF AcquireFails, TransitionFails
<1>16. CASE ReleaseFails(w) \/ Crash(w)
  BY <1>16 DEF ReleaseFails, Crash
<1> QED
  BY <1>1, <1>2, <1>3, <1>4, <1>5, <1>6, <1>7, <1>8, <1>9, <1>10, <1>11, <1>12, <1>13, <1>14,
     <1>15, <1>16
     DEF WorkerStep, WorkerFault

\* An alert about one incident leaves the counts of the others alone, and an alert of
\* another type those of its own.
LEMMA AlertCounts ==
    ASSUME NEW i, NEW type, alerts \in [Incidents -> [Counted -> 0..2]], Alert(i, type),
           NEW j \in Incidents, NEW t \in Counted, j # i \/ t # type
    PROVE  alerts'[j][t] = alerts[j][t]
BY DEF Alert

LEMMA WorkerKeepsIncidents ==
    ASSUME TypeInv, ClosingInv, NEW w \in Workers, WorkerStep(w) \/ WorkerFault(w)
    PROVE  /\ \A i \in Incidents : KeptIncident(i)
           /\ exists' = exists
           /\ pc'[w] \in Closing \union {"resolve"} => subject'[w] \in Incidents
           /\ exists /\ pc'[w] \in Closing => incident'[subject'[w]] \in Over
<1> USE DEF TypeInv, TypeOK, ClosingInv, KeptIncident, Closing, ClosingTypes, Over, At, Goto
<1>1. CASE CreateIncident(w)
  BY <1>1 DEF CreateIncident
<1>2. CASE AlertCreated(w)
  BY <1>2, AlertCounts DEF AlertCreated, job
<1>3. CASE AlertDown(w)
  BY <1>3, AlertCounts DEF AlertDown, job
<1>4. CASE FindActive(w)
  BY <1>4 DEF FindActive, ActiveIncidents, StatusCall, database
<1>5. CASE ResolveIncident(w)
  BY <1>5 DEF ResolveIncident, job
<1>6. CASE AlertRecovered(w)
  BY <1>6, AlertCounts DEF AlertRecovered, job
<1>7. CASE AlertResolved(w)
  <2>1. pc'[w] \in {"alertStatus", "update"}
    BY <1>7 DEF AlertResolved, StatusCall
  <2> QED
    BY <1>7, <2>1, AlertCounts DEF AlertResolved, job
<1>8. CASE ~\/ CreateIncident(w) \/ AlertCreated(w) \/ AlertDown(w) \/ FindActive(w)
            \/ ResolveIncident(w) \/ AlertRecovered(w) \/ AlertResolved(w)
  BY <1>8, OtherCalls
<1> QED
  BY <1>1, <1>2, <1>3, <1>4, <1>5, <1>6, <1>7, <1>8

LEMMA OperatorKeepsIncidents ==
    ASSUME TypeInv, ClosingInv, NEW o \in Operators, OperatorStep(o)
    PROVE  /\ \A i \in Incidents : KeptIncident(i)
           /\ exists' = exists
           /\ ~OpAt(o, "idle")' => opInc'[o] \in Incidents
           /\ exists /\ opPc'[o] \in Closing => incident'[opInc'[o]] \in Over
           /\ \A p \in Operators \ {o} : opPc'[p] = opPc[p] /\ opInc'[p] = opInc[p]
<1> USE DEF TypeInv, TypeOK, ClosingInv, KeptIncident, Closing, ClosingTypes, Over, OpAt, OpGoto,
            OpFinish, OpCalls
<1>1. CASE OpRead(o)
  BY <1>1 DEF OpRead, ActiveIncidents, database
<1>2. CASE OpAcknowledge(o)
  BY <1>2 DEF OpAcknowledge
<1>3. CASE OpResolve(o)
  BY <1>3 DEF OpResolve
<1>4. CASE OpAlertResolved(o)
  BY <1>4, AlertCounts DEF OpAlertResolved
<1>5. CASE OpAlertRecovered(o)
  BY <1>5, AlertCounts DEF OpAlertRecovered
<1>6. CASE OpReset(o)
  BY <1>6 DEF OpReset
<1>7. CASE OpAborts(o)
  BY <1>7 DEF OpAborts, database
<1> QED
  BY <1>1, <1>2, <1>3, <1>4, <1>5, <1>6, <1>7 DEF OperatorStep

\* An incident that is over stays over as long as a handler holds it, and one that
\* becomes open has no closing alert.
LEMMA KeptIncidents ==
    ASSUME TypeInv, ClosingInv, \A i \in Incidents : KeptIncident(i)
    PROVE  /\ ResolvedBeforeAnnounced'
           /\ exists => \A w \in Workers : pc[w] \in Closing => incident'[subject[w]] \in Over
           /\ exists => \A o \in Operators : opPc[o] \in Closing => incident'[opInc[o]] \in Over
<1>1. ASSUME NEW i \in Incidents, exists, incident[i] \in Over,
             (\E w \in Workers : subject[w] = i) \/ (\E o \in Operators : opInc[o] = i)
      PROVE  incident'[i] \in Over
  BY <1>1 DEF KeptIncident, Unused, Over
<1>2. ResolvedBeforeAnnounced'
  <2> SUFFICES ASSUME NEW i \in Incidents, NEW t \in Counted \cap ClosingTypes, alerts'[i][t] > 0
               PROVE  incident'[i] # "OPEN"
    BY DEF ResolvedBeforeAnnounced, ClosingTypes
  <2>1. alerts'[i] # NoAlerts
    BY DEF NoAlerts
  <2> QED
    BY <2>1 DEF KeptIncident, ClosingInv, ResolvedBeforeAnnounced, ClosingTypes, Over
<1> QED
  BY <1>1, <1>2 DEF ClosingInv, OpAt, Closing

LEMMA ClosingStep == TypeInv /\ ClosingInv /\ [Next]_vars => ClosingInv'
<1> SUFFICES ASSUME TypeInv, ClosingInv, [Next]_vars PROVE ClosingInv'
  OBVIOUS
<1>1. ASSUME NEW w \in Workers, WorkerStep(w) \/ WorkerFault(w) PROVE ClosingInv'
  <2>1. UNCHANGED <<opPc, opInc>>
    BY <1>1
       DEF WorkerStep, WorkerFault, StartJob, GetState, ShortCircuit, AcquireLock, SkipCheck,
           Retry, Probe, FindOpen, CreateIncident, AlertCreated, AlertDown, FindActive,
           ResolveIncident, AlertRecovered, AlertResolved, AlertStatus, UpdateService,
           TransitionCircuit, ReleaseLock, WriteToDeleted, QueryFails, GetStateFails,
           UpgradeFails, AcquireFails, TransitionFails, ReleaseFails, Crash, Abandon, Finish,
           request
  <2>2. \A v \in Workers \ {w} : SameJob(v)
    BY <1>1, OtherJobs DEF TypeInv
  <2> QED
    BY <1>1, <2>1, <2>2, WorkerKeepsIncidents, KeptIncidents DEF ClosingInv, SameJob, OpAt
<1>2. ASSUME NEW o \in Operators, OperatorStep(o) PROVE ClosingInv'
  <2>1. UNCHANGED <<pc, subject>>
    BY <1>2, SurroundingsKeepJobs DEF Surroundings, Environment, job
  <2> QED
    BY <1>2, <2>1, OperatorKeepsIncidents, KeptIncidents DEF ClosingInv, OpAt
<1>3. CASE RemoveService
  BY <1>3 DEF RemoveService, ClosingInv, ResolvedBeforeAnnounced, NoAlerts, job, request, OpAt
<1>4. CASE \/ OrphanExpires \/ CoolDown \/ HeldLockExpires \/ TargetChanges \/ ToggleEnabled
           \/ UNCHANGED vars
  BY <1>4 DEF OrphanExpires, CoolDown, Age, HeldLockExpires, TargetChanges, ToggleEnabled, vars,
              database, job, request, ClosingInv, ResolvedBeforeAnnounced, OpAt
<1> QED
  BY <1>1, <1>2, <1>3, <1>4, NextCases DEF Surroundings, Environment

\* For any number of workers and operators, and whatever fails: no closing alert names
\* an incident that is still open, however the worker's resolution and the operator's
\* interleave.
THEOREM ResolvedBeforeAnyAnnouncement == Spec => []ResolvedBeforeAnnounced
<1>1. Init => TypeInv /\ ClosingInv
  BY CheckAssumption, ThresholdAssumption, FixedRows
     DEF Init, TypeInv, TypeOK, TransitionDue, At, NoAlerts, OpCalls, Active, CircuitStates,
         Calls, WriteCalls, Outcomes, ClosingInv, ResolvedBeforeAnnounced, OpAt, Closing
<1>2. TypeInv /\ ClosingInv /\ [Next]_vars => (TypeInv /\ ClosingInv)'
  BY TypeStep, TransitionDueStep, ClosingStep DEF TypeInv
<1>3. ClosingInv => ResolvedBeforeAnnounced
  BY DEF ClosingInv
<1> QED
  BY <1>1, <1>2, <1>3, PTL DEF Spec

------------------------------------------------------------------------------
(***************************************************************************)
(* What a single worker announces.                                          *)
(***************************************************************************)
Silent(i, types) == \A t \in Counted \cap types : alerts[i][t] = 0

\* An incident that is active has no closing alert, and an alert the job is about to
\* send about the incident in its hands has not been sent.
OnceInv(w) ==
    /\ AlertsOnce
    /\ \A i \in ActiveIncidents : Silent(i, ClosingTypes)
    /\ pc[w] \in {"alertCreated", "alertDown", "resolve"} \union Closing =>
           subject[w] \in Incidents
    /\ pc[w] = "alertCreated" => Silent(subject[w], AlertTypes)
    /\ pc[w] = "alertDown" => Silent(subject[w], AlertTypes \ {"INCIDENT_CREATED"})
    /\ pc[w] = "alertRecovered" => Silent(subject[w], ClosingTypes)
    /\ pc[w] = "alertResolved" => Silent(subject[w], {"INCIDENT_RESOLVED"})

\* Beyond OtherCalls: the calls that change no incident lead to no alert either.
LEMMA QuietCalls ==
    ASSUME TypeInv, NEW w \in Workers, WorkerStep(w) \/ WorkerFault(w),
           ~CreateIncident(w), ~AlertCreated(w), ~AlertDown(w), ~FindActive(w),
           ~ResolveIncident(w), ~AlertRecovered(w), ~AlertResolved(w)
    PROVE  /\ UNCHANGED <<exists, incident, alerts>>
           /\ pc'[w] \notin {"alertCreated", "alertDown", "resolve"} \union Closing
<1>1. UNCHANGED <<exists, incident, alerts>> /\ pc'[w] \notin Closing \union {"resolve"}
  BY OtherCalls
<1>2. pc'[w] \notin {"alertCreated", "alertDown"}
  BY DEF WorkerStep, WorkerFault, StartJob, GetState, ShortCircuit, AcquireLock, SkipCheck, Retry,
         Probe, FindOpen, AlertStatus, UpdateService, TransitionCircuit, ReleaseLock,
         WriteToDeleted, QueryFails, GetStateFails, UpgradeFails, AcquireFails, TransitionFails,
         ReleaseFails, Crash, Abandon, Finish, Goto, At, IncidentCall, StatusCall, TypeInv, TypeOK
<1> QED
  BY <1>1, <1>2

\* An alert sent for the first time is counted once.
LEMMA FirstAlert ==
    ASSUME NEW i \in Incidents, NEW type, alerts \in [Incidents -> [Counted -> 0..2]],
           Alert(i, type), NEW t \in Counted, alerts[i][t] <= 1, t = type => alerts[i][t] = 0
    PROVE  alerts'[i][t] <= 1
BY DEF Alert, Bump

\* What the job knows about the incidents and the one in its hands.
InHand(w) ==
    /\ AtMostOneActiveIncident
    /\ exists =>
        /\ pc[w] = "create" => ActiveIncidents = {}
        /\ pc[w] = "resolve" => subject[w] \in ActiveIncidents
        /\ pc[w] \in Closing => ActiveIncidents = {}

LEMMA OnceWorkerStep ==
    ASSUME NEW w \in Workers, TypeInv, InHand(w), OnceInv(w), WorkerStep(w) \/ WorkerFault(w)
    PROVE  OnceInv(w)'
<1> USE DEF TypeInv, TypeOK, OnceInv, AlertsOnce, Silent, ClosingTypes, Closing, ActiveIncidents, At, Goto
<1>1. CASE CreateIncident(w)
  BY <1>1 DEF CreateIncident, NoAlerts
<1>2. CASE AlertCreated(w)
  <2>1. /\ Alert(subject[w], "INCIDENT_CREATED") /\ subject[w] \in Incidents
        /\ pc'[w] = "alertDown" /\ subject' = subject /\ incident' = incident
    BY <1>2 DEF AlertCreated, job
  <2>2. AlertsOnce'
    <3> SUFFICES ASSUME NEW i \in Incidents, NEW type \in Counted PROVE alerts'[i][type] <= 1
      OBVIOUS
    <3>1. CASE i = subject[w] /\ type = "INCIDENT_CREATED"
      BY <1>2, <2>1, <3>1, FirstAlert DEF AlertCreated, AlertTypes
    <3>2. CASE ~(i = subject[w] /\ type = "INCIDENT_CREATED")
      BY <2>1, <3>2, AlertCounts
    <3> QED
      BY <3>1, <3>2
  <2>3. \A i \in ActiveIncidents' : Silent(i, ClosingTypes)'
    <3> SUFFICES ASSUME NEW i \in ActiveIncidents, NEW t \in Counted \cap ClosingTypes
                 PROVE  alerts'[i][t] = 0
      BY <2>1
    <3>1. alerts'[i][t] = alerts[i][t]
      BY <2>1, AlertCounts
    <3> QED
      BY <3>1
  <2>4. Silent(subject[w], AlertTypes \ {"INCIDENT_CREATED"})'
    BY <1>2, <2>1, AlertCounts DEF AlertCreated, AlertTypes
  <2> QED
    BY <2>1, <2>2, <2>3, <2>4
<1>3. CASE AlertDown(w)
  <2>1. /\ Alert(subject[w], "SERVICE_DOWN") /\ subject[w] \in Incidents
        /\ pc'[w] = "update" /\ subject' = subject /\ incident' = incident
    BY <1>3 DEF AlertDown, job
  <2>2. AlertsOnce'
    <3> SUFFICES ASSUME NEW i \in Incidents, NEW type \in Counted PROVE alerts'[i][type] <= 1
      OBVIOUS
    <3>1. CASE i = subject[w] /\ type = "SERVICE_DOWN"
      BY <1>3, <2>1, <3>1, FirstAlert DEF AlertDown, AlertTypes
    <3>2. CASE ~(i = subject[w] /\ type = "SERVICE_DOWN")
      BY <2>1, <3>2, AlertCounts
    <3> QED
      BY <3>1, <3>2
  <2>3. \A i \in ActiveIncidents' : Silent(i, ClosingTypes)'
    <3> SUFFICES ASSUME NEW i \in ActiveIncidents, NEW t \in Counted \cap ClosingTypes
                 PROVE  alerts'[i][t] = 0
      BY <2>1
    <3>1. alerts'[i][t] = alerts[i][t]
      BY <2>1, AlertCounts
    <3> QED
      BY <3>1
  <2> QED
    BY <2>1, <2>2, <2>3
<1>4. CASE FindActive(w)
  <2>1. pc'[w] \in {"alertStatus", "update", "resolve"} /\ UNCHANGED <<exists, incident, alerts>>
    BY <1>4 DEF FindActive, StatusCall, database
  <2>2. pc'[w] = "resolve" => subject'[w] \in Incidents
    BY <1>4 DEF FindActive, StatusCall
  <2> QED
    BY <2>1, <2>2
<1>5. CASE ResolveIncident(w)
  <2>1. subject[w] \in ActiveIncidents
    BY <1>5 DEF ResolveIncident, InHand
  <2> QED
    BY <1>5, <2>1 DEF ResolveIncident, job, Active
<1>6. CASE AlertRecovered(w)
  <2>1. ActiveIncidents = {}
    BY <1>6 DEF AlertRecovered, InHand
  <2>2. /\ Alert(subject[w], "SERVICE_RECOVERED") /\ subject[w] \in Incidents
        /\ pc'[w] = "alertResolved" /\ subject' = subject /\ incident' = incident
    BY <1>6 DEF AlertRecovered, job
  <2>3. Silent(subject[w], {"INCIDENT_RESOLVED"})'
    BY <1>6, <2>2, AlertCounts DEF AlertRecovered
  <2>4. AlertsOnce'
    <3> SUFFICES ASSUME NEW i \in Incidents, NEW type \in Counted PROVE alerts'[i][type] <= 1
      OBVIOUS
    <3>1. CASE i = subject[w] /\ type = "SERVICE_RECOVERED"
      BY <1>6, <2>2, <3>1, FirstAlert DEF AlertRecovered
    <3>2. CASE ~(i = subject[w] /\ type = "SERVICE_RECOVERED")
      BY <2>2, <3>2, AlertCounts
    <3> QED
      BY <3>1, <3>2
  <2> QED
    BY <2>1, <2>2, <2>3, <2>4
<1>7. CASE AlertResolved(w)
  <2>1. ActiveIncidents = {}
    BY <1>7 DEF AlertResolved, InHand
  <2>2. pc'[w] \in {"alertStatus", "update"}
    BY <1>7 DEF AlertResolved, StatusCall
  <2>3. Alert(subject[w], "INCIDENT_RESOLVED") /\ subject[w] \in Incidents /\ incident' = incident
    BY <1>7 DEF AlertResolved
  <2>4. AlertsOnce'
    <3> SUFFICES ASSUME NEW i \in Incidents, NEW type \in Counted PROVE alerts'[i][type] <= 1
      OBVIOUS
    <3>1. CASE i = subject[w] /\ type = "INCIDENT_RESOLVED"
      BY <1>7, <2>3, <3>1, FirstAlert DEF AlertResolved
    <3>2. CASE ~(i = subject[w] /\ type = "INCIDENT_RESOLVED")
      BY <2>3, <3>2, AlertCounts
    <3> QED
      BY <3>1, <3>2
  <2> QED
    BY <2>1, <2>2, <2>3, <2>4
<1>8. CASE ~\/ CreateIncident(w) \/ AlertCreated(w) \/ AlertDown(w) \/ FindActive(w)
            \/ ResolveIncident(w) \/ AlertRecovered(w) \/ AlertResolved(w)
  BY <1>8, QuietCalls
<1> QED
  BY <1>1, <1>2, <1>3, <1>4, <1>5, <1>6, <1>7, <1>8

LEMMA OnceStep ==
    ASSUME NEW w, Workers = {w}, TypeInv, SoloInv(w), OnceInv(w), [Next]_vars, [Spared]_vars
    PROVE  OnceInv(w)'
<1>1. CASE RemoveService
  <2>1. UNCHANGED <<pc, subject>>
    BY <1>1 DEF RemoveService, job
  <2>2. ActiveIncidents' = {} /\ \A i \in Incidents, t \in Counted : alerts'[i][t] = 0
    BY <1>1 DEF RemoveService, ActiveIncidents, Active, NoAlerts
  <2> QED
    BY <2>1, <2>2 DEF OnceInv, AlertsOnce, Silent, Closing
<1>2. CASE UNCHANGED <<pc, job, ActiveIncidents, alerts>>
  BY <1>2 DEF OnceInv, AlertsOnce, Silent, job
<1>3. InHand(w)
  BY DEF SoloInv, InHand, Closing
<1> QED
  BY <1>1, <1>2, <1>3, NextCases, SurroundingsKeepJobs, SparedAlways, OnceWorkerStep DEF Spared

\* For one worker beside operators who only acknowledge, and whatever fails or crashes
\* in between, no incident is announced twice by an alert of the same type.
THEOREM SoloAlertsOnce ==
    ASSUME NEW w, Workers = {w}
    PROVE  Spec /\ OnlyAcknowledged => []AlertsOnce
<1>1. Init => TypeInv /\ SoloInv(w) /\ OnceInv(w)
  BY SoloInit DEF Init, OnceInv, AlertsOnce, Silent, ActiveIncidents, Active, NoAlerts, Closing
<1>2. TypeInv /\ SoloInv(w) /\ OnceInv(w) /\ [Next]_vars /\ [Spared]_vars => (TypeInv /\ SoloInv(w) /\ OnceInv(w))'
  BY SoloNext, OnceStep
<1>3. OnceInv(w) => AlertsOnce
  BY DEF OnceInv
<1> QED
  BY <1>1, <1>2, <1>3, Bystanders, PTL DEF Spec

------------------------------------------------------------------------------
(***************************************************************************)
(* Any number of workers.  Between its first and its last use of the row it *)
(* read a job acts; as long as the acting jobs keep apart, each of them     *)
(* works like an only one.  The check lock keeps them apart but for the     *)
(* short-circuited jobs, which do not take it.                              *)
(***************************************************************************)
Acting(w) == pc[w] \in Calls \ {"idle", "getState", "lock", "transition", "release"}
ActingApart == \A v, w \in Workers : Acting(v) /\ Acting(w) => v = w

NoneShortCircuited == \A w \in Workers : seen[w] # "OPEN"

LEMMA LockKeepsApart ==
    ASSUME "ttl" \notin Faults, LockedSectionExclusive, NoneShortCircuited
    PROVE  ActingApart
BY DEF LockedSectionExclusive, NoneShortCircuited, ActingApart, InLockedSection, Acting

HandsInv ==
    /\ AtMostOneActiveIncident /\ AlertsOnce
    /\ \A w \in Workers : InHand(w) /\ OnceInv(w)

LEMMA InHandStep ==
    ASSUME NEW w \in Workers, TypeInv, InHand(w), WorkerStep(w) \/ WorkerFault(w)
    PROVE  InHand(w)'
<1> USE DEF TypeInv, TypeOK, InHand, AtMostOneActiveIncident, ActiveIncidents, Active, Closing,
            At, Goto
<1>1. CASE FindOpen(w)
  BY <1>1 DEF FindOpen, database, job
<1>2. CASE CreateIncident(w)
  BY <1>2 DEF CreateIncident
<1>3. CASE FindActive(w)
  BY <1>3 DEF FindActive, StatusCall, database
<1>4. CASE ResolveIncident(w)
  BY <1>4 DEF ResolveIncident, job
<1>5. CASE AlertCreated(w) \/ AlertDown(w) \/ AlertRecovered(w)
  BY <1>5 DEF AlertCreated, AlertDown, AlertRecovered, job
<1>6. CASE AlertResolved(w)
  BY <1>6 DEF AlertResolved, StatusCall, job
<1>7. CASE ~\/ FindOpen(w) \/ CreateIncident(w) \/ AlertCreated(w) \/ AlertDown(w)
            \/ FindActive(w) \/ ResolveIncident(w) \/ AlertRecovered(w) \/ AlertResolved(w)
  <2>1. UNCHANGED <<exists, incident>> /\ pc'[w] \notin Closing \union {"resolve"}
    BY <1>7, OtherCalls
  <2>2. pc'[w] # "create"
    BY <1>7 DEF WorkerStep, WorkerFault, StartJob, GetState, ShortCircuit, AcquireLock, SkipCheck,
         Retry, Probe, AlertStatus, UpdateService, TransitionCircuit, ReleaseLock,
         WriteToDeleted, QueryFails, GetStateFails, UpgradeFails, AcquireFails, TransitionFails,
         ReleaseFails, Crash, Abandon, Finish, IncidentCall, StatusCall
  <2> QED
    BY <2>1, <2>2
<1> QED
  BY <1>1, <1>2, <1>3, <1>4, <1>5, <1>6, <1>7

\* A job that is not acting leaves the row, the incidents and the alerts alone.
LEMMA IdleHands ==
    ASSUME TypeInv, NEW w \in Workers, WorkerStep(w) \/ WorkerFault(w), ~Acting(w)
    PROVE  UNCHANGED <<row, exists, incident, alerts>>
BY DEF Acting, Calls, WriteCalls, At, WorkerStep, WorkerFault, StartJob, GetState, ShortCircuit,
       AcquireLock, SkipCheck, Retry, Probe, FindOpen, CreateIncident, AlertCreated, AlertDown,
       FindActive, ResolveIncident, AlertRecovered, AlertResolved, AlertStatus, UpdateService,
       TransitionCircuit, ReleaseLock, WriteToDeleted, QueryFails, GetStateFails, UpgradeFails,
       AcquireFails, TransitionFails, ReleaseFails, Crash, Abandon, Finish, database

LEMMA HandsStep ==
    ASSUME TypeInv, HandsInv, ActingApart, [Next]_vars, [Spared]_vars
    PROVE  HandsInv'
<1>1. CASE RemoveService
  <2>1. UNCHANGED <<pc, subject>> /\ ~exists'
    BY <1>1 DEF RemoveService, job
  <2>2. ActiveIncidents' = {} /\ \A i \in Incidents, t \in Counted : alerts'[i][t] = 0
    BY <1>1 DEF RemoveService, ActiveIncidents, Active, NoAlerts
  <2> QED
    BY <2>1, <2>2
       DEF HandsInv, InHand, AtMostOneActiveIncident, OnceInv, AlertsOnce, Silent, Closing
<1>2. CASE UNCHANGED <<pc, job, exists, ActiveIncidents, alerts>>
  BY <1>2 DEF HandsInv, InHand, AtMostOneActiveIncident, OnceInv, AlertsOnce, Silent, job
<1>3. ASSUME NEW w \in Workers, WorkerStep(w) \/ WorkerFault(w) PROVE HandsInv'
  <2>1. InHand(w)' /\ OnceInv(w)'
    BY <1>3, InHandStep, OnceWorkerStep DEF HandsInv
  <2>2. ASSUME NEW v \in Workers, v # w PROVE InHand(v)' /\ OnceInv(v)'
    <3>1. SameJob(v) /\ InHand(v) /\ OnceInv(v)
      BY <1>3, <2>2, OtherJobs DEF TypeInv, HandsInv
    <3>2. CASE Acting(v)
      <4>1. UNCHANGED <<exists, incident, alerts>>
        BY <1>3, <2>2, <3>2, IdleHands DEF ActingApart
      <4> QED
        BY <3>1, <4>1
           DEF SameJob, InHand, AtMostOneActiveIncident, OnceInv, AlertsOnce, Silent,
               ActiveIncidents
    <3>3. CASE ~Acting(v)
      <4>1. pc'[v] \notin {"create", "alertCreated", "alertDown", "resolve"} \union Closing
        BY <3>1, <3>3 DEF SameJob, Acting, Calls, WriteCalls, Closing
      <4> QED
        BY <2>1, <4>1 DEF InHand, OnceInv, Closing
    <3> QED
      BY <3>2, <3>3
  <2> QED
    BY <2>1, <2>2 DEF HandsInv, InHand, OnceInv
<1>4. Surroundings => RemoveService \/ UNCHANGED <<pc, job, exists, ActiveIncidents, alerts>>
  BY SurroundingsKeepJobs, SparedAlways DEF Spared
<1> QED
  BY <1>1, <1>2, <1>3, <1>4, NextCases

LEMMA HandsInit == Init => HandsInv
BY DEF Init, HandsInv, InHand, AtMostOneActiveIncident, OnceInv, AlertsOnce, Silent,
       ActiveIncidents, Active, NoAlerts, Closing

\* For any number of workers beside operators who only acknowledge, whatever crashes,
\* fails, expires or is removed in between: as long as the acting jobs keep apart, no
\* incident is announced twice by an alert of the same type.
THEOREM ApartAlertsOnce == Spec /\ OnlyAcknowledged /\ []ActingApart => []AlertsOnce
<1>1. Spec => []TypeInv
  BY TypeHolds
<1>2. Init => HandsInv
  BY HandsInit
<1>3. TypeInv /\ HandsInv /\ ActingApart /\ [Next]_vars /\ [Spared]_vars => HandsInv'
  BY HandsStep
<1>4. HandsInv => AlertsOnce
  BY DEF HandsInv
<1> QED
  BY <1>1, <1>2, <1>3, <1>4, Bystanders, PTL DEF Spec

\* For any number of workers beside operators who only acknowledge, while the lock outlasts
\* the check: as long as no job is short-circuited, no incident is announced twice by an
\* alert of the same type.
THEOREM LockedAlertsOnce ==
    ASSUME "ttl" \notin Faults
    PROVE  Spec /\ OnlyAcknowledged /\ []NoneShortCircuited => []AlertsOnce
<1>1. Spec => []LockedSectionExclusive
  BY LockExcludes
<1>2. LockedSectionExclusive /\ NoneShortCircuited => ActingApart
  BY LockKeepsApart
<1> QED
  BY <1>1, <1>2, ApartAlertsOnce, PTL

------------------------------------------------------------------------------
(***************************************************************************)
(* The fleet and the abstract monitor.  That the acting jobs keep apart is  *)
(* not enough: a job reads the row before it takes the lock, so it may act  *)
(* on a row that another has stored since.                                  *)
(***************************************************************************)
StartsFresh == [][\A w \in Workers : ~Acting(w) /\ Acting(w)' => snap[w] = row]_vars

FleetInv ==
    /\ AtMostOneActiveIncident
    /\ \A w \in Workers : Acting(w) => SoloInv(w)
    /\ \A w \in Workers : At(w, "lock") => seen[w] # "OPEN"

\* A job gets to the lock, and to its first use of the row, from getState or the lock.
LEMMA EnteringCalls ==
    ASSUME TypeInv, NEW w \in Workers, WorkerStep(w) \/ WorkerFault(w)
    PROVE  /\ At(w, "lock")' => At(w, "getState") /\ seen'[w] # "OPEN"
           /\ ~Acting(w) /\ Acting(w)' => pc[w] \in {"getState", "lock"}
<1> USE DEF TypeInv, TypeOK, Acting, Calls, WriteCalls, At, Goto, Finish, job
<1>1. CASE StartJob(w) \/ SkipCheck(w) \/ UpdateService(w) \/ TransitionCircuit(w) \/ ReleaseLock(w)
           \/ AcquireLock(w)
  BY <1>1 DEF StartJob, SkipCheck, UpdateService, TransitionCircuit, ReleaseLock, AcquireLock
<1>2. CASE GetState(w)
  BY <1>2 DEF GetState
<1>3. CASE \/ ShortCircuit(w) \/ Retry(w) \/ Probe(w) \/ FindOpen(w) \/ CreateIncident(w)
           \/ AlertCreated(w) \/ AlertDown(w) \/ FindActive(w) \/ ResolveIncident(w)
           \/ AlertRecovered(w) \/ AlertResolved(w) \/ AlertStatus(w)
  BY <1>3
     DEF ShortCircuit, Retry, Probe, FindOpen, CreateIncident, AlertCreated, AlertDown,
         FindActive, ResolveIncident, AlertRecovered, AlertResolved, AlertStatus, IncidentCall,
         StatusCall
<1>4. CASE WriteToDeleted(w) \/ QueryFails(w)
  BY <1>4 DEF WriteToDeleted, QueryFails, Abandon
<1>5. CASE GetStateFails(w) \/ UpgradeFails(w) \/ AcquireFails(w) \/ TransitionFails(w)
           \/ ReleaseFails(w) \/ Crash(w)
  BY <1>5 DEF GetStateFails, UpgradeFails, AcquireFails, TransitionFails, ReleaseFails, Crash
<1> QED
  BY <1>1, <1>2, <1>3, <1>4, <1>5 DEF WorkerStep, WorkerFault

LEMMA FleetStep ==
    ASSUME TypeInv, FleetInv, ActingApart, [Next]_vars, [Spared]_vars,
           [\A w \in Workers : ~Acting(w) /\ Acting(w)' => snap[w] = row]_vars
    PROVE  FleetInv'
<1>1. CASE RemoveService
  <2>1. UNCHANGED <<pc, job, row>> /\ ~exists' /\ ActiveIncidents' = {}
    BY <1>1 DEF RemoveService, job, ActiveIncidents, Active
  <2> QED
    BY <2>1 DEF FleetInv, SoloInv, AtMostOneActiveIncident, Acting, At, job
<1>2. CASE UNCHANGED <<row, exists, ActiveIncidents, pc, job>>
  BY <1>2 DEF FleetInv, SoloInv, AtMostOneActiveIncident, Acting, At, job
<1>3. ASSUME NEW w \in Workers, WorkerStep(w) \/ WorkerFault(w) PROVE FleetInv'
  <2>1. CASE Acting(w)
    <3>1. SoloInv(w)'
      BY <1>3, <2>1, SoloWorkerStep DEF FleetInv
    <3>2. \A v \in Workers \ {w} : ~Acting(v)'
      BY <1>3, <2>1, OtherJobs DEF ActingApart, Acting, SameJob, TypeInv
    <3>3. \A v \in Workers : At(v, "lock")' => seen'[v] # "OPEN"
      BY <1>3, OtherJobs, EnteringCalls DEF SameJob, TypeInv, FleetInv, At
    <3> QED
      BY <3>1, <3>2, <3>3 DEF FleetInv, SoloInv
  <2>2. CASE ~Acting(w)
    <3>1. UNCHANGED <<row, exists, incident>>
      BY <1>3, <2>2, IdleHands
    <3>2. Acting(w)' => SoloInv(w)'
      <4> SUFFICES ASSUME Acting(w)' PROVE SoloInv(w)'
        OBVIOUS
      <4>1. pc[w] \in {"getState", "lock"}
        BY <1>3, <2>2, EnteringCalls
      <4>2. snap[w] = row
        <5>1. CASE UNCHANGED vars
          BY <2>2, <5>1 DEF vars, Acting
        <5>2. CASE ~UNCHANGED vars
          BY <2>2, <5>2
        <5> QED
          BY <5>1, <5>2
      <4>3. SoloInv(w)
        BY <4>1, <4>2 DEF FleetInv, SoloInv, At, Raising, Clearing, Storing
      <4> QED
        BY <1>3, <4>3, SoloWorkerStep
    <3>3. \A v \in Workers \ {w} : Acting(v)' => SoloInv(v)'
      <4> SUFFICES ASSUME NEW v \in Workers, v # w, Acting(v)' PROVE SoloInv(v)'
        OBVIOUS
      <4>1. SameJob(v)
        BY <1>3, OtherJobs DEF TypeInv
      <4>2. SoloInv(v)
        BY <4>1 DEF FleetInv, SameJob, Acting
      <4> QED
        BY <3>1, <4>1, <4>2 DEF SoloInv, SameJob, AtMostOneActiveIncident, ActiveIncidents
    <3>4. \A v \in Workers : At(v, "lock")' => seen'[v] # "OPEN"
      BY <1>3, OtherJobs, EnteringCalls DEF SameJob, TypeInv, FleetInv, At
    <3> QED
      BY <3>1, <3>2, <3>3, <3>4 DEF FleetInv, AtMostOneActiveIncident, ActiveIncidents
  <2> QED
    BY <2>1, <2>2
<1> QED
  BY <1>1, <1>2, <1>3, NextCases, SparedAlways, SurroundingsKeepJobs DEF Spared

\* What the fleet does, seen by the abstract monitor.
LEMMA FleetStepRefines ==
    ASSUME TypeInv, FleetInv, [Next]_vars, [Spared]_vars
    PROVE  [Monitor!Next]_(Monitor!vars)
<1>1. CASE RemoveService
  <2>1. Monitor!Retire
    BY <1>1 DEF RemoveService, Monitor!Retire, ActiveIncidents, Active
  <2> QED
    BY <2>1 DEF Monitor!Next
<1>2. CASE UNCHANGED <<row, exists, ActiveIncidents>>
  BY <1>2 DEF Monitor!vars
<1>3. ASSUME NEW w \in Workers, WorkerStep(w) \/ WorkerFault(w), Acting(w)
      PROVE  [Monitor!Next]_(Monitor!vars)
  BY <1>3, SoloStepRefines DEF FleetInv, Monitor!vars
<1>4. ASSUME NEW w \in Workers, WorkerStep(w) \/ WorkerFault(w), ~Acting(w)
      PROVE  [Monitor!Next]_(Monitor!vars)
  BY <1>4, IdleHands DEF Monitor!vars, ActiveIncidents
<1> QED
  BY <1>1, <1>2, <1>3, <1>4, NextCases, SparedAlways DEF Spared

LEMMA FleetInit == Init => FleetInv
BY DEF Init, FleetInv, Acting, At, AtMostOneActiveIncident, ActiveIncidents, Active

\* For any number of workers beside operators who only acknowledge, any thresholds and any
\* faults, expiring locks and short-circuited jobs included: as long as at most one job
\* acts on the row at a time, and begins with the row as it is, the fleet implements the
\* abstract monitor.
THEOREM FleetImplementsMonitor ==
    Spec /\ OnlyAcknowledged /\ []ActingApart /\ StartsFresh => ImplementsMonitor
<1>1. Spec => []TypeInv
  BY TypeHolds
<1>2. Init => FleetInv /\ Monitor!Init
  BY FleetInit, MonitorOperators DEF Init, Monitor!Init, ActiveIncidents, Active
<1>3. /\ TypeInv /\ FleetInv /\ ActingApart /\ [Next]_vars /\ [Spared]_vars
      /\ [\A w \in Workers : ~Acting(w) /\ Acting(w)' => snap[w] = row]_vars
      => FleetInv'
  BY FleetStep
<1>4. TypeInv /\ FleetInv /\ [Next]_vars /\ [Spared]_vars => [Monitor!Next]_(Monitor!vars)
  BY FleetStepRefines
<1> QED
  BY <1>1, <1>2, <1>3, <1>4, Bystanders, PTL DEF Spec, StartsFresh, ImplementsMonitor, Monitor!Spec

\* Under the same conditions a service shown DOWN has an active incident, provided recovery takes at least
\* two good checks.
THEOREM FleetDownHasIncident ==
    ASSUME RecoveryThreshold > 1
    PROVE  Spec /\ OnlyAcknowledged /\ []ActingApart /\ StartsFresh => []DownHasIncident
<1>1. Spec => []TypeInv
  BY TypeHolds
<1>2. Init => RowInv /\ FleetInv /\ DownHasIncident
  BY FleetInit, FixedRows DEF Init, RowInv, DownHasIncident, NewRow
<1>3. /\ TypeInv /\ RowInv /\ FleetInv /\ DownHasIncident /\ ActingApart /\ [Next]_vars /\ [Spared]_vars
      /\ [\A w \in Workers : ~Acting(w) /\ Acting(w)' => snap[w] = row]_vars
      => (RowInv /\ FleetInv /\ DownHasIncident)'
  BY RowInvStep, FleetStep, FleetStepRefines, MonitorKeepsDown DEF TypeInv
<1> QED
  BY <1>1, <1>2, <1>3, Bystanders, PTL DEF Spec, StartsFresh

\* While the lock outlasts the check and no job is short-circuited, the one thing the
\* fleet lacks to implement the monitor is that a job reads the row, which it does before
\* it takes the lock, no earlier than the last holder stored it.
THEOREM LockedImplementsMonitor ==
    ASSUME "ttl" \notin Faults
    PROVE  Spec /\ OnlyAcknowledged /\ []NoneShortCircuited /\ StartsFresh => ImplementsMonitor
<1>1. Spec => []LockedSectionExclusive
  BY LockExcludes
<1>2. LockedSectionExclusive /\ NoneShortCircuited => ActingApart
  BY LockKeepsApart
<1> QED
  BY <1>1, <1>2, FleetImplementsMonitor, PTL

------------------------------------------------------------------------------
(***************************************************************************)
(* The incidents beside operators.  Two jobs that have both looked and      *)
(* found nothing, and an acknowledge that arrives after its incident was    *)
(* resolved, are the only ways to a second active incident.                 *)
(***************************************************************************)
CreatesApart == \A v, w \in Workers : At(v, "create") /\ At(w, "create") => v = w

\* A job that is about to create an incident found none, and none was opened since.
OneActiveInv ==
    /\ AtMostOneActiveIncident
    /\ exists => \A w \in Workers : At(w, "create") => ActiveIncidents = {}

\* Only the look for an active incident leads to creating one.
LEMMA CreateIsLookedFor ==
    ASSUME TypeInv, NEW w \in Workers, WorkerStep(w) \/ WorkerFault(w), At(w, "create")'
    PROVE  UNCHANGED <<exists, incident>> /\ (At(w, "create") \/ ActiveIncidents = {})
<1> USE DEF TypeInv, TypeOK, At, Goto
<1>1. CASE FindOpen(w)
  BY <1>1 DEF FindOpen, database
<1>2. CASE CreateIncident(w) \/ AlertCreated(w) \/ AlertDown(w)
  BY <1>2 DEF CreateIncident, AlertCreated, AlertDown
<1>3. CASE FindActive(w) \/ ResolveIncident(w) \/ AlertRecovered(w) \/ AlertResolved(w)
  BY <1>3 DEF FindActive, ResolveIncident, AlertRecovered, AlertResolved, StatusCall
<1>4. CASE StartJob(w) \/ GetState(w) \/ SkipCheck(w) \/ AcquireLock(w) \/ Retry(w)
  BY <1>4 DEF StartJob, GetState, SkipCheck, AcquireLock, Retry, Finish
<1>5. CASE ShortCircuit(w) \/ Probe(w) \/ AlertStatus(w)
  BY <1>5 DEF ShortCircuit, Probe, AlertStatus, IncidentCall, StatusCall
<1>6. CASE UpdateService(w) \/ TransitionCircuit(w) \/ ReleaseLock(w)
  BY <1>6 DEF UpdateService, TransitionCircuit, ReleaseLock, Finish
<1>7. CASE WriteToDeleted(w) \/ QueryFails(w)
  BY <1>7 DEF WriteToDeleted, QueryFails, Abandon, Finish
<1>8. CASE GetStateFails(w) \/ UpgradeFails(w) \/ AcquireFails(w) \/ TransitionFails(w)
           \/ ReleaseFails(w) \/ Crash(w)
  BY <1>8 DEF GetStateFails, UpgradeFails, AcquireFails, TransitionFails, ReleaseFails, Crash,
              Finish
<1> QED
  BY <1>1, <1>2, <1>3, <1>4, <1>5, <1>6, <1>7, <1>8 DEF WorkerStep, WorkerFault

LEMMA OneActiveWorkerStep ==
    ASSUME TypeInv, OneActiveInv, CreatesApart, NEW w \in Workers,
           WorkerStep(w) \/ WorkerFault(w)
    PROVE  OneActiveInv'
<1> USE DEF TypeInv, TypeOK, OneActiveInv, AtMostOneActiveIncident, ActiveIncidents, Active,
            At, Goto
<1>1. CASE CreateIncident(w)
  <2>1. PICK i \in Incidents : Unused(i) /\ incident' = [incident EXCEPT ![i] = "OPEN"]
    BY <1>1 DEF CreateIncident
  <2>2. exists /\ At(w, "create") /\ exists' = exists
    BY <1>1 DEF CreateIncident
  <2>3. ActiveIncidents = {} /\ ActiveIncidents' = {i}
    BY <2>1, <2>2
  <2>4. \A v \in Workers : ~At(v, "create")'
    BY <1>1, OtherJobs DEF CreateIncident, CreatesApart, SameJob
  <2> QED
    BY <2>3, <2>4
<1>2. CASE ResolveIncident(w)
  <2>1. /\ incident' = [incident EXCEPT ![subject[w]] = "RESOLVED"]
        /\ exists' = exists /\ ~At(w, "create")'
    BY <1>2 DEF ResolveIncident
  <2>2. ActiveIncidents' \subseteq ActiveIncidents
    BY <2>1
  <2>3. \A v \in Workers : At(v, "create")' => At(v, "create")
    BY <2>1, OtherJobs DEF SameJob
  <2> QED
    BY <2>1, <2>2, <2>3
<1>3. CASE UNCHANGED incident
  <2>1. exists' = exists
    BY JobMovesIncidents
  <2>2. ASSUME NEW v \in Workers, exists, At(v, "create")' PROVE ActiveIncidents = {}
    <3>1. CASE v = w
      <4>1. At(w, "create") \/ ActiveIncidents = {}
        BY <2>2, <3>1, CreateIsLookedFor
      <4> QED
        BY <2>2, <4>1
    <3>2. CASE v # w
      <4>1. At(v, "create")
        BY <2>2, <3>2, OtherJobs DEF SameJob
      <4> QED
        BY <2>2, <4>1
    <3> QED
      BY <3>1, <3>2
  <2> QED
    BY <1>3, <2>1, <2>2
<1> QED
  BY <1>1, <1>2, <1>3, JobMovesIncidents

LEMMA OneActiveOperatorStep ==
    ASSUME TypeInv, HeldInv, OneActiveInv, NEW o \in Operators, OperatorStep(o),
           [\A i \in Incidents : incident[i] = "RESOLVED" => incident'[i] # "ACKNOWLEDGED"]_incident
    PROVE  OneActiveInv'
<1> USE DEF TypeInv, TypeOK, OneActiveInv, AtMostOneActiveIncident, ActiveIncidents, Active, At
<1>1. CASE OpRead(o)
  BY <1>1 DEF OpRead, database
<1>2. CASE OpAcknowledge(o)
  <2>1. exists /\ exists' = exists /\ pc' = pc
        /\ opInc[o] \in Incidents /\ incident[opInc[o]] # "NONE"
        /\ incident' = [incident EXCEPT ![opInc[o]] = "ACKNOWLEDGED"]
    BY <1>2 DEF OpAcknowledge, OpAt, HeldInv
  <2>2. incident[opInc[o]] # "RESOLVED"
    BY <2>1
  <2>3. ActiveIncidents' = ActiveIncidents
    BY <2>1, <2>2
  <2> QED
    BY <2>1, <2>3
<1>3. CASE OpResolve(o)
  BY <1>3 DEF OpResolve
<1>4. CASE OpAlertResolved(o) \/ OpAlertRecovered(o) \/ OpReset(o) \/ OpAborts(o)
  BY <1>4 DEF OpAlertResolved, OpAlertRecovered, OpReset, OpAborts, database
<1> QED
  BY <1>1, <1>2, <1>3, <1>4 DEF OperatorStep

LEMMA OneActiveStep ==
    ASSUME TypeInv, HeldInv, OneActiveInv, CreatesApart, [Next]_vars,
           [\A i \in Incidents : incident[i] = "RESOLVED" => incident'[i] # "ACKNOWLEDGED"]_incident
    PROVE  OneActiveInv'
<1>1. CASE RemoveService
  BY <1>1 DEF RemoveService, OneActiveInv, AtMostOneActiveIncident, ActiveIncidents, Active
<1>2. CASE UNCHANGED <<exists, incident, pc>>
  BY <1>2 DEF OneActiveInv, AtMostOneActiveIncident, ActiveIncidents, At
<1>3. Surroundings => \/ RemoveService \/ UNCHANGED <<exists, incident, pc>>
                      \/ \E o \in Operators : OperatorStep(o)
  BY DEF Surroundings, Environment, OrphanExpires, CoolDown, HeldLockExpires, TargetChanges,
         ToggleEnabled, vars, database
<1> QED
  BY <1>1, <1>2, <1>3, NextCases, OneActiveWorkerStep, OneActiveOperatorStep

\* For any number of workers and operators, whatever crashes, fails, expires or is removed:
\* as long as no two jobs are both about to create an incident, and nobody acknowledges
\* an incident that is resolved, at most one incident of the service is active.
THEOREM ApartOneIncident == Spec /\ []CreatesApart /\ ResolvedIsFinal => []AtMostOneActiveIncident
<1>1. Init => OneActiveInv
  BY DEF Init, OneActiveInv, AtMostOneActiveIncident, ActiveIncidents, Active, At
<1>2. /\ TypeInv /\ HeldInv /\ OneActiveInv /\ CreatesApart /\ [Next]_vars
      /\ [\A i \in Incidents : incident[i] = "RESOLVED" => incident'[i] # "ACKNOWLEDGED"]_incident
      => OneActiveInv'
  BY OneActiveStep
<1>3. OneActiveInv => AtMostOneActiveIncident
  BY DEF OneActiveInv
<1> QED
  BY <1>1, <1>2, <1>3, TypeHolds, HeldHolds, PTL DEF Spec, ResolvedIsFinal

\* One worker beside any number of operators who acknowledge and resolve, whatever fails:
\* a resolved incident that is acknowledged again is the only way for the check-then-create
\* of ensureIncidentCreated to leave two incidents active.
THEOREM SoloOneIncident ==
    ASSUME NEW w, Workers = {w}
    PROVE  Spec /\ ResolvedIsFinal => []AtMostOneActiveIncident
<1>1. CreatesApart
  BY DEF CreatesApart
<1> QED
  BY <1>1, ApartOneIncident, PTL

\* Any number of workers and operators, while the lock outlasts the check: as long as no
\* job is short-circuited and nobody acknowledges an incident that is resolved, at most
\* one incident of the service is active.
THEOREM LockedOneIncident ==
    ASSUME "ttl" \notin Faults
    PROVE  Spec /\ []NoneShortCircuited /\ ResolvedIsFinal => []AtMostOneActiveIncident
<1>1. Spec => []LockedSectionExclusive
  BY LockExcludes
<1>2. LockedSectionExclusive /\ NoneShortCircuited => CreatesApart
  BY LockKeepsApart DEF ActingApart, Acting, CreatesApart, At, Calls, WriteCalls
<1> QED
  BY <1>1, <1>2, ApartOneIncident, PTL

\* Without operators nothing is left to assume: one worker, whatever fails, implements the
\* abstract monitor, sends no alert twice and keeps at most one incident active, and one
\* while it shows DOWN if recovery takes two good checks.
THEOREM SoloWithoutOperators ==
    ASSUME NEW w, Workers = {w}, Operators = {}
    PROVE  /\ Spec => ImplementsMonitor
           /\ Spec => []AlertsOnce /\ []AtMostOneActiveIncident
           /\ RecoveryThreshold > 1 => (Spec => []DownHasIncident)
<1>1. Spec => ImplementsMonitor
  BY NobodyResolves, SoloImplementsMonitor, PTL
<1>2. Spec => []AlertsOnce /\ []AtMostOneActiveIncident
  BY NobodyResolves, SoloAlertsOnce, SoloOneIncident, PTL DEF OnlyAcknowledged
<1>3. ASSUME RecoveryThreshold > 1 PROVE Spec => []DownHasIncident
  BY <1>3, NobodyResolves, SoloDownHasIncident, PTL
<1> QED
  BY <1>1, <1>2, <1>3

------------------------------------------------------------------------------
(***************************************************************************)
(* What holds only while every check that has begun runs to its end: no     *)
(* query fails and no worker dies.                                          *)
(***************************************************************************)
ChecksComplete == Faults \cap {"db", "crash"} = {}

Opening == {"alertCreated", "alertDown"}
Announced(i, types) == \A t \in Counted \cap types : alerts[i][t] > 0

\* An active incident has had its two alerts unless the job is just sending them, and
\* its service is out or about to be stored as such.
AnnouncedInv(w) ==
    /\ ~exists => ActiveIncidents = {}
    /\ pc[w] \in Opening => subject[w] \in Incidents
    /\ \A i \in ActiveIncidents :
        /\ pc[w] \notin Opening => Announced(i, {"INCIDENT_CREATED", "SERVICE_DOWN"})
        /\ pc[w] = "alertDown" => i = subject[w] /\ Announced(i, {"INCIDENT_CREATED"})
        /\ pc[w] = "alertCreated" => i = subject[w]
    /\ ActiveIncidents # {} =>
        \/ row.status \in {"DOWN", "RECOVERING"}
        \/ /\ pc[w] \in Opening \union Storing
           /\ EntersOutage(snap[w].status, next[w].status)

\* An outage is not forgotten: a check leaves it through HEALTHY or DEGRADED only.
LEMMA OutageIsLeft ==
    ASSUME NEW r \in Rows, r.status \in {"DOWN", "RECOVERING"}, NEW outcome \in Outcomes
    PROVE  \/ NextRow(r, outcome).status \in {"DOWN", "RECOVERING"}
           \/ LeavesOutage(r.status, NextRow(r, outcome).status)
BY ThresholdAssumption
   DEF Rows, Statuses, Outcomes, NextRow, Bump, AfterFailure, AfterSuccess, Settled, LeavesOutage

\* An alert that is sent is counted, and what was counted stays counted.
LEMMA AlertIsCounted ==
    ASSUME NEW i \in Incidents, NEW type, alerts \in [Incidents -> [Counted -> 0..2]],
           Alert(i, type)
    PROVE  /\ \A t \in Counted : t = type => alerts'[i][t] > 0
           /\ \A j \in Incidents, t \in Counted : alerts[j][t] > 0 => alerts'[j][t] > 0
BY DEF Alert, Bump

LEMMA AnnouncedWorkerStep ==
    ASSUME NEW w, Workers = {w}, ChecksComplete,
           TypeInv, SoloInv(w), AnnouncedInv(w), WorkerStep(w) \/ WorkerFault(w)
    PROVE  AnnouncedInv(w)'
<1> USE DEF TypeInv, TypeOK, AnnouncedInv, Announced, Opening, At, Goto
<1>1. CASE CreateIncident(w)
  <2>1. ActiveIncidents = {} /\ exists /\ EntersOutage(snap[w].status, next[w].status)
    BY <1>1 DEF CreateIncident, SoloInv, Raising
  <2>2. /\ ActiveIncidents' \subseteq {subject'[w]} /\ subject'[w] \in Incidents
        /\ pc'[w] = "alertCreated" /\ UNCHANGED <<exists, snap, next>>
    BY <1>1, <2>1 DEF CreateIncident, ActiveIncidents
  <2> QED
    BY <2>1, <2>2
<1>2. CASE AlertCreated(w)
  BY <1>2, AlertIsCounted DEF AlertCreated, job, ActiveIncidents
<1>3. CASE AlertDown(w)
  <2>1. EntersOutage(snap[w].status, next[w].status)
    BY <1>3 DEF AlertDown, SoloInv, Raising
  <2> QED
    BY <1>3, <2>1, AlertIsCounted DEF AlertDown, job, ActiveIncidents, Storing
<1>4. CASE FindActive(w)
  <2>1. LeavesOutage(snap[w].status, next[w].status)
    BY <1>4 DEF FindActive, SoloInv, Clearing
  <2>2. /\ pc'[w] \in {"alertStatus", "update", "resolve"}
        /\ UNCHANGED <<row, exists, incident, alerts, snap, next>>
    BY <1>4 DEF FindActive, StatusCall, database
  <2>3. ~EntersOutage(snap[w].status, next[w].status)
    BY <2>1 DEF EntersOutage, LeavesOutage
  <2>4. pc[w] = "findActive"
    BY <1>4 DEF FindActive
  <2> QED
    BY <2>2, <2>3, <2>4 DEF ActiveIncidents, Storing
<1>5. CASE ResolveIncident(w)
  <2>1. ActiveIncidents' = {} /\ exists' = exists /\ exists /\ pc'[w] = "alertRecovered"
    BY <1>5 DEF ResolveIncident, SoloInv, AtMostOneActiveIncident, ActiveIncidents, Active
  <2> QED
    BY <2>1
<1>6. CASE AlertRecovered(w) \/ AlertResolved(w)
  <2>1. ActiveIncidents = {} /\ incident' = incident /\ exists' = exists
    BY <1>6 DEF AlertRecovered, AlertResolved, SoloInv
  <2>2. pc'[w] \notin Opening
    BY <1>6 DEF AlertRecovered, AlertResolved, StatusCall
  <2> QED
    BY <2>1, <2>2 DEF ActiveIncidents
<1>7. CASE FindOpen(w)
  <2>1. EntersOutage(snap[w].status, next[w].status)
    BY <1>7 DEF FindOpen, SoloInv, Raising
  <2> QED
    BY <1>7, <2>1 DEF FindOpen, database, job, ActiveIncidents, Storing
<1>8. CASE AlertStatus(w)
  BY <1>8 DEF AlertStatus, database, job, ActiveIncidents, Storing
<1>9. CASE UpdateService(w)
  <2>1. /\ exists /\ UNCHANGED <<exists, incident, alerts>> /\ row' = next[w] /\ row = snap[w]
        /\ pc[w] = "update" /\ pc'[w] \in {"idle", "release", "transition"}
    BY <1>9 DEF UpdateService, Finish, SoloInv, Calls, WriteCalls
  <2>2. PICK outcome \in Outcomes : next[w] = NextRow(snap[w], outcome)
    BY <2>1 DEF SoloInv, Storing
  <2>3. ActiveIncidents # {} => row'.status \in {"DOWN", "RECOVERING"}
    <3>1. CASE EntersOutage(snap[w].status, next[w].status)
      BY <2>1, <3>1 DEF EntersOutage
    <3>2. CASE row.status \in {"DOWN", "RECOVERING"}
      BY <2>1, <2>2, <3>2, OutageIsLeft DEF SoloInv, Storing
    <3> QED
      BY <3>1, <3>2
  <2> QED
    BY <2>1, <2>3 DEF ActiveIncidents
<1>10. CASE ~\/ CreateIncident(w) \/ AlertCreated(w) \/ AlertDown(w) \/ FindActive(w)
             \/ ResolveIncident(w) \/ AlertRecovered(w) \/ AlertResolved(w)
             \/ FindOpen(w) \/ AlertStatus(w) \/ UpdateService(w)
  <2>1. UNCHANGED <<exists, incident, alerts>> /\ pc'[w] \notin Opening
    BY <1>10, QuietCalls
  <2>2. row' = row
    BY <1>10
       DEF WorkerStep, WorkerFault, StartJob, GetState, ShortCircuit, AcquireLock, SkipCheck,
           Retry, Probe, TransitionCircuit, ReleaseLock, WriteToDeleted, QueryFails,
           GetStateFails, UpgradeFails, AcquireFails, TransitionFails, ReleaseFails, Crash,
           Abandon, Finish, database
  <2>3. exists => pc[w] \notin Opening \union Storing
    BY <1>10
       DEF ChecksComplete, WorkerStep, WorkerFault, StartJob, GetState, ShortCircuit, AcquireLock,
           SkipCheck, Retry, Probe, TransitionCircuit, ReleaseLock, WriteToDeleted, QueryFails,
           GetStateFails, UpgradeFails, AcquireFails, TransitionFails, ReleaseFails, Crash, Storing
  <2> QED
    BY <2>1, <2>2, <2>3 DEF ActiveIncidents
<1> QED
  BY <1>1, <1>2, <1>3, <1>4, <1>5, <1>6, <1>7, <1>8, <1>9, <1>10

LEMMA AnnouncedStep ==
    ASSUME NEW w, Workers = {w}, ChecksComplete,
           TypeInv, SoloInv(w), AnnouncedInv(w), [Next]_vars, [Spared]_vars
    PROVE  AnnouncedInv(w)'
<1>1. CASE RemoveService
  <2>1. UNCHANGED <<pc, subject>>
    BY <1>1 DEF RemoveService, job
  <2>2. ActiveIncidents' = {}
    BY <1>1 DEF RemoveService, ActiveIncidents, Active
  <2> QED
    BY <2>1, <2>2 DEF AnnouncedInv
<1>2. CASE UNCHANGED <<row, exists, pc, job, ActiveIncidents, alerts>>
  BY <1>2 DEF AnnouncedInv, Announced, job
<1> QED
  BY <1>1, <1>2, NextCases, SurroundingsKeepJobs, SparedAlways, AnnouncedWorkerStep DEF Spared

LEMMA AnnouncedInit ==
    ASSUME NEW w, Workers = {w}, Init
    PROVE  AnnouncedInv(w)
BY DEF Init, AnnouncedInv, ActiveIncidents, Active, Opening

\* For one worker beside operators who only acknowledge, as long as no query fails and no
\* worker dies (Redis may fail, the lock may expire): a service shown HEALTHY with no
\* check under way has no incident left behind.
THEOREM SoloHealthyHasNoIncident ==
    ASSUME NEW w, Workers = {w}, ChecksComplete
    PROVE  Spec /\ OnlyAcknowledged => []HealthyHasNoIncident
<1>1. Init => TypeInv /\ SoloInv(w) /\ AnnouncedInv(w)
  BY SoloInit, AnnouncedInit
<1>2. /\ TypeInv /\ SoloInv(w) /\ AnnouncedInv(w) /\ [Next]_vars /\ [Spared]_vars
      => (TypeInv /\ SoloInv(w) /\ AnnouncedInv(w))'
  BY SoloNext, AnnouncedStep
<1>3. AnnouncedInv(w) => HealthyHasNoIncident
  BY DEF AnnouncedInv, HealthyHasNoIncident, Opening, Storing, At
<1> QED
  BY <1>1, <1>2, <1>3, Bystanders, PTL DEF Spec

\* Under the same conditions, and if recovery takes at least two good checks, a
\* service is shown DOWN only after the incident and the outage were announced.
THEOREM SoloDownWasAnnounced ==
    ASSUME NEW w, Workers = {w}, ChecksComplete, RecoveryThreshold > 1
    PROVE  Spec /\ OnlyAcknowledged => []DownWasAnnounced
<1> DEFINE Inv == TypeInv /\ RowInv /\ SoloInv(w) /\ DownHasIncident /\ AnnouncedInv(w)
<1>1. Init => Inv
  BY SoloInit, AnnouncedInit, FixedRows DEF Init, RowInv, DownHasIncident, NewRow
<1>2. Inv /\ [Next]_vars /\ [Spared]_vars => Inv'
  BY SoloNext, SoloNextRefines, RowInvStep, MonitorKeepsDown, AnnouncedStep DEF TypeInv
<1>3. Inv => DownWasAnnounced
  <2> SUFFICES ASSUME Inv, exists, row.status = "DOWN" PROVE DownWasAnnounced
    BY DEF DownWasAnnounced
  <2>1. PICK i \in ActiveIncidents : TRUE
    BY DEF DownHasIncident
  <2>2. pc[w] \notin Opening
    \* The job that announces an outage read another status than DOWN.
    BY DEF SoloInv, Raising, Opening, EntersOutage, Calls, WriteCalls
  <2> QED
    BY <2>1, <2>2 DEF AnnouncedInv, Announced, DownWasAnnounced
<1> QED
  <2> HIDE DEF Inv
  <2> QED
    BY <1>1, <1>2, <1>3, Bystanders, PTL DEF Spec

------------------------------------------------------------------------------
(***************************************************************************)
(* Status and circuit.  They live in two stores and the job writes them one *)
(* after the other, from what it read of both before.                       *)
(***************************************************************************)
NoCallFails == Faults \cap {"db", "crash", "redis"} = {}

\* What the job read of the circuit is still so until the job itself has moved it,
\* and then the stored status is the one that asked for the move.
BreakerInv(w) ==
    /\ circuit = "OPEN" => row.status = "DOWN"
    /\ circuit = "HALF_OPEN" =>
        \/ row.status = "DOWN"
        \/ pc[w] = "transition" /\ CircuitTarget(seen[w], next[w]) = "CLOSED"
    /\ pc[w] \notin {"idle", "getState", "release"} => seen[w] = circuit
    /\ pc[w] = "transition" /\ CircuitTarget(seen[w], next[w]) = "OPEN" => row.status = "DOWN"
    /\ pc[w] \in Raising \union Clearing \union Storing /\ seen[w] = "OPEN" =>
           next[w].status = "DOWN"
    /\ pc[w] = "shortCircuit" => seen[w] = "OPEN"

\* A failed check leaves a DOWN service DOWN, and one that reaches the threshold makes
\* any service DOWN.
LEMMA FailureMeansDown ==
    ASSUME NEW r \in Rows, NEW outcome \in Outcomes, NextRow(r, outcome).fails > 0,
           r.status = "DOWN" \/ NextRow(r, outcome).fails >= FailureThreshold
    PROVE  NextRow(r, outcome).status = "DOWN"
BY ThresholdAssumption DEF Rows, Outcomes, NextRow, Bump, AfterFailure

LEMMA FailedCheckCounts ==
    ASSUME NEW r \in Rows
    PROVE  NextRow(r, "fail").fails > 0 /\ NextRow(r, "fail") \in Rows
BY ThresholdAssumption, NextRowType DEF Rows, Outcomes, NextRow, Bump

LEMMA BreakerWorkerStep ==
    ASSUME NEW w, Workers = {w}, NoCallFails, exists,
           TypeInv, SoloInv(w), BreakerInv(w), WorkerStep(w) \/ WorkerFault(w)
    PROVE  BreakerInv(w)'
<1> USE DEF TypeInv, TypeOK, BreakerInv, At, Goto
<1>1. CASE StartJob(w)
  BY <1>1 DEF StartJob, database, breaker, Raising, Clearing, Storing
<1>2. CASE GetState(w)
  BY <1>2 DEF GetState, Transition, CooledDown, database, Raising, Clearing, Storing
<1>3. CASE ShortCircuit(w)
  <2>1. /\ row = snap[w] /\ circuit = "OPEN" /\ seen[w] = "OPEN"
        /\ next'[w] = NextRow(snap[w], "fail") /\ UNCHANGED <<row, circuit, seen>>
        /\ pc'[w] \in {"findOpen", "findActive", "alertStatus", "update"}
    BY <1>3 DEF ShortCircuit, SoloInv, Calls, WriteCalls, database, breaker, IncidentCall, StatusCall
  <2>2. next'[w].status = "DOWN"
    BY <2>1, FailedCheckCounts, FailureMeansDown DEF Outcomes
  <2> QED
    BY <2>1, <2>2
<1>4. CASE AcquireLock(w)
  BY <1>4 DEF AcquireLock, database, breaker, Raising, Clearing, Storing
<1>5. CASE SkipCheck(w)
  BY <1>5 DEF SkipCheck, Finish, database, breaker, Raising, Clearing, Storing
<1>6. CASE Retry(w)
  BY <1>6 DEF Retry, database, breaker, Raising, Clearing, Storing
<1>7. CASE Probe(w)
  <2>1. /\ seen[w] # "OPEN" /\ UNCHANGED <<row, circuit, seen>> /\ seen[w] = circuit
        /\ pc'[w] \in {"findOpen", "findActive", "alertStatus", "update"}
        /\ pc[w] = "probe"
    BY <1>7 DEF Probe, SoloInv, database, breaker, IncidentCall, StatusCall
  <2> QED
    BY <2>1
<1>8. CASE \/ FindOpen(w) \/ CreateIncident(w) \/ AlertCreated(w) \/ AlertDown(w)
           \/ FindActive(w) \/ ResolveIncident(w) \/ AlertRecovered(w) \/ AlertResolved(w)
           \/ AlertStatus(w)
  <2>1. /\ UNCHANGED <<row, circuit, seen, next>>
        /\ pc[w] \in Raising \union Clearing \union Storing
        /\ pc'[w] \in Raising \union Clearing \union Storing
    BY <1>8
       DEF FindOpen, CreateIncident, AlertCreated, AlertDown, FindActive, ResolveIncident,
           AlertRecovered, AlertResolved, AlertStatus, StatusCall, database, breaker, job,
           Raising, Clearing, Storing
  <2> QED
    BY <2>1 DEF Raising, Clearing, Storing
<1>9. CASE UpdateService(w)
  <2>1. /\ pc[w] = "update" /\ row' = next[w] /\ circuit' = circuit /\ seen[w] = circuit
        /\ row = snap[w]
    BY <1>9 DEF UpdateService, breaker, SoloInv, Calls, WriteCalls
  <2>2. PICK outcome \in Outcomes : next[w] = NextRow(row, outcome)
    BY <2>1 DEF SoloInv, Storing
  <2>3. CASE seen[w] = "OPEN"
    <3>1. next[w].status = "DOWN" /\ pc'[w] = "idle"
      BY <1>9, <2>1, <2>3 DEF UpdateService, Finish, Storing
    <3> QED
      BY <2>1, <2>3, <3>1 DEF Raising, Clearing, Storing
  <2>4. CASE seen[w] # "OPEN"
    <3>1. /\ UNCHANGED <<seen, next>>
          /\ pc'[w] = IF CircuitTarget(seen[w], next[w]) = "none" THEN "release" ELSE "transition"
      BY <1>9, <2>4 DEF UpdateService, job
    <3>2. CircuitTarget(seen[w], next[w]) = "OPEN" => row'.status = "DOWN"
      <4> SUFFICES ASSUME CircuitTarget(seen[w], next[w]) = "OPEN" PROVE next[w].status = "DOWN"
        BY <2>1
      <4>1. /\ next[w].fails # 0 /\ next[w].fails \in Nat
            /\ seen[w] = "HALF_OPEN" \/ next[w].fails >= FailureThreshold
        BY ThresholdAssumption DEF CircuitTarget, Rows
      <4>2. next[w].fails > 0
        BY <4>1
      <4>3. row.status = "DOWN" \/ next[w].fails >= FailureThreshold
        BY <2>1, <4>1
      <4> QED
        BY <2>2, <4>2, <4>3, FailureMeansDown
    <3>3. circuit = "HALF_OPEN" => CircuitTarget(seen[w], next[w]) \in {"OPEN", "CLOSED"}
      BY <2>1 DEF CircuitTarget
    <3> QED
      BY <2>1, <2>4, <3>1, <3>2, <3>3 DEF Raising, Clearing, Storing
  <2> QED
    BY <2>3, <2>4
<1>10. CASE TransitionCircuit(w)
  <2>1. CircuitTarget(seen[w], next[w]) \in {"OPEN", "CLOSED"}
    BY <1>10 DEF TransitionCircuit, TransitionDue, CircuitTarget, CircuitStates
  <2> QED
    BY <1>10, <2>1 DEF TransitionCircuit, Transition, database, job, Raising, Clearing, Storing
<1>11. CASE ReleaseLock(w)
  BY <1>11 DEF ReleaseLock, Finish, database, breaker, Raising, Clearing, Storing
<1>12. CASE WriteToDeleted(w) \/ WorkerFault(w)
  BY <1>12 DEF WriteToDeleted, WorkerFault, QueryFails, GetStateFails, UpgradeFails, AcquireFails,
               TransitionFails, ReleaseFails, Crash, NoCallFails
<1> QED
  BY <1>1, <1>2, <1>3, <1>4, <1>5, <1>6, <1>7, <1>8, <1>9, <1>10, <1>11, <1>12 DEF WorkerStep

LEMMA BreakerStep ==
    ASSUME NEW w, Workers = {w}, NoCallFails,
           TypeInv, SoloInv(w), exists => BreakerInv(w), [Next]_vars, [Spared]_vars, exists'
    PROVE  BreakerInv(w)'
<1>1. exists
  <2>1. CASE Surroundings
    BY <2>1, SparedAlways DEF Spared, RemoveService
  <2>2. CASE WorkerStep(w) \/ WorkerFault(w)
    BY <2>2
       DEF WorkerStep, WorkerFault, StartJob, GetState, ShortCircuit, AcquireLock, SkipCheck,
           Retry, Probe, FindOpen, CreateIncident, AlertCreated, AlertDown, FindActive,
           ResolveIncident, AlertRecovered, AlertResolved, AlertStatus, UpdateService,
           TransitionCircuit, ReleaseLock, WriteToDeleted, QueryFails, GetStateFails,
           UpgradeFails, AcquireFails, TransitionFails, ReleaseFails, Crash, Abandon, Finish,
           database
  <2> QED
    BY <2>1, <2>2, NextCases
<1>2. CASE UNCHANGED <<row, circuit, pc, job>>
  BY <1>1, <1>2 DEF BreakerInv, job
<1> QED
  BY <1>1, <1>2, NextCases, SurroundingsKeepJobs, SparedAlways, BreakerWorkerStep
     DEF Spared, RemoveService

\* For one worker beside operators who only acknowledge, as long as no query and no Redis
\* command fails and no worker dies (the lock may expire): an open circuit belongs to a
\* service that is shown DOWN.
THEOREM SoloOpenOnlyWhenDown ==
    ASSUME NEW w, Workers = {w}, NoCallFails
    PROVE  Spec /\ OnlyAcknowledged => []OpenOnlyWhenDown
<1> DEFINE Inv == TypeInv /\ SoloInv(w) /\ (exists => BreakerInv(w))
<1>1. Init => Inv
  BY SoloInit DEF Init, BreakerInv, Raising, Clearing, Storing
<1>2. Inv /\ [Next]_vars /\ [Spared]_vars => Inv'
  BY SoloNext, BreakerStep
<1>3. Inv => OpenOnlyWhenDown
  BY DEF BreakerInv, OpenOnlyWhenDown
<1> QED
  <2> HIDE DEF Inv
  <2> QED
    BY <1>1, <1>2, <1>3, Bystanders, PTL DEF Spec

------------------------------------------------------------------------------
(***************************************************************************)
(* The circuit.  What any job does to its two keys is one call of the       *)
(* breaker, which WorkerProofs shows of the commands of the replicas.        *)
(***************************************************************************)
LEMMA CircuitMoves ==
    ASSUME TypeInv, NEW w \in Workers, WorkerStep(w) \/ WorkerFault(w)
    PROVE  KeysNext \/ UNCHANGED breaker
<1> USE DEF TypeInv, TypeOK
<1>1. CASE GetState(w)
  <2>1. CASE CooledDown
    <3>1. Transition("HALF_OPEN")
      BY <1>1, <2>1 DEF GetState
    <3> QED
      BY <2>1, <3>1 DEF KeysNext, Move, CircuitStates
  <2>2. CASE ~CooledDown
    BY <1>1, <2>2 DEF GetState, KeysNext, RecordMissing, breaker
  <2> QED
    BY <2>1, <2>2
<1>2. CASE TransitionCircuit(w) \/ TransitionFails(w)
  <2>1. PICK state \in CircuitStates : state = CircuitTarget(seen[w], next[w])
    BY <1>2 DEF TransitionCircuit, TransitionFails, TransitionDue
  <2>2. state # "HALF_OPEN"
    BY <2>1 DEF CircuitTarget
  <2>3. Transition(state) \/ Interrupted(state)
    BY <1>2, <2>1 DEF TransitionCircuit, TransitionFails
  <2> QED
    BY <2>2, <2>3 DEF KeysNext, Move
<1>3. CASE UpgradeFails(w)
  <2>1. CooledDown /\ Interrupted("HALF_OPEN")
    BY <1>3 DEF UpgradeFails
  <2> QED
    BY <2>1 DEF KeysNext, Move, CircuitStates
<1>4. CASE GetStateFails(w)
  BY <1>4 DEF GetStateFails, KeysNext
<1>5. CASE ~( \/ GetState(w) \/ TransitionCircuit(w) \/ TransitionFails(w)
             \/ UpgradeFails(w) \/ GetStateFails(w) )
  BY <1>5
     DEF WorkerStep, WorkerFault, StartJob, ShortCircuit, AcquireLock, SkipCheck, Retry, Probe,
         FindOpen, CreateIncident, AlertCreated, AlertDown, FindActive, ResolveIncident,
         AlertRecovered, AlertResolved, AlertStatus, UpdateService, ReleaseLock, WriteToDeleted,
         QueryFails, GetStateFails, AcquireFails, ReleaseFails, Crash, Abandon
<1> QED
  BY <1>1, <1>2, <1>3, <1>4, <1>5

\* For any number of workers and operators and any faults, the keys of the circuit move
\* by whole calls of the breaker, and to HALF_OPEN only from an OPEN whose 60 seconds
\* are over.
THEOREM JobsMoveCircuitAtOnce == Spec => KeysSpec
<1>1. Init => KeysInit
  BY DEF Init, KeysInit
<1>2. TypeInv /\ [Next]_vars => [KeysNext]_breaker
  <2> SUFFICES ASSUME TypeInv, [Next]_vars PROVE KeysNext \/ UNCHANGED breaker
    OBVIOUS
  <2>1. CASE Surroundings
    <3>1. CASE CoolDown
      BY <3>1 DEF CoolDown, KeysNext
    <3>2. CASE ~CoolDown
      BY <2>1, <3>2
         DEF Surroundings, OrphanExpires, HeldLockExpires, Environment, TargetChanges,
             ToggleEnabled, RemoveService, OperatorStep, OpRead, OpAcknowledge, OpResolve,
             OpAlertResolved, OpAlertRecovered, OpReset, OpAborts, vars
    <3> QED
      BY <3>1, <3>2
  <2> QED
    BY <2>1, NextCases, CircuitMoves
<1> QED
  BY <1>1, <1>2, TypeHolds, PTL DEF Spec, KeysSpec
==============================================================================
