----------------------------- MODULE HealthCheck -----------------------------
(***************************************************************************)
(* One monitored service, the worker processes that check it                *)
(* (HealthCheckProcessor.process) and the API handlers that touch the same  *)
(* rows.  A handler is a sequence of awaited calls to PostgreSQL, to Redis  *)
(* and to the target; each call is one action, so calls of different        *)
(* handlers interleave freely and what a handler read earlier may be stale  *)
(* when it writes.                                                          *)
(*                                                                          *)
(* Faults selects what may go wrong: "db" (a query throws), "redis" (a      *)
(* Redis command throws, which every caller catches), "crash" (a worker     *)
(* process dies), "ttl" (the check lock expires under a running check).     *)
(***************************************************************************)
EXTENDS MonitorStatus, CircuitKeys

CONSTANTS
    Workers,      \* worker processes (replicas of apps/worker)
    Operators,    \* API requests that acknowledge or resolve incidents
    Incidents,    \* identifiers of incidents
    NoIncident,   \* "no incident in hand"
    RetryCount,   \* service.retryCount
    Counted,      \* the alert types the model keeps count of
    ServiceCalls, \* the calls of services.service.ts that occur: {"toggle", "remove"}
    Faults        \* subset of {"db", "redis", "crash", "ttl"}

AlertTypes == {"INCIDENT_CREATED", "SERVICE_DOWN", "SERVICE_RECOVERED", "INCIDENT_RESOLVED"}

ASSUME CheckAssumption ==
    /\ Counted \subseteq AlertTypes
    /\ RetryCount \in Nat
    /\ NoIncident \notin Incidents
    /\ {"free", "orphan"} \cap Workers = {}

VARIABLES
    (* PostgreSQL *)
    row,          \* status and counters of the service
    enabled,      \* service.enabled
    exists,       \* FALSE once the service is deleted
    incident,     \* status of each incident, "NONE" when there is no such row
    alerts,       \* how many alerts of each type name each incident
    (* Redis, besides the keys of CircuitKeys *)
    lock,         \* lock:service: free, a worker, or "orphan" (its holder is gone)
    (* the monitored target *)
    target,       \* what a probe would find now
    (* a worker's job *)
    pc,           \* the call the job is about to make
    snap,         \* the service row the job read when it started
    seen,         \* the circuit state the job read
    attempt,      \* the probe attempt
    next,         \* the row the job is going to store
    subject,      \* the incident the job created or found
    (* an operator's request *)
    opPc, opInc   \* its next call, and the incident it is about

database == <<row, enabled, exists, incident, alerts>>
job      == <<snap, seen, attempt, next, subject>>
request  == <<opPc, opInc>>
vars     == <<database, breaker, lock, target, pc, job, request>>

------------------------------------------------------------------------------
Active == {"OPEN", "ACKNOWLEDGED"}
ActiveIncidents == {i \in Incidents : incident[i] \in Active}

NoAlerts == [t \in Counted |-> 0]

\* Alerts of one type about one incident are counted up to 2, "more than one".
\* No handler reads an alert, so a type that no property asks about need not be
\* counted.
Alert(i, type) == alerts' = [alerts EXCEPT ![i] =
    [t \in Counted |-> IF t = type THEN Bump(@[t], 2) ELSE @[t]]]

\* An identifier can stand for a new incident when no row has it, or when the
\* row that has it is resolved and no handler holds it: nothing reads it again.
Unused(i) ==
    \/ incident[i] = "NONE"
    \/ /\ incident[i] = "RESOLVED"
       /\ \A w \in Workers : subject[w] # i
       /\ \A o \in Operators : opInc[o] # i

\* Mutant of MaxAttempts: retryCount counts the retries after the first retry.
MaxAttemptsOneTooMany(state) == RetryCount + 2

\* In HALF_OPEN the processor allows a single attempt.
MaxAttempts(state) == IF state = "HALF_OPEN" THEN 1 ELSE RetryCount + 1

\* Mutants of CircuitTarget: a successful trial probe leaves the circuit alone;
\* the first failure opens it.
CircuitTargetNeverCloses(state, result) ==
    IF result.fails > 0 /\ (state = "HALF_OPEN" \/ result.fails >= FailureThreshold)
        THEN "OPEN" ELSE "none"

CircuitTargetHasty(state, result) ==
    IF result.fails > 0 THEN "OPEN"
    ELSE IF state = "HALF_OPEN" THEN "CLOSED" ELSE "none"

\* The state the processor moves the circuit to after storing the result, or
\* "none" when it leaves the circuit alone.
CircuitTarget(state, result) ==
    IF result.fails = 0
        THEN IF state = "HALF_OPEN" THEN "CLOSED" ELSE "none"
        ELSE IF state = "HALF_OPEN" \/ result.fails >= FailureThreshold
             THEN "OPEN" ELSE "none"

\* The call that follows the incident handling: only a probe that was really
\* made announces a change to or from DEGRADED.
StatusCall(state, from, to) ==
    IF /\ state # "OPEN"
       /\ \/ to = "DEGRADED" /\ from # "DEGRADED"
          \/ to = "HEALTHY" /\ from = "DEGRADED"
    THEN "alertStatus" ELSE "update"

\* Mutant of IncidentCall: leaving RECOVERING is not seen as a recovery.
IncidentCallOnlyDown(state, from, to) ==
    IF EntersOutage(from, to) THEN "findOpen"
    ELSE IF state # "OPEN" /\ from = "DOWN" /\ LeavesOutage(from, to) THEN "findActive"
    ELSE StatusCall(state, from, to)

\* The call that follows the evaluation of a result.
IncidentCall(state, from, to) ==
    IF EntersOutage(from, to) THEN "findOpen"
    ELSE IF state # "OPEN" /\ LeavesOutage(from, to) THEN "findActive"
    ELSE StatusCall(state, from, to)

At(w, call) == pc[w] = call
Goto(w, call) == pc' = [pc EXCEPT ![w] = call]

\* The job returns: its local state is gone.
Finish(w) ==
    /\ Goto(w, "idle")
    /\ snap' = [snap EXCEPT ![w] = NewRow]
    /\ seen' = [seen EXCEPT ![w] = "CLOSED"]
    /\ attempt' = [attempt EXCEPT ![w] = 0]
    /\ next' = [next EXCEPT ![w] = NewRow]
    /\ subject' = [subject EXCEPT ![w] = NoIncident]

------------------------------------------------------------------------------
Init ==
    /\ row = NewRow /\ enabled = TRUE /\ exists = TRUE
    /\ incident = [i \in Incidents |-> "NONE"]
    /\ alerts = [i \in Incidents |-> NoAlerts]
    /\ circuit = "CLOSED" /\ openedAt = "none" /\ lock = "free"
    /\ target \in Outcomes
    /\ pc = [w \in Workers |-> "idle"]
    /\ snap = [w \in Workers |-> NewRow]
    /\ seen = [w \in Workers |-> "CLOSED"]
    /\ attempt = [w \in Workers |-> 0]
    /\ next = [w \in Workers |-> NewRow]
    /\ subject = [w \in Workers |-> NoIncident]
    /\ opPc = [o \in Operators |-> "idle"]
    /\ opInc = [o \in Operators |-> NoIncident]

(***************************************************************************)
(* The job, up to the decision whether to probe.                           *)
(***************************************************************************)
\* The scheduler's job starts and reads the row; a missing or disabled
\* service ends it at once, which changes nothing.
StartJob(w) ==
    /\ At(w, "idle") /\ exists /\ enabled
    /\ snap' = [snap EXCEPT ![w] = row]
    /\ Goto(w, "getState")
    /\ UNCHANGED <<database, breaker, lock, target, seen, attempt, next, subject, request>>

\* Mutant of GetState: a missing opened_at is not recorded.
GetStateWithoutFallback(w) ==
    /\ At(w, "getState")
    /\ LET state == IF CooledDown THEN "HALF_OPEN" ELSE circuit
       IN  /\ seen' = [seen EXCEPT ![w] = state]
           /\ Goto(w, IF state = "OPEN" THEN "shortCircuit" ELSE "lock")
    /\ Transition(IF CooledDown THEN "HALF_OPEN" ELSE circuit)
    /\ UNCHANGED <<database, lock, target, snap, attempt, next, subject, request>>

GetState(w) ==
    /\ At(w, "getState")
    /\ LET state == IF CooledDown THEN "HALF_OPEN" ELSE circuit
       IN  /\ seen' = [seen EXCEPT ![w] = state]
           /\ Goto(w, IF state = "OPEN" THEN "shortCircuit" ELSE "lock")
    /\ \/ CooledDown /\ Transition("HALF_OPEN")
       \/ /\ ~CooledDown
          /\ circuit' = circuit
          /\ openedAt' = IF circuit = "OPEN" /\ openedAt = "none" THEN "fresh" ELSE openedAt
    /\ UNCHANGED <<database, lock, target, snap, attempt, next, subject, request>>

\* An open circuit: a failed check is recorded without a probe and without the lock.
ShortCircuit(w) ==
    /\ At(w, "shortCircuit") /\ exists
    /\ LET result == NextRow(snap[w], "fail")
       IN  /\ next' = [next EXCEPT ![w] = result]
           /\ Goto(w, IncidentCall("OPEN", snap[w].status, result.status))
    /\ UNCHANGED <<database, breaker, lock, target, snap, seen, attempt, subject, request>>

AcquireLock(w) ==
    /\ At(w, "lock") /\ lock = "free"
    /\ lock' = w
    /\ attempt' = [attempt EXCEPT ![w] = 1]
    /\ Goto(w, "probe")
    /\ UNCHANGED <<database, breaker, target, snap, seen, next, subject, request>>

\* Another check holds the lock: this one is skipped.
SkipCheck(w) ==
    /\ At(w, "lock") /\ lock # "free"
    /\ Finish(w)
    /\ UNCHANGED <<database, breaker, lock, target, request>>

(***************************************************************************)
(* The locked section: probe, evaluate, keep the incidents, store.         *)
(***************************************************************************)
\* A failed attempt that leaves another one to make.
Retry(w) ==
    /\ At(w, "probe") /\ exists
    /\ target = "fail" /\ attempt[w] < MaxAttempts(seen[w])
    /\ attempt' = [attempt EXCEPT ![w] = @ + 1]
    /\ UNCHANGED <<database, breaker, lock, target, pc, snap, seen, next, subject, request>>

\* The last attempt: its result decides the check.
Probe(w) ==
    /\ At(w, "probe") /\ exists
    /\ target # "fail" \/ attempt[w] >= MaxAttempts(seen[w])
    /\ LET result == NextRow(snap[w], target)
       IN  /\ next' = [next EXCEPT ![w] = result]
           /\ Goto(w, IncidentCall(seen[w], snap[w].status, result.status))
    /\ UNCHANGED <<database, breaker, lock, target, snap, seen, attempt, subject, request>>

\* Mutant of FindOpen: no look at the incidents there are.
FindOpenBlind(w) ==
    /\ At(w, "findOpen")
    /\ Goto(w, "create")
    /\ UNCHANGED <<database, breaker, lock, target, job, request>>

\* ensureIncidentCreated: look for an active incident.
FindOpen(w) ==
    /\ At(w, "findOpen")
    /\ Goto(w, IF ActiveIncidents = {} THEN "create" ELSE "update")
    /\ UNCHANGED <<database, breaker, lock, target, job, request>>

\* Mutant of CreateIncident: nothing is announced.
CreateIncidentSilently(w) ==
    /\ At(w, "create") /\ exists
    /\ \E i \in Incidents : Unused(i) /\ incident' = [incident EXCEPT ![i] = "OPEN"]
    /\ Goto(w, "update")
    /\ UNCHANGED <<row, enabled, exists, alerts, breaker, lock, target, job, request>>

CreateIncident(w) ==
    /\ At(w, "create") /\ exists
    /\ \E i \in Incidents :
        /\ Unused(i)
        /\ incident' = [incident EXCEPT ![i] = "OPEN"]
        /\ alerts' = [alerts EXCEPT ![i] = NoAlerts]
        /\ subject' = [subject EXCEPT ![w] = i]
    /\ Goto(w, "alertCreated")
    /\ UNCHANGED <<row, enabled, exists, breaker, lock, target, snap, seen, attempt, next, request>>

AlertCreated(w) ==
    /\ At(w, "alertCreated") /\ exists
    /\ Alert(subject[w], "INCIDENT_CREATED")
    /\ Goto(w, "alertDown")
    /\ UNCHANGED <<row, enabled, exists, incident, breaker, lock, target, job, request>>

AlertDown(w) ==
    /\ At(w, "alertDown") /\ exists
    /\ Alert(subject[w], "SERVICE_DOWN")
    /\ Goto(w, "update")
    /\ UNCHANGED <<row, enabled, exists, incident, breaker, lock, target, job, request>>

\* Mutants of FindActive: resolved incidents are found too; the alerts go first
\* and the incident is never resolved.
FindActiveAny(w) ==
    /\ At(w, "findActive")
    /\ \E i \in Incidents :
        /\ incident[i] # "NONE"
        /\ subject' = [subject EXCEPT ![w] = i]
    /\ Goto(w, "resolve")
    /\ UNCHANGED <<database, breaker, lock, target, snap, seen, attempt, next, request>>

FindActiveAlertsFirst(w) ==
    /\ At(w, "findActive")
    /\ \E i \in ActiveIncidents : subject' = [subject EXCEPT ![w] = i]
    /\ Goto(w, "alertRecovered")
    /\ UNCHANGED <<database, breaker, lock, target, snap, seen, attempt, next, request>>

\* ensureIncidentResolved: look for an active incident, whichever comes first.
FindActive(w) ==
    /\ At(w, "findActive")
    /\ \/ /\ ActiveIncidents = {}
          /\ Goto(w, StatusCall(seen[w], snap[w].status, next[w].status))
          /\ UNCHANGED subject
       \/ \E i \in ActiveIncidents :
          /\ subject' = [subject EXCEPT ![w] = i]
          /\ Goto(w, "resolve")
    /\ UNCHANGED <<database, breaker, lock, target, snap, seen, attempt, next, request>>

ResolveIncident(w) ==
    /\ At(w, "resolve") /\ exists
    /\ incident' = [incident EXCEPT ![subject[w]] = "RESOLVED"]
    /\ Goto(w, "alertRecovered")
    /\ UNCHANGED <<row, enabled, exists, alerts, breaker, lock, target, job, request>>

AlertRecovered(w) ==
    /\ At(w, "alertRecovered") /\ exists
    /\ Alert(subject[w], "SERVICE_RECOVERED")
    /\ Goto(w, "alertResolved")
    /\ UNCHANGED <<row, enabled, exists, incident, breaker, lock, target, job, request>>

AlertResolved(w) ==
    /\ At(w, "alertResolved") /\ exists
    /\ Alert(subject[w], "INCIDENT_RESOLVED")
    /\ Goto(w, StatusCall(seen[w], snap[w].status, next[w].status))
    /\ UNCHANGED <<row, enabled, exists, incident, breaker, lock, target, job, request>>

\* The SERVICE_DEGRADED or "Service Restored" alert names no incident.
AlertStatus(w) ==
    /\ At(w, "alertStatus") /\ exists
    /\ Goto(w, "update")
    /\ UNCHANGED <<database, breaker, lock, target, job, request>>

\* Store status and counters; a short-circuited job has nothing left to do.
UpdateService(w) ==
    /\ At(w, "update") /\ exists
    /\ row' = next[w]
    /\ \/ seen[w] = "OPEN" /\ Finish(w)
       \/ /\ seen[w] # "OPEN"
          /\ Goto(w, IF CircuitTarget(seen[w], next[w]) = "none" THEN "release" ELSE "transition")
          /\ UNCHANGED job
    /\ UNCHANGED <<enabled, exists, incident, alerts, breaker, lock, target, request>>

TransitionCircuit(w) ==
    /\ At(w, "transition")
    /\ Transition(CircuitTarget(seen[w], next[w]))
    /\ Goto(w, "release")
    /\ UNCHANGED <<database, lock, target, job, request>>

\* Compare-and-delete: a lock that expired and was taken by another worker stays.
ReleaseLock(w) ==
    /\ At(w, "release")
    /\ lock' = IF lock = w THEN "free" ELSE lock
    /\ Finish(w)
    /\ UNCHANGED <<database, breaker, target, request>>

\* A query throws: the locked section's catch and finally lead to the release,
\* the short-circuit path has neither and the job fails.
Abandon(w) ==
    IF seen[w] = "OPEN"
        THEN Finish(w) /\ UNCHANGED <<database, breaker, lock, target, request>>
        ELSE Goto(w, "release") /\ UNCHANGED <<database, breaker, lock, target, job, request>>

WriteCalls == {"shortCircuit", "probe", "create", "alertCreated", "alertDown", "resolve",
               "alertRecovered", "alertResolved", "alertStatus", "update"}

\* Writing to, or for, a service that was deleted meanwhile throws.
WriteToDeleted(w) == pc[w] \in WriteCalls /\ ~exists /\ Abandon(w)

\* The lock of a holder that is gone runs into its time to live.
OrphanExpires ==
    /\ lock = "orphan" /\ lock' = "free"
    /\ UNCHANGED <<database, breaker, target, pc, job, request>>

\* A minute passes after opened_at.
CoolDown ==
    /\ Age
    /\ UNCHANGED <<database, lock, target, pc, job, request>>

WorkerStep(w) ==
    \/ StartJob(w) \/ GetState(w) \/ ShortCircuit(w) \/ AcquireLock(w) \/ SkipCheck(w)
    \/ Retry(w) \/ Probe(w) \/ FindOpen(w) \/ CreateIncident(w) \/ AlertCreated(w)
    \/ AlertDown(w) \/ FindActive(w) \/ ResolveIncident(w) \/ AlertRecovered(w)
    \/ AlertResolved(w) \/ AlertStatus(w) \/ UpdateService(w) \/ TransitionCircuit(w)
    \/ ReleaseLock(w) \/ WriteToDeleted(w)

System == OrphanExpires \/ CoolDown \/ \E w \in Workers : WorkerStep(w)

(***************************************************************************)
(* What goes wrong.                                                        *)
(***************************************************************************)
\* A query throws.  At "transition" it is the reply of the status update that
\* was lost after the row was written.
QueryFails(w) ==
    /\ "db" \in Faults
    /\ pc[w] \in WriteCalls \union {"findOpen", "findActive", "transition"}
    /\ Abandon(w)

\* getState catches the error and reports CLOSED.
GetStateFails(w) ==
    /\ "redis" \in Faults /\ At(w, "getState")
    /\ seen' = [seen EXCEPT ![w] = "CLOSED"]
    /\ Goto(w, "lock")
    /\ RecordMissing \/ UNCHANGED breaker
    /\ UNCHANGED <<database, lock, target, snap, attempt, next, subject, request>>

\* The upgrade inside getState is cut short; transitionTo catches the error,
\* so getState still reports HALF_OPEN.
UpgradeFails(w) ==
    /\ {"redis", "crash"} \cap Faults # {}
    /\ At(w, "getState") /\ CooledDown
    /\ Interrupted("HALF_OPEN")
    /\ seen' = [seen EXCEPT ![w] = "HALF_OPEN"]
    /\ Goto(w, "lock")
    /\ UNCHANGED <<database, lock, target, snap, attempt, next, subject, request>>

\* Mutant of AcquireFails: an error counts as a lock.
AcquireFailsOpen(w) ==
    /\ "redis" \in Faults /\ At(w, "lock")
    /\ Goto(w, "probe")
    /\ attempt' = [attempt EXCEPT ![w] = 1]
    /\ UNCHANGED <<database, breaker, lock, target, snap, seen, next, subject, request>>

\* acquireLock catches the error and reports that the lock is taken; Redis may have
\* set the key, which nobody holds then.
AcquireFails(w) ==
    /\ "redis" \in Faults /\ At(w, "lock")
    /\ lock' \in {lock} \union (IF lock = "free" THEN {"orphan"} ELSE {})
    /\ Finish(w)
    /\ UNCHANGED <<database, breaker, target, request>>

TransitionFails(w) ==
    /\ {"redis", "crash"} \cap Faults # {}
    /\ At(w, "transition")
    /\ Interrupted(CircuitTarget(seen[w], next[w]))
    /\ Goto(w, "release")
    /\ UNCHANGED <<database, lock, target, job, request>>

\* releaseLock catches the error: the lock waits for its time to live.
ReleaseFails(w) ==
    /\ "redis" \in Faults /\ At(w, "release")
    /\ lock' = IF lock = w THEN "orphan" ELSE lock
    /\ Finish(w)
    /\ UNCHANGED <<database, breaker, target, request>>

Crash(w) ==
    /\ "crash" \in Faults /\ ~At(w, "idle")
    /\ lock' = IF lock = w THEN "orphan" ELSE lock
    /\ Finish(w)
    /\ UNCHANGED <<database, breaker, target, request>>

\* The lock's time to live ends while its holder is still checking.
HeldLockExpires ==
    /\ "ttl" \in Faults /\ lock \in Workers /\ lock' = "free"
    /\ UNCHANGED <<database, breaker, target, pc, job, request>>

WorkerFault(w) ==
    \/ QueryFails(w) \/ GetStateFails(w) \/ UpgradeFails(w) \/ AcquireFails(w)
    \/ TransitionFails(w) \/ ReleaseFails(w) \/ Crash(w)

Fault == HeldLockExpires \/ \E w \in Workers : WorkerFault(w)

(***************************************************************************)
(* The target and the API.                                                 *)
(***************************************************************************)
TargetChanges ==
    /\ target' \in Outcomes \ {target}
    /\ UNCHANGED <<database, breaker, lock, pc, job, request>>

\* enable, disable, and update of the enabled flag.
ToggleEnabled ==
    /\ "toggle" \in ServiceCalls
    /\ exists /\ enabled' = ~enabled
    /\ UNCHANGED <<row, exists, incident, alerts, breaker, lock, target, pc, job, request>>

\* remove: incidents and alerts go with the service (ON DELETE CASCADE).
RemoveService ==
    /\ "remove" \in ServiceCalls
    /\ exists /\ exists' = FALSE
    /\ incident' = [i \in Incidents |-> "NONE"]
    /\ alerts' = [i \in Incidents |-> NoAlerts]
    /\ UNCHANGED <<row, enabled, breaker, lock, target, pc, job, request>>

OpAt(o, call) == opPc[o] = call
OpGoto(o, call) == opPc' = [opPc EXCEPT ![o] = call]
OpFinish(o) == OpGoto(o, "idle") /\ opInc' = [opInc EXCEPT ![o] = NoIncident]

\* acknowledge and resolve read the incident and refuse a resolved one.
OpRead(o) ==
    /\ OpAt(o, "idle")
    /\ \E i \in ActiveIncidents : opInc' = [opInc EXCEPT ![o] = i]
    /\ \E call \in {"acknowledge", "resolve"} : OpGoto(o, call)
    /\ UNCHANGED <<database, breaker, lock, target, pc, job>>

OpAcknowledge(o) ==
    /\ OpAt(o, "acknowledge") /\ exists
    /\ incident' = [incident EXCEPT ![opInc[o]] = "ACKNOWLEDGED"]
    /\ OpFinish(o)
    /\ UNCHANGED <<row, enabled, exists, alerts, breaker, lock, target, pc, job>>

OpResolve(o) ==
    /\ OpAt(o, "resolve") /\ exists
    /\ incident' = [incident EXCEPT ![opInc[o]] = "RESOLVED"]
    /\ OpGoto(o, "alertResolved")
    /\ UNCHANGED <<row, enabled, exists, alerts, breaker, lock, target, pc, job, opInc>>

OpAlertResolved(o) ==
    /\ OpAt(o, "alertResolved") /\ exists
    /\ Alert(opInc[o], "INCIDENT_RESOLVED")
    /\ OpGoto(o, "alertRecovered")
    /\ UNCHANGED <<row, enabled, exists, incident, breaker, lock, target, pc, job, opInc>>

OpAlertRecovered(o) ==
    /\ OpAt(o, "alertRecovered") /\ exists
    /\ Alert(opInc[o], "SERVICE_RECOVERED")
    /\ OpGoto(o, "reset")
    /\ UNCHANGED <<row, enabled, exists, incident, breaker, lock, target, pc, job, opInc>>

\* Mutant of OpReset: the counters keep their values.
OpResetStatusOnly(o) ==
    /\ OpAt(o, "reset") /\ exists
    /\ row' = [row EXCEPT !.status = "HEALTHY"]
    /\ OpFinish(o)
    /\ UNCHANGED <<enabled, exists, incident, alerts, breaker, lock, target, pc, job>>

\* The service is declared healthy whatever its target and its circuit do.
OpReset(o) ==
    /\ OpAt(o, "reset") /\ exists
    /\ row' = ResetRow
    /\ OpFinish(o)
    /\ UNCHANGED <<enabled, exists, incident, alerts, breaker, lock, target, pc, job>>

\* A request ends in the middle: its service is gone, a query throws, or the
\* API process dies.
OpAborts(o) ==
    /\ ~OpAt(o, "idle")
    /\ ~exists \/ {"db", "crash"} \cap Faults # {}
    /\ OpFinish(o)
    /\ UNCHANGED <<database, breaker, lock, target, pc, job>>

OperatorStep(o) ==
    \/ OpRead(o) \/ OpAcknowledge(o) \/ OpResolve(o) \/ OpAlertResolved(o)
    \/ OpAlertRecovered(o) \/ OpReset(o) \/ OpAborts(o)

Environment ==
    \/ TargetChanges \/ ToggleEnabled \/ RemoveService
    \/ \E o \in Operators : OperatorStep(o)

Next == System \/ Fault \/ Environment

Spec == Init /\ [][Next]_vars

------------------------------------------------------------------------------
(***************************************************************************)
(* Properties.                                                             *)
(***************************************************************************)
Calls == WriteCalls \union
         {"idle", "getState", "lock", "findOpen", "findActive", "transition", "release"}
OpCalls == {"idle", "acknowledge", "resolve", "alertResolved", "alertRecovered", "reset"}

\* Every variable has its type, and every count and attempt its bound.
TypeOK ==
    /\ row \in Rows /\ enabled \in BOOLEAN /\ exists \in BOOLEAN
    /\ incident \in [Incidents -> Active \union {"NONE", "RESOLVED"}]
    /\ alerts \in [Incidents -> [Counted -> 0..2]]
    /\ circuit \in CircuitStates /\ openedAt \in {"none", "fresh", "old"}
    /\ lock \in Workers \union {"free", "orphan"}
    /\ target \in Outcomes
    /\ pc \in [Workers -> Calls]
    /\ snap \in [Workers -> Rows] /\ next \in [Workers -> Rows]
    /\ seen \in [Workers -> CircuitStates]
    /\ attempt \in [Workers -> 0..(RetryCount + 1)]
    /\ subject \in [Workers -> Incidents \union {NoIncident}]
    /\ opPc \in [Operators -> OpCalls]
    /\ opInc \in [Operators -> Incidents \union {NoIncident}]

\* What status and counters can stand together in a row.
Consistent(r) ==
    /\ r.status = "UNKNOWN"    => r.succs = 0 /\ r.fails < FailureThreshold
    /\ r.status = "HEALTHY"    => r.fails = 0
    /\ r.status = "DEGRADED"   => r.fails < FailureThreshold /\ (r.fails = 0 \/ r.succs = 0)
    /\ r.status = "DOWN"       => r.succs = 0 /\ r.fails > 0
    /\ r.status = "RECOVERING" => r.fails = 0 /\ r.succs \in 1..(RecoveryThreshold - 1)

\* Whatever number of workers and operators write the row from whatever stale
\* reading, and whatever fails in between, status and counters stay a pair that
\* determineNextStatus or a manual reset produces: a HEALTHY service has no
\* failure on its count, a DEGRADED one has not reached the failure threshold,
\* a RECOVERING one has not reached the recovery threshold.
RowConsistent == Consistent(row)

\* The calls made between taking the check lock and giving it back.
InLockedSection(w) ==
    seen[w] # "OPEN" /\ pc[w] \in Calls \ {"idle", "getState", "lock"}

\* As long as the lock's time to live outlasts the check, no two workers are in
\* the locked section of process() at once, whatever crashes and Redis errors
\* happen.
LockedSectionExclusive ==
    "ttl" \notin Faults =>
        \A v, w \in Workers : InLockedSection(v) /\ InLockedSection(w) => v = w

\* A service shown DOWN has an active incident (ensureIncidentCreated runs
\* before the update that stores DOWN, and before RECOVERING falls back).
DownHasIncident == exists /\ row.status = "DOWN" => ActiveIncidents # {}

\* The check-then-create of ensureIncidentCreated leaves at most one active
\* incident of a service.
AtMostOneActiveIncident == \A i, j \in ActiveIncidents : i = j

\* No incident gets the same alert twice.
AlertsOnce == \A i \in Incidents, t \in Counted : alerts[i][t] <= 1

\* A service is shown DOWN only after the incident and the outage were both
\* announced.
DownWasAnnounced ==
    exists /\ row.status = "DOWN" =>
        \E i \in ActiveIncidents :
            \A t \in {"INCIDENT_CREATED", "SERVICE_DOWN"} : t \in Counted => alerts[i][t] > 0

\* An incident is announced as over only after it was resolved: neither the worker
\* nor the operator's handler sends the closing alerts of an open incident, even
\* when both resolve the same one at once.
ResolvedBeforeAnnounced ==
    \A i \in Incidents, t \in Counted \cap {"SERVICE_RECOVERED", "INCIDENT_RESOLVED"} :
        alerts[i][t] > 0 => incident[i] # "OPEN"

\* The circuit is open only on a service shown DOWN: probing is suspended for
\* nothing less.
OpenOnlyWhenDown == exists /\ circuit = "OPEN" => row.status = "DOWN"

\* A service that works again has no incident left behind: once no check is
\* under way, HEALTHY means every incident is resolved.
HealthyHasNoIncident ==
    row.status = "HEALTHY" /\ (\A w \in Workers : At(w, "idle")) => ActiveIncidents = {}

\* A resolved incident stays resolved (acknowledge refuses it).
ResolvedIsFinal ==
    [][\A i \in Incidents : incident[i] = "RESOLVED" => incident'[i] # "ACKNOWLEDGED"]_incident

\* The abstract monitor this program is meant to be: the rows as they are, and
\* the incidents reduced to whether one is active.
Monitor == INSTANCE MonitorSpec WITH open <- ActiveIncidents # {}

\* With one worker and nobody resolving by hand, process() is the abstract
\* monitor in spite of crashes, failing queries and Redis errors: every write
\* is a step of MonitorSpec and everything else is invisible to it.
ImplementsMonitor == Monitor!Spec
==============================================================================
