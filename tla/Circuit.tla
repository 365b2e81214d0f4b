------------------------------- MODULE Circuit -------------------------------
(***************************************************************************)
(* CircuitBreakerService command by command, for one service checked by     *)
(* several replicas of the worker, with the alerts CircuitEventListener     *)
(* writes.  HealthCheck has every call of transitionTo as one step; here    *)
(* the GET, the SET and the write of opened_at interleave.  A job reads the *)
(* state (and half-opens it) before it takes the check lock, so only the    *)
(* transitions after a probe are under the lock.                            *)
(*                                                                          *)
(* Time is the age of the two moments that matter, in ticks of which        *)
(* Cooldown are 60 seconds.  Glitches bounds how often a Redis command or   *)
(* an alert's insert fails or a process dies.                               *)
(***************************************************************************)
EXTENDS Naturals, FiniteSets

CONSTANTS
    Replicas,    \* worker processes, each checking the service at most once at a time
    Cooldown,    \* recoveryTimeoutMs in ticks
    Glitches,    \* how many faults may happen
    MaxPending   \* how many circuit events may be in their handlers at once

ASSUME CircuitAssumption ==
    /\ Cooldown \in Nat \ {0} /\ Glitches \in Nat /\ MaxPending \in Nat \ {0}
    /\ {"free", "orphan"} \cap Replicas = {}

Modes == {"CLOSED", "OPEN", "HALF_OPEN"}
Ages == 0..(Cooldown + 1)
NoStamp == Cooldown + 2

VARIABLES
    mode,       \* circuit:state, CLOSED when the key is absent
    stamp,      \* age of the time in circuit:opened_at, NoStamp when it is absent
    opening,    \* time since the state key was last set to OPEN
    guard,      \* the check lock: free, a replica, or orphan
    step,       \* the command each replica's job waits for
    held,       \* the state in its hands: what getState answered, or the state
                \* its transitionTo is moving to
    overtaken,  \* another replica set the state key after it decided on held, or
                \* had not yet deleted opened_at when it did
    stray,      \* opened_at has been left or set while the circuit was not OPEN
    pending,    \* events whose handlers have not stored an alert yet
    announced,  \* the state the last stored alert tells
    muddled,    \* events or transitions overlapped, or one was lost
    glitches    \* faults so far

circuitVars == <<mode, stamp, opening, guard, step, held, overtaken, stray,
                 pending, announced, muddled, glitches>>
keys == <<mode, stamp, opening>>
news == <<pending, announced, muddled>>

------------------------------------------------------------------------------
CircuitInit ==
    /\ mode = "CLOSED" /\ stamp = NoStamp /\ opening = Cooldown + 1
    /\ guard = "free"
    /\ step = [r \in Replicas |-> "idle"]
    /\ held = [r \in Replicas |-> "CLOSED"]
    /\ overtaken = [r \in Replicas |-> FALSE]
    /\ stray = FALSE
    /\ pending = [m \in Modes |-> 0] /\ announced = "CLOSED" /\ muddled = FALSE
    /\ glitches = 0

Await(r, s) == step' = [step EXCEPT ![r] = s]
Hold(r, m) == held' = [held EXCEPT ![r] = m]
EndCheck(r) == Await(r, "idle") /\ Hold(r, "CLOSED")
Transitioning(r) == step[r] \in {"compare", "setState", "setStamp"}
Alone(r) == \A q \in Replicas \ {r} : ~Transitioning(q)

\* getState answered m: an OPEN circuit ends the job (it is recorded as failed
\* without a probe), otherwise the job goes on to the lock.
StateAnswered(r, m) ==
    IF m = "OPEN" THEN EndCheck(r) ELSE Await(r, "lock") /\ Hold(r, m)

\* transitionTo has returned: to getState, which answers HALF_OPEN, or to the
\* job, which releases the lock.
Returned(r) ==
    IF held[r] = "HALF_OPEN" THEN StateAnswered(r, "HALF_OPEN")
    ELSE Await(r, "release") /\ UNCHANGED held

\* transitionTo(m) is called.
Decide(r, m) ==
    /\ Hold(r, m)
    /\ overtaken' = [overtaken EXCEPT ![r] =
           \E q \in Replicas \ {r} : step[q] = "setStamp" /\ held[q] # "OPEN"]
    /\ Await(r, "compare")

BeginCheck(r) ==
    /\ step[r] = "idle"
    /\ Await(r, "getState")
    /\ UNCHANGED <<keys, guard, held, overtaken, stray, news, glitches>>

\* GET circuit:state.
GetCircuitState(r) ==
    /\ step[r] = "getState"
    /\ IF mode = "OPEN" THEN Await(r, "getStamp") /\ UNCHANGED held ELSE StateAnswered(r, mode)
    /\ UNCHANGED <<keys, guard, overtaken, stray, news, glitches>>

\* GET circuit:opened_at, and the comparison with the clock.
GetOpenedAt(r) ==
    /\ step[r] = "getStamp"
    /\ CASE stamp = NoStamp -> Await(r, "fallback") /\ UNCHANGED <<held, overtaken>>
         [] stamp \in 0..Cooldown -> StateAnswered(r, "OPEN") /\ UNCHANGED overtaken
         [] stamp = Cooldown + 1 ->
                Decide(r, "HALF_OPEN")
    /\ UNCHANGED <<keys, guard, stray, news, glitches>>

\* Mutant of RecordOpenedAt: the missing time is not recorded.
RecordNothing(r) ==
    /\ step[r] = "fallback"
    /\ StateAnswered(r, "OPEN")
    /\ UNCHANGED <<keys, guard, overtaken, stray, news, glitches>>

\* The fallback for a missing opened_at, as Redis executes it: record it as now.
StampNow ==
    /\ stamp' = 0 /\ stray' = (stray \/ mode # "OPEN")
    /\ UNCHANGED <<mode, opening>>

RecordOpenedAt(r) ==
    /\ step[r] = "fallback"
    /\ StampNow /\ StateAnswered(r, "OPEN")
    /\ UNCHANGED <<guard, overtaken, news, glitches>>

\* transitionTo reads the state and returns when there is nothing to do.
Compare(r) ==
    /\ step[r] = "compare"
    /\ IF mode = held[r] THEN Returned(r) ELSE Await(r, "setState") /\ UNCHANGED held
    /\ UNCHANGED <<keys, guard, overtaken, stray, news, glitches>>

\* SET circuit:state, as Redis executes it.
WriteMode(r) ==
    /\ mode' = held[r]
    /\ opening' = IF held[r] = "OPEN" THEN 0 ELSE opening
    /\ overtaken' = [q \in Replicas |-> IF q = r THEN overtaken[r] ELSE Transitioning(q)]

SetCircuitState(r) ==
    /\ step[r] = "setState"
    /\ WriteMode(r)
    /\ Await(r, "setStamp")
    /\ UNCHANGED <<stamp, guard, held, stray, news, glitches>>

\* The event is emitted; its handler runs on its own from here.
Emit(r) ==
    /\ pending' = [pending EXCEPT ![held[r]] = @ + 1]
    /\ muddled' = (overtaken[r] \/ ~Alone(r) \/ \E m \in Modes : pending[m] > 0)
    /\ UNCHANGED announced

HasRoom == \A m \in Modes : pending[m] < MaxPending

\* Mutant of WriteOpenedAt: the key is left behind when the circuit leaves OPEN.
KeepOpenedAt(r) ==
    /\ step[r] = "setStamp" /\ HasRoom
    /\ stamp' = IF held[r] = "OPEN" THEN 0 ELSE stamp
    /\ stray' = (stray \/ (held[r] = "OPEN" /\ mode # "OPEN"))
    /\ Emit(r) /\ Returned(r)
    /\ overtaken' = [overtaken EXCEPT ![r] = FALSE]
    /\ UNCHANGED <<mode, opening, guard, glitches>>

\* SET or DEL circuit:opened_at, then the event.
WriteOpenedAt(r) ==
    /\ step[r] = "setStamp" /\ HasRoom
    /\ stamp' = IF held[r] = "OPEN" THEN 0 ELSE NoStamp
    /\ stray' = (stray \/ (held[r] = "OPEN" /\ mode # "OPEN"))
    /\ Emit(r) /\ Returned(r)
    /\ overtaken' = [overtaken EXCEPT ![r] = FALSE]
    /\ UNCHANGED <<mode, opening, guard, glitches>>

\* acquireLock before the probe; a replica that finds the lock skips its check.
LockCheck(r) ==
    /\ step[r] = "lock"
    /\ IF guard = "free" THEN guard' = r /\ Await(r, "probe") /\ UNCHANGED held
                         ELSE UNCHANGED guard /\ EndCheck(r)
    /\ UNCHANGED <<keys, overtaken, stray, news, glitches>>

\* The probe has been made and stored; the job moves the circuit according to
\* the state it read at its start, or leaves it alone.
MoveCircuit(r) ==
    /\ step[r] = "probe"
    /\ \/ held[r] = "HALF_OPEN" /\ Decide(r, "CLOSED")
       \/ Decide(r, "OPEN")
       \/ held[r] = "CLOSED" /\ Await(r, "release") /\ UNCHANGED <<held, overtaken>>
    /\ UNCHANGED <<keys, guard, stray, news, glitches>>

UnlockCheck(r) ==
    /\ step[r] = "release"
    /\ guard' = IF guard = r THEN "free" ELSE guard
    /\ EndCheck(r)
    /\ UNCHANGED <<keys, overtaken, stray, news, glitches>>

CheckStep(r) ==
    \/ GetCircuitState(r) \/ GetOpenedAt(r) \/ RecordOpenedAt(r)
    \/ Compare(r) \/ SetCircuitState(r) \/ WriteOpenedAt(r)
    \/ LockCheck(r) \/ MoveCircuit(r) \/ UnlockCheck(r)

\* Mutant of StoreAlert: the handler of circuit.half-open stores CIRCUIT_OPENED.
StoreAlertWrongType ==
    /\ \E m \in Modes :
        /\ pending[m] > 0
        /\ pending' = [pending EXCEPT ![m] = @ - 1]
        /\ announced' = IF m = "HALF_OPEN" THEN "OPEN" ELSE m
    /\ UNCHANGED <<keys, guard, step, held, overtaken, stray, muddled, glitches>>

\* handleCircuitOpened, -Closed, -HalfOpen: handlers of several events may finish
\* in any order.
StoreAlert ==
    /\ \E m \in Modes :
        /\ pending[m] > 0
        /\ pending' = [pending EXCEPT ![m] = @ - 1]
        /\ announced' = m
    /\ UNCHANGED <<keys, guard, step, held, overtaken, stray, muddled, glitches>>

------------------------------------------------------------------------------
Glitch == glitches < Glitches /\ glitches' = glitches + 1

\* The SET of a failing or dying transition may have been executed.
MaybeWritten(r) ==
    IF step[r] = "setState"
    THEN WriteMode(r) \/ UNCHANGED <<mode, opening, overtaken>>
    ELSE UNCHANGED <<mode, opening, overtaken>>

Cut(r) ==
    /\ MaybeWritten(r)
    /\ stray' = (stray \/ step[r] \in {"setState", "setStamp"})
    /\ muddled' = (muddled \/ step[r] \in {"setState", "setStamp"})
    /\ UNCHANGED <<stamp, pending, announced>>

\* A command throws, and may have been executed: getState answers CLOSED,
\* transitionTo just returns, acquireLock answers no, releaseLock leaves the key.
CommandFails(r) ==
    /\ Glitch
    /\ \/ /\ step[r] \in {"getState", "getStamp", "fallback"}
          /\ StateAnswered(r, "CLOSED")
          /\ (step[r] = "fallback" /\ StampNow) \/ UNCHANGED <<keys, stray>>
          /\ UNCHANGED <<muddled, pending, announced, overtaken, guard>>
       \/ /\ Transitioning(r)
          /\ Cut(r) /\ Returned(r) /\ UNCHANGED guard
       \/ /\ step[r] \in {"lock", "release"}
          /\ EndCheck(r)
          /\ \/ guard' = IF guard = r THEN "orphan" ELSE guard
             \/ step[r] = "lock" /\ guard = "free" /\ guard' = "orphan"
          /\ UNCHANGED <<keys, stray, muddled, pending, announced, overtaken>>

ReplicaDies(r) ==
    /\ Glitch /\ step[r] # "idle"
    /\ Cut(r) /\ EndCheck(r)
    /\ guard' = IF guard = r THEN "orphan" ELSE guard

\* findUnique or create throws in a handler (or its process dies): no alert.
AlertLost ==
    /\ Glitch
    /\ \E m \in Modes : pending[m] > 0 /\ pending' = [pending EXCEPT ![m] = @ - 1]
    /\ muddled' = TRUE
    /\ UNCHANGED <<keys, guard, step, held, overtaken, stray, announced>>

\* The check lock's time to live; that of a held lock is CheckLock's subject.
OrphanedLockExpires ==
    /\ guard = "orphan" /\ guard' = "free"
    /\ UNCHANGED <<keys, step, held, overtaken, stray, news, glitches>>

Older(age) == IF age \in 0..Cooldown THEN age + 1 ELSE age

CircuitClock ==
    /\ opening' = Older(opening) /\ stamp' = Older(stamp)
    /\ <<opening, stamp>>' # <<opening, stamp>>
    /\ UNCHANGED <<mode, guard, step, held, overtaken, stray, news, glitches>>

CircuitNext ==
    \/ \E r \in Replicas : BeginCheck(r) \/ CheckStep(r) \/ CommandFails(r) \/ ReplicaDies(r)
    \/ StoreAlert \/ AlertLost \/ OrphanedLockExpires \/ CircuitClock

\* Jobs keep coming, awaited commands settle, handlers end, time passes.
CircuitFairness ==
    /\ \A r \in Replicas : WF_circuitVars(BeginCheck(r) \/ CheckStep(r))
    /\ WF_circuitVars(StoreAlert)
    /\ WF_circuitVars(OrphanedLockExpires)
    /\ WF_circuitVars(CircuitClock)

CircuitSpec == CircuitInit /\ [][CircuitNext]_circuitVars /\ CircuitFairness

------------------------------------------------------------------------------
\* Every variable has its type.
CircuitTypeOK ==
    /\ mode \in Modes /\ stamp \in Ages \union {NoStamp} /\ opening \in Ages
    /\ guard \in Replicas \union {"free", "orphan"}
    /\ step \in [Replicas -> {"idle", "getState", "getStamp", "fallback", "compare",
                              "setState", "setStamp", "lock", "probe", "release"}]
    /\ held \in [Replicas -> Modes]
    /\ overtaken \in [Replicas -> BOOLEAN] /\ stray \in BOOLEAN
    /\ pending \in [Modes -> 0..MaxPending]
    /\ announced \in Modes /\ muddled \in BOOLEAN
    /\ glitches \in 0..Glitches

\* The circuit is half-opened only when the latest opening is older than the
\* cooldown.  The ways round it that the code leaves are named: a replica that found
\* the cooldown over and was overtaken by another one's transition writes HALF_OPEN
\* over a fresh opening, and so does one that reads the old opened_at because a replica
\* that left OPEN has not yet deleted it when the next opening sets the state; a
\* transition cut between its two keys, or a write of opened_at that comes when the
\* circuit is no longer OPEN, leaves a time in opened_at that is read with the next
\* opening.
CooldownKept == [][
    \A r \in Replicas :
        step[r] = "setState" /\ mode # "HALF_OPEN" /\ mode' = "HALF_OPEN" /\ held[r] = "HALF_OPEN"
            => opening > Cooldown \/ overtaken[r] \/ stray ]_circuitVars

\* However the commands of several replicas interleave and wherever one of them was
\* cut short, an open circuit is not open for good: a probe is made again.
ProbeComesBack == (mode = "OPEN") ~> (\E r \in Replicas : step[r] = "probe")

\* When no handler is under way, the last CIRCUIT_* alert tells the state of the
\* circuit, unless the last events overlapped, or a transition or an alert was lost.
AlertsTellState ==
    /\ \A m \in Modes : pending[m] = 0
    /\ \A r \in Replicas : ~Transitioning(r)
    /\ ~muddled
    => announced = mode
==============================================================================
