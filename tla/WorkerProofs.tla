----------------------------- MODULE WorkerProofs -----------------------------
(***************************************************************************)
(* Proofs about four parts of the worker that share no state: the circuit   *)
(* breaker (Circuit), the reconciliation of the queue (QueueSync), the      *)
(* prober (HttpProber) and checks under edited thresholds                   *)
(* (EditedThresholds).  Each part's invariant needs no fairness.            *)
(***************************************************************************)
EXTENDS Circuit, QueueSync, HttpProber, EditedThresholds, TLAPS

------------------------------------------------------------------------------
(***************************************************************************)
(* The circuit, for any number of replicas, any cooldown and any faults: it *)
(* is half-opened only after its cooldown, but for the ways round it that   *)
(* CooldownKept names; the last alert tells the state unless events         *)
(* overlapped or were lost; and where calls do not overlap the commands     *)
(* come to the whole calls of CircuitKeys.  What replicas share is only     *)
(* ever ordered by the check lock, so each part of the invariant says what  *)
(* one read key, the lock or a command under way tells of the others.       *)
(***************************************************************************)
\* A replica that has left OPEN in the state key and has opened_at still to delete.
Deleting(q) == step[q] = "setStamp" /\ held[q] # "OPEN"

\* Only the holder of the check lock probes, opens and closes the circuit; so when it
\* comes to set OPEN nobody has opened the circuit since it compared.
GuardInv ==
    \A r \in Replicas :
        /\ step[r] \in {"probe", "release"} => guard = r
        /\ Transitioning(r) /\ held[r] # "HALF_OPEN" => guard = r
        /\ step[r] = "setState" /\ held[r] = "OPEN" => mode # "OPEN"

\* A time in opened_at is that of the present opening or of a later moment, unless it
\* was left behind or somebody is about to delete it.
StampInv ==
    \/ stamp = NoStamp \/ stray \/ \E q \in Replicas : Deleting(q)
    \/ mode = "OPEN" /\ stamp <= opening

\* A replica that has decided to half-open the circuit found the cooldown over, and it
\* still is, unless another one has moved the circuit since.
HalfOpenInv ==
    \A r \in Replicas : step[r] \in {"compare", "setState"} /\ held[r] = "HALF_OPEN"
        => opening > Cooldown \/ overtaken[r] \/ stray

\* Between its two keys a transition finds the state it has set, unless overtaken.
WrittenInv == \A r \in Replicas : step[r] = "setStamp" /\ ~overtaken[r] => mode = held[r]

\* While no transition is between its keys and nothing has overlapped or been lost,
\* the one event under way, or else the last alert, tells the state.
ToldInv ==
    ~muddled /\ (\A r \in Replicas : step[r] # "setStamp") =>
        /\ \A m \in Modes \ {mode} : pending[m] = 0
        /\ pending[mode] \in {0, 1}
        /\ pending[mode] = 0 => announced = mode

CircuitInv ==
    CircuitTypeOK /\ GuardInv /\ StampInv /\ HalfOpenInv /\ WrittenInv /\ ToldInv

------------------------------------------------------------------------------
\* What a SET of the state key leaves behind.
LEMMA ModeWritten ==
    ASSUME CircuitTypeOK, NEW r \in Replicas, WriteMode(r)
    PROVE  /\ mode' = held[r] /\ mode' \in Modes
           /\ opening' = (IF held[r] = "OPEN" THEN 0 ELSE opening) /\ opening' \in Ages
           /\ overtaken' \in [Replicas -> BOOLEAN] /\ overtaken'[r] = overtaken[r]
           /\ \A q \in Replicas \ {r} : overtaken'[q] = Transitioning(q)
  <1> DEFINE moving(s) == s \in {"compare", "setState", "setStamp"}
  <1>1. mode' = held[r] /\ mode' \in Modes
    BY DEF WriteMode, CircuitTypeOK
  <1>2. opening' = (IF held[r] = "OPEN" THEN 0 ELSE opening) /\ opening' \in Ages
    BY CircuitAssumption DEF WriteMode, CircuitTypeOK, Ages
  <1>3. /\ \A s : moving(s) \in BOOLEAN
        /\ \A q \in Replicas : moving(step[q]) = Transitioning(q)
    BY DEF Transitioning
  <1>4. overtaken[r] \in BOOLEAN
    BY Zenon DEF CircuitTypeOK
  <1>5. overtaken' = [q \in Replicas |-> IF q = r THEN overtaken[r] ELSE moving(step[q])]
    BY Zenon DEF WriteMode, Transitioning
  <1> HIDE DEF moving
  <1>6. overtaken' \in [Replicas -> BOOLEAN] /\ overtaken'[r] = overtaken[r]
    BY <1>3, <1>4, <1>5, Zenon
  <1>7. \A q \in Replicas \ {r} : overtaken'[q] = moving(step[q])
    BY <1>5, Zenon
  <1> QED
    BY <1>1, <1>2, <1>3, <1>6, <1>7

\* The three outcomes of reading opened_at: no time, a recent one, an old one.
LEMMA StampRead ==
    ASSUME CircuitTypeOK, NEW r \in Replicas, GetOpenedAt(r)
    PROVE  /\ step[r] = "getStamp" /\ UNCHANGED <<keys, guard, stray, news, glitches>>
           /\ \/ stamp = NoStamp /\ Await(r, "fallback") /\ UNCHANGED <<held, overtaken>>
              \/ EndCheck(r) /\ UNCHANGED overtaken
              \/ stamp = Cooldown + 1 /\ Decide(r, "HALF_OPEN")
  <1>1. step[r] = "getStamp" /\ UNCHANGED <<keys, guard, stray, news, glitches>>
    BY DEF GetOpenedAt
  <1>2. CASE stamp = NoStamp
    <2>1. stamp \notin 0..Cooldown /\ stamp # Cooldown + 1
      BY <1>2, CircuitAssumption DEF NoStamp
    <2> QED
      BY <1>1, <1>2, <2>1, Zenon DEF GetOpenedAt
  <1>3. CASE stamp \in 0..Cooldown
    <2>1. stamp # NoStamp /\ stamp # Cooldown + 1
      BY <1>3, CircuitAssumption DEF NoStamp
    <2>2. StateAnswered(r, "OPEN") /\ UNCHANGED overtaken
      BY <1>3, <2>1, Zenon DEF GetOpenedAt
    <2> QED
      BY <1>1, <2>2 DEF StateAnswered
  <1>4. CASE stamp = Cooldown + 1
    <2>1. stamp # NoStamp /\ stamp \notin 0..Cooldown
      BY <1>4, CircuitAssumption DEF NoStamp
    <2> QED
      BY <1>1, <1>4, <2>1, Zenon DEF GetOpenedAt
  <1> QED
    BY <1>2, <1>3, <1>4, CircuitAssumption DEF CircuitTypeOK, Ages, NoStamp

\* What transitionTo starts with: held and overtaken are set, and only those of r.
LEMMA Decided ==
    ASSUME CircuitTypeOK, NEW r \in Replicas, NEW m \in Modes, Decide(r, m)
    PROVE  /\ Hold(r, m) /\ Await(r, "compare") /\ overtaken' \in [Replicas -> BOOLEAN]
           /\ overtaken'[r] = \E q \in Replicas \ {r} : step[q] = "setStamp" /\ held[q] # "OPEN"
           /\ \A q \in Replicas \ {r} : overtaken'[q] = overtaken[q]
BY Zenon DEF Decide, CircuitTypeOK

\* A transition that is cut short has executed its SET or it has not; one that has
\* is seen by the others as any other.
LEMMA CutShort ==
    ASSUME CircuitTypeOK, NEW r \in Replicas, Cut(r)
    PROVE  /\ UNCHANGED <<stamp, pending, announced>>
           /\ stray' \in BOOLEAN /\ stray' = (stray \/ step[r] \in {"setState", "setStamp"})
           /\ muddled' \in BOOLEAN /\ muddled' = (muddled \/ step[r] \in {"setState", "setStamp"})
           /\ \/ step[r] = "setState" /\ WriteMode(r)
              \/ UNCHANGED <<mode, opening, overtaken>>
  <1>1. /\ UNCHANGED <<stamp, pending, announced>>
        /\ stray' = (stray \/ step[r] \in {"setState", "setStamp"})
        /\ muddled' = (muddled \/ step[r] \in {"setState", "setStamp"})
    BY Zenon DEF Cut
  <1>2. \/ step[r] = "setState" /\ WriteMode(r)
        \/ UNCHANGED <<mode, opening, overtaken>>
    BY Zenon DEF Cut, MaybeWritten
  <1>3. stray' \in BOOLEAN /\ muddled' \in BOOLEAN
    <2>1. /\ (step[r] \in {"setState", "setStamp"}) \in BOOLEAN
          /\ stray \in BOOLEAN /\ muddled \in BOOLEAN
      BY DEF CircuitTypeOK
    <2> QED
      BY <1>1, <2>1
  <1> QED
    BY <1>1, <1>2, <1>3

\* Where a failed command leaves the job.
LEMMA Failed ==
    ASSUME CircuitTypeOK, NEW r \in Replicas, CommandFails(r)
    PROVE  /\ glitches' \in 0..Glitches
           /\ \/ /\ step[r] \in {"getState", "getStamp", "fallback"}
                 /\ Await(r, "lock") /\ Hold(r, "CLOSED")
                 /\ (step[r] = "fallback" /\ StampNow) \/ UNCHANGED <<keys, stray>>
                 /\ UNCHANGED <<news, overtaken, guard>>
              \/ /\ Transitioning(r) /\ Cut(r) /\ UNCHANGED guard
                 /\ \/ held[r] = "HALF_OPEN" /\ Await(r, "lock") /\ UNCHANGED held
                    \/ held[r] # "HALF_OPEN" /\ Await(r, "release") /\ UNCHANGED held
              \/ /\ step[r] \in {"lock", "release"} /\ EndCheck(r)
                 /\ \/ guard' = IF guard = r THEN "orphan" ELSE guard
                    \/ step[r] = "lock" /\ guard = "free" /\ guard' = "orphan"
                 /\ UNCHANGED <<keys, stray, news, overtaken>>
  <1>1. glitches' \in 0..Glitches
    BY CircuitAssumption DEF CommandFails, Glitch, CircuitTypeOK
  <1>2. CASE /\ step[r] \in {"getState", "getStamp", "fallback"} /\ StateAnswered(r, "CLOSED")
             /\ (step[r] = "fallback" /\ StampNow) \/ UNCHANGED <<keys, stray>>
             /\ UNCHANGED <<muddled, pending, announced, overtaken, guard>>
    BY <1>1, <1>2 DEF StateAnswered, news
  <1>3. CASE Transitioning(r) /\ Cut(r) /\ Returned(r) /\ UNCHANGED guard
    <2>1. held \in [Replicas -> Modes]
      BY DEF CircuitTypeOK
    <2>2. \/ held[r] = "HALF_OPEN" /\ Await(r, "lock") /\ UNCHANGED held
          \/ held[r] # "HALF_OPEN" /\ Await(r, "release") /\ UNCHANGED held
      BY <1>3, <2>1 DEF Returned, StateAnswered, Await, Hold, CircuitTypeOK
    <2> QED
      BY <1>1, <1>3, <2>2, Zenon
  <1>4. CASE /\ step[r] \in {"lock", "release"} /\ EndCheck(r)
             /\ \/ guard' = IF guard = r THEN "orphan" ELSE guard
                \/ step[r] = "lock" /\ guard = "free" /\ guard' = "orphan"
             /\ UNCHANGED <<keys, stray, muddled, pending, announced, overtaken>>
    BY <1>1, <1>4 DEF news
  <1> QED
    BY <1>2, <1>3, <1>4, Zenon DEF CommandFails

\* Every step keeps the types.
LEMMA TypeStep ==
    ASSUME CircuitTypeOK, [CircuitNext]_circuitVars
    PROVE  CircuitTypeOK'
  <1> USE CircuitAssumption
     DEF CircuitTypeOK, keys, news, Await, Hold, EndCheck, Transitioning, Ages, NoStamp,
         Modes
  <1>1. ASSUME NEW r \in Replicas, BeginCheck(r) PROVE CircuitTypeOK'
    BY <1>1 DEF BeginCheck
  <1>2. ASSUME NEW r \in Replicas, GetCircuitState(r) PROVE CircuitTypeOK'
    BY <1>2 DEF GetCircuitState, StateAnswered
  <1>3. ASSUME NEW r \in Replicas, GetOpenedAt(r) PROVE CircuitTypeOK'
    <2>1. CASE Await(r, "fallback") /\ UNCHANGED <<held, overtaken>>
      BY <1>3, <2>1, StampRead
    <2>2. CASE EndCheck(r) /\ UNCHANGED overtaken
      BY <1>3, <2>2, StampRead
    <2>3. CASE stamp = Cooldown + 1 /\ Decide(r, "HALF_OPEN")
      BY <1>3, <2>3, StampRead DEF Decide
    <2> QED
      BY <1>3, <2>1, <2>2, <2>3, StampRead, Zenon
  <1>4. ASSUME NEW r \in Replicas, RecordOpenedAt(r) PROVE CircuitTypeOK'
    BY <1>4 DEF RecordOpenedAt, StampNow, StateAnswered
  <1>5. ASSUME NEW r \in Replicas, Compare(r) PROVE CircuitTypeOK'
    BY <1>5 DEF Compare, Returned, StateAnswered
  <1>6. ASSUME NEW r \in Replicas, SetCircuitState(r) PROVE CircuitTypeOK'
    BY <1>6, ModeWritten DEF SetCircuitState
  <1>7. ASSUME NEW r \in Replicas, WriteOpenedAt(r) PROVE CircuitTypeOK'
    BY <1>7 DEF WriteOpenedAt, Emit, Returned, StateAnswered, HasRoom
  <1>8. ASSUME NEW r \in Replicas, LockCheck(r) PROVE CircuitTypeOK'
    BY <1>8 DEF LockCheck
  <1>9. ASSUME NEW r \in Replicas, MoveCircuit(r) PROVE CircuitTypeOK'
    BY <1>9 DEF MoveCircuit, Decide
  <1>10. ASSUME NEW r \in Replicas, UnlockCheck(r) PROVE CircuitTypeOK'
    BY <1>10 DEF UnlockCheck
  <1>11. ASSUME NEW r \in Replicas, CommandFails(r) PROVE CircuitTypeOK'
    <2>1. CASE /\ step[r] \in {"getState", "getStamp", "fallback"}
               /\ Await(r, "lock") /\ Hold(r, "CLOSED")
               /\ UNCHANGED <<keys, stray, news, overtaken, guard>>
      BY <1>11, <2>1, Failed
    <2>4. CASE /\ step[r] = "fallback" /\ StampNow
               /\ Await(r, "lock") /\ Hold(r, "CLOSED")
               /\ UNCHANGED <<news, overtaken, guard>>
      <3>1. stray' \in BOOLEAN
        <4>1. stray \in BOOLEAN /\ (mode # "OPEN") \in BOOLEAN
          OBVIOUS
        <4>2. stray' = (stray \/ mode # "OPEN")
          BY <2>4, Zenon DEF StampNow
        <4> QED
          BY <4>1, <4>2
      <3>2. stamp' \in Ages /\ UNCHANGED <<mode, opening>>
        BY <2>4 DEF StampNow
      <3>3. glitches' \in 0..Glitches
        BY <1>11, Failed
      <3>4. step' = [step EXCEPT ![r] = "lock"] /\ held' = [held EXCEPT ![r] = "CLOSED"]
        BY <2>4
      <3> QED
        BY <2>4, <3>1, <3>2, <3>3, <3>4
    <2>2. CASE /\ Transitioning(r) /\ Cut(r) /\ UNCHANGED guard
               /\ \/ held[r] = "HALF_OPEN" /\ Await(r, "lock") /\ UNCHANGED held
                  \/ held[r] # "HALF_OPEN" /\ Await(r, "release") /\ UNCHANGED held
      <3>1. CASE step[r] = "setState" /\ WriteMode(r)
        BY <1>11, <2>2, <3>1, Failed, CutShort, ModeWritten
      <3>2. CASE UNCHANGED <<mode, opening, overtaken>>
        BY <1>11, <2>2, <3>2, Failed, CutShort
      <3> QED
        BY <2>2, <3>1, <3>2, CutShort, Zenon
    <2>3. CASE /\ step[r] \in {"lock", "release"} /\ EndCheck(r)
               /\ \/ guard' = IF guard = r THEN "orphan" ELSE guard
                  \/ step[r] = "lock" /\ guard = "free" /\ guard' = "orphan"
               /\ UNCHANGED <<keys, stray, news, overtaken>>
      BY <1>11, <2>3, Failed
    <2> QED
      BY <1>11, <2>1, <2>2, <2>3, <2>4, Failed, Zenon
  <1>12. ASSUME NEW r \in Replicas, ReplicaDies(r) PROVE CircuitTypeOK'
    <2>1. CASE step[r] = "setState" /\ WriteMode(r)
      BY <1>12, <2>1, CutShort, ModeWritten DEF ReplicaDies, Glitch
    <2>2. CASE UNCHANGED <<mode, opening, overtaken>>
      BY <1>12, <2>2, CutShort DEF ReplicaDies, Glitch
    <2> QED
      BY <1>12, <2>1, <2>2, CutShort, Zenon DEF ReplicaDies
  <1>13. CASE StoreAlert
    BY <1>13 DEF StoreAlert
  <1>14. CASE AlertLost
    BY <1>14 DEF AlertLost, Glitch
  <1>15. CASE OrphanedLockExpires
    BY <1>15 DEF OrphanedLockExpires
  <1>16. CASE CircuitClock
    BY <1>16 DEF CircuitClock, Older
  <1>17. CASE UNCHANGED circuitVars
    BY <1>17 DEF circuitVars
  <1> QED
    BY <1>1, <1>2, <1>3, <1>4, <1>5, <1>6, <1>7, <1>8, <1>9, <1>10, <1>11, <1>12, <1>13,
       <1>14, <1>15, <1>16, <1>17
       DEF CircuitNext, CheckStep

\* The lock goes with the transition, and a comparison under it stays true.
LEMMA GuardStep ==
    ASSUME CircuitTypeOK, GuardInv, [CircuitNext]_circuitVars
    PROVE  GuardInv'
  <1> USE CircuitAssumption
     DEF CircuitTypeOK, keys, news, Await, Hold, EndCheck, Transitioning, NoStamp, Modes,
         GuardInv
  <1>1. ASSUME NEW r \in Replicas, BeginCheck(r) PROVE GuardInv'
    BY <1>1 DEF BeginCheck
  <1>2. ASSUME NEW r \in Replicas, GetCircuitState(r) PROVE GuardInv'
    BY <1>2 DEF GetCircuitState, StateAnswered
  <1>3. ASSUME NEW r \in Replicas, GetOpenedAt(r) PROVE GuardInv'
    <2>1. CASE Await(r, "fallback") /\ UNCHANGED <<held, overtaken>>
      BY <1>3, <2>1, StampRead
    <2>2. CASE EndCheck(r) /\ UNCHANGED overtaken
      BY <1>3, <2>2, StampRead
    <2>3. CASE stamp = Cooldown + 1 /\ Decide(r, "HALF_OPEN")
      BY <1>3, <2>3, StampRead DEF Decide
    <2> QED
      BY <1>3, <2>1, <2>2, <2>3, StampRead, Zenon
  <1>4. ASSUME NEW r \in Replicas, RecordOpenedAt(r) PROVE GuardInv'
    BY <1>4 DEF RecordOpenedAt, StampNow, StateAnswered
  <1>5. ASSUME NEW r \in Replicas, Compare(r) PROVE GuardInv'
    BY <1>5 DEF Compare, Returned, StateAnswered
  <1>6. ASSUME NEW r \in Replicas, SetCircuitState(r) PROVE GuardInv'
    BY <1>6, ModeWritten DEF SetCircuitState
  <1>7. ASSUME NEW r \in Replicas, WriteOpenedAt(r) PROVE GuardInv'
    BY <1>7 DEF WriteOpenedAt, Emit, Returned, StateAnswered, HasRoom
  <1>8. ASSUME NEW r \in Replicas, LockCheck(r) PROVE GuardInv'
    BY <1>8 DEF LockCheck
  <1>9. ASSUME NEW r \in Replicas, MoveCircuit(r) PROVE GuardInv'
    BY <1>9 DEF MoveCircuit, Decide
  <1>10. ASSUME NEW r \in Replicas, UnlockCheck(r) PROVE GuardInv'
    BY <1>10 DEF UnlockCheck
  <1>11. ASSUME NEW r \in Replicas, CommandFails(r) PROVE GuardInv'
    <2>1. CASE /\ step[r] \in {"getState", "getStamp", "fallback"}
               /\ Await(r, "lock") /\ Hold(r, "CLOSED")
               /\ UNCHANGED <<keys, stray, news, overtaken, guard>>
      BY <1>11, <2>1, Failed
    <2>4. CASE /\ step[r] = "fallback" /\ StampNow
               /\ Await(r, "lock") /\ Hold(r, "CLOSED")
               /\ UNCHANGED <<news, overtaken, guard>>
      BY <1>11, <2>4, Failed DEF StampNow
    <2>2. CASE /\ Transitioning(r) /\ Cut(r) /\ UNCHANGED guard
               /\ \/ held[r] = "HALF_OPEN" /\ Await(r, "lock") /\ UNCHANGED held
                  \/ held[r] # "HALF_OPEN" /\ Await(r, "release") /\ UNCHANGED held
      <3>1. CASE step[r] = "setState" /\ WriteMode(r)
        BY <1>11, <2>2, <3>1, Failed, CutShort, ModeWritten
      <3>2. CASE UNCHANGED <<mode, opening, overtaken>>
        BY <1>11, <2>2, <3>2, Failed, CutShort
      <3> QED
        BY <2>2, <3>1, <3>2, CutShort, Zenon
    <2>3. CASE /\ step[r] \in {"lock", "release"} /\ EndCheck(r)
               /\ \/ guard' = IF guard = r THEN "orphan" ELSE guard
                  \/ step[r] = "lock" /\ guard = "free" /\ guard' = "orphan"
               /\ UNCHANGED <<keys, stray, news, overtaken>>
      BY <1>11, <2>3, Failed
    <2> QED
      BY <1>11, <2>1, <2>2, <2>3, <2>4, Failed, Zenon
  <1>12. ASSUME NEW r \in Replicas, ReplicaDies(r) PROVE GuardInv'
    <2>1. CASE step[r] = "setState" /\ WriteMode(r)
      BY <1>12, <2>1, CutShort, ModeWritten DEF ReplicaDies, Glitch
    <2>2. CASE UNCHANGED <<mode, opening, overtaken>>
      BY <1>12, <2>2, CutShort DEF ReplicaDies, Glitch
    <2> QED
      BY <1>12, <2>1, <2>2, CutShort, Zenon DEF ReplicaDies
  <1>13. CASE StoreAlert
    BY <1>13 DEF StoreAlert
  <1>14. CASE AlertLost
    BY <1>14 DEF AlertLost, Glitch
  <1>15. CASE OrphanedLockExpires
    BY <1>15 DEF OrphanedLockExpires
  <1>16. CASE CircuitClock
    BY <1>16 DEF CircuitClock, Older
  <1>17. CASE UNCHANGED circuitVars
    BY <1>17 DEF circuitVars
  <1> QED
    BY <1>1, <1>2, <1>3, <1>4, <1>5, <1>6, <1>7, <1>8, <1>9, <1>10, <1>11, <1>12, <1>13,
       <1>14, <1>15, <1>16, <1>17
       DEF CircuitNext, CheckStep

\* Whatever writes a time writes it in an open circuit or marks it as stray.
LEMMA StampStep ==
    ASSUME CircuitTypeOK, GuardInv, StampInv, [CircuitNext]_circuitVars
    PROVE  StampInv'
  <1> USE CircuitAssumption
     DEF CircuitTypeOK, keys, news, Await, Hold, EndCheck, Transitioning, NoStamp, Modes,
         StampInv, Deleting, Ages
  <1>1. ASSUME NEW r \in Replicas, BeginCheck(r) PROVE StampInv'
    BY <1>1 DEF BeginCheck
  <1>2. ASSUME NEW r \in Replicas, GetCircuitState(r) PROVE StampInv'
    BY <1>2 DEF GetCircuitState, StateAnswered
  <1>3. ASSUME NEW r \in Replicas, GetOpenedAt(r) PROVE StampInv'
    <2>1. CASE Await(r, "fallback") /\ UNCHANGED <<held, overtaken>>
      BY <1>3, <2>1, StampRead
    <2>2. CASE EndCheck(r) /\ UNCHANGED overtaken
      BY <1>3, <2>2, StampRead
    <2>3. CASE stamp = Cooldown + 1 /\ Decide(r, "HALF_OPEN")
      BY <1>3, <2>3, StampRead DEF Decide
    <2> QED
      BY <1>3, <2>1, <2>2, <2>3, StampRead, Zenon
  <1>4. ASSUME NEW r \in Replicas, RecordOpenedAt(r) PROVE StampInv'
    <2>1. stray' \/ mode = "OPEN"
      BY <1>4, Zenon DEF RecordOpenedAt, StampNow
    <2>2. stamp' = 0 /\ UNCHANGED <<mode, opening>>
      BY <1>4 DEF RecordOpenedAt, StampNow
    <2> QED
      BY <2>1, <2>2
  <1>5. ASSUME NEW r \in Replicas, Compare(r) PROVE StampInv'
    BY <1>5 DEF Compare, Returned, StateAnswered
  <1>6. ASSUME NEW r \in Replicas, SetCircuitState(r) PROVE StampInv'
    <2>1. /\ step[r] = "setState" /\ step' = [step EXCEPT ![r] = "setStamp"]
          /\ UNCHANGED <<stamp, held, stray>>
      BY <1>6 DEF SetCircuitState
    <2>2. CASE stamp = NoStamp \/ stray
      BY <2>1, <2>2
    <2>3. CASE \E q \in Replicas : Deleting(q)
      <3>1. PICK q \in Replicas : Deleting(q)
        BY <2>3
      <3>2. Deleting(q)'
        BY <2>1, <3>1
      <3> QED
        BY <3>2
    <2>4. CASE mode = "OPEN" /\ stamp <= opening
      <3>1. held[r] # "OPEN"
        BY <2>1, <2>4 DEF GuardInv
      <3>2. Deleting(r)'
        BY <2>1, <3>1
      <3> QED
        BY <3>2
    <2> QED
      BY <2>2, <2>3, <2>4
  <1>7. ASSUME NEW r \in Replicas, WriteOpenedAt(r) PROVE StampInv'
    <2>1. /\ stamp' = IF held[r] = "OPEN" THEN 0 ELSE NoStamp
          /\ UNCHANGED <<mode, opening>>
      BY <1>7 DEF WriteOpenedAt
    <2>2. stray' \/ held[r] # "OPEN" \/ mode = "OPEN"
      BY <1>7, Zenon DEF WriteOpenedAt
    <2> QED
      BY <2>1, <2>2
  <1>8. ASSUME NEW r \in Replicas, LockCheck(r) PROVE StampInv'
    BY <1>8 DEF LockCheck
  <1>9. ASSUME NEW r \in Replicas, MoveCircuit(r) PROVE StampInv'
    BY <1>9 DEF MoveCircuit, Decide
  <1>10. ASSUME NEW r \in Replicas, UnlockCheck(r) PROVE StampInv'
    BY <1>10 DEF UnlockCheck
  <1>11. ASSUME NEW r \in Replicas, CommandFails(r) PROVE StampInv'
    <2>1. CASE /\ step[r] \in {"getState", "getStamp", "fallback"}
               /\ Await(r, "lock") /\ Hold(r, "CLOSED")
               /\ UNCHANGED <<keys, stray, news, overtaken, guard>>
      BY <1>11, <2>1, Failed
    <2>4. CASE /\ step[r] = "fallback" /\ StampNow
               /\ Await(r, "lock") /\ Hold(r, "CLOSED")
               /\ UNCHANGED <<news, overtaken, guard>>
      <3>1. stray' \/ mode = "OPEN"
        BY <2>4, Zenon DEF StampNow
      <3>2. stamp' = 0 /\ UNCHANGED <<mode, opening>>
        BY <2>4 DEF StampNow
      <3> QED
        BY <3>1, <3>2
    <2>2. CASE /\ Transitioning(r) /\ Cut(r) /\ UNCHANGED guard
               /\ \/ held[r] = "HALF_OPEN" /\ Await(r, "lock") /\ UNCHANGED held
                  \/ held[r] # "HALF_OPEN" /\ Await(r, "release") /\ UNCHANGED held
      <3>1. CASE step[r] = "setState" /\ WriteMode(r)
        BY <1>11, <2>2, <3>1, Failed, CutShort, ModeWritten
      <3>2. CASE UNCHANGED <<mode, opening, overtaken>>
        BY <1>11, <2>2, <3>2, Failed, CutShort
      <3> QED
        BY <2>2, <3>1, <3>2, CutShort, Zenon
    <2>3. CASE /\ step[r] \in {"lock", "release"} /\ EndCheck(r)
               /\ \/ guard' = IF guard = r THEN "orphan" ELSE guard
                  \/ step[r] = "lock" /\ guard = "free" /\ guard' = "orphan"
               /\ UNCHANGED <<keys, stray, news, overtaken>>
      BY <1>11, <2>3, Failed
    <2> QED
      BY <1>11, <2>1, <2>2, <2>3, <2>4, Failed, Zenon
  <1>12. ASSUME NEW r \in Replicas, ReplicaDies(r) PROVE StampInv'
    <2>1. CASE step[r] = "setState" /\ WriteMode(r)
      BY <1>12, <2>1, CutShort, ModeWritten DEF ReplicaDies, Glitch
    <2>2. CASE UNCHANGED <<mode, opening, overtaken>>
      BY <1>12, <2>2, CutShort DEF ReplicaDies, Glitch
    <2> QED
      BY <1>12, <2>1, <2>2, CutShort, Zenon DEF ReplicaDies
  <1>13. CASE StoreAlert
    BY <1>13 DEF StoreAlert
  <1>14. CASE AlertLost
    BY <1>14 DEF AlertLost, Glitch
  <1>15. CASE OrphanedLockExpires
    BY <1>15 DEF OrphanedLockExpires
  <1>16. CASE CircuitClock
    BY <1>16 DEF CircuitClock, Older
  <1>17. CASE UNCHANGED circuitVars
    BY <1>17 DEF circuitVars
  <1> QED
    BY <1>1, <1>2, <1>3, <1>4, <1>5, <1>6, <1>7, <1>8, <1>9, <1>10, <1>11, <1>12, <1>13,
       <1>14, <1>15, <1>16, <1>17
       DEF CircuitNext, CheckStep

\* A decision is outdated only by another replica's SET of the state key.
LEMMA HalfOpenStep ==
    ASSUME CircuitTypeOK, StampInv, HalfOpenInv, [CircuitNext]_circuitVars
    PROVE  HalfOpenInv'
  <1> USE CircuitAssumption
     DEF CircuitTypeOK, keys, news, Await, Hold, EndCheck, Transitioning, NoStamp, Modes,
         HalfOpenInv
  <1>1. ASSUME NEW r \in Replicas, BeginCheck(r) PROVE HalfOpenInv'
    BY <1>1 DEF BeginCheck
  <1>2. ASSUME NEW r \in Replicas, GetCircuitState(r) PROVE HalfOpenInv'
    BY <1>2 DEF GetCircuitState, StateAnswered
  <1>3. ASSUME NEW r \in Replicas, GetOpenedAt(r) PROVE HalfOpenInv'
    <2>1. CASE Await(r, "fallback") /\ UNCHANGED <<held, overtaken>>
      BY <1>3, <2>1, StampRead
    <2>2. CASE EndCheck(r) /\ UNCHANGED overtaken
      BY <1>3, <2>2, StampRead
    <2>3. CASE stamp = Cooldown + 1 /\ Decide(r, "HALF_OPEN")
      <3>1. opening > Cooldown \/ stray \/ \E q \in Replicas \ {r} : Deleting(q)
        BY <1>3, <2>3, StampRead DEF StampInv, Deleting, Ages
      <3>2. /\ overtaken'[r] = \E q \in Replicas \ {r} : step[q] = "setStamp" /\ held[q] # "OPEN"
            /\ \A q \in Replicas \ {r} : overtaken'[q] = overtaken[q]
        BY <2>3, Decided
      <3>3. opening > Cooldown \/ stray \/ overtaken'[r]
        BY <3>1, <3>2, Zenon DEF Deleting
      <3>4. UNCHANGED <<opening, stray>> /\ Hold(r, "HALF_OPEN") /\ Await(r, "compare")
        BY <1>3, <2>3, StampRead, Decided DEF keys
      <3>5. ASSUME NEW q \in Replicas \ {r}, step'[q] \in {"compare", "setState"},
                   held'[q] = "HALF_OPEN"
            PROVE  opening > Cooldown \/ overtaken'[q] \/ stray
        BY <3>2, <3>4, <3>5 DEF HalfOpenInv
      <3> QED
        BY <3>3, <3>4, <3>5 DEF HalfOpenInv
    <2> QED
      BY <1>3, <2>1, <2>2, <2>3, StampRead, Zenon
  <1>4. ASSUME NEW r \in Replicas, RecordOpenedAt(r) PROVE HalfOpenInv'
    BY <1>4 DEF RecordOpenedAt, StampNow, StateAnswered
  <1>5. ASSUME NEW r \in Replicas, Compare(r) PROVE HalfOpenInv'
    BY <1>5 DEF Compare, Returned, StateAnswered
  <1>6. ASSUME NEW r \in Replicas, SetCircuitState(r) PROVE HalfOpenInv'
    BY <1>6, ModeWritten DEF SetCircuitState
  <1>7. ASSUME NEW r \in Replicas, WriteOpenedAt(r) PROVE HalfOpenInv'
    BY <1>7 DEF WriteOpenedAt, Emit, Returned, StateAnswered, HasRoom
  <1>8. ASSUME NEW r \in Replicas, LockCheck(r) PROVE HalfOpenInv'
    BY <1>8 DEF LockCheck
  <1>9. ASSUME NEW r \in Replicas, MoveCircuit(r) PROVE HalfOpenInv'
    BY <1>9 DEF MoveCircuit, Decide
  <1>10. ASSUME NEW r \in Replicas, UnlockCheck(r) PROVE HalfOpenInv'
    BY <1>10 DEF UnlockCheck
  <1>11. ASSUME NEW r \in Replicas, CommandFails(r) PROVE HalfOpenInv'
    <2>1. CASE /\ step[r] \in {"getState", "getStamp", "fallback"}
               /\ Await(r, "lock") /\ Hold(r, "CLOSED")
               /\ UNCHANGED <<keys, stray, news, overtaken, guard>>
      BY <1>11, <2>1, Failed
    <2>4. CASE /\ step[r] = "fallback" /\ StampNow
               /\ Await(r, "lock") /\ Hold(r, "CLOSED")
               /\ UNCHANGED <<news, overtaken, guard>>
      BY <1>11, <2>4, Failed DEF StampNow
    <2>2. CASE /\ Transitioning(r) /\ Cut(r) /\ UNCHANGED guard
               /\ \/ held[r] = "HALF_OPEN" /\ Await(r, "lock") /\ UNCHANGED held
                  \/ held[r] # "HALF_OPEN" /\ Await(r, "release") /\ UNCHANGED held
      <3>1. CASE step[r] = "setState" /\ WriteMode(r)
        BY <1>11, <2>2, <3>1, Failed, CutShort, ModeWritten
      <3>2. CASE UNCHANGED <<mode, opening, overtaken>>
        BY <1>11, <2>2, <3>2, Failed, CutShort
      <3> QED
        BY <2>2, <3>1, <3>2, CutShort, Zenon
    <2>3. CASE /\ step[r] \in {"lock", "release"} /\ EndCheck(r)
               /\ \/ guard' = IF guard = r THEN "orphan" ELSE guard
                  \/ step[r] = "lock" /\ guard = "free" /\ guard' = "orphan"
               /\ UNCHANGED <<keys, stray, news, overtaken>>
      BY <1>11, <2>3, Failed
    <2> QED
      BY <1>11, <2>1, <2>2, <2>3, <2>4, Failed, Zenon
  <1>12. ASSUME NEW r \in Replicas, ReplicaDies(r) PROVE HalfOpenInv'
    <2>1. CASE step[r] = "setState" /\ WriteMode(r)
      BY <1>12, <2>1, CutShort, ModeWritten DEF ReplicaDies, Glitch
    <2>2. CASE UNCHANGED <<mode, opening, overtaken>>
      BY <1>12, <2>2, CutShort DEF ReplicaDies, Glitch
    <2> QED
      BY <1>12, <2>1, <2>2, CutShort, Zenon DEF ReplicaDies
  <1>13. CASE StoreAlert
    BY <1>13 DEF StoreAlert
  <1>14. CASE AlertLost
    BY <1>14 DEF AlertLost, Glitch
  <1>15. CASE OrphanedLockExpires
    BY <1>15 DEF OrphanedLockExpires
  <1>16. CASE CircuitClock
    BY <1>16 DEF CircuitClock, Older
  <1>17. CASE UNCHANGED circuitVars
    BY <1>17 DEF circuitVars
  <1> QED
    BY <1>1, <1>2, <1>3, <1>4, <1>5, <1>6, <1>7, <1>8, <1>9, <1>10, <1>11, <1>12, <1>13,
       <1>14, <1>15, <1>16, <1>17
       DEF CircuitNext, CheckStep

\* A SET outdates every other transition between its keys.
LEMMA WrittenStep ==
    ASSUME CircuitTypeOK, WrittenInv, [CircuitNext]_circuitVars
    PROVE  WrittenInv'
  <1> USE CircuitAssumption
     DEF CircuitTypeOK, keys, news, Await, Hold, EndCheck, Transitioning, NoStamp, Modes,
         WrittenInv
  <1>1. ASSUME NEW r \in Replicas, BeginCheck(r) PROVE WrittenInv'
    BY <1>1 DEF BeginCheck
  <1>2. ASSUME NEW r \in Replicas, GetCircuitState(r) PROVE WrittenInv'
    BY <1>2 DEF GetCircuitState, StateAnswered
  <1>3. ASSUME NEW r \in Replicas, GetOpenedAt(r) PROVE WrittenInv'
    <2>1. CASE Await(r, "fallback") /\ UNCHANGED <<held, overtaken>>
      BY <1>3, <2>1, StampRead
    <2>2. CASE EndCheck(r) /\ UNCHANGED overtaken
      BY <1>3, <2>2, StampRead
    <2>3. CASE stamp = Cooldown + 1 /\ Decide(r, "HALF_OPEN")
      BY <1>3, <2>3, StampRead DEF Decide
    <2> QED
      BY <1>3, <2>1, <2>2, <2>3, StampRead, Zenon
  <1>4. ASSUME NEW r \in Replicas, RecordOpenedAt(r) PROVE WrittenInv'
    BY <1>4 DEF RecordOpenedAt, StampNow, StateAnswered
  <1>5. ASSUME NEW r \in Replicas, Compare(r) PROVE WrittenInv'
    BY <1>5 DEF Compare, Returned, StateAnswered
  <1>6. ASSUME NEW r \in Replicas, SetCircuitState(r) PROVE WrittenInv'
    BY <1>6, ModeWritten DEF SetCircuitState
  <1>7. ASSUME NEW r \in Replicas, WriteOpenedAt(r) PROVE WrittenInv'
    BY <1>7 DEF WriteOpenedAt, Emit, Returned, StateAnswered, HasRoom
  <1>8. ASSUME NEW r \in Replicas, LockCheck(r) PROVE WrittenInv'
    BY <1>8 DEF LockCheck
  <1>9. ASSUME NEW r \in Replicas, MoveCircuit(r) PROVE WrittenInv'
    BY <1>9 DEF MoveCircuit, Decide
  <1>10. ASSUME NEW r \in Replicas, UnlockCheck(r) PROVE WrittenInv'
    BY <1>10 DEF UnlockCheck
  <1>11. ASSUME NEW r \in Replicas, CommandFails(r) PROVE WrittenInv'
    <2>1. CASE /\ step[r] \in {"getState", "getStamp", "fallback"}
               /\ Await(r, "lock") /\ Hold(r, "CLOSED")
               /\ UNCHANGED <<keys, stray, news, overtaken, guard>>
      BY <1>11, <2>1, Failed
    <2>4. CASE /\ step[r] = "fallback" /\ StampNow
               /\ Await(r, "lock") /\ Hold(r, "CLOSED")
               /\ UNCHANGED <<news, overtaken, guard>>
      BY <1>11, <2>4, Failed DEF StampNow
    <2>2. CASE /\ Transitioning(r) /\ Cut(r) /\ UNCHANGED guard
               /\ \/ held[r] = "HALF_OPEN" /\ Await(r, "lock") /\ UNCHANGED held
                  \/ held[r] # "HALF_OPEN" /\ Await(r, "release") /\ UNCHANGED held
      <3>1. CASE step[r] = "setState" /\ WriteMode(r)
        BY <1>11, <2>2, <3>1, Failed, CutShort, ModeWritten
      <3>2. CASE UNCHANGED <<mode, opening, overtaken>>
        BY <1>11, <2>2, <3>2, Failed, CutShort
      <3> QED
        BY <2>2, <3>1, <3>2, CutShort, Zenon
    <2>3. CASE /\ step[r] \in {"lock", "release"} /\ EndCheck(r)
               /\ \/ guard' = IF guard = r THEN "orphan" ELSE guard
                  \/ step[r] = "lock" /\ guard = "free" /\ guard' = "orphan"
               /\ UNCHANGED <<keys, stray, news, overtaken>>
      BY <1>11, <2>3, Failed
    <2> QED
      BY <1>11, <2>1, <2>2, <2>3, <2>4, Failed, Zenon
  <1>12. ASSUME NEW r \in Replicas, ReplicaDies(r) PROVE WrittenInv'
    <2>1. CASE step[r] = "setState" /\ WriteMode(r)
      BY <1>12, <2>1, CutShort, ModeWritten DEF ReplicaDies, Glitch
    <2>2. CASE UNCHANGED <<mode, opening, overtaken>>
      BY <1>12, <2>2, CutShort DEF ReplicaDies, Glitch
    <2> QED
      BY <1>12, <2>1, <2>2, CutShort, Zenon DEF ReplicaDies
  <1>13. CASE StoreAlert
    BY <1>13 DEF StoreAlert
  <1>14. CASE AlertLost
    BY <1>14 DEF AlertLost, Glitch
  <1>15. CASE OrphanedLockExpires
    BY <1>15 DEF OrphanedLockExpires
  <1>16. CASE CircuitClock
    BY <1>16 DEF CircuitClock, Older
  <1>17. CASE UNCHANGED circuitVars
    BY <1>17 DEF circuitVars
  <1> QED
    BY <1>1, <1>2, <1>3, <1>4, <1>5, <1>6, <1>7, <1>8, <1>9, <1>10, <1>11, <1>12, <1>13,
       <1>14, <1>15, <1>16, <1>17
       DEF CircuitNext, CheckStep

\* An event follows its own SET, beside no other unless that is marked.
LEMMA ToldStep ==
    ASSUME CircuitTypeOK, WrittenInv, ToldInv, [CircuitNext]_circuitVars
    PROVE  ToldInv'
  <1> USE CircuitAssumption
     DEF CircuitTypeOK, keys, news, Await, Hold, EndCheck, Transitioning, NoStamp, Modes,
         ToldInv
  <1>1. ASSUME NEW r \in Replicas, BeginCheck(r) PROVE ToldInv'
    BY <1>1 DEF BeginCheck
  <1>2. ASSUME NEW r \in Replicas, GetCircuitState(r) PROVE ToldInv'
    BY <1>2 DEF GetCircuitState, StateAnswered
  <1>3. ASSUME NEW r \in Replicas, GetOpenedAt(r) PROVE ToldInv'
    <2>1. CASE Await(r, "fallback") /\ UNCHANGED <<held, overtaken>>
      BY <1>3, <2>1, StampRead
    <2>2. CASE EndCheck(r) /\ UNCHANGED overtaken
      BY <1>3, <2>2, StampRead
    <2>3. CASE stamp = Cooldown + 1 /\ Decide(r, "HALF_OPEN")
      BY <1>3, <2>3, StampRead DEF Decide
    <2> QED
      BY <1>3, <2>1, <2>2, <2>3, StampRead, Zenon
  <1>4. ASSUME NEW r \in Replicas, RecordOpenedAt(r) PROVE ToldInv'
    BY <1>4 DEF RecordOpenedAt, StampNow, StateAnswered
  <1>5. ASSUME NEW r \in Replicas, Compare(r) PROVE ToldInv'
    BY <1>5 DEF Compare, Returned, StateAnswered
  <1>6. ASSUME NEW r \in Replicas, SetCircuitState(r) PROVE ToldInv'
    BY <1>6, ModeWritten DEF SetCircuitState
  <1>7. ASSUME NEW r \in Replicas, WriteOpenedAt(r) PROVE ToldInv'
    <2>1. SUFFICES ASSUME ~muddled', \A q \in Replicas : step'[q] # "setStamp"
                   PROVE  /\ \A m \in Modes \ {mode'} : pending'[m] = 0
                          /\ pending'[mode'] \in {0, 1}
                          /\ pending'[mode'] = 0 => announced' = mode'
      BY Zenon DEF ToldInv
    <2>2. ~overtaken[r] /\ \A m \in Modes : ~(pending[m] > 0)
      BY <1>7, <2>1, Zenon DEF WriteOpenedAt, Emit
    <2>3. mode' = mode /\ step[r] = "setStamp" /\ pending' = [pending EXCEPT ![held[r]] = @ + 1]
      BY <1>7 DEF WriteOpenedAt, Emit
    <2>4. mode = held[r]
      BY <2>2, <2>3 DEF WrittenInv
    <2>5. \A m \in Modes : pending[m] = 0
      BY <2>2
    <2> QED
      BY <2>3, <2>4, <2>5
  <1>8. ASSUME NEW r \in Replicas, LockCheck(r) PROVE ToldInv'
    BY <1>8 DEF LockCheck
  <1>9. ASSUME NEW r \in Replicas, MoveCircuit(r) PROVE ToldInv'
    BY <1>9 DEF MoveCircuit, Decide
  <1>10. ASSUME NEW r \in Replicas, UnlockCheck(r) PROVE ToldInv'
    BY <1>10 DEF UnlockCheck
  <1>11. ASSUME NEW r \in Replicas, CommandFails(r) PROVE ToldInv'
    <2>1. CASE /\ step[r] \in {"getState", "getStamp", "fallback"}
               /\ Await(r, "lock") /\ Hold(r, "CLOSED")
               /\ UNCHANGED <<keys, stray, news, overtaken, guard>>
      BY <1>11, <2>1, Failed
    <2>4. CASE /\ step[r] = "fallback" /\ StampNow
               /\ Await(r, "lock") /\ Hold(r, "CLOSED")
               /\ UNCHANGED <<news, overtaken, guard>>
      BY <1>11, <2>4, Failed DEF StampNow
    <2>2. CASE /\ Transitioning(r) /\ Cut(r) /\ UNCHANGED guard
               /\ \/ held[r] = "HALF_OPEN" /\ Await(r, "lock") /\ UNCHANGED held
                  \/ held[r] # "HALF_OPEN" /\ Await(r, "release") /\ UNCHANGED held
      <3>1. CASE step[r] = "setState" /\ WriteMode(r)
        BY <1>11, <2>2, <3>1, Failed, CutShort, ModeWritten
      <3>2. CASE UNCHANGED <<mode, opening, overtaken>>
        BY <1>11, <2>2, <3>2, Failed, CutShort
      <3> QED
        BY <2>2, <3>1, <3>2, CutShort, Zenon
    <2>3. CASE /\ step[r] \in {"lock", "release"} /\ EndCheck(r)
               /\ \/ guard' = IF guard = r THEN "orphan" ELSE guard
                  \/ step[r] = "lock" /\ guard = "free" /\ guard' = "orphan"
               /\ UNCHANGED <<keys, stray, news, overtaken>>
      BY <1>11, <2>3, Failed
    <2> QED
      BY <1>11, <2>1, <2>2, <2>3, <2>4, Failed, Zenon
  <1>12. ASSUME NEW r \in Replicas, ReplicaDies(r) PROVE ToldInv'
    <2>1. CASE step[r] = "setState" /\ WriteMode(r)
      BY <1>12, <2>1, CutShort, ModeWritten DEF ReplicaDies, Glitch
    <2>2. CASE UNCHANGED <<mode, opening, overtaken>>
      BY <1>12, <2>2, CutShort DEF ReplicaDies, Glitch
    <2> QED
      BY <1>12, <2>1, <2>2, CutShort, Zenon DEF ReplicaDies
  <1>13. CASE StoreAlert
    BY <1>13 DEF StoreAlert
  <1>14. CASE AlertLost
    BY <1>14 DEF AlertLost, Glitch
  <1>15. CASE OrphanedLockExpires
    BY <1>15 DEF OrphanedLockExpires
  <1>16. CASE CircuitClock
    BY <1>16 DEF CircuitClock, Older
  <1>17. CASE UNCHANGED circuitVars
    BY <1>17 DEF circuitVars
  <1> QED
    BY <1>1, <1>2, <1>3, <1>4, <1>5, <1>6, <1>7, <1>8, <1>9, <1>10, <1>11, <1>12, <1>13,
       <1>14, <1>15, <1>16, <1>17
       DEF CircuitNext, CheckStep

------------------------------------------------------------------------------
LEMMA InitCircuitInv == CircuitInit => CircuitInv
  <1> SUFFICES ASSUME CircuitInit PROVE CircuitInv
    OBVIOUS
  <1> USE DEF CircuitInit
  <1>1. CircuitTypeOK
    <2>1. overtaken \in [Replicas -> BOOLEAN] /\ stray \in BOOLEAN /\ muddled \in BOOLEAN
      BY Zenon
    <2>2. pending \in [Modes -> 0..MaxPending]
      BY CircuitAssumption
    <2> QED
      BY <2>1, <2>2, CircuitAssumption DEF CircuitTypeOK, Modes, Ages, NoStamp
  <1>2. GuardInv /\ StampInv /\ HalfOpenInv /\ WrittenInv
    BY DEF GuardInv, StampInv, HalfOpenInv, WrittenInv, Transitioning
  <1>3. ToldInv
    BY DEF ToldInv, Modes
  <1> QED
    BY <1>1, <1>2, <1>3 DEF CircuitInv

\* It holds whatever is fair.
LEMMA CircuitInvHolds == CircuitInit /\ [][CircuitNext]_circuitVars => []CircuitInv
  <1>1. CircuitInv /\ [CircuitNext]_circuitVars => CircuitInv'
    BY TypeStep, GuardStep, StampStep, HalfOpenStep, WrittenStep, ToldStep DEF CircuitInv
  <1> QED
    BY InitCircuitInv, <1>1, PTL

\* For any number of replicas, and whatever fails, every variable of the circuit has
\* its type: in particular no more events are pending than the bound lets through.
THEOREM CircuitIsTyped == CircuitSpec => []CircuitTypeOK
  <1>1. CircuitInv => CircuitTypeOK
    BY DEF CircuitInv
  <1> QED
    BY <1>1, CircuitInvHolds, PTL DEF CircuitSpec

\* For any number of replicas whose commands interleave, and wherever one is cut
\* short, the circuit is half-opened only when its cooldown is over, but for a replica
\* that was overtaken and a time that was left behind.
THEOREM CooldownIsKept == CircuitSpec => CooldownKept
  <1>1. CircuitInv /\ [CircuitNext]_circuitVars =>
            [ \A r \in Replicas :
                step[r] = "setState" /\ mode # "HALF_OPEN" /\ mode' = "HALF_OPEN"
                /\ held[r] = "HALF_OPEN"
                    => opening > Cooldown \/ overtaken[r] \/ stray ]_circuitVars
    BY DEF CircuitInv, HalfOpenInv
  <1> QED
    BY <1>1, CircuitInvHolds, PTL DEF CircuitSpec, CooldownKept

\* For any number of replicas and of handlers at once, when no handler and no
\* transition is under way the last alert that was stored tells the state of the
\* circuit, unless events overlapped or one was lost.
THEOREM LastAlertTellsState == CircuitSpec => []AlertsTellState
  <1>1. CircuitInv => AlertsTellState
    BY DEF CircuitInv, CircuitTypeOK, ToldInv, AlertsTellState, Transitioning
  <1> QED
    BY <1>1, CircuitInvHolds, PTL DEF CircuitSpec

------------------------------------------------------------------------------
(***************************************************************************)
(* Calls that do not overlap.  Between the two keys of a transition nobody  *)
(* looks, so the state key is seen with its old value until opened_at is    *)
(* written too.  That value is gone from Redis: before remembers it.  A     *)
(* replica is in a call from the moment it found the circuit OPEN, or set   *)
(* out to move it, to the last command.                                     *)
(***************************************************************************)
VARIABLE before

Remembered ==
    /\ before = "CLOSED"
    /\ [][before' = IF mode' # mode THEN mode ELSE before]_<<circuitVars, before>>

BetweenKeys == \E q \in Replicas : step[q] = "setStamp"
SeenMode == IF BetweenKeys THEN before ELSE mode
SeenStamp == IF stamp = NoStamp THEN "none" ELSE IF stamp = Cooldown + 1 THEN "old" ELSE "fresh"

Keys == INSTANCE CircuitKeys WITH circuit <- SeenMode, openedAt <- SeenStamp

Calling(r) == step[r] \in {"getStamp", "fallback", "compare", "setState", "setStamp"}

\* What a replica has read during a call is still in the keys.
CallInv(r) ==
    /\ before \in Modes
    /\ step[r] \in {"getStamp", "fallback"} => mode = "OPEN"
    /\ step[r] = "fallback" => stamp = NoStamp
    /\ step[r] \in {"compare", "setState"} /\ held[r] = "HALF_OPEN" =>
           mode = "OPEN" /\ stamp = Cooldown + 1
    /\ step[r] = "setState" => mode # held[r]
    /\ step[r] = "setStamp" =>
        /\ mode = held[r] /\ before # mode
        /\ held[r] = "HALF_OPEN" => before = "OPEN" /\ stamp = Cooldown + 1

\* A step of one replica leaves the checks of the others where they are, and its own
\* check between two calls of the breaker leaves the keys alone.
LEMMA OtherReplicas ==
    ASSUME CircuitTypeOK, NEW r \in Replicas,
           BeginCheck(r) \/ CheckStep(r) \/ CommandFails(r) \/ ReplicaDies(r)
    PROVE  /\ \A q \in Replicas \ {r} : step'[q] = step[q] /\ held'[q] = held[q]
           /\ ~Calling(r) => UNCHANGED <<mode, stamp>>
  <1> USE DEF CircuitTypeOK, Calling, keys, Await, Hold, EndCheck, Transitioning
  <1>1. CASE BeginCheck(r)
    BY <1>1 DEF BeginCheck
  <1>2. CASE GetCircuitState(r)
    BY <1>2 DEF GetCircuitState, StateAnswered
  <1>3. CASE GetOpenedAt(r)
    <2>1. CASE Decide(r, "HALF_OPEN")
      BY <1>3, <2>1, StampRead DEF Decide
    <2> QED
      BY <1>3, <2>1, StampRead
  <1>4. CASE RecordOpenedAt(r)
    BY <1>4 DEF RecordOpenedAt, StampNow, StateAnswered
  <1>5. CASE Compare(r)
    BY <1>5 DEF Compare, Returned, StateAnswered
  <1>6. CASE SetCircuitState(r)
    BY <1>6 DEF SetCircuitState
  <1>7. CASE WriteOpenedAt(r)
    BY <1>7 DEF WriteOpenedAt, Returned, StateAnswered
  <1>8. CASE LockCheck(r)
    BY <1>8 DEF LockCheck
  <1>9. CASE MoveCircuit(r)
    BY <1>9 DEF MoveCircuit, Decide
  <1>10. CASE UnlockCheck(r)
    BY <1>10 DEF UnlockCheck
  <1>11. CASE CommandFails(r)
    BY <1>11, Failed
  <1>12. CASE ReplicaDies(r)
    BY <1>12, CutShort DEF ReplicaDies
  <1> QED
    BY <1>1, <1>2, <1>3, <1>4, <1>5, <1>6, <1>7, <1>8, <1>9, <1>10, <1>11, <1>12 DEF CheckStep

\* A step of a replica, while no other is between the keys, is one of a whole call or
\* leaves the keys as they are seen.
LEMMA CallStep ==
    ASSUME NEW r \in Replicas, CircuitTypeOK, CircuitTypeOK', CallInv(r),
           \A q \in Replicas \ {r} : step[q] # "setStamp",
           BeginCheck(r) \/ CheckStep(r) \/ CommandFails(r) \/ ReplicaDies(r),
           before' = IF mode' # mode THEN mode ELSE before
    PROVE  /\ CallInv(r)'
           /\ \/ UNCHANGED <<SeenMode, SeenStamp>>
              \/ Keys!RecordMissing
              \/ \E m \in Modes : Keys!Move(m)
  <1>14. /\ SeenMode = IF step[r] = "setStamp" THEN before ELSE mode
         /\ SeenMode' = IF step'[r] = "setStamp" THEN before' ELSE mode'
    BY OtherReplicas DEF SeenMode, BetweenKeys
  <1> USE <1>14, CircuitAssumption
      DEF CircuitTypeOK, CallInv, SeenStamp, keys, news, Await, Hold,
          EndCheck, Transitioning, Ages, NoStamp, Modes
  <1>1. CASE BeginCheck(r)
    BY <1>1 DEF BeginCheck
  <1>2. CASE GetCircuitState(r)
    BY <1>2 DEF GetCircuitState, StateAnswered
  <1>3. CASE GetOpenedAt(r)
    <2>1. CASE Await(r, "fallback") /\ stamp = NoStamp /\ UNCHANGED <<held, overtaken>>
      BY <1>3, <2>1 DEF GetOpenedAt
    <2>2. CASE EndCheck(r) /\ UNCHANGED overtaken
      BY <1>3, <2>2 DEF GetOpenedAt
    <2>3. CASE stamp = Cooldown + 1 /\ Decide(r, "HALF_OPEN")
      <3>1. step[r] = "getStamp" /\ mode = "OPEN" /\ UNCHANGED <<mode, stamp>>
        BY <1>3, StampRead
      <3>2. step'[r] = "compare" /\ held'[r] = "HALF_OPEN"
        <4>1. Hold(r, "HALF_OPEN") /\ Await(r, "compare")
          BY <2>3, Zenon DEF Decide
        <4> QED
          BY <4>1
      <3> QED
        BY <2>3, <3>1, <3>2
    <2> QED
      BY <1>3, <2>1, <2>2, <2>3, StampRead, Zenon
  <1>4. CASE RecordOpenedAt(r)
    BY <1>4 DEF RecordOpenedAt, StampNow, StateAnswered, Keys!RecordMissing
  <1>5. CASE Compare(r)
    BY <1>5 DEF Compare, Returned, StateAnswered
  <1>6. CASE SetCircuitState(r)
    BY <1>6, ModeWritten DEF SetCircuitState
  <1>0. PICK m \in Modes : m = held[r]
    OBVIOUS
  <1>7. CASE WriteOpenedAt(r)
    <2>1. Keys!Transition(m)
      <3>1. /\ step[r] = "setStamp" /\ step'[r] # "setStamp" /\ mode = held[r] /\ before # held[r]
            /\ mode' = mode /\ stamp' = IF held[r] = "OPEN" THEN 0 ELSE NoStamp
        BY <1>7 DEF WriteOpenedAt, Returned, StateAnswered
      <3>2. SeenStamp' = IF held[r] = "OPEN" THEN "fresh" ELSE "none"
        BY <3>1
      <3> QED
        BY <1>0, <3>1, <3>2 DEF Keys!Transition
    <2>2. m = "HALF_OPEN" => Keys!CooledDown
      BY <1>0, <1>7 DEF WriteOpenedAt, Keys!CooledDown
    <2>3. CallInv(r)'
      BY <1>7 DEF WriteOpenedAt, Returned, StateAnswered
    <2> QED
      <3>1. Keys!Move(m)
        BY <2>1, <2>2 DEF Keys!Move
      <3> QED
        BY <2>3, <3>1
  <1>8. CASE LockCheck(r)
    BY <1>8 DEF LockCheck
  <1>9. CASE MoveCircuit(r)
    BY <1>9 DEF MoveCircuit, Decide
  <1>10. CASE UnlockCheck(r)
    BY <1>10 DEF UnlockCheck
  <1>11. CASE CommandFails(r) \/ ReplicaDies(r)
    <2>1. CASE Transitioning(r)
      <3>1. /\ mode' \in {mode, held[r]} /\ (step[r] # "setState" => mode' = mode)
            /\ stamp' = stamp /\ step'[r] \in {"idle", "lock", "release"}
        <4>1. Cut(r) /\ step'[r] \in {"idle", "lock", "release"}
          BY <1>11, <2>1, Failed DEF ReplicaDies
        <4>2. stamp' = stamp /\ ((step[r] = "setState" /\ WriteMode(r)) \/ mode' = mode)
          BY <4>1, CutShort
        <4> QED
          BY <4>1, <4>2, ModeWritten
      <3>2. CallInv(r)'
        BY <3>1
      <3>3. CASE step[r] \in {"setState", "setStamp"}
        <4>1. Keys!Interrupted(m)
          BY <1>0, <3>1, <3>3 DEF Keys!Interrupted
        <4>2. m = "HALF_OPEN" => Keys!CooledDown
          BY <1>0, <3>3 DEF Keys!CooledDown
        <4>3. Keys!Move(m)
          BY <4>1, <4>2 DEF Keys!Move
        <4> QED
          BY <3>2, <4>3
      <3>4. CASE step[r] = "compare"
        BY <3>1, <3>2, <3>4
      <3> QED
        BY <2>1, <3>3, <3>4
    <2>2. CASE ~Transitioning(r)
      <3>1. step'[r] \in {"idle", "lock"}
        BY <1>11, <2>2 DEF CommandFails, ReplicaDies, StateAnswered
      <3>2. CASE step[r] = "fallback" /\ StampNow
        <4>1. stamp' = 0 /\ mode' = mode
          BY <3>2 DEF StampNow
        <4> QED
          BY <2>2, <3>1, <3>2, <4>1 DEF Keys!RecordMissing
      <3>3. CASE UNCHANGED <<mode, stamp>>
        BY <2>2, <3>1, <3>3
      <3> QED
        BY <1>11, <2>2, <3>2, <3>3, CutShort, Failed DEF ReplicaDies
    <2> QED
      BY <2>1, <2>2
  <1> QED
    BY <1>1, <1>2, <1>3, <1>4, <1>5, <1>6, <1>7, <1>8, <1>9, <1>10, <1>11 DEF CheckStep

\* At most one replica is in a call, and each agrees with the keys as CallInv says.
CallsApart == \A q, r \in Replicas : Calling(q) /\ Calling(r) => q = r
CallsInv == before \in Modes /\ \A r \in Replicas : CallInv(r)

\* A step of a replica that is between two calls cannot be told from the keys.
LEMMA BesideStep ==
    ASSUME CircuitTypeOK, NEW r \in Replicas, ~Calling(r), ~Calling(r)',
           BeginCheck(r) \/ CheckStep(r) \/ CommandFails(r) \/ ReplicaDies(r),
           before' = IF mode' # mode THEN mode ELSE before
    PROVE  UNCHANGED <<mode, stamp, before, SeenMode, SeenStamp>>
  <1>1. UNCHANGED <<mode, stamp, before>>
    BY OtherReplicas
  <1>2. BetweenKeys' = BetweenKeys
    BY OtherReplicas DEF BetweenKeys, Calling
  <1> QED
    BY <1>1, <1>2 DEF SeenMode, SeenStamp

LEMMA CallsStep ==
    ASSUME CircuitTypeOK, CircuitTypeOK', CallsInv, CallsApart, CallsApart', NEW r \in Replicas,
           BeginCheck(r) \/ CheckStep(r) \/ CommandFails(r) \/ ReplicaDies(r),
           before' = IF mode' # mode THEN mode ELSE before
    PROVE  /\ CallsInv'
           /\ \/ UNCHANGED <<SeenMode, SeenStamp>>
              \/ Keys!RecordMissing
              \/ \E m \in Modes : Keys!Move(m)
  <1>1. before' \in Modes
    BY DEF CircuitTypeOK, CallsInv
  <1>2. CASE \A q \in Replicas \ {r} : ~Calling(q)
    <2>1. /\ CallInv(r)'
          /\ \/ UNCHANGED <<SeenMode, SeenStamp>>
             \/ Keys!RecordMissing
             \/ \E m \in Modes : Keys!Move(m)
      BY <1>2, CallStep DEF CallsInv, Calling
    <2>2. ASSUME NEW q \in Replicas, q # r PROVE CallInv(q)'
      <3>1. ~Calling(q)'
        BY <1>2, <2>2, OtherReplicas DEF Calling
      <3> QED
        BY <1>1, <3>1 DEF Calling, CallInv
    <2> QED
      BY <1>1, <2>1, <2>2 DEF CallsInv
  <1>3. ASSUME NEW p \in Replicas, p # r, Calling(p)
        PROVE  CallsInv' /\ UNCHANGED <<SeenMode, SeenStamp>>
    <2>1. ~Calling(r) /\ ~Calling(r)'
      BY <1>3, OtherReplicas DEF CallsApart, Calling
    <2>2. UNCHANGED <<mode, stamp, before, SeenMode, SeenStamp>>
      BY <2>1, BesideStep
    <2>3. ASSUME NEW q \in Replicas PROVE CallInv(q)'
      <3>1. CASE q = r
        BY <1>1, <2>1, <3>1 DEF Calling, CallInv
      <3>2. CASE q # r
        BY <2>2, <3>2, OtherReplicas DEF CallsInv, CallInv
      <3> QED
        BY <3>1, <3>2
    <2> QED
      BY <1>1, <2>2, <2>3 DEF CallsInv
  <1> QED
    BY <1>2, <1>3

\* What moves without a replica: the keys only grow older.
LEMMA ClockStep ==
    ASSUME CircuitTypeOK, CircuitTypeOK', CallsInv,
           \/ StoreAlert \/ AlertLost \/ OrphanedLockExpires \/ CircuitClock
           \/ UNCHANGED circuitVars,
           before' = IF mode' # mode THEN mode ELSE before
    PROVE  CallsInv' /\ (UNCHANGED <<SeenMode, SeenStamp>> \/ Keys!Age)
  <1> USE CircuitAssumption
      DEF CircuitTypeOK, CallsInv, CallInv, BetweenKeys, SeenMode, SeenStamp, keys, Ages, NoStamp,
          Modes
  <1>1. CASE StoreAlert \/ AlertLost \/ OrphanedLockExpires \/ UNCHANGED circuitVars
    BY <1>1 DEF StoreAlert, AlertLost, OrphanedLockExpires, circuitVars
  <1>2. CASE CircuitClock
    <2>1. stamp' = Older(stamp) /\ UNCHANGED <<mode, step, held>>
      BY <1>2 DEF CircuitClock
    <2>2. CallsInv'
      BY <2>1 DEF Older
    <2>3. SeenStamp' = SeenStamp \/ (SeenStamp = "fresh" /\ SeenStamp' = "old")
      BY <2>1 DEF Older
    <2> QED
      BY <2>1, <2>2, <2>3 DEF Keys!Age
  <1> QED
    BY <1>1, <1>2

\* For any number of replicas, any cooldown and any faults: as long as no two replicas are
\* in such a call at once, the commands of getState and transitionTo come to
\* what HealthCheck takes them for: each transition moves both keys at once, or when it
\* is cut the state key at most, and the circuit is half-opened only when it is OPEN and
\* its 60 seconds are over.
THEOREM ApartReplicasMoveAtOnce == CircuitSpec /\ Remembered /\ []CallsApart => Keys!KeysSpec
  <1>1. CircuitInit /\ before = "CLOSED" => CallsInv /\ Keys!KeysInit
    BY CircuitAssumption
       DEF CircuitInit, CallsInv, CallInv, Keys!KeysInit, SeenMode, SeenStamp, BetweenKeys, NoStamp,
           Modes
  <1>2. /\ CircuitInv /\ CircuitInv' /\ CallsInv /\ CallsApart /\ CallsApart'
        /\ [CircuitNext]_circuitVars
        /\ [before' = IF mode' # mode THEN mode ELSE before]_<<circuitVars, before>>
        => CallsInv' /\ [Keys!KeysNext]_(Keys!breaker)
    <2> SUFFICES ASSUME CircuitInv, CircuitInv', CallsInv, CallsApart, CallsApart',
                        [CircuitNext]_circuitVars,
                        [before' = IF mode' # mode THEN mode ELSE before]_<<circuitVars, before>>
                 PROVE  CallsInv' /\ [Keys!KeysNext]_(Keys!breaker)
      OBVIOUS
    <2>1. before' = IF mode' # mode THEN mode ELSE before
      BY DEF circuitVars
    <2>2. CircuitTypeOK /\ CircuitTypeOK'
      BY DEF CircuitInv
    <2>3. \/ \E r \in Replicas : BeginCheck(r) \/ CheckStep(r) \/ CommandFails(r) \/ ReplicaDies(r)
          \/ \/ StoreAlert \/ AlertLost \/ OrphanedLockExpires \/ CircuitClock
             \/ UNCHANGED circuitVars
      BY DEF CircuitNext
    <2> QED
      BY <2>1, <2>2, <2>3, CallsStep, ClockStep
         DEF Keys!KeysNext, Keys!breaker, Keys!CircuitStates, Modes
  <1> QED
    BY <1>1, <1>2, CircuitInvHolds, PTL DEF CircuitSpec, Remembered, Keys!KeysSpec

\* ... as they never do when there is one replica.
THEOREM OneReplicaMovesAtOnce ==
    ASSUME NEW r, Replicas = {r}
    PROVE  CircuitSpec /\ Remembered => Keys!KeysSpec
  <1>1. CallsApart
    BY DEF CallsApart
  <1> QED
    BY <1>1, ApartReplicasMoveAtOnce, PTL

------------------------------------------------------------------------------
\* QueueSync: a round that nothing disturbed is exact.

\* How far a round that nothing has disturbed has come: what it read is still what
\* is wanted; while it removes, the obsolete schedulers with an id are those it has
\* still to remove; while it upserts, none of them is left, and those it has upserted
\* are right.
Progress ==
    \A r \in Syncers : ~stale[r] =>
        /\ phase[r] # "waiting" => found[r] = wanted
        /\ phase[r] = "remove" => todo[r] = (On(scheduled) \intersect identified) \ On(wanted)
        /\ phase[r] = "upsert" => \A s \in Services \ todo[r] : Matched(s)

SyncInv == SyncTypeOK /\ Progress

LEMMA InitSyncInv == SyncInit => SyncInv
  BY SyncAssumption DEF SyncInit, SyncInv, SyncTypeOK, Progress, Table, Nothing

LEMMA NextKeepsTypes == SyncTypeOK /\ [SyncNext]_syncVars => SyncTypeOK'
  <1> SUFFICES ASSUME SyncTypeOK, [SyncNext]_syncVars PROVE SyncTypeOK'
    OBVIOUS
  <1> USE SyncAssumption DEF SyncTypeOK, Table, Proceed, Outdate, Rest, Nothing, On
  <1>1. CASE EditService
    BY <1>1 DEF EditService
  <1>2. ASSUME NEW r \in Syncers, SyncStep(r) PROVE SyncTypeOK'
    <2>1. CASE ReadServices(r)
      BY <2>1 DEF ReadServices
    <2>2. CASE ListSchedulers(r)
      BY <2>2 DEF ListSchedulers
    <2>3. CASE RemoveScheduler(r)
      BY <2>3 DEF RemoveScheduler
    <2>4. CASE BeginUpserts(r)
      BY <2>4 DEF BeginUpserts
    <2>5. CASE UpsertScheduler(r)
      BY <2>5 DEF UpsertScheduler
    <2>6. CASE EndRound(r)
      BY <2>6 DEF EndRound
    <2> QED
      BY <1>2, <2>1, <2>2, <2>3, <2>4, <2>5, <2>6 DEF SyncStep
  <1>3. ASSUME NEW r \in Syncers, RoundCut(r) PROVE SyncTypeOK'
    BY <1>3 DEF RoundCut
  <1>4. CASE UNCHANGED syncVars
    BY <1>4 DEF syncVars
  <1> QED
    BY <1>1, <1>2, <1>3, <1>4 DEF SyncNext

LEMMA StepKeepsProgress ==
    ASSUME SyncInv, NEW r \in Syncers, SyncStep(r)
    PROVE  Progress'
  <1> USE DEF SyncInv, SyncTypeOK, Proceed
  <1>1. CASE ReadServices(r)
    BY <1>1 DEF ReadServices, Progress, Matched
  <1>2. CASE ListSchedulers(r)
    BY <1>2 DEF ListSchedulers, Progress, Matched
  <1>3. CASE RemoveScheduler(r)
    <2>1. PICK s \in todo[r] : /\ scheduled' = [scheduled EXCEPT ![s] = "off"]
                              /\ Proceed(r, "remove", todo[r] \ {s})
      BY <1>3 DEF RemoveScheduler
    <2>2. ASSUME ~stale[r]
          PROVE  found'[r] = wanted' /\ todo'[r] = (On(scheduled') \intersect identified') \ On(wanted')
      \* One obsolete scheduler less, and one less to remove.
      BY <1>3, <2>1, <2>2 DEF RemoveScheduler, Progress, On, Table
    <2>3. ASSUME NEW q \in Syncers, q # r, ~stale'[q] PROVE phase'[q] = "waiting"
      BY <1>3, <2>1, <2>3 DEF RemoveScheduler, Outdate
    <2> QED
      BY <1>3, <2>1, <2>2, <2>3 DEF RemoveScheduler, Outdate, Progress, Matched
  <1>4. CASE BeginUpserts(r)
    \* A service that is not wanted has no scheduler with an id.
    BY <1>4 DEF BeginUpserts, Progress, Matched, On, Table
  <1>5. CASE UpsertScheduler(r)
    <2>1. PICK s \in todo[r] : /\ scheduled' = [scheduled EXCEPT ![s] = found[r][s]]
                              /\ Proceed(r, "upsert", todo[r] \ {s})
      BY <1>5 DEF UpsertScheduler
    <2>2. ASSUME ~stale[r]
          PROVE  found'[r] = wanted' /\ \A t \in Services \ todo'[r] : Matched(t)'
      \* One service more has what it wants.
      BY <1>5, <2>1, <2>2 DEF UpsertScheduler, Progress, Matched, Table
    <2>3. ASSUME NEW q \in Syncers, q # r, ~stale'[q] PROVE phase'[q] = "waiting"
      BY <1>5, <2>1, <2>3 DEF UpsertScheduler, Outdate
    <2> QED
      BY <1>5, <2>1, <2>2, <2>3 DEF UpsertScheduler, Outdate, Progress, Matched
  <1>6. CASE EndRound(r)
    BY <1>6 DEF EndRound, Rest, Progress, Matched
  <1> QED
    BY <1>1, <1>2, <1>3, <1>4, <1>5, <1>6 DEF SyncStep

LEMMA NextKeepsSyncInv == SyncInv /\ [SyncNext]_syncVars => SyncInv'
  <1> SUFFICES ASSUME SyncInv, [SyncNext]_syncVars PROVE Progress'
    BY NextKeepsTypes DEF SyncInv
  <1>1. CASE EditService
    BY <1>1 DEF EditService, SyncInv, SyncTypeOK, Progress, Matched
  <1>2. CASE \E r \in Syncers : SyncStep(r)
    BY <1>2, StepKeepsProgress
  <1>3. ASSUME NEW r \in Syncers, RoundCut(r) PROVE Progress'
    BY <1>3 DEF RoundCut, Rest, Proceed, SyncInv, SyncTypeOK, Progress, Matched
  <1>4. CASE UNCHANGED syncVars
    BY <1>4 DEF syncVars, Progress, Matched, On, SyncInv
  <1> QED
    BY <1>1, <1>2, <1>3, <1>4 DEF SyncNext

LEMMA SyncInvHolds == SyncInit /\ [][SyncNext]_syncVars => []SyncInv
  BY InitSyncInv, NextKeepsSyncInv, PTL

\* Whatever the services, the replicas, and the rounds that were cut short or worked
\* from an old listing before: a round during which no service changed and no other
\* round wrote leaves the schedulers that are wanted, and of the obsolete ones only
\* those that BullMQ lists without an id.
THEOREM QuietRoundsAreExact == SyncSpec => [](SyncTypeOK /\ QuietRoundIsExact)
  <1>1. SyncInv => SyncTypeOK /\ QuietRoundIsExact
    BY DEF SyncInv, SyncTypeOK, Progress, QuietRoundIsExact, RoundOver
  <1> QED
    BY <1>1, SyncInvHolds, PTL DEF SyncSpec

------------------------------------------------------------------------------
\* HttpProber: how long a probe takes.

\* A socket has been active at most once for each stage it has passed, chunks apart.
ActiveByStage ==
    /\ stage \in {"ready", "lookup"} => active = 0
    /\ stage = "connect" => active <= 1
    /\ stage = "handshake" => active <= 2
    /\ stage = "sent" => active <= 3

\* A probe has taken no longer than its silences: at most the timeout before every
\* sign of life, and the present one.
TimeIsSilence == elapsed <= active * IdleLimit + idle

ProberInv == ProberTypeOK /\ ActiveByStage /\ TimeIsSilence

LEMMA InitProberInv == ProberInit => ProberInv
  <1>1. MaxActive \in Nat /\ Deadline \in Nat
    BY ProberAssumption DEF MaxActive, Deadline
  <1> QED
    BY <1>1, ProberAssumption
       DEF ProberInit, ProberInv, ProberTypeOK, ActiveByStage, TimeIsSilence, Stages

\* One more sign of life is worth one more timeout.
LEMMA OneMoreSilence ==
    ASSUME NEW n \in Nat
    PROVE  (n + 1) * IdleLimit = n * IdleLimit + IdleLimit /\ n * IdleLimit \in Nat
  BY ProberAssumption

LEMMA ActivityKeepsTime ==
    ASSUME ProberInv, Activity
    PROVE  TimeIsSilence' /\ idle' \in 0..IdleLimit
  <1>1. elapsed <= active * IdleLimit + IdleLimit
    BY OneMoreSilence, ProberAssumption DEF ProberInv, ProberTypeOK, TimeIsSilence
  <1>2. elapsed <= (active + 1) * IdleLimit
    BY <1>1, OneMoreSilence DEF ProberInv, ProberTypeOK
  <1> QED
    BY <1>2, OneMoreSilence, ProberAssumption DEF Activity, ProberInv, ProberTypeOK, TimeIsSilence

LEMMA NextKeepsProberInv == ProberInv /\ [ProberNext]_proberVars => ProberInv'
  <1> SUFFICES ASSUME ProberInv, [ProberNext]_proberVars PROVE ProberInv'
    OBVIOUS
  <1>0. MaxActive \in Nat /\ MaxActive >= 4 /\ Deadline \in Nat /\ IdleLimit \in Nat \ {0}
    BY ProberAssumption DEF MaxActive, Deadline
  <1>a. active \in Nat /\ idle \in Nat /\ elapsed \in Nat /\ active * IdleLimit \in Nat
    BY <1>0, OneMoreSilence DEF ProberInv, ProberTypeOK
  \* The steps that end the exchange leave the clock alone.
  <1>b. ASSUME UNCHANGED <<idle, active, elapsed>> PROVE TimeIsSilence'
    BY <1>b DEF ProberInv, TimeIsSilence
  <1>c. ASSUME NEW err \in {"none", "ERR_INVALID_URL", "ENOTFOUND", "EAI_AGAIN", "ETIMEDOUT",
                            "ECONNREFUSED", "ECONNRESET"},
               OnError(err)
        PROVE  ProberInv'
    BY <1>b, <1>c DEF OnError, ProberInv, ProberTypeOK, ActiveByStage, Stages
  <1>1. CASE InvalidUrl \/ SendRequest \/ OnEnd \/ OnTimeout
    BY <1>1, <1>b
       DEF InvalidUrl, SendRequest, OnEnd, OnTimeout, ProberInv, ProberTypeOK, ActiveByStage,
           Stages, Waiting, Connected
  <1>2. CASE Advance \/ ReceiveHead \/ ReceiveChunk
    <2>1. TimeIsSilence' /\ idle' \in 0..IdleLimit
      BY <1>2, ActivityKeepsTime DEF Advance, ReceiveHead, ReceiveChunk
    <2>2. active' \in 0..MaxActive
      BY <1>0, <1>2
         DEF Advance, ReceiveHead, ReceiveChunk, Activity, ProberInv, ProberTypeOK, ActiveByStage
    <2>3. ActiveByStage'
      BY <1>2 DEF Advance, ReceiveHead, ReceiveChunk, Activity, ProberInv, ProberTypeOK,
                  ActiveByStage
    <2>4. ProberTypeOK'
      BY <1>2, <2>1, <2>2 DEF Advance, ReceiveHead, ReceiveChunk, Activity, ProberInv, ProberTypeOK,
                              Stages
    <2> QED
      BY <2>1, <2>3, <2>4 DEF ProberInv
  <1>3. CASE NetworkError \/ EmitError
    BY <1>3, <1>c DEF NetworkError, EmitError, ProberInv, ProberTypeOK
  <1>4. CASE PeerCloses
    <2>1. CASE stage = "body"
      BY <1>4, <1>b, <2>1 DEF PeerCloses, ProberInv, ProberTypeOK, ActiveByStage,
                              Stages
    <2> QED
      BY <1>4, <1>c, <2>1 DEF PeerCloses
  <1>5. CASE ProberClock
    <2>1. TimeIsSilence'
      BY <1>0, <1>5, <1>a DEF ProberClock, ProberInv, TimeIsSilence
    <2> QED
      BY <1>0, <1>5, <2>1 DEF ProberClock, ProberInv, ProberTypeOK, ActiveByStage
  <1>6. CASE UNCHANGED proberVars
    BY <1>6 DEF proberVars, ProberInv, ProberTypeOK, ActiveByStage, TimeIsSilence
  <1> QED
    BY <1>1, <1>2, <1>3, <1>4, <1>5, <1>6 DEF ProberNext

LEMMA ProberInvHolds == ProberInit /\ [][ProberNext]_proberVars => []ProberInv
  BY InitProberInv, NextKeepsProberInv, PTL

\* For any timeout and any response: a probe takes at most one timeout more than the
\* socket was active, and nothing bounds it by the timeout alone.
THEOREM ProbesAreBounded == ProberSpec => [](ProberTypeOK /\ DurationBounded)
  <1>1. ProberInv => ProberTypeOK /\ DurationBounded
    BY OneMoreSilence, ProberAssumption DEF ProberInv, ProberTypeOK, TimeIsSilence, DurationBounded
  <1> QED
    BY <1>1, ProberInvHolds, PTL DEF ProberSpec

------------------------------------------------------------------------------
\* EditedThresholds: incidents go with the status.

\* Status and counters of a service or of a finding.
Records == [status : {"UNKNOWN", "HEALTHY", "DEGRADED", "DOWN", "RECOVERING"},
            fails : 0..MaxCount, succs : 0..MaxCount]

\* The statuses of an outage.
InOutage == {"DOWN", "RECOVERING"}

\* Except between the two last queries of a check, a service has an active incident
\* exactly while it is shown DOWN or RECOVERING: whatever edits of the thresholds lie
\* between what ensureIncidentCreated and ensureIncidentResolved compared.
IncidentFollowsStatus ==
    awaits # "update" => (unresolved <=> record.status \in InOutage)

\* A check finds RECOVERING only in an outage, and UNKNOWN only where it was.
Successor(from, to) ==
    /\ to = "RECOVERING" => from \in InOutage
    /\ to = "UNKNOWN" => from = "UNKNOWN"

\* What a check has read of the record is the record (the thresholds may have been
\* edited), and between its last two queries the incident is the finding's.
EditInv ==
    /\ EditTypeOK /\ IncidentFollowsStatus
    /\ awaits # "schedule" => copy.record = record
    /\ awaits = "incident" => Successor(record.status, finding.status)
    /\ awaits = "update" => (unresolved <=> finding.status \in InOutage)

\* What a check finds, whatever thresholds it has read and counters it starts from.
LEMMA Findings ==
    ASSUME NEW old \in Records, NEW with \in Thresholds, NEW outcome \in {"fast", "slow", "fail"}
    PROVE  /\ Evaluated(old, with, outcome) \in Records
           /\ Successor(old.status, Evaluated(old, with, outcome).status)
  <1> DEFINE fails == IF outcome = "fail" THEN Count(old.fails) ELSE 0
             succs == IF outcome = "fail" THEN 0 ELSE Count(old.succs)
             status == IF outcome = "fail" THEN Machine(with)!AfterFailure(old.status, fails)
                       ELSE Machine(with)!AfterSuccess(old.status, succs, outcome)
  <1>1. fails \in 0..MaxCount /\ succs \in 0..MaxCount
    BY LimitAssumption DEF Records, Count
  <1>2. /\ status \in {"UNKNOWN", "HEALTHY", "DEGRADED", "DOWN", "RECOVERING"}
        /\ Successor(old.status, status)
    BY DEF Successor, Machine!AfterFailure, Machine!AfterSuccess, Machine!Settled, Records,
           InOutage
  <1>3. Evaluated(old, with, outcome) = [status |-> status, fails |-> fails, succs |-> succs]
    BY DEF Evaluated
  <1> HIDE DEF fails, succs, status
  <1> QED
    BY <1>1, <1>2, <1>3 DEF Records

\* Every step keeps the invariant; one step of the proof for each action.
LEMMA EditInvKept ==
    ASSUME EditInv, [EditNext]_editVars
    PROVE  EditInv'
  <1>0. /\ limits \in Thresholds /\ record \in Records /\ unresolved \in BOOLEAN
        /\ awaits \in {"schedule", "probe", "incident", "update"}
        /\ copy \in [limits : Thresholds, record : Records] /\ finding \in Records
        /\ health \in {"fast", "slow", "fail"}
    BY DEF EditInv, EditTypeOK, Records
  <1>00. New \in Records
    BY LimitAssumption DEF New, Records
  <1>1. CASE ReadService
    BY <1>0, <1>1 DEF ReadService, EditInv, EditTypeOK, Records, IncidentFollowsStatus
  <1>2. CASE EvaluateProbe
    <2>1. /\ awaits = "probe" /\ awaits' = "incident" /\ copy.record = record
          /\ finding' = Evaluated(record, copy.limits, health)
          /\ UNCHANGED <<limits, record, unresolved, copy, health>>
      BY <1>2 DEF EvaluateProbe, EditInv
    <2>2. finding' \in Records /\ Successor(record.status, finding'.status)
      BY <1>0, <2>1, Findings
    <2>3. EditTypeOK'
      BY <1>0, <2>1, <2>2 DEF EditTypeOK, Records
    <2> QED
      BY <2>1, <2>2, <2>3 DEF EditInv, IncidentFollowsStatus
  <1>3. CASE SettleIncident
    <2> DEFINE from == record.status
               to == finding.status
    <2>1. /\ awaits = "incident" /\ awaits' = "update" /\ copy.record = record
          /\ UNCHANGED <<limits, record, copy, finding, health>>
          /\ Successor(from, to)
          /\ unresolved <=> from \in InOutage
      BY <1>3 DEF SettleIncident, EditInv, IncidentFollowsStatus
    <2>2. unresolved' = CASE to = "DOWN" /\ from # "DOWN" -> TRUE
                          [] to \in {"HEALTHY", "DEGRADED"} /\ from \in InOutage -> FALSE
                          [] OTHER -> unresolved
      BY <1>3, <2>1 DEF SettleIncident, Machine!EntersOutage, Machine!LeavesOutage, InOutage
    <2>3. unresolved' \in BOOLEAN /\ (unresolved' <=> to \in InOutage)
      <3> HIDE DEF from, to
      <3>1. CASE to = "DOWN" /\ from # "DOWN"
        BY <2>2, <3>1, Zenon DEF InOutage
      <3>2. CASE to \in {"HEALTHY", "DEGRADED"} /\ from \in InOutage
        <4>1. unresolved' = FALSE /\ to \notin InOutage
          BY <2>2, <3>2 DEF InOutage
        <4> QED
          BY <4>1, Zenon
      <3>3. CASE /\ ~(to = "DOWN" /\ from # "DOWN")
                 /\ ~(to \in {"HEALTHY", "DEGRADED"} /\ from \in InOutage)
        <4>1. unresolved' = unresolved
          BY <2>2, <3>3, Zenon
        <4>2. from \in InOutage <=> to \in InOutage
          BY <1>0, <2>1, <3>3 DEF InOutage, Successor, Records, from, to
        <4> QED
          BY <1>0, <2>1, <4>1, <4>2, Zenon
      <3> QED
        BY <3>1, <3>2, <3>3
    <2>4. EditTypeOK'
      BY <1>0, <2>1, <2>3 DEF EditTypeOK, Records
    <2> QED
      BY <2>1, <2>3, <2>4 DEF EditInv, IncidentFollowsStatus
  <1>4. CASE UpdateRecord
    <2>1. /\ awaits = "update" /\ awaits' = "schedule" /\ record' = finding
          /\ finding' = New /\ copy' = [limits |-> limits, record |-> New]
          /\ UNCHANGED <<limits, unresolved, health>>
          /\ unresolved <=> finding.status \in InOutage
      BY <1>4 DEF UpdateRecord, EditInv
    <2>2. EditTypeOK'
      BY <1>0, <1>00, <2>1 DEF EditTypeOK, Records
    <2> QED
      BY <2>1, <2>2 DEF EditInv, IncidentFollowsStatus
  <1>5. CASE EditThresholds \/ HealthChanges \/ UNCHANGED editVars
    <2>1. /\ UNCHANGED <<record, unresolved, awaits, copy, finding>>
          /\ limits' \in Thresholds /\ health' \in {"fast", "slow", "fail"}
      BY <1>0, <1>5 DEF EditThresholds, HealthChanges, editVars
    <2>2. EditTypeOK'
      BY <1>0, <2>1 DEF EditTypeOK, Records
    <2> QED
      BY <2>1, <2>2 DEF EditInv, IncidentFollowsStatus
  <1> QED
    BY <1>1, <1>2, <1>3, <1>4, <1>5 DEF EditNext, CheckProceeds

LEMMA EditInvHolds == EditInit /\ [][EditNext]_editVars => []EditInv
  <1>1. EditInit => EditInv
    <2> SUFFICES ASSUME EditInit PROVE EditInv
      OBVIOUS
    <2>1. unresolved \in BOOLEAN /\ ~unresolved
      BY Zenon DEF EditInit
    <2>2. New \in Records
      BY LimitAssumption DEF New, Records
    <2> QED
      BY <2>1, <2>2, LimitAssumption
         DEF EditInit, EditInv, EditTypeOK, Records, IncidentFollowsStatus, New, InOutage,
             Thresholds
  <1>2. EditInv /\ [EditNext]_editVars => EditInv'
    BY EditInvKept
  <1> QED
    BY <1>1, <1>2, PTL

\* For any thresholds and any edits of them between any two queries of a check, the
\* active incident goes with the status: HealthCheckProcessor.process and the PATCH of
\* ServicesService.update.
THEOREM EditsKeepIncidents == EditSpec => [](EditTypeOK /\ IncidentFollowsStatus)
  <1>1. EditInv => EditTypeOK /\ IncidentFollowsStatus
    BY DEF EditInv
  <1> QED
    BY <1>1, EditInvHolds, PTL DEF EditSpec
==============================================================================
