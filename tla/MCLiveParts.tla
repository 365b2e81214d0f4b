----------------------------- MODULE MCLiveParts -----------------------------
(***************************************************************************)
(* Six parts that share no state with one another and are checked for       *)
(* liveness or for time, in one run: part is chosen by Init and never       *)
(* changes, and only that part moves.  The states of the run are the union  *)
(* of the parts' states, not their product, and every property is about the *)
(* variables of one part.                                                   *)
(***************************************************************************)
EXTENDS Circuit, CheckLock, HttpProber, QueueSync, BrowserSession, EditedThresholds

CONSTANTS w1, w2, w3, s1, s2, b1, b2, short, long

TwoReplicas == {w1, w2}
ThreeWorkers == {w1, w2, w3}
TwoServices == {s1, s2}
TwoIntervals == {short, long}
TwoTabs == {b1, b2}
TwoLimits == {1, 2}

VARIABLE part
liveVars == <<part, circuitVars, lockVars, proberVars, syncVars, sessionVars, editVars>>

Init ==
    /\ part \in {"circuit", "lock", "prober", "sync", "session", "edits"}
    /\ CircuitInit /\ LockInit /\ ProberInit /\ SyncInit /\ SessionInit /\ EditInit
    /\ identified \in IF part = "sync" THEN {Services, {s1}} ELSE {Services}
    /\ part # "edits" => limits = [failure |-> 2, recovery |-> 2]

Next ==
    /\ UNCHANGED part
    /\ \/ /\ part = "circuit" /\ CircuitNext
          /\ UNCHANGED <<lockVars, proberVars, syncVars, sessionVars, editVars>>
       \/ /\ part = "lock" /\ LockNext
          /\ UNCHANGED <<circuitVars, proberVars, syncVars, sessionVars, editVars>>
       \/ /\ part = "prober" /\ ProberNext
          /\ UNCHANGED <<circuitVars, lockVars, syncVars, sessionVars, editVars>>
       \/ /\ part = "sync" /\ SyncNext
          /\ UNCHANGED <<circuitVars, lockVars, proberVars, sessionVars, editVars>>
       \/ /\ part = "session" /\ SessionNext
          /\ UNCHANGED <<circuitVars, lockVars, proberVars, syncVars, editVars>>
       \/ /\ part = "edits" /\ EditNext
          /\ UNCHANGED <<circuitVars, lockVars, proberVars, syncVars, sessionVars>>

\* The fairness of each part's own specification, asked of it when it is running.
Fairness ==
    /\ \A r \in Replicas : WF_circuitVars(part = "circuit" /\ (BeginCheck(r) \/ CheckStep(r)))
    /\ WF_circuitVars(part = "circuit" /\ StoreAlert)
    /\ WF_circuitVars(part = "circuit" /\ OrphanedLockExpires)
    /\ WF_circuitVars(part = "circuit" /\ CircuitClock)
    /\ WF_lockVars(part = "lock" /\ Tick)
    /\ \A r \in Syncers : WF_syncVars(part = "sync" /\ SyncStep(r))
    /\ \A t \in Tabs :
        /\ WF_sessionVars(part = "session" /\ Arrive(t))
        /\ WF_sessionVars(part = "session" /\ Poll(t))
        /\ WF_sessionVars(part = "session" /\ RequestAnswered(t))
    /\ WF_editVars(part = "edits" /\ CheckProceeds)

Spec == Init /\ [][Next]_liveVars /\ Fairness

\* Every variable of the six parts has its type.
TypeOK ==
    /\ CircuitTypeOK /\ LockTypeOK /\ ProberTypeOK
    /\ SyncTypeOK /\ SessionTypeOK /\ EditTypeOK
==============================================================================
