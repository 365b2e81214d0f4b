--------------------------- MODULE LivePartsProofs ---------------------------
(***************************************************************************)
(* The six parts of MCLiveParts together: a part that stands still only     *)
(* stutters, so what each part's invariant says holds of the whole.  The    *)
(* fairness of a part is asked only where that part runs and no invariant   *)
(* needs it.                                                                *)
(***************************************************************************)
EXTENDS MCLiveParts, CheckLockProofs, WorkerProofs, DashboardProofs

\* Seen through the variables of one part, the whole makes that part's steps.
LEMMA EveryPartMovesAlone ==
    Spec => /\ CircuitInit /\ [][CircuitNext]_circuitVars
            /\ LockInit /\ [][LockNext]_lockVars
            /\ ProberInit /\ [][ProberNext]_proberVars
            /\ SyncInit /\ [][SyncNext]_syncVars
            /\ SessionInit /\ [][SessionNext]_sessionVars
            /\ EditInit /\ [][EditNext]_editVars
  <1>1. Init => /\ CircuitInit /\ LockInit /\ ProberInit
                /\ SyncInit /\ SessionInit /\ EditInit
    BY DEF Init
  <1>2. [Next]_liveVars => [CircuitNext]_circuitVars
    BY DEF Next, liveVars
  <1>3. [Next]_liveVars => [ProberNext]_proberVars
    BY DEF Next, liveVars
  <1>4. [Next]_liveVars => [SyncNext]_syncVars
    BY DEF Next, liveVars
  <1>5. [Next]_liveVars => [SessionNext]_sessionVars
    BY DEF Next, liveVars
  <1>6. [Next]_liveVars => [EditNext]_editVars
    BY DEF Next, liveVars
  <1>7. [Next]_liveVars => [LockNext]_lockVars
    BY DEF Next, liveVars
  <1> QED
    BY <1>1, <1>2, <1>3, <1>4, <1>5, <1>6, <1>7, PTL DEF Spec

\* Whatever part of the worker or the dashboard is at work, every variable of the
\* six parts keeps its type.
THEOREM LivePartsAreTyped == Spec => []TypeOK
  <1>1. /\ CircuitInv => CircuitTypeOK
        /\ ProberInv => ProberTypeOK
        /\ SyncInv => SyncTypeOK
        /\ EditInv => EditTypeOK
        /\ LockInv => LockTypeOK
    BY DEF LockInv, CircuitInv, ProberInv, SyncInv, EditInv, SyncTypeOK
  <1> QED
    BY <1>1, EveryPartMovesAlone, CircuitInvHolds, LockInvHolds, ProberInvHolds, SyncInvHolds,
       SessionInvHolds, EditInvHolds, PTL DEF TypeOK
==============================================================================
