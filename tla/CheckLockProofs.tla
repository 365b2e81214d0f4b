--------------------------- MODULE CheckLockProofs ---------------------------
(***************************************************************************)
(* Proofs about CheckLock: for any number of workers, any timeout and any   *)
(* number of retries, whatever the probes and the queries take and whoever  *)
(* dies, a check is alone until its lock's time to live is over.            *)
(***************************************************************************)
EXTENDS CheckLock, FiniteSetTheorems, TLAPS

\* A check under way counts its attempts from 1.
AttemptsCounted == \A w \in Workers : Checking(w) => attempt[w] >= 1

\* A check younger than a lock's lifetime still holds the lock, which lives for as
\* long as the check is short of that age.
YoungHoldsLock ==
    \A w \in Workers : Checking(w) /\ age[w] < LockTtl => lock = w /\ ttl + age[w] = LockTtl

\* A worker that checks nothing has no age.
IdleIsNew == \A w \in Workers : ~Checking(w) => age[w] = 0

LockInv == LockTypeOK /\ AttemptsCounted /\ YoungHoldsLock /\ IdleIsNew

\* There are 2^k subsets of 1..k, so 2^k is a natural number.
LEMMA PowerIsNat == ASSUME NEW k \in Nat PROVE 2^k \in Nat
  <1>1. IsFiniteSet(1..k) /\ Cardinality(1..k) = k
    BY FS_Interval
  <1>2. IsFiniteSet(SUBSET (1..k)) /\ Cardinality(SUBSET (1..k)) = 2^k
    BY <1>1, FS_SUBSET
  <1> QED
    BY <1>2, FS_CardinalityType, Zenon

\* A delay before a second or later attempt lasts some number of ticks.
LEMMA BackoffIsNat == ASSUME NEW n \in Nat, n >= 2 PROVE Backoff(n) \in Nat
  <1>1. n - 2 \in Nat
    OBVIOUS
  <1>2. 2^(n - 2) \in Nat
    BY <1>1, PowerIsNat
  <1> QED
    BY <1>2, LockAssumption DEF Backoff

LEMMA InitLockInv == LockInit => LockInv
  BY LockAssumption
  DEF LockInit, LockInv, LockTypeOK, LockTtl, AttemptsCounted, YoungHoldsLock, IdleIsNew, Checking

LEMMA TickKeepsLockInv == LockInv /\ Tick => LockInv'
  <1> SUFFICES ASSUME LockInv, Tick PROVE LockInv'
    OBVIOUS
  <1> USE LockAssumption DEF LockInv, Tick, Grown, LockTtl, Checking
  <1>1. LockTypeOK'
    BY DEF LockTypeOK
  <1>2. AttemptsCounted'
    BY DEF AttemptsCounted
  <1>3. YoungHoldsLock'
    <2> SUFFICES ASSUME NEW w \in Workers, Checking(w)', age'[w] < LockTtl
                 PROVE  lock' = w /\ ttl' + age'[w] = LockTtl
      BY DEF YoungHoldsLock
    <2>1. age[w] \in Nat /\ age'[w] = age[w] + 1 /\ age[w] < LockTtl
      BY DEF LockTypeOK
    <2>2. lock = w /\ ttl + age[w] = LockTtl /\ ttl \in Nat
      BY <2>1 DEF YoungHoldsLock, LockTypeOK
    <2>3. ttl > 1
      BY <2>1, <2>2
    <2> QED
      BY <2>1, <2>2, <2>3
  <1>4. IdleIsNew'
    BY DEF IdleIsNew, LockTypeOK
  <1> QED
    BY <1>1, <1>2, <1>3, <1>4

LEMMA StepKeepsLockInv ==
    ASSUME LockInv, NEW w \in Workers, LockStep(w)
    PROVE  LockInv'
  <1> USE LockAssumption DEF LockInv, WaitFor, Forget, LockTtl, Checking
  <1>1. CASE Acquire(w)
    <2>1. LockTypeOK' /\ AttemptsCounted' /\ IdleIsNew'
      BY <1>1 DEF Acquire, LockTypeOK, AttemptsCounted, IdleIsNew
    <2>2. YoungHoldsLock'
      \* The lock was free, so every other check under way is old.
      BY <1>1 DEF Acquire, LockTypeOK, YoungHoldsLock, IdleIsNew
    <2> QED
      BY <2>1, <2>2
  <1>2. CASE Delay(w)
    <2>1. attempt[w] + 1 \in Nat /\ attempt[w] + 1 >= 2
      BY <1>2 DEF Delay, LockTypeOK, AttemptsCounted
    <2>2. Backoff(attempt[w] + 1) \in Nat
      BY <2>1, BackoffIsNat
    <2>3. LockTypeOK' /\ AttemptsCounted' /\ IdleIsNew'
      BY <1>2, <2>2 DEF Delay, LockTypeOK, AttemptsCounted, IdleIsNew
    <2>4. YoungHoldsLock'
      BY <1>2 DEF Delay, LockTypeOK, YoungHoldsLock
    <2> QED
      BY <2>3, <2>4
  <1>3. CASE Retry(w)
    BY <1>3 DEF Retry, LockTypeOK, AttemptsCounted, YoungHoldsLock, IdleIsNew
  <1>4. CASE Conclude(w)
    BY <1>4 DEF Conclude, LockTypeOK, AttemptsCounted, YoungHoldsLock, IdleIsNew
  <1>5. CASE Release(w)
    <2>1. LockTypeOK' /\ AttemptsCounted' /\ IdleIsNew'
      BY <1>5 DEF Release, LockTypeOK, AttemptsCounted, IdleIsNew
    <2>2. YoungHoldsLock'
      \* Only the holder frees the key, so a young check keeps it.
      BY <1>5 DEF Release, LockTypeOK, YoungHoldsLock
    <2> QED
      BY <2>1, <2>2
  <1>6. CASE Crash(w)
    BY <1>6 DEF Crash, LockTypeOK, AttemptsCounted, YoungHoldsLock, IdleIsNew
  <1> QED
    BY <1>1, <1>2, <1>3, <1>4, <1>5, <1>6 DEF LockStep

LEMMA NextKeepsLockInv == LockInv /\ [LockNext]_lockVars => LockInv'
  <1> SUFFICES ASSUME LockInv, [LockNext]_lockVars PROVE LockInv'
    OBVIOUS
  <1>1. CASE Tick
    BY <1>1, TickKeepsLockInv
  <1>2. CASE \E w \in Workers : LockStep(w)
    BY <1>2, StepKeepsLockInv
  <1>3. CASE UNCHANGED lockVars
    BY <1>3 DEF LockInv, LockTypeOK, AttemptsCounted, YoungHoldsLock, IdleIsNew, Checking, lockVars
  <1> QED
    BY <1>1, <1>2, <1>3 DEF LockNext

LEMMA LockInvHolds == LockInit /\ [][LockNext]_lockVars => []LockInv
  BY InitLockInv, NextKeepsLockInv, PTL

\* Whatever the number of workers, the timeout, the retries, the crashes and the
\* time probes and queries take: a second check of a service is let in only by the
\* expiry of the first one's lock, so two that overlap began at least the lock's
\* time to live apart; and no check makes more than retryCount + 1 attempts.
THEOREM OverlapsOutliveTheLock == LockSpec => [](LockTypeOK /\ OverlapOutlivesLock)
  <1>1. ASSUME LockInv, NEW v \in Workers, NEW w \in Workers,
               Checking(v), Checking(w), v # w
        PROVE  age[v] = LockTtl \/ age[w] = LockTtl
    <2>1. age[v] \in 0..LockTtl /\ age[w] \in 0..LockTtl /\ LockTtl \in Nat
      BY <1>1, LockAssumption DEF LockInv, LockTypeOK, LockTtl
    <2>2. ~(age[v] < LockTtl /\ age[w] < LockTtl)
      \* Two young ones would both hold the lock.
      BY <1>1 DEF LockInv, YoungHoldsLock
    <2> QED
      BY <2>1, <2>2
  <1>2. LockInv => LockTypeOK /\ OverlapOutlivesLock
    BY <1>1 DEF LockInv, OverlapOutlivesLock
  <1> QED
    BY <1>2, LockInvHolds, PTL DEF LockSpec
==============================================================================
