------------------------------ MODULE CheckLock ------------------------------
(***************************************************************************)
(* The time a check takes against the time its lock lives.  The lock key is *)
(* set with a time to live of twice the probe's timeout and is never        *)
(* renewed; under it the processor makes up to RetryCount + 1 probes with a *)
(* growing delay between them, and then stores the result.  HealthCheck     *)
(* leaves time out; this module says when its fault "ttl" can happen.       *)
(*                                                                          *)
(* Nothing in the code limits how long an attempt takes: timeoutMs is the   *)
(* socket's inactivity timeout, a probe can hang (HttpProber), and the      *)
(* queries have no limit at all.  So a probe and the storing end at any     *)
(* time or never.  Punctual is the kindest environment instead: every probe *)
(* ends within its timeout, as the documents promise, a delay is not late,  *)
(* and the database and Redis answer at once.                               *)
(***************************************************************************)
EXTENDS Naturals

CONSTANTS
    Workers,
    Timeout,      \* service.timeoutMs, in ticks
    Second,       \* 1000 ms, in ticks
    RetryCount,   \* service.retryCount
    Punctual      \* whether nothing takes longer than it should

ASSUME LockAssumption ==
    /\ Timeout \in Nat \ {0} /\ Second \in Nat \ {0}
    /\ RetryCount \in Nat /\ Punctual \in BOOLEAN
    /\ "free" \notin Workers

VARIABLES
    lock,      \* who set the key lock:service, or "free"
    ttl,       \* ticks until Redis removes it
    pc,        \* what the worker is waiting for
    left,      \* ticks until a probe should have ended, until a delay has
    attempt,   \* attempts begun
    age        \* ticks since its check took the lock, counted to LockTtl

lockVars == <<lock, ttl, pc, left, attempt, age>>

LockTtl == 2 * Timeout

\* The delay before attempt 2, 3, ...
Backoff(n) == 2^(n - 2) * Second

WaitFor(w, call, ticks) ==
    /\ pc' = [pc EXCEPT ![w] = call]
    /\ left' = [left EXCEPT ![w] = ticks]

Forget(w) ==
    /\ WaitFor(w, "idle", 0)
    /\ attempt' = [attempt EXCEPT ![w] = 0]
    /\ age' = [age EXCEPT ![w] = 0]

LockInit ==
    /\ lock = "free" /\ ttl = 0
    /\ pc = [w \in Workers |-> "idle"]
    /\ left = [w \in Workers |-> 0]
    /\ attempt = [w \in Workers |-> 0]
    /\ age = [w \in Workers |-> 0]

\* SET key value PX ttl NX; a worker that finds the key skips its check.
Acquire(w) ==
    /\ pc[w] = "idle" /\ lock = "free"
    /\ lock' = w /\ ttl' = LockTtl
    /\ WaitFor(w, "probe", Timeout)
    /\ attempt' = [attempt EXCEPT ![w] = 1]
    /\ UNCHANGED age

\* The probe failed and there is a retry left: wait.
Delay(w) ==
    /\ pc[w] = "probe" /\ attempt[w] <= RetryCount
    /\ attempt' = [attempt EXCEPT ![w] = @ + 1]
    /\ WaitFor(w, "delay", Backoff(attempt[w] + 1))
    /\ UNCHANGED <<lock, ttl, age>>

\* A delay may end late, never early.
Retry(w) ==
    /\ pc[w] = "delay" /\ left[w] = 0
    /\ WaitFor(w, "probe", Timeout)
    /\ UNCHANGED <<lock, ttl, attempt, age>>

\* The probe succeeded, or it was the last one, or a query threw.
Conclude(w) ==
    /\ pc[w] = "probe"
    /\ WaitFor(w, "store", 0)
    /\ UNCHANGED <<lock, ttl, attempt, age>>

\* Mutant of Release: DEL without comparing the value.
ReleaseAnyway(w) ==
    /\ pc[w] = "store"
    /\ lock' = "free" /\ ttl' = 0
    /\ Forget(w)

\* Compare-and-delete.
Release(w) ==
    /\ pc[w] = "store"
    /\ lock' = IF lock = w THEN "free" ELSE lock
    /\ ttl' = IF lock = w THEN 0 ELSE ttl
    /\ Forget(w)

\* The process dies, or the release fails: the key stays.
Crash(w) ==
    /\ pc[w] # "idle"
    /\ Forget(w)
    /\ UNCHANGED <<lock, ttl>>

\* When everything is punctual no time passes while something is due.
InTime == Punctual => \A w \in Workers : pc[w] # "idle" => left[w] > 0

Grown(w) == IF pc[w] # "idle" /\ age[w] < LockTtl THEN age[w] + 1 ELSE age[w]

\* Mutant of Tick: the key has no time to live.
TickForever ==
    /\ InTime
    /\ left' = [w \in Workers |-> IF left[w] > 0 THEN left[w] - 1 ELSE 0]
    /\ age' = [w \in Workers |-> Grown(w)]
    /\ UNCHANGED <<lock, ttl, pc, attempt>>

\* A tick passes; Redis removes the key when its time to live is over.
Tick ==
    /\ InTime
    /\ left' = [w \in Workers |-> IF left[w] > 0 THEN left[w] - 1 ELSE 0]
    /\ age' = [w \in Workers |-> Grown(w)]
    /\ ttl' = IF ttl > 0 THEN ttl - 1 ELSE 0
    /\ lock' = IF ttl > 1 THEN lock ELSE "free"
    /\ UNCHANGED <<pc, attempt>>

LockStep(w) ==
    Acquire(w) \/ Delay(w) \/ Retry(w) \/ Conclude(w) \/ Release(w) \/ Crash(w)

LockNext == Tick \/ \E w \in Workers : LockStep(w)

\* Time passes; nothing is asked of a worker, a target or the database.
LockSpec == LockInit /\ [][LockNext]_lockVars /\ WF_lockVars(Tick)

------------------------------------------------------------------------------
\* Every variable has its type; the time to live never exceeds what SET gave it,
\* and a check makes no more attempts than retryCount + 1.
LockTypeOK ==
    /\ lock \in Workers \union {"free"} /\ ttl \in 0..LockTtl
    /\ pc \in [Workers -> {"idle", "probe", "delay", "store"}]
    /\ left \in [Workers -> Nat]
    /\ attempt \in [Workers -> 0..(RetryCount + 1)]
    /\ age \in [Workers -> 0..LockTtl]

\* A check is under way.
Checking(w) == pc[w] # "idle"

\* Checks of one service overlap only as far as the lock's expiry lets them: of any
\* two under way at once one began at least a lock's lifetime ago.  A check that
\* overruns its lock and ends while another holds it must not let a third one in.
OverlapOutlivesLock ==
    \A v, w \in Workers :
        Checking(v) /\ Checking(w) /\ v # w => age[v] = LockTtl \/ age[w] = LockTtl

\* No two workers check the service at the same time ("currently being checked by
\* another worker. Skipping check").  One retry is enough to break it, with
\* everything punctual: two probes and the delay between them take longer than the
\* lock lives.
NoOverlap == \A v, w \in Workers : Checking(v) /\ Checking(w) => v = w

\* Whatever its holder does, a crash or a probe that never ends included, the lock
\* is free again after a while: its time to live frees what nobody releases.
LockExpires == []<>(lock = "free")
==============================================================================
