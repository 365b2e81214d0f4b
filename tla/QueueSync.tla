------------------------------ MODULE QueueSync ------------------------------
(***************************************************************************)
(* AppService.handleHeartbeatCheck: every ten seconds each replica of the   *)
(* worker makes the job schedulers of the queue match the enabled services. *)
(* It reads the services, lists the schedulers, then removes and upserts    *)
(* one by one, so its rounds overlap with those of other replicas and with  *)
(* the API creating, changing, switching and deleting services.             *)
(* BullMQ is external: upsert replaces, removing what is not there does     *)
(* nothing, and a listing gives an id for some of the schedulers only       *)
(* (upsertJobScheduler stores the identifier as the entry's key).           *)
(***************************************************************************)
EXTENDS Naturals

CONSTANTS
    Services,     \* identifiers of services
    Intervals,    \* values of intervalSeconds
    Syncers,      \* replicas of the worker
    MaxEdits,     \* how many changes the API makes
    MaxFailures   \* how many rounds are cut short by a failing call or a crash

ASSUME SyncAssumption == MaxEdits \in Nat /\ MaxFailures \in Nat /\ "off" \notin Intervals

VARIABLES
    wanted,      \* interval of each enabled service, "off" for any other identifier
    scheduled,   \* interval of each job scheduler, "off" where there is none
    identified,  \* those whose entry in a listing has an id, as BullMQ has it
    phase,       \* what a replica's round does next
    found,       \* the enabled services it read
    todo,        \* the schedulers it has still to remove, or services to upsert
    stale,       \* since it read them a service changed or another round wrote
    edits, failures

syncVars == <<wanted, scheduled, identified, phase, found, todo, stale, edits, failures>>
Table == [Services -> Intervals \union {"off"}]
Nothing == [s \in Services |-> "off"]
On(table) == {s \in Services : table[s] # "off"}

------------------------------------------------------------------------------
SyncInit ==
    /\ wanted = Nothing /\ scheduled = Nothing /\ identified \in SUBSET Services
    /\ phase = [r \in Syncers |-> "waiting"]
    /\ found = [r \in Syncers |-> Nothing]
    /\ todo = [r \in Syncers |-> {}]
    /\ stale = [r \in Syncers |-> FALSE]
    /\ edits = 0 /\ failures = 0

Proceed(r, p, left) ==
    /\ phase' = [phase EXCEPT ![r] = p]
    /\ todo' = [todo EXCEPT ![r] = left]

\* The other rounds under way have now read something that is no longer so.
Outdate(r) == stale' = [q \in Syncers |-> stale[q] \/ (q # r /\ phase[q] # "waiting")]

\* The cron fires (rounds of one replica are taken not to overlap themselves) and
\* reads the services that are enabled.
ReadServices(r) ==
    /\ phase[r] = "waiting"
    /\ found' = [found EXCEPT ![r] = wanted]
    /\ stale' = [stale EXCEPT ![r] = FALSE]
    /\ Proceed(r, "list", {})
    /\ UNCHANGED <<wanted, scheduled, identified, edits, failures>>

\* Mutant of ListSchedulers: obsolete schedulers are left alone.
ListNoSchedulers(r) ==
    /\ phase[r] = "list"
    /\ Proceed(r, "remove", {})
    /\ UNCHANGED <<wanted, scheduled, identified, found, stale, edits, failures>>

\* getJobSchedulers: those that are not among the services read are obsolete, but
\* an entry without an id is skipped.
ListSchedulers(r) ==
    /\ phase[r] = "list"
    /\ Proceed(r, "remove", (On(scheduled) \intersect identified) \ On(found[r]))
    /\ UNCHANGED <<wanted, scheduled, identified, found, stale, edits, failures>>

RemoveScheduler(r) ==
    /\ phase[r] = "remove"
    /\ \E s \in todo[r] :
        /\ scheduled' = [scheduled EXCEPT ![s] = "off"]
        /\ Proceed(r, "remove", todo[r] \ {s})
    /\ Outdate(r)
    /\ UNCHANGED <<wanted, identified, found, edits, failures>>

BeginUpserts(r) ==
    /\ phase[r] = "remove" /\ todo[r] = {}
    /\ Proceed(r, "upsert", On(found[r]))
    /\ UNCHANGED <<wanted, scheduled, identified, found, stale, edits, failures>>

\* Mutant of UpsertScheduler: a scheduler that exists keeps its interval.
InsertScheduler(r) ==
    /\ phase[r] = "upsert"
    /\ \E s \in todo[r] :
        /\ scheduled' = [scheduled EXCEPT ![s] = IF @ = "off" THEN found[r][s] ELSE @]
        /\ Proceed(r, "upsert", todo[r] \ {s})
    /\ Outdate(r)
    /\ UNCHANGED <<wanted, identified, found, edits, failures>>

UpsertScheduler(r) ==
    /\ phase[r] = "upsert"
    /\ \E s \in todo[r] :
        /\ scheduled' = [scheduled EXCEPT ![s] = found[r][s]]
        /\ Proceed(r, "upsert", todo[r] \ {s})
    /\ Outdate(r)
    /\ UNCHANGED <<wanted, identified, found, edits, failures>>

\* The round is over when nothing is left to upsert.
RoundOver(r) == phase[r] = "upsert" /\ todo[r] = {}

Rest(r) ==
    /\ Proceed(r, "waiting", {})
    /\ found' = [found EXCEPT ![r] = Nothing]
    /\ stale' = [stale EXCEPT ![r] = FALSE]

EndRound(r) == RoundOver(r) /\ Rest(r) /\ UNCHANGED <<wanted, scheduled, identified, edits, failures>>

SyncStep(r) ==
    \/ ReadServices(r) \/ ListSchedulers(r) \/ RemoveScheduler(r)
    \/ BeginUpserts(r) \/ UpsertScheduler(r) \/ EndRound(r)

\* A call throws and is logged, or the process dies: the rest of the round is
\* dropped.  A removal or upsert that failed may have been executed: that is the
\* action above followed by this one.
RoundCut(r) ==
    /\ failures < MaxFailures /\ phase[r] # "waiting"
    /\ failures' = failures + 1
    /\ Rest(r)
    /\ UNCHANGED <<wanted, scheduled, identified, edits>>

\* ServicesService.create, update, enable, disable and remove as the table of
\* enabled services shows them; a disabled service is not distinguished from one
\* that does not exist, nothing here depends on it.
EditService ==
    /\ edits < MaxEdits /\ edits' = edits + 1
    /\ \E s \in Services, i \in Intervals \union {"off"} :
        wanted[s] # i /\ wanted' = [wanted EXCEPT ![s] = i]
    /\ stale' = [q \in Syncers |-> stale[q] \/ phase[q] # "waiting"]
    /\ UNCHANGED <<scheduled, identified, phase, found, todo, failures>>

SyncNext == EditService \/ \E r \in Syncers : SyncStep(r) \/ RoundCut(r)

\* The cron keeps firing and awaited calls settle; edits and failures are not fair.
SyncFairness == \A r \in Syncers : WF_syncVars(SyncStep(r))
SyncSpec == SyncInit /\ [][SyncNext]_syncVars /\ SyncFairness

------------------------------------------------------------------------------
\* Every variable has its type.
SyncTypeOK ==
    /\ wanted \in Table /\ scheduled \in Table /\ identified \in SUBSET Services
    /\ phase \in [Syncers -> {"waiting", "list", "remove", "upsert"}]
    /\ found \in [Syncers -> Table]
    /\ todo \in [Syncers -> SUBSET Services]
    /\ stale \in [Syncers -> BOOLEAN]
    /\ edits \in 0..MaxEdits /\ failures \in 0..MaxFailures

\* What a round can do for a service is done: its scheduler is the one it wants, or
\* it wants none and the one it has is listed without an id.
Matched(s) ==
    \/ scheduled[s] = wanted[s]
    \/ wanted[s] = "off" /\ s \notin identified

\* A round during which no service changed and no other round wrote leaves the
\* schedulers that are wanted and, of the obsolete ones, only those a listing gives
\* no id for, whatever earlier rounds, cut short anywhere or working from an old
\* listing, had left.
QuietRoundIsExact ==
    \A r \in Syncers : RoundOver(r) /\ ~stale[r] => \A s \in Services : Matched(s)

\* Once the services stop changing and calls stop failing, the schedulers become
\* what is wanted and stay so, with rounds overlapping all the time; only obsolete
\* ones without an id are never removed.
SchedulersConverge == <>[](\A s \in Services : Matched(s))
==============================================================================
