---------------------------- MODULE MetricsScrape ----------------------------
(***************************************************************************)
(* MetricsService.getMetrics: one scrape resets the gauges of the process's *)
(* registry and fills them service by service over awaited queries, while   *)
(* the worker stores checks, services come and go, and another scrape runs. *)
(* The gauges that are set together are one sample; that of the latency     *)
(* percentiles (of the latest 100 checks) is how many checks there were     *)
(* when they were read.  The gauges of statuses and incidents, which no     *)
(* scrape reads back, and the labels other than the service's identifier    *)
(* are left out.                                                            *)
(***************************************************************************)
EXTENDS Naturals, FiniteSets

CONSTANTS
    Monitored,   \* identifiers of services
    Scrapes,     \* scrapes that may be under way at once
    MaxStored,   \* how many checks a service gets
    MaxChanges   \* how many services are created or deleted, and queries fail

ASSUME ScrapeAssumption ==
    IsFiniteSet(Monitored) /\ MaxStored \in Nat /\ MaxChanges \in Nat

VARIABLES
    life,          \* of each identifier: unused, a service, or deleted
    checks,        \* how many checks each has, and how many of them are successes
    total,         \* the gauge of the number of services
    sample,        \* the check gauges of each service
    recent,        \* the latency gauges of each service
    at,            \* the query each scrape waits for
    todo,          \* the services it has still to do
    current,       \* the service it is doing
    successCount,  \* the count of successes it holds
    reading,       \* what it has read for each service: sample and recent
    overlapped,    \* scrapes that another one overlapped
    changes

scrapeVars == <<life, checks, total, sample, recent, at, todo, current, successCount,
                reading, overlapped, changes>>
tables == <<life, checks, changes>>
gauges == <<total, sample, recent>>

services == {s \in Monitored : life[s] = "here"}
Counts == [total : 0..MaxStored, success : 0..MaxStored]
Unset == [total |-> MaxStored + 1, success |-> 0]
NotSeen == [sample |-> Unset, recent |-> MaxStored + 1]
NoChecks == [total |-> 0, success |-> 0]
Never == MaxStored + 1

------------------------------------------------------------------------------
ScrapeInit ==
    /\ life \in [Monitored -> {"unused", "here"}] /\ checks = [s \in Monitored |-> NoChecks]
    /\ total = 0
    /\ sample = [s \in Monitored |-> Unset] /\ recent = [s \in Monitored |-> Never]
    /\ at = [c \in Scrapes |-> "idle"]
    /\ todo = [c \in Scrapes |-> {}]
    /\ current = [c \in Scrapes |-> "none"]
    /\ successCount = [c \in Scrapes |-> 0]
    /\ reading = [c \in Scrapes |-> [s \in Monitored |-> NotSeen]]
    /\ overlapped = {} /\ changes = 0

AwaitQuery(c, query) == at' = [at EXCEPT ![c] = query]

\* Mutant of BeginScrape: the gauges of the checks keep their labels.
BeginWithoutReset(c) ==
    /\ at[c] = "idle"
    /\ recent' = [s \in Monitored |-> Never]
    /\ UNCHANGED <<total, sample>>
    /\ LET others == {d \in Scrapes : at[d] # "idle"}
       IN overlapped' = overlapped \union others \union (IF others = {} THEN {} ELSE {c})
    /\ AwaitQuery(c, "findServices")
    /\ UNCHANGED <<tables, todo, current, successCount, reading>>

\* The gauges with labels are reset; the services are asked for.
BeginScrape(c) ==
    /\ at[c] = "idle"
    /\ sample' = [s \in Monitored |-> Unset] /\ recent' = [s \in Monitored |-> Never]
    /\ LET others == {d \in Scrapes : at[d] # "idle"}
       IN overlapped' = overlapped \union others \union (IF others = {} THEN {} ELSE {c})
    /\ AwaitQuery(c, "findServices")
    /\ UNCHANGED <<tables, total, todo, current, successCount, reading>>

FindServices(c) ==
    /\ at[c] = "findServices"
    /\ total' = Cardinality(services)
    /\ todo' = [todo EXCEPT ![c] = services]
    /\ AwaitQuery(c, "countIncidents")
    /\ UNCHANGED <<tables, sample, recent, current, successCount, reading, overlapped>>

\* The services are done in the order of the query, which asks for none.
NextService(c, due) ==
    IF due = {} THEN AwaitQuery(c, "metrics") /\ UNCHANGED <<todo, current>>
    ELSE /\ \E s \in due : /\ current' = [current EXCEPT ![c] = s]
                            /\ todo' = [todo EXCEPT ![c] = due \ {s}]
         /\ AwaitQuery(c, "countSuccesses")

CountIncidents(c) ==
    /\ at[c] = "countIncidents"
    /\ NextService(c, todo[c])
    /\ UNCHANGED <<tables, gauges, successCount, reading, overlapped>>

CountSuccesses(c) ==
    /\ at[c] = "countSuccesses"
    /\ successCount' = [successCount EXCEPT ![c] = checks[current[c]].success]
    /\ AwaitQuery(c, "countTotal")
    /\ UNCHANGED <<tables, gauges, todo, current, reading, overlapped>>

\* The second count, and the four gauges set from the two.
CountTotal(c) ==
    /\ at[c] = "countTotal"
    /\ LET s == current[c]
           read == [total |-> checks[s].total, success |-> successCount[c]]
       IN /\ sample' = [sample EXCEPT ![s] = read]
          /\ reading' = [reading EXCEPT ![c][s].sample = read]
    /\ successCount' = [successCount EXCEPT ![c] = 0]
    /\ AwaitQuery(c, "findLatencies")
    /\ UNCHANGED <<tables, total, recent, todo, current, overlapped>>

FindLatencies(c) ==
    /\ at[c] = "findLatencies"
    /\ LET s == current[c]
           latest == checks[s].total
       IN /\ recent' = [recent EXCEPT ![s] = latest]
          /\ reading' = [reading EXCEPT ![c][s].recent = latest]
    /\ NextService(c, todo[c])
    /\ UNCHANGED <<tables, total, sample, successCount, overlapped>>

EndScrape(c) ==
    /\ AwaitQuery(c, "idle")
    /\ todo' = [todo EXCEPT ![c] = {}]
    /\ current' = [current EXCEPT ![c] = "none"]
    /\ successCount' = [successCount EXCEPT ![c] = 0]
    /\ reading' = [reading EXCEPT ![c] = [s \in Monitored |-> NotSeen]]
    /\ overlapped' = overlapped \ {c}
    /\ UNCHANGED gauges

\* registry.metrics() writes out the gauges as they are.
AnswerScrape(c) == at[c] = "metrics" /\ EndScrape(c) /\ UNCHANGED tables

TablesChange == changes < MaxChanges /\ changes' = changes + 1

\* A query throws: the gauges stay as far as they were filled.
ScrapeFails(c) == TablesChange /\ at[c] # "idle" /\ EndScrape(c) /\ UNCHANGED <<life, checks>>

------------------------------------------------------------------------------
\* The rest of the system, as its tables show it.
StoreCheck ==
    /\ \E s \in services, ok \in {0, 1} :
        /\ checks[s].total < MaxStored
        /\ checks' = [checks EXCEPT ![s].total = @ + 1, ![s].success = @ + ok]
    /\ UNCHANGED <<life, changes, gauges, at, todo, current, successCount, reading, overlapped>>

CreateService ==
    /\ TablesChange
    /\ \E s \in Monitored : life[s] = "unused" /\ life' = [life EXCEPT ![s] = "here"]
    /\ UNCHANGED <<checks, gauges, at, todo, current, successCount, reading, overlapped>>

\* The checks go with their service.
DeleteService ==
    /\ TablesChange
    /\ \E s \in services : /\ life' = [life EXCEPT ![s] = "gone"]
                          /\ checks' = [checks EXCEPT ![s] = NoChecks]
    /\ UNCHANGED <<gauges, at, todo, current, successCount, reading, overlapped>>

ScrapeNext ==
    \/ StoreCheck \/ CreateService \/ DeleteService
    \/ \E c \in Scrapes :
        \/ BeginScrape(c) \/ FindServices(c) \/ CountIncidents(c) \/ CountSuccesses(c)
        \/ CountTotal(c) \/ FindLatencies(c) \/ AnswerScrape(c) \/ ScrapeFails(c)

ScrapeSpec == ScrapeInit /\ [][ScrapeNext]_scrapeVars

------------------------------------------------------------------------------
\* Every variable has its type.
ScrapeTypeOK ==
    /\ life \in [Monitored -> {"unused", "here", "gone"}] /\ checks \in [Monitored -> Counts]
    /\ total \in 0..Cardinality(Monitored)
    /\ sample \in [Monitored -> Counts \union {Unset}]
    /\ recent \in [Monitored -> 0..MaxStored \union {Never}]
    /\ at \in [Scrapes -> {"idle", "findServices", "countIncidents", "countSuccesses",
                           "countTotal", "findLatencies", "metrics"}]
    /\ todo \in [Scrapes -> SUBSET Monitored]
    /\ current \in [Scrapes -> Monitored \union {"none"}]
    /\ successCount \in [Scrapes -> 0..MaxStored]
    /\ \A c \in Scrapes, s \in Monitored :
        reading[c][s].sample \in Counts \union {Unset} /\ reading[c][s].recent \in 0..MaxStored \union {Never}
    /\ overlapped \subseteq Scrapes /\ changes \in 0..MaxChanges

\* A scrape that no other overlapped writes out what it has read for each service it
\* has found, as many as the global gauge says, and nothing that an earlier scrape,
\* complete or failed, had left of services that are gone.  (Two that overlap share
\* the gauges: the later one's reset makes the earlier one's answer incomplete.)
ScrapeComplete ==
    \A c \in Scrapes :
        at[c] = "metrics" /\ c \notin overlapped =>
            /\ \A s \in Monitored : sample[s] = reading[c][s].sample /\ recent[s] = reading[c][s].recent
            /\ total = Cardinality({s \in Monitored : sample[s] # Unset})
==============================================================================
