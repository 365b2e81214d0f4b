---------------------------- MODULE ServiceReport ----------------------------
(***************************************************************************)
(* ServicesService.getMetrics: the report on one service, put together from *)
(* four queries while the worker stores checks and opens and closes         *)
(* incidents.  Percentages are left out: they are quotients of the counts   *)
(* and durations here.  Time is in ticks since the service was created, of  *)
(* which the code's floor to whole seconds cuts nothing.                    *)
(***************************************************************************)
EXTENDS Integers, Sequences, FiniteSets

CONSTANTS
    Latencies,    \* values of responseTimeMs
    MaxResults,   \* how many checks are stored
    MaxOutages,   \* how many incidents there are
    EndOfTime     \* how far the clock runs

ASSUME ReportAssumption ==
    /\ Latencies \subseteq Nat /\ MaxResults \in Nat /\ MaxOutages \in Nat /\ EndOfTime \in Nat

\* The worker stores a latency with every check.
Results == [ok : BOOLEAN, responseTimeMs : Latencies]
Unresolved == EndOfTime + 1

VARIABLES
    results,   \* the checks stored, in order
    outages,   \* startedAt and resolvedAt of the incidents
    now,
    asks,      \* the query the report waits for, "idle" before and "done" after it
    report,    \* what has been computed of it
    began,     \* how many checks there were when it began
    doubled    \* two incidents have been unresolved at once

reportVars == <<results, outages, now, asks, report, began, doubled>>

EmptyReport == [total |-> 0, success |-> 0, p50 |-> 0, p95 |-> 0, p99 |-> 0, sorted |-> <<>>,
                downtime |-> 0, active |-> 0]

------------------------------------------------------------------------------
ReportInit ==
    /\ results = <<>> /\ outages = <<>> /\ now = 0
    /\ asks = "idle" /\ report = EmptyReport /\ began = 0 /\ doubled = FALSE

Successes == Cardinality({k \in DOMAIN results : results[k].ok})

Ascending(s) == \A i, j \in DOMAIN s : i < j => s[i] <= s[j]

\* What sort makes of values: they ascend, each as often as before.
Sortings(values) ==
    LET Often(v, s) == Cardinality({k \in DOMAIN s : s[k] = v})
    IN {s \in [DOMAIN values -> Latencies] :
           Ascending(s) /\ \A v \in Latencies : Often(v, s) = Often(v, values)}

\* Mutant of getPercentile: the index is rounded down, and kept within the array.
getPercentileFloor(sorted, pct) ==
    LET rank == (pct * Len(sorted)) \div 100 + 1
    IN IF sorted = <<>> THEN 0 ELSE sorted[IF rank > Len(sorted) THEN Len(sorted) ELSE rank]

\* The element at ceil(pct / 100 * n) - 1, at least 0, of an array counted from 0.
getPercentile(sorted, pct) ==
    LET rank == (pct * Len(sorted) + 99) \div 100
    IN IF sorted = <<>> THEN 0 ELSE sorted[IF rank < 1 THEN 1 ELSE rank]

CountResults ==
    /\ asks = "idle" /\ asks' = "successes"
    /\ report' = [report EXCEPT !.total = Len(results)]
    /\ began' = Len(results)
    /\ UNCHANGED <<results, outages, now, doubled>>

CountSuccessful ==
    /\ asks = "successes" /\ asks' = "latencies"
    /\ report' = [report EXCEPT !.success = Successes]
    /\ UNCHANGED <<results, outages, now, began, doubled>>

\* Every check that was ever stored, not the latest only.
ReadLatencies ==
    /\ asks = "latencies" /\ asks' = "incidents"
    /\ \E sorted \in Sortings([k \in DOMAIN results |-> results[k].responseTimeMs]) :
        report' = [report EXCEPT !.sorted = sorted,
                       !.p50 = getPercentile(sorted, 50),
                       !.p95 = getPercentile(sorted, 95), !.p99 = getPercentile(sorted, 99)]
    /\ UNCHANGED <<results, outages, now, began, doubled>>

\* An incident lasts to now unless it is RESOLVED.
Down(o, t) == o.startedAt <= t /\ t < (IF o.resolvedAt = Unresolved THEN now ELSE o.resolvedAt)

\* The sum of what the incidents last, none less than nothing: the ticks of them all.
Downtime == {o \in (DOMAIN outages) \X (0..EndOfTime) : Down(outages[o[1]], o[2])}

ReadIncidents ==
    /\ asks = "incidents" /\ asks' = "done"
    /\ report' = [report EXCEPT
           !.downtime = Cardinality(Downtime),
           !.active = Cardinality({k \in DOMAIN outages : outages[k].resolvedAt = Unresolved})]
    /\ UNCHANGED <<results, outages, now, began, doubled>>

AnswerReport ==
    /\ asks = "done" /\ asks' = "idle"
    /\ report' = EmptyReport /\ began' = 0
    /\ UNCHANGED <<results, outages, now, doubled>>

------------------------------------------------------------------------------
\* The worker and the clock.
StoreResult ==
    /\ Len(results) < MaxResults
    /\ \E c \in Results : results' = Append(results, c)
    /\ UNCHANGED <<outages, now, asks, report, began, doubled>>

OutageBegins ==
    /\ Len(outages) < MaxOutages
    /\ outages' = Append(outages, [startedAt |-> now, resolvedAt |-> Unresolved])
    /\ doubled' = (doubled \/ \E k \in DOMAIN outages : outages[k].resolvedAt = Unresolved)
    /\ UNCHANGED <<results, now, asks, report, began>>

OutageEnds ==
    /\ \E k \in DOMAIN outages :
        /\ outages[k].resolvedAt = Unresolved
        /\ outages' = [outages EXCEPT ![k].resolvedAt = now]
    /\ UNCHANGED <<results, now, asks, report, began, doubled>>

ReportClock ==
    /\ now < EndOfTime /\ now' = now + 1
    /\ UNCHANGED <<results, outages, asks, report, began, doubled>>

ReportNext ==
    \/ CountResults \/ CountSuccessful \/ ReadLatencies \/ ReadIncidents \/ AnswerReport
    \/ StoreResult \/ OutageBegins \/ OutageEnds \/ ReportClock

ReportSpec == ReportInit /\ [][ReportNext]_reportVars

------------------------------------------------------------------------------
\* Every variable has its type.
ReportTypeOK ==
    /\ Len(results) <= MaxResults /\ \A k \in DOMAIN results : results[k] \in Results
    /\ Len(outages) <= MaxOutages
    /\ \A k \in DOMAIN outages :
        outages[k].startedAt \in 0..EndOfTime /\ outages[k].resolvedAt \in 0..Unresolved
    /\ now \in 0..EndOfTime /\ began \in 0..MaxResults /\ doubled \in BOOLEAN
    /\ asks \in {"idle", "successes", "latencies", "incidents", "done"}

\* The nearest-rank definition: the least value with pct per cent of the values at
\* or below it.
NearestRank(value, pct, values) ==
    LET Below(v) == Cardinality({k \in DOMAIN values : values[k] <= v})
    IN /\ 100 * Below(value) >= pct * Len(values)
       /\ \A k \in DOMAIN values :
            100 * Below(values[k]) >= pct * Len(values) => value <= values[k]

\* A finished report agrees with itself and with the service.  Its number of failed
\* checks, which can be negative, differs from the true one by no more than the
\* checks stored since it began; its percentiles are nearest ranks; its downtime is
\* no longer than the service has been there, unless two incidents were open at once.
ReportIsConsistent ==
    asks = "done" =>
        /\ LET failed == report.total - report.success
               wrong == failed - (Len(results) - Successes)
               since == Len(results) - began
           IN wrong <= since /\ -wrong <= since
        /\ report.sorted # <<>> =>
            /\ NearestRank(report.p50, 50, report.sorted)
            /\ NearestRank(report.p95, 95, report.sorted)
            /\ NearestRank(report.p99, 99, report.sorted)
        /\ report.downtime <= now \/ doubled
==============================================================================
