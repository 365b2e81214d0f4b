----------------------------- MODULE MCSafeParts -----------------------------
(***************************************************************************)
(* Nine parts of the API and the dashboard that share no state with one     *)
(* another, checked in one run: part is chosen by Init and never changes,   *)
(* and only that part moves.  The states of the run are the union of the    *)
(* parts' states, not their product, and every property is about the        *)
(* variables of one part.  Requests are alike, and so are addresses and     *)
(* services; the properties are invariants, so symmetry is sound.           *)
(***************************************************************************)
EXTENDS RefreshTokens, Accounts, MetricsScrape, ServiceReport, ListPages, ServiceConsole, Paging,
        AuditLog, TenantSettings

LOCAL INSTANCE TLC

CONSTANTS c1, c2, e1, e2

TwoRequests == {c1, c2}
TwoThings == {e1, e2}
Symmetry == Permutations(TwoRequests) \union Permutations(TwoThings)
TwoLatencies == {1, 2}

VARIABLE part
safeVars == <<part, tokenVars, accountVars, scrapeVars, reportVars, listVars, consoleVars,
              pagingVars, auditVars, settingsVars>>

\* A part that is not chosen has one beginning only.
Init ==
    /\ part \in {"tokens", "accounts", "scrape", "report", "list", "console", "paging", "audit", "settings"}
    /\ TokenInit /\ AccountInit /\ ScrapeInit /\ ReportInit /\ ListInit /\ ConsoleInit /\ PagingInit
    /\ AuditInit /\ SettingsInit
    /\ part # "scrape" => services = {}
    /\ part # "list" => list = AlertsList
    /\ part # "console" => there = {}

Next ==
    /\ UNCHANGED part
    /\ \/ /\ part = "tokens" /\ TokenNext
          /\ UNCHANGED <<accountVars, scrapeVars, reportVars, listVars, consoleVars,
                         pagingVars, auditVars, settingsVars>>
       \/ /\ part = "accounts" /\ AccountNext
          /\ UNCHANGED <<tokenVars, scrapeVars, reportVars, listVars, consoleVars,
                         pagingVars, auditVars, settingsVars>>
       \/ /\ part = "scrape" /\ ScrapeNext
          /\ UNCHANGED <<tokenVars, accountVars, reportVars, listVars, consoleVars,
                         pagingVars, auditVars, settingsVars>>
       \/ /\ part = "report" /\ ReportNext
          /\ UNCHANGED <<tokenVars, accountVars, scrapeVars, listVars, consoleVars,
                         pagingVars, auditVars, settingsVars>>
       \/ /\ part = "list" /\ ListNext
          /\ UNCHANGED <<tokenVars, accountVars, scrapeVars, reportVars, consoleVars,
                         pagingVars, auditVars, settingsVars>>
       \/ /\ part = "console" /\ ConsoleNext
          /\ UNCHANGED <<tokenVars, accountVars, scrapeVars, reportVars, listVars,
                         pagingVars, auditVars, settingsVars>>
       \/ /\ part = "paging" /\ PagingNext
          /\ UNCHANGED <<tokenVars, accountVars, scrapeVars, reportVars, listVars,
                         consoleVars, auditVars, settingsVars>>
       \/ /\ part = "audit" /\ AuditNext
          /\ UNCHANGED <<tokenVars, accountVars, scrapeVars, reportVars, listVars,
                         consoleVars, pagingVars, settingsVars>>
       \/ /\ part = "settings" /\ SettingsNext
          /\ UNCHANGED <<tokenVars, accountVars, scrapeVars, reportVars, listVars,
                         consoleVars, pagingVars, auditVars>>

Spec == Init /\ [][Next]_safeVars

\* Every variable of the nine parts has its type.
TypeOK ==
    /\ TokenTypeOK /\ AccountTypeOK /\ ScrapeTypeOK /\ ReportTypeOK
    /\ ListTypeOK /\ ConsoleTypeOK /\ PagingTypeOK /\ AuditTypeOK /\ SettingsTypeOK
==============================================================================
