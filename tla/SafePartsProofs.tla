--------------------------- MODULE SafePartsProofs ---------------------------
(***************************************************************************)
(* The nine parts of MCSafeParts together.  Only one part moves in a        *)
(* behaviour, and each part that stands still takes the stuttering steps    *)
(* its own specification allows: a behaviour of the whole is a behaviour of *)
(* each part, so every theorem about a part is one about the whole.         *)
(***************************************************************************)
EXTENDS MCSafeParts, RefreshTokensProofs, ApiProofs, DashboardProofs

\* A behaviour of the nine parts, seen through the variables of one of them,
\* is a behaviour of that part: the part moves by its own actions or stays.
LEMMA EveryPartByItself ==
    Spec => /\ TokenSpec /\ AccountSpec /\ ScrapeSpec /\ ReportSpec /\ ListSpec
            /\ ConsoleSpec /\ PagingSpec /\ AuditSpec /\ SettingsSpec
  <1>1. Init => /\ TokenInit /\ AccountInit /\ ScrapeInit /\ ReportInit /\ ListInit
                /\ ConsoleInit /\ PagingInit /\ AuditInit /\ SettingsInit
    BY DEF Init
  <1>2. [Next]_safeVars => [TokenNext]_tokenVars
    BY DEF Next, safeVars
  <1>3. [Next]_safeVars => [AccountNext]_accountVars
    BY DEF Next, safeVars
  <1>4. [Next]_safeVars => [ScrapeNext]_scrapeVars
    BY DEF Next, safeVars
  <1>5. [Next]_safeVars => [ReportNext]_reportVars
    BY DEF Next, safeVars
  <1>6. [Next]_safeVars => [ListNext]_listVars
    BY DEF Next, safeVars
  <1>7. [Next]_safeVars => [ConsoleNext]_consoleVars
    BY DEF Next, safeVars
  <1>8. [Next]_safeVars => [PagingNext]_pagingVars
    BY DEF Next, safeVars
  <1>9. [Next]_safeVars => [AuditNext]_auditVars
    BY DEF Next, safeVars
  <1>10. [Next]_safeVars => [SettingsNext]_settingsVars
    BY DEF Next, safeVars
  <1> QED
    BY <1>1, <1>2, <1>3, <1>4, <1>5, <1>6, <1>7, <1>8, <1>9, <1>10, PTL
       DEF Spec, TokenSpec, AccountSpec, ScrapeSpec, ReportSpec, ListSpec, ConsoleSpec,
           PagingSpec, AuditSpec, SettingsSpec

\* Whatever part of the API or the dashboard is at work, every variable of the
\* nine parts keeps its type.
THEOREM SafePartsAreTyped == Spec => []TypeOK
  <1>1. TokenInv => TokenTypeOK
    BY DEF TokenInv
  <1> QED
    BY <1>1, EveryPartByItself, TokensAreTyped, TenantsAreAdministered, ScrapesAreComplete,
       ReportsAreConsistent, RowsAreShown, SelectionIsListed, WalksMissNothing,
       AuditTellsWhatWasDone, StoredNameIsOwn, PTL DEF TypeOK
==============================================================================
