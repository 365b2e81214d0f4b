--------------------------- MODULE DashboardProofs ---------------------------
(***************************************************************************)
(* Proofs about four parts of the dashboard that keep a copy of what others *)
(* change under it: the page of a list (ListPages), the selected service    *)
(* (ServiceConsole), the stored user's organisation (TenantSettings) and    *)
(* the stored session (BrowserSession).  They hold for lists of any length, *)
(* any number of services, and any organisations, names and tabs.           *)
(***************************************************************************)
EXTENDS ListPages, ServiceConsole, TenantSettings, BrowserSession, FiniteSetTheorems, TLAPS

\* Unless the list has got shorter, the page is one of its pages, or the first.
PageInv == ~shrunk => currentPage = 1 \/ currentPage <= totalPages

\* The lists have the program's own page sizes.
LEMMA Lists ==
    ASSUME list \in {IncidentsList, AlertsList, UsersList, AuditList} \union SuperLists
    PROVE  /\ list.itemsPerPage \in {6, 8} /\ list.limit \in Nat
  BY ListAssumption DEF IncidentsList, AlertsList, UsersList, AuditList, SuperLists

\* More rows are not fewer pages, any row is on a page, and the limit bounds the pages.
LEMMA MorePages ==
    ASSUME NEW size \in {6, 8}, NEW a \in Nat, NEW b \in Nat, a <= b
    PROVE  /\ (a + size - 1) \div size \in Nat
           /\ (a + size - 1) \div size <= (b + size - 1) \div size
           /\ (a + size - 1) \div size <= 1 + b \div size
           /\ a > 0 => (a + size - 1) \div size >= 1
  <1>1. CASE size = 6
    BY <1>1
  <1>2. CASE size = 8
    BY <1>2
  <1> QED
    BY <1>1, <1>2

\* How many pages a list has.
LEMMA PagesOfRows ==
    ASSUME ListTypeOK
    PROVE  /\ totalPages \in Nat /\ totalPages <= 1 + list.limit \div list.itemsPerPage
           /\ rows > 0 => totalPages >= 1
           /\ list.limit \div list.itemsPerPage \in Nat
  <1>1. list.itemsPerPage \in {6, 8} /\ list.limit \in Nat /\ rows \in 0..list.limit
    BY Lists DEF ListTypeOK
  <1>2. list.limit \div list.itemsPerPage \in Nat
    <2>1. CASE list.itemsPerPage = 6
      BY <1>1, <2>1
    <2>2. CASE list.itemsPerPage = 8
      BY <1>1, <2>2
    <2> QED
      BY <1>1, <2>1, <2>2
  <1> QED
    BY <1>1, <1>2, MorePages DEF totalPages

LEMMA InitPages == ListInit => ListTypeOK /\ PageInv
  <1> SUFFICES ASSUME ListInit PROVE ListTypeOK /\ PageInv
    OBVIOUS
  <1>1. list.itemsPerPage \in {6, 8} /\ list.limit \in Nat
    BY Lists DEF ListInit
  <1>2. list.limit \div list.itemsPerPage \in Nat
    <2>1. CASE list.itemsPerPage = 6
      BY <1>1, <2>1
    <2>2. CASE list.itemsPerPage = 8
      BY <1>1, <2>2
    <2> QED
      BY <1>1, <2>1, <2>2
  <1>3. shrunk \in BOOLEAN
    BY Zenon DEF ListInit
  <1> QED
    BY <1>1, <1>2, <1>3 DEF ListInit, ListTypeOK, PageInv

\* The page goes beyond the last only by a refetch, which then says so.
LEMMA NextKeepsPages ==
    ASSUME ListTypeOK, PageInv, [ListNext]_listVars
    PROVE  ListTypeOK' /\ PageInv'
  <1> DEFINE last == list.limit \div list.itemsPerPage
  <1>1. /\ totalPages \in Nat /\ totalPages <= 1 + last /\ last \in Nat
        /\ rows > 0 => totalPages >= 1
    BY PagesOfRows
  <1>2. currentPage \in 1..(1 + last) /\ shrunk \in BOOLEAN
    BY DEF ListTypeOK
  <1>3. CASE Refetch
    <2>1. list' = list /\ currentPage' = currentPage /\ rows' \in 0..list.limit
      BY <1>3 DEF Refetch
    <2>2. shrunk' \in BOOLEAN /\ (~shrunk' => ~shrunk /\ ~(rows' < rows))
      BY <1>2, <1>3 DEF Refetch
    <2>3. ~shrunk' => totalPages <= totalPages'
      BY <2>1, <2>2, MorePages, Lists DEF ListTypeOK, totalPages
    <2>4. totalPages' \in Nat
      BY <2>1, MorePages, Lists DEF ListTypeOK, totalPages
    <2> QED
      BY <1>1, <1>2, <2>1, <2>2, <2>3, <2>4 DEF ListTypeOK, PageInv
  <1>4. CASE ChangeFilter
    <2>1. list' = list /\ currentPage' = 1 /\ rows' \in 0..list.limit
      BY <1>4 DEF ChangeFilter
    <2>2. shrunk' \in BOOLEAN
      BY <1>4, Zenon DEF ChangeFilter
    <2> QED
      BY <1>1, <2>1, <2>2 DEF ListTypeOK, PageInv
  <1>5. CASE PreviousPage
    <2>1. /\ totalPages > 1 /\ currentPage # 1 /\ UNCHANGED <<list, rows>>
          /\ currentPage' = IF currentPage - 1 > 1 THEN currentPage - 1 ELSE 1
      BY <1>5 DEF PreviousPage
    <2>2. shrunk' \in BOOLEAN /\ (~shrunk' => ~shrunk \/ ~(currentPage' > totalPages))
      BY <1>2, <1>5 DEF PreviousPage
    <2>3. totalPages' = totalPages
      BY <2>1 DEF totalPages
    <2> QED
      BY <1>1, <1>2, <2>1, <2>2, <2>3 DEF ListTypeOK, PageInv
  <1>6. CASE NextPage
    <2>1. /\ totalPages > 1 /\ currentPage # totalPages /\ UNCHANGED <<list, rows>>
          /\ currentPage' = IF currentPage + 1 < totalPages THEN currentPage + 1 ELSE totalPages
      BY <1>6 DEF NextPage
    <2>2. totalPages' = totalPages
      BY <2>1 DEF totalPages
    <2>3. shrunk' \in BOOLEAN
      BY <1>6, Zenon DEF NextPage
    <2> QED
      BY <1>1, <1>2, <2>1, <2>2, <2>3 DEF ListTypeOK, PageInv
  <1>7. CASE UNCHANGED listVars
    BY <1>7 DEF listVars, ListTypeOK, PageInv, totalPages
  <1> QED
    BY <1>3, <1>4, <1>5, <1>6, <1>7 DEF ListNext

LEMMA PagesHold == ListSpec => [](ListTypeOK /\ PageInv)
  BY InitPages, NextKeepsPages, PTL DEF ListSpec

\* For lists of any length: a list that has rows shows some, unless it has got shorter
\* since the user chose the page, and the page is never past the longest list's last.
THEOREM RowsAreShown == ListSpec => [](ListTypeOK /\ EmptyPageOnlyAfterShrink)
  <1>1. ListTypeOK /\ PageInv => EmptyPageOnlyAfterShrink
    BY PagesOfRows DEF PageInv, EmptyPageOnlyAfterShrink, ListTypeOK
  <1> QED
    BY <1>1, PagesHold, PTL

------------------------------------------------------------------------------
\* A list of services that is not empty has a newest one.
LEMMA NewestIsListed ==
    ASSUME NEW S \in SUBSET Nat, IsFiniteSet(S), S # {}
    PROVE  Newest(S) \in S
  <1> DEFINE Above(x) == {y \in S : y > x}
             T == {Above(x) : x \in S}
  <1>1. T \subseteq FiniteSubsetsOf(S) /\ T # {}
    <2>1. FiniteSubsetsOf(S) = SUBSET S
      BY FS_FiniteSubsetsOfFinite, Zenon
    <2>2. \A z \in S : Above(z) \in SUBSET S
      BY Zenon
    <2>3. T \subseteq SUBSET S
      BY <2>2, Zenon
    <2>4. T # {}
      BY Zenon
    <2> QED
      BY <2>1, <2>3, <2>4, Zenon
  <1>2. PICK U \in T : \A V \in T : ~(<<V, U>> \in StrictSubsetOrdering(S))
    BY <1>1, FS_StrictSubsetOrderingWellFounded, WFMin
  <1>3. PICK x \in S : U = Above(x)
    OBVIOUS
  <1>4. \A y \in S : x >= y
    <2>1. SUFFICES ASSUME NEW y \in S, y > x PROVE FALSE
      OBVIOUS
    <2>2. Above(y) \in T /\ Above(y) \subseteq Above(x)
      <3>1. \A z \in S : z > y => z > x
        BY <2>1
      <3> QED
        BY <3>1, Zenon
    <2>3. y \in Above(x) /\ y \notin Above(y)
      BY <2>1
    <2>4. <<Above(y), Above(x)>> \in StrictSubsetOrdering(S)
      BY <2>2, <2>3 DEF StrictSubsetOrdering
    <2> QED
      BY <1>2, <1>3, <2>2, <2>4
  <1> QED
    BY <1>4, Zenon DEF Newest

\* Lists of services are finite.
LEMMA ListsAreFinite ==
    ASSUME NEW nodes \in SUBSET Ids
    PROVE  IsFiniteSet(nodes) /\ nodes \in SUBSET Nat
  <1>1. MaxServices \in Int /\ Ids \subseteq Nat
    BY ConsoleAssumption DEF Ids
  <1>2. IsFiniteSet(Ids)
    BY <1>1, FS_Interval DEF Ids
  <1> QED
    BY <1>1, <1>2, FS_Subset

\* What the effect leaves: the new list, and a selection that is in it, unless the
\* list that was replaced was as long.
LEMMA Settled ==
    ASSUME ConsoleTypeOK, SelectionListed, NEW newList \in SUBSET Ids,
           NEW node \in Ids \union {NoNode}, Settle(newList, node)
    PROVE  /\ dbServices' = newList /\ selectedNode' \in Ids \union {NoNode}
           /\ swapped' \in BOOLEAN /\ SelectionListed'
  <1> DEFINE runs == Cardinality(newList) # Cardinality(dbServices) \/ node # selectedNode
  <1>1. dbServices' = newList
    BY Zenon DEF Settle
  <1>2. CASE ~runs
    <2>1. selectedNode' = node /\ node = selectedNode
      BY <1>2, Zenon DEF Settle
    <2>2. swapped' = (swapped \/ newList # dbServices)
      BY <1>2, Zenon DEF Settle
    <2>3. swapped' \in BOOLEAN
      BY <2>2 DEF ConsoleTypeOK
    <2>4. CASE newList = dbServices
      BY <1>1, <2>1, <2>2, <2>3, <2>4 DEF SelectionListed
    <2>5. CASE newList # dbServices
      BY <1>1, <2>1, <2>2, <2>3, <2>5 DEF SelectionListed
    <2> QED
      BY <2>4, <2>5
  <1>3. CASE runs
    <2>1. swapped' = FALSE
      BY <1>3, Zenon DEF Settle
    <2>2. CASE node \in newList
      <3>1. selectedNode' = node
        BY <2>2, Zenon DEF Settle
      <3> QED
        BY <1>1, <2>1, <2>2, <3>1 DEF SelectionListed
    <2>3. CASE node \notin newList /\ newList = {}
      <3>1. selectedNode' = NoNode
        BY <1>3, <2>3, Zenon DEF Settle
      <3> QED
        BY <1>1, <2>1, <2>3, <3>1 DEF SelectionListed
    <2>4. CASE node \notin newList /\ newList # {}
      <3>1. selectedNode' = Newest(newList)
        BY <1>3, <2>4, Zenon DEF Settle
      <3>2. Newest(newList) \in newList
        BY <2>4, NewestIsListed, ListsAreFinite
      <3> QED
        BY <1>1, <2>1, <3>1, <3>2 DEF SelectionListed
    <2> QED
      BY <2>2, <2>3, <2>4
  <1> QED
    BY <1>2, <1>3

\* Whatever replaces the list or the selection goes through the effect.
LEMMA NextKeepsSelection ==
    ASSUME ConsoleTypeOK, SelectionListed, [ConsoleNext]_consoleVars
    PROVE  ConsoleTypeOK' /\ SelectionListed'
  <1> USE ConsoleAssumption DEF ConsoleTypeOK
  <1>1. CASE AskServices \/ ApiLists
    BY <1>1 DEF AskServices, ApiLists, SelectionListed
  <1>2. CASE ListArrives
    BY <1>2, Settled DEF ListArrives
  <1>3. CASE SelectNode
    BY <1>3, Settled DEF SelectNode
  <1>4. CASE CreateNode
    BY <1>4 DEF CreateNode, SelectionListed, Ids
  <1>5. CASE NodeCreated
    BY <1>5, Settled DEF NodeCreated, Invalidate
  <1>6. CASE ClickDelete
    BY <1>6 DEF ClickDelete, SelectionListed
  <1>7. CASE DeleteNode
    BY <1>7 DEF DeleteNode, SelectionListed
  <1>8. CASE NodeDeleted
    <2>1. PICK node \in Ids \union {NoNode} : Settle(dbServices, node)
      BY <1>8 DEF NodeDeleted
    <2> QED
      BY <1>8, <2>1, Settled DEF NodeDeleted, Invalidate, NoDeletion
  <1>9. CASE DeleteFails
    BY <1>9 DEF DeleteFails, SelectionListed, NoDeletion
  <1>10. CASE OthersCreate
    BY <1>10 DEF OthersCreate, SelectionListed, Ids
  <1>11. CASE OthersDelete
    BY <1>11 DEF OthersDelete, SelectionListed
  <1>12. CASE UNCHANGED consoleVars
    BY <1>12 DEF consoleVars, SelectionListed
  <1> QED
    BY <1>1, <1>2, <1>3, <1>4, <1>5, <1>6, <1>7, <1>8, <1>9, <1>10, <1>11, <1>12 DEF ConsoleNext

\* For any number of services, and however polls, creations and deletions interleave:
\* the inspector shows a service of the list, and one if there is any, unless another
\* list of the same length came.
THEOREM SelectionIsListed == ConsoleSpec => [](ConsoleTypeOK /\ SelectionListed)
  <1>1. ASSUME ConsoleInit PROVE ConsoleTypeOK /\ SelectionListed
    <2> USE <1>1 DEF ConsoleInit
    <2>1. swapped \in BOOLEAN
      BY Zenon
    <2>2. deleting \in [id : Ids \union {NoNode}, selected : Ids \union {NoNode}, done : BOOLEAN]
      BY DEF NoDeletion
    <2>3. /\ created \in 0..MaxServices /\ there \subseteq Ids
          /\ dbServices = {} /\ answer = {} /\ selectedNode = NoNode /\ creating = NoNode
          /\ fetching = "none"
      BY ConsoleAssumption DEF Ids
    <2> QED
      BY <2>1, <2>2, <2>3, Zenon DEF ConsoleTypeOK, SelectionListed
  <1> QED
    BY <1>1, NextKeepsSelection, PTL DEF ConsoleSpec

------------------------------------------------------------------------------
\* Two saves at once part the stored name from the organisation's.
OneSave == ~drifted => \A v, u \in Views : Saving(v) /\ Saving(u) => v = u

\* A save that nothing disturbed is of the stored user's organisation: before the update
\* the stored name is still right, after it the name to be stored is.
SavesOwn ==
    storedUser.tenant # "none" /\ ~drifted =>
        \A v \in Views : Saving(v) =>
            /\ saving[v].tenant = storedUser.tenant
            /\ saving[v].stage = "sent" => storedUser.name = orgName[storedUser.tenant]
            /\ saving[v].stage = "updated" => saving[v].name = orgName[storedUser.tenant]

\* A save is of a tenant that exists.
SavesReal == \A v \in Views : Saving(v) => saving[v].tenant \in Organisations

SettingsInv == SettingsTypeOK /\ OneSave /\ SavesOwn /\ SavesReal /\ NameIsOwn

LEMMA InitSettingsInv == SettingsInit => SettingsInv
  <1> SUFFICES ASSUME SettingsInit PROVE SettingsInv
    OBVIOUS
  <1>1. AnyName \in Names
    BY SettingsAssumption, Zenon DEF AnyName
  <1>2. drifted \in BOOLEAN
    BY Zenon DEF SettingsInit
  <1>3. SettingsTypeOK
    BY <1>1, <1>2 DEF SettingsInit, SettingsTypeOK, NoUser, NoSave
  <1>4. \A v \in Views : ~Saving(v)
    BY DEF SettingsInit, Saving, NoSave
  <1>5. storedUser.tenant = "none"
    BY DEF SettingsInit, NoUser
  <1> QED
    BY <1>3, <1>4, <1>5, Zenon DEF SettingsInv, OneSave, SavesOwn, SavesReal, NameIsOwn

\* A disturbed save only drifts; an undisturbed one is right before and after its update.
LEMMA NextKeepsSettingsInv ==
    ASSUME SettingsInv, [SettingsNext]_settingsVars
    PROVE  SettingsInv'
  <1> USE SettingsAssumption
     DEF SettingsInv, SettingsTypeOK, OneSave, SavesOwn, SavesReal, NameIsOwn, NoUser, NoSave,
         AnyName, Saving, QuietSettings
  <1>1. CASE EnterAs
    BY <1>1 DEF EnterAs
  <1>2. CASE Entered
    BY <1>2 DEF Entered
  <1>3. CASE LeaveDashboard
    BY <1>3 DEF LeaveDashboard
  <1>4. CASE SavedElsewhere
    <2>1. PICK o \in Organisations, n \in Names :
              /\ orgName' = [orgName EXCEPT ![o] = n]
              /\ drifted' = (drifted \/ o = storedUser.tenant)
      BY <1>4, Zenon DEF SavedElsewhere
    <2>2. UNCHANGED <<storedUser, input, saving, entering>>
      BY <1>4 DEF SavedElsewhere
    <2>3. drifted' \in BOOLEAN /\ (~drifted' => ~drifted /\ o # storedUser.tenant)
      BY <2>1
    <2> QED
      BY <2>1, <2>2, <2>3
  <1>5. ASSUME NEW v \in Views, OpenSettings(v) PROVE SettingsInv'
    BY <1>5 DEF OpenSettings
  <1>6. ASSUME NEW v \in Views, TypeName(v) PROVE SettingsInv'
    BY <1>6 DEF TypeName
  <1>7. ASSUME NEW v \in Views, CloseSettings(v) PROVE SettingsInv'
    BY <1>7 DEF CloseSettings
  <1>8. ASSUME NEW v \in Views, SubmitSettings(v) PROVE SettingsInv'
    BY <1>8 DEF SubmitSettings
  <1>9. ASSUME NEW v \in Views, UpdateTenant(v) PROVE SettingsInv'
    BY <1>9 DEF UpdateTenant
  <1>10. ASSUME NEW v \in Views, SettingsSaved(v) PROVE SettingsInv'
    BY <1>10 DEF SettingsSaved
  <1>11. ASSUME NEW v \in Views, SaveFails(v) PROVE SettingsInv'
    <2>1. drifted' \in BOOLEAN /\ (~drifted' => ~drifted /\ saving[v].stage # "updated")
      BY <1>11 DEF SaveFails
    <2>2. /\ Saving(v) /\ saving' = [saving EXCEPT ![v] = NoSave(AnyName)]
          /\ UNCHANGED <<orgName, storedUser, input, entering>>
      BY <1>11 DEF SaveFails
    <2> QED
      BY <2>1, <2>2
  <1>12. ASSUME NEW v \in Views, SaveUnauthorized(v) PROVE SettingsInv'
    BY <1>12 DEF SaveUnauthorized
  <1>13. CASE UNCHANGED settingsVars
    BY <1>13 DEF settingsVars
  <1> QED
    BY <1>1, <1>2, <1>3, <1>4, <1>5, <1>6, <1>7, <1>8, <1>9, <1>10, <1>11, <1>12, <1>13
       DEF SettingsNext

\* For any organisations, names and tabs: when no save is under way the stored user has
\* the name of its own organisation, unless one of the events that NameIsOwn lists came
\* since the last login.
THEOREM StoredNameIsOwn == SettingsSpec => [](SettingsTypeOK /\ NameIsOwn)
  <1>1. SettingsInv => SettingsTypeOK /\ NameIsOwn
    BY DEF SettingsInv
  <1> QED
    BY <1>1, InitSettingsInv, NextKeepsSettingsInv, PTL DEF SettingsSpec

------------------------------------------------------------------------------
\* The stored token and the stored user are written and removed together: each is
\* missing, or the "undefined" of a rejected login, when the other is; and a good
\* token has its cookie.
StorageIsWhole ==
    /\ savedToken = "none" <=> savedUser = "none"
    /\ savedToken = "undefined" <=> savedUser = "undefined"
    /\ savedToken = "good" => authCookie

\* Every step keeps the types, and storage and cookie in step.
LEMMA SessionStep ==
    ASSUME SessionTypeOK, StorageIsWhole, [SessionNext]_sessionVars
    PROVE  SessionTypeOK' /\ StorageIsWhole'
  <1> USE SessionAssumption DEF SessionTypeOK, StorageIsWhole, storage, Saved, Roles
  <1> USE DEF Goto, Landed, UserActs, AuthPages, Polling, Querying, Pages
  <1>1. ASSUME NEW t \in Tabs, Arrive(t) PROVE SessionTypeOK' /\ StorageIsWhole'
    <2>1. Proxied(nav[t]) \in Pages
      BY <1>1 DEF Arrive, Proxied
    <2> QED
      BY <1>1, <2>1 DEF Arrive
  <1>2. ASSUME NEW t \in Tabs, Poll(t) \/ RequestAnswered(t)
        PROVE  SessionTypeOK' /\ StorageIsWhole'
    <2>1. CASE Poll(t) \/ Accepted(t)
      BY <2>1 DEF Poll, Accepted
    <2>2. CASE Unauthorized(t)
      BY <2>2 DEF Unauthorized
    <2>3. CASE LoggedIn(t)
      BY <2>3 DEF LoggedIn
    <2>4. CASE LoginRejected(t)
      BY <2>4 DEF LoginRejected
    <2> QED
      BY <1>2, <2>1, <2>2, <2>3, <2>4 DEF RequestAnswered
  <1>3. ASSUME NEW t \in Tabs,
               RequestFails(t) \/ SubmitLogin(t) \/ SignedUp(t) \/ LogOut(t) \/ Browse(t)
        PROVE  SessionTypeOK' /\ StorageIsWhole'
    <2>1. moves' \in 0..MaxMoves
      BY <1>3 DEF RequestFails, SubmitLogin, SignedUp, LogOut, Browse
    <2>2. CASE RequestFails(t) \/ SubmitLogin(t)
      BY <2>1, <2>2 DEF RequestFails, SubmitLogin
    <2>3. CASE SignedUp(t) \/ Browse(t)
      BY <2>1, <2>3 DEF SignedUp, Browse
    <2>4. CASE LogOut(t)
      BY <2>1, <2>4 DEF LogOut
    <2> QED
      BY <1>3, <2>2, <2>3, <2>4
  <1>4. CASE TokenExpires \/ CookieExpires
    BY <1>4 DEF TokenExpires, CookieExpires
  <1>5. CASE UNCHANGED sessionVars
    BY <1>5 DEF sessionVars
  <1> QED
    BY <1>1, <1>2, <1>3, <1>4, <1>5 DEF SessionNext

LEMMA SessionInvHolds ==
    SessionInit /\ [][SessionNext]_sessionVars => [](SessionTypeOK /\ StorageIsWhole)
  <1>1. SessionInit => SessionTypeOK /\ StorageIsWhole
    <2> SUFFICES ASSUME SessionInit PROVE SessionTypeOK /\ StorageIsWhole
      OBVIOUS
    <2>1. authCookie \in BOOLEAN
      BY Zenon DEF SessionInit
    <2>2. SessionTypeOK
      BY <2>1, SessionAssumption DEF SessionInit, SessionTypeOK, Saved, Roles, Pages, AuthPages
    <2>3. StorageIsWhole
      BY DEF SessionInit, StorageIsWhole
    <2> QED
      BY <2>2, <2>3
  <1> QED
    BY <1>1, SessionStep, PTL

\* For any number of tabs and moves, whichever of them log in, are rejected, get a 401
\* or log out at once, token, user and cookie are one session or none: useLogin,
\* apiRequest and the logout button.
THEOREM SessionsAreWhole == SessionSpec => [](SessionTypeOK /\ StorageIsWhole)
  BY SessionInvHolds, PTL DEF SessionSpec
==============================================================================
