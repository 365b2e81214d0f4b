------------------------------- MODULE ApiProofs -------------------------------
(***************************************************************************)
(* Proofs about five parts of the API that share no state: the accounts and *)
(* their tenants (Accounts), the metrics scrape (MetricsScrape), the audit  *)
(* log (AuditLog), the listings walked page by page (Paging) and the report *)
(* on a service (ServiceReport).  Each has an inductive invariant of its    *)
(* own, over the queries its handlers wait for, and its theorem is at the   *)
(* end of its section.                                                      *)
(***************************************************************************)
EXTENDS Accounts, MetricsScrape, AuditLog, Paging, ServiceReport, FiniteSetTheorems,
        SequenceTheorems, TLAPS

------------------------------------------------------------------------------
\* Accounts: tenants are administered.

\* What a request is for goes with the query it makes next.
Consistent(c) ==
    /\ (asked[c].kind = "none") <=> (query[c] = "idle")
    /\ query[c] = "find" => asked[c].kind \in {"register", "add"}
    /\ query[c] = "find" /\ asked[c].kind = "register" => asked[c].tenantId = NoTenant
    /\ query[c] = "tenant" => asked[c].kind = "register" /\ asked[c].tenantId = NoTenant
    /\ query[c] = "user" => asked[c].kind \in {"register", "add"}
    /\ query[c] \in {"member", "role"} => asked[c].kind = "role"
    /\ asked[c].kind # "none" => asked[c].email \in Emails /\ asked[c].role \in UserRole
    /\ asked[c].org => asked[c].kind = "register"
    /\ asked[c].kind = "register" /\ asked[c].tenantId # NoTenant =>
           asked[c].role = "ADMIN" /\ query[c] = "user"
    /\ query[c] = "role" =>
           /\ Exists(asked[c].email)
           /\ asked[c].tenantId \in {NoTenant, account[asked[c].email].tenantId}

QueryInv == \A c \in Requests : Consistent(c)

\* Two role changes under way are marked as overlapping.
RolesShared ==
    \A c, d \in Requests :
        c # d /\ asked[c].kind = "role" /\ asked[d].kind = "role" => c \in shared

\* The administrator who asked for a role change nobody overlapped still is one.
CallerRules ==
    \A c \in Requests :
        asked[c].kind = "role" /\ asked[c].tenantId # NoTenant /\ ~asked[c].own /\ c \notin shared
            => \E by \in Emails \ {asked[c].email} : Administers(by, asked[c].tenantId)

\* The forms of requests.
Forms == [kind : {"none", "register", "add", "role"}, org : BOOLEAN, email : Emails \union {"none"},
          tenantId : TenantIds \union {NoTenant}, role : UserRole \union {"none"}, own : BOOLEAN]

\* What holds of the accounts at every step: the type, and the parts above.
AccountInv ==
    AccountTypeOK /\ asked \in [Requests -> Forms] /\ QueryInv /\ RolesShared /\ CallerRules
    /\ TenantIsAdministered

\* A request that ends leaves the others as they were.
LEMMA Finished ==
    ASSUME AccountInv, NEW c \in Requests, Finish(c)
    PROVE  /\ query' \in [Requests -> {"idle", "find", "tenant", "user", "member", "role"}]
           /\ asked' \in [Requests -> Forms] /\ shared' \subseteq Requests
           /\ query'[c] = "idle" /\ asked'[c] = NoForm
           /\ \A d \in Requests \ {c} : query'[d] = query[d] /\ asked'[d] = asked[d]
           /\ \A d \in Requests \ {c} : d \in shared' <=> d \in shared
  BY DEF Finish, AccountInv, AccountTypeOK, Forms, NoForm, UserRole

\* A request that ends and stores nothing: the tenant a registration had stored is
\* excused, which is all the property needs.
LEMMA FinishedOnly ==
    ASSUME AccountInv, NEW c \in Requests, Finish(c), UNCHANGED <<account, tenants>>,
           excused \subseteq excused', excused' \subseteq TenantIds, cuts' \in 0..MaxCuts,
           asked[c].kind = "register" /\ asked[c].tenantId # NoTenant
               => asked[c].tenantId \in excused'
    PROVE  AccountInv'
  <1>1. AccountTypeOK' /\ (asked \in [Requests -> Forms])'
    BY Finished DEF AccountInv, AccountTypeOK, Forms, NoForm
  <1>2. QueryInv'
    BY Finished DEF AccountInv, QueryInv, Consistent, Exists, NoForm
  <1>4. RolesShared'
    BY Finished DEF AccountInv, RolesShared, NoForm
  <1>5. CallerRules'
    BY Finished DEF AccountInv, CallerRules, Administers, NoForm
  <1>3. TenantIsAdministered'
    <2>1. asked'[c].kind = "none" /\ \A d \in Requests \ {c} : asked'[d] = asked[d]
      BY Finished DEF NoForm
    <2> QED
      BY <2>1 DEF AccountInv, TenantIsAdministered, Administers, NoTenant
  <1> QED
    BY <1>1, <1>2, <1>3, <1>4, <1>5 DEF AccountInv

\* A request that throws or dies is such a one.
LEMMA Abandoned ==
    ASSUME AccountInv, NEW c \in Requests, Finish(c), UNCHANGED <<account, tenants>>,
           cuts' \in 0..MaxCuts, Abandon(c)
    PROVE  AccountInv'
  <1>1. asked[c].tenantId \in TenantIds \union {NoTenant} /\ excused \subseteq TenantIds
    BY DEF AccountInv, AccountTypeOK
  <1>2. /\ excused \subseteq excused' /\ excused' \subseteq TenantIds
        /\ asked[c].kind = "register" /\ asked[c].tenantId # NoTenant
               => asked[c].tenantId \in excused'
    BY <1>1 DEF Abandon, Excuse
  <1> QED
    BY <1>2, FinishedOnly

\* A request that begins, with what its handler has read.
LEMMA Started ==
    ASSUME AccountInv, NEW c \in Requests, NEW form \in Forms, NEW first \in {"find", "member"},
           form.kind = IF first = "member" THEN "role" ELSE form.kind, form.email \in Emails,
           form.role \in UserRole,
           first = "find" => form.kind \in {"add", "register"},
           form.kind = "register" => form.tenantId = NoTenant,
           form.org => form.kind = "register",
           form.kind = "role" /\ form.tenantId # NoTenant /\ ~form.own =>
               \E by \in Emails \ {form.email} : Administers(by, form.tenantId),
           Start(c, form, first)
    PROVE  AccountInv'
  <1>1. /\ query[c] = "idle" /\ query' = [query EXCEPT ![c] = first]
        /\ asked' = [asked EXCEPT ![c] = form]
        /\ UNCHANGED <<account, tenants, excused, cuts>>
    BY DEF Start
  <1>2. /\ shared \subseteq shared' /\ shared' \subseteq Requests
        /\ form.kind = "role" =>
             \A d \in Requests \ {c} : query[d] # "idle" /\ asked[d].kind = "role"
                 => d \in shared' /\ c \in shared'
    <2> DEFINE rivals == {d \in Requests \ {c} : query[d] # "idle" /\ Rivals(form, asked[d])}
    <2>1. shared' = shared \union rivals \union (IF rivals = {} THEN {} ELSE {c})
      BY DEF Start
    <2>2. rivals \subseteq Requests /\ shared \subseteq Requests
      BY DEF AccountInv, AccountTypeOK
    <2>3. form.kind = "role" =>
             \A d \in Requests \ {c} : query[d] # "idle" /\ asked[d].kind = "role" => d \in rivals
      BY DEF Rivals
    <2> QED
      BY <2>1, <2>2, <2>3
  <1>3. AccountTypeOK' /\ (asked \in [Requests -> Forms])'
    BY <1>1, <1>2 DEF AccountInv, AccountTypeOK, Forms
  <1>4. QueryInv'
    BY <1>1 DEF AccountInv, AccountTypeOK, QueryInv, Consistent, Exists
  <1>5. RolesShared'
    BY <1>1, <1>2 DEF AccountInv, AccountTypeOK, QueryInv, Consistent, RolesShared
  <1>6. CallerRules'
    BY <1>1, <1>2 DEF AccountInv, AccountTypeOK, CallerRules, Administers
  <1>7. TenantIsAdministered'
    BY <1>1 DEF AccountInv, AccountTypeOK, QueryInv, Consistent, TenantIsAdministered, Administers
  <1> QED
    BY <1>3, <1>4, <1>5, <1>6, <1>7 DEF AccountInv

\* Every step keeps the invariant; one step of the proof for each action.
LEMMA NextKeepsAccountInv ==
    ASSUME AccountInv, [AccountNext]_accountVars
    PROVE  AccountInv'
  <1> USE AccountAssumption
  <1>1. ASSUME NEW c \in Requests, Register(c) PROVE AccountInv'
    BY <1>1, Started DEF Register, Forms, NoForm, UserRole
  <1>2. ASSUME NEW c \in Requests, AskUser(c) PROVE AccountInv'
    <2>1. PICK by, e \in Emails, role \in {"ADMIN", "VIEWER"} :
              Start(c, [NoForm EXCEPT !.kind = "add", !.email = e, !.role = role,
                                      !.tenantId = account[by].tenantId], "find")
      BY <1>2 DEF AskUser
    <2>2. account[by].tenantId \in TenantIds \union {NoTenant}
      BY DEF AccountInv, AccountTypeOK, NoAccount
    <2> QED
      BY <2>1, <2>2, Started DEF Forms, NoForm, UserRole
  <1>3. ASSUME NEW c \in Requests, AskRole(c) PROVE AccountInv'
    <2>1. PICK by, e \in Emails, role \in UserRole :
              /\ Administers(by, account[by].tenantId)
              /\ Start(c, [NoForm EXCEPT !.kind = "role", !.email = e, !.role = role,
                                         !.own = (by = e), !.tenantId = account[by].tenantId],
                       "member")
      BY <1>3 DEF AskRole
    <2>2. account[by].tenantId \in TenantIds \union {NoTenant}
      BY DEF AccountInv, AccountTypeOK, NoAccount
    <2> DEFINE form == [NoForm EXCEPT !.kind = "role", !.email = e, !.role = role,
                                      !.own = (by = e), !.tenantId = account[by].tenantId]
    <2>3. /\ form \in Forms /\ form.kind = "role" /\ form.email = e
          /\ form.role \in UserRole /\ ~form.org
          /\ form.tenantId = account[by].tenantId /\ (form.own <=> by = e)
      BY <2>2 DEF Forms, NoForm, UserRole
    <2>4. ~form.own => \E a \in Emails \ {form.email} : Administers(a, form.tenantId)
      BY <2>1, <2>3
    <2>5. Start(c, form, "member")
      BY <2>1
    <2> HIDE DEF form
    <2> QED
      BY <2>3, <2>4, <2>5, Started
  <1>4. ASSUME NEW c \in Requests, AskRoleAsSuper(c) PROVE AccountInv'
    BY <1>4, Started DEF AskRoleAsSuper, Forms, NoForm, UserRole
  <1>5. ASSUME NEW c \in Requests, FindEmail(c) PROVE AccountInv'
    <2>1. CASE Exists(asked[c].email)
      <3>1. /\ Finish(c) /\ UNCHANGED <<account, tenants>>
            /\ excused \subseteq excused' /\ excused' \subseteq TenantIds /\ cuts' \in 0..MaxCuts
            /\ ~(asked[c].kind = "register" /\ asked[c].tenantId # NoTenant)
        BY <1>5, <2>1 DEF FindEmail, AccountInv, AccountTypeOK, QueryInv, Consistent
      <3> QED
        BY <3>1, FinishedOnly
    <2>2. CASE ~Exists(asked[c].email)
      <3>1. /\ query[c] = "find" /\ UNCHANGED <<asked, shared, account, tenants, excused, cuts>>
            /\ \/ query' = [query EXCEPT ![c] = "user"]
               \/ asked[c].org /\ query' = [query EXCEPT ![c] = "tenant"]
        BY <1>5, <2>2 DEF FindEmail
      <3>2. AccountTypeOK' /\ (asked \in [Requests -> Forms])'
        BY <3>1 DEF AccountInv, AccountTypeOK
      <3>3. QueryInv'
        BY <3>1, <2>2 DEF AccountInv, AccountTypeOK, QueryInv, Consistent, Exists
      <3>4. RolesShared' /\ CallerRules' /\ TenantIsAdministered'
        BY <3>1 DEF AccountInv, RolesShared, CallerRules, TenantIsAdministered, Administers
      <3> QED
        BY <3>2, <3>3, <3>4 DEF AccountInv
    <2> QED
      BY <2>1, <2>2
  <1>6. ASSUME NEW c \in Requests, CreateTenant(c) PROVE AccountInv'
    <2> DEFINE form == [asked[c] EXCEPT !.tenantId = tenants + 1, !.role = "ADMIN"]
    <2>1. /\ query[c] = "tenant" /\ asked[c].kind = "register" /\ tenants' = tenants + 1
          /\ tenants \in Nat /\ tenants' \in TenantIds /\ tenants' \in 0..MaxTenants
          /\ query' = [query EXCEPT ![c] = "user"]
          /\ UNCHANGED <<account, shared, excused, cuts>>
      BY <1>6 DEF CreateTenant, AccountInv, AccountTypeOK, QueryInv, Consistent, TenantIds
    <2>2. asked' = [asked EXCEPT ![c] = form]
      BY <1>6 DEF CreateTenant, AccountInv
    <2>3. /\ form \in Forms /\ form.kind = "register" /\ form.tenantId = tenants'
          /\ form.role = "ADMIN"
          /\ form.email = asked[c].email /\ form.org = asked[c].org
      BY <2>1 DEF AccountInv, Forms, UserRole
    <2> HIDE DEF form
    <2>4. /\ asked' \in [Requests -> Forms] /\ asked'[c] = form
          /\ \A d \in Requests \ {c} : asked'[d] = asked[d]
      BY <2>2, <2>3 DEF AccountInv
    <2>5. AccountTypeOK'
      BY <2>1, <2>4 DEF AccountInv, AccountTypeOK, Forms
    <2>6. QueryInv'
      <3>1. Consistent(c)'
        BY <2>1, <2>3, <2>4 DEF AccountInv, AccountTypeOK, QueryInv, Consistent, UserRole
      <3>2. ASSUME NEW d \in Requests \ {c} PROVE Consistent(d)'
        BY <2>1, <2>4 DEF AccountInv, AccountTypeOK, QueryInv, Consistent, Exists
      <3> QED
        BY <3>1, <3>2 DEF QueryInv
    <2>7. RolesShared' /\ CallerRules'
      BY <2>1, <2>3, <2>4 DEF AccountInv, RolesShared, CallerRules, Administers
    <2>8. TenantIsAdministered'
      BY <2>1, <2>3, <2>4 DEF AccountInv, TenantIsAdministered, Administers, QueryInv,
                               Consistent, NoTenant
    <2> QED
      BY <2>4, <2>5, <2>6, <2>7, <2>8 DEF AccountInv
  <1>7. ASSUME NEW c \in Requests, CreateUser(c) PROVE AccountInv'
    <2>1. CASE Exists(asked[c].email)
      <3>1. UNCHANGED <<account, tenants, cuts>> /\ Abandon(c) /\ Finish(c)
        BY <1>7, <2>1 DEF CreateUser
      <3>2. cuts' \in 0..MaxCuts
        BY <3>1 DEF AccountInv, AccountTypeOK
      <3> QED
        BY <3>1, <3>2, Abandoned
    <2>2. CASE ~Exists(asked[c].email)
      <3>1. /\ query[c] = "user" /\ asked[c].kind \in {"register", "add"}
            /\ asked[c].email \in Emails
            /\ account' = [account EXCEPT ![asked[c].email] =
                               [tenantId |-> asked[c].tenantId, role |-> asked[c].role]]
            /\ Finish(c) /\ UNCHANGED <<tenants, cuts, excused>>
        BY <1>7, <2>2 DEF CreateUser, AccountInv, QueryInv, Consistent
      <3>2. AccountTypeOK'
        <4>1. asked[c].tenantId \in TenantIds \union {NoTenant} /\ asked[c].role \in UserRole
          BY <3>1 DEF AccountInv, AccountTypeOK, QueryInv, Consistent
        <4>2. (asked \in [Requests -> Forms])'
          BY <3>1, Finished
        <4> QED
          BY <3>1, <4>1, <4>2, Finished DEF AccountInv, AccountTypeOK, Forms
      <3>3. QueryInv'
        BY <3>1, <2>2, Finished DEF AccountInv, AccountTypeOK, QueryInv, Consistent, Exists, NoForm
      <3>4. RolesShared' /\ CallerRules'
        BY <3>1, <2>2, Finished DEF AccountInv, AccountTypeOK, RolesShared, CallerRules,
                                    Administers, Exists, NoForm, NoAccount
      <3>5. TenantIsAdministered'
        BY <3>1, <2>2, Finished DEF AccountInv, AccountTypeOK, QueryInv, Consistent,
                                    TenantIsAdministered, Administers, Exists, NoAccount,
                                    NoForm, NoTenant
      <3> QED
        BY <3>2, <3>3, <3>4, <3>5, <3>1, Finished DEF AccountInv
    <2> QED
      BY <2>1, <2>2
  <1>8. ASSUME NEW c \in Requests, FindMember(c) PROVE AccountInv'
    <2>1. CASE Finish(c)
      <3>1. /\ Finish(c) /\ UNCHANGED <<account, tenants>>
            /\ excused \subseteq excused' /\ excused' \subseteq TenantIds /\ cuts' \in 0..MaxCuts
            /\ ~(asked[c].kind = "register" /\ asked[c].tenantId # NoTenant)
        BY <1>8, <2>1 DEF FindMember, AccountInv, AccountTypeOK, QueryInv, Consistent
      <3> QED
        BY <3>1, FinishedOnly
    <2>2. CASE ~Finish(c)
      BY <1>8, <2>2 DEF FindMember, AccountInv, AccountTypeOK, QueryInv, Consistent,
                        RolesShared, CallerRules, TenantIsAdministered, Exists, Administers
    <2> QED
      BY <2>1, <2>2
  <1>9. ASSUME NEW c \in Requests, WriteRole(c) PROVE AccountInv'
    <2> DEFINE e == asked[c].email
               t == account[e].tenantId
    <2>1. /\ query[c] = "role" /\ asked[c].kind = "role" /\ e \in Emails /\ Exists(e)
          /\ asked[c].tenantId \in {NoTenant, t}
          /\ account' = [account EXCEPT ![e].role = asked[c].role]
          /\ Finish(c) /\ UNCHANGED <<tenants, cuts>>
      BY <1>9 DEF WriteRole, AccountInv, QueryInv, Consistent
    <2>2. /\ account' \in [Emails -> {NoAccount} \union
                                 [tenantId : TenantIds \union {NoTenant}, role : UserRole]]
          /\ \A a \in Emails : account'[a].tenantId = account[a].tenantId
          /\ \A a \in Emails \ {e} : account'[a] = account[a]
          /\ t \in TenantIds \union {NoTenant} /\ account'[e] # NoAccount
      BY <2>1 DEF AccountInv, AccountTypeOK, Exists, NoAccount, UserRole, QueryInv, Consistent
    <2>3. /\ asked' \in [Requests -> Forms] /\ asked'[c] = NoForm
          /\ query' \in [Requests -> {"idle", "find", "tenant", "user", "member", "role"}]
          /\ query'[c] = "idle" /\ shared' \subseteq Requests
          /\ \A d \in Requests \ {c} : query'[d] = query[d] /\ asked'[d] = asked[d]
          /\ \A d \in Requests \ {c} : d \in shared' <=> d \in shared
      BY <2>1, Finished
    <2>4. /\ excused \subseteq excused' /\ excused' \subseteq TenantIds
          /\ asked[c].own \/ asked[c].tenantId = NoTenant \/ c \in shared
                => t = NoTenant \/ t \in excused'
      BY <1>9, <2>2 DEF WriteRole, Excuse, AccountInv, AccountTypeOK
    <2>5. AccountTypeOK'
      BY <2>1, <2>2, <2>3, <2>4 DEF AccountInv, AccountTypeOK, Forms
    <2>6. QueryInv'
      <3>1. \A a \in Emails : Exists(a) => Exists(a)'
        BY <2>2 DEF Exists
      <3>2. \A d \in Requests : query[d] = "role" => asked[d].email \in Emails
        BY DEF AccountInv, QueryInv, Consistent
      <3>3. Consistent(c)'
        BY <2>3 DEF Consistent, AccountInv, QueryInv, Forms, NoForm
      <3>4. ASSUME NEW d \in Requests \ {c} PROVE Consistent(d)'
        BY <2>2, <2>3, <3>1, <3>2 DEF AccountInv, QueryInv, Consistent
      <3> QED
        BY <3>3, <3>4 DEF QueryInv
    <2>7. RolesShared'
      BY <2>1, <2>3 DEF AccountInv, RolesShared, NoForm
    <2>8. CallerRules'
      <3>1. SUFFICES ASSUME NEW d \in Requests, asked'[d].kind = "role", d \notin shared'
                     PROVE  FALSE
        BY Zenon DEF CallerRules
      <3>2. d # c /\ asked[d].kind = "role" /\ d \notin shared
        BY <2>3, <3>1 DEF NoForm
      <3> QED
        BY <2>1, <3>2 DEF AccountInv, RolesShared
    <2>9. TenantIsAdministered'
      <3>1. SUFFICES ASSUME NEW x \in 1..tenants, x \notin excused'
                     PROVE  \/ \E a \in Emails : Administers(a, x)'
                            \/ \E d \in Requests :
                                   asked'[d].kind = "register" /\ asked'[d].tenantId = x
        BY <2>1 DEF TenantIsAdministered
      <3>2. CASE \E d \in Requests : asked[d].kind = "register" /\ asked[d].tenantId = x
        BY <2>1, <2>3, <3>2
      <3>3. CASE \E a \in Emails \ {e} : Administers(a, x)
        BY <2>2, <3>3 DEF Administers
      <3>4. CASE Administers(e, x)
        <4>1. t = x /\ x # NoTenant
          BY <3>1, <3>4, AccountAssumption DEF Administers, NoTenant, AccountInv, AccountTypeOK
        <4>2. ~asked[c].own /\ asked[c].tenantId = x /\ c \notin shared
          BY <2>1, <2>4, <3>1, <4>1
        <4>3. \E by \in Emails \ {e} : Administers(by, x)
          BY <2>1, <4>1, <4>2 DEF AccountInv, CallerRules
        <4> QED
          BY <3>3, <4>3
      <3> QED
        BY <2>4, <3>1, <3>2, <3>3, <3>4 DEF AccountInv, TenantIsAdministered
    <2> QED
      BY <2>3, <2>5, <2>6, <2>7, <2>8, <2>9 DEF AccountInv
  <1>10. ASSUME NEW c \in Requests, CutRequest(c) PROVE AccountInv'
    <2>1. UNCHANGED <<account, tenants>> /\ Abandon(c) /\ Finish(c) /\ cuts' \in 0..MaxCuts
      BY <1>10 DEF CutRequest, AccountInv, AccountTypeOK
    <2> QED
      BY <2>1, Abandoned
  <1>11. CASE UNCHANGED accountVars
    BY <1>11 DEF accountVars, AccountInv, AccountTypeOK, QueryInv, Consistent, RolesShared,
                 CallerRules, TenantIsAdministered, Exists, Administers, Forms
  <1> QED
    BY <1>1, <1>2, <1>3, <1>4, <1>5, <1>6, <1>7, <1>8, <1>9, <1>10, <1>11 DEF AccountNext

\* The invariant holds when nobody has registered.
LEMMA InitAccountInv == AccountInit => AccountInv
  <1> SUFFICES ASSUME AccountInit PROVE AccountInv
    OBVIOUS
  <1> USE AccountAssumption DEF AccountInit
  <1>1. AccountTypeOK /\ asked \in [Requests -> Forms]
    <2>1. NoForm \in Forms
      BY Zenon DEF NoForm, Forms
    <2>2. asked \in [Requests -> Forms] /\ NoTenant \in 0..MaxTenants
      BY <2>1 DEF NoTenant
    <2> QED
      BY <2>2 DEF AccountTypeOK, Forms
  <1>2. QueryInv /\ RolesShared /\ CallerRules
    BY DEF QueryInv, Consistent, RolesShared, CallerRules, NoForm
  <1>3. TenantIsAdministered
    BY DEF TenantIsAdministered
  <1> QED
    BY <1>1, <1>2, <1>3 DEF AccountInv

\* For any users, requests, number of tenants and cuts, every tenant has somebody who
\* administers it, or is being registered, but for those TenantIsAdministered names:
\* AuthService.register, UsersService.create and updateRole, step by step.
THEOREM TenantsAreAdministered == AccountSpec => [](AccountTypeOK /\ TenantIsAdministered)
  <1>1. AccountInv => AccountTypeOK /\ TenantIsAdministered
    BY DEF AccountInv
  <1> QED
    BY <1>1, InitAccountInv, NextKeepsAccountInv, PTL DEF AccountSpec

------------------------------------------------------------------------------
\* MetricsScrape: scrapes are complete.

\* What a scrape has read for a service.
Readings == [sample : Counts \union {Unset}, recent : 0..MaxStored \union {Never}]

\* What a scrape holds is of services, and a service has no more successes than checks.
ScrapeHolds ==
    /\ reading \in [Scrapes -> [Monitored -> Readings]]
    /\ \A c \in Scrapes : at[c] \in {"countSuccesses", "countTotal", "findLatencies"}
           => current[c] \in Monitored
    /\ \A s \in Monitored : checks[s].success <= checks[s].total

\* Before it has counted a scrape has read nothing.
ReadsNothing ==
    \A c \in Scrapes : at[c] \in {"idle", "findServices"} =>
        reading[c] = [s \in Monitored |-> NotSeen]

\* A scrape that is not marked as overlapped is the only one under way.
ScrapesAlone ==
    \A c, d \in Scrapes : c # d /\ at[c] # "idle" /\ at[d] # "idle" => c \in overlapped

\* The services whose gauges have been set since the reset.
Filled == {s \in Monitored : sample[s] # Unset}

\* The services a scrape has found and not yet counted.
Due(c) == todo[c] \union (IF at[c] \in {"countSuccesses", "countTotal"} THEN {current[c]} ELSE {})

\* Such a scrape finds its own readings in the gauges, and those it has counted and
\* those that are due are the services it has found.
Filling(c) ==
    /\ \A s \in Monitored : sample[s] = reading[c][s].sample /\ recent[s] = reading[c][s].recent
    /\ at[c] = "findServices" => Filled = {}
    /\ at[c] # "findServices" => total = Cardinality(Filled \union Due(c))
    /\ at[c] = "metrics" => todo[c] = {}

\* The parts of the invariant hold of every scrape that no other overlapped.
GaugesFilled == \A c \in Scrapes : at[c] # "idle" /\ c \notin overlapped => Filling(c)

\* Services are finitely many.
LEMMA CountedServices ==
    /\ Cardinality(services) \in 0..Cardinality(Monitored)
    /\ services \subseteq Monitored
  <1>1. services \subseteq Monitored
    BY DEF services
  <1>2. Cardinality(services) \in Nat /\ Cardinality(Monitored) \in Nat
        /\ Cardinality(services) <= Cardinality(Monitored)
    BY <1>1, ScrapeAssumption, FS_Subset, FS_CardinalityType
  <1> QED
    BY <1>1, <1>2

\* The next service of those that are due, or none is.
LEMMA NextDue ==
    ASSUME ScrapeTypeOK, NEW c \in Scrapes, NextService(c, todo[c])
    PROVE  \/ /\ todo[c] = {} /\ at' = [at EXCEPT ![c] = "metrics"] /\ UNCHANGED <<todo, current>>
           \/ \E s \in todo[c] : /\ current' = [current EXCEPT ![c] = s]
                                 /\ todo' = [todo EXCEPT ![c] = todo[c] \ {s}]
                                 /\ at' = [at EXCEPT ![c] = "countSuccesses"]
  BY DEF NextService, AwaitQuery

\* The gauges are the affair of one scrape: a step of another is its end.
LEMMA OneFills ==
    ASSUME ScrapeTypeOK, ScrapesAlone, NEW c \in Scrapes, at[c] # "idle",
           \A d \in Scrapes \ {c} : at'[d] = at[d] /\ (d \in overlapped => d \in overlapped'),
           at'[c] # "idle" /\ c \notin overlapped' => Filling(c)'
    PROVE  GaugesFilled'
  <1>1. ASSUME NEW d \in Scrapes \ {c}, at'[d] # "idle" PROVE d \in overlapped'
    BY <1>1 DEF ScrapesAlone
  <1> QED
    BY <1>1 DEF GaugesFilled

\* A scrape that has counted one service keeps what it has read of the others.
LEMMA SampleRead ==
    ASSUME NEW f \in [Scrapes -> [Monitored -> Readings]], NEW c \in Scrapes, NEW s \in Monitored,
           NEW v \in Counts, NEW g, g = [f EXCEPT ![c][s].sample = v]
    PROVE  /\ g \in [Scrapes -> [Monitored -> Readings]]
           /\ g[c][s].sample = v /\ g[c][s].recent = f[c][s].recent
           /\ \A d \in Scrapes, q \in Monitored : (d # c \/ q # s) => g[d][q] = f[d][q]
  <1>1. /\ g[c] = [f[c] EXCEPT ![s].sample = v]
        /\ \A d \in Scrapes \ {c} : g[d] = f[d]
    OBVIOUS
  <1>2. /\ g[c][s] = [f[c][s] EXCEPT !.sample = v]
        /\ \A q \in Monitored \ {s} : g[c][q] = f[c][q]
    BY <1>1
  <1>3. g[c][s] = [sample |-> v, recent |-> f[c][s].recent] /\ g[c][s] \in Readings
    BY <1>2 DEF Readings
  <1>4. g[c] \in [Monitored -> Readings]
    <2>1. g[c] = [q \in Monitored |-> g[c][q]]
      BY <1>1, Zenon
    <2> QED
      BY <1>2, <1>3, <2>1
  <1> QED
    BY <1>1, <1>2, <1>3, <1>4
\* So does one that has read its latencies.
LEMMA LatencyRead ==
    ASSUME NEW f \in [Scrapes -> [Monitored -> Readings]], NEW c \in Scrapes, NEW s \in Monitored,
           NEW v \in 0..MaxStored, NEW g, g = [f EXCEPT ![c][s].recent = v]
    PROVE  /\ g \in [Scrapes -> [Monitored -> Readings]]
           /\ g[c][s].sample = f[c][s].sample /\ g[c][s].recent = v
           /\ \A d \in Scrapes, q \in Monitored : (d # c \/ q # s) => g[d][q] = f[d][q]
  <1>1. /\ g[c] = [f[c] EXCEPT ![s].recent = v]
        /\ \A d \in Scrapes \ {c} : g[d] = f[d]
    OBVIOUS
  <1>2. /\ g[c][s] = [f[c][s] EXCEPT !.recent = v]
        /\ \A q \in Monitored \ {s} : g[c][q] = f[c][q]
    BY <1>1
  <1>3. g[c][s] = [sample |-> f[c][s].sample, recent |-> v] /\ g[c][s] \in Readings
    BY <1>2 DEF Readings
  <1>4. g[c] \in [Monitored -> Readings]
    <2>1. g[c] = [q \in Monitored |-> g[c][q]]
      BY <1>1, Zenon
    <2> QED
      BY <1>2, <1>3, <2>1
  <1> QED
    BY <1>1, <1>2, <1>3, <1>4
\* A stored check adds no success without its check.
LEMMA CheckStored ==
    ASSUME ScrapeAssumption, NEW f \in [Monitored -> Counts], NEW s \in Monitored,
           NEW ok \in {0, 1},
           \A q \in Monitored : f[q].success <= f[q].total, f[s].total < MaxStored,
           NEW g, g = [f EXCEPT ![s].total = @ + 1, ![s].success = @ + ok]
    PROVE  g \in [Monitored -> Counts] /\ \A q \in Monitored : g[q].success <= g[q].total
  <1> USE DEF ScrapeAssumption
  <1>1. /\ f[s] = [total |-> f[s].total, success |-> f[s].success]
        /\ f[s].total \in 0..MaxStored /\ f[s].success \in 0..MaxStored
    BY DEF Counts
  <1>2. \A q \in Monitored \ {s} : g[q] = f[q]
    OBVIOUS
  <1>3. g[s] = [total |-> f[s].total + 1, success |-> f[s].success + ok]
    BY <1>1
  <1>4. g[s] \in Counts /\ g[s].success <= g[s].total
    BY <1>1, <1>3 DEF Counts
  <1>5. g = [q \in Monitored |-> g[q]]
    OBVIOUS
  <1> QED
    BY <1>2, <1>4, <1>5
\* Every step keeps the types.
LEMMA TypesKept ==
    ASSUME ScrapeTypeOK, ScrapeHolds, [ScrapeNext]_scrapeVars
    PROVE  ScrapeTypeOK' /\ ScrapeHolds'
  <1> USE ScrapeAssumption, CountedServices
     DEF ScrapeTypeOK, ScrapeHolds, Readings, Counts, Unset, Never, NotSeen, NoChecks, tables,
         gauges, AwaitQuery, services
  <1>1. CASE StoreCheck
    <2>1. UNCHANGED <<life, changes, gauges, at, todo, current, successCount, reading, overlapped>>
      BY <1>1 DEF StoreCheck
    <2> HIDE DEF Counts
    <2>2. checks' \in [Monitored -> Counts]
          /\ \A q \in Monitored : checks'[q].success <= checks'[q].total
      BY <1>1, CheckStored, Zenon DEF StoreCheck
    <2> USE DEF Counts
    <2> QED
      BY <2>1, <2>2
  <1>2. CASE CreateService
    BY <1>2 DEF CreateService, TablesChange
  <1>3. CASE DeleteService
    BY <1>3 DEF DeleteService, TablesChange
  <1>4. ASSUME NEW c \in Scrapes, BeginScrape(c) PROVE ScrapeTypeOK' /\ ScrapeHolds'
    BY <1>4 DEF BeginScrape
  <1>5. ASSUME NEW c \in Scrapes, FindServices(c) PROVE ScrapeTypeOK' /\ ScrapeHolds'
    BY <1>5 DEF FindServices
  <1>6. ASSUME NEW c \in Scrapes, CountIncidents(c) PROVE ScrapeTypeOK' /\ ScrapeHolds'
    <2>1. UNCHANGED <<tables, total, successCount, overlapped>>
      BY <1>6 DEF CountIncidents
    <2>2. CASE /\ todo[c] = {} /\ at' = [at EXCEPT ![c] = "metrics"] /\ UNCHANGED <<todo, current>>
      BY <1>6, <2>1, <2>2 DEF CountIncidents
    <2>3. CASE \E s \in todo[c] : /\ current' = [current EXCEPT ![c] = s]
                                  /\ todo' = [todo EXCEPT ![c] = todo[c] \ {s}]
                                  /\ at' = [at EXCEPT ![c] = "countSuccesses"]
      BY <1>6, <2>1, <2>3 DEF CountIncidents
    <2> QED
      BY <1>6, <2>2, <2>3, NextDue DEF CountIncidents
  <1>7. ASSUME NEW c \in Scrapes, CountSuccesses(c) PROVE ScrapeTypeOK' /\ ScrapeHolds'
    BY <1>7 DEF CountSuccesses
  <1>8. ASSUME NEW c \in Scrapes, CountTotal(c) PROVE ScrapeTypeOK' /\ ScrapeHolds'
    <2> DEFINE s == current[c]
               read == [total |-> checks[s].total, success |-> successCount[c]]
    <2>1. s \in Monitored /\ read \in Counts
      BY <1>8 DEF CountTotal
    <2>2. reading' = [reading EXCEPT ![c][s].sample = read]
      BY <1>8, Zenon DEF CountTotal
    <2>3. reading' \in [Scrapes -> [Monitored -> Readings]]
      <3> HIDE DEF s, read, Readings, Counts
      <3> QED
        BY <2>1, <2>2, SampleRead
    <2>4. /\ sample' = [sample EXCEPT ![s] = read]
          /\ successCount' = [successCount EXCEPT ![c] = 0]
          /\ at' = [at EXCEPT ![c] = "findLatencies"] /\ at[c] = "countTotal"
          /\ UNCHANGED <<tables, total, recent, todo, current, overlapped>>
      BY <1>8 DEF CountTotal
    <2> HIDE DEF read
    <2> QED
      BY <2>1, <2>3, <2>4
  <1>9. ASSUME NEW c \in Scrapes, FindLatencies(c) PROVE ScrapeTypeOK' /\ ScrapeHolds'
    <2> DEFINE s == current[c]
               latest == checks[s].total
    <2>1. s \in Monitored /\ latest \in 0..MaxStored
      BY <1>9 DEF FindLatencies
    <2>2. reading' = [reading EXCEPT ![c][s].recent = latest]
      BY <1>9, Zenon DEF FindLatencies
    <2>3. reading' \in [Scrapes -> [Monitored -> Readings]]
      <3> HIDE DEF s, latest, Readings
      <3> QED
        BY <2>1, <2>2, LatencyRead
    <2>4. /\ recent' = [recent EXCEPT ![s] = latest]
          /\ NextService(c, todo[c])
          /\ UNCHANGED <<tables, total, sample, successCount, overlapped>>
      BY <1>9 DEF FindLatencies
    <2> HIDE DEF latest
    <2>5. CASE /\ todo[c] = {} /\ at' = [at EXCEPT ![c] = "metrics"] /\ UNCHANGED <<todo, current>>
      BY <2>1, <2>3, <2>4, <2>5
    <2>6. CASE \E q \in todo[c] : /\ current' = [current EXCEPT ![c] = q]
                                  /\ todo' = [todo EXCEPT ![c] = todo[c] \ {q}]
                                  /\ at' = [at EXCEPT ![c] = "countSuccesses"]
      BY <2>1, <2>3, <2>4, <2>6
    <2> QED
      BY <2>4, <2>5, <2>6, NextDue
  <1>10. ASSUME NEW c \in Scrapes, AnswerScrape(c) PROVE ScrapeTypeOK' /\ ScrapeHolds'
    BY <1>10 DEF AnswerScrape, EndScrape
  <1>11. ASSUME NEW c \in Scrapes, ScrapeFails(c) PROVE ScrapeTypeOK' /\ ScrapeHolds'
    BY <1>11 DEF ScrapeFails, EndScrape, TablesChange
  <1>12. CASE UNCHANGED scrapeVars
    BY <1>12 DEF scrapeVars
  <1> QED
    BY <1>1, <1>2, <1>3, <1>4, <1>5, <1>6, <1>7, <1>8, <1>9, <1>10, <1>11, <1>12
       DEF ScrapeNext

\* Every step keeps a scrape that has not counted without readings.
LEMMA ReadsNothingKept ==
    ASSUME ScrapeTypeOK, ScrapeHolds, ReadsNothing, [ScrapeNext]_scrapeVars
    PROVE  ReadsNothing'
  <1> USE ScrapeAssumption
     DEF ScrapeTypeOK, ScrapeHolds, ReadsNothing, tables, gauges, AwaitQuery
  <1>1. CASE StoreCheck
    BY <1>1 DEF StoreCheck
  <1>2. CASE CreateService
    BY <1>2 DEF CreateService, TablesChange
  <1>3. CASE DeleteService
    BY <1>3 DEF DeleteService, TablesChange
  <1>4. ASSUME NEW c \in Scrapes, BeginScrape(c) PROVE ReadsNothing'
    BY <1>4 DEF BeginScrape
  <1>5. ASSUME NEW c \in Scrapes, FindServices(c) PROVE ReadsNothing'
    BY <1>5 DEF FindServices
  <1>6. ASSUME NEW c \in Scrapes, CountIncidents(c) PROVE ReadsNothing'
    BY <1>6 DEF CountIncidents, NextService
  <1>7. ASSUME NEW c \in Scrapes, CountSuccesses(c) PROVE ReadsNothing'
    BY <1>7 DEF CountSuccesses
  <1>8. ASSUME NEW c \in Scrapes, CountTotal(c) PROVE ReadsNothing'
    BY <1>8 DEF CountTotal
  <1>9. ASSUME NEW c \in Scrapes, FindLatencies(c) PROVE ReadsNothing'
    BY <1>9 DEF FindLatencies, NextService
  <1>10. ASSUME NEW c \in Scrapes, AnswerScrape(c) PROVE ReadsNothing'
    BY <1>10 DEF AnswerScrape, EndScrape
  <1>11. ASSUME NEW c \in Scrapes, ScrapeFails(c) PROVE ReadsNothing'
    BY <1>11 DEF ScrapeFails, EndScrape, TablesChange
  <1>12. CASE UNCHANGED scrapeVars
    BY <1>12 DEF scrapeVars
  <1> QED
    BY <1>1, <1>2, <1>3, <1>4, <1>5, <1>6, <1>7, <1>8, <1>9, <1>10, <1>11, <1>12
       DEF ScrapeNext

\* Every step marks the scrapes that overlap.
LEMMA AloneKept ==
    ASSUME ScrapeTypeOK, ScrapesAlone, [ScrapeNext]_scrapeVars
    PROVE  ScrapesAlone'
  <1> USE ScrapeAssumption
     DEF ScrapeTypeOK, ScrapesAlone, tables, gauges, AwaitQuery
  <1>1. CASE StoreCheck
    BY <1>1 DEF StoreCheck
  <1>2. CASE CreateService
    BY <1>2 DEF CreateService, TablesChange
  <1>3. CASE DeleteService
    BY <1>3 DEF DeleteService, TablesChange
  <1>4. ASSUME NEW c \in Scrapes, BeginScrape(c) PROVE ScrapesAlone'
    BY <1>4 DEF BeginScrape
  <1>5. ASSUME NEW c \in Scrapes, FindServices(c) PROVE ScrapesAlone'
    BY <1>5 DEF FindServices
  <1>6. ASSUME NEW c \in Scrapes, CountIncidents(c) PROVE ScrapesAlone'
    BY <1>6 DEF CountIncidents, NextService
  <1>7. ASSUME NEW c \in Scrapes, CountSuccesses(c) PROVE ScrapesAlone'
    BY <1>7 DEF CountSuccesses
  <1>8. ASSUME NEW c \in Scrapes, CountTotal(c) PROVE ScrapesAlone'
    BY <1>8 DEF CountTotal
  <1>9. ASSUME NEW c \in Scrapes, FindLatencies(c) PROVE ScrapesAlone'
    BY <1>9 DEF FindLatencies, NextService
  <1>10. ASSUME NEW c \in Scrapes, AnswerScrape(c) PROVE ScrapesAlone'
    BY <1>10 DEF AnswerScrape, EndScrape
  <1>11. ASSUME NEW c \in Scrapes, ScrapeFails(c) PROVE ScrapesAlone'
    BY <1>11 DEF ScrapeFails, EndScrape, TablesChange
  <1>12. CASE UNCHANGED scrapeVars
    BY <1>12 DEF scrapeVars
  <1> QED
    BY <1>1, <1>2, <1>3, <1>4, <1>5, <1>6, <1>7, <1>8, <1>9, <1>10, <1>11, <1>12
       DEF ScrapeNext

\* Every step keeps the gauges those of the scrape that is alone: what it has found and
\* not yet counted becomes what it has counted, one service after another.
LEMMA FillingKept ==
    ASSUME ScrapeTypeOK, ScrapeHolds, ReadsNothing, ScrapesAlone, GaugesFilled,
           [ScrapeNext]_scrapeVars
    PROVE  GaugesFilled'
  <1> USE ScrapeAssumption
     DEF ScrapeTypeOK, ScrapeHolds, ScrapesAlone, GaugesFilled, Filling, Filled, Due, tables,
         gauges, AwaitQuery
  <1>1. CASE StoreCheck
    BY <1>1 DEF StoreCheck
  <1>2. CASE CreateService
    <2>1. UNCHANGED <<gauges, at, todo, current, reading, overlapped>>
      BY <1>2 DEF CreateService
    <2> QED
      BY <2>1
  <1>3. CASE DeleteService
    BY <1>3 DEF DeleteService, TablesChange
  <1>4. ASSUME NEW c \in Scrapes, BeginScrape(c) PROVE GaugesFilled'
    <2>1. /\ at[c] = "idle" /\ at' = [at EXCEPT ![c] = "findServices"] /\ UNCHANGED reading
          /\ sample' = [s \in Monitored |-> Unset] /\ recent' = [s \in Monitored |-> Never]
      BY <1>4 DEF BeginScrape
    <2>2. \A d \in Scrapes \ {c} : at[d] # "idle" => d \in overlapped'
      <3> DEFINE others == {d \in Scrapes : at[d] # "idle"}
      <3>1. overlapped' = overlapped \union others \union (IF others = {} THEN {} ELSE {c})
        BY <1>4 DEF BeginScrape
      <3> QED
        BY <3>1
    <2>3. \A s \in Monitored : reading[c][s] = [sample |-> Unset, recent |-> Never]
      BY <2>1 DEF ReadsNothing, NotSeen, Never
    <2>4. /\ Filled' = {}
          /\ \A s \in Monitored :
                sample'[s] = reading'[c][s].sample /\ recent'[s] = reading'[c][s].recent
      BY <2>1, <2>3
    <2>5. Filling(c)' /\ at'[c] = "findServices"
      BY <2>1, <2>4
    <2> QED
      BY <2>1, <2>2, <2>5
  <1>5. ASSUME NEW c \in Scrapes, FindServices(c) PROVE GaugesFilled'
    <2>1. /\ at[c] = "findServices" /\ at' = [at EXCEPT ![c] = "countIncidents"]
          /\ total' = Cardinality(services) /\ todo' = [todo EXCEPT ![c] = services]
          /\ UNCHANGED <<sample, recent, reading, overlapped>>
      BY <1>5 DEF FindServices
    <2>2. ASSUME c \notin overlapped PROVE Filling(c)'
      <3>1. Filling(c)
        BY <2>1, <2>2
      <3>2. Filled' = {} /\ Due(c)' = services
        BY <2>1, <3>1
      <3>3. Filled' \union Due(c)' = services
        BY <3>2
      <3> QED
        BY <2>1, <3>1, <3>3
    <2> QED
      BY <2>1, <2>2, OneFills
  <1>6. ASSUME NEW c \in Scrapes, CountIncidents(c) PROVE GaugesFilled'
    <2>1. /\ at[c] = "countIncidents" /\ NextService(c, todo[c])
          /\ UNCHANGED <<sample, recent, total, reading, overlapped>>
      BY <1>6 DEF CountIncidents
    <2>2. ASSUME c \notin overlapped PROVE Filling(c)'
      <3>1. Filling(c) /\ Filled' = Filled
        BY <2>1, <2>2
      <3>2. CASE /\ todo[c] = {} /\ at' = [at EXCEPT ![c] = "metrics"]
                 /\ UNCHANGED <<todo, current>>
        <4>1. Due(c)' = Due(c) /\ todo'[c] = {} /\ at'[c] = "metrics"
          BY <2>1, <3>2
        <4> QED
          BY <2>1, <3>1, <4>1
      <3>3. CASE \E q \in todo[c] : /\ current' = [current EXCEPT ![c] = q]
                                    /\ todo' = [todo EXCEPT ![c] = todo[c] \ {q}]
                                    /\ at' = [at EXCEPT ![c] = "countSuccesses"]
        <4>1. PICK q \in todo[c] : /\ current' = [current EXCEPT ![c] = q]
                                   /\ todo' = [todo EXCEPT ![c] = todo[c] \ {q}]
                                   /\ at' = [at EXCEPT ![c] = "countSuccesses"]
          BY <3>3
        <4>2. current'[c] = q /\ todo'[c] = todo[c] \ {q} /\ at'[c] = "countSuccesses"
          BY <4>1
        <4>3. Due(c)' = Due(c)
          BY <2>1, <4>2
        <4> QED
          BY <2>1, <3>1, <4>2, <4>3
      <3> QED
        BY <2>1, <3>2, <3>3, NextDue
    <2>3. \A d \in Scrapes \ {c} : at'[d] = at[d]
      BY <2>1 DEF NextService
    <2> QED
      BY <2>1, <2>2, <2>3, OneFills
  <1>7. ASSUME NEW c \in Scrapes, CountSuccesses(c) PROVE GaugesFilled'
    <2>1. /\ at[c] = "countSuccesses" /\ at' = [at EXCEPT ![c] = "countTotal"]
          /\ UNCHANGED <<sample, recent, total, todo, current, reading, overlapped>>
      BY <1>7 DEF CountSuccesses
    <2>2. ASSUME c \notin overlapped PROVE Filling(c)'
      <3>1. Filling(c) /\ Filled' = Filled /\ Due(c)' = Due(c)
        BY <2>1, <2>2
      <3> QED
        BY <2>1, <3>1
    <2> QED
      BY <2>1, <2>2, OneFills
  <1>8. ASSUME NEW c \in Scrapes, CountTotal(c) PROVE GaugesFilled'
    <2> DEFINE s == current[c]
               read == [total |-> checks[s].total, success |-> successCount[c]]
    <2>1. /\ at[c] = "countTotal" /\ at' = [at EXCEPT ![c] = "findLatencies"]
          /\ sample' = [sample EXCEPT ![s] = read]
          /\ UNCHANGED <<total, recent, todo, current, overlapped>>
      BY <1>8 DEF CountTotal
    <2>2. s \in Monitored /\ read \in Counts /\ read # Unset
      BY <2>1 DEF Counts, Unset
    <2>4. reading' = [reading EXCEPT ![c][s].sample = read]
      BY <1>8, Zenon DEF CountTotal
    <2> HIDE DEF read
    <2>3. ASSUME c \notin overlapped PROVE Filling(c)'
      <3>1. Filling(c)
        BY <2>1, <2>3
      <3>6. /\ reading'[c][s].sample = read /\ reading'[c][s].recent = reading[c][s].recent
            /\ \A q \in Monitored \ {s} : reading'[c][q] = reading[c][q]
        <4>1. reading \in [Scrapes -> [Monitored -> Readings]]
          OBVIOUS
        <4> HIDE DEF s, ScrapeTypeOK, ScrapeHolds, ScrapesAlone, GaugesFilled
        <4>2. s \in Monitored
          BY <2>2
        <4>3. \A d \in Scrapes, q \in Monitored : (d # c \/ q # s) => reading'[d][q] = reading[d][q]
          BY <4>1, <2>2, <2>4, SampleRead
        <4>4. reading'[c][s].sample = read /\ reading'[c][s].recent = reading[c][s].recent
          BY <4>1, <2>2, <2>4, SampleRead
        <4> QED
          BY <4>3, <4>4
      <3>2. /\ sample'[s] = read /\ reading'[c][s].sample = read
            /\ reading'[c][s].recent = reading[c][s].recent
            /\ \A q \in Monitored \ {s} : sample'[q] = sample[q] /\ reading'[c][q] = reading[c][q]
        BY <2>1, <2>2, <3>6
      <3>3. Filled' = Filled \union {s}
        BY <2>2, <3>2
      <3>4. Due(c) = todo[c] \union {s} /\ Due(c)' = todo[c]
        BY <2>1
      <3>5. Filled' \union Due(c)' = Filled \union Due(c)
        BY <3>3, <3>4
      <3> HIDE DEF Filled, Due
      <3> QED
        BY <2>1, <3>1, <3>2, <3>5
    <2> QED
      BY <2>1, <2>3, OneFills
  <1>9. ASSUME NEW c \in Scrapes, FindLatencies(c) PROVE GaugesFilled'
    <2> DEFINE s == current[c]
               latest == checks[s].total
    <2>1. /\ at[c] = "findLatencies" /\ NextService(c, todo[c])
          /\ recent' = [recent EXCEPT ![s] = latest]
          /\ UNCHANGED <<sample, total, overlapped>>
      BY <1>9 DEF FindLatencies
    <2>0. s \in Monitored /\ latest \in 0..MaxStored
      BY <2>1 DEF Counts
    <2>4. reading' = [reading EXCEPT ![c][s].recent = latest]
      BY <1>9, Zenon DEF FindLatencies
    <2> HIDE DEF latest
    <2>2. ASSUME c \notin overlapped PROVE Filling(c)'
      <3>0. Filling(c) /\ Filled' = Filled
        BY <2>1, <2>2
      <3>6. /\ reading'[c][s].sample = reading[c][s].sample /\ reading'[c][s].recent = latest
            /\ \A q \in Monitored \ {s} : reading'[c][q] = reading[c][q]
        <4>1. reading \in [Scrapes -> [Monitored -> Readings]]
          OBVIOUS
        <4> HIDE DEF s, ScrapeTypeOK, ScrapeHolds, ScrapesAlone, GaugesFilled
        <4>2. s \in Monitored
          BY <2>0
        <4>3. \A d \in Scrapes, q \in Monitored : (d # c \/ q # s) => reading'[d][q] = reading[d][q]
          BY <4>1, <2>0, <2>4, LatencyRead
        <4>4. reading'[c][s].sample = reading[c][s].sample /\ reading'[c][s].recent = latest
          BY <4>1, <2>0, <2>4, LatencyRead
        <4> QED
          BY <4>3, <4>4
      <3>4. /\ recent'[s] = latest /\ reading'[c][s].recent = latest
            /\ reading'[c][s].sample = reading[c][s].sample
            /\ \A q \in Monitored \ {s} : recent'[q] = recent[q] /\ reading'[c][q] = reading[c][q]
        BY <2>0, <2>1, <3>6
      <3>1. /\ \A q \in Monitored :
                  sample'[q] = reading'[c][q].sample /\ recent'[q] = reading'[c][q].recent
            /\ total = Cardinality(Filled \union Due(c)) /\ Filled' = Filled
        BY <2>1, <3>0, <3>4
      <3>2. CASE /\ todo[c] = {} /\ at' = [at EXCEPT ![c] = "metrics"]
                 /\ UNCHANGED <<todo, current>>
        <4>1. Due(c)' = Due(c) /\ todo'[c] = {} /\ at'[c] = "metrics"
          BY <2>1, <3>2
        <4> QED
          BY <2>1, <3>1, <4>1
      <3>3. CASE \E q \in todo[c] : /\ current' = [current EXCEPT ![c] = q]
                                    /\ todo' = [todo EXCEPT ![c] = todo[c] \ {q}]
                                    /\ at' = [at EXCEPT ![c] = "countSuccesses"]
        <4>1. PICK q \in todo[c] : /\ current' = [current EXCEPT ![c] = q]
                                   /\ todo' = [todo EXCEPT ![c] = todo[c] \ {q}]
                                   /\ at' = [at EXCEPT ![c] = "countSuccesses"]
          BY <3>3
        <4>2. current'[c] = q /\ todo'[c] = todo[c] \ {q} /\ at'[c] = "countSuccesses"
          BY <4>1
        <4>3. Due(c)' = Due(c)
          BY <2>1, <4>2
        <4> QED
          BY <2>1, <3>1, <4>2, <4>3
      <3> QED
        BY <2>1, <3>2, <3>3, NextDue
    <2>3. \A d \in Scrapes \ {c} : at'[d] = at[d]
      BY <2>1 DEF NextService
    <2> QED
      BY <2>1, <2>2, <2>3, OneFills
  <1>10. ASSUME NEW c \in Scrapes, AnswerScrape(c) PROVE GaugesFilled'
    BY <1>10 DEF AnswerScrape, EndScrape
  <1>11. ASSUME NEW c \in Scrapes, ScrapeFails(c) PROVE GaugesFilled'
    BY <1>11 DEF ScrapeFails, EndScrape, TablesChange
  <1>12. CASE UNCHANGED scrapeVars
    BY <1>12 DEF scrapeVars
  <1> QED
    BY <1>1, <1>2, <1>3, <1>4, <1>5, <1>6, <1>7, <1>8, <1>9, <1>10, <1>11, <1>12
       DEF ScrapeNext

\* What holds of the scrapes at every step.
ScrapeInv == ScrapeTypeOK /\ ScrapeHolds /\ ReadsNothing /\ ScrapesAlone /\ GaugesFilled

\* It holds when the API has started.
LEMMA InitScrapeInv == ScrapeInit => ScrapeInv
  <1> SUFFICES ASSUME ScrapeInit PROVE ScrapeInv
    OBVIOUS
  <1> USE ScrapeAssumption DEF ScrapeInit, NotSeen, NoChecks, Never, Unset, Counts, Readings
  <1>1. ScrapeTypeOK
    <2>1. total \in 0..Cardinality(Monitored)
      BY FS_CardinalityType
    <2>2. reading \in [Scrapes -> [Monitored -> Readings]]
      OBVIOUS
    <2>3. life \in [Monitored -> {"unused", "here", "gone"}] /\ checks \in [Monitored -> Counts]
      OBVIOUS
    <2>4. /\ sample \in [Monitored -> Counts \union {Unset}] 
          /\ recent \in [Monitored -> 0..MaxStored \union {Never}]
      OBVIOUS
    <2>5. overlapped \subseteq Scrapes /\ changes \in 0..MaxChanges
      OBVIOUS
    <2>6. /\ at \in [Scrapes -> {"idle", "findServices", "countIncidents", "countSuccesses",
                           "countTotal", "findLatencies", "metrics"}]
          /\ todo \in [Scrapes -> SUBSET Monitored]
          /\ current \in [Scrapes -> Monitored \union {"none"}]
          /\ successCount \in [Scrapes -> 0..MaxStored]
      OBVIOUS
    <2> QED
      BY <2>1, <2>2, <2>3, <2>4, <2>5, <2>6 DEF ScrapeTypeOK
  <1>2. ScrapeHolds
    BY DEF ScrapeHolds
  <1>3. ReadsNothing /\ ScrapesAlone /\ GaugesFilled
    BY DEF ReadsNothing, ScrapesAlone, GaugesFilled
  <1> QED
    BY <1>1, <1>2, <1>3 DEF ScrapeInv

\* For any services, scrapes, checks and changes, a scrape that no other overlapped
\* answers with what it has read for each service it found, as many as the global gauge
\* says: MetricsService.getMetrics over a registry that all scrapes share.
THEOREM ScrapesAreComplete == ScrapeSpec => [](ScrapeTypeOK /\ ScrapeComplete)
  <1>1. ScrapeInv /\ [ScrapeNext]_scrapeVars => ScrapeInv'
    BY TypesKept, ReadsNothingKept, AloneKept, FillingKept DEF ScrapeInv
  <1>2. ScrapeInv => ScrapeTypeOK /\ ScrapeComplete
    <2> SUFFICES ASSUME ScrapeInv, NEW c \in Scrapes, at[c] = "metrics", c \notin overlapped
                 PROVE  /\ \A s \in Monitored :
                              sample[s] = reading[c][s].sample /\ recent[s] = reading[c][s].recent
                        /\ total = Cardinality({s \in Monitored : sample[s] # Unset})
      BY DEF ScrapeComplete, ScrapeInv
    <2>1. ScrapeTypeOK /\ Filling(c)
      BY DEF ScrapeInv, GaugesFilled
    <2>2. Due(c) = {}
      BY <2>1 DEF Due, Filling
    <2>3. Filled \union Due(c) = {s \in Monitored : sample[s] # Unset}
      BY <2>2 DEF Filled
    <2> QED
      BY <2>1, <2>3 DEF Filling
  <1> QED
    BY <1>1, <1>2, InitScrapeInv, PTL DEF ScrapeSpec

------------------------------------------------------------------------------
\* AuditLog: the log tells what was done.

\* The kinds of actions, and the records of requests and rows.
Kinds == Actions \union {"login_failed"}
Requested == [no : Numbers, action : Kinds, by : Actors]
RowType == [no : Numbers, action : Kinds, userId : Actors \union {"none"}]

\* Every variable has its type; actions and rows are finite sequences.
AuditTyped ==
    /\ handled \in [Audited -> Requested \union {NoRequest}] /\ arrived \in 0..MaxAudited
    /\ acted \subseteq Audited
    /\ done \in Seq(Requested)
    /\ inserting \subseteq RowType
    /\ auditLogs \in Seq(RowType)
    /\ together \subseteq SUBSET Numbers /\ unwritten \subseteq Numbers

\* A request is handled once and carried out once, under its own number, and its row
\* is inserted once.
Numbered ==
    /\ \A c \in Audited : Busy(c) => handled[c].no \in 1..arrived
    /\ \A c \in Audited \ acted, i \in DOMAIN done : Busy(c) => done[i].no # handled[c].no
    /\ \A c, d \in Audited : Busy(c) /\ Busy(d) /\ c # d => handled[c].no # handled[d].no
    /\ \A i \in DOMAIN done : done[i].no \in 1..arrived
    /\ \A i, j \in DOMAIN done : done[i].no = done[j].no => i = j
    /\ \A c \in acted : Busy(c)
    /\ \A c \in acted, row \in inserting : row.no # handled[c].no

\* The row tells of the action.
Tells(row, act) ==
    /\ act.no = row.no /\ act.action = row.action
    /\ \/ row.userId = act.by
       \/ row.userId = "none" /\ row.action \in {"logout", "login_failed"}

\* Every row, stored or due, is of an action that was carried out.
RowsTell ==
    /\ \A row \in Pending : \E k \in DOMAIN done : Tells(row, done[k])
    /\ \A i \in DOMAIN auditLogs : \E k \in DOMAIN done : Tells(auditLogs[i], done[k])

\* The action of number a was carried out before that of number b.
Before(acts, a, b) ==
    \A k, l \in DOMAIN acts : acts[k].no = a /\ acts[l].no = b => k < l
\* Two rows are in the order of their actions, or were due together.
InOrder(acts, pairs, a, b) ==
    a.no # b.no /\ (Before(acts, a.no, b.no) \/ {a.no, b.no} \in pairs)

\* Stored rows are in order, and those that are due may follow them.
RowsOrdered ==
    /\ \A i, j \in DOMAIN auditLogs : i < j => InOrder(done, together, auditLogs[i], auditLogs[j])
    /\ \A i \in DOMAIN auditLogs, row \in Pending : InOrder(done, together, auditLogs[i], row)
    /\ \A r, s \in Pending : r # s => r.no # s.no /\ {r.no, s.no} \in together

\* Every action has a row, unless the row is due or was lost.
Recorded ==
    \A k \in DOMAIN done :
      \/ \E i \in DOMAIN auditLogs : auditLogs[i].no = done[k].no
      \/ \E row \in Pending : row.no = done[k].no
      \/ done[k].no \in unwritten

\* What holds of the audit log at every step.
AuditInv == AuditTyped /\ Numbered /\ RowsTell /\ RowsOrdered /\ Recorded

\* What Append adds.
LEMMA Appended ==
    ASSUME NEW S, NEW s \in Seq(S), NEW e \in S, NEW t, t = Append(s, e)
    PROVE  /\ t \in Seq(S)
           /\ DOMAIN t = DOMAIN s \union {Len(s) + 1}
           /\ t[Len(s) + 1] = e
           /\ \A i \in DOMAIN s : t[i] = s[i] /\ i < Len(s) + 1
  OBVIOUS

\* The row of a request tells of it.
LEMMA BusyRequest ==
    ASSUME AuditTyped, NEW c \in Audited, Busy(c)
    PROVE  /\ handled[c] \in Requested
           /\ Row(handled[c]) \in RowType
           /\ Row(handled[c]).no = handled[c].no
           /\ Tells(Row(handled[c]), handled[c])
  <1>1. handled[c] \in Requested
    BY DEF AuditTyped, Busy
  <1>2. /\ Row(handled[c]) = [no |-> handled[c].no, action |-> handled[c].action,
                               userId |-> finalUserId(handled[c])]
        /\ finalUserId(handled[c]) \in Actors \union {"none"}
        /\ \/ finalUserId(handled[c]) = handled[c].by
           \/ finalUserId(handled[c]) = "none" /\ handled[c].action = "logout"
    BY <1>1 DEF Row, finalUserId, Requested
  <1>3. handled[c].no \in Numbers /\ handled[c].action \in Kinds
    BY <1>1 DEF Requested
  <1> QED
    BY <1>1, <1>2, <1>3 DEF RowType, Tells

\* What a rejected login stores.
LEMMA Rejected ==
    ASSUME AuditTyped, NEW c \in Audited, RejectLogin(c)
    PROVE  /\ Busy(c)
           /\ \E request \in Requested, row \in RowType :
                /\ request.no = handled[c].no /\ row.no = handled[c].no /\ Tells(row, request)
                /\ done' = Append(done, request) /\ auditLogs' = Append(auditLogs, row)
                /\ Beside(request)
           /\ c \notin acted /\ Handled(c) /\ UNCHANGED <<arrived, acted, inserting, unwritten>>
  <1>1. Busy(c) /\ handled[c].action = "login" /\ c \notin acted
    BY DEF RejectLogin, Busy, NoRequest
  <1>2. handled[c] \in Requested
    BY <1>1, BusyRequest
  <1> DEFINE request == [handled[c] EXCEPT !.action = "login_failed"]
  <1>3. /\ request = [no |-> handled[c].no, action |-> "login_failed", by |-> handled[c].by]
        /\ request \in Requested /\ request.no = handled[c].no /\ request.by \in Actors
        /\ request.no \in Numbers
    BY <1>2 DEF Requested, Kinds
  <1>4. PICK userId \in {"none", request.by} :
            auditLogs' = Append(auditLogs, [Row(request) EXCEPT !.userId = userId])
    BY DEF RejectLogin
  <1> DEFINE row == [no |-> request.no, action |-> "login_failed", userId |-> userId]
  <1>5. [Row(request) EXCEPT !.userId = userId] = row
    BY <1>3 DEF Row
  <1>6. row \in RowType /\ row.no = handled[c].no /\ Tells(row, request)
    BY <1>3 DEF RowType, Tells, Kinds
  <1>7. done' = Append(done, request) /\ Beside(request) /\ Handled(c)
        /\ UNCHANGED <<arrived, acted, inserting, unwritten>>
    BY DEF RejectLogin
  <1> HIDE DEF request, row
  <1> QED
    BY <1>1, <1>3, <1>4, <1>5, <1>6, <1>7

\* The rows that are due stay so when a handler ends whose action was not carried out.
LEMMA PendingStays ==
    ASSUME AuditInv, NEW c \in Audited, Handled(c), c \notin acted, UNCHANGED <<acted, inserting>>
    PROVE  Pending' = Pending
  <1>1. \A d \in acted : handled'[d] = handled[d]
    BY DEF AuditInv, AuditTyped, Handled
  <1> QED
    BY <1>1 DEF Pending, Row, finalUserId

\* They stay so when a request comes.
LEMMA PendingArrives ==
    ASSUME AuditInv, NEW c \in Audited, AuditedRequest(c)
    PROVE  Pending' = Pending
  <1>1. \A d \in acted : handled'[d] = handled[d]
    BY DEF AuditInv, AuditTyped, Numbered, AuditedRequest
  <1> QED
    BY <1>1 DEF Pending, Row, finalUserId, AuditedRequest

\* An action that is carried out adds its row.
LEMMA PendingGrows ==
    ASSUME NEW c \in Audited, CarryOut(c)
    PROVE  Pending' = Pending \union {Row(handled[c])}
  BY DEF CarryOut, Pending, Row, finalUserId

\* The start of the insert changes nothing: the row was due.
LEMMA PendingInserts ==
    ASSUME AuditInv, NEW c \in Audited, LogAudit(c)
    PROVE  Pending' = Pending
  <1>1. \A d \in acted \ {c} : handled'[d] = handled[d]
    BY DEF AuditInv, AuditTyped, LogAudit, Handled
  <1>2. acted' = acted \ {c} /\ c \in acted /\ inserting' = inserting \union {Row(handled[c])}
    BY DEF LogAudit
  <1> QED
    BY <1>1, <1>2 DEF Pending, Row, finalUserId

\* A handler that fails late loses its row and no other.
LEMMA PendingLost ==
    ASSUME AuditInv, NEW c \in Audited, HandlerFailsLate(c)
    PROVE  Pending' \subseteq Pending /\ Pending \subseteq Pending' \union {Row(handled[c])}
  <1>1. \A d \in acted \ {c} : handled'[d] = handled[d]
    BY DEF AuditInv, AuditTyped, HandlerFailsLate, Handled
  <1>2. acted' = acted \ {c} /\ inserting' = inserting
    BY DEF HandlerFailsLate
  <1> QED
    BY <1>1, <1>2 DEF Pending, Row, finalUserId

\* An insert that ends, either way, removes its row; no other row has its number.
LEMMA PendingEnds ==
    ASSUME AuditInv, NEW row \in inserting, inserting' = inserting \ {row},
           UNCHANGED <<handled, acted>>
    PROVE  Pending' = Pending \ {row}
  <1>1. \A d \in acted : Row(handled[d]).no # row.no
    BY DEF AuditInv, Numbered, Row
  <1>2. \A d \in acted : Row(handled[d]) # row
    BY <1>1
  <1> QED
    BY <1>2 DEF Pending, Row, finalUserId

\* The rows that are due are rows, and those of inserts are among them.
LEMMA PendingRows ==
    ASSUME AuditInv
    PROVE  Pending \subseteq RowType /\ inserting \subseteq Pending
  <1>1. \A d \in acted : d \in Audited /\ Busy(d)
    BY DEF AuditInv, AuditTyped, Numbered
  <1>2. \A d \in acted : Row(handled[d]) \in RowType
    BY <1>1, BusyRequest DEF AuditInv
  <1> QED
    BY <1>2 DEF AuditInv, AuditTyped, Pending

\* Every step keeps the types.
LEMMA AuditTypedKept ==
    ASSUME AuditInv, [AuditNext]_auditVars
    PROVE  AuditTyped'
  <1> USE AuditAssumption DEF AuditInv, AuditTyped, Handled
  <1>1. ASSUME NEW c \in Audited, AuditedRequest(c) PROVE AuditTyped'
    BY <1>1 DEF AuditedRequest, Requested, Numbers, Kinds
  <1>2. ASSUME NEW c \in Audited, Refuse(c) PROVE AuditTyped'
    BY <1>2 DEF Refuse
  <1>3. ASSUME NEW c \in Audited, RejectLogin(c) PROVE AuditTyped'
    <2>1. PICK request \in Requested, row \in RowType :
              /\ request.no = handled[c].no /\ row.no = handled[c].no /\ Tells(row, request)
              /\ done' = Append(done, request) /\ auditLogs' = Append(auditLogs, row)
              /\ Beside(request)
      BY <1>3, Rejected
    <2>2. Handled(c) /\ UNCHANGED <<arrived, acted, inserting, unwritten>>
      BY <1>3, Rejected
    <2>3. together' \subseteq SUBSET Numbers
      BY <2>1, PendingRows DEF Beside, Requested, RowType
    <2>4. done' \in Seq(Requested) /\ auditLogs' \in Seq(RowType)
      BY <2>1
    <2> QED
      BY <2>2, <2>3, <2>4
  <1>4. ASSUME NEW c \in Audited, CarryOut(c) PROVE AuditTyped'
    <2>1. handled[c] \in Requested
      BY <1>4, BusyRequest DEF CarryOut
    <2>2. together' \subseteq SUBSET Numbers
      BY <1>4, <2>1, PendingRows DEF CarryOut, Beside, Requested, RowType
    <2> QED
      BY <1>4, <2>1, <2>2 DEF CarryOut
  <1>5. ASSUME NEW c \in Audited, LogAudit(c) \/ HandlerFailsLate(c) PROVE AuditTyped'
    <2>1. Busy(c)
      BY <1>5 DEF LogAudit, HandlerFailsLate, Numbered
    <2>2. handled[c] \in Requested /\ handled[c].no \in Numbers /\ Row(handled[c]) \in RowType
      BY <2>1, BusyRequest DEF Requested
    <2> QED
      BY <1>5, <2>2 DEF LogAudit, HandlerFailsLate, CanFail
  <1>6. CASE InsertAuditLog
    BY <1>6 DEF InsertAuditLog
  <1>7. CASE InsertAuditLogFails
    BY <1>7 DEF InsertAuditLogFails, CanFail, RowType
  <1>8. CASE UNCHANGED auditVars
    BY <1>8 DEF auditVars
  <1> QED
    BY <1>1, <1>2, <1>3, <1>4, <1>5, <1>6, <1>7, <1>8 DEF AuditNext

\* An action is carried out under a number that none before it has.
LEMMA CarriedOut ==
    ASSUME AuditInv, NEW c \in Audited, Busy(c), c \notin acted, NEW request \in Requested,
           request.no = handled[c].no, done' = Append(done, request)
    PROVE  /\ DOMAIN done' = DOMAIN done \union {Len(done) + 1}
           /\ done'[Len(done) + 1] = request
           /\ \A i \in DOMAIN done : done'[i] = done[i] /\ i < Len(done) + 1
           /\ \A i \in DOMAIN done : done[i].no # request.no
           /\ \A i \in DOMAIN done' : done'[i].no \in 1..arrived
           /\ \A i, j \in DOMAIN done' : done'[i].no = done'[j].no => i = j
           /\ \A i \in DOMAIN done' : i \in DOMAIN done \/ done'[i].no = handled[c].no
  <1>1. /\ DOMAIN done' = DOMAIN done \union {Len(done) + 1}
        /\ done'[Len(done) + 1] = request
        /\ \A i \in DOMAIN done : done'[i] = done[i] /\ i < Len(done) + 1
    BY Appended DEF AuditInv, AuditTyped
  <1>2. \A i \in DOMAIN done : done[i].no # request.no
    BY DEF AuditInv, Numbered
  <1>3. request.no \in 1..arrived
    BY DEF AuditInv, Numbered
  <1> QED
    BY <1>1, <1>2, <1>3 DEF AuditInv, Numbered

\* Every step keeps the numbering.
LEMMA NumberedKept ==
    ASSUME AuditInv, [AuditNext]_auditVars
    PROVE  Numbered'
  <1> USE AuditAssumption
  <1>0. AuditTyped /\ Numbered
    BY DEF AuditInv
  <1>1. ASSUME NEW c \in Audited, AuditedRequest(c) PROVE Numbered'
    <2>1. PICK action \in Actions, by \in Actors :
            handled' = [handled EXCEPT ![c] = [no |-> arrived', action |-> action, by |-> by]]
      BY <1>1 DEF AuditedRequest
    <2>2. /\ handled'[c].no = arrived + 1 /\ arrived' = arrived + 1
          /\ UNCHANGED <<acted, done, inserting>> /\ arrived \in Nat
          /\ \A d \in Audited \ {c} : handled'[d] = handled[d]
      BY <1>0, <1>1, <2>1 DEF AuditedRequest, AuditTyped
    <2>3. \A d \in Audited \ {c} : Busy(d)' <=> Busy(d)
      BY <2>2 DEF Busy
    <2>4. c \notin acted /\ acted \subseteq Audited
      BY <1>0, <1>1 DEF AuditedRequest, AuditTyped, Numbered
    <2> QED
      BY <1>0, <2>2, <2>3, <2>4 DEF Numbered
  <1>2. ASSUME NEW c \in Audited, Handled(c)
        PROVE  /\ \A d \in Audited : Busy(d)' <=> Busy(d) /\ d # c
               /\ \A d \in Audited \ {c} : handled'[d] = handled[d]
    BY <1>0, <1>2 DEF AuditTyped, Handled, Busy
  <1>3. ASSUME NEW c \in Audited, Refuse(c) PROVE Numbered'
    BY <1>0, <1>2, <1>3 DEF Refuse, Numbered, AuditTyped
  <1>4. ASSUME NEW c \in Audited, RejectLogin(c) PROVE Numbered'
    <2>1. /\ Busy(c) /\ c \notin acted /\ Handled(c) /\ UNCHANGED <<arrived, acted, inserting>>
          /\ \E request \in Requested :
                request.no = handled[c].no /\ done' = Append(done, request)
      BY <1>0, <1>4, Rejected
    <2>2. /\ \A i \in DOMAIN done' : done'[i].no \in 1..arrived
          /\ \A i, j \in DOMAIN done' : done'[i].no = done'[j].no => i = j
          /\ \A i \in DOMAIN done' : \/ i \in DOMAIN done /\ done'[i] = done[i]
                                     \/ done'[i].no = handled[c].no
      BY <2>1, CarriedOut
    <2> QED
      BY <1>0, <1>2, <2>1, <2>2 DEF Numbered, AuditTyped
  <1>5. ASSUME NEW c \in Audited, CarryOut(c) PROVE Numbered'
    <2>1. /\ Busy(c) /\ c \notin acted /\ UNCHANGED <<handled, arrived, inserting>>
          /\ acted' = acted \union {c} /\ done' = Append(done, handled[c])
          /\ handled[c] \in Requested
      BY <1>0, <1>5, BusyRequest DEF CarryOut
    <2>2. /\ \A i \in DOMAIN done' : done'[i].no \in 1..arrived
          /\ \A i, j \in DOMAIN done' : done'[i].no = done'[j].no => i = j
          /\ \A i \in DOMAIN done' : \/ i \in DOMAIN done /\ done'[i] = done[i]
                                     \/ done'[i].no = handled[c].no
      BY <2>1, CarriedOut
    <2>3. \A d \in Audited : Busy(d)' <=> Busy(d)
      BY <2>1 DEF Busy
    <2>4. \A row \in inserting : row.no # handled[c].no
      \* An insert is of an action that was carried out before.
      BY <1>0, <2>1, PendingRows DEF AuditInv, Numbered, RowsTell, Tells
    <2> QED
      BY <1>0, <2>1, <2>2, <2>3, <2>4 DEF Numbered, AuditTyped
  <1>6. ASSUME NEW c \in Audited, LogAudit(c) \/ HandlerFailsLate(c) PROVE Numbered'
    <2>1. /\ c \in acted /\ acted' = acted \ {c} /\ Handled(c) /\ UNCHANGED <<arrived, done>>
          /\ inserting' \subseteq inserting \union {Row(handled[c])}
          /\ Row(handled[c]).no = handled[c].no
      BY <1>6 DEF LogAudit, HandlerFailsLate, Row
    <2>2. \A d \in acted' : handled'[d].no = handled[d].no /\ handled[d].no # handled[c].no
      BY <1>0, <1>2, <2>1 DEF Numbered, AuditTyped
    <2>3. \A d \in Audited : Busy(d)' => d # c
      BY <1>2, <2>1
    <2> QED
      BY <1>0, <1>2, <2>1, <2>2, <2>3 DEF Numbered, AuditTyped
  <1>7. CASE InsertAuditLog \/ InsertAuditLogFails
    BY <1>0, <1>7 DEF InsertAuditLog, InsertAuditLogFails, Numbered, Busy
  <1>8. CASE UNCHANGED auditVars
    BY <1>0, <1>8 DEF auditVars, Numbered, Busy
  <1> QED
    BY <1>1, <1>3, <1>4, <1>5, <1>6, <1>7, <1>8 DEF AuditNext

\* Appending an action keeps the order of those before it.
LEMMA OrderStays ==
    ASSUME AuditInv, NEW c \in Audited, Busy(c), c \notin acted, NEW request \in Requested,
           request.no = handled[c].no, done' = Append(done, request),
           together \subseteq together'
    PROVE  /\ \A row : (\E k \in DOMAIN done : Tells(row, done[k])) =>
                         /\ \E k \in DOMAIN done' : Tells(row, done'[k])
                         /\ row.no # request.no /\ Before(done', row.no, request.no)
           /\ \A a, b : /\ \E k \in DOMAIN done : Tells(a, done[k])
                        /\ \E k \in DOMAIN done : Tells(b, done[k])
                        /\ InOrder(done, together, a, b)
                        => InOrder(done', together', a, b)
  <1>1. /\ DOMAIN done' = DOMAIN done \union {Len(done) + 1}
        /\ done'[Len(done) + 1] = request
        /\ \A i \in DOMAIN done : done'[i] = done[i] /\ i < Len(done) + 1
        /\ \A i \in DOMAIN done : done[i].no # request.no
    BY CarriedOut
  <1>2. ASSUME NEW row, NEW k \in DOMAIN done, Tells(row, done[k])
        PROVE  /\ \E l \in DOMAIN done' : Tells(row, done'[l])
               /\ row.no # request.no /\ row.no = done[k].no
    BY <1>1, <1>2 DEF Tells
  <1>3. ASSUME NEW row, row.no # request.no
        PROVE  Before(done', row.no, request.no)
    BY <1>1, <1>3 DEF Before
  <1>4. ASSUME NEW a, NEW b, a.no # request.no, b.no # request.no, InOrder(done, together, a, b)
        PROVE  InOrder(done', together', a, b)
    <2>1. CASE Before(done, a.no, b.no)
      BY <1>1, <1>4, <2>1 DEF InOrder, Before
    <2>2. CASE {a.no, b.no} \in together
      BY <1>4, <2>2 DEF InOrder
    <2> QED
      BY <1>4, <2>1, <2>2 DEF InOrder
  <1> QED
    BY <1>2, <1>3, <1>4

\* A step that carries out and stores nothing: rows may cease to be due only when they
\* are lost.
QuietStep ==
    /\ UNCHANGED <<done, auditLogs, together>> /\ unwritten \subseteq unwritten'
    /\ Pending' \subseteq Pending
    /\ \A row \in Pending : row \in Pending' \/ row.no \in unwritten'

\* Three kinds of steps are not quiet.
LEMMA AuditSteps ==
    ASSUME AuditInv, [AuditNext]_auditVars
    PROVE  \/ QuietStep \/ InsertAuditLog
           \/ \E c \in Audited : RejectLogin(c) \/ CarryOut(c)
  <1> USE DEF QuietStep
  <1>1. ASSUME NEW c \in Audited, AuditedRequest(c) PROVE QuietStep
    BY <1>1, PendingArrives DEF AuditedRequest
  <1>2. ASSUME NEW c \in Audited, Refuse(c) PROVE QuietStep
    BY <1>2, PendingStays DEF Refuse
  <1>3. ASSUME NEW c \in Audited, LogAudit(c) PROVE QuietStep
    BY <1>3, PendingInserts DEF LogAudit
  <1>4. ASSUME NEW c \in Audited, HandlerFailsLate(c) PROVE QuietStep
    <2>1. handled[c].no \in unwritten' /\ unwritten \subseteq unwritten'
          /\ Row(handled[c]).no = handled[c].no
      BY <1>4 DEF HandlerFailsLate, CanFail, Row
    <2> QED
      BY <1>4, <2>1, PendingLost DEF HandlerFailsLate
  <1>5. CASE InsertAuditLogFails
    <2>1. PICK row \in inserting : inserting' = inserting \ {row} /\ CanFail(row.no)
      BY <1>5 DEF InsertAuditLogFails
    <2>2. UNCHANGED <<handled, acted, done, auditLogs, together>>
      BY <1>5 DEF InsertAuditLogFails
    <2>3. Pending' = Pending \ {row}
      BY <2>1, <2>2, PendingEnds
    <2> QED
      BY <2>1, <2>2, <2>3 DEF CanFail
  <1>6. CASE UNCHANGED auditVars
    BY <1>6 DEF auditVars, Pending, Row, finalUserId
  <1> QED
    BY <1>1, <1>2, <1>3, <1>4, <1>5, <1>6 DEF AuditNext

\* Every step keeps the rows telling of actions.
LEMMA RowsTellKept ==
    ASSUME AuditInv, [AuditNext]_auditVars
    PROVE  RowsTell'
  <1>0. RowsTell /\ AuditTyped
    BY DEF AuditInv
  <1>1. CASE QuietStep
    BY <1>0, <1>1 DEF QuietStep, RowsTell, Tells
  <1>2. ASSUME NEW c \in Audited, RejectLogin(c) PROVE RowsTell'
    <2>1. PICK request \in Requested, row \in RowType :
              /\ request.no = handled[c].no /\ row.no = handled[c].no /\ Tells(row, request)
              /\ done' = Append(done, request) /\ auditLogs' = Append(auditLogs, row)
              /\ Beside(request)
      BY <1>0, <1>2, Rejected
    <2>2. /\ Busy(c) /\ c \notin acted /\ Handled(c)
          /\ UNCHANGED <<arrived, acted, inserting, unwritten>>
      BY <1>0, <1>2, Rejected
    <2>3. /\ DOMAIN done' = DOMAIN done \union {Len(done) + 1}
          /\ done'[Len(done) + 1] = request
          /\ \A i \in DOMAIN done : done'[i] = done[i]
      BY <2>1, <2>2, CarriedOut
    <2>4. /\ DOMAIN auditLogs' = DOMAIN auditLogs \union {Len(auditLogs) + 1}
          /\ auditLogs'[Len(auditLogs) + 1] = row
          /\ \A i \in DOMAIN auditLogs : auditLogs'[i] = auditLogs[i]
      BY <1>0, <2>1, Appended DEF AuditTyped
    <2>5. \E k \in DOMAIN done' : Tells(row, done'[k])
      BY <2>1, <2>3
    <2>6. \A r : (\E k \in DOMAIN done : Tells(r, done[k]))
              => \E k \in DOMAIN done' : Tells(r, done'[k])
      BY <2>3
    <2>7. Pending' = Pending
      BY <2>2, PendingStays
    <2>8. /\ \A r \in Pending' : \E k \in DOMAIN done' : Tells(r, done'[k])
          /\ \A i \in DOMAIN auditLogs' : \E k \in DOMAIN done' : Tells(auditLogs'[i], done'[k])
      BY <1>0, <2>4, <2>5, <2>6, <2>7 DEF RowsTell
    <2> QED
      BY <2>8 DEF RowsTell, Tells
  <1>3. ASSUME NEW c \in Audited, CarryOut(c) PROVE RowsTell'
    <2>1. /\ Busy(c) /\ c \notin acted /\ UNCHANGED auditLogs
          /\ done' = Append(done, handled[c])
      BY <1>3 DEF CarryOut
    <2>2. handled[c] \in Requested /\ Tells(Row(handled[c]), handled[c])
      BY <1>0, <2>1, BusyRequest
    <2>3. /\ DOMAIN done' = DOMAIN done \union {Len(done) + 1}
          /\ done'[Len(done) + 1] = handled[c]
          /\ \A i \in DOMAIN done : done'[i] = done[i]
      BY <2>1, <2>2, CarriedOut
    <2>4. Pending' = Pending \union {Row(handled[c])}
      BY <1>3, PendingGrows
    <2>5. /\ \A r \in Pending' : \E k \in DOMAIN done' : Tells(r, done'[k])
          /\ \A i \in DOMAIN auditLogs' : \E k \in DOMAIN done' : Tells(auditLogs'[i], done'[k])
      BY <1>0, <2>1, <2>2, <2>3, <2>4 DEF RowsTell
    <2> QED
      BY <2>5 DEF RowsTell, Tells
  <1>4. CASE InsertAuditLog
    <2>1. PICK row \in inserting :
              inserting' = inserting \ {row} /\ auditLogs' = Append(auditLogs, row)
      BY <1>4 DEF InsertAuditLog
    <2>2. UNCHANGED <<handled, acted, done>>
      BY <1>4 DEF InsertAuditLog
    <2>3. /\ DOMAIN auditLogs' = DOMAIN auditLogs \union {Len(auditLogs) + 1}
          /\ auditLogs'[Len(auditLogs) + 1] = row
          /\ \A i \in DOMAIN auditLogs : auditLogs'[i] = auditLogs[i]
      BY <1>0, <2>1, Appended, PendingRows DEF AuditTyped
    <2>4. Pending' = Pending \ {row} /\ row \in Pending
      BY <2>1, <2>2, PendingEnds, PendingRows
    <2>5. /\ \A r \in Pending' : \E k \in DOMAIN done' : Tells(r, done'[k])
          /\ \A i \in DOMAIN auditLogs' : \E k \in DOMAIN done' : Tells(auditLogs'[i], done'[k])
      BY <1>0, <2>2, <2>3, <2>4 DEF RowsTell
    <2> QED
      BY <2>5 DEF RowsTell, Tells
  <1> QED
    BY <1>1, <1>2, <1>3, <1>4, AuditSteps

\* Every step keeps the rows in order: a row is stored after those that are, and the
\* row of the latest action comes to be due after all that are stored and beside the
\* others.
LEMMA RowsOrderedKept ==
    ASSUME AuditInv, [AuditNext]_auditVars
    PROVE  RowsOrdered'
  <1> USE AuditAssumption
  <1>0. RowsOrdered /\ RowsTell /\ AuditTyped
    BY DEF AuditInv
  <1>1. CASE QuietStep
    <2>1. RowsOrdered /\ UNCHANGED <<done, auditLogs, together>> /\ Pending' \subseteq Pending
      BY <1>0, <1>1 DEF QuietStep
    <2>2. done' = done /\ auditLogs' = auditLogs /\ together' = together
      BY <2>1
    <2>3. /\ \A i, j \in DOMAIN auditLogs' :
                i < j => InOrder(done', together', auditLogs'[i], auditLogs'[j])
          /\ \A i \in DOMAIN auditLogs', row \in Pending' :
                InOrder(done', together', auditLogs'[i], row)
          /\ \A r, s \in Pending' : r # s => r.no # s.no /\ {r.no, s.no} \in together'
      BY <2>1, <2>2 DEF RowsOrdered
    <2> QED
      BY <2>3 DEF RowsOrdered
  <1>2. ASSUME NEW c \in Audited, RejectLogin(c) PROVE RowsOrdered'
    <2>1. PICK request \in Requested, row \in RowType :
              /\ request.no = handled[c].no /\ row.no = handled[c].no /\ Tells(row, request)
              /\ done' = Append(done, request) /\ auditLogs' = Append(auditLogs, row)
              /\ Beside(request)
      BY <1>0, <1>2, Rejected
    <2>2. /\ Busy(c) /\ c \notin acted /\ Handled(c)
          /\ UNCHANGED <<arrived, acted, inserting, unwritten>>
      BY <1>0, <1>2, Rejected
    <2>9. Pending' = Pending
      BY <2>2, PendingStays
    <2>3. /\ together \subseteq together'
          /\ \A r \in Pending : {request.no, r.no} \in together'
      BY <2>1 DEF Beside
    <2>4. /\ DOMAIN auditLogs' = DOMAIN auditLogs \union {Len(auditLogs) + 1}
          /\ auditLogs'[Len(auditLogs) + 1] = row
          /\ \A i \in DOMAIN auditLogs : auditLogs'[i] = auditLogs[i] /\ i < Len(auditLogs) + 1
      BY <1>0, <2>1, Appended DEF AuditTyped
    <2>5. /\ \A r : (\E k \in DOMAIN done : Tells(r, done[k])) =>
                      r.no # request.no /\ Before(done', r.no, request.no)
          /\ \A a, b : /\ \E k \in DOMAIN done : Tells(a, done[k])
                       /\ \E k \in DOMAIN done : Tells(b, done[k])
                       /\ InOrder(done, together, a, b)
                       => InOrder(done', together', a, b)
      BY <2>1, <2>2, <2>3, OrderStays
    <2>6. \A i, j \in DOMAIN auditLogs' :
              i < j => InOrder(done', together', auditLogs'[i], auditLogs'[j])
      <3> SUFFICES ASSUME NEW i \in DOMAIN auditLogs', NEW j \in DOMAIN auditLogs', i < j
                   PROVE  InOrder(done', together', auditLogs'[i], auditLogs'[j])
        OBVIOUS
      <3>1. i \in DOMAIN auditLogs
        BY <2>4, <1>0 DEF AuditTyped
      <3>2. CASE j \in DOMAIN auditLogs
        BY <1>0, <2>4, <2>5, <3>1, <3>2 DEF RowsOrdered, RowsTell
      <3>3. CASE j = Len(auditLogs) + 1
        BY <1>0, <2>1, <2>4, <2>5, <3>1, <3>3 DEF RowsTell, InOrder
      <3> QED
        BY <2>4, <3>2, <3>3
    <2>7. \A i \in DOMAIN auditLogs', r \in Pending' : InOrder(done', together', auditLogs'[i], r)
      <3> SUFFICES ASSUME NEW i \in DOMAIN auditLogs', NEW r \in Pending'
                   PROVE  InOrder(done', together', auditLogs'[i], r)
        OBVIOUS
      <3>1. r \in Pending
        BY <2>9
      <3>2. CASE i \in DOMAIN auditLogs
        BY <1>0, <2>4, <2>5, <3>1, <3>2 DEF RowsOrdered, RowsTell
      <3>3. CASE i = Len(auditLogs) + 1
        BY <1>0, <2>1, <2>3, <2>4, <2>5, <3>1, <3>3 DEF RowsTell, InOrder
      <3> QED
        BY <2>4, <3>2, <3>3
    <2>8. \A r, s \in Pending' : r # s => r.no # s.no /\ {r.no, s.no} \in together'
      BY <1>0, <2>9, <2>3 DEF RowsOrdered
    <2> QED
      BY <2>6, <2>7, <2>8 DEF RowsOrdered
  <1>3. ASSUME NEW c \in Audited, CarryOut(c) PROVE RowsOrdered'
    <2> DEFINE request == handled[c]
    <2> DEFINE row == Row(request)
    <2>1. /\ Busy(c) /\ c \notin acted /\ UNCHANGED auditLogs /\ Beside(request)
          /\ done' = Append(done, request) /\ Pending' = Pending \union {row}
      BY <1>3, PendingGrows DEF CarryOut
    <2>2. request \in Requested /\ row.no = request.no
      BY <1>0, <2>1, BusyRequest
    <2>3. /\ together \subseteq together'
          /\ \A r \in Pending : {request.no, r.no} \in together'
      BY <2>1 DEF Beside
    <2>5. /\ \A r : (\E k \in DOMAIN done : Tells(r, done[k])) =>
                      r.no # request.no /\ Before(done', r.no, request.no)
          /\ \A a, b : /\ \E k \in DOMAIN done : Tells(a, done[k])
                       /\ \E k \in DOMAIN done : Tells(b, done[k])
                       /\ InOrder(done, together, a, b)
                       => InOrder(done', together', a, b)
      BY <2>1, <2>2, <2>3, OrderStays
    <2> HIDE DEF request, row
    <2>6. \A i, j \in DOMAIN auditLogs' :
              i < j => InOrder(done', together', auditLogs'[i], auditLogs'[j])
      BY <1>0, <2>1, <2>5 DEF RowsOrdered, RowsTell
    <2>7. \A i \in DOMAIN auditLogs', r \in Pending' : InOrder(done', together', auditLogs'[i], r)
      <3> SUFFICES ASSUME NEW i \in DOMAIN auditLogs, NEW r \in Pending'
                   PROVE  InOrder(done', together', auditLogs[i], r)
        BY <2>1
      <3>2. CASE r \in Pending
        BY <1>0, <2>5, <3>2 DEF RowsOrdered, RowsTell
      <3>3. CASE r = row
        BY <1>0, <2>2, <2>5, <3>3, <2>1 DEF RowsTell, InOrder
      <3> QED
        BY <2>1, <3>2, <3>3
    <2>8. \A r, s \in Pending' : r # s => r.no # s.no /\ {r.no, s.no} \in together'
      <3>1. \A r \in Pending :
              r.no # request.no /\ {r.no, request.no} \in together'
              /\ {request.no, r.no} \in together'
        <4>1. \A r \in Pending : {r.no, request.no} = {request.no, r.no}
          OBVIOUS
        <4> QED
          BY <1>0, <2>3, <2>5, <4>1 DEF RowsTell
      <3> QED
        BY <1>0, <2>1, <2>2, <2>3, <3>1 DEF RowsOrdered
    <2> QED
      BY <2>6, <2>7, <2>8 DEF RowsOrdered
  <1>4. CASE InsertAuditLog
    <2>1. PICK row \in inserting :
              inserting' = inserting \ {row} /\ auditLogs' = Append(auditLogs, row)
      BY <1>4 DEF InsertAuditLog
    <2>2. UNCHANGED <<handled, acted, done, together>>
      BY <1>4 DEF InsertAuditLog
    <2>9. Pending' = Pending \ {row} /\ row \in Pending
      BY <2>1, <2>2, PendingEnds, PendingRows
    <2>3. /\ DOMAIN auditLogs' = DOMAIN auditLogs \union {Len(auditLogs) + 1}
          /\ auditLogs'[Len(auditLogs) + 1] = row
          /\ \A i \in DOMAIN auditLogs : auditLogs'[i] = auditLogs[i] /\ i < Len(auditLogs) + 1
      BY <1>0, <2>1, Appended DEF AuditTyped
    <2>4. done' = done /\ together' = together
      BY <2>2
    <2>5. \A r \in Pending' : r # row /\ r \in Pending
      BY <2>9
    <2>6. \A i, j \in DOMAIN auditLogs' :
              i < j => InOrder(done, together, auditLogs'[i], auditLogs'[j])
      <3> SUFFICES ASSUME NEW i \in DOMAIN auditLogs', NEW j \in DOMAIN auditLogs', i < j
                   PROVE  InOrder(done, together, auditLogs'[i], auditLogs'[j])
        OBVIOUS
      <3>1. i \in DOMAIN auditLogs
        BY <2>3, <1>0 DEF AuditTyped
      <3>2. CASE j \in DOMAIN auditLogs
        BY <1>0, <2>3, <3>1, <3>2 DEF RowsOrdered
      <3>3. CASE j = Len(auditLogs) + 1
        BY <1>0, <2>9, <2>3, <3>1, <3>3 DEF RowsOrdered
      <3> QED
        BY <2>3, <3>2, <3>3
    <2>7. \A i \in DOMAIN auditLogs', r \in Pending' : InOrder(done, together, auditLogs'[i], r)
      <3> SUFFICES ASSUME NEW i \in DOMAIN auditLogs', NEW r \in Pending'
                   PROVE  InOrder(done, together, auditLogs'[i], r)
        OBVIOUS
      <3>2. CASE i \in DOMAIN auditLogs
        BY <1>0, <2>3, <2>5, <3>2 DEF RowsOrdered
      <3>3. CASE i = Len(auditLogs) + 1
        BY <1>0, <2>9, <2>3, <2>5, <3>3 DEF RowsOrdered, InOrder
      <3> QED
        BY <2>3, <3>2, <3>3
    <2>8. \A r, s \in Pending' : r # s => r.no # s.no /\ {r.no, s.no} \in together'
      BY <1>0, <2>2, <2>5 DEF RowsOrdered
    <2> QED
      BY <2>4, <2>6, <2>7, <2>8 DEF RowsOrdered
  <1> QED
    BY <1>1, <1>2, <1>3, <1>4, AuditSteps

\* Every step keeps the actions recorded.
LEMMA RecordedKept ==
    ASSUME AuditInv, [AuditNext]_auditVars
    PROVE  Recorded'
  <1>0. Recorded /\ AuditTyped
    BY DEF AuditInv
  <1>1. CASE QuietStep
    <2>1. /\ Recorded /\ UNCHANGED <<done, auditLogs>> /\ unwritten \subseteq unwritten'
          /\ \A row \in Pending : row \in Pending' \/ row.no \in unwritten'
      BY <1>0, <1>1 DEF QuietStep
    <2> QED
      BY <2>1 DEF Recorded
  <1>2. ASSUME NEW c \in Audited, RejectLogin(c) PROVE Recorded'
    <2>1. PICK request \in Requested, row \in RowType :
              /\ request.no = handled[c].no /\ row.no = handled[c].no /\ Tells(row, request)
              /\ done' = Append(done, request) /\ auditLogs' = Append(auditLogs, row)
              /\ Beside(request)
      BY <1>0, <1>2, Rejected
    <2>2. /\ Busy(c) /\ c \notin acted /\ Handled(c)
          /\ UNCHANGED <<arrived, acted, inserting, unwritten>>
      BY <1>0, <1>2, Rejected
    <2>3. /\ DOMAIN done' = DOMAIN done \union {Len(done) + 1}
          /\ done'[Len(done) + 1] = request
          /\ \A i \in DOMAIN done : done'[i] = done[i]
      BY <2>1, <2>2, CarriedOut
    <2>4. /\ DOMAIN auditLogs' = DOMAIN auditLogs \union {Len(auditLogs) + 1}
          /\ auditLogs'[Len(auditLogs) + 1] = row
          /\ \A i \in DOMAIN auditLogs : auditLogs'[i] = auditLogs[i]
      BY <1>0, <2>1, Appended DEF AuditTyped
    <2>5. Pending' = Pending
      BY <2>2, PendingStays
    <2> QED
      BY <1>0, <2>1, <2>2, <2>3, <2>4, <2>5 DEF Recorded
  <1>3. ASSUME NEW c \in Audited, CarryOut(c) PROVE Recorded'
    <2>1. /\ Busy(c) /\ c \notin acted /\ UNCHANGED <<auditLogs, unwritten>>
          /\ done' = Append(done, handled[c]) /\ Pending' = Pending \union {Row(handled[c])}
      BY <1>3, PendingGrows DEF CarryOut
    <2>2. handled[c] \in Requested /\ Row(handled[c]).no = handled[c].no
      BY <1>0, <2>1, BusyRequest
    <2>3. /\ DOMAIN done' = DOMAIN done \union {Len(done) + 1}
          /\ done'[Len(done) + 1] = handled[c]
          /\ \A i \in DOMAIN done : done'[i] = done[i]
      BY <2>1, <2>2, CarriedOut
    <2> QED
      BY <1>0, <2>1, <2>2, <2>3 DEF Recorded
  <1>4. CASE InsertAuditLog
    <2>1. PICK row \in inserting :
              inserting' = inserting \ {row} /\ auditLogs' = Append(auditLogs, row)
      BY <1>4 DEF InsertAuditLog
    <2>2. UNCHANGED <<handled, acted, done, unwritten>>
      BY <1>4 DEF InsertAuditLog
    <2>3. /\ DOMAIN auditLogs' = DOMAIN auditLogs \union {Len(auditLogs) + 1}
          /\ auditLogs'[Len(auditLogs) + 1] = row
          /\ \A i \in DOMAIN auditLogs : auditLogs'[i] = auditLogs[i]
      BY <1>0, <2>1, Appended DEF AuditTyped
    <2>4. Pending' = Pending \ {row}
      BY <2>1, <2>2, PendingEnds
    <2> QED
      BY <1>0, <2>1, <2>2, <2>3, <2>4 DEF Recorded
  <1> QED
    BY <1>1, <1>2, <1>3, <1>4, AuditSteps

\* The invariant holds of the empty log.
LEMMA InitAuditInv == AuditInit => AuditInv
  <1> SUFFICES ASSUME AuditInit PROVE AuditInv
    OBVIOUS
  <1> USE AuditAssumption DEF AuditInit, Busy
  <1>1. AuditTyped
    BY DEF AuditTyped
  <1>2. Numbered /\ RowsTell /\ RowsOrdered /\ Recorded
    BY DEF Numbered, RowsTell, RowsOrdered, Recorded, Pending
  <1> QED
    BY <1>1, <1>2 DEF AuditInv

\* The place of an action that has a row is where it is done.
LEMMA PlaceOf ==
    ASSUME Numbered, NEW k \in DOMAIN done
    PROVE  Place(done[k].no) = k
  BY DEF Numbered, Place

\* For any users, handlers, requests and failures the audit log tells what was done:
\* AuditInterceptor, whose inserts nobody waits for, and AuthService.login.
THEOREM AuditTellsWhatWasDone == AuditSpec => [](AuditTypeOK /\ AuditTellsHistory)
  <1>1. AuditInv /\ [AuditNext]_auditVars => AuditInv'
    BY AuditTypedKept, NumberedKept, RowsTellKept, RowsOrderedKept, RecordedKept DEF AuditInv
  <1>2. AuditInv => AuditTypeOK
    <2> SUFFICES ASSUME AuditInv PROVE AuditTypeOK
      OBVIOUS
    <2>1. /\ \A i \in DOMAIN done : done[i] \in Requested
          /\ \A i \in DOMAIN auditLogs : auditLogs[i] \in RowType
      BY DEF AuditInv, AuditTyped
    <2> QED
      BY <2>1 DEF AuditInv, AuditTyped, AuditTypeOK, Requested, RowType, Kinds
  <1>3. AuditInv => AuditTellsHistory
    <2> SUFFICES ASSUME AuditInv PROVE AuditTellsHistory
      OBVIOUS
    <2>1. \A i \in DOMAIN auditLogs : \E k \in DOMAIN done :
                /\ done[k].no = auditLogs[i].no /\ done[k].action = auditLogs[i].action
                /\ \/ auditLogs[i].userId = done[k].by
                   \/ /\ auditLogs[i].userId = "none"
                      /\ auditLogs[i].action \in {"logout", "login_failed"}
      BY DEF AuditInv, RowsTell, Tells
    <2>2. ASSUME NEW i \in DOMAIN auditLogs, NEW j \in DOMAIN auditLogs, i < j
          PROVE  /\ auditLogs[j].no # auditLogs[i].no
                 /\ \/ Place(auditLogs[i].no) < Place(auditLogs[j].no)
                    \/ {auditLogs[i].no, auditLogs[j].no} \in together
      <3>1. PICK k \in DOMAIN done : done[k].no = auditLogs[i].no
        BY <2>1
      <3>2. PICK l \in DOMAIN done : done[l].no = auditLogs[j].no
        BY <2>1
      <3>3. Place(auditLogs[i].no) = k /\ Place(auditLogs[j].no) = l
        BY <3>1, <3>2, PlaceOf DEF AuditInv
      <3>4. InOrder(done, together, auditLogs[i], auditLogs[j])
        BY <2>2 DEF AuditInv, RowsOrdered
      <3> QED
        BY <3>1, <3>2, <3>3, <3>4 DEF InOrder, Before
    <2>3. Recorded
      BY DEF AuditInv
    <2> QED
      BY <2>1, <2>2, <2>3 DEF AuditTellsHistory, Recorded
  <1> QED
    BY <1>1, <1>2, <1>3, InitAuditInv, PTL DEF AuditSpec

------------------------------------------------------------------------------
\* Paging: walks miss nothing.

\* Every variable has its type, and the timestamps are a finite sequence.
PagingTyped == PagingTypeOK /\ createdAt \in Seq(0..LastTime)

\* The listed rows that are newer than this one.
Ahead(row) == {x \in listed : createdAt[x] > createdAt[row]}

\* A steady row that the walk has not been given is past the place it has come to: at
\* least as many rows are newer as it has asked past.
WalkInv ==
    ~removed /\ ~Tied =>
      /\ walking = "yes" => \A row \in steady \ given : Cardinality(Ahead(row)) >= skip
      /\ walking = "over" => steady \subseteq given

\* A set of rows is finite.
LEMMA SomeRows ==
    ASSUME NEW n \in Nat, NEW S \in SUBSET (1..n)
    PROVE  IsFiniteSet(S) /\ Cardinality(S) \in Nat
  <1>1. IsFiniteSet(1..n)
    BY FS_Interval
  <1> QED
    BY <1>1, FS_Subset, FS_CardinalityType

\* So is the listing,
LEMMA RowsFinite ==
    ASSUME PagingTyped
    PROVE  IsFiniteSet(listed) /\ Cardinality(listed) \in Nat
  <1>1. listed \in SUBSET (1..Len(createdAt)) /\ Len(createdAt) \in Nat
    BY DEF PagingTyped, PagingTypeOK
  <1> QED
    BY <1>1, SomeRows

\* and what is ahead of a row,
LEMMA AheadFinite ==
    ASSUME PagingTyped, NEW row
    PROVE  IsFiniteSet(Ahead(row)) /\ Cardinality(Ahead(row)) \in Nat
  <1>1. Ahead(row) \in SUBSET (1..Len(createdAt)) /\ Len(createdAt) \in Nat
    BY DEF PagingTyped, PagingTypeOK, Ahead
  <1> QED
    BY <1>1, SomeRows

\* in the next state too.
LEMMA AheadFiniteNext ==
    ASSUME PagingTyped', NEW row
    PROVE  IsFiniteSet(Ahead(row)') /\ Cardinality(Ahead(row)') \in Nat
  <1>1. Ahead(row)' \in SUBSET (1..Len(createdAt')) /\ Len(createdAt') \in Nat
    BY DEF PagingTyped, PagingTypeOK, Ahead
  <1> QED
    BY <1>1, SomeRows

\* Rows that enter the listing only add to what is ahead of another.
LEMMA AheadGrows ==
    ASSUME PagingTyped, PagingTyped', NEW row \in listed, listed \subseteq listed',
           \A x \in listed : createdAt'[x] = createdAt[x]
    PROVE  Cardinality(Ahead(row)') >= Cardinality(Ahead(row))
  <1>1. Ahead(row) \subseteq Ahead(row)' /\ Ahead(row)' \subseteq listed'
    BY DEF Ahead
  <1>2. IsFiniteSet(Ahead(row)') /\ Cardinality(Ahead(row)') \in Nat
    BY AheadFiniteNext
  <1> QED
    BY <1>1, <1>2, AheadFinite, FS_Subset

\* A listing of all rows, each once, has every row.
LEMMA Listed ==
    ASSUME PagingTyped, NEW s \in Listings, NEW row \in listed
    PROVE  \E p \in 1..Cardinality(listed) : s[p] = row
  <1> DEFINE n == Cardinality(listed)
  <1>1. n \in Nat /\ IsFiniteSet(listed)
    BY RowsFinite
  <1>2. s \in Injection(1..n, listed)
    <2>1. s \in [1..n -> listed] /\ DOMAIN s = 1..n /\ \A i, j \in DOMAIN s : s[i] = s[j] => i = j
      BY DEF Listings
    <2> QED
      BY <2>1, Zenon DEF Injection, IsInjective
  <1>3. Cardinality(1..n) = n
    BY <1>1, FS_Interval
  <1>4. s \in Surjection(1..n, listed)
    BY <1>1, <1>2, <1>3, FS_Injection
  <1> QED
    BY <1>4 DEF Surjection

\* Its place is given by how many rows are ahead of it, if no two are of one time.
LEMMA PlaceInListing ==
    ASSUME PagingTyped, ~Tied, NEW s \in Listings, NEW p \in 1..Cardinality(listed)
    PROVE  Cardinality(Ahead(s[p])) = p - 1
  <1> DEFINE n == Cardinality(listed)
  <1>1. n \in Nat /\ IsFiniteSet(listed) /\ listed \subseteq DOMAIN createdAt
    BY RowsFinite DEF PagingTyped, PagingTypeOK
  <1>2. /\ s \in [1..n -> listed]
        /\ \A i, j \in 1..n : i # j => s[i] # s[j]
        /\ \A i, j \in 1..n : i < j => createdAt[s[i]] >= createdAt[s[j]]
    BY DEF Listings, Ordered
  <1>3. \A i \in 1..n : createdAt[s[i]] \in Nat
    <2>1. \A row \in DOMAIN createdAt : createdAt[row] \in 0..LastTime
      BY DEF PagingTyped, PagingTypeOK
    <2>2. \A i \in 1..n : s[i] \in DOMAIN createdAt
      BY <1>1, <1>2
    <2> QED
      BY <2>1, <2>2, PagingAssumption
  <1>4. \A i, j \in 1..n : i # j => createdAt[s[i]] # createdAt[s[j]]
    BY <1>1, <1>2 DEF Tied
  <1>5. Ahead(s[p]) = {s[i] : i \in 1..(p - 1)}
    <2>1. \A i \in 1..(p - 1) : s[i] \in Ahead(s[p])
      BY <1>1, <1>2, <1>3, <1>4 DEF Ahead
    <2>2. ASSUME NEW x \in Ahead(s[p]) PROVE \E i \in 1..(p - 1) : x = s[i]
      <3>1. x \in listed /\ createdAt[x] > createdAt[s[p]]
        BY <2>2 DEF Ahead
      <3>2. PICK i \in 1..n : s[i] = x
        BY <3>1, Listed
      <3>3. i < p
        BY <1>1, <1>2, <1>3, <3>1, <3>2
      <3> QED
        BY <1>1, <3>2, <3>3
    <2> QED
      BY <2>1, <2>2, Zenon
  <1> DEFINE f == [i \in 1..(p - 1) |-> s[i]]
  <1>6. f \in Bijection(1..(p - 1), Ahead(s[p]))
    <2>1. f \in [1..(p - 1) -> Ahead(s[p])]
      BY <1>5
    <2>2. \A i, j \in DOMAIN f : f[i] = f[j] => i = j
      BY <1>1, <1>2
    <2>3. \A x \in Ahead(s[p]) : \E i \in 1..(p - 1) : f[i] = x
      BY <1>5
    <2> HIDE DEF f
    <2> QED
      BY <2>1, <2>2, <2>3, Zenon DEF Bijection, Injection, IsInjective, Surjection
  <1>7. IsFiniteSet(1..(p - 1)) /\ Cardinality(1..(p - 1)) = p - 1
    <2>1. p - 1 \in Int /\ 1 \in Int /\ p - 1 >= 0
      BY <1>1
    <2> QED
      BY <2>1, FS_Interval
  <1> QED
    BY <1>6, <1>7, FS_Bijection DEF ExistsBijection

\* Every step keeps the types.
LEMMA PagingTypedKept ==
    ASSUME PagingTyped, [PagingNext]_pagingVars
    PROVE  PagingTyped'
  <1> USE PagingAssumption DEF PagingTyped, PagingTypeOK
  <1>1. CASE BeginWalk
    <2>1. removed' \in BOOLEAN /\ given' = {}
      BY <1>1, Zenon DEF BeginWalk
    <2> QED
      BY <1>1, <2>1 DEF BeginWalk
  <1>2. CASE FindPage
    <2>1. UNCHANGED <<createdAt, listed, clock, steady, removed>>
      BY <1>2 DEF FindPage
    <2>2. skip' \in 0..(MaxRows + Limit) /\ walking' \in {"yes", "over"}
      BY <1>2 DEF FindPage, Min2
    <2>3. given' \subseteq DOMAIN createdAt
      <3> DEFINE last == Min2(skip + Limit, Cardinality(listed))
      <3>1. PICK s \in Listings : given' = given \union {s[i] : i \in (skip + 1)..last}
        BY <1>2 DEF FindPage
      <3>2. last <= Cardinality(listed) /\ last \in Nat /\ Cardinality(listed) \in Nat
        BY RowsFinite DEF Min2
      <3> HIDE DEF last
      <3>4. s \in [1..Cardinality(listed) -> listed] /\ skip \in Nat
        BY DEF Listings
      <3>3. \A i \in (skip + 1)..last : s[i] \in listed
        <4>1. \A i \in (skip + 1)..last : i \in 1..Cardinality(listed)
          BY <3>2, <3>4
        <4> QED
          BY <3>4, <4>1
      <3> QED
        BY <3>1, <3>3
    <2> QED
      BY <2>1, <2>2, <2>3
  <1>3. CASE EndWalk
    <2>1. removed' \in BOOLEAN /\ given' = {}
      BY <1>3, Zenon DEF EndWalk
    <2> QED
      BY <1>3, <2>1 DEF EndWalk
  <1>4. CASE StoreRow
    BY <1>4 DEF StoreRow
  <1>5. CASE RowLeaves
    BY <1>5 DEF RowLeaves
  <1>6. CASE RowEnters
    BY <1>6 DEF RowEnters
  <1>7. CASE PagingClock
    BY <1>7 DEF PagingClock
  <1>8. CASE UNCHANGED pagingVars
    BY <1>8 DEF pagingVars
  <1> QED
    BY <1>1, <1>2, <1>3, <1>4, <1>5, <1>6, <1>7, <1>8 DEF PagingNext

\* Rows that are stored or enter the listing lose nothing of the walk.
LEMMA MoreRows ==
    ASSUME PagingTyped, PagingTyped', WalkInv, listed \subseteq listed',
           DOMAIN createdAt \subseteq DOMAIN createdAt',
           \A x \in DOMAIN createdAt : createdAt'[x] = createdAt[x],
           UNCHANGED <<skip, walking, given, steady, removed>>
    PROVE  WalkInv'
  <1>1. Tied => Tied'
    BY DEF Tied
  <1>2. listed \subseteq DOMAIN createdAt /\ steady \subseteq listed /\ skip \in Int
    BY PagingAssumption DEF PagingTyped, PagingTypeOK
  <1>3. \A row \in listed : Cardinality(Ahead(row)') >= Cardinality(Ahead(row))
    BY <1>2, AheadGrows
  <1>4. \A row \in listed : Cardinality(Ahead(row)) \in Nat /\ Cardinality(Ahead(row)') \in Nat
    BY AheadFinite, AheadFiniteNext
  <1> QED
    BY <1>1, <1>2, <1>3, <1>4 DEF WalkInv

\* Every step keeps the invariant of the walk.
LEMMA WalkInvKept ==
    ASSUME PagingTyped, PagingTyped', WalkInv, [PagingNext]_pagingVars
    PROVE  WalkInv'
  <1> USE PagingAssumption
  <1>1. CASE BeginWalk
    <2>1. \A row : Cardinality(Ahead(row)') \in Nat
      BY AheadFiniteNext
    <2> QED
      BY <1>1, <2>1 DEF BeginWalk, WalkInv
  <1>2. CASE FindPage
    <2> SUFFICES ASSUME ~removed, ~Tied
                 PROVE  /\ walking' = "yes" =>
                              \A row \in steady \ given' : Cardinality(Ahead(row)) >= skip'
                        /\ walking' = "over" => steady \subseteq given'
      BY <1>2 DEF FindPage, WalkInv, Tied, Ahead
    <2> DEFINE n == Cardinality(listed)
               last == Min2(skip + Limit, n)
    <2>1. PICK s \in Listings : given' = given \union {s[i] : i \in (skip + 1)..last}
      BY <1>2 DEF FindPage
    <2>2. /\ walking = "yes" /\ n \in Nat /\ skip \in Nat /\ Limit \in Nat
          /\ skip' = Min2(skip + Limit, MaxRows + Limit)
          /\ walking' = IF n < skip + Limit THEN "over" ELSE "yes"
      BY <1>2, RowsFinite DEF FindPage, PagingTyped, PagingTypeOK
    <2>3. ASSUME NEW row \in steady \ given'
          PROVE  Cardinality(Ahead(row)) >= skip + Limit /\ n > skip + Limit
      <3>1. row \in listed /\ row \notin given
        BY <2>1, <2>3 DEF PagingTyped, PagingTypeOK
      <3>2. Cardinality(Ahead(row)) >= skip
        BY <2>2, <2>3, <3>1 DEF WalkInv
      <3>3. PICK p \in 1..n : s[p] = row
        BY <3>1, Listed
      <3>4. Cardinality(Ahead(row)) = p - 1
        BY <3>3, PlaceInListing
      <3>5. p \notin (skip + 1)..last
        BY <2>1, <2>3, <3>3
      <3> QED
        BY <2>2, <3>2, <3>3, <3>4, <3>5 DEF Min2
    <2>4. skip' <= skip + Limit /\ skip' \in Nat
      BY <2>2 DEF Min2
    <2>5. ASSUME NEW row \in steady \ given'
          PROVE  Cardinality(Ahead(row)) >= skip' /\ walking' # "over"
      BY <2>2, <2>3, <2>4, <2>5, AheadFinite
    <2> QED
      BY <2>5
  <1>3. CASE EndWalk
    BY <1>3 DEF EndWalk, WalkInv
  <1>4. CASE StoreRow
    BY <1>4, MoreRows DEF StoreRow, PagingTyped, PagingTypeOK
  <1>5. CASE RowLeaves
    BY <1>5 DEF RowLeaves, WalkInv, PagingTyped, PagingTypeOK
  <1>6. CASE RowEnters
    BY <1>6, MoreRows DEF RowEnters
  <1>7. CASE PagingClock
    BY <1>7, MoreRows DEF PagingClock
  <1>8. CASE UNCHANGED pagingVars
    BY <1>8, MoreRows DEF pagingVars
  <1> QED
    BY <1>1, <1>2, <1>3, <1>4, <1>5, <1>6, <1>7, <1>8 DEF PagingNext

\* For any page size, number of rows and clock, a walk to the end gives every row that
\* was listed all the time, but for the cases WalkMissesNothing names: the listings of
\* the alerts, audit, incidents and services services, with take and skip.
THEOREM WalksMissNothing == PagingSpec => [](PagingTypeOK /\ WalkMissesNothing)
  <1>1. PagingInit => PagingTyped /\ WalkInv
    <2> SUFFICES ASSUME PagingInit PROVE PagingTyped /\ WalkInv
      OBVIOUS
    <2>1. removed \in BOOLEAN
      BY Zenon DEF PagingInit
    <2>2. createdAt \in Seq(0..LastTime) /\ Len(createdAt) = 0 /\ DOMAIN createdAt = {}
      BY DEF PagingInit
    <2>3. PagingTyped
      BY PagingAssumption, <2>1, <2>2 DEF PagingInit, PagingTyped, PagingTypeOK
    <2>4. WalkInv
      BY DEF PagingInit, WalkInv
    <2> QED
      BY <2>3, <2>4
  <1>2. PagingTyped /\ WalkInv /\ [PagingNext]_pagingVars => (PagingTyped /\ WalkInv)'
    BY PagingTypedKept, WalkInvKept
  <1>3. PagingTyped /\ WalkInv => PagingTypeOK /\ WalkMissesNothing
    BY DEF PagingTyped, WalkInv, WalkMissesNothing
  <1> QED
    BY <1>1, <1>2, <1>3, PTL DEF PagingSpec

------------------------------------------------------------------------------
\* ServiceReport: reports are consistent.

\* An incident, and a report so far.
Outages == [startedAt : 0..EndOfTime, resolvedAt : 0..Unresolved]
Reports == [total : Nat, success : Nat, p50 : Nat, p95 : Nat, p99 : Nat, sorted : Seq(Nat),
            downtime : Nat, active : Nat]

\* Every variable has its type; checks and incidents are finite sequences.
ReportTyped ==
    /\ results \in Seq(Results) /\ Len(results) <= MaxResults
    /\ outages \in Seq(Outages) /\ Len(outages) <= MaxOutages
    /\ now \in 0..EndOfTime /\ began \in 0..MaxResults /\ doubled \in BOOLEAN
    /\ asks \in {"idle", "successes", "latencies", "incidents", "done"}
    /\ report \in Reports

\* The counts were right when they were taken, and checks are only added.
CountsTell ==
    /\ asks # "idle" => report.total = began /\ began <= Len(results)
    /\ asks \in {"latencies", "incidents", "done"} =>
           /\ report.success <= Successes
           /\ Successes - report.success <= Len(results) - began

\* The percentiles are those of the latencies, which ascend.
Ranked ==
    asks \in {"incidents", "done"} =>
        /\ Ascending(report.sorted)
        /\ report.p50 = getPercentile(report.sorted, 50)
        /\ report.p95 = getPercentile(report.sorted, 95)
        /\ report.p99 = getPercentile(report.sorted, 99)

\* Incidents open and close in the past.
Past ==
    \A k \in DOMAIN outages :
        /\ outages[k].startedAt <= now
        /\ outages[k].resolvedAt # Unresolved => outages[k].resolvedAt <= now

\* Unless two were open at once, an incident opens when all before it are closed.
OneAtATime ==
    ~doubled => \A i, j \in DOMAIN outages : i < j =>
        outages[i].resolvedAt # Unresolved /\ outages[i].resolvedAt <= outages[j].startedAt

\* The downtime is no longer than the service has been there.
DowntimeFits == asks = "done" => report.downtime <= now \/ doubled

\* What holds of the report at every step.
ReportInv == ReportTyped /\ CountsTell /\ Ranked /\ Past /\ OneAtATime /\ DowntimeFits

\* A set of checks is finite.
LEMMA SomeResults ==
    ASSUME NEW n \in Nat, NEW S \in SUBSET (1..n)
    PROVE  IsFiniteSet(S) /\ Cardinality(S) \in Nat /\ Cardinality(S) <= n
  <1>1. IsFiniteSet(1..n) /\ Cardinality(1..n) = n
    BY FS_Interval
  <1> QED
    BY <1>1, FS_Subset, FS_CardinalityType

\* For any non-empty list of latencies that ascends, however long, getPercentile returns
\* its nearest rank: ServicesService.getMetrics, at p50, p95 and p99.
THEOREM PercentileIsNearestRank ==
    ASSUME NEW sorted \in Seq(Nat), sorted # <<>>, Ascending(sorted), NEW pct \in {50, 95, 99}
    PROVE  NearestRank(getPercentile(sorted, pct), pct, sorted)
  <1> DEFINE n == Len(sorted)
             needed == pct * n
             rank == (needed + 99) \div 100
             Below(v) == {k \in DOMAIN sorted : sorted[k] <= v}
  <1>1. n \in Nat /\ n > 0 /\ DOMAIN sorted = 1..n /\ \A k \in 1..n : sorted[k] \in Nat
    OBVIOUS
  <1>2. needed \in Nat /\ rank \in 1..n /\ 100 * rank >= needed /\ 100 * (rank - 1) < needed
    <2>1. CASE pct = 50
      BY <1>1, <2>1
    <2>2. CASE pct = 95
      BY <1>1, <2>2
    <2>3. CASE pct = 99
      BY <1>1, <2>3
    <2> QED
      BY <2>1, <2>2, <2>3
  <1>3. getPercentile(sorted, pct) = sorted[rank]
    BY <1>1, <1>2 DEF getPercentile
  <1> HIDE DEF rank, needed
  <1>4. \A i, j \in 1..n : i <= j => sorted[i] <= sorted[j]
    BY <1>1 DEF Ascending
  <1>5. \A v : Cardinality(Below(v)) \in Nat /\ IsFiniteSet(Below(v))
    BY <1>1, SomeResults
  <1>6. 100 * Cardinality(Below(sorted[rank])) >= needed
    <2>1. 1..rank \in SUBSET Below(sorted[rank])
      BY <1>1, <1>2, <1>4
    <2>2. Cardinality(1..rank) = rank
      BY <1>1, <1>2, FS_Interval
    <2> HIDE DEF Below
    <2>3. rank <= Cardinality(Below(sorted[rank]))
      BY <1>5, <2>1, <2>2, FS_Subset
    <2> QED
      BY <1>1, <1>2, <1>5, <2>3
  <1>7. ASSUME NEW k \in DOMAIN sorted, 100 * Cardinality(Below(sorted[k])) >= needed
        PROVE  sorted[rank] <= sorted[k]
    <2>1. SUFFICES ASSUME sorted[k] < sorted[rank] PROVE FALSE
      BY <1>1, <1>2
    <2>2. Below(sorted[k]) \in SUBSET (1..(rank - 1)) /\ rank - 1 \in Nat
      BY <1>1, <1>2, <1>4, <2>1
    <2> HIDE DEF Below
    <2>3. Cardinality(Below(sorted[k])) <= rank - 1
      BY <2>2, SomeResults
    <2> QED
      BY <1>1, <1>2, <1>5, <1>7, <2>3
  <1>8. \A k \in DOMAIN sorted :
            100 * Cardinality(Below(sorted[k])) >= needed => sorted[rank] <= sorted[k]
    BY <1>7
  <1>9. NearestRank(sorted[rank], pct, sorted)
    BY <1>6, <1>8, Zenon DEF NearestRank, needed
  <1> QED
    BY <1>3, <1>9

\* What the queries count is finite.
LEMMA ReportFinite ==
    ASSUME ReportTyped
    PROVE  /\ Successes \in Nat /\ Successes <= Len(results)
           /\ Cardinality(Downtime) \in Nat
           /\ Cardinality({k \in DOMAIN outages : outages[k].resolvedAt = Unresolved}) \in Nat
  <1>1. Len(results) \in Nat /\ {k \in DOMAIN results : results[k].ok} \in SUBSET (1..Len(results))
    BY DEF ReportTyped
  <1>2. /\ Len(outages) \in Nat /\ DOMAIN outages = 1..Len(outages)
        /\ {k \in DOMAIN outages : outages[k].resolvedAt = Unresolved} \in SUBSET (1..Len(outages))
    BY DEF ReportTyped
  <1>3. IsFiniteSet(1..Len(outages)) /\ IsFiniteSet(0..EndOfTime)
    BY <1>2, ReportAssumption, FS_Interval
  <1>4. IsFiniteSet((1..Len(outages)) \X (0..EndOfTime))
    BY <1>3, FS_Product
  <1>5. Downtime \in SUBSET ((1..Len(outages)) \X (0..EndOfTime))
    BY <1>2 DEF Downtime
  <1>6. IsFiniteSet(Downtime)
    BY <1>4, <1>5, FS_Subset
  <1> QED
    BY <1>1, <1>2, <1>6, SomeResults, FS_CardinalityType DEF Successes

\* A stored check is one success more at most.
LEMMA StoredSuccess ==
    ASSUME ReportTyped, NEW c \in Results, results' = Append(results, c)
    PROVE  Successes' \in Nat /\ Successes <= Successes' /\ Successes' <= Successes + 1
           /\ Len(results') = Len(results) + 1
  <1> DEFINE S == {k \in DOMAIN results : results[k].ok}
             n == Len(results)
  <1>1. n \in Nat /\ DOMAIN results = 1..n /\ S \in SUBSET (1..n)
    BY DEF ReportTyped
  <1>2. /\ Len(results') = n + 1 /\ DOMAIN results' = 1..(n + 1)
        /\ \A k \in 1..n : results'[k] = results[k]
    BY DEF ReportTyped
  <1>3. IsFiniteSet(S) /\ Cardinality(S) \in Nat
    BY <1>1, SomeResults
  <1>4. \/ {k \in DOMAIN results' : results'[k].ok} = S
        \/ {k \in DOMAIN results' : results'[k].ok} = S \union {n + 1}
    BY <1>1, <1>2
  <1>5. /\ Cardinality(S \union {n + 1}) \in Nat
        /\ Cardinality(S) <= Cardinality(S \union {n + 1})
        /\ Cardinality(S \union {n + 1}) <= Cardinality(S) + 1
    <2> HIDE DEF S
    <2>1. Cardinality(S \union {n + 1}) = IF n + 1 \in S THEN Cardinality(S) ELSE Cardinality(S) + 1
      BY <1>3, FS_AddElement
    <2> HIDE DEF n
    <2>2. CASE n + 1 \in S
      BY <1>3, <2>1, <2>2
    <2>3. CASE n + 1 \notin S
      BY <1>3, <2>1, <2>3
    <2> QED
      BY <2>2, <2>3
  <1> HIDE DEF S
  <1>6. Successes = Cardinality(S)
    BY DEF Successes, S
  <1>7. Successes' = Cardinality(S) \/ Successes' = Cardinality(S \union {n + 1})
    BY <1>4 DEF Successes
  <1> QED
    BY <1>2, <1>3, <1>5, <1>6, <1>7

\* Incidents that follow one another last no longer together than the time there was:
\* their ticks are different ones, all of them past.
LEMMA DowntimeIsPast ==
    ASSUME ReportTyped, Past, OneAtATime, ~doubled
    PROVE  Cardinality(Downtime) <= now
  <1> DEFINE tick == [o \in Downtime |-> o[2] + 1]
  <1>1. now \in Nat /\ DOMAIN outages = 1..Len(outages) /\ Len(outages) \in Nat
    BY ReportAssumption DEF ReportTyped
  <1>2. \A k \in DOMAIN outages : outages[k] \in Outages
    BY DEF ReportTyped
  <1>3. \A o \in Downtime : /\ o[1] \in DOMAIN outages /\ o[2] \in 0..EndOfTime
                            /\ o = <<o[1], o[2]>>
                            /\ Down(outages[o[1]], o[2])
    BY DEF Downtime
  <1>4. \A o \in Downtime : o[2] + 1 \in 1..now
    <2> SUFFICES ASSUME NEW o \in Downtime PROVE o[2] + 1 \in 1..now
      OBVIOUS
    <2>1. o[1] \in DOMAIN outages /\ o[2] \in Nat /\ Down(outages[o[1]], o[2])
      BY <1>3, ReportAssumption
    <2>2. o[2] < now
      BY <1>1, <1>2, <2>1, ReportAssumption DEF Down, Past, Outages, Unresolved
    <2> QED
      BY <1>1, <2>1, <2>2
  <1>5. \A o, p \in Downtime : o[2] = p[2] => o[1] = p[1]
    <2>1. ASSUME NEW i \in DOMAIN outages, NEW j \in DOMAIN outages, i < j, NEW t \in Nat,
                 Down(outages[i], t), Down(outages[j], t)
          PROVE  FALSE
      <3>1. /\ outages[i].resolvedAt # Unresolved
            /\ outages[i].resolvedAt <= outages[j].startedAt
        BY <2>1 DEF OneAtATime
      <3>2. outages[i].resolvedAt \in Int /\ outages[j].startedAt \in Int
        BY <1>2, ReportAssumption DEF Outages, Unresolved
      <3> QED
        BY <2>1, <3>1, <3>2 DEF Down
    <2> QED
      BY <1>1, <1>3, <2>1, ReportAssumption
  <1>6. tick \in Injection(Downtime, 1..now)
    <2>1. tick \in [Downtime -> 1..now]
      BY <1>4
    <2>2. \A o, p \in Downtime : tick[o] = tick[p] => o = p
      BY <1>3, <1>5, ReportAssumption
    <2>3. \A o, p \in DOMAIN tick : tick[o] = tick[p] => o = p
      BY <2>2
    <2> HIDE DEF tick
    <2> QED
      BY <2>1, <2>3, Zenon DEF Injection, IsInjective
  <1>7. IsFiniteSet(1..now) /\ Cardinality(1..now) = now
    BY <1>1, FS_Interval
  <1> QED
    BY <1>6, <1>7, FS_Injection

\* Sorting makes an ascending list of latencies.
LEMMA SortingAscends ==
    ASSUME ReportTyped,
           NEW sorted \in Sortings([k \in DOMAIN results |-> results[k].responseTimeMs])
    PROVE  sorted \in Seq(Nat) /\ Ascending(sorted)
  <1>1. sorted \in [DOMAIN results -> Latencies] /\ Ascending(sorted)
    BY DEF Sortings
  <1>2. DOMAIN results = 1..Len(results) /\ Len(results) \in Nat
    BY DEF ReportTyped
  <1>3. sorted \in [1..Len(results) -> Nat]
    BY <1>1, <1>2, ReportAssumption
  <1>4. sorted \in Seq(Nat)
    BY <1>2, <1>3, SeqDef
  <1> QED
    BY <1>1, <1>4

\* A percentile is a latency, or 0.
LEMMA PercentileIsNat ==
    ASSUME NEW sorted \in Seq(Nat), NEW pct \in {50, 95, 99}
    PROVE  getPercentile(sorted, pct) \in Nat
  <1>1. CASE sorted = <<>>
    BY <1>1 DEF getPercentile
  <1>2. CASE sorted # <<>>
    <2> DEFINE n == Len(sorted)
               rank == (pct * n + 99) \div 100
    <2>1. n \in Nat /\ n > 0 /\ DOMAIN sorted = 1..n /\ \A k \in 1..n : sorted[k] \in Nat
      BY <1>2
    <2>2. rank \in 1..n
      <3>1. CASE pct = 50
        BY <2>1, <3>1
      <3>2. CASE pct = 95
        BY <2>1, <3>2
      <3>3. CASE pct = 99
        BY <2>1, <3>3
      <3> QED
        BY <3>1, <3>2, <3>3
    <2>3. getPercentile(sorted, pct) = sorted[rank]
      BY <1>2, <2>1, <2>2 DEF getPercentile
    <2> QED
      BY <2>1, <2>2, <2>3
  <1> QED
    BY <1>1, <1>2

\* Every step keeps the invariant.
LEMMA ReportInvKept ==
    ASSUME ReportInv, [ReportNext]_reportVars
    PROVE  ReportInv'
  <1> USE ReportAssumption
  <1>0. ReportTyped /\ CountsTell /\ Ranked /\ Past /\ OneAtATime /\ DowntimeFits
    BY DEF ReportInv
  <1>1. CASE CountResults
    <2>1. /\ UNCHANGED <<results, outages, now, doubled>> /\ asks' = "successes"
          /\ report' = [report EXCEPT !.total = Len(results)] /\ began' = Len(results)
      BY <1>1 DEF CountResults
    <2>2. report' \in Reports /\ report'.total = Len(results) /\ Len(results) \in Nat
      <3>1. Len(results) \in Nat /\ report \in Reports
        BY <1>0 DEF ReportTyped
      <3> QED
        BY <2>1, <3>1 DEF Reports
    <2>3. ReportTyped'
      BY <1>0, <2>1, <2>2 DEF ReportTyped
    <2>4. CountsTell' /\ Ranked' /\ DowntimeFits'
      BY <2>1, <2>2 DEF CountsTell, Ranked, DowntimeFits
    <2>5. Past' /\ OneAtATime'
      BY <1>0, <2>1 DEF Past, OneAtATime
    <2> QED
      BY <2>3, <2>4, <2>5 DEF ReportInv
  <1>2. CASE CountSuccessful
    <2>1. /\ UNCHANGED <<results, outages, now, began, doubled>>
          /\ asks = "successes" /\ asks' = "latencies"
          /\ report' = [report EXCEPT !.success = Successes]
      BY <1>2 DEF CountSuccessful
    <2>2. /\ report' \in Reports /\ report'.success = Successes /\ report'.total = report.total
          /\ Successes' = Successes /\ Successes \in Nat
      BY <1>0, <2>1, ReportFinite DEF ReportTyped, Reports, Successes
    <2>3. ReportTyped'
      BY <1>0, <2>1, <2>2 DEF ReportTyped
    <2>4. CountsTell'
      BY <1>0, <2>1, <2>2 DEF CountsTell, ReportTyped
    <2>5. Ranked' /\ DowntimeFits' /\ Past' /\ OneAtATime'
      BY <1>0, <2>1 DEF Ranked, DowntimeFits, Past, OneAtATime
    <2> QED
      BY <2>3, <2>4, <2>5 DEF ReportInv
  <1>3. CASE ReadLatencies
    <2>1. UNCHANGED <<results, outages, now, began, doubled>> /\ asks = "latencies"
          /\ asks' = "incidents"
      BY <1>3 DEF ReadLatencies
    <2>2. PICK sorted \in Sortings([k \in DOMAIN results |-> results[k].responseTimeMs]) :
            report' = [report EXCEPT !.sorted = sorted,
                           !.p50 = getPercentile(sorted, 50),
                           !.p95 = getPercentile(sorted, 95), !.p99 = getPercentile(sorted, 99)]
      BY <1>3 DEF ReadLatencies
    <2>3. /\ sorted \in Seq(Nat) /\ Ascending(sorted)
          /\ getPercentile(sorted, 50) \in Nat /\ getPercentile(sorted, 95) \in Nat
          /\ getPercentile(sorted, 99) \in Nat
      BY <1>0, SortingAscends, PercentileIsNat
    <2>4. /\ report' \in Reports /\ report'.sorted = sorted
          /\ report'.p50 = getPercentile(sorted, 50) /\ report'.p95 = getPercentile(sorted, 95)
          /\ report'.p99 = getPercentile(sorted, 99)
          /\ report'.total = report.total /\ report'.success = report.success
      BY <1>0, <2>2, <2>3 DEF ReportTyped, Reports
    <2>5. ReportTyped'
      BY <1>0, <2>1, <2>4 DEF ReportTyped
    <2>6. CountsTell'
      BY <1>0, <2>1, <2>4 DEF CountsTell, Successes
    <2>7. Ranked'
      BY <2>3, <2>4 DEF Ranked
    <2>8. DowntimeFits' /\ Past' /\ OneAtATime'
      BY <1>0, <2>1 DEF DowntimeFits, Past, OneAtATime
    <2> QED
      BY <2>5, <2>6, <2>7, <2>8 DEF ReportInv
  <1>4. CASE ReadIncidents
    <2>1. /\ UNCHANGED <<results, outages, now, began, doubled>>
          /\ asks = "incidents" /\ asks' = "done"
          /\ report' = [report EXCEPT
                 !.downtime = Cardinality(Downtime),
                 !.active = Cardinality({k \in DOMAIN outages :
                     outages[k].resolvedAt = Unresolved})]
      BY <1>4 DEF ReadIncidents
    <2>2. /\ report' \in Reports /\ report'.downtime = Cardinality(Downtime)
          /\ report'.sorted = report.sorted /\ report'.p50 = report.p50
          /\ report'.p95 = report.p95 /\ report'.p99 = report.p99
          /\ report'.total = report.total /\ report'.success = report.success
      BY <1>0, <2>1, ReportFinite DEF ReportTyped, Reports
    <2>3. ReportTyped'
      BY <1>0, <2>1, <2>2 DEF ReportTyped
    <2>4. CountsTell'
      BY <1>0, <2>1, <2>2 DEF CountsTell, Successes
    <2>5. Ranked'
      BY <1>0, <2>1, <2>2 DEF Ranked
    <2>6. DowntimeFits'
      BY <1>0, <2>1, <2>2, DowntimeIsPast DEF DowntimeFits
    <2>7. Past' /\ OneAtATime'
      BY <1>0, <2>1 DEF Past, OneAtATime
    <2> QED
      BY <2>3, <2>4, <2>5, <2>6, <2>7 DEF ReportInv
  <1>5. CASE AnswerReport
    <2>1. /\ UNCHANGED <<results, outages, now, doubled>> /\ asks' = "idle"
          /\ report' = EmptyReport /\ began' = 0
      BY <1>5 DEF AnswerReport
    <2>2. ReportTyped'
      BY <1>0, <2>1 DEF ReportTyped, Reports, EmptyReport
    <2>3. CountsTell' /\ Ranked' /\ DowntimeFits'
      BY <2>1 DEF CountsTell, Ranked, DowntimeFits
    <2>4. Past' /\ OneAtATime'
      BY <1>0, <2>1 DEF Past, OneAtATime
    <2> QED
      BY <2>2, <2>3, <2>4 DEF ReportInv
  <1>6. CASE StoreResult
    <2>1. UNCHANGED <<outages, now, asks, report, began, doubled>> /\ Len(results) < MaxResults
      BY <1>6 DEF StoreResult
    <2>2. PICK c \in Results : results' = Append(results, c)
      BY <1>6 DEF StoreResult
    <2>3. /\ Successes' \in Nat /\ Successes <= Successes' /\ Successes' <= Successes + 1
          /\ Len(results') = Len(results) + 1
      BY <1>0, <2>2, StoredSuccess
    <2>4. results' \in Seq(Results) /\ Len(results) \in Nat
      BY <1>0, <2>2 DEF ReportTyped
    <2>5. ReportTyped'
      BY <1>0, <2>1, <2>3, <2>4 DEF ReportTyped
    <2>6. CountsTell'
      <3>1. Successes \in Nat /\ report.success \in Nat /\ began \in Nat
        BY <1>0, ReportFinite DEF ReportTyped, Reports
      <3> QED
        BY <1>0, <2>1, <2>3, <2>4, <3>1 DEF CountsTell
    <2>7. Ranked' /\ DowntimeFits' /\ Past' /\ OneAtATime'
      BY <1>0, <2>1 DEF Ranked, DowntimeFits, Past, OneAtATime
    <2> QED
      BY <2>5, <2>6, <2>7 DEF ReportInv
  <1>7. CASE OutageBegins
    <2> DEFINE o == [startedAt |-> now, resolvedAt |-> Unresolved]
               n == Len(outages)
    <2>1. /\ UNCHANGED <<results, now, asks, report, began>> /\ n < MaxOutages
          /\ outages' = Append(outages, o)
          /\ doubled' = (doubled \/ \E k \in DOMAIN outages : outages[k].resolvedAt = Unresolved)
      BY <1>7 DEF OutageBegins
    <2>2. o \in Outages /\ n \in Nat /\ now \in Nat
      BY <1>0 DEF ReportTyped, Outages, Unresolved
    <2>3. /\ outages' \in Seq(Outages) /\ Len(outages') = n + 1
          /\ DOMAIN outages' = 1..(n + 1) /\ DOMAIN outages = 1..n
          /\ outages'[n + 1] = o /\ \A k \in 1..n : outages'[k] = outages[k]
      BY <1>0, <2>1, <2>2 DEF ReportTyped
    <2>4. doubled' \in BOOLEAN
      BY <1>0, <2>1 DEF ReportTyped
    <2>5. ReportTyped'
      BY <1>0, <2>1, <2>2, <2>3, <2>4 DEF ReportTyped
    <2>6. doubled => doubled'
      BY <2>1
    <2>7. CountsTell' /\ Ranked' /\ DowntimeFits'
      BY <1>0, <2>1, <2>6 DEF CountsTell, Ranked, DowntimeFits, Successes
    <2>8. Past'
      BY <1>0, <2>1, <2>2, <2>3 DEF Past
    <2>9. OneAtATime'
      <3> SUFFICES ASSUME ~doubled', NEW i \in 1..(n + 1), NEW j \in 1..(n + 1), i < j
                   PROVE  outages'[i].resolvedAt # Unresolved
                          /\ outages'[i].resolvedAt <= outages'[j].startedAt
        BY <2>3 DEF OneAtATime
      <3>1. ~doubled /\ \A k \in 1..n : outages[k].resolvedAt # Unresolved
        BY <2>1, <2>3
      <3>2. i \in 1..n
        BY <2>2
      <3>3. CASE j \in 1..n
        BY <1>0, <2>3, <3>1, <3>2, <3>3 DEF OneAtATime
      <3>4. CASE j = n + 1
        BY <1>0, <2>3, <3>1, <3>2, <3>4 DEF Past
      <3> QED
        BY <2>2, <3>3, <3>4
    <2> QED
      BY <2>5, <2>7, <2>8, <2>9 DEF ReportInv
  <1>8. CASE OutageEnds
    <2>1. UNCHANGED <<results, now, asks, report, began, doubled>>
      BY <1>8 DEF OutageEnds
    <2>2. PICK k \in DOMAIN outages : /\ outages[k].resolvedAt = Unresolved
                                      /\ outages' = [outages EXCEPT ![k].resolvedAt = now]
      BY <1>8 DEF OutageEnds
    <2>3. /\ DOMAIN outages = 1..Len(outages) /\ Len(outages) \in Nat
          /\ outages[k] \in Outages /\ now \in Nat
      BY <1>0 DEF ReportTyped
    <2>4. outages'[k] = [startedAt |-> outages[k].startedAt, resolvedAt |-> now]
      BY <2>2, <2>3 DEF Outages
    <2>5. /\ DOMAIN outages' = DOMAIN outages
          /\ \A i \in DOMAIN outages : i # k => outages'[i] = outages[i]
      BY <2>2
    <2>6. outages'[k] \in Outages
      BY <1>0, <2>3, <2>4 DEF Outages, ReportTyped, Unresolved
    <2>7. outages' \in Seq(Outages) /\ Len(outages') = Len(outages)
      <3>1. \A i \in 1..Len(outages) : outages'[i] \in Outages
        BY <1>0, <2>3, <2>5, <2>6 DEF ReportTyped
      <3>2. outages' = [i \in 1..Len(outages) |-> outages'[i]]
        BY <2>2, <2>3
      <3> QED
        BY <2>3, <3>1, <3>2
    <2>8. ReportTyped'
      BY <1>0, <2>1, <2>7 DEF ReportTyped
    <2>9. CountsTell' /\ Ranked' /\ DowntimeFits'
      BY <1>0, <2>1 DEF CountsTell, Ranked, DowntimeFits, Successes
    <2>10. Past'
      BY <1>0, <2>1, <2>3, <2>4, <2>5 DEF Past
    <2>11. OneAtATime'
      <3> SUFFICES ASSUME ~doubled, NEW i \in DOMAIN outages, NEW j \in DOMAIN outages, i < j
                   PROVE  outages'[i].resolvedAt # Unresolved
                          /\ outages'[i].resolvedAt <= outages'[j].startedAt
        BY <2>1, <2>5 DEF OneAtATime
      <3>1. outages[i].resolvedAt # Unresolved /\ outages[i].resolvedAt <= outages[j].startedAt
        BY <1>0 DEF OneAtATime
      <3>2. i # k /\ outages'[i] = outages[i]
        BY <2>2, <2>5, <3>1
      <3>3. outages'[j].startedAt = outages[j].startedAt
        BY <2>4, <2>5
      <3> QED
        BY <3>1, <3>2, <3>3
    <2> QED
      BY <2>8, <2>9, <2>10, <2>11 DEF ReportInv
  <1>9. CASE ReportClock
    <2>1. UNCHANGED <<results, outages, asks, report, began, doubled>> /\ now' = now + 1
          /\ now < EndOfTime
      BY <1>9 DEF ReportClock
    <2>2. ReportTyped'
      BY <1>0, <2>1 DEF ReportTyped
    <2>3. CountsTell' /\ Ranked' /\ OneAtATime'
      BY <1>0, <2>1 DEF CountsTell, Ranked, OneAtATime, Successes
    <2>4. report.downtime \in Nat /\ now \in Nat
      BY <1>0 DEF ReportTyped, Reports
    <2>5. DowntimeFits'
      BY <1>0, <2>1, <2>4 DEF DowntimeFits
    <2>6. Past'
      <3>1. \A k \in DOMAIN outages : outages[k] \in Outages
        BY <1>0 DEF ReportTyped
      <3> QED
        BY <1>0, <2>1, <2>4, <3>1 DEF Past, Outages, Unresolved
    <2> QED
      BY <2>2, <2>3, <2>5, <2>6 DEF ReportInv
  <1>10. CASE UNCHANGED reportVars
    BY <1>0, <1>10 DEF reportVars, ReportInv, ReportTyped, CountsTell, Ranked, Past, OneAtATime,
                  DowntimeFits, Successes
  <1> QED
    BY <1>1, <1>2, <1>3, <1>4, <1>5, <1>6, <1>7, <1>8, <1>9, <1>10 DEF ReportNext

\* It holds when nobody has asked.
LEMMA InitReportInv == ReportInit => ReportInv
  <1> SUFFICES ASSUME ReportInit PROVE ReportInv
    OBVIOUS
  <1> USE ReportAssumption DEF ReportInit
  <1>1. doubled \in BOOLEAN
    BY Zenon
  <1>2. ReportTyped
    BY <1>1 DEF ReportTyped, Reports, EmptyReport
  <1>3. CountsTell /\ Ranked /\ DowntimeFits
    BY DEF CountsTell, Ranked, DowntimeFits
  <1>4. Past /\ OneAtATime
    BY DEF Past, OneAtATime
  <1> QED
    BY <1>2, <1>3, <1>4 DEF ReportInv

\* For any latencies and any number of checks, incidents and ticks, a finished report
\* agrees with itself and with the service: ServicesService.getMetrics, whose four queries
\* the worker writes between.
THEOREM ReportsAreConsistent == ReportSpec => [](ReportTypeOK /\ ReportIsConsistent)
  <1>1. ReportInv => ReportTypeOK
    <2> SUFFICES ASSUME ReportInv PROVE ReportTypeOK
      OBVIOUS
    <2>1. /\ \A k \in DOMAIN results : results[k] \in Results
          /\ \A k \in DOMAIN outages : outages[k] \in Outages
      BY DEF ReportInv, ReportTyped
    <2> QED
      BY <2>1 DEF ReportInv, ReportTyped, ReportTypeOK, Outages
  <1>2. ReportInv => ReportIsConsistent
    <2> SUFFICES ASSUME ReportInv, asks = "done" PROVE ReportIsConsistent
      BY DEF ReportIsConsistent
    <2>1. /\ report.total = began /\ began <= Len(results)
          /\ report.success <= Successes
          /\ Successes - report.success <= Len(results) - began
      BY DEF ReportInv, CountsTell
    <2>2. /\ Successes \in Nat /\ began \in Nat /\ Len(results) \in Nat
          /\ report.success \in Nat /\ report.total \in Nat
      BY ReportFinite DEF ReportInv, ReportTyped, Reports
    <2>3. LET failed == report.total - report.success
              wrong == failed - (Len(results) - Successes)
              since == Len(results) - began
          IN wrong <= since /\ -wrong <= since
      BY <2>1, <2>2
    <2>4. report.sorted # <<>> =>
            /\ NearestRank(report.p50, 50, report.sorted)
            /\ NearestRank(report.p95, 95, report.sorted)
            /\ NearestRank(report.p99, 99, report.sorted)
      <3>1. report.sorted \in Seq(Nat)
        BY DEF ReportInv, ReportTyped, Reports
      <3>2. /\ Ascending(report.sorted)
            /\ report.p50 = getPercentile(report.sorted, 50)
            /\ report.p95 = getPercentile(report.sorted, 95)
            /\ report.p99 = getPercentile(report.sorted, 99)
        BY DEF ReportInv, Ranked
      <3> QED
        BY <3>1, <3>2, PercentileIsNearestRank
    <2>5. report.downtime <= now \/ doubled
      BY DEF ReportInv, DowntimeFits
    <2> QED
      BY <2>3, <2>4, <2>5 DEF ReportIsConsistent
  <1> QED
    BY <1>1, <1>2, InitReportInv, ReportInvKept, PTL DEF ReportSpec
==============================================================================
