------------------------------- MODULE Accounts -------------------------------
(***************************************************************************)
(* Users and tenants: AuthService.register, AdminService.createUser and     *)
(* updateUserRole, query by query, with the guard that admits the last two. *)
(* None of them runs in a transaction, so their queries interleave and can  *)
(* be cut short.  Users and tenants are never deleted and a user never      *)
(* changes tenant.  Passwords, names, the settings of a tenant and the      *)
(* listings are left out; VIEWER stands for OPERATOR too.                   *)
(***************************************************************************)
EXTENDS Naturals

CONSTANTS
    Emails,       \* lower-cased e-mail addresses, the seeded SUPER_ADMIN's not among them
    Requests,     \* requests that may be under way at once
    MaxTenants,   \* how many tenants are ever created
    MaxCuts       \* how many requests fail or die with the server half way

ASSUME AccountAssumption == MaxTenants \in Nat /\ MaxCuts \in Nat

UserRole == {"SUPER_ADMIN", "ADMIN", "VIEWER"}
TenantIds == 1..MaxTenants
NoTenant == 0
NoAccount == [tenantId |-> NoTenant, role |-> "none"]
NoForm == [kind |-> "none", org |-> FALSE, email |-> "none", tenantId |-> NoTenant,
           role |-> "none", own |-> FALSE]

VARIABLES
    account,    \* tenant and role of each address's user
    tenants,    \* how many tenants have been created
    asked,      \* what each request is for
    query,      \* the query it makes next
    shared,     \* requests that overlapped a rival: see Rivals
    excused,    \* tenants that something named in TenantIsAdministered happened to
    cuts

accountVars == <<account, tenants, asked, query, shared, excused, cuts>>

Exists(e) == account[e] # NoAccount
Administers(e, t) == account[e].tenantId = t /\ account[e].role \in {"ADMIN", "SUPER_ADMIN"}

------------------------------------------------------------------------------
AccountInit ==
    /\ account = [e \in Emails |-> NoAccount]
    /\ tenants = 0
    /\ asked = [c \in Requests |-> NoForm]
    /\ query = [c \in Requests |-> "idle"]
    /\ shared = {} /\ excused = {} /\ cuts = 0

\* Two requests that create the same address, or that change roles.
Rivals(f, g) ==
    \/ f.kind = "role" /\ g.kind = "role"
    \/ f.kind \in {"register", "add"} /\ g.kind \in {"register", "add"} /\ f.email = g.email

Start(c, form, first) ==
    /\ query[c] = "idle"
    /\ query' = [query EXCEPT ![c] = first]
    /\ asked' = [asked EXCEPT ![c] = form]
    /\ LET rivals == {d \in Requests \ {c} : query[d] # "idle" /\ Rivals(form, asked[d])}
       IN shared' = shared \union rivals \union (IF rivals = {} THEN {} ELSE {c})
    /\ UNCHANGED <<account, tenants, excused, cuts>>

Register(c) ==
    \E e \in Emails, org \in BOOLEAN :
        Start(c, [NoForm EXCEPT !.kind = "register", !.email = e, !.org = org, !.role = "VIEWER"],
              "find")

\* JwtStrategy reads the user at every request and RolesGuard looks at its role;
\* createUser refuses an administrator without a tenant and the role SUPER_ADMIN.
AskUser(c) ==
    \E by, e \in Emails, role \in {"ADMIN", "VIEWER"} :
        /\ account[by].tenantId # NoTenant /\ Administers(by, account[by].tenantId)
        /\ Start(c, [NoForm EXCEPT !.kind = "add", !.email = e, !.role = role,
                                   !.tenantId = account[by].tenantId], "find")

AskRole(c) ==
    \E by, e \in Emails, role \in UserRole :
        /\ Administers(by, account[by].tenantId)
        /\ Start(c, [NoForm EXCEPT !.kind = "role", !.email = e, !.role = role, !.own = (by = e),
                                   !.tenantId = account[by].tenantId], "member")

\* The same from the SUPER_ADMIN that is seeded without a tenant.
AskRoleAsSuper(c) ==
    \E e \in Emails, role \in UserRole :
        Start(c, [NoForm EXCEPT !.kind = "role", !.email = e, !.role = role], "member")

Finish(c) ==
    /\ query' = [query EXCEPT ![c] = "idle"]
    /\ asked' = [asked EXCEPT ![c] = NoForm]
    /\ shared' = shared \ {c}

\* findUnique by address: a conflict ends the request.
FindEmail(c) ==
    /\ query[c] = "find"
    /\ IF Exists(asked[c].email) THEN Finish(c)
       ELSE /\ query' = [query EXCEPT ![c] = IF asked[c].org THEN "tenant" ELSE "user"]
            /\ UNCHANGED <<asked, shared>>
    /\ UNCHANGED <<account, tenants, excused, cuts>>

\* An organisation was named: its tenant is created and the user will administer it.
CreateTenant(c) ==
    /\ query[c] = "tenant" /\ tenants < MaxTenants
    /\ tenants' = tenants + 1
    /\ asked' = [asked EXCEPT ![c].tenantId = tenants + 1, ![c].role = "ADMIN"]
    /\ query' = [query EXCEPT ![c] = "user"]
    /\ UNCHANGED <<account, shared, excused, cuts>>

Excuse(t) == excused' = IF t = NoTenant THEN excused ELSE excused \union {t}

\* Only a registration leaves its tenant behind.
Abandon(c) ==
    Excuse(IF asked[c].kind = "register" THEN asked[c].tenantId ELSE NoTenant)

\* user.create; the address is unique in the database.
CreateUser(c) ==
    /\ query[c] = "user"
    /\ IF Exists(asked[c].email)
       THEN /\ UNCHANGED account
            /\ Abandon(c)
       ELSE /\ account' = [account EXCEPT ![asked[c].email] =
                               [tenantId |-> asked[c].tenantId, role |-> asked[c].role]]
            /\ UNCHANGED excused
    /\ Finish(c)
    /\ UNCHANGED <<tenants, cuts>>

\* Mutant of FindMember: the user's tenant is not compared.
FindAnyone(c) ==
    /\ query[c] = "member"
    /\ IF Exists(asked[c].email)
       THEN query' = [query EXCEPT ![c] = "role"] /\ UNCHANGED <<asked, shared>>
       ELSE Finish(c)
    /\ UNCHANGED <<account, tenants, excused, cuts>>

\* updateUserRole reads the user: a caller with a tenant finds its own users only.
FindMember(c) ==
    /\ query[c] = "member"
    /\ IF /\ Exists(asked[c].email)
          /\ asked[c].tenantId \in {NoTenant, account[asked[c].email].tenantId}
       THEN query' = [query EXCEPT ![c] = "role"] /\ UNCHANGED <<asked, shared>>
       ELSE Finish(c)
    /\ UNCHANGED <<account, tenants, excused, cuts>>

\* user.update, whatever has become of the caller since.
WriteRole(c) ==
    /\ query[c] = "role"
    /\ account' = [account EXCEPT ![asked[c].email].role = asked[c].role]
    /\ IF asked[c].own \/ asked[c].tenantId = NoTenant \/ c \in shared
       THEN Excuse(account[asked[c].email].tenantId) ELSE UNCHANGED excused
    /\ Finish(c)
    /\ UNCHANGED <<tenants, cuts>>

\* A query throws or the server dies; what was written stays.
CutRequest(c) ==
    /\ cuts < MaxCuts /\ cuts' = cuts + 1
    /\ query[c] # "idle"
    /\ Abandon(c) /\ Finish(c)
    /\ UNCHANGED <<account, tenants>>

AccountNext ==
    \E c \in Requests :
        \/ Register(c) \/ AskUser(c) \/ AskRole(c) \/ AskRoleAsSuper(c)
        \/ FindEmail(c) \/ CreateTenant(c) \/ CreateUser(c)
        \/ FindMember(c) \/ WriteRole(c) \/ CutRequest(c)

AccountSpec == AccountInit /\ [][AccountNext]_accountVars

------------------------------------------------------------------------------
\* Every variable has its type.
AccountTypeOK ==
    /\ account \in [Emails -> {NoAccount} \union
                        [tenantId : TenantIds \union {NoTenant}, role : UserRole]]
    /\ tenants \in 0..MaxTenants
    /\ \A c \in Requests :
        /\ asked[c].kind \in {"none", "register", "add", "role"} /\ asked[c].org \in BOOLEAN
        /\ asked[c].email \in Emails \union {"none"} /\ asked[c].own \in BOOLEAN
        /\ asked[c].tenantId \in TenantIds \union {NoTenant}
        /\ asked[c].role \in UserRole \union {"none"}
    /\ query \in [Requests -> {"idle", "find", "tenant", "user", "member", "role"}]
    /\ shared \subseteq Requests /\ excused \subseteq TenantIds /\ cuts \in 0..MaxCuts

\* A tenant has a user who administers it from the end of its registration on.  The
\* exceptions are those the code leaves: the registration was cut after the tenant,
\* or another one took the address meanwhile; an administrator gave up its own role
\* or a caller without a tenant took it; or two role changes overlapped.
TenantIsAdministered ==
    \A t \in (1..tenants) \ excused :
        \/ \E e \in Emails : Administers(e, t)
        \/ \E c \in Requests : asked[c].kind = "register" /\ asked[c].tenantId = t
==============================================================================
