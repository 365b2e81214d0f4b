---------------------------- MODULE TenantSettings ----------------------------
(***************************************************************************)
(* The organisation's name, in its tenant and in the user the dashboard     *)
(* keeps in localStorage.  A save changes the tenant and, when it has been  *)
(* answered, the copy of whoever is logged in by then.  The tabs of one     *)
(* browser share the storage; other browsers save too.  The description is  *)
(* treated like the name.                                                   *)
(***************************************************************************)
EXTENDS Naturals

CONSTANTS
    Organisations,  \* tenants
    Names,          \* what an organisation can be called
    Views           \* tabs of the browser

ASSUME SettingsAssumption ==
    "none" \notin Organisations /\ Names # {} /\ "closed" \notin Names

VARIABLES
    orgName,    \* name of each tenant
    storedUser, \* tenant and its name in pulseguard_user, tenant "none" without one
    input,      \* orgNameInput of each tab, "closed" where the view is not open
    saving,     \* each tab's save: its stage, tenant and name
    entering,   \* the user the answer of a login brings
    drifted     \* see NameIsOwn

settingsVars == <<orgName, storedUser, input, saving, entering, drifted>>

NoUser(n) == [tenant |-> "none", name |-> n]
NoSave(n) == [stage |-> "none", tenant |-> "none", name |-> n]
\* A name stands where there is none; nothing looks at it.
AnyName == CHOOSE n \in Names : TRUE
Saving(v) == saving[v].stage # "none"
QuietSettings == \A v \in Views : ~Saving(v)

------------------------------------------------------------------------------
SettingsInit ==
    /\ orgName = [o \in Organisations |-> AnyName]
    /\ storedUser = NoUser(AnyName) /\ entering = NoUser(AnyName)
    /\ input = [v \in Views |-> "closed"] /\ saving = [v \in Views |-> NoSave(AnyName)]
    /\ drifted = FALSE

\* login reads the user with its tenant.
EnterAs ==
    /\ entering.tenant = "none"
    /\ \E o \in Organisations : entering' = [tenant |-> o, name |-> orgName[o]]
    /\ UNCHANGED <<orgName, storedUser, input, saving, drifted>>

\* useLogin's onSuccess stores it.
Entered ==
    /\ entering.tenant # "none"
    /\ storedUser' = entering /\ entering' = NoUser(AnyName)
    /\ drifted' = (~QuietSettings \/ entering.name # orgName[entering.tenant])
    /\ UNCHANGED <<orgName, input, saving>>

\* The logout button, or a 401 of another request.
LeaveDashboard ==
    /\ storedUser.tenant # "none" /\ storedUser' = NoUser(AnyName)
    /\ UNCHANGED <<orgName, input, saving, entering, drifted>>

\* The view is mounted: its effect takes the stored name.
OpenSettings(v) ==
    /\ input[v] = "closed" /\ storedUser.tenant # "none"
    /\ input' = [input EXCEPT ![v] = storedUser.name]
    /\ UNCHANGED <<orgName, storedUser, saving, entering, drifted>>

TypeName(v) ==
    /\ input[v] # "closed"
    /\ \E n \in Names \ {input[v]} : input' = [input EXCEPT ![v] = n]
    /\ UNCHANGED <<orgName, storedUser, saving, entering, drifted>>

CloseSettings(v) ==
    /\ input[v] # "closed" /\ input' = [input EXCEPT ![v] = "closed"]
    /\ UNCHANGED <<orgName, storedUser, saving, entering, drifted>>

\* handleUpdateTenantSubmit; the button is disabled while its own save is pending.
SubmitSettings(v) ==
    /\ input[v] # "closed" /\ storedUser.tenant # "none" /\ ~Saving(v)
    /\ saving' = [saving EXCEPT ![v] =
                      [stage |-> "sent", tenant |-> storedUser.tenant, name |-> input[v]]]
    /\ drifted' = (drifted \/ ~QuietSettings)
    /\ UNCHANGED <<orgName, storedUser, input, entering>>

\* updateTenantSettings: one update of the caller's tenant.
UpdateTenant(v) ==
    /\ saving[v].stage = "sent"
    /\ orgName' = [orgName EXCEPT ![saving[v].tenant] = saving[v].name]
    /\ saving' = [saving EXCEPT ![v].stage = "updated"]
    /\ UNCHANGED <<storedUser, input, entering, drifted>>

\* Mutant of SettingsSaved: what the form shows by now is stored.
SettingsSavedFromForm(v) ==
    /\ saving[v].stage = "updated"
    /\ saving' = [saving EXCEPT ![v] = NoSave(AnyName)]
    /\ storedUser' = IF storedUser.tenant = "none" THEN storedUser
                     ELSE [storedUser EXCEPT !.name =
                               IF input[v] = "closed" THEN saving[v].name ELSE input[v]]
    /\ UNCHANGED <<orgName, input, entering, drifted>>

\* onSuccess of the hook stores the answer's name, that of the view, if it is still
\* open, the one it submitted: whoever the stored user is.
SettingsSaved(v) ==
    /\ saving[v].stage = "updated"
    /\ saving' = [saving EXCEPT ![v] = NoSave(AnyName)]
    /\ storedUser' = IF storedUser.tenant = "none" THEN storedUser
                     ELSE [storedUser EXCEPT !.name = saving[v].name]
    /\ UNCHANGED <<orgName, input, entering, drifted>>

\* The request fails before or after the update: a message only.
SaveFails(v) ==
    /\ Saving(v)
    /\ saving' = [saving EXCEPT ![v] = NoSave(AnyName)]
    /\ drifted' = (drifted \/ saving[v].stage = "updated")
    /\ UNCHANGED <<orgName, storedUser, input, entering>>

\* A 401: apiRequest clears the storage and returns {}, of which onSuccess finds no
\* user to store a name with.
SaveUnauthorized(v) ==
    /\ saving[v].stage = "sent"
    /\ saving' = [saving EXCEPT ![v] = NoSave(AnyName)]
    /\ storedUser' = NoUser(AnyName) /\ input' = [input EXCEPT ![v] = "closed"]
    /\ UNCHANGED <<orgName, entering, drifted>>

\* An administrator in another browser.
SavedElsewhere ==
    /\ \E o \in Organisations, n \in Names :
        /\ n # orgName[o] /\ orgName' = [orgName EXCEPT ![o] = n]
        /\ drifted' = (drifted \/ o = storedUser.tenant)
    /\ UNCHANGED <<storedUser, input, saving, entering>>

SettingsNext ==
    \/ EnterAs \/ Entered \/ LeaveDashboard \/ SavedElsewhere
    \/ \E v \in Views :
        \/ OpenSettings(v) \/ TypeName(v) \/ CloseSettings(v) \/ SubmitSettings(v)
        \/ UpdateTenant(v) \/ SettingsSaved(v) \/ SaveFails(v) \/ SaveUnauthorized(v)

SettingsSpec == SettingsInit /\ [][SettingsNext]_settingsVars

------------------------------------------------------------------------------
\* Every variable has its type.
SettingsTypeOK ==
    LET Users == [tenant : Organisations \union {"none"}, name : Names]
    IN /\ orgName \in [Organisations -> Names]
       /\ storedUser \in Users /\ entering \in Users
       /\ input \in [Views -> Names \union {"closed"}]
       /\ saving \in [Views -> [stage : {"none", "sent", "updated"},
                                tenant : Organisations \union {"none"}, name : Names]]
       /\ drifted \in BOOLEAN

\* When no save is under way the stored user has the name of its own organisation,
\* whatever was typed meanwhile and whether or not the view was still open.  The ways
\* the code leaves for the two to part: saves of two tabs overlapped, a save went on
\* while another user logged in (its name is then stored with that user), its answer
\* was lost, or another browser saved a name; it is right again from the next login.
NameIsOwn ==
    QuietSettings /\ storedUser.tenant # "none" /\ ~drifted
        => storedUser.name = orgName[storedUser.tenant]
==============================================================================
