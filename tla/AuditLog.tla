------------------------------- MODULE AuditLog -------------------------------
(***************************************************************************)
(* The audit log.  AuditInterceptor stores a row for every audited handler  *)
(* that succeeds.  The handler awaits its own writes, so others act between *)
(* those and the start of the insert, and nobody waits for the insert: the  *)
(* answer is sent and other requests are handled meanwhile.  A rejected     *)
(* login stores its row itself, and waits for it.  Requests are numbered so *)
(* that rows can be told apart; resources, addresses and metadata are left  *)
(* out.  Actions of a user who is logged in are all alike here: "switch"    *)
(* stands for them.                                                         *)
(***************************************************************************)
EXTENDS Naturals, Sequences, FiniteSets

CONSTANTS
    Actors,        \* users
    Audited,       \* requests that may be handled at once
    MaxAudited,    \* how many requests there are
    MaxUnwritten   \* how many handlers or inserts fail after the action

ASSUME AuditAssumption == MaxAudited \in Nat /\ MaxUnwritten \in Nat

Actions == {"register", "login", "logout", "switch"}
Numbers == 1..MaxAudited
NoRequest == [no |-> 0, action |-> "none", by |-> "none"]

VARIABLES
    handled,     \* the request in each handler: its number, its action, whose it is
    arrived,     \* how many requests have come
    acted,       \* handlers whose writes are done and whose answer is still to come
    done,        \* the actions carried out, in order
    inserting,   \* the rows whose insert is under way
    auditLogs,   \* the rows, in the order of createdAt
    together,    \* pairs of requests, each with its row due at some same time
    unwritten    \* requests whose row was lost

auditVars == <<handled, arrived, acted, done, inserting, auditLogs, together, unwritten>>

------------------------------------------------------------------------------
AuditInit ==
    /\ handled = [c \in Audited |-> NoRequest] /\ arrived = 0 /\ acted = {}
    /\ done = <<>> /\ inserting = {} /\ auditLogs = <<>> /\ together = {} /\ unwritten = {}

Handled(c) == handled' = [handled EXCEPT ![c] = NoRequest]
Busy(c) == handled[c] # NoRequest

AuditedRequest(c) ==
    /\ ~Busy(c) /\ arrived < MaxAudited
    /\ arrived' = arrived + 1
    /\ \E action \in Actions, by \in Actors :
        handled' = [handled EXCEPT ![c] = [no |-> arrived', action |-> action, by |-> by]]
    /\ UNCHANGED <<acted, done, inserting, auditLogs, together, unwritten>>

\* The user of the request, which the guard of a "switch" has set; else the user of
\* the answer, which is a login's; else the answer's own identifier, which is a
\* registration's; nobody for a logout, whose route has no guard.
finalUserId(request) == IF request.action = "logout" THEN "none" ELSE request.by

Row(request) == [no |-> request.no, action |-> request.action, userId |-> finalUserId(request)]

\* The rows due: an insert is under way, or the action is done and its row to come.
Pending == inserting \union {Row(handled[c]) : c \in acted}

\* The row of a request has come to be due beside those that were.
Beside(request) == together' = together \union {{request.no, row.no} : row \in Pending}

\* Mutant of Refuse: the row is stored however the handler ends.
RefuseLogged(c) ==
    /\ Busy(c) /\ c \notin acted
    /\ inserting' = inserting \union {Row(handled[c])} /\ Beside(handled[c])
    /\ Handled(c)
    /\ UNCHANGED <<arrived, acted, done, auditLogs, unwritten>>

\* A guard, the validation or the handler throws before anything is changed.
Refuse(c) ==
    /\ Busy(c) /\ c \notin acted /\ Handled(c)
    /\ UNCHANGED <<arrived, acted, done, inserting, auditLogs, together, unwritten>>

\* login finds no such user, or another password: the row names the user it found.
RejectLogin(c) ==
    /\ handled[c].action = "login" /\ c \notin acted
    /\ LET request == [handled[c] EXCEPT !.action = "login_failed"]
       IN /\ done' = Append(done, request)
          /\ \E userId \in {"none", request.by} :
                auditLogs' = Append(auditLogs, [Row(request) EXCEPT !.userId = userId])
          /\ Beside(request)
    /\ Handled(c)
    /\ UNCHANGED <<arrived, acted, inserting, unwritten>>

\* The database executes the handler's write; the handler still awaits its answer.
CarryOut(c) ==
    /\ Busy(c) /\ c \notin acted
    /\ acted' = acted \union {c}
    /\ done' = Append(done, handled[c]) /\ Beside(handled[c])
    /\ UNCHANGED <<handled, arrived, inserting, auditLogs, unwritten>>

\* The handler succeeds: tap starts logAudit and the answer is sent.
LogAudit(c) ==
    /\ c \in acted /\ acted' = acted \ {c}
    /\ inserting' = inserting \union {Row(handled[c])}
    /\ Handled(c)
    /\ UNCHANGED <<arrived, done, auditLogs, together, unwritten>>

CanFail(no) == Cardinality(unwritten) < MaxUnwritten /\ unwritten' = unwritten \union {no}

\* The handler throws, or dies, when the action has been carried out.
HandlerFailsLate(c) ==
    /\ c \in acted /\ acted' = acted \ {c}
    /\ CanFail(handled[c].no)
    /\ Handled(c)
    /\ UNCHANGED <<arrived, done, inserting, auditLogs, together>>

\* auditLog.create: inserts that are under way together end in any order.
InsertAuditLog ==
    /\ \E row \in inserting :
        inserting' = inserting \ {row} /\ auditLogs' = Append(auditLogs, row)
    /\ UNCHANGED <<handled, arrived, acted, done, together, unwritten>>

\* It throws, which is written to the console, or the server dies.
InsertAuditLogFails ==
    /\ \E row \in inserting : inserting' = inserting \ {row} /\ CanFail(row.no)
    /\ UNCHANGED <<handled, arrived, acted, done, auditLogs, together>>

AuditNext ==
    \/ \E c \in Audited :
        \/ AuditedRequest(c) \/ Refuse(c) \/ RejectLogin(c)
        \/ CarryOut(c) \/ LogAudit(c) \/ HandlerFailsLate(c)
    \/ InsertAuditLog \/ InsertAuditLogFails

AuditSpec == AuditInit /\ [][AuditNext]_auditVars

------------------------------------------------------------------------------
\* Every variable has its type.
AuditTypeOK ==
    LET Kinds == Actions \union {"login_failed"}
        Requested == [no : Numbers, action : Kinds, by : Actors]
        RowType == [no : Numbers, action : Kinds, userId : Actors \union {"none"}]
    IN /\ handled \in [Audited -> Requested \union {NoRequest}] /\ arrived \in 0..MaxAudited
       /\ acted \subseteq Audited
       /\ \A i \in DOMAIN done : done[i] \in Requested
       /\ inserting \subseteq RowType
       /\ \A i \in DOMAIN auditLogs : auditLogs[i] \in RowType
       /\ together \subseteq SUBSET Numbers /\ unwritten \subseteq Numbers

\* The position of a request among the actions carried out.
Place(no) == CHOOSE i \in DOMAIN done : done[i].no = no

\* The log tells what was done: each row is of an action that was carried out, only
\* one, and names its user or, for a logout or a rejected login, nobody; an action
\* has a row unless that is due or was lost; and rows are in the order of their
\* actions unless they were due together: one action was carried out while the row of
\* the other was still to be stored (then a service may be shown enabled after it was
\* disabled).
AuditTellsHistory ==
    /\ \A i \in DOMAIN auditLogs :
        LET row == auditLogs[i]
        IN /\ \E k \in DOMAIN done :
                /\ done[k].no = row.no /\ done[k].action = row.action
                /\ \/ row.userId = done[k].by
                   \/ row.userId = "none" /\ row.action \in {"logout", "login_failed"}
           /\ \A j \in DOMAIN auditLogs : i < j =>
                /\ auditLogs[j].no # row.no
                /\ \/ Place(row.no) < Place(auditLogs[j].no)
                   \/ {row.no, auditLogs[j].no} \in together
    /\ \A k \in DOMAIN done :
        \/ \E i \in DOMAIN auditLogs : auditLogs[i].no = done[k].no
        \/ \E row \in Pending : row.no = done[k].no
        \/ done[k].no \in unwritten
==============================================================================
