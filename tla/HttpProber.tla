----------------------------- MODULE HttpProber ------------------------------
(***************************************************************************)
(* HttpProberService.probe: one request to the target, and the promise that *)
(* the request's events settle.  The actions are the events Node's http     *)
(* client delivers; what the target and the network do is free, and a       *)
(* target may answer, fail, fall silent, or send a little at a time.        *)
(* Texts and the DNS and connection times are left out.  A second resolve   *)
(* has no effect, so nothing is modelled after the first.                   *)
(***************************************************************************)
EXTENDS Naturals

CONSTANTS
    IdleLimit,   \* timeoutMs in ticks: the socket's inactivity timeout
    MaxChunks    \* how many pieces of a body arrive before the target ends

ASSUME ProberAssumption == IdleLimit \in Nat \ {0} /\ MaxChunks \in Nat

VARIABLES
    stage,     \* how far the exchange has come
    kind,      \* the target: [secure: https, framed: its response tells its length]
    code,      \* class of the response's status code, "none" before it
    idle,      \* ticks since the socket was last active
    active,    \* how often it was active
    elapsed,   \* ticks since the request
    cause,     \* code of the error that ended it, "none" without one
    verdict    \* status the promise was resolved with, "pending" before

proberVars == <<stage, kind, code, idle, active, elapsed, cause, verdict>>

Stages == {"ready", "lookup", "connect", "handshake", "sent", "body",
           "destroyed", "ended", "failed", "cut"}
Connected == {"handshake", "sent", "body"}
Waiting == {"lookup", "connect"} \union Connected

\* A socket is active when the name is found, the connection and the secure
\* connection are made, the head of the response comes, and with every chunk.
MaxActive == MaxChunks + 4
Deadline == (MaxActive + 1) * IdleLimit

------------------------------------------------------------------------------
ProberInit ==
    /\ stage = "ready"
    /\ kind = [secure |-> FALSE, framed |-> FALSE]
    /\ code = "none" /\ cause = "none" /\ verdict = "pending"
    /\ idle = 0 /\ active = 0 /\ elapsed = 0

\* new URL throws: the promise is resolved at once.
InvalidUrl ==
    /\ stage = "ready"
    /\ stage' = "failed" /\ cause' = "ERR_INVALID_URL" /\ verdict' = "ERROR"
    /\ UNCHANGED <<kind, code, idle, active, elapsed>>

\* The request is made; an address needs no lookup.
SendRequest ==
    /\ stage = "ready" /\ stage' \in {"lookup", "connect"}
    /\ kind' \in [secure : BOOLEAN, framed : BOOLEAN]
    /\ UNCHANGED <<code, idle, active, elapsed, cause, verdict>>

Activity == idle' = 0 /\ active' = active + 1 /\ UNCHANGED <<kind, elapsed, cause>>

\* lookup, connect, secureConnect.
Advance ==
    /\ \/ stage = "lookup" /\ stage' = "connect"
       \/ stage = "connect" /\ stage' = IF kind.secure THEN "handshake" ELSE "sent"
       \/ stage = "handshake" /\ stage' = "sent"
    /\ Activity /\ UNCHANGED <<code, verdict>>

ReceiveHead ==
    /\ stage = "sent" /\ stage' = "body"
    /\ code' \in {"2xx-3xx", "other"}
    /\ Activity /\ UNCHANGED verdict

ReceiveChunk ==
    /\ stage = "body" /\ active < MaxActive
    /\ Activity /\ UNCHANGED <<stage, code, verdict>>

\* The response is complete.
OnEnd ==
    /\ stage = "body" /\ stage' = "ended"
    /\ verdict' = IF code = "2xx-3xx" THEN "SUCCESS" ELSE "FAILURE"
    /\ UNCHANGED <<kind, code, idle, active, elapsed, cause>>

\* Mutant of OnError: the error's code is the status.
OnErrorCode(err) ==
    /\ stage' = "failed" /\ cause' = err
    /\ verdict' = err
    /\ UNCHANGED <<kind, code, idle, active, elapsed>>

\* The request's error handler.
OnError(err) ==
    /\ stage' = "failed" /\ cause' = err
    /\ verdict' = CASE err = "ETIMEDOUT" -> "TIMEOUT"
                    [] err = "ENOTFOUND" -> "FAILURE"
                    [] OTHER -> "ERROR"
    /\ UNCHANGED <<kind, code, idle, active, elapsed>>

\* What the network can report: an unknown host, a connection attempt the system
\* gives up, a refused or reset connection.
NetworkError ==
    \/ stage = "lookup" /\ (OnError("ENOTFOUND") \/ OnError("EAI_AGAIN"))
    \/ stage = "connect" /\ (OnError("ETIMEDOUT") \/ OnError("ECONNREFUSED"))
    \/ stage \in Connected /\ OnError("ECONNRESET")

\* The target closes the connection early.  Before the response Node reports a
\* hang-up; in a response without a length it is the end; in any other the
\* response emits "aborted", for which nothing listens.
PeerCloses ==
    \/ stage \in {"handshake", "sent"} /\ OnError("ECONNRESET")
    \/ /\ stage = "body" /\ kind.framed /\ stage' = "cut"
       /\ UNCHANGED <<kind, code, idle, active, elapsed, cause, verdict>>

\* Mutant of OnTimeout: the event is ignored, and the socket's timer starts again.
OnTimeoutIgnored ==
    /\ stage \in Waiting /\ idle = IdleLimit
    /\ idle' = 0
    /\ UNCHANGED <<stage, kind, code, active, elapsed, cause, verdict>>

\* The timeout event destroys the request with an ETIMEDOUT error.
OnTimeout ==
    /\ stage \in Waiting /\ idle = IdleLimit
    /\ stage' = "destroyed" /\ cause' = "ETIMEDOUT"
    /\ UNCHANGED <<kind, code, idle, active, elapsed, verdict>>

\* The error of a destroyed request is emitted afterwards.
EmitError == stage = "destroyed" /\ OnError(cause)

\* Time passes; the timer is not late.  elapsed is counted to just past Deadline.
ProberClock ==
    /\ stage \in Waiting /\ idle < IdleLimit
    /\ idle' = idle + 1
    /\ elapsed' = IF elapsed > Deadline THEN elapsed ELSE elapsed + 1
    /\ UNCHANGED <<stage, kind, code, active, cause, verdict>>

ProberNext ==
    \/ InvalidUrl \/ SendRequest \/ Advance \/ ReceiveHead \/ ReceiveChunk \/ OnEnd
    \/ NetworkError \/ PeerCloses \/ OnTimeout \/ EmitError \/ ProberClock

\* The process runs and time passes; nothing is asked of the target.
ProberFairness ==
    /\ WF_proberVars(SendRequest \/ InvalidUrl)
    /\ WF_proberVars(OnTimeout)
    /\ WF_proberVars(EmitError)
    /\ WF_proberVars(ProberClock)

ProberSpec == ProberInit /\ [][ProberNext]_proberVars /\ ProberFairness

------------------------------------------------------------------------------
\* Every variable has its type.
ProberTypeOK ==
    /\ stage \in Stages /\ kind \in [secure : BOOLEAN, framed : BOOLEAN]
    /\ code \in {"none", "2xx-3xx", "other"}
    /\ idle \in 0..IdleLimit /\ active \in 0..MaxActive
    /\ elapsed \in 0..(Deadline + 1)
    /\ cause \in {"none", "ERR_INVALID_URL", "ENOTFOUND", "EAI_AGAIN", "ETIMEDOUT",
                  "ECONNREFUSED", "ECONNRESET"}
    /\ verdict \in {"pending", "SUCCESS", "FAILURE", "TIMEOUT", "ERROR"}

\* A probe that has been sent settles (docs/reliability.md: a request is aborted
\* "rather than blocking the worker thread").  It does not when the target closes the
\* connection in the middle of a response that told its length: no event of the
\* request follows, and the check waits for ever.
ProbeSettles == (stage \in Waiting) ~> (verdict # "pending")

\* How long a probe can take: the timeout once more for every time the socket was
\* active, not the timeout alone, so an attempt has no limit that the check's lock
\* could be set by (CheckLock).
DurationBounded == elapsed <= (active + 1) * IdleLimit
==============================================================================
