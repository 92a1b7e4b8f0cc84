------------------------- MODULE ProvisioningStream -------------------------
(***************************************************************************)
(* GET /api/provisioning/stream/:tenant_id composed with sign-up: each      *)
(* client is a status page with an EventSource, which follows one tenant    *)
(* and reconnects by itself when its connection breaks.                     *)
(***************************************************************************)
EXTENDS Provisioning

VARIABLES cpc,      \* where the client's request or stream is
          watch     \* the tenant its page follows

streamVars == <<cpc, watch>>
allVars == <<vars, streamVars>>

\* "checked": the handler has read pending and is about to LISTEN.  "done",
\* "failed": the page closed the stream on that event.  "refused": an answer
\* other than 200, after which an EventSource does not try again.
StreamTypeOK ==
    /\ cpc \in [Clients -> {"idle", "checked", "open", "done", "failed", "refused"}]
    /\ watch \in [Clients -> Tenants \cup {NoTenant}]

StreamInit == /\ Init
              /\ cpc = [c \in Clients |-> "idle"]
              /\ watch = [c \in Clients |-> NoTenant]

-----------------------------------------------------------------------------

\* faulty: the status is passed on as it is
AnswerStatus(t) == tenant[t]

\* faulty: a warm kv_cache entry is taken for the end
AnswerByKv(t) == IF tenant[t] = "pending"
                   THEN IF kv[sub[t]] = t THEN "done" ELSE "checked"
                   ELSE IF tenant[t] = "none" THEN "refused" ELSE "done"

\* What the first query finds decides the stream
Answer(t) == CASE tenant[t] = "none" -> "refused"
               [] tenant[t] = "active" -> "done"
               [] tenant[t] = "failed" -> "failed"
               [] tenant[t] = "pending" -> "checked"

CheckStatus(c, t) ==
    /\ cpc[c] = "idle" /\ watch[c] \in {NoTenant, t}
    /\ watch' = [watch EXCEPT ![c] = t]
    /\ cpc' = [cpc EXCEPT ![c] = Answer(t)]
    /\ UNCHANGED vars

\* faulty: the forwarding task is what listens, after the reply
SubscribeLate(c) ==
    /\ cpc[c] = "checked"
    /\ cpc' = [cpc EXCEPT ![c] = "open"]
    /\ UNCHANGED <<vars, watch>>

\* PgListener::connect_with, listen, and the forwarding task
Subscribe(c) ==
    /\ cpc[c] = "checked"
    /\ Listen(c, watch[c])
    /\ cpc' = [cpc EXCEPT ![c] = "open"]
    /\ UNCHANGED <<provVars, watch>>

\* a query, or taking the listener's connection from the pool, fails: 500
StreamFails(c) ==
    /\ MayFail
    /\ cpc[c] \in {"idle", "checked"}
    /\ cpc' = [cpc EXCEPT ![c] = "refused"]
    /\ UNCHANGED <<vars, watch>>

\* the terminal payload ends the forwarding task, which drops its listener
Forward(c) ==
    /\ cpc[c] = "open" /\ inbox[c] # <<>> /\ Head(inbox[c]) = "done"
    /\ Unlisten(c)
    /\ cpc' = [cpc EXCEPT ![c] = "done"]
    /\ UNCHANGED <<provVars, watch>>

\* the listener's session breaks ...
ListenerLost(c) ==
    /\ MayFail
    /\ cpc[c] = "open" /\ listening[c] # NoChannel
    /\ Unlisten(c)
    /\ UNCHANGED <<provVars, streamVars>>

\* ... recv() opens another and listens again, without a word to the caller ...
Relisten(c) ==
    /\ cpc[c] = "open" /\ listening[c] = NoChannel
    /\ Listen(c, watch[c])
    /\ UNCHANGED <<provVars, streamVars>>

\* ... or fails; the stream ends with an "error" event, as it does when the
\* browser's connection breaks, and the page's EventSource asks again
StreamEnds(c) ==
    /\ MayFail
    /\ cpc[c] \in {"checked", "open"}
    /\ Unlisten(c)
    /\ cpc' = [cpc EXCEPT ![c] = "idle"]
    /\ UNCHANGED <<provVars, watch>>

ProcessCrash ==
    /\ AppCrash
    /\ cpc' = [c \in Clients |-> IF cpc[c] \in {"checked", "open"} THEN "idle" ELSE cpc[c]]
    /\ UNCHANGED watch

StreamStep(c) == Subscribe(c) \/ Forward(c) \/ Relisten(c)

ClientStep(c) == \/ \E t \in Tenants : CheckStatus(c, t)
                 \/ StreamStep(c)
                 \/ StreamFails(c) \/ ListenerLost(c) \/ StreamEnds(c)

SignUpMoves == \E t \in Tenants : SignUpStep(t) /\ UNCHANGED streamVars
DatabaseCrash == PgCrash /\ UNCHANGED streamVars

StreamNext == \/ SignUpMoves \/ DatabaseCrash \/ ProcessCrash
              \/ \E c \in Clients : ClientStep(c)

StreamSpec == StreamInit /\ [][StreamNext]_allVars

\* as in Provisioning, and the stream's handler and forwarding task run
StreamFairSpec ==
    /\ StreamSpec
    /\ \A t \in Tenants : /\ WF_allVars(HandlerStep(t) /\ UNCHANGED streamVars)
                          /\ WF_allVars(TaskStep(t) /\ UNCHANGED streamVars)
    /\ \A c \in Clients : WF_allVars(StreamStep(c))

-----------------------------------------------------------------------------
(* Properties *)

\* A page that is told "done" redirects to the tenant's own host at once: by
\* then the name resolves and its owner can log in, whether the event came
\* from the first query or from a notification.
DoneIsTrue ==
    \A c \in Clients : cpc[c] = "done" =>
        watch[c] \in Resolved(sub[watch[c]]) /\ owner[watch[c]]

Watching(c, t) == watch[c] = t /\ cpc[c] = "open"

\* Without failures, a stream that listens before the task's last statement
\* ends with "done".
ListenersHear ==
    \A c \in Clients, t \in Tenants :
        Watching(c, t) /\ prov[t] \in Running ~> cpc[c] = "done"

\* handlers/provisioning.rs:22 "check current status first — maybe provisioning
\* already finished before the browser connected": a page that asks while the
\* task runs learns of its end one way or the other.
WatchersHear ==
    \A c \in Clients, t \in Tenants :
        watch[c] = t /\ cpc[c] = "checked" /\ prov[t] \in Running ~> cpc[c] = "done"
=============================================================================
