---------------------------- MODULE DomainStream ----------------------------
(***************************************************************************)
(* GET /api/domains/stream/:domain_id composed with the custom domains: each *)
(* client is the dashboard's dialog for one row, with an EventSource that    *)
(* reconnects by itself when its connection breaks.                          *)
(***************************************************************************)
EXTENDS CustomDomain

VARIABLES cpc,      \* where the client's request or stream is
          row,      \* the row its dialog shows
          seen      \* the dialog shows the TXT record to add

streamVars == <<cpc, row, seen>>
allVars == <<vars, streamVars>>

\* "checked": the handler found a row in progress and is about to LISTEN;
\* "resuming": the same, with a records event to send first.  "done" and
\* "failed": the dialog closed the stream on that event.  "refused": an answer
\* other than 200, after which an EventSource does not try again.
StreamTypeOK ==
    /\ TypeOK
    /\ cpc \in [Clients -> {"idle", "checked", "resuming", "open", "done", "failed", "refused"}]
    /\ row \in [Clients -> Ids \cup {NoId}]
    /\ seen \in [Clients -> BOOLEAN]

StreamInit == /\ Init
              /\ cpc = [c \in Clients |-> "idle"]
              /\ row = [c \in Clients |-> NoId]
              /\ seen = [c \in Clients |-> FALSE]

-----------------------------------------------------------------------------

\* faulty: the status is passed on as it is
AnswerStatus(i) == rows[i].st

\* What the query finds decides the stream
Answer(i) == CASE ~Exists(i) -> "refused"
               [] rows[i].st = "active" -> "done"
               [] rows[i].st = "failed" -> "failed"
               [] rows[i].st = "ssl_pending" /\ rows[i].txt # NoHost -> "resuming"
               [] OTHER -> "checked"

CheckRow(c, i) ==
    /\ cpc[c] = "idle" /\ row[c] \in {NoId, i}
    /\ row' = [row EXCEPT ![c] = i]
    /\ cpc' = [cpc EXCEPT ![c] = Answer(i)]
    /\ UNCHANGED <<vars, seen>>

\* PgListener::connect_with, listen, the records event, the forwarding task
Subscribe(c) ==
    /\ cpc[c] \in {"checked", "resuming"}
    /\ Listen(c, row[c])
    /\ cpc' = [cpc EXCEPT ![c] = "open"]
    /\ seen' = [seen EXCEPT ![c] = @ \/ cpc[c] = "resuming"]
    /\ UNCHANGED <<domainVars, row>>

\* a query, or taking the listener's connection from the pool, fails: 500
StreamFails(c) ==
    /\ MayFail
    /\ cpc[c] \in {"idle", "checked", "resuming"}
    /\ cpc' = [cpc EXCEPT ![c] = "refused"]
    /\ UNCHANGED <<vars, row, seen>>

Hears(c, payload) == cpc[c] = "open" /\ inbox[c] # <<>> /\ Head(inbox[c]) = payload

ForwardRecords(c) ==
    /\ Hears(c, "records")
    /\ Receive(c)
    /\ seen' = [seen EXCEPT ![c] = TRUE]
    /\ UNCHANGED <<domainVars, cpc, row>>

\* a terminal payload ends the forwarding task, which drops its listener
ForwardEnd(c) ==
    /\ \E e \in {"done", "failed"} : Hears(c, e) /\ cpc' = [cpc EXCEPT ![c] = e]
    /\ Unlisten(c)
    /\ UNCHANGED <<domainVars, row, seen>>

\* the listener's session breaks; recv() opens another and listens again ...
ListenerLost(c) ==
    /\ MayFail
    /\ cpc[c] = "open" /\ listening[c] # NoChannel
    /\ Unlisten(c)
    /\ UNCHANGED <<domainVars, streamVars>>

Relisten(c) ==
    /\ cpc[c] = "open" /\ listening[c] = NoChannel
    /\ Listen(c, row[c])
    /\ UNCHANGED <<domainVars, streamVars>>

\* ... or fails and the stream ends, as when the browser's connection breaks:
\* the EventSource asks again
StreamEnds(c) ==
    /\ MayFail
    /\ cpc[c] \in {"checked", "resuming", "open"}
    /\ Unlisten(c)
    /\ cpc' = [cpc EXCEPT ![c] = "idle"]
    /\ UNCHANGED <<domainVars, row, seen>>

ProcessCrash ==
    /\ AppCrash
    /\ cpc' = [c \in Clients |->
                 IF cpc[c] \in {"checked", "resuming", "open"} THEN "idle" ELSE cpc[c]]
    /\ UNCHANGED <<row, seen>>

StreamStep(c) == Subscribe(c) \/ ForwardRecords(c) \/ ForwardEnd(c) \/ Relisten(c)

StreamNext ==
    \/ (DomainStep \/ PgCrash) /\ UNCHANGED streamVars
    \/ ProcessCrash
    \/ \E c \in Clients : \/ \E i \in Ids : CheckRow(c, i)
                          \/ StreamStep(c)
                          \/ StreamFails(c) \/ ListenerLost(c) \/ StreamEnds(c)

StreamSpec == StreamInit /\ [][StreamNext]_allVars

\* as in CustomDomain, and the stream's handler and forwarding task run
StreamFairSpec ==
    /\ StreamSpec
    /\ \A k \in Tasks : WF_allVars(TaskStep(k) /\ UNCHANGED streamVars)
    /\ \A x \in Handlers : WF_allVars(HandlerStep(x) /\ UNCHANGED streamVars)
    /\ \A c \in Clients : WF_allVars(StreamStep(c))

-----------------------------------------------------------------------------
(* Properties *)

Works(i, pcs) == \E k \in Tasks : Id(k) = i /\ task[k].pc \in pcs
Overlap(i) == \E j, k \in Tasks : j # k /\ Id(j) = i /\ Id(k) = i /\ {task[j].pc, task[k].pc} \subseteq Running
Ended(c) == cpc[c] \in {"done", "failed", "refused"}

\* A dialog shows "done" only for a domain that had its certificate and has an
\* ownership value in its zone, though the row may have been reset or deleted
\* between the pipeline's last statements and the event.  The second half is true
\* only of replies that carry the value (not with CfMayOmit).
DoneIsEarned ==
    \A c \in Clients : cpc[c] = "done" => /\ Certified(rows[row[c]].dom)
                                          /\ zone[rows[row[c]].dom] # {}

\* The dialog of a row whose pipelines stop with a timeout or a success while it
\* listens is told, unless the row is deleted (no notification says so).
DomainListenersHear ==
    \A c \in Clients, i \in Ids :
        cpc[c] = "open" /\ row[c] = i /\ Works(i, Running \ {"primary"})
            ~> Ended(c) \/ rows[i].st = "deleted"

\* A dialog that listens, and has read all it was sent, before the only pipeline
\* on its row announces the TXT record shows the record, unless the row is deleted
\* or a second pipeline starts on it (whose timeout may end the dialog first).
\* It is meant for replies that carry the value: without one there is no record.
ListenersSeeRecords ==
    \A c \in Clients, i \in Ids :
        cpc[c] = "open" /\ inbox[c] = <<>> /\ row[c] = i
        /\ Works(i, {"create", "store", "refresh", "announce", "mark", "read"})
            ~> seen[c] \/ rows[i].st = "deleted" \/ Overlap(i)
=============================================================================
