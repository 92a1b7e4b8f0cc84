------------------------------ MODULE PgNotify ------------------------------
(***************************************************************************)
(* External: Postgres LISTEN/NOTIFY as the streams of src/ use it through   *)
(* sqlx's PgListener.  A notification reaches the sessions that listen on   *)
(* its channel when it commits, in order, and nobody else: it is not kept   *)
(* for a session that starts to listen later.                               *)
(***************************************************************************)
EXTENDS Sequences, Naturals

CONSTANTS Clients,      \* the sessions that may listen, one per open stream
          Channels,     \* tenant_<uuid> or domain_<uuid>: the id stands for it
          NoChannel,
          MaxInbox      \* bound on the payloads a session has not read yet

ASSUME PgNotifyAssumption == NoChannel \notin Channels /\ MaxInbox \in Nat

VARIABLES listening,    \* [Clients -> the channel the session listens on]
          inbox         \* [Clients -> payloads delivered and not yet read]

notifyVars == <<listening, inbox>>

NotifyInit == /\ listening = [c \in Clients |-> NoChannel]
              /\ inbox = [c \in Clients |-> <<>>]

\* SELECT pg_notify(channel, payload)
Notify(ch, payload) ==
    /\ \A c \in Clients : listening[c] = ch => Len(inbox[c]) < MaxInbox
    /\ inbox' = [c \in Clients |-> IF listening[c] = ch
                                     THEN Append(inbox[c], payload)
                                     ELSE inbox[c]]
    /\ UNCHANGED listening

\* PgListener::connect_with + listen
Listen(c, ch) == /\ listening' = [listening EXCEPT ![c] = ch]
                 /\ inbox' = [inbox EXCEPT ![c] = <<>>]

\* the session ends, and what was delivered to it is gone
Unlisten(c) == Listen(c, NoChannel)

\* PgListener::recv returns the oldest payload
Receive(c) == /\ inbox[c] # <<>>
              /\ inbox' = [inbox EXCEPT ![c] = Tail(@)]
              /\ UNCHANGED listening

\* the server closes every session
DropSessions == /\ listening' = [c \in Clients |-> NoChannel]
                /\ inbox' = [c \in Clients |-> <<>>]
=============================================================================
