------------------------- MODULE DomainStream_proofs ------------------------
(***************************************************************************)
(* The stream of a domain's dialog: "done" is earned, for any number of     *)
(* dialogs, rows and pipelines, with failures, broken connections and       *)
(* restarts.                                                                *)
(***************************************************************************)
EXTENDS DomainStream, DomainRows_proofs

(***************************************************************************)
(* A "done" on its way to a dialog is as good as one that it shows: a       *)
(* session listens on the channel of the dialog's row, so whatever is in    *)
(* its inbox was said of that row, which keeps its domain when it is        *)
(* deleted.                                                                 *)
(***************************************************************************)
Good(i) == rows[i].st # "none" /\ Certified(rows[i].dom) /\ zone[rows[i].dom] # {}

Attached == {"checked", "resuming", "open", "done"}
RowKnown == \A c \in Clients : cpc[c] \in Attached => row[c] \in Ids
TInv == IInv /\ StreamTypeOK /\ RowKnown

DialogOK(c) ==
    /\ cpc[c] # "open" => inbox[c] = <<>> /\ listening[c] = NoChannel
    /\ listening[c] # NoChannel => listening[c] = row[c]
    /\ \A n \in 1..Len(inbox[c]) : inbox[c][n] = "done" => Good(row[c])
    /\ cpc[c] = "done" => Good(row[c])
SInv == TInv /\ OwnInv /\ \A c \in Clients : DialogOK(c)

-----------------------------------------------------------------------------

LEMMA InitStream == StreamInit => SInv
<1> SUFFICES ASSUME StreamInit PROVE SInv
  OBVIOUS
<1>1. IInv /\ OwnInv
  BY InitInv, InitOwned DEF StreamInit
<1>2. StreamTypeOK /\ RowKnown
  BY <1>1 DEF StreamInit, StreamTypeOK, RowKnown, Attached, IInv
<1>3. \A c \in Clients : inbox[c] = <<>> /\ listening[c] = NoChannel /\ cpc[c] = "idle"
  BY DEF StreamInit, Init, NotifyInit
<1>4. ASSUME NEW c \in Clients PROVE DialogOK(c)
  <2>1. inbox[c] = <<>> /\ listening[c] = NoChannel /\ cpc[c] = "idle"
    BY <1>3
  <2>2. 1..Len(inbox[c]) = {}
    BY <2>1
  <2> QED
    BY <2>1, <2>2 DEF DialogOK
<1> QED
  BY <1>1, <1>2, <1>4 DEF SInv, TInv

\* What the session of a client does changes nothing of the domains.
LEMMA SessionsOnly ==
    ASSUME IInv, UNCHANGED domainVars, NotifyTypeOK'
    PROVE  IInv' /\ (OwnInv => OwnInv') /\ \A i \in Ids : Good(i) => Good(i)'
<1>1. UNCHANGED <<rows, primary, kv, acme, hosts, zone, task, hnd, crashes>>
  BY DEF domainVars, dbVars, envVars
<1>2. TypeOK'
  BY <1>1 DEF IInv, TypeOK
<1>3. Grows /\ Calm
  BY <1>1, SameRows
<1>4. IInv'
  BY <1>1, <1>2, <1>3, Combine
<1>5. ASSUME OwnInv PROVE OwnInv'
  <2>1. \A k \in Tasks : TaskOwned(k)'
    BY <1>1, <1>5 DEF OwnInv, TaskOwned, Exists, Id, Dom
  <2>2. \A i \in Ids : RowOwned(i)'
    BY <1>1, <1>5 DEF OwnInv, RowOwned
  <2> QED
    BY <1>4, <2>1, <2>2 DEF OwnInv
<1> QED
  BY <1>1, <1>4, <1>5 DEF Good, Certified

LEMMA GoodStays ==
    ASSUME IInv, [DomainNext]_vars, NEW i \in Ids, Good(i)
    PROVE  Good(i)'
<1>1. RowsKeep /\ HostsKeep /\ ZoneKeeps
  BY NextRowsKeep, NextHostsKeep, NextZoneKeeps
<1>2. /\ rows[i].dom \in Domains /\ rows'[i].dom = rows[i].dom /\ rows'[i].st # "none"
  BY <1>1 DEF Good, IInv, RowOK, RowsKeep
<1>3. Certified(rows[i].dom)'
  <2>1. rows[i].dom \in Domains /\ Certified(rows[i].dom)
    BY <1>2 DEF Good
  <2> QED
    BY <1>1, <1>2, <2>1 DEF Certified, HostsKeep
<1> QED
  BY <1>1, <1>2, <1>3 DEF Good, ZoneKeeps, Certified

-----------------------------------------------------------------------------

\* Only these steps of the domains reach a session.
LEMMA NotifyWriters ==
    ASSUME [DomainNext]_vars
    PROVE  \/ UNCHANGED notifyVars
           \/ DropSessions
           \/ \E k \in Tasks : \/ Announce(k) \/ ReadOwnership(k) \/ NotifyFailed(k)
                               \/ NotifyDone(k)
BY DEF DomainNext, DomainStep, FaultlessStep, Fault, Environment, TaskStep, Arrive, HandlerStep,
       PollCname, Timeout, CreateHost, StoreOwnership, MarkSslPending, PollTxt, PollSsl, ReadTenant,
       RowGone, WarmKv, Activate, SetPrimary, TaskFails, AddCheck, AddInsert, Spawn, VerifyRead,
       VerifyReset, DeleteRead, DeleteKv, DeletePrimary, DeleteRow, DomainStatus, Cancel, IssueCert,
       PublishTxt, OperatorDeletesHost, AppCrash, PgCrash, vars, domainVars

\* A notification that says "done" only of a good row leaves the dialogs good.
LEMMA NotifyDialogs ==
    ASSUME SInv, UNCHANGED streamVars, NEW i \in Ids, NEW e \in {"records", "done", "failed"},
           Notify(i, e), e = "done" => Good(i),
           \A j \in Ids : Good(j) => Good(j)',
           NEW c \in Clients
    PROVE  DialogOK(c)'
<1>1. /\ cpc' = cpc /\ row' = row /\ listening' = listening
      /\ inbox'[c] = IF listening[c] = i THEN Append(inbox[c], e) ELSE inbox[c]
      /\ inbox[c] \in Seq({"records", "done", "failed"})
      /\ DialogOK(c) /\ (cpc[c] \in Attached => row[c] \in Ids) /\ i # NoChannel
  BY CustomDomainAssumption, PgNotifyAssumption
     DEF streamVars, Notify, SInv, TInv, RowKnown, IInv, TypeOK, NotifyTypeOK
<1>2. ASSUME NEW n \in 1..Len(inbox'[c]), inbox'[c][n] = "done"
      PROVE  Good(row[c])'
  <2>1. CASE n \in 1..Len(inbox[c]) /\ inbox[c][n] = "done"
    <3>1. cpc[c] = "open" /\ Good(row[c])
      BY <1>1, <2>1 DEF DialogOK
    <3>2. row[c] \in Ids
      BY <1>1, <3>1 DEF Attached
    <3> QED
      BY <1>1, <3>1, <3>2
  <2>2. CASE ~(n \in 1..Len(inbox[c]) /\ inbox[c][n] = "done")
    <3>1. listening[c] = i /\ e = "done"
      BY <1>1, <1>2, <2>2
    <3>2. row[c] = i /\ Good(i)'
      BY <1>1, <3>1 DEF DialogOK
    <3> QED
      BY <1>1, <3>2
  <2> QED
    BY <2>1, <2>2
<1>3. cpc[c] = "done" => Good(row[c])'
  BY <1>1 DEF DialogOK, Attached
<1>4. cpc[c] # "open" => inbox'[c] = <<>> /\ listening[c] = NoChannel
  BY <1>1 DEF DialogOK
<1> QED
  BY <1>1, <1>2, <1>3, <1>4 DEF DialogOK

\* Sessions that end, and an inbox that stays, leave them good, too.
LEMMA QuietDialogs ==
    ASSUME SInv, row' = row, NEW c \in Clients,
           cpc'[c] = cpc[c] \/ cpc'[c] \in {"idle", "refused"},
           \/ UNCHANGED notifyVars /\ cpc'[c] = cpc[c]
           \/ inbox'[c] = <<>> /\ listening'[c] = NoChannel,
           \A j \in Ids : Good(j) => Good(j)'
    PROVE  DialogOK(c)'
<1>1. /\ DialogOK(c) /\ (cpc[c] \in Attached => row[c] \in Ids)
      /\ inbox[c] \in Seq({"records", "done", "failed"})
  BY DEF SInv, TInv, RowKnown, IInv, TypeOK, NotifyTypeOK
<1>2. cpc'[c] = "done" => Good(row[c])'
  BY <1>1 DEF DialogOK, Attached
<1>3. CASE inbox'[c] = <<>> /\ listening'[c] = NoChannel
  BY <1>2, <1>3 DEF DialogOK
<1>4. CASE UNCHANGED notifyVars /\ cpc'[c] = cpc[c]
  <2>1. inbox' = inbox /\ listening' = listening
    BY <1>4 DEF notifyVars
  <2>2. ASSUME NEW n \in 1..Len(inbox[c]), inbox[c][n] = "done"
        PROVE  Good(row[c])'
    <3>1. cpc[c] = "open" /\ Good(row[c])
      BY <1>1, <2>2 DEF DialogOK
    <3> QED
      BY <1>1, <3>1 DEF Attached
  <2> QED
    BY <1>1, <1>2, <1>4, <2>1, <2>2 DEF DialogOK
<1> QED
  BY <1>3, <1>4

LEMMA DomainsDialogs ==
    ASSUME SInv, [DomainNext]_vars, UNCHANGED streamVars, NEW c \in Clients
    PROVE  DialogOK(c)'
<1>1. \A j \in Ids : Good(j) => Good(j)'
  BY GoodStays DEF SInv, TInv
<1>2. row' = row /\ cpc' = cpc
  BY DEF streamVars
<1>3. ASSUME NEW k \in Tasks,
             Announce(k) \/ ReadOwnership(k) \/ NotifyFailed(k) \/ NotifyDone(k)
      PROVE  DialogOK(c)'
  <2>1. Id(k) \in Ids
    BY <1>3, RunningTask DEF SInv, TInv, Announce, ReadOwnership, NotifyFailed, NotifyDone, At, Running
  <2>2. CASE NotifyDone(k)
    <3>1. Good(Id(k))
      BY <2>2, RunningTask
         DEF SInv, OwnInv, IInv, TaskOK, TaskOwned, NotifyDone, At, Running, HasCert, HasRecord,
             Good, Dom
    <3> QED
      BY <1>1, <2>1, <2>2, <3>1, NotifyDialogs DEF NotifyDone
  <2>3. CASE Announce(k) \/ ReadOwnership(k) \/ NotifyFailed(k)
    BY <1>1, <2>1, <2>3, NotifyDialogs DEF Announce, ReadOwnership, NotifyFailed
  <2> QED
    BY <1>3, <2>2, <2>3
<1>4. CASE UNCHANGED notifyVars \/ DropSessions
  BY <1>1, <1>2, <1>4, QuietDialogs DEF DropSessions
<1> QED
  BY <1>3, <1>4, NotifyWriters

-----------------------------------------------------------------------------

\* A step of one client leaves the other dialogs as they are.
LEMMA OneDialog ==
    ASSUME SInv, TInv', OwnInv', NEW c \in Clients, DialogOK(c)',
           \A i \in Ids : Good(i) => Good(i)',
           \A d \in Clients : d # c => /\ cpc'[d] = cpc[d] /\ row'[d] = row[d]
                                       /\ inbox'[d] = inbox[d] /\ listening'[d] = listening[d]
    PROVE  SInv'
<1>1. ASSUME NEW d \in Clients, d # c PROVE DialogOK(d)'
  <2>1. /\ DialogOK(d) /\ (cpc[d] \in Attached => row[d] \in Ids)
        /\ cpc'[d] = cpc[d] /\ row'[d] = row[d]
        /\ inbox'[d] = inbox[d] /\ listening'[d] = listening[d]
        /\ inbox[d] \in Seq({"records", "done", "failed"})
    BY <1>1 DEF SInv, TInv, RowKnown, IInv, TypeOK, NotifyTypeOK
  <2>2. cpc[d] = "done" => Good(row[d])'
    BY <2>1 DEF DialogOK, Attached
  <2>3. ASSUME NEW n \in 1..Len(inbox[d]), inbox[d][n] = "done"
        PROVE  Good(row[d])'
    <3>1. cpc[d] = "open" /\ Good(row[d])
      BY <2>1, <2>3 DEF DialogOK
    <3> QED
      BY <2>1, <3>1 DEF Attached
  <2> QED
    BY <2>1, <2>2, <2>3 DEF DialogOK
<1> QED
  BY <1>1 DEF SInv

\* Types: the domains move, ...
LEMMA DomainsTypes ==
    ASSUME TInv, [DomainNext]_vars,
           row' = row, cpc' \in [Clients -> {"idle", "checked", "resuming", "open", "done",
                                             "failed", "refused"}],
           seen' = seen,
           \A c \in Clients : cpc'[c] \in Attached => cpc[c] \in Attached
    PROVE  TInv'
<1>1. IInv'
  BY NextInv DEF TInv
<1> QED
  BY <1>1 DEF TInv, StreamTypeOK, RowKnown, IInv

LEMMA ListenType ==
    ASSUME NotifyTypeOK, NEW c \in Clients, NEW i \in Channels \cup {NoChannel}, Listen(c, i)
    PROVE  /\ NotifyTypeOK' /\ inbox'[c] = <<>> /\ listening'[c] = i
           /\ \A d \in Clients : d # c => inbox'[d] = inbox[d] /\ listening'[d] = listening[d]
<1>1. \A S : <<>> \in Seq(S)
  OBVIOUS
<1> QED
  BY <1>1 DEF NotifyTypeOK, Listen

\* ... or a client listens.
LEMMA ClientTypes ==
    ASSUME TInv, NEW c \in Clients, StreamStep(c) \/ ListenerLost(c) \/ StreamEnds(c)
    PROVE  /\ TInv' /\ UNCHANGED domainVars
           /\ \A d \in Clients : d # c => /\ cpc'[d] = cpc[d] /\ row'[d] = row[d]
                                          /\ inbox'[d] = inbox[d] /\ listening'[d] = listening[d]
<1>1. /\ NotifyTypeOK /\ row \in [Clients -> Ids \cup {NoId}] /\ seen \in [Clients -> BOOLEAN]
      /\ cpc \in [Clients -> {"idle", "checked", "resuming", "open", "done", "failed", "refused"}]
      /\ \A d \in Clients : cpc[d] \in Attached => row[d] \in Ids
  BY DEF TInv, StreamTypeOK, IInv, TypeOK, RowKnown
<1>2. CASE Subscribe(c)
  <2>1. UNCHANGED <<domainVars, row>> /\ NotifyTypeOK'
    BY <1>1, <1>2, CustomDomainAssumption DEF Subscribe, Listen, NotifyTypeOK, Attached
  <2>2. /\ seen' \in [Clients -> BOOLEAN]
        /\ cpc' = [cpc EXCEPT ![c] = "open"] /\ cpc[c] \in Attached
    BY <1>1, <1>2 DEF Subscribe, Attached
  <2>3. IInv'
    BY <2>1, SessionsOnly DEF TInv
  <2> QED
    BY <1>1, <1>2, <2>1, <2>2, <2>3
       DEF TInv, StreamTypeOK, RowKnown, IInv, Subscribe, Listen, NotifyTypeOK
<1>3. CASE ForwardRecords(c)
  <2>1. UNCHANGED <<domainVars, cpc, row>> /\ NotifyTypeOK'
    BY <1>1, <1>3 DEF ForwardRecords, Receive, NotifyTypeOK
  <2>2. IInv' /\ seen' \in [Clients -> BOOLEAN]
    BY <1>1, <1>3, <2>1, SessionsOnly DEF TInv, ForwardRecords
  <2> QED
    BY <1>1, <1>3, <2>1, <2>2
       DEF TInv, StreamTypeOK, RowKnown, IInv, ForwardRecords, Receive, NotifyTypeOK
<1>4. CASE ForwardEnd(c) \/ StreamEnds(c)
  <2>1. UNCHANGED <<domainVars, row, seen>> /\ Listen(c, NoChannel)
    BY <1>4 DEF ForwardEnd, StreamEnds, Unlisten
  <2>2. /\ NotifyTypeOK'
        /\ \A d \in Clients : d # c => inbox'[d] = inbox[d] /\ listening'[d] = listening[d]
    BY <1>1, <2>1, ListenType
  <2>3. PICK e \in {"done", "failed", "idle"} : cpc' = [cpc EXCEPT ![c] = e]
    BY <1>4 DEF ForwardEnd, StreamEnds
  <2>4. e = "done" => cpc[c] \in Attached
    <3>1. CASE ForwardEnd(c)
      BY <3>1 DEF ForwardEnd, Hears, Attached
    <3>2. CASE StreamEnds(c)
      BY <3>2 DEF StreamEnds, Attached
    <3> QED
      BY <1>4, <3>1, <3>2
  <2>5. IInv'
    BY <2>1, <2>2, SessionsOnly DEF TInv
  <2>6. /\ cpc' \in [Clients -> {"idle", "checked", "resuming", "open", "done", "failed", "refused"}]
        /\ \A d \in Clients : d # c => cpc'[d] = cpc[d]
    BY <1>1, <2>3
  <2>7. RowKnown'
    <3>1. cpc'[c] \in Attached => cpc[c] \in Attached
      BY <1>1, <2>3, <2>4 DEF Attached
    <3> QED
      BY <1>1, <2>1, <2>6, <3>1 DEF RowKnown
  <2> QED
    BY <1>1, <2>1, <2>2, <2>5, <2>6, <2>7 DEF TInv, StreamTypeOK, IInv
<1>5. CASE ListenerLost(c) \/ Relisten(c)
  <2>1. PICK i \in Ids \cup {NoChannel} : Listen(c, i)
    BY <1>1, <1>5 DEF ListenerLost, Relisten, Unlisten, Attached
  <2>2. UNCHANGED <<domainVars, streamVars>> /\ NotifyTypeOK'
    BY <1>1, <1>5, <2>1, CustomDomainAssumption
       DEF ListenerLost, Relisten, Listen, NotifyTypeOK
  <2>3. IInv'
    BY <2>2, SessionsOnly DEF TInv
  <2> QED
    BY <1>1, <2>1, <2>2, <2>3
       DEF TInv, StreamTypeOK, RowKnown, IInv, streamVars, Listen, NotifyTypeOK
<1> QED
  BY <1>2, <1>3, <1>4, <1>5 DEF StreamStep

\* The handler's query decides what the dialog shows.
LEMMA QueryTypes ==
    ASSUME TInv, NEW c \in Clients, StreamFails(c) \/ \E i \in Ids : CheckRow(c, i)
    PROVE  /\ TInv' /\ UNCHANGED vars
           /\ \A d \in Clients : d # c => cpc'[d] = cpc[d] /\ row'[d] = row[d]
<1>1. UNCHANGED vars /\ seen' = seen
  BY DEF StreamFails, CheckRow
<1>2. IInv'
  BY <1>1, NextInv DEF TInv
<1>3. CASE StreamFails(c)
  BY <1>1, <1>2, <1>3 DEF StreamFails, TInv, StreamTypeOK, RowKnown, Attached, IInv
<1>4. ASSUME NEW i \in Ids, CheckRow(c, i)
      PROVE  /\ TInv'
             /\ \A d \in Clients : d # c => cpc'[d] = cpc[d] /\ row'[d] = row[d]
  <2>1. Answer(i) \in {"checked", "resuming", "done", "failed", "refused"}
    BY DEF Answer
  <2> QED
    BY <1>1, <1>2, <1>4, <2>1 DEF CheckRow, TInv, StreamTypeOK, RowKnown, IInv
<1> QED
  BY <1>1, <1>3, <1>4

LEMMA CrashTypes ==
    ASSUME TInv, ProcessCrash
    PROVE  TInv'
<1>1. [DomainNext]_vars /\ UNCHANGED <<row, seen>>
  BY DEF ProcessCrash, DomainNext
<1>2. /\ cpc' \in [Clients -> {"idle", "checked", "resuming", "open", "done", "failed", "refused"}]
      /\ \A c \in Clients : cpc'[c] = cpc[c] \/ cpc'[c] = "idle"
  BY DEF ProcessCrash, TInv, StreamTypeOK
<1>3. \A c \in Clients : cpc'[c] \in Attached => cpc[c] \in Attached
  BY <1>2 DEF Attached
<1> QED
  BY <1>1, <1>2, <1>3, DomainsTypes

LEMMA NextTypes ==
    ASSUME TInv, [StreamNext]_allVars
    PROVE  TInv'
<1>1. ASSUME [DomainNext]_vars, UNCHANGED streamVars
      PROVE  TInv'
  BY <1>1, DomainsTypes DEF streamVars, TInv, StreamTypeOK
<1>2. CASE (DomainStep \/ PgCrash) /\ UNCHANGED streamVars
  BY <1>1, <1>2 DEF DomainNext
<1>3. CASE UNCHANGED allVars
  BY <1>1, <1>3 DEF allVars
<1> QED
  BY <1>2, <1>3, CrashTypes, ClientTypes, QueryTypes DEF StreamNext

-----------------------------------------------------------------------------

\* What one client does keeps its dialog good.
LEMMA ClientDialog ==
    ASSUME SInv, NEW c \in Clients, StreamStep(c) \/ ListenerLost(c) \/ StreamEnds(c),
           \A i \in Ids : Good(i) => Good(i)'
    PROVE  DialogOK(c)'
<1>1. /\ NotifyTypeOK /\ DialogOK(c) /\ (cpc[c] \in Attached => row[c] \in Ids)
      /\ cpc \in [Clients -> {"idle", "checked", "resuming", "open", "done", "failed", "refused"}]
  BY DEF SInv, TInv, StreamTypeOK, IInv, TypeOK, RowKnown
<1>2. ASSUME NEW i \in Channels \cup {NoChannel}, Listen(c, i), row' = row,
             cpc'[c] = "open" \/ i = NoChannel, i # NoChannel => i = row[c],
             cpc'[c] = "done" => Good(row[c])'
      PROVE  DialogOK(c)'
  <2>1. inbox'[c] = <<>> /\ listening'[c] = i
    BY <1>1, <1>2, ListenType
  <2>2. 1..Len(inbox'[c]) = {}
    BY <2>1
  <2> QED
    BY <1>2, <2>1, <2>2 DEF DialogOK
<1>3. CASE Subscribe(c) \/ Relisten(c)
  <2>1. /\ Listen(c, row[c]) /\ row' = row /\ cpc'[c] = "open" /\ cpc[c] \in Attached
    BY <1>1, <1>3 DEF Subscribe, Relisten, streamVars, Attached
  <2>2. row[c] \in Channels
    BY <1>1, <2>1, CustomDomainAssumption
  <2> QED
    BY <1>2, <2>1, <2>2
<1>4. CASE ListenerLost(c) \/ StreamEnds(c)
  <2>1. Listen(c, NoChannel) /\ row' = row /\ cpc'[c] # "done"
    BY <1>1, <1>4 DEF ListenerLost, StreamEnds, Unlisten, streamVars
  <2> QED
    BY <1>2, <2>1
<1>5. CASE ForwardEnd(c)
  <2>1. PICK e \in {"done", "failed"} : Hears(c, e) /\ cpc' = [cpc EXCEPT ![c] = e]
    BY <1>5 DEF ForwardEnd
  <2>2. e = "done" => Good(row[c]) /\ row[c] \in Ids
    <3>1. /\ inbox[c] \in Seq({"records", "done", "failed"})
          /\ cpc[c] = "open" /\ inbox[c] # <<>> /\ Head(inbox[c]) = e
      BY <1>1, <2>1 DEF Hears, NotifyTypeOK
    <3>2. 1 \in 1..Len(inbox[c]) /\ inbox[c][1] = e
      BY <3>1
    <3> QED
      BY <1>1, <3>1, <3>2 DEF DialogOK, Attached
  <2>3. /\ Listen(c, NoChannel) /\ row' = row /\ cpc'[c] = e
    BY <1>1, <1>5, <2>1 DEF ForwardEnd, Unlisten
  <2>4. cpc'[c] = "done" => Good(row[c])'
    BY <2>2, <2>3
  <2> QED
    BY <1>2, <2>3, <2>4
<1>6. CASE ForwardRecords(c)
  <2>1. /\ inbox[c] \in Seq({"records", "done", "failed"}) /\ inbox[c] # <<>>
        /\ inbox'[c] = Tail(inbox[c]) /\ listening' = listening
        /\ row' = row /\ cpc' = cpc /\ cpc[c] = "open" /\ row[c] \in Ids
    BY <1>1, <1>6 DEF ForwardRecords, Hears, Receive, NotifyTypeOK, Attached
  <2>2. ASSUME NEW n \in 1..Len(inbox'[c]), inbox'[c][n] = "done"
        PROVE  Good(row[c])'
    <3>1. n + 1 \in 1..Len(inbox[c]) /\ inbox[c][n + 1] = "done"
      BY <2>1, <2>2
    <3>2. Good(row[c])
      BY <1>1, <3>1 DEF DialogOK
    <3> QED
      BY <2>1, <3>2
  <2> QED
    BY <1>1, <2>1, <2>2 DEF DialogOK
<1> QED
  BY <1>3, <1>4, <1>5, <1>6 DEF StreamStep

\* What its query finds does, too.
LEMMA QueryDialog ==
    ASSUME SInv, ~CfMayOmit, NEW c \in Clients, UNCHANGED vars,
           StreamFails(c) \/ \E i \in Ids : CheckRow(c, i),
           \A i \in Ids : Good(i) => Good(i)'
    PROVE  DialogOK(c)'
<1>1. /\ inbox' = inbox /\ listening' = listening /\ cpc[c] # "open" /\ DialogOK(c)
      /\ cpc \in [Clients -> {"idle", "checked", "resuming", "open", "done", "failed", "refused"}]
      /\ row \in [Clients -> Ids \cup {NoId}]
  BY DEF vars, notifyVars, StreamFails, CheckRow, SInv, TInv, StreamTypeOK
<1>2. inbox[c] = <<>> /\ listening[c] = NoChannel
  BY <1>1 DEF DialogOK
<1>3. 1..Len(inbox[c]) = {}
  BY <1>2
<1>4. CASE StreamFails(c)
  BY <1>1, <1>2, <1>3, <1>4 DEF StreamFails, DialogOK
<1>5. ASSUME NEW i \in Ids, CheckRow(c, i)
      PROVE  DialogOK(c)'
  <2>1. row'[c] = i /\ cpc'[c] = Answer(i)
    BY <1>1, <1>5 DEF CheckRow
  <2>2. Answer(i) = "done" => rows[i].st = "active"
    BY DEF Answer
  <2>3. Answer(i) # "open"
    BY DEF Answer
  <2>4. rows[i].st = "active" => Good(i)
    BY DEF SInv, TInv, IInv, OwnInv, RowOK, RowOwned, Good
  <2>5. cpc'[c] = "done" => Good(i)'
    BY <2>1, <2>2, <2>4
  <2> QED
    BY <1>1, <1>2, <1>3, <2>1, <2>3, <2>5 DEF DialogOK
<1> QED
  BY <1>4, <1>5

LEMMA NextStream ==
    ASSUME SInv, ~CfMayOmit, [StreamNext]_allVars
    PROVE  SInv'
<1>1. TInv'
  BY NextTypes DEF SInv
<1>2. ASSUME [DomainNext]_vars PROVE OwnInv' /\ \A i \in Ids : Good(i) => Good(i)'
  BY <1>2, NextOwned, GoodStays DEF SInv, TInv
<1>3. ASSUME [DomainNext]_vars, UNCHANGED streamVars PROVE SInv'
  BY <1>1, <1>2, <1>3, DomainsDialogs DEF SInv
<1>4. ASSUME NEW c \in Clients, StreamStep(c) \/ ListenerLost(c) \/ StreamEnds(c)
      PROVE  SInv'
  <2>1. /\ UNCHANGED domainVars /\ NotifyTypeOK'
        /\ \A d \in Clients : d # c => /\ cpc'[d] = cpc[d] /\ row'[d] = row[d]
                                       /\ inbox'[d] = inbox[d] /\ listening'[d] = listening[d]
    BY <1>1, <1>4, ClientTypes DEF SInv, TInv, IInv, TypeOK
  <2>2. OwnInv' /\ \A i \in Ids : Good(i) => Good(i)'
    BY <2>1, SessionsOnly DEF SInv, TInv
  <2>3. DialogOK(c)'
    BY <1>4, <2>2, ClientDialog
  <2> QED
    BY <1>1, <2>1, <2>2, <2>3, OneDialog
<1>5. ASSUME NEW c \in Clients, StreamFails(c) \/ \E i \in Ids : CheckRow(c, i)
      PROVE  SInv'
  <2>1. /\ UNCHANGED vars
        /\ \A d \in Clients : d # c => cpc'[d] = cpc[d] /\ row'[d] = row[d]
    BY <1>5, QueryTypes DEF SInv
  <2>2. inbox' = inbox /\ listening' = listening
    BY <2>1 DEF vars, notifyVars
  <2>3. OwnInv' /\ \A i \in Ids : Good(i) => Good(i)'
    BY <1>2, <2>1
  <2>4. DialogOK(c)'
    BY <1>5, <2>1, <2>3, QueryDialog
  <2> QED
    BY <1>1, <2>1, <2>2, <2>3, <2>4, OneDialog
<1>6. CASE ProcessCrash
  <2>1. [DomainNext]_vars /\ DropSessions /\ row' = row
    BY <1>6 DEF ProcessCrash, AppCrash, DomainNext
  <2>2. \A c \in Clients : /\ cpc'[c] = cpc[c] \/ cpc'[c] = "idle"
                           /\ inbox'[c] = <<>> /\ listening'[c] = NoChannel
    BY <1>6, <2>1 DEF ProcessCrash, DropSessions
  <2>3. OwnInv' /\ \A i \in Ids : Good(i) => Good(i)'
    BY <1>2, <2>1
  <2>4. \A c \in Clients : DialogOK(c)'
    BY <2>1, <2>2, <2>3, QuietDialogs
  <2> QED
    BY <1>1, <2>3, <2>4 DEF SInv
<1>7. CASE (DomainStep \/ PgCrash) /\ UNCHANGED streamVars
  BY <1>3, <1>7 DEF DomainNext
<1>8. CASE UNCHANGED allVars
  BY <1>3, <1>8 DEF allVars
<1> QED
  BY <1>4, <1>5, <1>6, <1>7, <1>8 DEF StreamNext

-----------------------------------------------------------------------------

\* The variables of the domains and of their streams keep their types.
THEOREM StreamTypeCorrect == StreamSpec => []StreamTypeOK
<1>1. StreamInit => TInv
  BY InitStream DEF SInv
<1>2. TInv /\ [StreamNext]_allVars => TInv'
  BY NextTypes
<1>3. TInv => StreamTypeOK
  BY DEF TInv
<1> QED
  BY <1>1, <1>2, <1>3, PTL DEF StreamSpec

\* When Cloudflare's replies carry the ownership value, a dialog shows "done" only
\* for a domain with its certificate and with a value its owner published,
\* whatever resets, deletes, other pipelines and reconnections come between.
THEOREM DoneCorrect ==
    ASSUME ~CfMayOmit
    PROVE  StreamSpec => []DoneIsEarned
<1>1. SInv /\ [StreamNext]_allVars => SInv'
  BY NextStream
<1>2. SInv => DoneIsEarned
  BY DEF SInv, DialogOK, Good, DoneIsEarned
<1> QED
  BY <1>1, <1>2, InitStream, PTL DEF StreamSpec

-----------------------------------------------------------------------------
(* The registry, with the dialogs open *)

LEMMA StreamLetsBe ==
    ASSUME [StreamNext]_allVars
    PROVE  [DomainNext]_vars \/ UNCHANGED domainVars
<1>1. ASSUME NEW c \in Clients,
             \/ \E i \in Ids : CheckRow(c, i)
             \/ StreamStep(c) \/ StreamFails(c) \/ ListenerLost(c) \/ StreamEnds(c)
      PROVE  UNCHANGED domainVars
  BY <1>1 DEF CheckRow, StreamStep, Subscribe, ForwardRecords, ForwardEnd, Relisten,
              StreamFails, ListenerLost, StreamEnds, vars
<1> QED
  BY <1>1 DEF StreamNext, ProcessCrash, DomainNext, allVars

LEMMA SessionsRegistry ==
    ASSUME RegInv, IInv', UNCHANGED domainVars
    PROVE  RegInv' /\ UNCHANGED Registry!vars
<1>1. UNCHANGED <<rows, primary, kv, acme, hosts, zone, task, hnd, crashes>>
  BY DEF domainVars, dbVars, envVars
<1>2. HostsKnown'
  BY <1>1 DEF RegInv, HostsKnown, HostKnown
<1>3. OwnInv => OwnInv'
  BY SessionsOnly DEF RegInv, IInv, TypeOK
<1>4. Held' = Held /\ Holding' = Holding /\ ActiveDomains' = ActiveDomains
  BY <1>1, SameRowsView
<1>5. CertifiedDomains' = CertifiedDomains /\ ShownDomains' = ShownDomains
  BY <1>1 DEF CertifiedDomains, Certified, ShownDomains
<1> QED
  BY <1>1, <1>2, <1>3, <1>4, <1>5 DEF RegInv, Registry!vars

LEMMA StreamRegistryStep ==
    ASSUME TInv, RegInv, [StreamNext]_allVars
    PROVE  TInv' /\ RegInv' /\ [Registry!Next]_(Registry!vars)
<1>1. TInv'
  BY NextTypes
<1>2. CASE [DomainNext]_vars
  BY <1>1, <1>2, NextRegInv, RegistryStep
<1>3. CASE UNCHANGED domainVars
  <2>1. RegInv' /\ UNCHANGED Registry!vars
    BY <1>1, <1>3, SessionsRegistry DEF TInv
  <2> QED
    BY <1>1, <2>1
<1> QED
  BY <1>2, <1>3, StreamLetsBe

\* The domains implement DomainRegistry with dialogs that follow them, whose
\* sessions come and go.
THEOREM StreamImplements == StreamSpec => ImplementsRegistry
<1>1. StreamInit => TInv /\ RegInv /\ Registry!Init
  BY InitStream, InitRegistry DEF SInv, StreamInit
<1>2. TInv /\ RegInv /\ [StreamNext]_allVars => TInv' /\ RegInv' /\ [Registry!Next]_(Registry!vars)
  BY StreamRegistryStep
<1> QED
  BY <1>1, <1>2, PTL DEF StreamSpec, ImplementsRegistry, Registry!Spec
=============================================================================
