------------------------- MODULE DomainRows_proofs -------------------------
(***************************************************************************)
(* The rows of custom domains, for any number of tenants, rows, pipelines,  *)
(* requests and polls: without failures a row in progress has somebody who  *)
(* will settle it; with failures and crashes, an active row's ownership     *)
(* value was published in its zone, when Cloudflare's replies carry it; and *)
(* the rows, the records and the routes implement DomainRegistry.           *)
(***************************************************************************)
EXTENDS CustomDomain_proofs

(***************************************************************************)
(* Who works on a row                                                       *)
(***************************************************************************)

InProgress(i) == rows[i].st \in {"pending", "ssl_pending"}
Worked(i) == \/ \E k \in Tasks : task[k].pc \in Settling /\ Id(k) = i
             \/ \E x \in Handlers : hnd[x].pc = "spawn" /\ hnd[x].id = i

WorkInv == IInv /\ WorkedOn

LEMMA WorkedOnIs == WorkedOn <=> \A i \in Ids : InProgress(i) => Worked(i)
BY DEF WorkedOn, InProgress, Worked

\* A pipeline that has yet to settle its row still is, or the row is settled.
StillAt(k) == \/ task'[k].pc \in Settling /\ task'[k].id = task[k].id
              \/ rows'[task[k].id].st \notin {"pending", "ssl_pending"}

\* The rows in progress stay worked on when no work is dropped.
LEMMA WorkStays ==
    ASSUME WorkedOn,
           \A i \in Ids : InProgress(i)' => InProgress(i) \/ Worked(i)',
           \A k \in Tasks : task[k].pc \in Settling => StillAt(k),
           \A x \in Handlers, i \in Ids : hnd[x].pc = "spawn" /\ hnd[x].id = i => Worked(i)'
    PROVE  WorkedOn'
<1> SUFFICES ASSUME NEW i \in Ids, InProgress(i)' PROVE Worked(i)'
  BY WorkedOnIs DEF WorkedOn, InProgress, Worked
<1>1. CASE Worked(i)'
  BY <1>1
<1>2. CASE InProgress(i)
  <2>1. Worked(i)
    BY <1>2, WorkedOnIs
  <2>2. CASE \E k \in Tasks : task[k].pc \in Settling /\ Id(k) = i
    BY <2>2 DEF Worked, StillAt, Id, InProgress
  <2>3. CASE \E x \in Handlers : hnd[x].pc = "spawn" /\ hnd[x].id = i
    BY <2>3
  <2> QED
    BY <2>1, <2>2, <2>3 DEF Worked
<1> QED
  BY <1>1, <1>2

\* Requests about to spawn a pipeline still are.
LEMMA SpawnsStay ==
    ASSUME \A x \in Handlers : hnd[x].pc = "spawn" => hnd'[x] = hnd[x]
    PROVE  \A x \in Handlers, i \in Ids : hnd[x].pc = "spawn" /\ hnd[x].id = i => Worked(i)'
BY DEF Worked

\* A step of one pipeline that puts no row into progress, and ends its work on
\* its own row only when it leaves the row settled
LEMMA TaskWorks ==
    ASSUME WorkInv, NEW k \in Tasks, UNCHANGED hnd,
           \A i \in Ids : InProgress(i)' => InProgress(i),
           \A j \in Tasks : j # k => task'[j] = task[j],
           task[k].pc \in Settling => StillAt(k)
    PROVE  WorkedOn'
<1>1. \A j \in Tasks : task[j].pc \in Settling => StillAt(j)
  BY DEF StillAt
<1> QED
  BY <1>1, WorkStays, SpawnsStay DEF WorkInv

\* What SetStatus leaves of the statuses
LEMMA StatusSet ==
    ASSUME IInv, NEW i \in Ids, NEW st, SetStatus(i, st)
    PROVE  \A j \in Ids : rows'[j].st = IF j = i /\ Exists(i) THEN st ELSE rows[j].st
BY DEF SetStatus, IInv, TypeOK, Row

-----------------------------------------------------------------------------

LEMMA TaskWork ==
    ASSUME WorkInv, NEW k \in Tasks, TaskStep(k)
    PROVE  WorkedOn'
<1> USE DEF WorkInv
<1>0. task \in [Tasks -> Pipeline] /\ rows \in [Ids -> Row]
  BY DEF IInv, TypeOK
<1>1. CASE PollCname(k) \/ Announce(k) \/ PollTxt(k) \/ PollSsl(k) \/ WarmKv(k)
  <2>1. PICK pc \in Settling : /\ Goto(k, pc) \/ PollAgain(k)
                               /\ UNCHANGED <<rows, hnd>> /\ task[k].pc \in Settling
    BY <1>1 DEF PollCname, Announce, PollTxt, PollSsl, WarmKv, At, dbVars, Settling, Running, Polling
  <2>2. \A j \in Tasks : j # k => task'[j] = task[j]
    BY <1>0, <2>1 DEF Goto, PollAgain
  <2>3. task'[k].pc \in Settling /\ task'[k].id = task[k].id
    BY <1>0, <2>1 DEF Goto, PollAgain, Pipeline, Id
  <2> QED
    BY <2>1, <2>2, <2>3, TaskWorks DEF InProgress, StillAt
<1>2. CASE CreateHost(k) \/ ReadOwnership(k) \/ ReadTenant(k)
  <2>1. UNCHANGED <<rows, hnd>>
    BY <1>2 DEF CreateHost, ReadOwnership, ReadTenant, dbVars
  <2>2. \A j \in Tasks : j # k => task'[j] = task[j]
    BY <1>0, <1>2 DEF CreateHost, ReadOwnership, ReadTenant
  <2>3. task'[k].pc \in Settling /\ task'[k].id = task[k].id
    <3>1. CASE CreateHost(k)
      <4>0. PICK pc \in {"store", "refresh"} : pc = IF LiveHosts(Dom(k)) = {} THEN "store" ELSE "refresh"
        OBVIOUS
      <4>1. PICK h \in IF LiveHosts(Dom(k)) # {} THEN LiveHosts(Dom(k))
                       ELSE {g \in Hosts : hosts[g].dom = NoDomain} :
              \E v \in IF CfMayOmit THEN {h, NoHost} ELSE {h} :
                task' = [task EXCEPT ![k].pc = pc, ![k].cf = h, ![k].txt = v]
        BY Zenon, <3>1, <4>0 DEF CreateHost
      <4>2. PICK v : task' = [task EXCEPT ![k].pc = pc, ![k].cf = h, ![k].txt = v]
        BY Zenon, <4>1
      <4> DEFINE r == [task[k] EXCEPT !.pc = pc, !.cf = h, !.txt = v]
      <4>3. r.pc = pc /\ r.id = task[k].id
        BY <1>0 DEF Pipeline
      <4>4. task' = [task EXCEPT ![k] = r]
        BY <1>0, <4>2
      <4> HIDE DEF r
      <4> QED
        BY <1>0, <4>0, <4>3, <4>4 DEF Settling, Running, Polling
    <3>2. CASE ReadOwnership(k) \/ ReadTenant(k)
      BY <1>0, <3>2 DEF ReadOwnership, ReadTenant, Pipeline, Settling, Running, Polling
    <3> QED
      BY <1>2, <3>1, <3>2
  <2> QED
    BY <2>1, <2>2, <2>3, TaskWorks DEF InProgress, StillAt
<1>3. CASE StoreOwnership(k)
  <2>1. UNCHANGED hnd /\ \A i \in Ids : rows'[i].st = rows[i].st
    <3>1. PICK v : rows' = [rows EXCEPT ![Id(k)].txt = v]
      BY <1>3 DEF StoreOwnership
    <3>2. \A i \in Ids : rows'[i].st = rows[i].st
      BY <1>0, <3>1 DEF Row
    <3> QED
      BY <1>3, <3>2 DEF StoreOwnership
  <2>2. \A j \in Tasks : j # k => task'[j] = task[j]
    BY <1>0, <1>3 DEF StoreOwnership, Goto
  <2>3. task'[k].pc \in Settling /\ task'[k].id = task[k].id
    BY <1>0, <1>3 DEF StoreOwnership, Goto, AfterStore, Pipeline, Id, Settling, Running, Polling
  <2> QED
    BY <2>1, <2>2, <2>3, TaskWorks DEF InProgress, StillAt
<1>4. CASE MarkSslPending(k)
  <2>1. UNCHANGED hnd /\ \A i \in Ids : i # Id(k) => rows'[i] = rows[i]
    BY <1>0, <1>4 DEF MarkSslPending
  <2>2. \A j \in Tasks : j # k => task'[j] = task[j]
    BY <1>0, <1>4 DEF MarkSslPending, Goto
  <2>3. task'[k].pc \in Settling /\ task'[k].id = task[k].id
    BY <1>0, <1>4 DEF MarkSslPending, Goto, Pipeline, Id, Settling, Running, Polling
  <2>4. \A j \in Tasks : task[j].pc \in Settling => StillAt(j)
    BY <2>2, <2>3 DEF StillAt
  <2>5. \A i \in Ids : InProgress(i)' => InProgress(i) \/ Worked(i)'
    BY <2>1, <2>3 DEF InProgress, Worked, Id
  <2> QED
    BY <2>1, <2>4, <2>5, WorkStays, SpawnsStay
<1>5. CASE Timeout(k) \/ Activate(k)
  <2>1. PICK st \in {"failed", "active"}, pc \in Running : SetStatus(Id(k), st) /\ Goto(k, pc)
    BY <1>5 DEF Timeout, Activate, Running
  <2>2. UNCHANGED hnd /\ task[k].pc \in Running
    BY <1>5 DEF Timeout, Activate, At, Running
  <2>3. \A i \in Ids : rows'[i].st = IF i = Id(k) /\ Exists(Id(k)) THEN st ELSE rows[i].st
    BY <2>1, <2>2, RunningTask, StatusSet
  <2>4. \A j \in Tasks : j # k => task'[j] = task[j]
    BY <1>0, <2>1 DEF Goto
  <2>5. StillAt(k)
    BY <2>2, <2>3, RunningTask DEF StillAt, Exists, Id
  <2>6. \A i \in Ids : InProgress(i)' => InProgress(i)
    BY <2>3 DEF InProgress
  <2> QED
    BY <2>2, <2>4, <2>5, <2>6, TaskWorks
<1>6. CASE NotifyFailed(k) \/ NotifyDone(k) \/ SetPrimary(k)
  <2>1. UNCHANGED <<rows, hnd>> /\ task[k].pc \notin Settling
    BY <1>6 DEF NotifyFailed, NotifyDone, SetPrimary, At, dbVars, Settling
  <2>2. \A j \in Tasks : j # k => task'[j] = task[j]
    BY <1>0, <1>6 DEF NotifyFailed, NotifyDone, SetPrimary, Goto, End
  <2> QED
    BY <2>1, <2>2, TaskWorks DEF InProgress, StillAt
<1>7. CASE RowGone(k)
  <2>1. UNCHANGED <<rows, hnd>> /\ ~InProgress(Id(k))
    BY <1>7 DEF RowGone, dbVars, Exists, InProgress
  <2>2. \A j \in Tasks : j # k => task'[j] = task[j]
    BY <1>0, <1>7 DEF RowGone, End
  <2> QED
    BY <2>1, <2>2, TaskWorks DEF InProgress, StillAt, Id
<1> QED
  BY <1>1, <1>2, <1>3, <1>4, <1>5, <1>6, <1>7 DEF TaskStep

-----------------------------------------------------------------------------

\* A step of one request that spawns, drops and settles nothing
LEMMA RequestWorks ==
    ASSUME WorkInv, NEW x \in Handlers, UNCHANGED task, hnd[x].pc # "spawn",
           \A y \in Handlers : y # x => hnd'[y] = hnd[y],
           \A i \in Ids : InProgress(i)' => InProgress(i)
    PROVE  WorkedOn'
<1>1. \A k \in Tasks : task[k].pc \in Settling => StillAt(k)
  BY DEF StillAt
<1>2. \A y \in Handlers : hnd[y].pc = "spawn" => hnd'[y] = hnd[y]
  OBVIOUS
<1> QED
  BY <1>1, <1>2, WorkStays, SpawnsStay DEF WorkInv

\* A request that puts row i into progress is about to spawn a pipeline on it.
LEMMA RequestStarts ==
    ASSUME WorkInv, NEW x \in Handlers, NEW i \in Ids, UNCHANGED task, hnd[x].pc # "spawn",
           \A y \in Handlers : y # x => hnd'[y] = hnd[y],
           hnd'[x].pc = "spawn", hnd'[x].id = i,
           \A j \in Ids : j # i => rows'[j] = rows[j]
    PROVE  WorkedOn'
<1>1. \A k \in Tasks : task[k].pc \in Settling => StillAt(k)
  BY DEF StillAt
<1>2. \A y \in Handlers : hnd[y].pc = "spawn" => hnd'[y] = hnd[y]
  OBVIOUS
<1>3. \A j \in Ids : InProgress(j)' => InProgress(j) \/ Worked(j)'
  BY DEF InProgress, Worked
<1> QED
  BY <1>1, <1>2, <1>3, WorkStays, SpawnsStay DEF WorkInv

LEMMA HandlerWork ==
    ASSUME WorkInv, NEW x \in Handlers, Arrive(x) \/ HandlerStep(x)
    PROVE  WorkedOn'
<1> USE DEF WorkInv
<1>0. hnd \in [Handlers -> Served] /\ rows \in [Ids -> Row] /\ task \in [Tasks -> Pipeline]
  BY DEF IInv, TypeOK
<1>1. CASE Arrive(x) \/ DeleteKv(x) \/ DeletePrimary(x)
  <2>1. UNCHANGED <<rows, task>> /\ hnd[x].pc # "spawn"
    BY <1>1 DEF Arrive, AddCheck, VerifyRead, DeleteRead, DeleteKv, DeletePrimary, dbVars
  <2>2. \A y \in Handlers : y # x => hnd'[y] = hnd[y]
    BY <1>0, <1>1 DEF Arrive, AddCheck, VerifyRead, DeleteRead, DeleteKv, DeletePrimary, Request, Proceed
  <2> QED
    BY <2>1, <2>2, RequestWorks DEF InProgress
<1>2. CASE AddInsert(x)
  <2> USE DEF AddInsert
  <2>1. UNCHANGED task /\ hnd[x].pc # "spawn"
    BY <1>2
  <2>2. CASE Registered(hnd[x].dom)
    BY <1>0, <1>2, <2>1, <2>2, RequestWorks DEF Reply, InProgress
  <2>3. CASE ~Registered(hnd[x].dom)
    <3>1. PICK i \in Ids : /\ \E v : rows' = [rows EXCEPT ![i] = v]
                           /\ Request(x, "spawn", i, NoTenant, NoDomain)
      BY <1>2, <2>3
    <3> QED
      BY <1>0, <2>1, <3>1, RequestStarts DEF Request
  <2> QED
    BY <2>2, <2>3
<1>3. CASE VerifyReset(x)
  <2> USE DEF VerifyReset
  <2>1. UNCHANGED task /\ hnd[x].pc = "reset" /\ hnd[x].id \in Ids
    BY <1>3 DEF IInv, RequestOK
  <2>2. hnd'[x].pc = "spawn" /\ hnd'[x].id = hnd[x].id
    BY <1>0, <1>3 DEF Proceed, Served
  <2>3. /\ \A y \in Handlers : y # x => hnd'[y] = hnd[y]
        /\ \A j \in Ids : j # hnd[x].id => rows'[j] = rows[j]
    BY <1>0, <1>3 DEF Proceed, SetStatus
  <2> QED
    BY <2>1, <2>2, <2>3, RequestStarts
<1>4. CASE DeleteRow(x)
  <2> USE DEF DeleteRow
  <2>1. UNCHANGED task /\ hnd[x].pc = "dropRow" /\ hnd[x].id \in Ids /\ SetStatus(hnd[x].id, "deleted")
    BY <1>4 DEF IInv, RequestOK
  <2>2. \A i \in Ids : InProgress(i)' => InProgress(i)
    BY <2>1, StatusSet DEF InProgress
  <2>3. \A y \in Handlers : y # x => hnd'[y] = hnd[y]
    BY <1>0, <1>4 DEF Reply
  <2> QED
    BY <2>1, <2>2, <2>3, RequestWorks
<1>5. ASSUME NEW k \in Tasks, Spawn(x, k)
      PROVE  WorkedOn'
  <2> USE DEF Spawn
  <2>1. UNCHANGED rows /\ task[k].pc \notin Settling
    BY <1>5 DEF dbVars, Settling
  <2>2. /\ task'[k].pc \in Settling /\ task'[k].id = hnd[x].id
        /\ \A j \in Tasks : j # k => task'[j] = task[j]
    BY <1>0, <1>5 DEF NewTask, Settling, Running, Polling
  <2>3. \A y \in Handlers : y # x => hnd'[y] = hnd[y]
    BY <1>0, <1>5 DEF Reply
  <2>4. \A y \in Handlers, i \in Ids : hnd[y].pc = "spawn" /\ hnd[y].id = i => Worked(i)'
    BY <2>2, <2>3 DEF Worked, Id
  <2>5. \A j \in Tasks : task[j].pc \in Settling => StillAt(j)
    BY <2>1, <2>2 DEF StillAt
  <2> QED
    BY <2>1, <2>4, <2>5, WorkStays DEF InProgress
<1> QED
  BY Zenon, <1>1, <1>2, <1>3, <1>4, <1>5 DEF HandlerStep

LEMMA NextWork ==
    ASSUME WorkInv, [FaultlessStep]_vars
    PROVE  WorkInv'
<1>1. IInv /\ IInv' /\ WorkedOn
  BY NextInv DEF WorkInv, DomainNext, DomainStep
<1>2. UNCHANGED <<rows, task, hnd>> => WorkedOn'
  BY <1>1 DEF WorkedOn, Id
<1>3. Environment \/ UNCHANGED vars => UNCHANGED <<rows, task, hnd>>
  BY DEF Environment, IssueCert, PublishTxt, DomainStatus, vars, domainVars, dbVars
<1>4. ASSUME NEW k \in Tasks, TaskStep(k)
      PROVE  WorkedOn'
  BY <1>4, TaskWork
<1>5. ASSUME NEW x \in Handlers, Arrive(x) \/ HandlerStep(x)
      PROVE  WorkedOn'
  BY <1>5, HandlerWork
<1>6. WorkedOn'
  BY Zenon, <1>2, <1>3, <1>4, <1>5 DEF FaultlessStep
<1> QED
  BY <1>1, <1>6 DEF WorkInv

\* When nothing fails, a row in progress is always somebody's work, however many
\* pipelines, re-verifies and deletes overlap on it.
THEOREM WorkGoesOn == FaultlessSpec => []WorkedOn
<1>1. Init => WorkInv
  <2>1. Init => WorkedOn
    BY DEF Init, WorkedOn
  <2> QED
    BY <2>1, InitInv DEF WorkInv
<1>2. WorkInv /\ [FaultlessStep]_vars => WorkInv'
  BY NextWork
<1>3. WorkInv => WorkedOn
  BY DEF WorkInv
<1> QED
  BY <1>1, <1>2, <1>3, PTL DEF FaultlessSpec

-----------------------------------------------------------------------------
(***************************************************************************)
(* Who owns an active row                                                   *)
(***************************************************************************)

(***************************************************************************)
(* What no step takes back.  Beyond Grows: a deleted row stays deleted, a   *)
(* row keeps having a value, a zone keeps its records.                      *)
(***************************************************************************)
RowsKeep ==
    \A i \in Ids : rows[i].st # "none" =>
        /\ rows'[i].st # "none" /\ rows'[i].ten = rows[i].ten /\ rows'[i].dom = rows[i].dom
        /\ Exists(i)' => Exists(i)
        /\ rows[i].txt # NoHost => rows'[i].txt # NoHost
HostsKeep ==
    \A h \in Hosts : hosts[h].dom \in Domains =>
        hosts'[h].dom = hosts[h].dom /\ (hosts[h].ssl => hosts'[h].ssl)
ZoneKeeps == \A d \in Domains : zone[d] # {} => zone'[d] # {}

\* Only these steps write to the rows, ...
LEMMA RowWriters ==
    ASSUME [DomainNext]_vars
    PROVE  \/ rows' = rows
           \/ \E k \in Tasks : Timeout(k) \/ Activate(k) \/ StoreOwnership(k) \/ MarkSslPending(k)
           \/ \E x \in Handlers : AddInsert(x) \/ VerifyReset(x) \/ DeleteRow(x)
BY DEF DomainNext, DomainStep, FaultlessStep, Fault, Environment, TaskStep, Arrive, HandlerStep,
       PollCname, NotifyFailed, CreateHost, Announce, ReadOwnership, PollTxt, PollSsl, ReadTenant,
       RowGone, WarmKv, NotifyDone, SetPrimary, TaskFails, AddCheck, Spawn, VerifyRead, DeleteRead,
       DeleteKv, DeletePrimary, DomainStatus, Cancel, IssueCert, PublishTxt, OperatorDeletesHost,
       AppCrash, PgCrash, vars, domainVars, dbVars

\* ... these to the hostnames, and one to the zones.
LEMMA HostWriters ==
    ASSUME [DomainNext]_vars
    PROVE  \/ hosts' = hosts
           \/ \E k \in Tasks : CreateHost(k)
           \/ \E h \in Hosts : IssueCert(h) \/ OperatorDeletesHost(h)
BY DEF DomainNext, DomainStep, FaultlessStep, Fault, Environment, TaskStep, Arrive, HandlerStep,
       PollCname, Timeout, NotifyFailed, StoreOwnership, Announce, MarkSslPending, ReadOwnership,
       PollTxt, PollSsl, ReadTenant, RowGone, WarmKv, Activate, NotifyDone, SetPrimary, TaskFails,
       AddCheck, AddInsert, Spawn, VerifyRead, VerifyReset, DeleteRead, DeleteKv, DeletePrimary,
       DeleteRow, DomainStatus, Cancel, PublishTxt, AppCrash, PgCrash, vars, domainVars, envVars

LEMMA ZoneWriters ==
    ASSUME [DomainNext]_vars
    PROVE  zone' = zone \/ \E i \in Ids : PublishTxt(i)
BY DEF DomainNext, DomainStep, FaultlessStep, Fault, Environment, TaskStep, Arrive, HandlerStep,
       PollCname, Timeout, NotifyFailed, CreateHost, StoreOwnership, Announce, MarkSslPending,
       ReadOwnership, PollTxt, PollSsl, ReadTenant, RowGone, WarmKv, Activate, NotifyDone,
       SetPrimary, TaskFails, AddCheck, AddInsert, Spawn, VerifyRead, VerifyReset, DeleteRead,
       DeleteKv, DeletePrimary, DeleteRow, DomainStatus, Cancel, IssueCert, OperatorDeletesHost,
       AppCrash, PgCrash, vars, domainVars, envVars

\* One row that moves on keeps what it must.
LEMMA OneRowKeeps ==
    ASSUME rows \in [Ids -> Row], NEW i \in Ids, NEW r \in Row, rows' = [rows EXCEPT ![i] = r],
           rows[i].st # "none" =>
               /\ r.st # "none" /\ r.ten = rows[i].ten /\ r.dom = rows[i].dom
               /\ r.st \notin {"none", "deleted"} => Exists(i)
               /\ rows[i].txt # NoHost => r.txt # NoHost
    PROVE  RowsKeep
BY DEF RowsKeep, Exists

LEMMA StatusKeeps ==
    ASSUME rows \in [Ids -> Row], NEW i \in Ids, rows[i].st # "none",
           NEW st \in {"pending", "active", "failed", "deleted"}, SetStatus(i, st)
    PROVE  RowsKeep
<1> DEFINE r == [rows[i] EXCEPT !.st = IF Exists(i) THEN st ELSE rows[i].st]
<1>1. rows[i] \in Row
  OBVIOUS
<1>2. /\ r \in Row /\ r.st # "none" /\ r.ten = rows[i].ten /\ r.dom = rows[i].dom
      /\ r.txt = rows[i].txt /\ (r.st \notin {"none", "deleted"} => Exists(i))
  BY <1>1 DEF Row, Exists
<1>3. rows' = [rows EXCEPT ![i] = r]
  BY DEF SetStatus
<1> HIDE DEF r
<1> QED
  BY <1>2, <1>3, OneRowKeeps

LEMMA NextRowsKeep ==
    ASSUME IInv, [DomainNext]_vars
    PROVE  RowsKeep
<1>0. rows \in [Ids -> Row]
  BY DEF IInv, TypeOK
<1>1. CASE rows' = rows
  BY <1>1 DEF RowsKeep, Exists
<1>2. ASSUME NEW k \in Tasks, Timeout(k) \/ Activate(k) \/ StoreOwnership(k) \/ MarkSslPending(k)
      PROVE  RowsKeep
  <2>0. Id(k) \in Ids /\ rows[Id(k)].st # "none" /\ rows[Id(k)] \in Row /\ task[k] \in Pipeline
    BY <1>2, RunningTask DEF Timeout, Activate, StoreOwnership, MarkSslPending, At, Running
  <2>1. CASE Timeout(k) \/ Activate(k)
    BY <1>0, <2>0, <2>1, StatusKeeps DEF Timeout, Activate
  <2>2. CASE StoreOwnership(k)
    <3> DEFINE v == IF Exists(Id(k)) /\ StoresValue(k) THEN task[k].txt ELSE rows[Id(k)].txt
               r == [rows[Id(k)] EXCEPT !.txt = v]
    <3>1. v \in Hosts \cup {NoHost} /\ (rows[Id(k)].txt # NoHost => v # NoHost)
      BY <2>0 DEF Pipeline, Row, StoresValue
    <3>2. rows' = [rows EXCEPT ![Id(k)] = r]
      BY <1>0, <2>0, <2>2 DEF StoreOwnership
    <3> HIDE DEF v
    <3>3. /\ r \in Row /\ r.st = rows[Id(k)].st /\ r.ten = rows[Id(k)].ten
          /\ r.dom = rows[Id(k)].dom /\ r.txt = v
      BY <2>0, <3>1 DEF Row
    <3> HIDE DEF r
    <3> QED
      BY <1>0, <2>0, <3>1, <3>2, <3>3, OneRowKeeps DEF Exists
  <2>3. CASE MarkSslPending(k)
    <3> DEFINE r == IF Exists(Id(k))
                      THEN [rows[Id(k)] EXCEPT !.st = "ssl_pending", !.cf = task[k].cf]
                      ELSE rows[Id(k)]
    <3>1. /\ r \in Row /\ r.st # "none" /\ r.ten = rows[Id(k)].ten /\ r.dom = rows[Id(k)].dom
          /\ r.txt = rows[Id(k)].txt /\ (r.st \notin {"none", "deleted"} => Exists(Id(k)))
      BY <2>0 DEF Row, Pipeline, Exists
    <3>2. rows' = [rows EXCEPT ![Id(k)] = r]
      BY <2>3 DEF MarkSslPending
    <3> HIDE DEF r
    <3> QED
      BY <1>0, <2>0, <3>1, <3>2, OneRowKeeps
  <2> QED
    BY <1>2, <2>1, <2>2, <2>3
<1>3. ASSUME NEW x \in Handlers, AddInsert(x) \/ VerifyReset(x) \/ DeleteRow(x)
      PROVE  RowsKeep
  <2>1. CASE AddInsert(x)
    BY <1>1, <2>1, <1>0 DEF AddInsert, RowsKeep, Exists
  <2>2. CASE VerifyReset(x) \/ DeleteRow(x)
    <3>1. hnd[x].id \in Ids /\ rows[hnd[x].id].st # "none"
      BY <2>2, ServedRequest DEF VerifyReset, DeleteRow
    <3> QED
      BY <1>0, <2>2, <3>1, StatusKeeps DEF VerifyReset, DeleteRow
  <2> QED
    BY <1>3, <2>1, <2>2
<1> QED
  BY <1>1, <1>2, <1>3, RowWriters

LEMMA NextHostsKeep ==
    ASSUME IInv, [DomainNext]_vars
    PROVE  HostsKeep
<1>0. hosts \in [Hosts -> Hostname]
  BY DEF IInv, TypeOK
<1>1. CASE hosts' = hosts
  BY <1>1 DEF HostsKeep
<1>2. ASSUME NEW k \in Tasks, CreateHost(k)
      PROVE  HostsKeep
  <2>1. Dom(k) \in Domains
    BY <1>2, RunningTask DEF CreateHost, At, Running
  <2>2. PICK h \in IF LiveHosts(Dom(k)) # {} THEN LiveHosts(Dom(k))
                   ELSE {g \in Hosts : hosts[g].dom = NoDomain} :
          hosts' = [hosts EXCEPT ![h].dom = Dom(k), ![h].live = TRUE]
    BY Zenon, <1>2 DEF CreateHost
  <2>3. h \in Hosts /\ hosts[h].dom \in {Dom(k), NoDomain}
    BY <2>2 DEF LiveHosts
  <2> DEFINE r == [hosts[h] EXCEPT !.dom = Dom(k), !.live = TRUE]
  <2>4. r.dom = Dom(k) /\ r.ssl = hosts[h].ssl
    BY <1>0, <2>3 DEF Hostname
  <2>5. hosts' = [hosts EXCEPT ![h] = r]
    BY <1>0, <2>2, <2>3
  <2> HIDE DEF r
  <2> QED
    BY <1>0, <2>3, <2>4, <2>5, CustomDomainAssumption DEF HostsKeep
<1>3. ASSUME NEW h \in Hosts, IssueCert(h) \/ OperatorDeletesHost(h)
      PROVE  HostsKeep
  BY <1>0, <1>3 DEF IssueCert, OperatorDeletesHost, HostsKeep, Hostname
<1> QED
  BY <1>1, <1>2, <1>3, HostWriters

LEMMA NextZoneKeeps ==
    ASSUME IInv, [DomainNext]_vars
    PROVE  ZoneKeeps
<1>1. ASSUME NEW i \in Ids, PublishTxt(i)
      PROVE  ZoneKeeps
  BY <1>1 DEF PublishTxt, ZoneKeeps, IInv, TypeOK
<1> QED
  BY <1>1, ZoneWriters DEF ZoneKeeps

LEMMA NextGrows ==
    ASSUME IInv, [DomainNext]_vars
    PROVE  Grows
BY NextRowsKeep, NextHostsKeep DEF Grows, RowsKeep, HostsKeep

-----------------------------------------------------------------------------

(***************************************************************************)
(* What a pipeline's program counter proves about the ownership value: it   *)
(* has one to store, then the row has one, then the pipeline waits for one, *)
(* then the zone has one.                                                   *)
(***************************************************************************)
HasValue == {"store", "refresh", "txt"}
HasStored == {"announce", "mark", "read"}
HasRecord == {"ssl", "tenant", "kv", "activate", "notify", "primary"}

TaskOwned(k) ==
    /\ task[k].pc \in HasValue => task[k].txt # NoHost
    /\ task[k].pc \in HasStored => (Exists(Id(k)) => rows[Id(k)].txt # NoHost)
    /\ task[k].pc \in HasRecord => zone[Dom(k)] # {}
RowOwned(i) == rows[i].st = "active" => zone[rows[i].dom] # {}

OwnInv == /\ IInv
          /\ \A k \in Tasks : TaskOwned(k)
          /\ \A i \in Ids : RowOwned(i)

\* A pipeline that does not move keeps what it has proved.
LEMMA OwnedStays ==
    ASSUME IInv, RowsKeep, ZoneKeeps, NEW k \in Tasks, TaskOwned(k), task'[k] = task[k]
    PROVE  TaskOwned(k)'
<1>1. CASE task[k].pc \in Running
  <2>1. /\ Id(k) \in Ids /\ rows[Id(k)].st # "none" /\ Dom(k) \in Domains
        /\ Id(k)' = Id(k) /\ Dom(k)' = Dom(k)
    BY <1>1, RunningTask DEF RowsKeep, Id, Dom
  <2>2. /\ Exists(Id(k))' => Exists(Id(k))
        /\ rows[Id(k)].txt # NoHost => rows'[Id(k)].txt # NoHost
        /\ zone[Dom(k)] # {} => zone'[Dom(k)] # {}
    BY <2>1 DEF RowsKeep, ZoneKeeps, Exists
  <2> QED
    BY <2>1, <2>2 DEF TaskOwned, Exists
<1>2. CASE task[k].pc \notin Running
  BY <1>2 DEF TaskOwned, Running, Polling, HasValue, HasStored, HasRecord
<1> QED
  BY <1>1, <1>2

\* The domain of a running pipeline's row stays what it is.
LEMMA SameDomain ==
    ASSUME IInv, RowsKeep, NEW k \in Tasks, task[k].pc \in Running, Id(k)' = Id(k)
    PROVE  /\ Id(k) \in Ids /\ Dom(k) \in Domains /\ Dom(k)' = Dom(k)
           /\ Exists(Id(k))' => Exists(Id(k))
           /\ rows[Id(k)].txt # NoHost => rows'[Id(k)].txt # NoHost
<1>1. Id(k) \in Ids /\ rows[Id(k)].st # "none" /\ Dom(k) \in Domains
  BY RunningTask
<1> QED
  BY <1>1 DEF RowsKeep, Dom, Exists

LEMMA TaskOwns ==
    ASSUME OwnInv, ~CfMayOmit, RowsKeep, ZoneKeeps, NEW k \in Tasks, TaskStep(k) \/ TaskFails(k)
    PROVE  TaskOwned(k)' /\ \A j \in Tasks : j # k => task'[j] = task[j]
<1> USE DEF OwnInv
<1>0. task \in [Tasks -> Pipeline] /\ TaskOwned(k)
  BY DEF IInv, TypeOK
<1>1. CASE PollCname(k)
  <2>1. /\ task'[k].pc \in {"cname", "create"}
        /\ \A j \in Tasks : j # k => task'[j] = task[j]
    BY <1>0, <1>1, GotoTask, AgainTask DEF PollCname, At, Running, Polling
  <2> QED
    BY <2>1 DEF TaskOwned, HasValue, HasStored, HasRecord
<1>2. CASE Timeout(k) \/ NotifyFailed(k) \/ SetPrimary(k) \/ RowGone(k) \/ TaskFails(k)
  <2>1. /\ task'[k].pc \in {"failing", "error", "ok"}
        /\ \A j \in Tasks : j # k => task'[j] = task[j]
    BY <1>0, <1>2, GotoTask, EndTask DEF Timeout, NotifyFailed, SetPrimary, RowGone, TaskFails, Running
  <2> QED
    BY <2>1 DEF TaskOwned, HasValue, HasStored, HasRecord
<1>3. CASE CreateHost(k)
  <2>0. PICK pc \in {"store", "refresh"} : pc = IF LiveHosts(Dom(k)) = {} THEN "store" ELSE "refresh"
    OBVIOUS
  <2>1. PICK h \in IF LiveHosts(Dom(k)) # {} THEN LiveHosts(Dom(k))
                   ELSE {g \in Hosts : hosts[g].dom = NoDomain} :
          \E v \in IF CfMayOmit THEN {h, NoHost} ELSE {h} :
            task' = [task EXCEPT ![k].pc = pc, ![k].cf = h, ![k].txt = v]
    BY Zenon, <1>3, <2>0 DEF CreateHost
  <2>2. h # NoHost /\ task' = [task EXCEPT ![k].pc = pc, ![k].cf = h, ![k].txt = h]
    BY <2>1, CustomDomainAssumption DEF LiveHosts
  <2> DEFINE r == [task[k] EXCEPT !.pc = pc, !.cf = h, !.txt = h]
  <2>3. r.pc = pc /\ r.txt = h
    BY <1>0 DEF Pipeline
  <2>4. task' = [task EXCEPT ![k] = r]
    BY <1>0, <2>2
  <2> HIDE DEF r
  <2> QED
    BY <1>0, <2>0, <2>2, <2>3, <2>4 DEF TaskOwned, HasValue, HasStored, HasRecord
<1>4. CASE StoreOwnership(k)
  <2>1. /\ task'[k].pc \in {"mark", "announce"} /\ Id(k)' = Id(k)
        /\ \A j \in Tasks : j # k => task'[j] = task[j]
    BY <1>0, <1>4, GotoTask DEF StoreOwnership, AfterStore, Running
  <2>2. /\ Id(k) \in Ids /\ (Exists(Id(k))' => Exists(Id(k)))
        /\ rows \in [Ids -> Row] /\ task[k].txt # NoHost
    BY <1>0, <1>4, <2>1, SameDomain DEF StoreOwnership, Running, TaskOwned, HasValue, IInv, TypeOK
  <2>3. Exists(Id(k)) => rows'[Id(k)].txt = task[k].txt
    BY <1>4, <2>2 DEF StoreOwnership, StoresValue, Row
  <2> QED
    BY <2>1, <2>2, <2>3 DEF TaskOwned, HasValue, HasStored, HasRecord
<1>5. CASE Announce(k) \/ MarkSslPending(k)
  <2>1. /\ task[k].pc \in {"announce", "mark"}
        /\ task'[k].pc \in {"mark", "read"} /\ Id(k)' = Id(k)
        /\ \A j \in Tasks : j # k => task'[j] = task[j]
    BY <1>0, <1>5, GotoTask DEF Announce, MarkSslPending, At, Running
  <2>2. /\ Exists(Id(k))' => Exists(Id(k))
        /\ rows[Id(k)].txt # NoHost => rows'[Id(k)].txt # NoHost
    BY <2>1, SameDomain DEF Running
  <2> QED
    BY <1>0, <2>1, <2>2 DEF TaskOwned, HasValue, HasStored, HasRecord
<1>6. CASE ReadOwnership(k)
  <2>1. /\ task'[k].pc = "txt" /\ task'[k].txt = rows[Id(k)].txt
        /\ \A j \in Tasks : j # k => task'[j] = task[j]
    BY <1>0, <1>6 DEF ReadOwnership, Pipeline
  <2>2. rows[Id(k)].txt # NoHost
    BY <1>0, <1>6 DEF ReadOwnership, At, TaskOwned, HasStored
  <2> QED
    BY <2>1, <2>2 DEF TaskOwned, HasValue, HasStored, HasRecord
<1>7. CASE PollTxt(k)
  <2>1. /\ task[k].pc = "txt" /\ task[k].txt # NoHost
        /\ \/ Goto(k, "ssl") /\ task[k].txt \in zone[Dom(k)]
           \/ PollAgain(k)
    BY <1>0, <1>7 DEF PollTxt, At, TxtFound, TaskOwned, HasValue
  <2>2. /\ Id(k)' = Id(k)
        /\ \A j \in Tasks : j # k => task'[j] = task[j]
        /\ \/ task'[k].pc = "ssl" /\ zone[Dom(k)] # {}
           \/ task'[k].pc = "txt" /\ task'[k].txt = task[k].txt
    BY <1>0, <2>1, GotoTask, AgainTask DEF Running, Polling, PollAgain, Pipeline
  <2>3. Dom(k) \in Domains /\ Dom(k)' = Dom(k)
    BY <2>1, <2>2, SameDomain DEF Running, Polling
  <2> QED
    BY <2>1, <2>2, <2>3 DEF TaskOwned, HasValue, HasStored, HasRecord, ZoneKeeps
<1>8. CASE PollSsl(k) \/ ReadTenant(k) \/ WarmKv(k) \/ Activate(k) \/ NotifyDone(k)
  <2>1. /\ task[k].pc \in HasRecord /\ task'[k].pc \in HasRecord /\ Id(k)' = Id(k)
        /\ \A j \in Tasks : j # k => task'[j] = task[j]
    <3>1. CASE ReadTenant(k)
      BY <1>0, <3>1 DEF ReadTenant, At, HasRecord, Pipeline, Id
    <3>2. CASE PollSsl(k) \/ WarmKv(k) \/ Activate(k) \/ NotifyDone(k)
      BY <1>0, <3>2, GotoTask, AgainTask
         DEF PollSsl, WarmKv, Activate, NotifyDone, At, HasRecord, Running
    <3> QED
      BY <1>8, <3>1, <3>2
  <2>2. Dom(k) \in Domains /\ Dom(k)' = Dom(k)
    BY <2>1, SameDomain DEF Running, Polling, HasRecord
  <2> QED
    BY <1>0, <2>1, <2>2 DEF TaskOwned, HasValue, HasStored, HasRecord, ZoneKeeps
<1> QED
  BY <1>1, <1>2, <1>3, <1>4, <1>5, <1>6, <1>7, <1>8 DEF TaskStep

\* A row becomes active by the statement of a pipeline only.
LEMMA RowOwns ==
    ASSUME OwnInv, RowsKeep, ZoneKeeps, [DomainNext]_vars, NEW i \in Ids
    PROVE  RowOwned(i)'
<1>0. rows \in [Ids -> Row]
  BY DEF OwnInv, IInv, TypeOK
<1>1. rows'[i].st = "active" => \/ rows[i].st = "active"
                                \/ \E k \in Tasks : Activate(k) /\ Id(k) = i
  <2>1. ASSUME NEW k \in Tasks, Timeout(k) \/ StoreOwnership(k) \/ MarkSslPending(k),
               rows'[i].st = "active"
        PROVE  rows[i].st = "active"
    BY <1>0, <2>1 DEF Timeout, StoreOwnership, MarkSslPending, SetStatus, Row
  <2>2. ASSUME NEW k \in Tasks, Activate(k), Id(k) # i
        PROVE  rows'[i] = rows[i]
    BY <1>0, <2>2 DEF Activate, SetStatus
  <2>3. ASSUME NEW x \in Handlers, AddInsert(x) \/ VerifyReset(x) \/ DeleteRow(x),
               rows'[i].st = "active"
        PROVE  rows[i].st = "active"
    <3>1. CASE AddInsert(x) /\ Registered(hnd[x].dom)
      BY <2>3, <3>1 DEF AddInsert
    <3>2. CASE AddInsert(x) /\ ~Registered(hnd[x].dom)
      <4>1. PICK j \in Ids :
              rows' = [rows EXCEPT ![j] = [@ EXCEPT !.st = "pending", !.ten = hnd[x].ten,
                                                    !.dom = hnd[x].dom]]
        BY <3>2 DEF AddInsert
      <4> DEFINE w == [rows[j] EXCEPT !.st = "pending", !.ten = hnd[x].ten,
                                      !.dom = hnd[x].dom]
      <4>2. w.st = "pending"
        BY <1>0 DEF Row
      <4>3. rows' = [rows EXCEPT ![j] = w]
        BY <4>1
      <4> HIDE DEF w
      <4>4. CASE i = j
        BY <1>0, <2>3, <4>2, <4>3, <4>4
      <4>5. CASE i # j
        BY <1>0, <2>3, <4>3, <4>5
      <4> QED
        BY <4>4, <4>5
    <3>3. CASE VerifyReset(x)
      BY <1>0, <2>3, <3>3 DEF VerifyReset, SetStatus, Row
    <3>4. CASE DeleteRow(x)
      BY <1>0, <2>3, <3>4 DEF DeleteRow, SetStatus, Row
    <3> QED
      BY <2>3, <3>1, <3>2, <3>3, <3>4
  <2> QED
    BY <2>1, <2>2, <2>3, RowWriters
<1>2. rows[i].st # "none" => rows[i].dom \in Domains /\ rows'[i].dom = rows[i].dom
  BY DEF OwnInv, IInv, RowOK, RowsKeep
<1>3. ASSUME NEW k \in Tasks, Activate(k), Id(k) = i
      PROVE  rows[i].st # "none" /\ zone[rows[i].dom] # {}
  BY <1>3, RunningTask DEF OwnInv, Activate, At, Running, TaskOwned, HasRecord, Dom
<1> QED
  BY <1>1, <1>2, <1>3 DEF OwnInv, RowOwned, ZoneKeeps

LEMMA NextOwned ==
    ASSUME OwnInv, ~CfMayOmit, [DomainNext]_vars
    PROVE  OwnInv'
<1>1. IInv /\ IInv' /\ RowsKeep /\ ZoneKeeps
  BY NextInv, NextRowsKeep, NextZoneKeeps DEF OwnInv
<1>2. \A i \in Ids : RowOwned(i)'
  BY <1>1, RowOwns
<1>3. ASSUME NEW k \in Tasks PROVE TaskOwned(k)'
  <2>1. CASE task'[k] = task[k]
    BY <1>1, <2>1, OwnedStays DEF OwnInv
  <2>2. CASE \E j \in Tasks : TaskStep(j) \/ TaskFails(j)
    BY <1>1, <2>1, <2>2, TaskOwns
  <2>3. CASE AppCrash \/ \E x \in Handlers, j \in Tasks : Spawn(x, j)
    <3>1. task'[k] = task[k] \/ task'[k].pc \in {"lost", "cname"}
      BY <1>1, <2>3 DEF AppCrash, Spawn, NewTask, IInv, TypeOK
    <3> QED
      BY <2>1, <3>1 DEF TaskOwned, HasValue, HasStored, HasRecord
  <2>4. \/ task' = task
        \/ \E j \in Tasks : TaskStep(j) \/ TaskFails(j)
        \/ AppCrash \/ \E x \in Handlers, j \in Tasks : Spawn(x, j)
    BY DEF DomainNext, DomainStep, FaultlessStep, Fault, Environment, Arrive, HandlerStep,
           AddCheck, AddInsert, VerifyRead, VerifyReset, DeleteRead, DeleteKv, DeletePrimary, DeleteRow,
           DomainStatus, Cancel, IssueCert, PublishTxt, OperatorDeletesHost, PgCrash, vars, domainVars
  <2> QED
    BY <2>1, <2>2, <2>3, <2>4
<1> QED
  BY <1>1, <1>2, <1>3 DEF OwnInv

LEMMA InitOwned == Init => OwnInv
<1> SUFFICES ASSUME Init PROVE OwnInv
  OBVIOUS
<1>1. \A k \in Tasks : TaskOwned(k)
  BY DEF Init, NewTask, TaskOwned, HasValue, HasStored, HasRecord
<1>2. \A i \in Ids : RowOwned(i)
  BY DEF Init, RowOwned
<1> QED
  BY <1>1, <1>2, InitInv DEF OwnInv

\* A row that is active has had an ownership value published in its zone, when
\* the replies carry it: however many pipelines and re-verifies overlap.
THEOREM OwnersConfirmed == Spec => []ActiveIsOwned
<1>1. CASE CfMayOmit
  <2>1. ActiveIsOwned
    BY <1>1 DEF ActiveIsOwned
  <2> QED
    BY <2>1, PTL
<1>2. CASE ~CfMayOmit
  <2>1. OwnInv /\ [DomainNext]_vars => OwnInv'
    BY <1>2, NextOwned
  <2>2. OwnInv => ActiveIsOwned
    BY DEF OwnInv, RowOwned, ActiveIsOwned
  <2> QED
    BY <2>1, <2>2, InitOwned, PTL DEF Spec
<1> QED
  BY <1>1, <1>2


-----------------------------------------------------------------------------
(***************************************************************************)
(* The registry                                                             *)
(***************************************************************************)

\* A hostname exists, and has a certificate, only for a domain that was added.
HostKnown(h) ==
    /\ hosts[h].dom = NoDomain => ~hosts[h].live /\ ~hosts[h].ssl
    /\ hosts[h].dom # NoDomain =>
         \E i \in Ids : rows[i].st # "none" /\ rows[i].dom = hosts[h].dom
HostsKnown == \A h \in Hosts : HostKnown(h)

RegInv == /\ IInv
          /\ HostsKnown
          /\ ~CfMayOmit => OwnInv

\* The steps by what they write: the rows, the hostnames, the zones, the
\* key-value entries, the primary domains, or none of these
RowStep == /\ UNCHANGED <<hosts, zone, kv, primary>>
           /\ \/ \E k \in Tasks : Timeout(k) \/ Activate(k) \/ StoreOwnership(k) \/ MarkSslPending(k)
              \/ \E x \in Handlers : AddInsert(x) \/ VerifyReset(x) \/ DeleteRow(x)
HostStep == /\ UNCHANGED <<rows, zone, kv, primary>>
            /\ \/ \E k \in Tasks : CreateHost(k)
               \/ \E h \in Hosts : IssueCert(h) \/ OperatorDeletesHost(h)
ZoneStep == /\ UNCHANGED <<rows, hosts, kv, primary>>
            /\ \E i \in Ids : PublishTxt(i)
LookupStep == /\ UNCHANGED <<rows, hosts, zone, primary>>
              /\ \/ \E k \in Tasks : WarmKv(k)
                 \/ \E x \in Handlers : DeleteKv(x)
                 \/ PgCrash
HomeStep == /\ UNCHANGED <<rows, hosts, zone, kv>>
            /\ \/ \E k \in Tasks : SetPrimary(k)
               \/ \E x \in Handlers : DeletePrimary(x)
InnerStep == UNCHANGED <<rows, hosts, zone, kv, primary>>

LEMMA StepKinds ==
    ASSUME [DomainNext]_vars
    PROVE  RowStep \/ HostStep \/ ZoneStep \/ LookupStep \/ HomeStep \/ InnerStep
<1>1. ASSUME NEW k \in Tasks, TaskStep(k) \/ TaskFails(k)
      PROVE  RowStep \/ HostStep \/ LookupStep \/ HomeStep \/ InnerStep
  <2>1. CASE Timeout(k) \/ Activate(k) \/ StoreOwnership(k) \/ MarkSslPending(k)
    BY <2>1 DEF RowStep, Timeout, Activate, StoreOwnership, MarkSslPending, dbVars, envVars
  <2>2. CASE CreateHost(k)
    BY <2>2 DEF HostStep, CreateHost, dbVars
  <2>3. CASE WarmKv(k)
    BY <2>3 DEF LookupStep, WarmKv, envVars
  <2>4. CASE SetPrimary(k)
    BY <2>4 DEF HomeStep, SetPrimary, envVars
  <2>5. CASE PollCname(k) \/ NotifyFailed(k) \/ Announce(k) \/ ReadOwnership(k)
             \/ PollTxt(k) \/ ReadTenant(k) \/ RowGone(k) \/ NotifyDone(k) \/ TaskFails(k)
    BY <2>5 DEF InnerStep, PollCname, NotifyFailed, Announce, ReadOwnership, PollTxt, ReadTenant,
                RowGone, NotifyDone, TaskFails, dbVars, envVars
  <2>6. CASE PollSsl(k)
    BY <2>6 DEF InnerStep, PollSsl, envVars
  <2> QED
    BY <1>1, <2>1, <2>2, <2>3, <2>4, <2>5, <2>6 DEF TaskStep
<1>2. ASSUME NEW x \in Handlers, Arrive(x) \/ HandlerStep(x) \/ Cancel(x)
      PROVE  RowStep \/ LookupStep \/ HomeStep \/ InnerStep
  <2>1. CASE AddInsert(x) \/ VerifyReset(x) \/ DeleteRow(x)
    BY <2>1 DEF RowStep, AddInsert, VerifyReset, DeleteRow, envVars
  <2>2. CASE DeleteKv(x)
    BY <2>2 DEF LookupStep, DeleteKv, envVars
  <2>3. CASE DeletePrimary(x)
    BY <2>3 DEF HomeStep, DeletePrimary, envVars
  <2>4. CASE Arrive(x) \/ Cancel(x) \/ \E k \in Tasks : Spawn(x, k)
    BY <2>4 DEF InnerStep, Arrive, AddCheck, VerifyRead, DeleteRead, Spawn, Cancel, dbVars, envVars
  <2> QED
    BY <1>2, <2>1, <2>2, <2>3, <2>4 DEF HandlerStep
<1>3. ASSUME NEW h \in Hosts, IssueCert(h) \/ OperatorDeletesHost(h)
      PROVE  HostStep
  BY <1>3 DEF HostStep, IssueCert, OperatorDeletesHost, dbVars
<1>4. ASSUME NEW i \in Ids, PublishTxt(i)
      PROVE  ZoneStep
  BY <1>4 DEF ZoneStep, PublishTxt, dbVars
<1>5. ASSUME NEW i \in Ids, DomainStatus(i)
      PROVE  InnerStep
  BY <1>5 DEF InnerStep, DomainStatus, envVars
<1>6. CASE PgCrash
  BY <1>6 DEF LookupStep, PgCrash, envVars
<1>7. CASE AppCrash \/ UNCHANGED vars
  BY <1>7 DEF InnerStep, AppCrash, vars, domainVars, dbVars, envVars
<1> QED
  BY <1>1, <1>2, <1>3, <1>4, <1>5, <1>6, <1>7
     DEF DomainNext, DomainStep, FaultlessStep, Fault, Environment

\* One hostname that changes
LEMMA OneHost ==
    ASSUME HostsKnown, rows' = rows, hosts \in [Hosts -> Hostname], NEW h \in Hosts,
           NEW r \in Hostname, hosts' = [hosts EXCEPT ![h] = r],
           r.dom = NoDomain => ~r.live /\ ~r.ssl,
           r.dom # NoDomain => \E i \in Ids : rows[i].st # "none" /\ rows[i].dom = r.dom
    PROVE  HostsKnown'
<1>1. hosts'[h] = r /\ \A g \in Hosts : g # h => hosts'[g] = hosts[g]
  OBVIOUS
<1> QED
  BY <1>1 DEF HostsKnown, HostKnown

LEMMA NextHostsKnown ==
    ASSUME IInv, HostsKnown, [DomainNext]_vars
    PROVE  HostsKnown'
<1>0. hosts \in [Hosts -> Hostname] /\ RowsKeep
  BY NextRowsKeep DEF IInv, TypeOK
<1>1. CASE hosts' = hosts
  BY <1>0, <1>1 DEF HostsKnown, HostKnown, RowsKeep
<1>2. ASSUME NEW k \in Tasks, CreateHost(k)
      PROVE  HostsKnown'
  <2>1. Id(k) \in Ids /\ rows[Id(k)].st # "none" /\ Dom(k) \in Domains
    BY <1>2, RunningTask DEF CreateHost, At, Running
  <2>2. PICK h \in IF LiveHosts(Dom(k)) # {} THEN LiveHosts(Dom(k))
                   ELSE {g \in Hosts : hosts[g].dom = NoDomain} :
          hosts' = [hosts EXCEPT ![h].dom = Dom(k), ![h].live = TRUE]
    BY Zenon, <1>2 DEF CreateHost
  <2>3. h \in Hosts
    BY <2>2 DEF LiveHosts
  <2> DEFINE r == [hosts[h] EXCEPT !.dom = Dom(k), !.live = TRUE]
  <2>4. r \in Hostname /\ r.dom = Dom(k)
    BY <1>0, <2>1, <2>3 DEF Hostname
  <2>5. hosts' = [hosts EXCEPT ![h] = r]
    BY <1>0, <2>2, <2>3
  <2>6. rows' = rows
    BY <1>2 DEF CreateHost, dbVars
  <2> HIDE DEF r
  <2>7. r.dom # NoDomain /\ \E i \in Ids : rows[i].st # "none" /\ rows[i].dom = r.dom
    BY <2>1, <2>4, CustomDomainAssumption DEF Dom
  <2> QED
    BY <1>0, <2>3, <2>4, <2>5, <2>6, <2>7, OneHost
<1>3. ASSUME NEW h \in Hosts, IssueCert(h) \/ OperatorDeletesHost(h)
      PROVE  HostsKnown'
  <2>1. rows' = rows /\ hosts[h].live
    BY <1>3 DEF IssueCert, OperatorDeletesHost, dbVars
  <2>2. hosts[h] \in Hostname /\ HostKnown(h) /\ hosts[h].dom # NoDomain
    BY <1>0, <2>1 DEF HostsKnown, HostKnown
  <2>3. PICK r \in {[hosts[h] EXCEPT !.ssl = TRUE], [hosts[h] EXCEPT !.live = FALSE]} :
          hosts' = [hosts EXCEPT ![h] = r]
    BY <1>3 DEF IssueCert, OperatorDeletesHost
  <2>4. r \in Hostname /\ r.dom = hosts[h].dom
    BY <2>2, <2>3 DEF Hostname
  <2> QED
    BY <1>0, <2>1, <2>2, <2>3, <2>4, OneHost DEF HostKnown
<1> QED
  BY <1>1, <1>2, <1>3, HostWriters

LEMMA InitRegistry == Init => RegInv /\ Registry!Init
<1> SUFFICES ASSUME Init PROVE RegInv /\ Registry!Init
  OBVIOUS
<1>1. HostsKnown
  BY DEF Init, HostsKnown, HostKnown
<1>2. /\ Held = {} /\ Holding = {} /\ ActiveDomains = {}
      /\ CertifiedDomains = {} /\ ShownDomains = {}
  BY DEF Init, Held, Holding, ActiveDomains, CertifiedDomains, ShownDomains, Exists, Certified
<1>3. Registry!Init
  BY <1>2 DEF Init, Registry!Init
<1> QED
  BY <1>1, <1>3, InitInv, InitOwned DEF RegInv

LEMMA NextRegInv ==
    ASSUME RegInv, [DomainNext]_vars
    PROVE  RegInv'
BY NextInv, NextHostsKnown, NextOwned DEF RegInv


-----------------------------------------------------------------------------
(* Steps that the registry does not see *)

LEMMA SameRegistryRows ==
    ASSUME \A i \in Ids : /\ rows'[i].st = "none" <=> rows[i].st = "none"
                          /\ Exists(i)' <=> Exists(i)
                          /\ rows'[i].st = "active" <=> rows[i].st = "active"
                          /\ rows[i].st # "none" => rows'[i].ten = rows[i].ten /\ rows'[i].dom = rows[i].dom
    PROVE  Held' = Held /\ Holding' = Holding /\ ActiveDomains' = ActiveDomains
<1>1. /\ \A i \in Ids : rows[i].st # "none" => <<rows'[i].ten, rows'[i].dom>> = <<rows[i].ten, rows[i].dom>>
      /\ {j \in Ids : rows'[j].st # "none"} = {j \in Ids : rows[j].st # "none"}
  OBVIOUS
<1>2. {j \in Ids : Exists(j)}' = {j \in Ids : Exists(j)}
  OBVIOUS
<1>3. {j \in Ids : rows'[j].st = "active"} = {j \in Ids : rows[j].st = "active"}
  OBVIOUS
<1> QED
  BY <1>1, <1>2, <1>3 DEF Held, Holding, ActiveDomains, Exists

LEMMA UnseenStep ==
    ASSUME Held' = Held, Holding' = Holding, ActiveDomains' = ActiveDomains,
           CertifiedDomains' = CertifiedDomains, UNCHANGED <<zone, kv, primary>>
    PROVE  [Registry!Next]_(Registry!vars)
BY DEF Registry!vars, ShownDomains

-----------------------------------------------------------------------------
(* Steps on the rows *)

\* A row that exists and goes on to another status, or is deleted: no other row
\* of its domain exists, and so the domain is suspended, activated or released.
LEMMA RowMoves ==
    ASSUME IInv, NEW i \in Ids, Exists(i), NEW r \in Row, rows' = [rows EXCEPT ![i] = r],
           r.st # "none", r.ten = rows[i].ten, r.dom = rows[i].dom
    PROVE  /\ Held' = Held
           /\ r.st # "deleted" => Holding' = Holding
           /\ r.st = "deleted" => Holding' = Holding \ {<<r.ten, r.dom>>}
           /\ r.st = "active" => ActiveDomains' = ActiveDomains \cup {r.dom}
           /\ r.st # "active" => ActiveDomains' = ActiveDomains \ {r.dom}
<1>1. rows'[i] = r /\ \A j \in Ids : j # i => rows'[j] = rows[j]
  BY DEF IInv, TypeOK
<1>2. \A j \in Ids : j # i /\ Exists(j) => rows[j].dom # r.dom
  BY DEF IInv, OneRowPerDomain
<1>3. Held' = Held
  <2>1. /\ {j \in Ids : rows'[j].st # "none"} = {j \in Ids : rows[j].st # "none"}
        /\ \A j \in Ids : rows'[j].ten = rows[j].ten /\ rows'[j].dom = rows[j].dom
    BY <1>1 DEF Exists
  <2> QED
    BY <2>1 DEF Held
<1>4. ASSUME r.st # "deleted"
      PROVE  Holding' = Holding
  <2>1. /\ {j \in Ids : Exists(j)}' = {j \in Ids : Exists(j)}
        /\ \A j \in Ids : rows'[j].ten = rows[j].ten /\ rows'[j].dom = rows[j].dom
    BY <1>1, <1>4 DEF Exists
  <2> QED
    BY <2>1 DEF Holding
<1>5. ASSUME r.st = "deleted"
      PROVE  Holding' = Holding \ {<<r.ten, r.dom>>}
  <2>1. /\ {j \in Ids : Exists(j)}' = {j \in Ids : Exists(j)} \ {i}
        /\ \A j \in Ids : rows'[j].ten = rows[j].ten /\ rows'[j].dom = rows[j].dom
    BY <1>1, <1>5 DEF Exists
  <2> QED
    BY <1>2, <2>1 DEF Holding
<1>6. ASSUME r.st = "active"
      PROVE  ActiveDomains' = ActiveDomains \cup {r.dom}
  <2>1. {j \in Ids : rows'[j].st = "active"} = {j \in Ids : rows[j].st = "active"} \cup {i}
    BY <1>1, <1>6
  <2>2. \A j \in Ids : rows'[j].dom = rows[j].dom
    BY <1>1
  <2> QED
    BY <2>1, <2>2 DEF ActiveDomains
<1>7. ASSUME r.st # "active"
      PROVE  ActiveDomains' = ActiveDomains \ {r.dom}
  <2>1. {j \in Ids : rows'[j].st = "active"} = {j \in Ids : rows[j].st = "active"} \ {i}
    BY <1>1, <1>7
  <2>2. \A j \in Ids : rows'[j].dom = rows[j].dom
    BY <1>1
  <2>3. \A j \in Ids : rows[j].st = "active" => Exists(j)
    BY DEF Exists
  <2> QED
    BY <1>2, <2>1, <2>2, <2>3 DEF ActiveDomains
<1> QED
  BY <1>3, <1>4, <1>5, <1>6, <1>7

\* The same for a change of status: without the row it changes nothing.
LEMMA StatusMoves ==
    ASSUME IInv, NEW i \in Ids, rows[i].st # "none",
           NEW st \in {"pending", "active", "failed", "deleted"}, SetStatus(i, st)
    PROVE  \/ ~Exists(i) /\ rows' = rows
           \/ /\ Exists(i) /\ Held' = Held
              /\ rows[i].ten \in Tenants /\ rows[i].dom \in Domains
              /\ st # "deleted" => Holding' = Holding
              /\ st = "deleted" => Holding' = Holding \ {<<rows[i].ten, rows[i].dom>>}
              /\ st = "active" => ActiveDomains' = ActiveDomains \cup {rows[i].dom}
              /\ st # "active" => ActiveDomains' = ActiveDomains \ {rows[i].dom}
<1>0. rows \in [Ids -> Row] /\ rows[i].ten \in Tenants /\ rows[i].dom \in Domains
  BY DEF IInv, TypeOK, RowOK
<1>1. CASE ~Exists(i)
  <2>1. rows' = [rows EXCEPT ![i].st = rows[i].st]
    BY <1>1 DEF SetStatus
  <2>2. [rows[i] EXCEPT !.st = rows[i].st] = rows[i]
    BY <1>0 DEF Row
  <2>3. rows' = [rows EXCEPT ![i] = rows[i]]
    BY <2>1, <2>2
  <2> QED
    BY <1>0, <1>1, <2>3
<1>2. CASE Exists(i)
  <2> DEFINE r == [rows[i] EXCEPT !.st = st]
  <2>1. r \in Row /\ r.st = st /\ r.ten = rows[i].ten /\ r.dom = rows[i].dom
    BY <1>0 DEF Row
  <2>2. rows' = [rows EXCEPT ![i] = r]
    BY <1>2 DEF SetStatus
  <2> HIDE DEF r
  <2>3. /\ Held' = Held
        /\ st # "deleted" => Holding' = Holding
        /\ st = "deleted" => Holding' = Holding \ {<<rows[i].ten, rows[i].dom>>}
        /\ st = "active" => ActiveDomains' = ActiveDomains \cup {rows[i].dom}
        /\ st # "active" => ActiveDomains' = ActiveDomains \ {rows[i].dom}
    BY <1>2, <2>1, <2>2, RowMoves
  <2> QED
    BY <1>0, <1>2, <2>3
<1> QED
  BY <1>1, <1>2

\* What a step on the rows leaves alone
LEMMA RowStepKeeps ==
    ASSUME RowStep
    PROVE  /\ CertifiedDomains' = CertifiedDomains /\ ShownDomains' = ShownDomains
           /\ UNCHANGED <<kv, primary, zone>>
BY DEF RowStep, CertifiedDomains, ShownDomains, Certified

\* INSERT is a claim
LEMMA InsertClaims ==
    ASSUME IInv, RowStep, NEW x \in Handlers, AddInsert(x)
    PROVE  [Registry!Next]_(Registry!vars)
<1>1. CASE rows' = rows
  BY <1>1, RowStepKeeps, UnseenStep, SameRegistryRows DEF Exists
<1>2. CASE rows' # rows
  <2> DEFINE t == hnd[x].ten
             d == hnd[x].dom
  <2>1. ~Registered(d) /\ t \in Tenants /\ d \in Domains
    BY <1>2 DEF AddInsert, IInv, RequestOK
  <2>2. PICK i \in Ids :
          /\ rows[i].st = "none"
          /\ rows' = [rows EXCEPT ![i] = [@ EXCEPT !.st = "pending", !.ten = t, !.dom = d]]
    BY <1>2 DEF AddInsert
  <2> HIDE DEF t, d
  <2>3. /\ rows'[i].st = "pending" /\ rows'[i].ten = t /\ rows'[i].dom = d
        /\ \A j \in Ids : j # i => rows'[j] = rows[j]
    BY <2>2 DEF IInv, TypeOK, Row
  <2>4. Held' = Held \cup {<<t, d>>}
    <3>1. {j \in Ids : rows'[j].st # "none"} = {j \in Ids : rows[j].st # "none"} \cup {i}
      BY <2>2, <2>3
    <3> QED
      BY <2>2, <2>3, <3>1 DEF Held
  <2>5. Holding' = Holding \cup {<<t, d>>}
    <3>1. {j \in Ids : Exists(j)}' = {j \in Ids : Exists(j)} \cup {i}
      BY <2>2, <2>3 DEF Exists
    <3>2. \A j \in Ids : Exists(j) => rows'[j] = rows[j]
      BY <2>2, <2>3 DEF Exists
    <3> QED
      BY <2>3, <3>1, <3>2 DEF Holding
  <2>6. ActiveDomains' = ActiveDomains
    <3>1. {j \in Ids : rows'[j].st = "active"} = {j \in Ids : rows[j].st = "active"}
      BY <2>2, <2>3
    <3> QED
      BY <2>2, <2>3, <3>1 DEF ActiveDomains
  <2>7. ~Registry!Taken(d)
    BY <2>1 DEF Registry!Taken, Holding, Registered
  <2>8. Registry!Claim(t, d)
    BY <2>4, <2>5, <2>6, <2>7, RowStepKeeps DEF Registry!Claim
  <2> QED
    BY <2>1, <2>8 DEF Registry!Next
<1> QED
  BY <1>1, <1>2

\* A timeout or a re-verify suspends the domain, the end of a pipeline
\* activates it, and DELETE releases it.
LEMMA StatusSteps ==
    ASSUME RegInv, RowStep, NEW i \in Ids, rows[i].st # "none",
           NEW st \in {"pending", "active", "failed", "deleted"}, SetStatus(i, st),
           st = "active" => Certified(rows[i].dom) /\ (~CfMayOmit => zone[rows[i].dom] # {})
    PROVE  [Registry!Next]_(Registry!vars)
<1>1. CASE rows' = rows
  BY <1>1, RowStepKeeps, UnseenStep, SameRegistryRows DEF Exists
<1>2. CASE rows' # rows
  <2> DEFINE t == rows[i].ten
             d == rows[i].dom
  <2>1. /\ Exists(i) /\ Held' = Held /\ t \in Tenants /\ d \in Domains
        /\ st # "deleted" => Holding' = Holding
        /\ st = "deleted" => Holding' = Holding \ {<<t, d>>}
        /\ st = "active" => ActiveDomains' = ActiveDomains \cup {d}
        /\ st # "active" => ActiveDomains' = ActiveDomains \ {d}
    BY <1>2, StatusMoves DEF RegInv
  <2>2. <<t, d>> \in Holding
    BY <2>1 DEF Holding
  <2>3. st = "active" => d \in CertifiedDomains /\ (~CfMayOmit => d \in ShownDomains)
    BY <2>1 DEF CertifiedDomains, ShownDomains
  <2> HIDE DEF t, d
  <2>4. CASE st = "active"
    <3>1. Registry!Activate(d)
      BY <2>1, <2>2, <2>3, <2>4, RowStepKeeps DEF Registry!Activate, Registry!Taken
    <3> QED
      BY <2>1, <3>1 DEF Registry!Next
  <2>5. CASE st = "deleted"
    <3>1. Registry!Release(t, d)
      BY <2>1, <2>2, <2>5, RowStepKeeps DEF Registry!Release
    <3> QED
      BY <2>1, <3>1 DEF Registry!Next
  <2>6. CASE st \notin {"active", "deleted"}
    <3>1. Registry!Suspend(d)
      BY <2>1, <2>6, RowStepKeeps DEF Registry!Suspend
    <3> QED
      BY <2>1, <3>1 DEF Registry!Next
  <2> QED
    BY <2>4, <2>5, <2>6
<1> QED
  BY <1>1, <1>2

LEMMA RowStepRefines ==
    ASSUME RegInv, RowStep
    PROVE  [Registry!Next]_(Registry!vars)
<1> USE DEF RegInv
<1>0. rows \in [Ids -> Row]
  BY DEF IInv, TypeOK
<1>1. ASSUME NEW k \in Tasks, Timeout(k)
      PROVE  [Registry!Next]_(Registry!vars)
  <2>1. Id(k) \in Ids /\ rows[Id(k)].st # "none"
    BY <1>1, RunningTask DEF Timeout, Running
  <2> QED
    BY <1>1, <2>1, StatusSteps DEF Timeout
<1>2. ASSUME NEW k \in Tasks, Activate(k)
      PROVE  [Registry!Next]_(Registry!vars)
  <2>1. Id(k) \in Ids /\ rows[Id(k)].st # "none" /\ TaskOK(k)
    BY <1>2, RunningTask DEF Activate, At, Running
  <2>2. Certified(rows[Id(k)].dom)
    BY <1>2, <2>1 DEF Activate, At, TaskOK, HasCert, Dom
  <2>3. ~CfMayOmit => zone[rows[Id(k)].dom] # {}
    BY <1>2 DEF Activate, At, OwnInv, TaskOwned, HasRecord, Dom
  <2> QED
    BY <1>2, <2>1, <2>2, <2>3, StatusSteps DEF Activate
<1>3. ASSUME NEW k \in Tasks, StoreOwnership(k)
      PROVE  [Registry!Next]_(Registry!vars)
  <2>1. Id(k) \in Ids
    BY <1>3, RunningTask DEF StoreOwnership, Running
  <2>2. \A i \in Ids : /\ rows'[i].st = rows[i].st /\ rows'[i].ten = rows[i].ten
                       /\ rows'[i].dom = rows[i].dom
    BY <1>0, <1>3, <2>1 DEF StoreOwnership, Row
  <2>3. Held' = Held /\ Holding' = Holding /\ ActiveDomains' = ActiveDomains
    BY <2>2, SameRegistryRows DEF Exists
  <2> QED
    BY <2>3, RowStepKeeps, UnseenStep
<1>4. ASSUME NEW k \in Tasks, MarkSslPending(k)
      PROVE  [Registry!Next]_(Registry!vars)
  <2>1. /\ Id(k) \in Ids /\ rows[Id(k)].st # "none" /\ rows[Id(k)] \in Row /\ task[k] \in Pipeline
        /\ Dom(k) \in Domains
    BY <1>4, RunningTask DEF MarkSslPending, At, Running
  <2>2. CASE ~Exists(Id(k))
    <3>1. rows' = rows
      BY <1>0, <1>4, <2>1, <2>2 DEF MarkSslPending
    <3> QED
      BY <3>1, RowStepKeeps, UnseenStep, SameRegistryRows DEF Exists
  <2>3. CASE Exists(Id(k))
    <3> DEFINE r == [rows[Id(k)] EXCEPT !.st = "ssl_pending", !.cf = task[k].cf]
    <3>1. r \in Row /\ r.st = "ssl_pending" /\ r.ten = rows[Id(k)].ten /\ r.dom = rows[Id(k)].dom
      BY <2>1 DEF Row, Pipeline
    <3>2. rows' = [rows EXCEPT ![Id(k)] = r]
      BY <1>4, <2>3 DEF MarkSslPending
    <3> HIDE DEF r
    <3>3. Held' = Held /\ Holding' = Holding /\ ActiveDomains' = ActiveDomains \ {Dom(k)}
      BY <2>1, <2>3, <3>1, <3>2, RowMoves DEF Dom
    <3>4. Registry!Suspend(Dom(k))
      BY <3>3, RowStepKeeps DEF Registry!Suspend
    <3> QED
      BY <2>1, <3>4 DEF Registry!Next
  <2> QED
    BY <2>2, <2>3
<1>5. ASSUME NEW x \in Handlers, VerifyReset(x) \/ DeleteRow(x)
      PROVE  [Registry!Next]_(Registry!vars)
  <2>1. hnd[x].id \in Ids /\ rows[hnd[x].id].st # "none"
    BY <1>5, ServedRequest DEF VerifyReset, DeleteRow
  <2> QED
    BY <1>5, <2>1, StatusSteps DEF VerifyReset, DeleteRow
<1> QED
  BY <1>1, <1>2, <1>3, <1>4, <1>5, InsertClaims DEF RowStep

-----------------------------------------------------------------------------
(* Steps on the hostnames, the zones and the routes *)

LEMMA SameRowsView ==
    ASSUME rows' = rows
    PROVE  Held' = Held /\ Holding' = Holding /\ ActiveDomains' = ActiveDomains
BY DEF Held, Holding, ActiveDomains, Exists

\* One hostname that changes without losing its domain or its certificate
LEMMA OneHostCertified ==
    ASSUME hosts \in [Hosts -> Hostname], NEW h \in Hosts,
           NEW r \in Hostname, hosts' = [hosts EXCEPT ![h] = r],
           hosts[h].ssl => r.ssl /\ r.dom = hosts[h].dom
    PROVE  \A d : Certified(d)' <=> Certified(d) \/ (r.ssl /\ r.dom = d)
<1>1. hosts'[h] = r /\ \A g \in Hosts : g # h => hosts'[g] = hosts[g]
  OBVIOUS
<1> QED
  BY <1>1 DEF Certified

LEMMA HostStepRefines ==
    ASSUME RegInv, HostStep
    PROVE  [Registry!Next]_(Registry!vars)
<1>0. /\ hosts \in [Hosts -> Hostname] /\ IInv /\ HostsKnown
      /\ UNCHANGED <<rows, zone, kv, primary>>
      /\ Held' = Held /\ Holding' = Holding /\ ActiveDomains' = ActiveDomains
  BY SameRowsView DEF HostStep, RegInv, IInv, TypeOK
<1>1. (\A d : Certified(d)' <=> Certified(d)) => [Registry!Next]_(Registry!vars)
  BY <1>0, UnseenStep DEF CertifiedDomains
<1>2. ASSUME NEW k \in Tasks, CreateHost(k)
      PROVE  [Registry!Next]_(Registry!vars)
  <2>1. Dom(k) \in Domains
    BY <1>0, <1>2, RunningTask DEF CreateHost, At, Running
  <2>2. PICK h \in IF LiveHosts(Dom(k)) # {} THEN LiveHosts(Dom(k))
                   ELSE {g \in Hosts : hosts[g].dom = NoDomain} :
          hosts' = [hosts EXCEPT ![h].dom = Dom(k), ![h].live = TRUE]
    BY Zenon, <1>2 DEF CreateHost
  <2>3. h \in Hosts /\ hosts[h].dom \in {Dom(k), NoDomain}
    BY <2>2 DEF LiveHosts
  <2> DEFINE r == [hosts[h] EXCEPT !.dom = Dom(k), !.live = TRUE]
  <2>4. r \in Hostname /\ r.dom = Dom(k) /\ r.ssl = hosts[h].ssl
    BY <1>0, <2>1, <2>3 DEF Hostname
  <2>5. hosts' = [hosts EXCEPT ![h] = r]
    BY <1>0, <2>2, <2>3
  <2>6. hosts[h].ssl => hosts[h].dom = Dom(k)
    BY <1>0, <2>3 DEF HostsKnown, HostKnown
  <2> HIDE DEF r
  <2>7. \A d : Certified(d)' <=> Certified(d) \/ (r.ssl /\ r.dom = d)
    BY <1>0, <2>3, <2>4, <2>5, <2>6, OneHostCertified
  <2>8. \A d : r.ssl /\ r.dom = d => Certified(d)
    BY <2>3, <2>4, <2>6 DEF Certified
  <2> QED
    BY <1>1, <2>7, <2>8
<1>3. ASSUME NEW h \in Hosts, OperatorDeletesHost(h)
      PROVE  [Registry!Next]_(Registry!vars)
  <2> DEFINE r == [hosts[h] EXCEPT !.live = FALSE]
  <2>1. r \in Hostname /\ r.dom = hosts[h].dom /\ r.ssl = hosts[h].ssl
    BY <1>0 DEF Hostname
  <2>2. hosts' = [hosts EXCEPT ![h] = r]
    BY <1>3 DEF OperatorDeletesHost
  <2> HIDE DEF r
  <2>3. \A d : Certified(d)' <=> Certified(d) \/ (r.ssl /\ r.dom = d)
    BY <1>0, <2>1, <2>2, OneHostCertified
  <2>4. \A d : r.ssl /\ r.dom = d => Certified(d)
    BY <2>1 DEF Certified
  <2> QED
    BY <1>1, <2>3, <2>4
<1>4. ASSUME NEW h \in Hosts, IssueCert(h)
      PROVE  [Registry!Next]_(Registry!vars)
  <2> DEFINE r == [hosts[h] EXCEPT !.ssl = TRUE]
             d == hosts[h].dom
  <2>1. r \in Hostname /\ r.dom = d /\ r.dom = hosts[h].dom /\ r.ssl
    BY <1>0 DEF Hostname
  <2>2. hosts' = [hosts EXCEPT ![h] = r]
    BY <1>4 DEF IssueCert
  <2>3. PICK i \in Ids : rows[i].st # "none" /\ rows[i].dom = d
    BY <1>0, <1>4 DEF IssueCert, HostsKnown, HostKnown
  <2>4. rows[i].ten \in Tenants /\ d \in Domains
    BY <1>0, <2>3 DEF IInv, RowOK
  <2>5. <<rows[i].ten, d>> \in Held
    BY <2>3 DEF Held
  <2> HIDE DEF r, d
  <2>6. \A e : Certified(e)' <=> Certified(e) \/ d = e
    BY <1>0, <2>1, <2>2, OneHostCertified
  <2>7. CertifiedDomains' = CertifiedDomains \cup {d}
    BY <2>4, <2>6 DEF CertifiedDomains
  <2>8. Registry!Certify(d)
    BY <1>0, <2>4, <2>5, <2>7 DEF Registry!Certify, Registry!Known, ShownDomains
  <2> QED
    BY <2>4, <2>8 DEF Registry!Next
<1> QED
  BY <1>2, <1>3, <1>4 DEF HostStep

LEMMA ZoneStepRefines ==
    ASSUME RegInv, ZoneStep
    PROVE  [Registry!Next]_(Registry!vars)
<1>1. /\ UNCHANGED <<rows, hosts, kv, primary>>
      /\ Held' = Held /\ Holding' = Holding /\ ActiveDomains' = ActiveDomains
      /\ CertifiedDomains' = CertifiedDomains
  BY SameRowsView DEF ZoneStep, CertifiedDomains, Certified
<1>2. PICK i \in Ids : PublishTxt(i)
  BY DEF ZoneStep
<1> DEFINE d == rows[i].dom
<1>3. rows[i].ten \in Tenants /\ d \in Domains /\ <<rows[i].ten, d>> \in Holding
  BY <1>2 DEF PublishTxt, Exists, RegInv, IInv, RowOK, Holding
<1>4. zone' = [zone EXCEPT ![d] = zone[d] \cup {rows[i].txt}]
  BY <1>2 DEF PublishTxt
<1>5. ShownDomains' = ShownDomains \cup {d}
  BY <1>3, <1>4 DEF RegInv, IInv, TypeOK, ShownDomains
<1>6. Registry!Show(d)
  BY <1>1, <1>3, <1>5 DEF Registry!Show, Registry!Taken
<1> QED
  BY <1>3, <1>6 DEF Registry!Next

\* A pipeline that has its tenant may lead the domain there.
LEMMA TaskMayLead ==
    ASSUME RegInv, NEW k \in Tasks, task[k].pc \in HasTenant
    PROVE  /\ task[k].ten \in Tenants /\ Dom(k) \in Domains
           /\ Registry!MayLead(task[k].ten, Dom(k))
<1>1. task[k].pc \in Running /\ task[k].pc \in HasCert
  BY DEF HasTenant, HasCert, Running
<1>2. /\ TaskOK(k) /\ Id(k) \in Ids /\ rows[Id(k)].st # "none" /\ Dom(k) \in Domains
      /\ rows[Id(k)].ten \in Tenants
  BY <1>1, RunningTask DEF RegInv
<1>3. task[k].ten = rows[Id(k)].ten /\ Certified(Dom(k))
  BY <1>1, <1>2 DEF TaskOK
<1> QED
  BY <1>2, <1>3 DEF Registry!MayLead, Held, CertifiedDomains, Dom

LEMMA RouteStepRefines ==
    ASSUME RegInv, LookupStep \/ HomeStep
    PROVE  [Registry!Next]_(Registry!vars)
<1>1. /\ UNCHANGED <<rows, hosts, zone>>
      /\ Held' = Held /\ Holding' = Holding /\ ActiveDomains' = ActiveDomains
      /\ CertifiedDomains' = CertifiedDomains /\ ShownDomains' = ShownDomains
  BY SameRowsView DEF LookupStep, HomeStep, CertifiedDomains, Certified, ShownDomains
<1>2. kv \in [Domains -> Tenants \cup {NoTenant}] /\ primary \in [Tenants -> Domains \cup {NoDomain}]
  BY DEF RegInv, IInv, TypeOK
<1>3. ASSUME NEW k \in Tasks, WarmKv(k), primary' = primary
      PROVE  [Registry!Next]_(Registry!vars)
  <2>1. /\ task[k].ten \in Tenants /\ Dom(k) \in Domains
        /\ Registry!MayLead(task[k].ten, Dom(k))
    BY <1>3, TaskMayLead DEF WarmKv, At, HasTenant
  <2>2. Registry!Lead(task[k].ten, Dom(k))
    BY <1>1, <1>3, <2>1 DEF WarmKv, Registry!Lead
  <2> QED
    BY <2>1, <2>2 DEF Registry!Next
<1>4. ASSUME NEW x \in Handlers, DeleteKv(x), primary' = primary
      PROVE  [Registry!Next]_(Registry!vars)
  <2> DEFINE d == rows[hnd[x].id].dom
  <2>1. d \in Domains
    BY <1>4, ServedRequest DEF DeleteKv, RegInv, IInv, RowOK
  <2>2. kv' = [kv EXCEPT ![d] = NoTenant]
    BY <1>4 DEF DeleteKv
  <2> HIDE DEF d
  <2>3. kv' = [e \in Domains |-> IF e \in {d} THEN NoTenant ELSE kv[e]]
    BY <1>2, <2>1, <2>2
  <2>4. Registry!Forget({d})
    BY <1>1, <1>4, <2>3 DEF Registry!Forget
  <2> QED
    BY <2>1, <2>4 DEF Registry!Next
<1>5. ASSUME PgCrash
      PROVE  [Registry!Next]_(Registry!vars)
  <2>1. kv' = [e \in Domains |-> IF e \in Domains THEN NoTenant ELSE kv[e]] /\ primary' = primary
    BY <1>5 DEF PgCrash
  <2>2. Registry!Forget(Domains)
    BY <1>1, <2>1 DEF Registry!Forget
  <2> QED
    BY <2>2 DEF Registry!Next
<1>6. ASSUME NEW k \in Tasks, SetPrimary(k), kv' = kv
      PROVE  [Registry!Next]_(Registry!vars)
  <2>1. /\ task[k].ten \in Tenants /\ Dom(k) \in Domains
        /\ Registry!MayLead(task[k].ten, Dom(k))
    BY <1>6, TaskMayLead DEF SetPrimary, At, HasTenant
  <2>2. Registry!Settle(task[k].ten, Dom(k))
    BY <1>1, <1>6, <2>1 DEF SetPrimary, Registry!Settle
  <2> QED
    BY <2>1, <2>2 DEF Registry!Next
<1>7. ASSUME NEW x \in Handlers, DeletePrimary(x), kv' = kv
      PROVE  [Registry!Next]_(Registry!vars)
  <2> DEFINE r == rows[hnd[x].id]
  <2>1. r.ten \in Tenants
    BY <1>7, ServedRequest DEF DeletePrimary, RegInv, IInv, RowOK
  <2>2. primary' = [primary EXCEPT ![r.ten] = IF primary[r.ten] = r.dom THEN NoDomain ELSE primary[r.ten]]
    BY <1>7 DEF DeletePrimary
  <2>3. primary' = primary \/ primary' = [primary EXCEPT ![r.ten] = NoDomain]
    BY <1>2, <2>1, <2>2
  <2> HIDE DEF r
  <2>4. CASE primary' = primary
    BY <1>1, <1>7, <2>4, UnseenStep
  <2>5. CASE primary' = [primary EXCEPT ![r.ten] = NoDomain]
    <3>1. Registry!Leave(r.ten)
      BY <1>1, <1>7, <2>5 DEF Registry!Leave
    <3> QED
      BY <2>1, <3>1 DEF Registry!Next
  <2> QED
    BY <2>3, <2>4, <2>5
<1> QED
  BY <1>3, <1>4, <1>5, <1>6, <1>7 DEF LookupStep, HomeStep

LEMMA RegistryStep ==
    ASSUME RegInv, [DomainNext]_vars
    PROVE  [Registry!Next]_(Registry!vars)
<1>1. CASE InnerStep
  <2>1. CertifiedDomains' = CertifiedDomains
    BY <1>1 DEF InnerStep, CertifiedDomains, Certified
  <2> QED
    BY <1>1, <2>1, SameRowsView, UnseenStep DEF InnerStep
<1> QED
  BY <1>1, StepKinds, RowStepRefines, HostStepRefines, ZoneStepRefines, RouteStepRefines

\* A hostname that exists is one of a domain that some tenant had added.
THEOREM RegistryInvariant == Spec => []RegInv
BY InitRegistry, NextRegInv, PTL DEF Spec

\* Custom domains implement DomainRegistry: a domain has one holder, changes
\* hands only through a deletion, is activated only while it is held, certified
\* and (when the replies carry the value) shown, and leads only where it may,
\* however many pipelines, requests, failures and restarts overlap.
THEOREM ImplementsTheRegistry == Spec => ImplementsRegistry
<1>1. Init => Registry!Init
  BY InitRegistry
<1>2. RegInv /\ [DomainNext]_vars => [Registry!Next]_(Registry!vars)
  BY RegistryStep
<1> QED
  BY <1>1, <1>2, RegistryInvariant, PTL DEF Spec, ImplementsRegistry, Registry!Spec
=============================================================================
