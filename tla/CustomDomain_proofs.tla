------------------------ MODULE CustomDomain_proofs ------------------------
(***************************************************************************)
(* Custom domains, for any number of tenants, rows, pipelines, requests and *)
(* hostnames, with failures, crashes and an operator who deletes hostnames. *)
(***************************************************************************)
EXTENDS CustomDomain, TLAPS

(***************************************************************************)
(* The inductive invariant.  A pipeline acts on what it read many steps     *)
(* before; the invariant says what its program counter proves about the     *)
(* row, the hostname and the zone as they are now.                          *)
(***************************************************************************)
HasHost == {"store", "refresh", "announce", "mark", "read", "txt", "ssl"}
HasCert == {"tenant", "kv", "activate", "notify", "primary"}
HasTenant == {"kv", "activate", "notify", "primary"}

TaskOK(k) ==
    /\ task[k].pc \in Running => Id(k) \in Ids /\ rows[Id(k)].st # "none"
    /\ task[k].pc \in HasHost => task[k].cf \in Hosts /\ hosts[task[k].cf].dom = Dom(k)
    /\ task[k].pc \in HasCert => Certified(Dom(k))
    /\ task[k].pc \in HasTenant => task[k].ten = rows[Id(k)].ten

RequestOK(x) ==
    /\ hnd[x].pc = "insert" => hnd[x].ten \in Tenants /\ hnd[x].dom \in Domains
    /\ hnd[x].pc \notin {"free", "insert"} => hnd[x].id \in Ids /\ rows[hnd[x].id].st # "none"

RowOK(i) ==
    /\ rows[i].st # "none" => rows[i].ten \in Tenants /\ rows[i].dom \in Domains
    /\ rows[i].st = "none" => rows[i].ten = NoTenant
    /\ rows[i].st = "active" => Certified(rows[i].dom)

IInv == /\ TypeOK
        /\ \A k \in Tasks : TaskOK(k)
        /\ \A x \in Handlers : RequestOK(x)
        /\ \A i \in Ids : RowOK(i)
        /\ OneRowPerDomain
        /\ RoutesEarned

\* What no step takes back: a row's tenant and domain, a hostname's domain and
\* certificate.
Grows ==
    /\ \A i \in Ids : rows[i].st # "none" =>
         rows'[i].st # "none" /\ rows'[i].ten = rows[i].ten /\ rows'[i].dom = rows[i].dom
    /\ \A h \in Hosts : hosts[h].dom \in Domains =>
         hosts'[h].dom = hosts[h].dom /\ (hosts[h].ssl => hosts'[h].ssl)

-----------------------------------------------------------------------------

\* The inboxes keep their type when a payload is added ...
LEMMA NotifyType ==
    ASSUME NotifyTypeOK, NEW i, NEW e \in {"records", "done", "failed"}, Notify(i, e)
    PROVE  NotifyTypeOK'
BY DEF NotifyTypeOK, Notify

\* ... when the sessions are dropped, and when nothing happens to them.
LEMMA DropType ==
    ASSUME DropSessions
    PROVE  NotifyTypeOK'
BY DEF NotifyTypeOK, DropSessions

LEMMA SameType ==
    ASSUME NotifyTypeOK, UNCHANGED notifyVars
    PROVE  NotifyTypeOK'
BY DEF NotifyTypeOK, notifyVars

LEMMA InitInv == Init => IInv
<1> SUFFICES ASSUME Init PROVE IInv
  OBVIOUS
<1> USE DEF Init
<1>1. TypeOK
  BY CustomDomainAssumption DEF TypeOK, NotifyTypeOK, NotifyInit, NewTask, NoRequest, Row, Pipeline, Served, Hostname
<1>2. \A k \in Tasks : TaskOK(k)
  BY DEF TaskOK, NewTask, Running, Polling, HasHost, HasCert, HasTenant
<1>3. \A x \in Handlers : RequestOK(x)
  BY DEF RequestOK, NoRequest
<1>4. (\A i \in Ids : RowOK(i)) /\ OneRowPerDomain
  BY DEF RowOK, OneRowPerDomain, Exists
<1>5. RoutesEarned
  BY DEF RoutesEarned
<1> QED
  BY <1>1, <1>2, <1>3, <1>4, <1>5 DEF IInv

-----------------------------------------------------------------------------
(* Whatever grows stays good: the facts about a pipeline, a request or a    *)
(* route that a step does not touch survive the step.                       *)

LEMMA CertifiedGrows ==
    ASSUME TypeOK, Grows, NEW d \in Domains, Certified(d)
    PROVE  Certified(d)'
BY DEF Certified, Grows

LEMMA TaskGrows ==
    ASSUME IInv, Grows, NEW k \in Tasks, TaskOK(k), task'[k] = task[k]
    PROVE  TaskOK(k)'
<1> USE DEF TaskOK, Id, Dom
<1>1. CASE task[k].pc \in Running
  <2>1. /\ Id(k) \in Ids /\ rows[Id(k)].st # "none" /\ Dom(k) \in Domains
        /\ Id(k)' = Id(k) /\ Dom(k)' = Dom(k)
    BY <1>1 DEF Grows, IInv, RowOK
  <2>2. Certified(Dom(k)) => Certified(Dom(k))'
    BY <2>1 DEF Grows, Certified
  <2>3. rows'[Id(k)].st # "none" /\ rows'[Id(k)].ten = rows[Id(k)].ten
    BY <2>1 DEF Grows
  <2>4. \A h \in Hosts : hosts[h].dom = Dom(k) => hosts'[h].dom = Dom(k)
    BY <2>1 DEF Grows
  <2> QED
    BY <1>1, <2>1, <2>2, <2>3, <2>4
<1>2. CASE task[k].pc \notin Running
  BY <1>2 DEF Running, Polling, HasHost, HasCert, HasTenant
<1> QED
  BY <1>1, <1>2

LEMMA RequestGrows ==
    ASSUME Grows, NEW x \in Handlers, RequestOK(x), hnd'[x] = hnd[x]
    PROVE  RequestOK(x)'
BY DEF RequestOK, Grows

LEMMA RoutesGrow ==
    ASSUME IInv, Grows, primary' = primary, kv' = kv
    PROVE  RoutesEarned'
<1>1. \A t \in Tenants, d \in Domains : Earned(t, d) => Earned(t, d)'
  <2> SUFFICES ASSUME NEW t \in Tenants, NEW d \in Domains, Earned(t, d)
               PROVE  Earned(t, d)'
    OBVIOUS
  <2>1. PICK i \in Ids : rows[i].ten = t /\ rows[i].dom = d
    BY DEF Earned
  <2>2. rows[i].st # "none"
    BY <2>1, CustomDomainAssumption DEF IInv, RowOK
  <2>3. rows'[i].ten = t /\ rows'[i].dom = d
    BY <2>1, <2>2 DEF Grows
  <2>4. Certified(d)'
    BY CertifiedGrows DEF Earned, IInv
  <2> QED
    BY <2>3, <2>4 DEF Earned
<1>2. /\ \A t \in Tenants : primary[t] # NoDomain => primary[t] \in Domains
      /\ \A d \in Domains : kv[d] # NoTenant => kv[d] \in Tenants
  BY DEF IInv, TypeOK
<1> QED
  BY <1>1, <1>2 DEF RoutesEarned, IInv

\* Rows keep their facts when none is made, revived or activated.
Calm == \A i \in Ids : /\ rows[i].st = "none" => rows'[i] = rows[i]
                       /\ rows'[i].st = "active" => rows[i].st = "active"
                       /\ Exists(i)' => Exists(i)

LEMMA RowsCalm ==
    ASSUME IInv, Grows, Calm
    PROVE  (\A i \in Ids : RowOK(i)') /\ OneRowPerDomain'
<1>1. ASSUME NEW i \in Ids PROVE RowOK(i)'
  <2>1. CASE rows[i].st = "none"
    <3>1. rows'[i] = rows[i]
      BY <2>1 DEF Calm
    <3> QED
      BY <2>1, <3>1 DEF RowOK, IInv
  <2>2. CASE rows[i].st # "none"
    <3>1. /\ rows'[i].st # "none" /\ rows'[i].ten = rows[i].ten /\ rows'[i].dom = rows[i].dom
          /\ rows[i].ten \in Tenants /\ rows[i].dom \in Domains
      BY <2>2 DEF Grows, RowOK, IInv
    <3>2. rows'[i].st = "active" => Certified(rows[i].dom)
      BY DEF Calm, RowOK, IInv
    <3>3. rows'[i].st = "active" => Certified(rows[i].dom)'
      BY <3>1, <3>2 DEF Grows, Certified
    <3> QED
      BY <3>1, <3>3 DEF RowOK
  <2> QED
    BY <2>1, <2>2
<1>2. OneRowPerDomain'
  <2>1. \A i \in Ids : Exists(i)' => Exists(i) /\ rows'[i].dom = rows[i].dom
    BY DEF Calm, Grows, Exists
  <2> QED
    BY <2>1 DEF OneRowPerDomain, IInv
<1> QED
  BY <1>1, <1>2

\* What is left to show of a step: its types, and the facts of what it changes
LEMMA Combine ==
    ASSUME IInv, TypeOK', Grows,
           \A k \in Tasks : task'[k] = task[k] \/ TaskOK(k)',
           \A x \in Handlers : hnd'[x] = hnd[x] \/ RequestOK(x)',
           Calm \/ ((\A i \in Ids : RowOK(i)') /\ OneRowPerDomain'),
           (primary' = primary /\ kv' = kv) \/ RoutesEarned'
    PROVE  IInv'
<1>1. \A k \in Tasks : TaskOK(k)'
  BY TaskGrows DEF IInv
<1>2. \A x \in Handlers : RequestOK(x)'
  BY RequestGrows DEF IInv
<1>3. (\A i \in Ids : RowOK(i)') /\ OneRowPerDomain'
  BY RowsCalm
<1>4. RoutesEarned'
  BY RoutesGrow
<1> QED
  BY <1>1, <1>2, <1>3, <1>4 DEF IInv

\* A step that leaves rows and hostnames alone
LEMMA SameRows ==
    ASSUME rows' = rows, hosts' = hosts
    PROVE  Grows /\ Calm
BY DEF Grows, Calm, Exists

\* SetStatus makes, moves and revives no row.
LEMMA SetStatusGrows ==
    ASSUME IInv, NEW i \in Ids, rows[i].st # "none", hosts' = hosts,
           NEW st \in {"pending", "active", "failed", "deleted"}, SetStatus(i, st)
    PROVE  /\ Grows
           /\ st # "active" => Calm
           /\ rows' \in [Ids -> Row]
           /\ \A j \in Ids : rows'[j].st \notin {"none", "deleted"} => Exists(j)
           /\ \A j \in Ids : j # i => rows'[j] = rows[j]
<1>1. rows \in [Ids -> Row]
  BY DEF IInv, TypeOK
<1>2. PICK s \in {"pending", "active", "failed", "deleted", "ssl_pending", "none"} :
         /\ rows' = [rows EXCEPT ![i].st = s]
         /\ s = IF Exists(i) THEN st ELSE rows[i].st
  BY <1>1 DEF SetStatus, Row
<1>3. /\ rows'[i] = [rows[i] EXCEPT !.st = s]
      /\ \A j \in Ids : j # i => rows'[j] = rows[j]
      /\ rows' \in [Ids -> Row]
  <2>1. rows[i] \in Row
    BY <1>1
  <2>2. [rows[i] EXCEPT !.st = s] \in Row
    BY <2>1, <1>2 DEF Row
  <2> QED
    BY <1>1, <1>2, <2>2
<1>4. rows'[i].st = s /\ rows'[i].ten = rows[i].ten /\ rows'[i].dom = rows[i].dom
  BY <1>3, <1>1 DEF Row
<1>5. Exists(i)' => Exists(i)
  BY <1>2, <1>4 DEF Exists
<1>6. \A j \in Ids : Exists(j)' => Exists(j)
  BY <1>3, <1>5 DEF Exists
<1>7. Grows
  BY <1>2, <1>3, <1>4 DEF Grows, Exists
<1>8. st # "active" => Calm
  BY <1>2, <1>3, <1>4, <1>6 DEF Calm, Exists
<1> QED
  BY <1>3, <1>6, <1>7, <1>8 DEF Exists

-----------------------------------------------------------------------------
(* What a pipeline's next program counter leaves of its record *)

LEMMA GotoTask ==
    ASSUME task \in [Tasks -> Pipeline], NEW k \in Tasks, NEW pc \in Running, Goto(k, pc)
    PROVE  /\ task' \in [Tasks -> Pipeline]
           /\ \A j \in Tasks : j # k => task'[j] = task[j]
           /\ task'[k].pc = pc /\ Id(k)' = Id(k)
           /\ task'[k].cf = task[k].cf /\ task'[k].ten = task[k].ten
BY DEF Goto, Pipeline, Id

LEMMA AgainTask ==
    ASSUME task \in [Tasks -> Pipeline], NEW k \in Tasks, PollAgain(k)
    PROVE  /\ task' \in [Tasks -> Pipeline]
           /\ \A j \in Tasks : j # k => task'[j] = task[j]
           /\ task'[k].pc = task[k].pc /\ Id(k)' = Id(k)
           /\ task'[k].cf = task[k].cf /\ task'[k].ten = task[k].ten
BY DEF PollAgain, Pipeline, Id

LEMMA EndTask ==
    ASSUME task \in [Tasks -> Pipeline], NEW k \in Tasks, NEW pc \in {"ok", "error"}, End(k, pc)
    PROVE  /\ task' \in [Tasks -> Pipeline]
           /\ \A j \in Tasks : j # k => task'[j] = task[j]
           /\ task'[k].pc = pc
BY DEF End, Pipeline, Id, NewTask

\* A record that is not running asks for nothing.
LEMMA IdleOK ==
    ASSUME NEW k \in Tasks, task'[k].pc \notin Running
    PROVE  TaskOK(k)'
BY DEF TaskOK, Running, Polling, HasHost, HasCert, HasTenant

-----------------------------------------------------------------------------
(* The pipeline *)

\* A step that changes at most its own pipeline's record, the challenges and
\* the sessions
LEMMA TaskOnly ==
    ASSUME IInv, NEW k \in Tasks,
           UNCHANGED <<rows, primary, kv, hosts, zone, hnd, crashes>>,
           acme' \subseteq {"hostname", "dv"} \X Hosts, NotifyTypeOK',
           task' \in [Tasks -> Pipeline], \A j \in Tasks : j # k => task'[j] = task[j],
           TaskOK(k)'
    PROVE  IInv'
<1>1. TypeOK'
  BY DEF IInv, TypeOK
<1>2. Grows /\ Calm
  BY SameRows
<1> QED
  BY <1>1, <1>2, Combine

\* What a running pipeline's row and record are
LEMMA RunningTask ==
    ASSUME IInv, NEW k \in Tasks, task[k].pc \in Running
    PROVE  /\ TaskOK(k) /\ Id(k) \in Ids /\ rows[Id(k)].st # "none" /\ Dom(k) \in Domains
           /\ rows[Id(k)].ten \in Tenants
           /\ rows \in [Ids -> Row] /\ task \in [Tasks -> Pipeline] /\ hosts \in [Hosts -> Hostname]
BY DEF IInv, TypeOK, TaskOK, RowOK, Dom

LEMMA PollCnameInv ==
    ASSUME IInv, NEW k \in Tasks, PollCname(k)
    PROVE  IInv'
<1> USE DEF PollCname, At
<1>1. TaskOK(k) /\ task \in [Tasks -> Pipeline] /\ Id(k) \in Ids /\ rows[Id(k)].st # "none"
  BY RunningTask DEF Running, Polling
<1>2. /\ UNCHANGED <<rows, primary, kv, acme, hosts, zone, hnd, crashes>> /\ NotifyTypeOK'
      /\ acme \subseteq {"hostname", "dv"} \X Hosts
  BY SameType DEF dbVars, envVars, IInv, TypeOK
<1>3. /\ task' \in [Tasks -> Pipeline]
      /\ \A j \in Tasks : j # k => task'[j] = task[j]
      /\ task'[k].pc \in {"cname", "create"} /\ Id(k)' = Id(k)
  BY <1>1, GotoTask, AgainTask DEF Running, Polling
<1>4. TaskOK(k)'
  BY <1>1, <1>2, <1>3 DEF TaskOK, HasHost, HasCert, HasTenant
<1> QED
  BY <1>2, <1>3, <1>4, TaskOnly

LEMMA PollTxtInv ==
    ASSUME IInv, NEW k \in Tasks, PollTxt(k)
    PROVE  IInv'
<1> USE DEF PollTxt, At
<1>1. TaskOK(k) /\ task \in [Tasks -> Pipeline] /\ Id(k) \in Ids /\ rows[Id(k)].st # "none"
  BY RunningTask DEF Running, Polling
<1>2. /\ UNCHANGED <<rows, primary, kv, acme, hosts, zone, hnd, crashes>> /\ NotifyTypeOK'
      /\ acme \subseteq {"hostname", "dv"} \X Hosts
  BY SameType DEF dbVars, envVars, IInv, TypeOK
<1>3. /\ task' \in [Tasks -> Pipeline]
      /\ \A j \in Tasks : j # k => task'[j] = task[j]
      /\ task'[k].pc \in {"txt", "ssl"} /\ Id(k)' = Id(k) /\ task'[k].cf = task[k].cf
  BY <1>1, GotoTask, AgainTask DEF Running, Polling
<1>4. TaskOK(k)'
  BY <1>1, <1>2, <1>3 DEF TaskOK, HasHost, HasCert, HasTenant, Dom, Id
<1> QED
  BY <1>2, <1>3, <1>4, TaskOnly

\* The certificate is that of the hostname the pipeline carries, whose domain
\* is the row's.
LEMMA PollSslInv ==
    ASSUME IInv, NEW k \in Tasks, PollSsl(k)
    PROVE  IInv'
<1> USE DEF PollSsl, At
<1>1. /\ TaskOK(k) /\ task \in [Tasks -> Pipeline] /\ Id(k) \in Ids /\ rows[Id(k)].st # "none"
      /\ task[k].cf \in Hosts /\ hosts[task[k].cf].dom = Dom(k)
  BY RunningTask DEF Running, Polling, TaskOK, HasHost
<1>2. UNCHANGED <<rows, primary, kv, hosts, zone, hnd, crashes>> /\ NotifyTypeOK'
  BY SameType DEF envVars, IInv, TypeOK
<1>3. acme' \subseteq {"hostname", "dv"} \X Hosts
  BY <1>1 DEF Challenges, IInv, TypeOK
<1>4. CASE SslActive(task[k].cf) /\ Goto(k, "tenant")
  <2>1. /\ task' \in [Tasks -> Pipeline]
        /\ \A j \in Tasks : j # k => task'[j] = task[j]
        /\ task'[k].pc = "tenant" /\ Id(k)' = Id(k)
    BY <1>1, <1>4, GotoTask DEF Running
  <2>2. Certified(Dom(k))
    BY <1>1, <1>4 DEF SslActive, Certified
  <2>3. Dom(k)' = Dom(k) /\ Certified(Dom(k))'
    BY <1>2, <2>1, <2>2 DEF Certified, Dom
  <2>4. TaskOK(k)'
    BY <1>1, <1>2, <2>1, <2>3 DEF TaskOK, HasHost, HasCert, HasTenant
  <2> QED
    BY <1>2, <1>3, <2>1, <2>4, TaskOnly
<1>5. CASE PollAgain(k)
  <2>1. /\ task' \in [Tasks -> Pipeline]
        /\ \A j \in Tasks : j # k => task'[j] = task[j]
        /\ task'[k].pc = "ssl" /\ Id(k)' = Id(k) /\ task'[k].cf = task[k].cf
    BY <1>1, <1>5, AgainTask
  <2>2. TaskOK(k)'
    BY <1>1, <1>2, <2>1 DEF TaskOK, HasHost, HasCert, HasTenant, Dom, Id
  <2> QED
    BY <1>2, <1>3, <2>1, <2>2, TaskOnly
<1> QED
  BY <1>4, <1>5

LEMMA ReadOwnershipInv ==
    ASSUME IInv, NEW k \in Tasks, ReadOwnership(k)
    PROVE  IInv'
<1> USE DEF ReadOwnership, At
<1>1. /\ TaskOK(k) /\ task \in [Tasks -> Pipeline] /\ Id(k) \in Ids /\ rows[Id(k)].st # "none"
      /\ rows \in [Ids -> Row]
  BY RunningTask DEF Running
<1>2. /\ UNCHANGED <<rows, primary, kv, acme, hosts, zone, hnd, crashes>> /\ NotifyTypeOK'
      /\ acme \subseteq {"hostname", "dv"} \X Hosts
  BY NotifyType DEF dbVars, envVars, IInv, TypeOK
<1>3. /\ task' \in [Tasks -> Pipeline]
      /\ \A j \in Tasks : j # k => task'[j] = task[j]
      /\ task'[k].pc = "txt" /\ Id(k)' = Id(k) /\ task'[k].cf = task[k].cf
  <2>1. task[k] \in Pipeline /\ rows[Id(k)].txt \in Hosts \cup {NoHost} /\ "txt" \in Running
    BY <1>1 DEF Row, Running, Polling
  <2> DEFINE r == [task[k] EXCEPT !.pc = "txt", !.txt = rows[Id(k)].txt]
  <2>2. r \in Pipeline /\ r.pc = "txt" /\ r.id = task[k].id /\ r.cf = task[k].cf
    BY <2>1 DEF Pipeline
  <2>3. task' = [task EXCEPT ![k] = r]
    BY <1>1
  <2> HIDE DEF r
  <2> QED
    BY <1>1, <2>2, <2>3 DEF Id
<1>4. TaskOK(k)'
  BY <1>1, <1>2, <1>3 DEF TaskOK, HasHost, HasCert, HasTenant, Dom, Id
<1> QED
  BY <1>2, <1>3, <1>4, TaskOnly

LEMMA ReadTenantInv ==
    ASSUME IInv, NEW k \in Tasks, ReadTenant(k)
    PROVE  IInv'
<1> USE DEF ReadTenant, At
<1>1. /\ TaskOK(k) /\ task \in [Tasks -> Pipeline] /\ Id(k) \in Ids /\ rows[Id(k)].st # "none"
      /\ rows \in [Ids -> Row] /\ Certified(Dom(k))
  BY RunningTask DEF Running, TaskOK, HasCert
<1>2. /\ UNCHANGED <<rows, primary, kv, acme, hosts, zone, hnd, crashes>> /\ NotifyTypeOK'
      /\ acme \subseteq {"hostname", "dv"} \X Hosts
  BY SameType DEF dbVars, envVars, IInv, TypeOK
<1>3. /\ task' \in [Tasks -> Pipeline]
      /\ \A j \in Tasks : j # k => task'[j] = task[j]
      /\ task'[k].pc = "kv" /\ Id(k)' = Id(k) /\ task'[k].ten = rows[Id(k)].ten
  <2>1. task[k] \in Pipeline /\ rows[Id(k)].ten \in Tenants \cup {NoTenant} /\ "kv" \in Running
    BY <1>1 DEF Row, Running
  <2> DEFINE r == [task[k] EXCEPT !.pc = "kv", !.ten = rows[Id(k)].ten]
  <2>2. r \in Pipeline /\ r.pc = "kv" /\ r.id = task[k].id /\ r.ten = rows[Id(k)].ten
    BY <2>1 DEF Pipeline
  <2>3. task' = [task EXCEPT ![k] = r]
    BY <1>1
  <2> HIDE DEF r
  <2> QED
    BY <1>1, <2>2, <2>3 DEF Id
<1>4. Dom(k)' = Dom(k) /\ Certified(Dom(k))'
  BY <1>1, <1>2, <1>3 DEF Certified, Dom
<1>5. TaskOK(k)'
  BY <1>1, <1>2, <1>3, <1>4 DEF TaskOK, HasHost, HasCert, HasTenant
<1> QED
  BY <1>2, <1>3, <1>5, TaskOnly

LEMMA NotifyDoneInv ==
    ASSUME IInv, NEW k \in Tasks, NotifyDone(k)
    PROVE  IInv'
<1> USE DEF NotifyDone, At
<1>1. /\ TaskOK(k) /\ task \in [Tasks -> Pipeline] /\ Id(k) \in Ids /\ rows[Id(k)].st # "none"
      /\ Certified(Dom(k)) /\ task[k].ten = rows[Id(k)].ten
  BY RunningTask DEF Running, TaskOK, HasCert, HasTenant
<1>2. /\ UNCHANGED <<rows, primary, kv, acme, hosts, zone, hnd, crashes>> /\ NotifyTypeOK'
      /\ acme \subseteq {"hostname", "dv"} \X Hosts
  BY NotifyType DEF dbVars, envVars, IInv, TypeOK
<1>3. /\ task' \in [Tasks -> Pipeline]
      /\ \A j \in Tasks : j # k => task'[j] = task[j]
      /\ task'[k].pc = "primary" /\ Id(k)' = Id(k) /\ task'[k].ten = task[k].ten
  BY <1>1, GotoTask DEF Running
<1>4. Dom(k)' = Dom(k) /\ Certified(Dom(k))'
  BY <1>1, <1>2, <1>3 DEF Certified, Dom
<1>5. TaskOK(k)'
  BY <1>1, <1>2, <1>3, <1>4 DEF TaskOK, HasHost, HasCert, HasTenant
<1> QED
  BY <1>2, <1>3, <1>5, TaskOnly

\* The ends of a pipeline
LEMMA EndInv ==
    ASSUME IInv, NEW k \in Tasks, NotifyFailed(k) \/ RowGone(k) \/ TaskFails(k)
    PROVE  IInv'
<1> USE DEF NotifyFailed, RowGone, TaskFails, At
<1>1. /\ UNCHANGED <<rows, primary, kv, acme, hosts, zone, hnd, crashes>>
      /\ acme \subseteq {"hostname", "dv"} \X Hosts
  BY DEF dbVars, envVars, IInv, TypeOK
<1>2. NotifyTypeOK'
  BY NotifyType, SameType DEF IInv, TypeOK
<1>3. /\ task' \in [Tasks -> Pipeline]
      /\ \A j \in Tasks : j # k => task'[j] = task[j]
      /\ task'[k].pc = "error"
  BY EndTask DEF IInv, TypeOK
<1>4. TaskOK(k)'
  BY <1>3, IdleOK DEF Running, Polling
<1> QED
  BY <1>1, <1>2, <1>3, <1>4, TaskOnly

LEMMA TimeoutInv ==
    ASSUME IInv, NEW k \in Tasks, Timeout(k)
    PROVE  IInv'
<1> USE DEF Timeout, At
<1>1. /\ TaskOK(k) /\ task \in [Tasks -> Pipeline] /\ Id(k) \in Ids /\ rows[Id(k)].st # "none"
  BY RunningTask DEF Running
<1>2. UNCHANGED <<primary, kv, acme, hosts, zone, hnd, crashes>> /\ NotifyTypeOK'
  BY SameType DEF envVars, IInv, TypeOK
<1>3. Grows /\ Calm /\ rows' \in [Ids -> Row]
  BY <1>1, <1>2, SetStatusGrows
<1>4. /\ task' \in [Tasks -> Pipeline]
      /\ \A j \in Tasks : j # k => task'[j] = task[j]
      /\ task'[k].pc = "failing" /\ Id(k)' = Id(k)
  BY <1>1, GotoTask DEF Running
<1>5. TypeOK'
  BY <1>2, <1>3, <1>4 DEF IInv, TypeOK
<1>6. TaskOK(k)'
  BY <1>1, <1>3, <1>4 DEF TaskOK, HasHost, HasCert, HasTenant, Grows
<1> QED
  BY <1>2, <1>3, <1>4, <1>5, <1>6, Combine

\* A hostname is made for a domain once: a free one gets it, a live one has it.
LEMMA CreateHostInv ==
    ASSUME IInv, NEW k \in Tasks, CreateHost(k)
    PROVE  IInv'
<1>1. /\ TaskOK(k) /\ task \in [Tasks -> Pipeline] /\ Id(k) \in Ids /\ rows[Id(k)].st # "none"
      /\ Dom(k) \in Domains /\ hosts \in [Hosts -> Hostname]
  BY RunningTask DEF Running, CreateHost, At
<1>2. UNCHANGED <<rows, primary, kv, acme, zone, hnd, crashes>> /\ NotifyTypeOK'
  BY SameType DEF CreateHost, dbVars, IInv, TypeOK
<1>3. PICK h \in Hosts :
        /\ hosts[h].dom \in {Dom(k), NoDomain}
        /\ hosts' = [hosts EXCEPT ![h].dom = Dom(k), ![h].live = TRUE]
        /\ \E pc \in {"store", "refresh"}, v \in Hosts \cup {NoHost} :
             task' = [task EXCEPT ![k].pc = pc, ![k].cf = h, ![k].txt = v]
  <2>0. PICK pc \in {"store", "refresh"} : pc = IF LiveHosts(Dom(k)) = {} THEN "store" ELSE "refresh"
    OBVIOUS
  <2>1. PICK h \in IF LiveHosts(Dom(k)) # {} THEN LiveHosts(Dom(k))
                   ELSE {g \in Hosts : hosts[g].dom = NoDomain} :
          /\ hosts' = [hosts EXCEPT ![h].dom = Dom(k), ![h].live = TRUE]
          /\ \E v \in IF CfMayOmit THEN {h, NoHost} ELSE {h} :
               task' = [task EXCEPT ![k].pc = pc, ![k].cf = h, ![k].txt = v]
    BY Zenon, <2>0 DEF CreateHost
  <2>2. h \in Hosts /\ hosts[h].dom \in {Dom(k), NoDomain}
    BY <2>1 DEF LiveHosts
  <2>3. PICK v \in IF CfMayOmit THEN {h, NoHost} ELSE {h} :
          task' = [task EXCEPT ![k].pc = pc, ![k].cf = h, ![k].txt = v]
    BY Zenon, <2>1
  <2>4. v \in Hosts \cup {NoHost}
    BY <2>2, <2>3
  <2> QED
    BY Zenon, <2>0, <2>1, <2>2, <2>3, <2>4
<1>4. /\ hosts' \in [Hosts -> Hostname]
      /\ \A g \in Hosts : g # h => hosts'[g] = hosts[g]
      /\ hosts'[h].dom = Dom(k) /\ hosts'[h].ssl = hosts[h].ssl
  <2>0. hosts' = [hosts EXCEPT ![h].dom = Dom(k), ![h].live = TRUE]
    BY <1>3
  <2> DEFINE r == [hosts[h] EXCEPT !.dom = Dom(k), !.live = TRUE]
  <2>1. r \in Hostname /\ r.dom = Dom(k) /\ r.ssl = hosts[h].ssl
    BY <1>1 DEF Hostname
  <2>2. hosts' = [hosts EXCEPT ![h] = r]
    BY <1>1, <2>0
  <2> HIDE DEF r
  <2> QED
    BY <1>1, <2>1, <2>2
<1>5. /\ task' \in [Tasks -> Pipeline]
      /\ \A j \in Tasks : j # k => task'[j] = task[j]
      /\ task'[k].pc \in {"store", "refresh"} /\ Id(k)' = Id(k) /\ task'[k].cf = h
  <2>0. PICK pc \in {"store", "refresh"}, v \in Hosts \cup {NoHost} :
          task' = [task EXCEPT ![k].pc = pc, ![k].cf = h, ![k].txt = v]
    BY <1>3
  <2> DEFINE r == [task[k] EXCEPT !.pc = pc, !.cf = h, !.txt = v]
  <2>1. r \in Pipeline /\ r.pc = pc /\ r.id = task[k].id /\ r.cf = h
    BY <1>1 DEF Pipeline, Running
  <2>2. task' = [task EXCEPT ![k] = r]
    BY <1>1, <2>0
  <2> HIDE DEF r
  <2> QED
    BY <1>1, <2>1, <2>2 DEF Id
<1>6. TypeOK'
  BY <1>2, <1>4, <1>5 DEF IInv, TypeOK
<1>7. Grows
  BY <1>2, <1>3, <1>4, CustomDomainAssumption DEF Grows
<1>8. Calm
  BY <1>2 DEF Calm, Exists
<1>9. TaskOK(k)'
  BY <1>1, <1>2, <1>4, <1>5 DEF TaskOK, HasHost, HasCert, HasTenant, Dom
<1> QED
  BY <1>2, <1>5, <1>6, <1>7, <1>8, <1>9, Combine

\* A row that gets fields other than its status, tenant and domain
LEMMA FieldsGrow ==
    ASSUME rows \in [Ids -> Row], NEW i \in Ids, rows[i].st # "none", hosts' = hosts, NEW r \in Row,
           rows' = [rows EXCEPT ![i] = r], r.ten = rows[i].ten, r.dom = rows[i].dom,
           r.st = rows[i].st \/ (Exists(i) /\ r.st = "ssl_pending")
    PROVE  Grows /\ Calm /\ rows' \in [Ids -> Row]
BY DEF Grows, Calm, Exists

LEMMA StoreOwnershipInv ==
    ASSUME IInv, NEW k \in Tasks, StoreOwnership(k)
    PROVE  IInv'
<1> USE DEF StoreOwnership, At
<1>1. /\ TaskOK(k) /\ task \in [Tasks -> Pipeline] /\ Id(k) \in Ids /\ rows[Id(k)].st # "none"
      /\ rows \in [Ids -> Row] /\ task[k].cf \in Hosts /\ hosts[task[k].cf].dom = Dom(k)
  BY RunningTask DEF Running, TaskOK, HasHost
<1>2. UNCHANGED <<primary, kv, hosts, zone, hnd, crashes>> /\ NotifyTypeOK'
  BY SameType DEF envVars, IInv, TypeOK
<1>3. acme' \subseteq {"hostname", "dv"} \X Hosts
  BY <1>1 DEF IInv, TypeOK
<1>4. Grows /\ Calm /\ rows' \in [Ids -> Row]
  <2> DEFINE v == IF Exists(Id(k)) /\ StoresValue(k) THEN task[k].txt ELSE rows[Id(k)].txt
             r == [rows[Id(k)] EXCEPT !.txt = v]
  <2>1. v \in Hosts \cup {NoHost} /\ rows[Id(k)] \in Row
    BY <1>1 DEF Pipeline, Row
  <2> HIDE DEF v
  <2>2. r \in Row /\ r.st = rows[Id(k)].st /\ r.ten = rows[Id(k)].ten /\ r.dom = rows[Id(k)].dom
    BY <2>1 DEF Row
  <2>3. rows' = [rows EXCEPT ![Id(k)] = r]
    BY <1>1 DEF v
  <2> HIDE DEF r
  <2> QED
    BY <1>1, <1>2, <2>2, <2>3, FieldsGrow
<1>5. /\ task' \in [Tasks -> Pipeline]
      /\ \A j \in Tasks : j # k => task'[j] = task[j]
      /\ task'[k].pc \in {"mark", "announce"} /\ Id(k)' = Id(k)
      /\ task'[k].cf = task[k].cf
  BY <1>1, GotoTask DEF Running, AfterStore
<1>6. TypeOK'
  BY <1>2, <1>3, <1>4, <1>5 DEF IInv, TypeOK
<1>7. TaskOK(k)'
  BY <1>1, <1>2, <1>4, <1>5 DEF TaskOK, HasHost, HasCert, HasTenant, Grows, Dom
<1> QED
  BY <1>2, <1>4, <1>5, <1>6, <1>7, Combine

LEMMA AnnounceInv ==
    ASSUME IInv, NEW k \in Tasks, Announce(k)
    PROVE  IInv'
<1> USE DEF Announce, At
<1>1. TaskOK(k) /\ task \in [Tasks -> Pipeline] /\ Id(k) \in Ids /\ rows[Id(k)].st # "none"
  BY RunningTask DEF Running
<1>2. /\ UNCHANGED <<rows, primary, kv, acme, hosts, zone, hnd, crashes>> /\ NotifyTypeOK'
      /\ acme \subseteq {"hostname", "dv"} \X Hosts
  BY NotifyType DEF dbVars, envVars, IInv, TypeOK
<1>3. /\ task' \in [Tasks -> Pipeline]
      /\ \A j \in Tasks : j # k => task'[j] = task[j]
      /\ task'[k].pc = "mark" /\ Id(k)' = Id(k) /\ task'[k].cf = task[k].cf
  BY <1>1, GotoTask DEF Running
<1>4. TaskOK(k)'
  BY <1>1, <1>2, <1>3 DEF TaskOK, Running, HasHost, HasCert, HasTenant, Dom, Id
<1> QED
  BY <1>2, <1>3, <1>4, TaskOnly

LEMMA MarkSslPendingInv ==
    ASSUME IInv, NEW k \in Tasks, MarkSslPending(k)
    PROVE  IInv'
<1> USE DEF MarkSslPending, At
<1>1. /\ TaskOK(k) /\ task \in [Tasks -> Pipeline] /\ Id(k) \in Ids /\ rows[Id(k)].st # "none"
      /\ rows \in [Ids -> Row] /\ task[k].cf \in Hosts /\ hosts[task[k].cf].dom = Dom(k)
  BY RunningTask DEF Running, TaskOK, HasHost
<1>2. UNCHANGED <<primary, kv, acme, hosts, zone, hnd, crashes>> /\ NotifyTypeOK'
  BY SameType DEF envVars, IInv, TypeOK
<1>3. Grows /\ Calm /\ rows' \in [Ids -> Row]
  <2> DEFINE r == IF Exists(Id(k)) THEN [rows[Id(k)] EXCEPT !.st = "ssl_pending", !.cf = task[k].cf]
                  ELSE rows[Id(k)]
  <2>1. /\ r \in Row /\ r.ten = rows[Id(k)].ten /\ r.dom = rows[Id(k)].dom
        /\ r.st = rows[Id(k)].st \/ (Exists(Id(k)) /\ r.st = "ssl_pending")
    <3>1. rows[Id(k)] \in Row
      BY <1>1
    <3>2. CASE Exists(Id(k))
      BY <1>1, <3>1, <3>2 DEF Row
    <3>3. CASE ~Exists(Id(k))
      BY <3>1, <3>3
    <3> QED
      BY <3>2, <3>3
  <2>2. rows' = [rows EXCEPT ![Id(k)] = r]
    BY <1>1
  <2> HIDE DEF r
  <2> QED
    BY <1>1, <1>2, <2>1, <2>2, FieldsGrow
<1>4. /\ task' \in [Tasks -> Pipeline]
      /\ \A j \in Tasks : j # k => task'[j] = task[j]
      /\ task'[k].pc = "read" /\ Id(k)' = Id(k) /\ task'[k].cf = task[k].cf
  BY <1>1, GotoTask DEF Running
<1>5. TypeOK'
  BY <1>2, <1>3, <1>4 DEF IInv, TypeOK
<1>6. TaskOK(k)'
  BY <1>1, <1>2, <1>3, <1>4 DEF TaskOK, HasHost, HasCert, HasTenant, Grows, Dom
<1> QED
  BY <1>2, <1>3, <1>4, <1>5, <1>6, Combine

\* The row is certified: the pipeline saw the certificate, and none is revoked.
LEMMA ActivateInv ==
    ASSUME IInv, NEW k \in Tasks, Activate(k)
    PROVE  IInv'
<1>1. /\ TaskOK(k) /\ task \in [Tasks -> Pipeline] /\ Id(k) \in Ids /\ rows[Id(k)].st # "none"
      /\ Certified(Dom(k)) /\ task[k].ten = rows[Id(k)].ten
  BY RunningTask DEF Running, TaskOK, HasCert, HasTenant, Activate, At
<1>2. UNCHANGED <<primary, kv, acme, hosts, zone, hnd, crashes>> /\ NotifyTypeOK'
  BY SameType DEF Activate, envVars, IInv, TypeOK
<1>3. /\ Grows /\ rows' \in [Ids -> Row]
      /\ \A j \in Ids : rows'[j].st \notin {"none", "deleted"} => Exists(j)
      /\ \A j \in Ids : j # Id(k) => rows'[j] = rows[j]
  <2>1. hosts' = hosts /\ SetStatus(Id(k), "active") /\ Id(k) \in Ids /\ rows[Id(k)].st # "none"
    BY <1>1, <1>2 DEF Activate
  <2> QED
    BY <2>1, SetStatusGrows
<1>4. /\ task' \in [Tasks -> Pipeline]
      /\ \A j \in Tasks : j # k => task'[j] = task[j]
      /\ task'[k].pc = "notify" /\ Id(k)' = Id(k) /\ task'[k].ten = task[k].ten
  BY <1>1, GotoTask DEF Running, Activate
<1>5. TypeOK'
  BY <1>2, <1>3, <1>4 DEF IInv, TypeOK
<1>6. /\ rows'[Id(k)].st # "none" /\ rows'[Id(k)].ten = rows[Id(k)].ten
      /\ rows'[Id(k)].dom = Dom(k) /\ Dom(k)' = Dom(k) /\ Certified(Dom(k))'
  BY <1>1, <1>2, <1>3, <1>4 DEF Grows, Certified, Dom
<1>7. TaskOK(k)'
  BY <1>1, <1>4, <1>6 DEF TaskOK, HasHost, HasCert, HasTenant, Dom
<1>8. \A i \in Ids : RowOK(i)'
  <2> TAKE i \in Ids
  <2>1. CASE i = Id(k)
    BY <1>1, <1>6, <2>1 DEF IInv, RowOK, Dom, Certified
  <2>2. CASE i # Id(k)
    <3>1. rows'[i] = rows[i] /\ RowOK(i)
      BY <1>3, <2>2 DEF IInv
    <3> QED
      BY <1>2, <3>1 DEF RowOK, Certified
  <2> QED
    BY <2>1, <2>2
<1>9. OneRowPerDomain'
  <2>1. \A i \in Ids : Exists(i)' => Exists(i) /\ rows'[i].dom = rows[i].dom
    BY <1>3 DEF Grows, Exists
  <2> QED
    BY <2>1 DEF OneRowPerDomain, IInv
<1> QED
  BY <1>2, <1>3, <1>4, <1>5, <1>7, <1>8, <1>9, Combine

\* The route of a domain, when it has its certificate and the tenant its row
LEMMA WarmKvInv ==
    ASSUME IInv, NEW k \in Tasks, WarmKv(k)
    PROVE  IInv'
<1>1. /\ TaskOK(k) /\ task \in [Tasks -> Pipeline] /\ Id(k) \in Ids /\ rows[Id(k)].st # "none"
      /\ Certified(Dom(k)) /\ task[k].ten = rows[Id(k)].ten /\ Dom(k) \in Domains
      /\ task[k].ten \in Tenants
  BY RunningTask DEF Running, TaskOK, HasCert, HasTenant, WarmKv, At
<1>2. UNCHANGED <<rows, primary, acme, hosts, zone, hnd, crashes>> /\ NotifyTypeOK'
  BY SameType DEF WarmKv, envVars, IInv, TypeOK
<1>3. Grows /\ Calm
  BY <1>2, SameRows
<1>4. /\ task' \in [Tasks -> Pipeline]
      /\ \A j \in Tasks : j # k => task'[j] = task[j]
      /\ task'[k].pc = "activate" /\ Id(k)' = Id(k) /\ task'[k].ten = task[k].ten
  BY <1>1, GotoTask DEF Running, WarmKv
<1>5. kv' \in [Domains -> Tenants \cup {NoTenant}] /\ kv' = [kv EXCEPT ![Dom(k)] = task[k].ten]
  BY <1>1 DEF WarmKv, IInv, TypeOK
<1>6. TypeOK'
  BY <1>2, <1>4, <1>5 DEF IInv, TypeOK
<1>7. Dom(k)' = Dom(k) /\ Certified(Dom(k))'
  BY <1>1, <1>2, <1>4 DEF Certified, Dom
<1>8. TaskOK(k)'
  BY <1>1, <1>2, <1>4, <1>7 DEF TaskOK, HasHost, HasCert, HasTenant
<1>9. \A t, d : Earned(t, d)' <=> Earned(t, d)
  BY <1>2 DEF Earned, Certified
<1>10. Earned(task[k].ten, Dom(k))
  BY <1>1 DEF Earned, Dom
<1>11. \A d \in Domains : kv'[d] # NoTenant => Earned(kv'[d], d)
  BY <1>5, <1>10 DEF IInv, TypeOK, RoutesEarned
<1>12. RoutesEarned'
  BY <1>2, <1>9, <1>11 DEF IInv, RoutesEarned
<1> QED
  BY <1>2, <1>3, <1>4, <1>6, <1>8, <1>12, Combine

LEMMA SetPrimaryInv ==
    ASSUME IInv, NEW k \in Tasks, SetPrimary(k)
    PROVE  IInv'
<1>1. /\ TaskOK(k) /\ task \in [Tasks -> Pipeline] /\ Id(k) \in Ids /\ rows[Id(k)].st # "none"
      /\ Certified(Dom(k)) /\ task[k].ten = rows[Id(k)].ten /\ Dom(k) \in Domains
      /\ task[k].ten \in Tenants
  BY RunningTask DEF Running, TaskOK, HasCert, HasTenant, SetPrimary, At
<1>2. UNCHANGED <<rows, kv, acme, hosts, zone, hnd, crashes>> /\ NotifyTypeOK'
  BY SameType DEF SetPrimary, envVars, IInv, TypeOK
<1>3. Grows /\ Calm
  BY <1>2, SameRows
<1>4. /\ task' \in [Tasks -> Pipeline]
      /\ \A j \in Tasks : j # k => task'[j] = task[j]
      /\ task'[k].pc = "ok"
  BY <1>1, EndTask DEF SetPrimary
<1>5. /\ primary' \in [Tenants -> Domains \cup {NoDomain}]
      /\ primary' = [primary EXCEPT ![task[k].ten] = Dom(k)]
  BY <1>1 DEF SetPrimary, IInv, TypeOK
<1>6. TypeOK'
  BY <1>2, <1>4, <1>5 DEF IInv, TypeOK
<1>7. TaskOK(k)'
  BY <1>4, IdleOK DEF Running, Polling
<1>8. \A t, d : Earned(t, d)' <=> Earned(t, d)
  BY <1>2 DEF Earned, Certified
<1>9. Earned(task[k].ten, Dom(k))
  BY <1>1 DEF Earned, Dom
<1>10. \A t \in Tenants : primary'[t] # NoDomain => Earned(t, primary'[t])
  BY <1>5, <1>9 DEF IInv, TypeOK, RoutesEarned
<1>11. RoutesEarned'
  BY <1>2, <1>8, <1>10 DEF IInv, RoutesEarned
<1> QED
  BY <1>2, <1>3, <1>4, <1>6, <1>7, <1>11, Combine

-----------------------------------------------------------------------------
(* The handlers *)

\* A request that becomes r
LEMMA HandlerMoves ==
    ASSUME IInv, NEW x \in Handlers, NEW r \in Served, hnd' = [hnd EXCEPT ![x] = r],
           UNCHANGED <<task, hosts, zone, crashes, notifyVars>>,
           rows' \in [Ids -> Row], Grows, Calm \/ ((\A i \in Ids : RowOK(i)') /\ OneRowPerDomain'),
           primary' \in [Tenants -> Domains \cup {NoDomain}],
           kv' \in [Domains -> Tenants \cup {NoTenant}], acme' = acme,
           (primary' = primary /\ kv' = kv) \/ RoutesEarned',
           r.pc = "insert" => r.ten \in Tenants /\ r.dom \in Domains,
           r.pc \notin {"free", "insert"} => r.id \in Ids /\ rows'[r.id].st # "none"
    PROVE  IInv'
<1>1. hnd' \in [Handlers -> Served] /\ hnd'[x] = r /\ \A y \in Handlers : y # x => hnd'[y] = hnd[y]
  BY DEF IInv, TypeOK
<1>2. NotifyTypeOK'
  BY SameType DEF IInv, TypeOK
<1>3. TypeOK'
  BY <1>1, <1>2 DEF IInv, TypeOK
<1>4. RequestOK(x)'
  BY <1>1 DEF RequestOK
<1> QED
  BY <1>1, <1>3, <1>4, Combine

\* A request and the row it serves
LEMMA ServedRequest ==
    ASSUME IInv, NEW x \in Handlers, hnd[x].pc \notin {"free", "insert"}
    PROVE  /\ hnd[x] \in Served /\ hnd[x].id \in Ids /\ rows[hnd[x].id].st # "none"
           /\ rows[hnd[x].id].ten \in Tenants /\ rows[hnd[x].id].dom \in Domains
BY DEF IInv, TypeOK, RequestOK, RowOK

\* The requests that read before they write ...
LEMMA AddCheckInv ==
    ASSUME IInv, NEW x \in Handlers, NEW t \in Tenants, NEW d \in Domains, AddCheck(x, t, d)
    PROVE  IInv'
<1>1. /\ UNCHANGED <<rows, primary, kv, acme, hosts, zone, task, crashes, notifyVars>>
      /\ rows \in [Ids -> Row] /\ primary \in [Tenants -> Domains \cup {NoDomain}]
      /\ kv \in [Domains -> Tenants \cup {NoTenant}]
  BY DEF AddCheck, dbVars, envVars, IInv, TypeOK
<1>2. Grows /\ Calm
  BY <1>1, SameRows
<1> DEFINE r == [pc |-> "insert", id |-> NoId, ten |-> t, dom |-> d]
<1>3. r \in Served /\ r.pc = "insert" /\ r.ten = t /\ r.dom = d
  BY DEF Served
<1>4. hnd' = [hnd EXCEPT ![x] = r]
  BY DEF AddCheck, Request
<1> HIDE DEF r
<1> QED
  BY <1>1, <1>2, <1>3, <1>4, HandlerMoves

LEMMA ReadRowInv ==
    ASSUME IInv, NEW x \in Handlers, NEW i \in Ids, VerifyRead(x, i) \/ DeleteRead(x, i)
    PROVE  IInv'
<1>1. /\ UNCHANGED <<rows, primary, kv, acme, hosts, zone, task, crashes, notifyVars>>
      /\ rows \in [Ids -> Row] /\ primary \in [Tenants -> Domains \cup {NoDomain}]
      /\ kv \in [Domains -> Tenants \cup {NoTenant}]
  BY DEF VerifyRead, DeleteRead, dbVars, envVars, IInv, TypeOK
<1>2. Grows /\ Calm
  BY <1>1, SameRows
<1>3. PICK pc \in {"reset", "dropKv"} : Request(x, pc, i, NoTenant, NoDomain) /\ rows[i].st # "none"
  BY DEF VerifyRead, DeleteRead, Exists
<1> DEFINE r == [pc |-> pc, id |-> i, ten |-> NoTenant, dom |-> NoDomain]
<1>4. r \in Served /\ r.id = i /\ r.pc = pc /\ pc # "insert" /\ hnd' = [hnd EXCEPT ![x] = r]
  BY <1>3 DEF Request, Served
<1> HIDE DEF r
<1> QED
  BY <1>1, <1>2, <1>3, <1>4, HandlerMoves

\* ... and the one that is dropped
LEMMA CancelInv ==
    ASSUME IInv, NEW x \in Handlers, Cancel(x)
    PROVE  IInv'
<1>1. /\ UNCHANGED <<rows, primary, kv, acme, hosts, zone, task, crashes, notifyVars>>
      /\ rows \in [Ids -> Row] /\ primary \in [Tenants -> Domains \cup {NoDomain}]
      /\ kv \in [Domains -> Tenants \cup {NoTenant}]
  BY DEF Cancel, dbVars, envVars, IInv, TypeOK
<1>2. Grows /\ Calm
  BY <1>1, SameRows
<1>3. NoRequest \in Served /\ NoRequest.pc = "free" /\ hnd' = [hnd EXCEPT ![x] = NoRequest]
  BY DEF Cancel, Reply, NoRequest, Served
<1> QED
  BY <1>1, <1>2, <1>3, HandlerMoves

\* The new row is the only one of its domain, for the INSERT found no other.
LEMMA AddInsertInv ==
    ASSUME IInv, NEW x \in Handlers, AddInsert(x)
    PROVE  IInv'
<1>1. /\ hnd[x] \in Served /\ hnd[x].ten \in Tenants /\ hnd[x].dom \in Domains
      /\ rows \in [Ids -> Row]
  BY DEF AddInsert, IInv, RequestOK, TypeOK
<1>2. /\ UNCHANGED <<primary, kv, acme, hosts, zone, task, crashes, notifyVars>>
      /\ primary \in [Tenants -> Domains \cup {NoDomain}]
      /\ kv \in [Domains -> Tenants \cup {NoTenant}]
  BY DEF AddInsert, envVars, IInv, TypeOK
<1>3. CASE Registered(hnd[x].dom)
  <2>1. rows' = rows /\ hnd' = [hnd EXCEPT ![x] = NoRequest] /\ NoRequest \in Served
    BY <1>3 DEF AddInsert, Reply, NoRequest, Served
  <2>2. Grows /\ Calm
    BY <1>2, <2>1, SameRows
  <2>3. NoRequest.pc = "free"
    BY DEF NoRequest
  <2> QED
    BY <1>1, <1>2, <2>1, <2>2, <2>3, HandlerMoves
<1>4. CASE ~Registered(hnd[x].dom)
  <2>1. PICK i \in Ids :
          /\ rows[i].st = "none"
          /\ rows' = [rows EXCEPT ![i] = [@ EXCEPT !.st = "pending", !.ten = hnd[x].ten,
                                                  !.dom = hnd[x].dom]]
          /\ Request(x, "spawn", i, NoTenant, NoDomain)
    BY <1>4 DEF AddInsert
  <2> DEFINE r == [pc |-> "spawn", id |-> i, ten |-> NoTenant, dom |-> NoDomain]
             w == [rows[i] EXCEPT !.st = "pending", !.ten = hnd[x].ten, !.dom = hnd[x].dom]
  <2>2. /\ w \in Row /\ w.st = "pending" /\ w.ten = hnd[x].ten /\ w.dom = hnd[x].dom
        /\ rows' = [rows EXCEPT ![i] = w]
    BY <1>1, <2>1 DEF Row
  <2>3. r \in Served /\ r.pc = "spawn" /\ r.id = i /\ hnd' = [hnd EXCEPT ![x] = r]
    BY <2>1 DEF Request, Served
  <2> HIDE DEF r, w
  <2>4. /\ rows' \in [Ids -> Row] /\ rows'[i] = w
        /\ \A j \in Ids : j # i => rows'[j] = rows[j]
    BY <1>1, <2>2
  <2>5. Grows
    BY <1>2, <2>1, <2>4 DEF Grows
  <2>6. \A j \in Ids : RowOK(j)'
    <3> TAKE j \in Ids
    <3>1. CASE j = i
      BY <1>1, <2>2, <2>4, <3>1 DEF RowOK
    <3>2. CASE j # i
      <4>1. rows'[j] = rows[j] /\ RowOK(j)
        BY <2>4, <3>2 DEF IInv
      <4> QED
        BY <1>2, <4>1 DEF RowOK, Certified
    <3> QED
      BY <3>1, <3>2
  <2>7. OneRowPerDomain'
    <3> SUFFICES ASSUME NEW j \in Ids, NEW l \in Ids, Exists(j)', Exists(l)',
                        rows'[j].dom = rows'[l].dom
                 PROVE  j = l
      BY DEF OneRowPerDomain
    <3>1. \A m \in Ids : m # i /\ Exists(m)' => Exists(m) /\ rows[m].dom # hnd[x].dom
      BY <1>4, <2>4 DEF Exists, Registered
    <3> QED
      BY <2>2, <2>4, <3>1 DEF OneRowPerDomain, IInv
  <2> QED
    BY <1>1, <1>2, <2>2, <2>3, <2>4, <2>5, <2>6, <2>7, HandlerMoves
<1> QED
  BY <1>3, <1>4

LEMMA SpawnInv ==
    ASSUME IInv, NEW x \in Handlers, NEW k \in Tasks, Spawn(x, k)
    PROVE  IInv'
<1>1. hnd[x] \in Served /\ hnd[x].id \in Ids /\ rows[hnd[x].id].st # "none"
  BY ServedRequest DEF Spawn
<1>2. UNCHANGED <<rows, primary, kv, acme, hosts, zone, crashes>> /\ NotifyTypeOK'
  BY SameType DEF Spawn, dbVars, envVars, IInv, TypeOK
<1>3. /\ task' \in [Tasks -> Pipeline]
      /\ \A j \in Tasks : j # k => task'[j] = task[j]
      /\ task'[k].pc = "cname" /\ Id(k)' = hnd[x].id
  BY <1>1 DEF Spawn, NewTask, Pipeline, Running, Polling, Id, IInv, TypeOK
<1>4. /\ hnd' \in [Handlers -> Served]
      /\ \A y \in Handlers : y # x => hnd'[y] = hnd[y]
      /\ hnd'[x].pc = "free"
  BY DEF Spawn, Reply, NoRequest, Served, IInv, TypeOK
<1>5. TypeOK'
  BY <1>2, <1>3, <1>4 DEF IInv, TypeOK
<1>6. TaskOK(k)'
  BY <1>1, <1>2, <1>3 DEF TaskOK, HasHost, HasCert, HasTenant
<1>7. RequestOK(x)'
  BY <1>4 DEF RequestOK
<1>8. Grows /\ Calm
  BY <1>2, SameRows
<1> QED
  BY <1>2, <1>3, <1>4, <1>5, <1>6, <1>7, <1>8, Combine

\* A request that goes on with the same row
LEMMA ProceedRequest ==
    ASSUME IInv, NEW x \in Handlers, hnd[x].pc \notin {"free", "insert"},
           NEW pc \in {"spawn", "dropPrimary", "dropRow"}, Proceed(x, pc)
    PROVE  \E r \in Served : /\ hnd' = [hnd EXCEPT ![x] = r]
                             /\ r.pc = pc /\ r.id = hnd[x].id
<1> DEFINE r == [hnd[x] EXCEPT !.pc = pc]
<1>1. r \in Served /\ r.pc = pc /\ r.id = hnd[x].id
  BY ServedRequest DEF Served
<1>2. hnd' = [hnd EXCEPT ![x] = r]
  BY DEF Proceed, IInv, TypeOK
<1> HIDE DEF r
<1> QED
  BY <1>1, <1>2

LEMMA VerifyResetInv ==
    ASSUME IInv, NEW x \in Handlers, VerifyReset(x)
    PROVE  IInv'
<1>1. hnd[x].pc \notin {"free", "insert"} /\ Proceed(x, "spawn") /\ SetStatus(hnd[x].id, "pending")
  BY DEF VerifyReset
<1>2. hnd[x].id \in Ids /\ rows[hnd[x].id].st # "none"
  BY <1>1, ServedRequest
<1>3. /\ UNCHANGED <<primary, kv, acme, hosts, zone, task, crashes, notifyVars>>
      /\ primary \in [Tenants -> Domains \cup {NoDomain}]
      /\ kv \in [Domains -> Tenants \cup {NoTenant}]
  BY DEF VerifyReset, envVars, IInv, TypeOK
<1>4. Grows /\ Calm /\ rows' \in [Ids -> Row]
  BY <1>1, <1>2, <1>3, SetStatusGrows
<1>5. PICK r \in Served : hnd' = [hnd EXCEPT ![x] = r] /\ r.pc = "spawn" /\ r.id = hnd[x].id
  BY <1>1, ProceedRequest
<1>6. rows'[hnd[x].id].st # "none"
  BY <1>2, <1>4 DEF Grows
<1> QED
  BY <1>2, <1>3, <1>4, <1>5, <1>6, HandlerMoves

LEMMA DeleteRowInv ==
    ASSUME IInv, NEW x \in Handlers, DeleteRow(x)
    PROVE  IInv'
<1>1. /\ hnd[x].pc \notin {"free", "insert"} /\ SetStatus(hnd[x].id, "deleted")
      /\ hnd' = [hnd EXCEPT ![x] = NoRequest] /\ NoRequest \in Served /\ NoRequest.pc = "free"
  BY DEF DeleteRow, Reply, NoRequest, Served
<1>2. hnd[x].id \in Ids /\ rows[hnd[x].id].st # "none"
  BY <1>1, ServedRequest
<1>3. /\ UNCHANGED <<primary, kv, acme, hosts, zone, task, crashes, notifyVars>>
      /\ primary \in [Tenants -> Domains \cup {NoDomain}]
      /\ kv \in [Domains -> Tenants \cup {NoTenant}]
  BY DEF DeleteRow, envVars, IInv, TypeOK
<1>4. Grows /\ Calm /\ rows' \in [Ids -> Row]
  BY <1>1, <1>2, <1>3, SetStatusGrows
<1> QED
  BY <1>1, <1>3, <1>4, HandlerMoves

\* Taking a route away spoils no other.
LEMMA DeleteKvInv ==
    ASSUME IInv, NEW x \in Handlers, DeleteKv(x)
    PROVE  IInv'
<1>1. hnd[x].pc \notin {"free", "insert"} /\ Proceed(x, "dropPrimary")
  BY DEF DeleteKv
<1>2. hnd[x].id \in Ids /\ rows[hnd[x].id].st # "none" /\ rows[hnd[x].id].dom \in Domains
  BY <1>1, ServedRequest
<1>3. /\ UNCHANGED <<rows, primary, acme, hosts, zone, task, crashes, notifyVars>>
      /\ primary \in [Tenants -> Domains \cup {NoDomain}] /\ rows \in [Ids -> Row]
  BY DEF DeleteKv, envVars, IInv, TypeOK
<1>4. Grows /\ Calm
  BY <1>3, SameRows
<1>5. PICK r \in Served : hnd' = [hnd EXCEPT ![x] = r] /\ r.pc = "dropPrimary" /\ r.id = hnd[x].id
  BY <1>1, ProceedRequest
<1>6. /\ kv' \in [Domains -> Tenants \cup {NoTenant}]
      /\ \A d \in Domains : kv'[d] \in {kv[d], NoTenant}
  BY <1>2 DEF DeleteKv, IInv, TypeOK
<1>7. \A t, d : Earned(t, d)' <=> Earned(t, d)
  BY <1>3 DEF Earned, Certified
<1>8. \A d \in Domains : kv'[d] # NoTenant => Earned(kv'[d], d)
  BY <1>6 DEF IInv, RoutesEarned
<1>9. RoutesEarned'
  BY <1>3, <1>7, <1>8 DEF IInv, RoutesEarned
<1> QED
  BY <1>2, <1>3, <1>4, <1>5, <1>6, <1>9, HandlerMoves

LEMMA DeletePrimaryInv ==
    ASSUME IInv, NEW x \in Handlers, DeletePrimary(x)
    PROVE  IInv'
<1>1. hnd[x].pc \notin {"free", "insert"} /\ Proceed(x, "dropRow")
  BY DEF DeletePrimary
<1>2. hnd[x].id \in Ids /\ rows[hnd[x].id].st # "none" /\ rows[hnd[x].id].ten \in Tenants
  BY <1>1, ServedRequest
<1>3. /\ UNCHANGED <<rows, kv, acme, hosts, zone, task, crashes, notifyVars>>
      /\ kv \in [Domains -> Tenants \cup {NoTenant}] /\ rows \in [Ids -> Row]
  BY DEF DeletePrimary, envVars, IInv, TypeOK
<1>4. Grows /\ Calm
  BY <1>3, SameRows
<1>5. PICK r \in Served : hnd' = [hnd EXCEPT ![x] = r] /\ r.pc = "dropRow" /\ r.id = hnd[x].id
  BY <1>1, ProceedRequest
<1>6. /\ primary' \in [Tenants -> Domains \cup {NoDomain}]
      /\ \A t \in Tenants : primary'[t] \in {primary[t], NoDomain}
  BY <1>2 DEF DeletePrimary, IInv, TypeOK
<1>7. \A t, d : Earned(t, d)' <=> Earned(t, d)
  BY <1>3 DEF Earned, Certified
<1>8. \A t \in Tenants : primary'[t] # NoDomain => Earned(t, primary'[t])
  BY <1>6 DEF IInv, RoutesEarned
<1>9. RoutesEarned'
  BY <1>3, <1>7, <1>8 DEF IInv, RoutesEarned
<1> QED
  BY <1>2, <1>3, <1>4, <1>5, <1>6, <1>9, HandlerMoves

-----------------------------------------------------------------------------
(* Cloudflare, the zone, the operator, and restarts *)

\* A certificate is added, a hostname is no longer live: neither loses its domain.
LEMMA HostsInv ==
    ASSUME IInv, NEW h \in Hosts, IssueCert(h) \/ OperatorDeletesHost(h)
    PROVE  IInv'
<1>1. UNCHANGED <<rows, primary, kv, acme, zone, task, hnd, crashes>> /\ NotifyTypeOK'
  BY SameType DEF IssueCert, OperatorDeletesHost, dbVars, IInv, TypeOK
<1>2. /\ hosts' \in [Hosts -> Hostname]
      /\ \A g \in Hosts : hosts'[g].dom = hosts[g].dom /\ (hosts[g].ssl => hosts'[g].ssl)
  <2>1. hosts \in [Hosts -> Hostname]
    BY DEF IInv, TypeOK
  <2>2. CASE IssueCert(h)
    BY <2>1, <2>2 DEF IssueCert, Hostname
  <2>3. CASE OperatorDeletesHost(h)
    BY <2>1, <2>3 DEF OperatorDeletesHost, Hostname
  <2> QED
    BY <2>2, <2>3
<1>3. TypeOK'
  BY <1>1, <1>2 DEF IInv, TypeOK
<1>4. Grows /\ Calm
  BY <1>1, <1>2 DEF Grows, Calm, Exists
<1> QED
  BY <1>1, <1>3, <1>4, Combine

LEMMA PublishTxtInv ==
    ASSUME IInv, NEW i \in Ids, PublishTxt(i)
    PROVE  IInv'
<1>1. UNCHANGED <<rows, primary, kv, acme, hosts, task, hnd, crashes>> /\ NotifyTypeOK'
  BY SameType DEF PublishTxt, dbVars, IInv, TypeOK
<1>2. zone' \in [Domains -> SUBSET Hosts]
  <2>1. rows[i].txt \in Hosts
    BY DEF PublishTxt, IInv, TypeOK, Row
  <2> QED
    BY <2>1 DEF PublishTxt, IInv, TypeOK
<1>3. TypeOK'
  BY <1>1, <1>2 DEF IInv, TypeOK
<1>4. Grows /\ Calm
  BY <1>1, SameRows
<1> QED
  BY <1>1, <1>3, <1>4, Combine

LEMMA DomainStatusInv ==
    ASSUME IInv, NEW i \in Ids, DomainStatus(i)
    PROVE  IInv'
<1>1. UNCHANGED <<rows, primary, kv, hosts, zone, task, hnd, crashes>> /\ NotifyTypeOK'
  BY SameType DEF DomainStatus, envVars, IInv, TypeOK
<1>2. acme' \subseteq {"hostname", "dv"} \X Hosts
  <2>1. rows[i].cf \in Hosts \cup {NoHost}
    BY DEF IInv, TypeOK, Row
  <2> QED
    BY <2>1 DEF DomainStatus, Challenges, IInv, TypeOK
<1>3. TypeOK'
  BY <1>1, <1>2 DEF IInv, TypeOK
<1>4. Grows /\ Calm
  BY <1>1, SameRows
<1> QED
  BY <1>1, <1>3, <1>4, Combine

\* What a restart loses, the pipelines or the key-value table, no fact needs.
LEMMA AppCrashInv ==
    ASSUME IInv, AppCrash
    PROVE  IInv'
<1>1. UNCHANGED <<rows, primary, kv, acme, hosts, zone>> /\ NotifyTypeOK' /\ crashes' \in 0..MaxCrashes
  BY DropType, CustomDomainAssumption DEF AppCrash, dbVars, envVars, IInv, TypeOK
<1>2. /\ task' \in [Tasks -> Pipeline]
      /\ \A k \in Tasks : task'[k] = task[k] \/ task'[k].pc = "lost"
  BY DEF AppCrash, NewTask, Pipeline, Id, IInv, TypeOK
<1>3. hnd' \in [Handlers -> Served] /\ \A x \in Handlers : hnd'[x].pc = "free"
  BY DEF AppCrash, NoRequest, Served
<1>4. TypeOK'
  BY <1>1, <1>2, <1>3 DEF IInv, TypeOK
<1>5. \A k \in Tasks : task'[k] = task[k] \/ TaskOK(k)'
  BY <1>2, IdleOK DEF Running, Polling
<1>6. \A x \in Handlers : RequestOK(x)'
  BY <1>3 DEF RequestOK
<1>7. Grows /\ Calm
  BY <1>1, SameRows
<1> QED
  BY <1>1, <1>4, <1>5, <1>6, <1>7, Combine

LEMMA PgCrashInv ==
    ASSUME IInv, PgCrash
    PROVE  IInv'
<1>1. /\ UNCHANGED <<rows, primary, acme, hosts, zone, task, hnd>> /\ NotifyTypeOK'
      /\ crashes' \in 0..MaxCrashes
  BY DropType, CustomDomainAssumption DEF PgCrash, envVars, IInv, TypeOK
<1>2. kv' \in [Domains -> Tenants \cup {NoTenant}] /\ \A d \in Domains : kv'[d] = NoTenant
  BY DEF PgCrash
<1>3. TypeOK'
  BY <1>1, <1>2 DEF IInv, TypeOK
<1>4. Grows /\ Calm
  BY <1>1, SameRows
<1>5. \A t, d : Earned(t, d)' <=> Earned(t, d)
  BY <1>1 DEF Earned, Certified
<1>6. RoutesEarned'
  BY <1>1, <1>2, <1>5 DEF RoutesEarned, IInv
<1> QED
  BY <1>1, <1>3, <1>4, <1>6, Combine

-----------------------------------------------------------------------------

LEMMA NextInv ==
    ASSUME IInv, [DomainNext]_vars
    PROVE  IInv'
<1>1. CASE UNCHANGED vars
  <2>1. UNCHANGED <<rows, primary, kv, acme, hosts, zone, task, hnd, crashes>> /\ NotifyTypeOK'
    BY <1>1, SameType DEF vars, domainVars, dbVars, envVars, IInv, TypeOK
  <2>2. TypeOK'
    BY <2>1 DEF IInv, TypeOK
  <2>3. Grows /\ Calm
    BY <2>1, SameRows
  <2> QED
    BY <2>1, <2>2, <2>3, Combine
<1>2. ASSUME NEW k \in Tasks, TaskStep(k) \/ TaskFails(k)
      PROVE  IInv'
  BY <1>2, PollCnameInv, TimeoutInv, EndInv, CreateHostInv, StoreOwnershipInv, AnnounceInv,
     MarkSslPendingInv, ReadOwnershipInv, PollTxtInv, PollSslInv, ReadTenantInv, WarmKvInv,
     ActivateInv, NotifyDoneInv, SetPrimaryInv DEF TaskStep
<1>3. ASSUME NEW x \in Handlers, Arrive(x) \/ HandlerStep(x) \/ Cancel(x)
      PROVE  IInv'
  <2>1. CASE Arrive(x)
    <3>1. ASSUME NEW t \in Tenants, NEW d \in Domains, AddCheck(x, t, d)
          PROVE  IInv'
      BY <3>1, AddCheckInv
    <3>2. ASSUME NEW i \in Ids, VerifyRead(x, i) \/ DeleteRead(x, i)
          PROVE  IInv'
      BY <3>2, ReadRowInv
    <3> QED
      BY Zenon, <2>1, <3>1, <3>2 DEF Arrive
  <2>2. CASE HandlerStep(x)
    <3>1. ASSUME NEW k \in Tasks, Spawn(x, k)
          PROVE  IInv'
      BY <3>1, SpawnInv
    <3> QED
      BY Zenon, <2>2, <3>1, AddInsertInv, VerifyResetInv, DeleteKvInv, DeletePrimaryInv,
         DeleteRowInv DEF HandlerStep
  <2>3. CASE Cancel(x)
    BY <2>3, CancelInv
  <2> QED
    BY <1>3, <2>1, <2>2, <2>3
<1>4. ASSUME NEW h \in Hosts, IssueCert(h) \/ OperatorDeletesHost(h)
      PROVE  IInv'
  BY <1>4, HostsInv
<1>5. ASSUME NEW i \in Ids, PublishTxt(i) \/ DomainStatus(i)
      PROVE  IInv'
  BY <1>5, PublishTxtInv, DomainStatusInv
<1> QED
  BY Zenon, <1>1, <1>2, <1>3, <1>4, <1>5, AppCrashInv, PgCrashInv
     DEF DomainNext, DomainStep, FaultlessStep, Fault, Environment

\* The invariant holds of every behaviour.
THEOREM Invariance == Spec => []IInv
<1>1. Init => IInv
  BY InitInv
<1>2. IInv /\ [DomainNext]_vars => IInv'
  BY NextInv
<1> QED
  BY <1>1, <1>2, PTL DEF Spec

\* Every variable keeps its type.
THEOREM TypeCorrect == Spec => []TypeOK
<1>1. IInv => TypeOK
  BY DEF IInv
<1> QED
  BY <1>1, Invariance, PTL

\* However many adds race past the count of add_custom_domain, one row holds a
\* domain.
THEOREM DomainsUnique == Spec => []OneRowPerDomain
<1>1. IInv => OneRowPerDomain
  BY DEF IInv
<1> QED
  BY <1>1, Invariance, PTL

\* However many pipelines, resets, deletes and failures overlap on a row, it is
\* active only with a certificate.
THEOREM ActiveCertified == Spec => []ActiveHasCert
<1>1. IInv => ActiveHasCert
  BY DEF IInv, RowOK, ActiveHasCert
<1> QED
  BY <1>1, Invariance, PTL

\* Requests and key-value entries lead a domain only to a tenant that added it
\* and for which it had a certificate.
THEOREM RoutesCorrect == Spec => []RoutesEarned
<1>1. IInv => RoutesEarned
  BY DEF IInv
<1> QED
  BY <1>1, Invariance, PTL
=============================================================================
