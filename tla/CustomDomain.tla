---------------------------- MODULE CustomDomain ----------------------------
(***************************************************************************)
(* Custom domains: the pipeline verify_and_provision, which runs as a task  *)
(* of its own for every add and every re-verify, and the handlers that add, *)
(* re-verify, inspect and delete a domain while pipelines run.  A step ends *)
(* at an await: one statement, one API call, one poll.                      *)
(***************************************************************************)
EXTENDS PgNotify, Integers

CONSTANTS Tenants, Domains,
          Ids,                      \* custom_domains.id: a UUID, never reused
          Hosts,                    \* custom hostname ids Cloudflare hands out
          Tasks,                    \* bound on the pipelines that run at once
          Handlers,                 \* bound on the requests served at once
          NoTenant, NoDomain, NoId, NoHost,
          MaxCname, MaxTxt, MaxSsl, \* config.provision_*_max_attempts
          MayFail,                  \* statements and API calls may fail
          CfMayOmit,                \* replies may lack ownership_verification:
                                    \* error replies are read as such replies too
          MaxCrashes                \* bound on process and database restarts

ASSUME CustomDomainAssumption ==
    /\ Channels = Ids
    /\ NoTenant \notin Tenants /\ NoDomain \notin Domains
    /\ NoId \notin Ids /\ NoHost \notin Hosts
    /\ MaxCname \in Nat /\ MaxTxt \in Nat /\ MaxSsl \in Nat
    /\ MayFail \in BOOLEAN /\ CfMayOmit \in BOOLEAN
    /\ MaxCrashes \in Nat

VARIABLES rows,     \* custom_domains; a deleted row keeps its last fields
          primary,  \* tenants.primary_domain
          kv,       \* kv_cache, key custom:<domain>
          acme,     \* acme_challenges: the tokens stored
          hosts,    \* Cloudflare's custom hostnames; deleted ones stay listed
          zone,     \* the ownership values in the TXT records of each domain
          task,     \* the pipelines
          hnd,      \* the requests
          crashes

dbVars == <<rows, primary, kv, acme>>
envVars == <<hosts, zone>>
domainVars == <<dbVars, envVars, task, hnd, crashes>>
vars == <<domainVars, notifyVars>>

Polling == {"cname", "txt", "ssl"}
Running == Polling \cup {"create", "store", "refresh", "announce", "mark", "read", "tenant",
                         "kv", "activate", "notify", "primary", "failing"}

\* The ownership value of a hostname is named by the hostname.
Row == [st : {"none", "pending", "ssl_pending", "active", "failed", "deleted"},
        ten : Tenants \cup {NoTenant}, dom : Domains \cup {NoDomain},
        cf : Hosts \cup {NoHost}, txt : Hosts \cup {NoHost}]
Pipeline == [pc : Running \cup {"free", "ok", "error", "lost"}, id : Ids \cup {NoId}, n : Nat,
             cf : Hosts \cup {NoHost}, txt : Hosts \cup {NoHost}, ten : Tenants \cup {NoTenant}]
Served == [pc : {"free", "insert", "spawn", "reset", "dropKv", "dropPrimary", "dropRow"},
           id : Ids \cup {NoId}, ten : Tenants \cup {NoTenant}, dom : Domains \cup {NoDomain}]
Hostname == [dom : Domains \cup {NoDomain}, live : BOOLEAN, ssl : BOOLEAN]

NotifyTypeOK == /\ listening \in [Clients -> Channels \cup {NoChannel}]
                /\ inbox \in [Clients -> Seq({"records", "done", "failed"})]

\* Every variable has its type: no step reads a field that is not there.
TypeOK ==
    /\ rows \in [Ids -> Row]
    /\ primary \in [Tenants -> Domains \cup {NoDomain}]
    /\ kv \in [Domains -> Tenants \cup {NoTenant}]
    /\ acme \subseteq {"hostname", "dv"} \X Hosts
    /\ hosts \in [Hosts -> Hostname]
    /\ zone \in [Domains -> SUBSET Hosts]
    /\ task \in [Tasks -> Pipeline]
    /\ hnd \in [Handlers -> Served]
    /\ crashes \in 0..MaxCrashes
    /\ NotifyTypeOK

NewTask(pc, id) == [pc |-> pc, id |-> id, n |-> 0,
                    cf |-> NoHost, txt |-> NoHost, ten |-> NoTenant]
NoRequest == [pc |-> "free", id |-> NoId, ten |-> NoTenant, dom |-> NoDomain]

Init ==
    /\ rows = [i \in Ids |-> [st |-> "none", ten |-> NoTenant, dom |-> NoDomain,
                              cf |-> NoHost, txt |-> NoHost]]
    /\ primary = [t \in Tenants |-> NoDomain]
    /\ kv = [d \in Domains |-> NoTenant]
    /\ acme = {}
    /\ hosts = [h \in Hosts |-> [dom |-> NoDomain, live |-> FALSE, ssl |-> FALSE]]
    /\ zone = [d \in Domains |-> {}]
    /\ task = [k \in Tasks |-> NewTask("free", NoId)]
    /\ hnd = [x \in Handlers |-> NoRequest]
    /\ crashes = 0
    /\ NotifyInit

-----------------------------------------------------------------------------
(* Statements on custom_domains.  An UPDATE of a deleted row changes nothing *)
(* and succeeds; a fetch_one of it fails.                                    *)

Exists(i) == rows[i].st \notin {"none", "deleted"}
\* faulty: only active rows hold their domains
RegisteredActive(d) == \E i \in Ids : rows[i].st = "active" /\ rows[i].dom = d
Registered(d) == \E i \in Ids : Exists(i) /\ rows[i].dom = d

SetStatus(i, st) == rows' = [rows EXCEPT ![i].st = IF Exists(i) THEN st ELSE @]

Id(k) == task[k].id
Dom(k) == rows[Id(k)].dom
At(k, pc) == task[k].pc = pc
Goto(k, pc) == task' = [task EXCEPT ![k].pc = pc, ![k].n = 0]
End(k, pc) == task' = [task EXCEPT ![k] = NewTask(pc, Id(k))]

-----------------------------------------------------------------------------
(* The pipeline *)

MaxPolls(pc) == CASE pc = "cname" -> MaxCname [] pc = "txt" -> MaxTxt [] pc = "ssl" -> MaxSsl

PollAgain(k) == task' = [task EXCEPT ![k].n = @ + 1]

\* cname_resolves: any answer that mentions the tunnel or an address of Cloudflare
PollCname(k) ==
    /\ At(k, "cname") /\ task[k].n < MaxCname
    /\ Goto(k, "create") \/ PollAgain(k)
    /\ UNCHANGED <<dbVars, envVars, hnd, crashes, notifyVars>>

\* faulty: the row is left as it is
TimeoutOnlyTells(k) ==
    /\ task[k].pc \in Polling /\ task[k].n >= MaxPolls(task[k].pc)
    /\ Goto(k, "failing")
    /\ UNCHANGED <<dbVars, envVars, hnd, crashes, notifyVars>>

\* the attempts of a poll are used up: status failed ...
Timeout(k) ==
    /\ task[k].pc \in Polling /\ task[k].n >= MaxPolls(task[k].pc)
    /\ SetStatus(Id(k), "failed")
    /\ Goto(k, "failing")
    /\ UNCHANGED <<primary, kv, acme, envVars, hnd, crashes, notifyVars>>

\* faulty: nobody is told, ...
NotifyFailedNot(k) ==
    /\ At(k, "failing")
    /\ End(k, "error")
    /\ UNCHANGED <<dbVars, envVars, hnd, crashes, notifyVars>>

\* ... or the wrong thing is
NotifyFailedDone(k) ==
    /\ At(k, "failing")
    /\ Notify(Id(k), "done")
    /\ End(k, "error")
    /\ UNCHANGED <<dbVars, envVars, hnd, crashes>>

\* ... then the notification
NotifyFailed(k) ==
    /\ At(k, "failing")
    /\ Notify(Id(k), "failed")
    /\ End(k, "error")
    /\ UNCHANGED <<dbVars, envVars, hnd, crashes>>

LiveHosts(d) == {h \in Hosts : hosts[h].dom = d /\ hosts[h].live}

\* POST custom_hostnames; on 1406 the existing one is looked up and read again,
\* and the reply to that GET may be an error, too
CreateHost(k) ==
    /\ At(k, "create")
    /\ LET live == LiveHosts(Dom(k))
           next == IF live = {} THEN "store" ELSE "refresh"
       IN  \E h \in IF live # {} THEN live ELSE {g \in Hosts : hosts[g].dom = NoDomain} :
             /\ hosts' = [hosts EXCEPT ![h].dom = Dom(k), ![h].live = TRUE]
             /\ \E v \in IF CfMayOmit THEN {h, NoHost} ELSE {h} :
                  task' = [task EXCEPT ![k].pc = next, ![k].cf = h, ![k].txt = v]
    /\ UNCHANGED <<dbVars, zone, hnd, crashes, notifyVars>>

StoresValue(k) == task[k].txt # NoHost
\* a new hostname's challenge is stored whether or not the value came with it
StoresChallenge(k) == At(k, "store") \/ StoresValue(k)
AfterStore(k) == IF At(k, "refresh") /\ StoresValue(k) THEN "announce" ELSE "mark"

\* faulty: the challenge is stored, the ownership value is not
StoreChallengeOnly(k) ==
    /\ task[k].pc \in {"store", "refresh"}
    /\ acme' = acme \cup {<<"hostname", task[k].cf>>}
    /\ Goto(k, "mark")
    /\ UNCHANGED <<rows, primary, kv, envVars, hnd, crashes, notifyVars>>

\* the ownership value and the hostname's HTTP challenge, when the reply has them:
\* two statements in one step, for nothing here reads that challenge
StoreOwnership(k) ==
    /\ task[k].pc \in {"store", "refresh"}
    /\ rows' = [rows EXCEPT ![Id(k)].txt =
                   IF Exists(Id(k)) /\ StoresValue(k) THEN task[k].txt ELSE @]
    /\ acme' = IF StoresChallenge(k) THEN acme \cup {<<"hostname", task[k].cf>>} ELSE acme
    /\ Goto(k, AfterStore(k))
    /\ UNCHANGED <<primary, kv, envVars, hnd, crashes, notifyVars>>

\* refresh_ownership_info tells the value of the existing hostname at once
Announce(k) ==
    /\ At(k, "announce")
    /\ Notify(Id(k), "records")
    /\ Goto(k, "mark")
    /\ UNCHANGED <<dbVars, envVars, hnd, crashes>>

MarkSslPending(k) ==
    /\ At(k, "mark")
    /\ rows' = [rows EXCEPT ![Id(k)] =
                  IF Exists(Id(k)) THEN [@ EXCEPT !.st = "ssl_pending", !.cf = task[k].cf] ELSE @]
    /\ Goto(k, "read")
    /\ UNCHANGED <<primary, kv, acme, envVars, hnd, crashes, notifyVars>>

\* faulty: the dialog is not told of the record
ReadOwnershipQuietly(k) ==
    /\ At(k, "read") /\ Exists(Id(k))
    /\ task' = [task EXCEPT ![k].pc = "txt", ![k].txt = rows[Id(k)].txt]
    /\ UNCHANGED <<dbVars, envVars, hnd, crashes, notifyVars>>

\* the value to wait for is the one in the row, NULL read as ""
ReadOwnership(k) ==
    /\ At(k, "read") /\ Exists(Id(k))
    /\ task' = [task EXCEPT ![k].pc = "txt", ![k].txt = rows[Id(k)].txt]
    /\ Notify(Id(k), "records")
    /\ UNCHANGED <<dbVars, envVars, hnd, crashes>>

\* txt_record_verified: any answer contains ""
TxtFound(k) == task[k].txt = NoHost \/ task[k].txt \in zone[Dom(k)]

\* faulty: with the record found, the certificate is not waited for
PollTxtIsEnough(k) ==
    /\ At(k, "txt") /\ task[k].n < MaxTxt
    /\ (TxtFound(k) /\ Goto(k, "tenant")) \/ PollAgain(k)
    /\ UNCHANGED <<dbVars, envVars, hnd, crashes, notifyVars>>

\* dig may fail, or not show a record that is there; once it does,
\* trigger_cf_recheck, which changes nothing here
PollTxt(k) ==
    /\ At(k, "txt") /\ task[k].n < MaxTxt
    /\ (TxtFound(k) /\ Goto(k, "ssl")) \/ PollAgain(k)
    /\ UNCHANGED <<dbVars, envVars, hnd, crashes, notifyVars>>

\* what a GET of a hostname shows: validation records while it has no
\* certificate, and nothing once it is deleted
Challenges(h) == IF h # NoHost /\ hosts[h].live /\ ~hosts[h].ssl THEN {<<"dv", h>>} ELSE {}
\* faulty: a hostname that exists is taken for one with a certificate
SslExists(h) == hosts[h].live
SslActive(h) == hosts[h].live /\ hosts[h].ssl

\* check_cf_ssl_status: a reply that is no hostname means "not yet", and shows
\* nothing to store
PollSsl(k) ==
    /\ At(k, "ssl") /\ task[k].n < MaxSsl
    /\ \/ SslActive(task[k].cf) /\ Goto(k, "tenant") /\ UNCHANGED acme
       \/ PollAgain(k) /\ \E shown \in {{}, Challenges(task[k].cf)} : acme' = acme \cup shown
    /\ UNCHANGED <<rows, primary, kv, envVars, hnd, crashes, notifyVars>>

ReadTenant(k) ==
    /\ At(k, "tenant") /\ Exists(Id(k))
    /\ task' = [task EXCEPT ![k].pc = "kv", ![k].ten = rows[Id(k)].ten]
    /\ UNCHANGED <<dbVars, envVars, hnd, crashes, notifyVars>>

\* fetch_one finds no row
RowGone(k) ==
    /\ task[k].pc \in {"read", "tenant"} /\ ~Exists(Id(k))
    /\ End(k, "error")
    /\ UNCHANGED <<dbVars, envVars, hnd, crashes, notifyVars>>

WarmKv(k) ==
    /\ At(k, "kv")
    /\ kv' = [kv EXCEPT ![Dom(k)] = task[k].ten]
    /\ Goto(k, "activate")
    /\ UNCHANGED <<rows, primary, acme, envVars, hnd, crashes, notifyVars>>

Activate(k) ==
    /\ At(k, "activate")
    /\ SetStatus(Id(k), "active")
    /\ Goto(k, "notify")
    /\ UNCHANGED <<primary, kv, acme, envVars, hnd, crashes, notifyVars>>

NotifyDone(k) ==
    /\ At(k, "notify")
    /\ Notify(Id(k), "done")
    /\ Goto(k, "primary")
    /\ UNCHANGED <<dbVars, envVars, hnd, crashes>>

SetPrimary(k) ==
    /\ At(k, "primary")
    /\ primary' = [primary EXCEPT ![task[k].ten] = Dom(k)]
    /\ End(k, "ok")
    /\ UNCHANGED <<rows, kv, acme, envVars, hnd, crashes, notifyVars>>

\* any `?`: the spawned block logs the error, and that is all
TaskFails(k) ==
    /\ MayFail
    /\ task[k].pc \in Running
    /\ End(k, "error")
    /\ UNCHANGED <<dbVars, envVars, hnd, crashes, notifyVars>>

-----------------------------------------------------------------------------
(* The handlers *)

Request(x, pc, i, t, d) == hnd' = [hnd EXCEPT ![x] = [pc |-> pc, id |-> i, ten |-> t, dom |-> d]]
Reply(x) == hnd' = [hnd EXCEPT ![x] = NoRequest]
Proceed(x, pc) == hnd' = [hnd EXCEPT ![x].pc = pc]

\* add_custom_domain: SELECT COUNT(*), by any tenant ...
AddCheck(x, t, d) ==
    /\ hnd[x].pc = "free" /\ ~Registered(d)
    /\ Request(x, "insert", NoId, t, d)
    /\ UNCHANGED <<dbVars, envVars, task, crashes, notifyVars>>

\* faulty: the INSERT binds its parameters in the wrong order
AddInsertSwapped(x) ==
    /\ hnd[x].pc = "insert" /\ ~Registered(hnd[x].dom)
    /\ \E i \in Ids :
         /\ rows[i].st = "none"
         /\ rows' = [rows EXCEPT ![i] = [@ EXCEPT !.st = "pending", !.ten = hnd[x].dom,
                                                 !.dom = hnd[x].ten]]
         /\ Request(x, "spawn", i, NoTenant, NoDomain)
    /\ UNCHANGED <<primary, kv, acme, envVars, task, crashes, notifyVars>>

\* faulty: ON CONFLICT, the row goes to the new tenant
AddInsertTakesOver(x) ==
    /\ hnd[x].pc = "insert"
    /\ \E i \in Ids :
         /\ IF Registered(hnd[x].dom) THEN Exists(i) /\ rows[i].dom = hnd[x].dom
                                      ELSE rows[i].st = "none"
         /\ rows' = [rows EXCEPT ![i] = [@ EXCEPT !.st = "pending", !.ten = hnd[x].ten,
                                                 !.dom = hnd[x].dom]]
         /\ Request(x, "spawn", i, NoTenant, NoDomain)
    /\ UNCHANGED <<primary, kv, acme, envVars, task, crashes, notifyVars>>

\* ... INSERT, under the unique constraint on domain ...
AddInsert(x) ==
    /\ hnd[x].pc = "insert"
    /\ IF Registered(hnd[x].dom)
         THEN Reply(x) /\ UNCHANGED rows
         ELSE \E i \in Ids :
                /\ rows[i].st = "none"
                /\ rows' = [rows EXCEPT ![i] = [@ EXCEPT !.st = "pending", !.ten = hnd[x].ten,
                                                        !.dom = hnd[x].dom]]
                /\ Request(x, "spawn", i, NoTenant, NoDomain)
    /\ UNCHANGED <<primary, kv, acme, envVars, task, crashes, notifyVars>>

\* ... and, for an add and a re-verify alike, tokio::spawn and the reply
Spawn(x, k) ==
    /\ hnd[x].pc = "spawn" /\ task[k].pc \notin Running
    /\ task' = [task EXCEPT ![k] = NewTask("cname", hnd[x].id)]
    /\ Reply(x)
    /\ UNCHANGED <<dbVars, envVars, crashes, notifyVars>>

\* verify_domain reads the row, and does nothing to it when it is active ...
VerifyRead(x, i) ==
    /\ hnd[x].pc = "free" /\ Exists(i) /\ rows[i].st # "active"
    /\ Request(x, "reset", i, NoTenant, NoDomain)
    /\ UNCHANGED <<dbVars, envVars, task, crashes, notifyVars>>

VerifyReset(x) ==
    /\ hnd[x].pc = "reset"
    /\ SetStatus(hnd[x].id, "pending")
    /\ Proceed(x, "spawn")
    /\ UNCHANGED <<primary, kv, acme, envVars, task, crashes, notifyVars>>

\* delete_domain finds the row, then takes three statements
DeleteRead(x, i) ==
    /\ hnd[x].pc = "free" /\ Exists(i)
    /\ Request(x, "dropKv", i, NoTenant, NoDomain)
    /\ UNCHANGED <<dbVars, envVars, task, crashes, notifyVars>>

DeleteKv(x) ==
    /\ hnd[x].pc = "dropKv"
    /\ kv' = [kv EXCEPT ![rows[hnd[x].id].dom] = NoTenant]
    /\ Proceed(x, "dropPrimary")
    /\ UNCHANGED <<rows, primary, acme, envVars, task, crashes, notifyVars>>

DeletePrimary(x) ==
    /\ hnd[x].pc = "dropPrimary"
    /\ LET r == rows[hnd[x].id]
       IN  primary' = [primary EXCEPT ![r.ten] = IF @ = r.dom THEN NoDomain ELSE @]
    /\ Proceed(x, "dropRow")
    /\ UNCHANGED <<rows, kv, acme, envVars, task, crashes, notifyVars>>

DeleteRow(x) ==
    /\ hnd[x].pc = "dropRow"
    /\ SetStatus(hnd[x].id, "deleted")
    /\ Reply(x)
    /\ UNCHANGED <<primary, kv, acme, envVars, task, crashes, notifyVars>>

\* domain_status shows Cloudflare's view and stores the challenges it finds
DomainStatus(i) ==
    /\ Exists(i)
    /\ acme' = acme \cup Challenges(rows[i].cf)
    /\ UNCHANGED <<rows, primary, kv, envVars, task, hnd, crashes, notifyVars>>

\* a statement fails, or axum drops the future of a browser that left
Cancel(x) ==
    /\ MayFail
    /\ hnd[x].pc # "free"
    /\ Reply(x)
    /\ UNCHANGED <<dbVars, envVars, task, crashes, notifyVars>>

-----------------------------------------------------------------------------
(* Cloudflare, the customer's zone, the operator, and restarts *)

\* the certificate authority fetches the challenge this program stored
IssueCert(h) ==
    /\ hosts[h].live /\ ~hosts[h].ssl /\ <<"dv", h>> \in acme
    /\ hosts' = [hosts EXCEPT ![h].ssl = TRUE]
    /\ UNCHANGED <<dbVars, zone, task, hnd, crashes, notifyVars>>

\* the tenant, told the value, adds it to the zone of the domain
PublishTxt(i) ==
    /\ Exists(i) /\ rows[i].txt # NoHost /\ rows[i].txt \notin zone[rows[i].dom]
    /\ zone' = [zone EXCEPT ![rows[i].dom] = @ \cup {rows[i].txt}]
    /\ UNCHANGED <<dbVars, hosts, task, hnd, crashes, notifyVars>>

\* docs/CUSTOM_DOMAIN_TROUBLESHOOTING.md has operators delete the hostname
OperatorDeletesHost(h) ==
    /\ MayFail
    /\ hosts[h].live
    /\ hosts' = [hosts EXCEPT ![h].live = FALSE]
    /\ UNCHANGED <<dbVars, zone, task, hnd, crashes, notifyVars>>

AppCrash ==
    /\ crashes < MaxCrashes
    /\ crashes' = crashes + 1
    /\ task' = [k \in Tasks |-> IF task[k].pc \in Running THEN NewTask("lost", Id(k)) ELSE task[k]]
    /\ hnd' = [x \in Handlers |-> NoRequest]
    /\ DropSessions
    /\ UNCHANGED <<dbVars, envVars>>

PgCrash ==
    /\ crashes < MaxCrashes
    /\ crashes' = crashes + 1
    /\ kv' = [d \in Domains |-> NoTenant]
    /\ DropSessions
    /\ UNCHANGED <<rows, primary, acme, envVars, task, hnd>>

-----------------------------------------------------------------------------

TaskStep(k) ==
    \/ PollCname(k) \/ Timeout(k) \/ NotifyFailed(k) \/ CreateHost(k)
    \/ StoreOwnership(k) \/ Announce(k) \/ MarkSslPending(k) \/ ReadOwnership(k)
    \/ PollTxt(k) \/ PollSsl(k) \/ ReadTenant(k) \/ RowGone(k) \/ WarmKv(k) \/ Activate(k)
    \/ NotifyDone(k) \/ SetPrimary(k)

HandlerStep(x) ==
    \/ AddInsert(x) \/ (\E k \in Tasks : Spawn(x, k)) \/ VerifyReset(x)
    \/ DeleteKv(x) \/ DeletePrimary(x) \/ DeleteRow(x)

Arrive(x) == \/ \E t \in Tenants, d \in Domains : AddCheck(x, t, d)
             \/ \E i \in Ids : VerifyRead(x, i) \/ DeleteRead(x, i)

Environment == \/ \E h \in Hosts : IssueCert(h)
               \/ \E i \in Ids : PublishTxt(i) \/ DomainStatus(i)

\* when nothing fails
FaultlessStep == \/ \E k \in Tasks : TaskStep(k)
                 \/ \E x \in Handlers : Arrive(x) \/ HandlerStep(x)
                 \/ Environment

Fault == \/ \E k \in Tasks : TaskFails(k)
         \/ \E x \in Handlers : Cancel(x)
         \/ \E h \in Hosts : OperatorDeletesHost(h)

DomainStep == FaultlessStep \/ Fault
DomainNext == DomainStep \/ AppCrash \/ PgCrash

Spec == Init /\ [][DomainNext]_vars
FaultlessSpec == Init /\ [][FaultlessStep]_vars

\* tokio polls every ready task and handler; every poll and call returns
Fairness == /\ \A k \in Tasks : WF_vars(TaskStep(k))
            /\ \A x \in Handlers : WF_vars(HandlerStep(x))

FairSpec == Spec /\ Fairness

-----------------------------------------------------------------------------
(* The rows, the records and the routes, seen from outside: see DomainRegistry *)

Certified(d) == \E h \in Hosts : hosts[h].dom = d /\ hosts[h].ssl

Held == {<<rows[i].ten, rows[i].dom>> : i \in {j \in Ids : rows[j].st # "none"}}
Holding == {<<rows[i].ten, rows[i].dom>> : i \in {j \in Ids : Exists(j)}}
CertifiedDomains == {d \in Domains : Certified(d)}
ShownDomains == {d \in Domains : zone[d] # {}}
ActiveDomains == {rows[i].dom : i \in {j \in Ids : rows[j].st = "active"}}

Registry == INSTANCE DomainRegistry
    WITH OwnersShow <- ~CfMayOmit,
         held <- Held, holding <- Holding, certified <- CertifiedDomains,
         shown <- ShownDomains, active <- ActiveDomains, lookup <- kv, home <- primary

-----------------------------------------------------------------------------
(* Properties *)

\* Custom domains implement the registry: whatever overlaps, fails or restarts,
\* a domain changes hands only through a deletion, and each activation and each
\* route that a pipeline writes, long after it read the row, is one the registry
\* allows at that moment.
ImplementsRegistry == Registry!Spec

\* At most one row holds a domain, though two adds may both have counted none.
OneRowPerDomain ==
    \A i, j \in Ids : Exists(i) /\ Exists(j) /\ rows[i].dom = rows[j].dom => i = j

\* A row is active only when Cloudflare had issued a certificate for its domain,
\* whichever of the pipelines on the row made it so, and whatever the others,
\* the resets of re-verify and the operator did in between.
ActiveHasCert == \A i \in Ids : rows[i].st = "active" => Certified(rows[i].dom)

\* A row is active only when an ownership value was published in its zone,
\* provided Cloudflare's replies carry the value (not with CfMayOmit, for then the
\* value waited for may be the empty one).
ActiveIsOwned ==
    ~CfMayOmit => \A i \in Ids : rows[i].st = "active" => zone[rows[i].dom] # {}

Earned(t, d) == /\ \E i \in Ids : rows[i].ten = t /\ rows[i].dom = d
                /\ Certified(d)

\* Requests are sent to a primary domain, and the key-value entry of a domain
\* names a tenant, only if that very tenant had added the domain and the domain
\* had its certificate: no race hands a domain to a tenant that never held it.
RoutesEarned ==
    /\ \A t \in Tenants : primary[t] # NoDomain => Earned(t, primary[t])
    /\ \A d \in Domains : kv[d] # NoTenant => Earned(kv[d], d)

\* where a pipeline has yet to set the status it ends with
Settling == Running \ {"failing", "notify", "primary"}

\* Without failures a row in progress is someone's work: a pipeline that has yet to
\* settle it runs on it, or a request is about to spawn one.  Whoever takes a row
\* back into progress, even from active, goes on with it.
WorkedOn ==
    \A i \in Ids : rows[i].st \in {"pending", "ssl_pending"} =>
        \/ \E k \in Tasks : task[k].pc \in Settling /\ Id(k) = i
        \/ \E x \in Handlers : hnd[x].pc = "spawn" /\ hnd[x].id = i

\* Without failures no row stays in progress: however many pipelines and
\* re-verifies overlap on it, it becomes active or failed, or is deleted.
RowSettles ==
    \A i \in Ids : rows[i].st \in {"pending", "ssl_pending"}
                      ~> rows[i].st \in {"active", "failed", "deleted"}

\* handlers/domains.rs:286 "delete from kv_cache too" and 298 "clear primary
\* domain if this was it": nothing leads to a domain that is deleted.
DeleteIsComplete ==
    \A i \in Ids : rows[i].st = "deleted" /\ ~Registered(rows[i].dom) =>
        kv[rows[i].dom] = NoTenant /\ primary[rows[i].ten] # rows[i].dom
=============================================================================
