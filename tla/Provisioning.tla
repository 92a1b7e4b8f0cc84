---------------------------- MODULE Provisioning ----------------------------
(***************************************************************************)
(* Sign-up: the handler of POST /api/register and the background task it    *)
(* spawns, one registration attempt per member of Tenants.  A step is one   *)
(* statement sent to Postgres or one call to the Cloudflare API: between    *)
(* two of them the handler or task is suspended at an await and any other   *)
(* may run.                                                                 *)
(***************************************************************************)
EXTENDS PgNotify, Integers

CONSTANTS Tenants,      \* registration attempts, named by the row they insert
          Subdomains,
          Reserved,     \* names refused: empty, dotted, of bad length, blocked
          NoTenant, NoName,
          Foreign,      \* names with a DNS record this program did not create
          Mock,         \* config.mock_cloudflare
          MayFail,      \* database and API calls may fail
          MaxCrashes    \* bound on process and database restarts

ASSUME ProvisioningAssumption ==
    /\ Channels = Tenants
    /\ NoTenant \notin Tenants /\ NoName \notin Subdomains
    /\ Reserved \subseteq Subdomains /\ Foreign \subseteq Subdomains
    /\ Mock \in BOOLEAN /\ MayFail \in BOOLEAN /\ MaxCrashes \in Nat

VARIABLES reg,      \* how far each POST /api/register got
          sub,      \* tenants.subdomain of the row, or the requested name
          tenant,   \* tenants.status, "none" while there is no row
          owner,    \* the owner user's row exists
          prov,     \* how far the provisioning task got
          dns,      \* Cloudflare's record of a name: "absent", "tunnel", "other"
          kv,       \* kv_cache, key subdomain:<name>
          crashes

provVars == <<reg, sub, tenant, owner, prov, dns, kv, crashes>>
vars == <<provVars, notifyVars>>

Running == {"dns", "kv", "activate", "notify"}
Handling == {"valid", "inserted", "owned"}

TypeOK ==
    /\ reg \in [Tenants -> Handling \cup {"idle", "accepted", "rejected", "aborted"}]
    /\ sub \in [Tenants -> Subdomains \cup {NoName}]
    /\ tenant \in [Tenants -> {"none", "pending", "active", "failed"}]
    /\ owner \in [Tenants -> BOOLEAN]
    /\ prov \in [Tenants -> Running \cup {"none", "done", "error", "lost"}]
    /\ dns \in [Subdomains -> {"absent", "tunnel", "other"}]
    /\ kv \in [Subdomains -> Tenants \cup {NoTenant}]
    /\ crashes \in 0..MaxCrashes
    /\ listening \in [Clients -> Channels \cup {NoChannel}]
    /\ inbox \in [Clients -> Seq({"done"})]

Init == /\ reg = [t \in Tenants |-> "idle"]
        /\ sub = [t \in Tenants |-> NoName]
        /\ tenant = [t \in Tenants |-> "none"]
        /\ owner = [t \in Tenants |-> FALSE]
        /\ prov = [t \in Tenants |-> "none"]
        /\ dns = [s \in Subdomains |-> IF s \in Foreign THEN "other" ELSE "absent"]
        /\ kv = [s \in Subdomains |-> NoTenant]
        /\ crashes = 0
        /\ NotifyInit

Rows == {t \in Tenants : tenant[t] # "none"}
\* faulty: only active tenants hold their names
TakenByActive(s) == \E t \in Rows : sub[t] = s /\ tenant[t] = "active"
Taken(s) == \E t \in Rows : sub[t] = s

-----------------------------------------------------------------------------
(* The handler *)

\* a request passes, or is refused by, the rate limit (see RateLimit) and the
\* validation of its name
Submit(t, s) ==
    /\ reg[t] = "idle"
    /\ sub' = [sub EXCEPT ![t] = s]
    /\ \/ reg' = [reg EXCEPT ![t] = "rejected"]
       \/ s \notin Reserved /\ reg' = [reg EXCEPT ![t] = "valid"]
    /\ UNCHANGED <<tenant, owner, prov, dns, kv, crashes, notifyVars>>

\* INSERT INTO tenants, under the unique constraint on subdomain
InsertTenant(t) ==
    /\ reg[t] = "valid"
    /\ IF Taken(sub[t])
         THEN /\ reg' = [reg EXCEPT ![t] = "rejected"]
              /\ UNCHANGED tenant
         ELSE /\ reg' = [reg EXCEPT ![t] = "inserted"]
              /\ tenant' = [tenant EXCEPT ![t] = "pending"]
    /\ UNCHANGED <<sub, owner, prov, dns, kv, crashes, notifyVars>>

\* INSERT INTO users
InsertUser(t) ==
    /\ reg[t] = "inserted"
    /\ reg' = [reg EXCEPT ![t] = "owned"]
    /\ owner' = [owner EXCEPT ![t] = TRUE]
    /\ UNCHANGED <<sub, tenant, prov, dns, kv, crashes, notifyVars>>

\* faulty: the task is spawned before the owner is stored
SpawnEarly(t) ==
    /\ reg[t] \in {"inserted", "owned"}
    /\ reg' = [reg EXCEPT ![t] = "accepted"]
    /\ prov' = [prov EXCEPT ![t] = "dns"]
    /\ UNCHANGED <<sub, tenant, owner, dns, kv, crashes, notifyVars>>

\* tokio::spawn and the reply, with no await between them
Spawn(t) ==
    /\ reg[t] = "owned"
    /\ reg' = [reg EXCEPT ![t] = "accepted"]
    /\ prov' = [prov EXCEPT ![t] = "dns"]
    /\ UNCHANGED <<sub, tenant, owner, dns, kv, crashes, notifyVars>>

\* faulty: the row of a sign-up that is cut short is removed, its task may run
AbortRemoves(t) ==
    /\ reg[t] \in {"inserted", "owned", "accepted"}
    /\ reg' = [reg EXCEPT ![t] = "aborted"]
    /\ tenant' = [tenant EXCEPT ![t] = "none"]
    /\ UNCHANGED <<sub, owner, prov, dns, kv, crashes, notifyVars>>

\* a statement fails, or the browser leaves and axum drops the handler's
\* future at an await: the rows already inserted stay
Abort(t) ==
    /\ MayFail
    /\ reg[t] \in Handling
    /\ reg' = [reg EXCEPT ![t] = "aborted"]
    /\ UNCHANGED <<sub, tenant, owner, prov, dns, kv, crashes, notifyVars>>

-----------------------------------------------------------------------------
(* The task *)

\* Cloudflare answers 81057 when the name has a record, and keeps that record
DnsRecord(s) == IF Mock \/ dns[s] # "absent" THEN dns[s] ELSE "tunnel"

\* faulty: with the mock, the task returns here
CreateDnsReturns(t) ==
    /\ prov[t] = "dns"
    /\ dns' = [dns EXCEPT ![sub[t]] = DnsRecord(sub[t])]
    /\ prov' = [prov EXCEPT ![t] = IF Mock THEN "done" ELSE "kv"]
    /\ UNCHANGED <<reg, sub, tenant, owner, kv, crashes, notifyVars>>

CreateDns(t) ==
    /\ prov[t] = "dns"
    /\ dns' = [dns EXCEPT ![sub[t]] = DnsRecord(sub[t])]
    /\ prov' = [prov EXCEPT ![t] = "kv"]
    /\ UNCHANGED <<reg, sub, tenant, owner, kv, crashes, notifyVars>>

\* the record was created but its reply was lost or could not be parsed
DnsReplyLost(t) ==
    /\ MayFail /\ ~Mock
    /\ prov[t] = "dns"
    /\ dns' = [dns EXCEPT ![sub[t]] = DnsRecord(sub[t])]
    /\ prov' = [prov EXCEPT ![t] = "error"]
    /\ UNCHANGED <<reg, sub, tenant, owner, kv, crashes, notifyVars>>

\* faulty: the name is stored in the place of the tenant ...
WarmKvSwapped(t) ==
    /\ prov[t] = "kv"
    /\ kv' = [kv EXCEPT ![sub[t]] = sub[t]]
    /\ prov' = [prov EXCEPT ![t] = "activate"]
    /\ UNCHANGED <<reg, sub, tenant, owner, dns, crashes, notifyVars>>

\* ... or set_tenant_active is forgotten
WarmKvLast(t) ==
    /\ prov[t] = "kv"
    /\ kv' = [kv EXCEPT ![sub[t]] = t]
    /\ prov' = [prov EXCEPT ![t] = "notify"]
    /\ UNCHANGED <<reg, sub, tenant, owner, dns, crashes, notifyVars>>

WarmKv(t) ==
    /\ prov[t] = "kv"
    /\ kv' = [kv EXCEPT ![sub[t]] = t]
    /\ prov' = [prov EXCEPT ![t] = "activate"]
    /\ UNCHANGED <<reg, sub, tenant, owner, dns, crashes, notifyVars>>

\* set_tenant_active
Activate(t) ==
    /\ prov[t] = "activate"
    /\ tenant' = [tenant EXCEPT ![t] = "active"]
    /\ prov' = [prov EXCEPT ![t] = "notify"]
    /\ UNCHANGED <<reg, sub, owner, dns, kv, crashes, notifyVars>>

NotifyDone(t) ==
    /\ prov[t] = "notify"
    /\ prov' = [prov EXCEPT ![t] = "done"]
    /\ Notify(t, "done")
    /\ UNCHANGED <<reg, sub, tenant, owner, dns, kv, crashes>>

\* faulty: the row goes when the task fails, what the task made stays
TaskRollsBack(t) ==
    /\ prov[t] \in Running
    /\ prov' = [prov EXCEPT ![t] = "error"]
    /\ tenant' = [tenant EXCEPT ![t] = "none"]
    /\ UNCHANGED <<reg, sub, owner, dns, kv, crashes, notifyVars>>

\* any other `?` of provision(): run() logs the error, and that is all
TaskFails(t) ==
    /\ MayFail
    /\ prov[t] \in Running
    /\ prov' = [prov EXCEPT ![t] = "error"]
    /\ UNCHANGED <<reg, sub, tenant, owner, dns, kv, crashes, notifyVars>>

-----------------------------------------------------------------------------
(* Restarts: nothing in src/ resumes a handler or a task *)

AppCrash ==
    /\ crashes < MaxCrashes
    /\ crashes' = crashes + 1
    /\ reg' = [t \in Tenants |-> IF reg[t] \in Handling THEN "aborted" ELSE reg[t]]
    /\ prov' = [t \in Tenants |-> IF prov[t] \in Running THEN "lost" ELSE prov[t]]
    /\ DropSessions
    /\ UNCHANGED <<sub, tenant, owner, dns, kv>>

\* kv_cache is UNLOGGED: Postgres empties it when it recovers from a crash
PgCrash ==
    /\ crashes < MaxCrashes
    /\ crashes' = crashes + 1
    /\ kv' = [s \in Subdomains |-> NoTenant]
    /\ DropSessions
    /\ UNCHANGED <<reg, sub, tenant, owner, prov, dns>>

-----------------------------------------------------------------------------

HandlerStep(t) == InsertTenant(t) \/ InsertUser(t) \/ Spawn(t)
TaskStep(t) == CreateDns(t) \/ WarmKv(t) \/ Activate(t) \/ NotifyDone(t)

SignUpStep(t) == \/ \E s \in Subdomains : Submit(t, s)
                 \/ HandlerStep(t) \/ Abort(t)
                 \/ TaskStep(t) \/ DnsReplyLost(t) \/ TaskFails(t)

ProvNext == (\E t \in Tenants : SignUpStep(t)) \/ AppCrash \/ PgCrash

\* tokio polls every ready handler and task, and Postgres and Cloudflare answer
Fairness == \A t \in Tenants : WF_vars(HandlerStep(t)) /\ WF_vars(TaskStep(t))

Spec == Init /\ [][ProvNext]_vars
FairSpec == Spec /\ Fairness

-----------------------------------------------------------------------------
(* Properties *)

\* What get_tenant_id_by_subdomain answers for a name
Resolved(s) == {t \in Tenants : tenant[t] = "active" /\ sub[t] = s}

\* An active tenant can be used: it has an owner who can log in, a DNS record
\* that leads to the tunnel unless the name had one before, and no other
\* tenant answers to its name.  Each fact was made by a different statement of
\* two tasks, with failures in between.
ActiveIsComplete ==
    \A t \in Tenants : tenant[t] = "active" =>
        /\ owner[t]
        /\ Mock \/ sub[t] \in Foreign \/ dns[sub[t]] = "tunnel"
        /\ Resolved(sub[t]) = {t}

\* The key-value entry of a name, when it is there, names the tenant whose row
\* holds the name, whatever attempts for the same name overlapped.
KvNamesHolder ==
    \A s \in Subdomains : kv[s] # NoTenant => {t \in Rows : sub[t] = s} = {kv[s]}

\* A record this program created belongs to a name some tenant with an owner
\* holds: no record outlives, or comes before, its claim.
NoOrphanDns ==
    \A s \in Subdomains : dns[s] = "tunnel" => \E t \in Rows : sub[t] = s /\ owner[t]

\* A tenant that is not active is owed more work by its handler or its task, or
\* one of the two was cut short: no task ends, and no handler replies, leaving
\* behind a pending tenant that nothing is about.  The first half of Provisioned.
Owed(t) == reg[t] \in {"inserted", "owned"} \/ prov[t] \in {"dns", "kv", "activate"}
CutShort(t) == reg[t] = "aborted" \/ prov[t] \in {"error", "lost"}
NothingForgotten == \A t \in Rows : tenant[t] = "active" \/ Owed(t) \/ CutShort(t)

\* Without failures and crashes, a name once claimed is served in the end, by
\* the tenant that claimed it.
Provisioned == \A t \in Tenants : reg[t] = "inserted" ~> t \in Resolved(sub[t])

\* The registrations, seen from outside: see SubdomainDirectory
Directory == INSTANCE SubdomainDirectory
               WITH claims <- {<<sub[t], t>> : t \in Rows},
                    served <- {<<sub[t], t>> : t \in {u \in Rows : tenant[u] = "active"}}

\* Sign-up implements the directory of names: whatever interleaves or fails, a
\* name goes to one tenant at most, stays with it, and is served to no other.
ImplementsDirectory == Directory!Spec
=============================================================================
