# Tenant provisioning: TLA+ models, checks and proofs

The program signs tenants up, provisions a subdomain for each through the Cloudflare API, lets tenants
attach their own domains, and tells browsers about progress over server-sent events. It is one Rust
process (axum on tokio) with Postgres. This directory models its own logic: what its handlers and
background tasks do between two awaits, what can happen at each await, and what must hold all the same.
Paths are relative to the repository (`src/services/...` is Rust, `migrations/...` SQL, `static/...` pages).

## 1. Inventory

| Part | State | Operations | Interacts with |
|---|---|---|---|
| Sign-up, `handlers/auth.rs` `register`, `db/mod.rs` | `tenants`, `users` | validate, insert tenant, insert user, spawn the task | rate limiter; provisioning task (spawn, no handle kept) |
| Provisioning task, `services/provisioning.rs` | `tenants.status`, `kv_cache`, DNS records at Cloudflare | create DNS record or mock it, warm `kv_cache`, mark active, `pg_notify` | Cloudflare; status stream (NOTIFY) |
| Status stream, `handlers/provisioning.rs`, `static/status.html` | a listener and a forwarding task per open stream | query, LISTEN, forward until `done:` | provisioning task (shared row, NOTIFY) |
| Custom domain pipeline, `services/custom_domain.rs` | `custom_domains`, `acme_challenges`, `kv_cache`, `tenants.primary_domain`, hostnames at Cloudflare | poll CNAME, create hostname (or take over the existing one), store and announce the ownership value, poll TXT, poll SSL, warm, activate, notify, set primary | its own row, which handlers and other pipelines write too |
| Domain handlers, `handlers/domains.rs` | the same tables | add, verify (reset and a second pipeline), delete, status (stores challenges), list | pipelines (spawn, shared rows) |
| Domain stream, `handlers/domains.rs`, `static/dashboard.html` | a listener and a forwarding task per open stream | query, re-send `records`, LISTEN, forward | pipelines |
| Rate limiter, `services/rate_limit.rs` | `rate_limits` (unlogged) | one upsert per register or login | Postgres' clock and row locks |
| Tenant resolver, `middleware/tenant.rs`, `state.rs` | two `DashMap` caches per process | resolve a host, redirect to the primary domain | tables above; `delete_domain` clears one cache |
| Login, sessions, JWT, `handlers/auth.rs`, `services/jwt.rs` | `sessions` | find the owner by email, compare the hash, store a session, issue a token; `me` | sign-up's tables, rate limiter |
| What all share, `main.rs`, `state.rs` | tokio's threads, the pool's connections, the shards of the caches | poll a task, take a connection, take a shard's lock | everything above |
| Pages, health, redirects, configuration, start-up | none of its own | | resolver's tables |

What is hard in it:

* **Interleaving at every await.** A handler or task is suspended at each statement and call. Several
  pipelines may work on one row (every re-verify starts another), next to deletes and resets.
* **No transactions, no compensation.** Each statement commits by itself. When one of several fails, what
  was done stays; errors of tasks are logged only.
* **Crashes.** Tasks are not persisted and nobody resumes them. `kv_cache` and `rate_limits` are unlogged
  and emptied when Postgres recovers.
* **Lost notifications.** NOTIFY reaches the sessions that listen at that moment. Both streams query
  first and LISTEN afterwards.
* **Stale decisions.** `verify_domain` and `add_custom_domain` decide on values read before another await.
* **Waiting.** A listener keeps a connection of the pool for as long as its stream is open. A request keeps
  the guard of a cache entry across its awaits, and an insert waits for the shard's lock without one, so it
  takes a thread with it; so does `dig`.
* **Time.** Each poll may run out as the thing it waits for appears; `now()` is fixed when a statement
  begins, not when it gets the row lock.

What makes each part correct: a name goes to one tenant, stays with it, and is served once it is fully set up
(sign-up); a token is backed by an owner, a password and a session (login); an event shown is true when shown,
and a page that listens in time learns the end (streams); one row per domain, an active row had its certificate
and its owner's TXT record, no route leads a domain to a tenant that never held it, and rows settle (custom
domains); bounded admissions, and "too many attempts" only when there were (limiter); requests are answered and
streams give back what they hold, whatever the others wait for (threads, pool and locks). `PROJECT.json` lists
the hazards line by line, with the properties that stand against each.

## 2. Modules

```
PgNotify            external: LISTEN/NOTIFY as sqlx's PgListener shows it
 |- Provisioning            register + provisioning task      implements SubdomainDirectory
 |   |- ProvisioningStream      ... with the status pages     MCProvisioningStream
 |   |   '- Login                   ... and with login        MCSignUp
 |   |- Provisioning_proofs
 |   '- Login_proofs            (extends both Login and Provisioning_proofs)
 '- CustomDomain            pipeline, handlers, environment   implements DomainRegistry; MCCustomDomain
     |- DomainStream            ... with the dashboard dialog MCDomainStream
     |- TenantResolver          ... with the host caches      MCTenantResolver
     '- CustomDomain_proofs
         '- DomainRows_proofs
             |- DomainStream_proofs      (extends DomainStream, too)
             '- TenantResolver_proofs    (extends TenantResolver, too)
RateLimit           the limiter alone                         MCRateLimit, RateLimit_proofs
Server              threads, connections, locks               MCServer, Server_proofs
```

A step of a model is the code from one await to the next: one SQL statement, one API call, or one poll.
Definitions whose comment begins with "faulty:" are seeded bugs, one per property; they stand before the
definition they would replace and no specification uses them.

**PgNotify.** `listening` and `inbox` per session. `Notify` appends to the inbox of each session on the
channel at that moment, and to no other. The channels `tenant_<uuid>` and `domain_<uuid>` are named by the id.

**Provisioning.** One registration attempt per member of `Tenants`. `reg` is how far the request got
(validated, tenant row in, user row in, accepted), `prov` how far its task got, and `tenant`, `sub`, `owner`,
`kv`, `dns` are the tables and the zone. `Submit` covers rate limit and validation: either may refuse;
`Reserved` are the names validation never lets through. `InsertTenant` is the INSERT under the unique
constraint. `Spawn` is `tokio::spawn` and the reply, which have no await between them. `Abort` is a failing
statement or a browser that leaves (axum drops the future). `CreateDns` covers the mock, success, and error
81057, which the code takes for success; `DnsReplyLost` is the record made and the reply not understood.
`TaskFails` is every other `?`. `AppCrash` and `PgCrash` lose what a restart loses. Status `failed` is in the
type because the schema and both streams know it; nothing in the code sets it (`set_tenant_failed` has no
caller). `SubdomainDirectory` is the abstract view: claims of names and names served, both only growing.

**ProvisioningStream.** Each client is a page with an EventSource. `CheckStatus` is the query, `Subscribe`
the LISTEN; the await between them is a state (`checked`). `ListenerLost`/`Relisten` is sqlx's silent
reconnection, `StreamEnds` a broken stream after which the browser asks again; an answer other than 200 ends
the EventSource (`refused`).

**Login.** Adds `POST /api/login` to the two modules before it: the owner whom a page sends to the tenant's
host asks for a token. `lpc`, `creds` and `user` are a request in flight, `sessions` the table in the order of
`created_at`. `EmailOf` and `PasswordOf` are what each attempt to register brought. `FindUser` is the query by
email over all active tenants together with the comparison of the hash (nothing else happens between them that
the comparison would see); which of several rows comes first is left open. `StoreSession` is the INSERT and the
token, `LoginCut` a failing statement or a browser that leaves before or after the INSERT took effect.
`SessionsOf` is what `me` reads. A token stands for its holder; `require_auth` only decodes it, and its expiry
is left out.

**CustomDomain.** `rows` is the table (a deleted row keeps its last fields as history, for a task still refers
to them through its own variables; every UPDATE tests `Exists`). `task` are pipelines: program counter, row id,
poll counter, hostname and ownership value read, tenant read. `hnd` are requests between two of their
statements. `hosts` and `zone` are Cloudflare and the customer's DNS. The ownership value of a hostname is named
by the hostname. `CreateHost` takes the POST and, after error 1406, the two GETs as one step, since nothing is
written between them; its outcome decides between `create_cf_custom_hostname`'s own statements (`store`) and
`refresh_ownership_info` (`refresh`, then `Announce`). `StoreOwnership` takes the UPDATE and the insert of the
hostname's own challenge as one step: no property and no step of the model reads that challenge, the certificate
depends on the `dv` ones. Payloads `status:*` are not modelled, nor is a NOTIFY that carries one (its failure is
`TaskFails`). The polls take errors for "not yet", as the code does: `dig` may fail or not show a record that is
there, a reply of Cloudflare may be none of a hostname (`PollTxt`, `PollSsl`), so each poll may run out whatever
it waits for. With `CfMayOmit` a reply may lack the ownership value, which stands for the error replies that
`refresh_ownership_info` reads in the same way. `config.mock_cloudflare` does not occur: the pipeline does not
read it.

**DomainRegistry** is the abstract view of CustomDomain: who ever held a domain and who holds it, which domains
have a certificate, have an owner's record and are active, and where requests are led (`lookup`, `home`). The
mapping (`Registry`, `CustomDomain.tla`) reads `held` and `holding` off the rows that ever and that still exist,
`certified` off the hostnames, `shown` off the zones, and takes `kv_cache` and `primary_domain` for `lookup` and
`home`. What it adds to the invariants is about steps: a domain changes hands only by a release and a claim, and
it is at the moment of each write that an activation or a route must be allowed, however long before the
pipeline read what it decides on. It does not promise that routes end with the holding: in the code they do not.

**DomainStream.** As ProvisioningStream, for one dialog: the row found `ssl_pending` with its value leads to a
`records` event before the forwarding starts (`resuming`). `seen` is whether the dialog shows the TXT record.

**TenantResolver.** `primaryCache` and `hostCache` are the two `DashMap`s (of `subdomain_cache` only the keys
`custom:<host>`: a subdomain leads to one tenant for ever), `req` the requests that look something up. A query
and the insert that warms a cache are two steps, since the query's reply is awaited between them. `ClearPrimary`
is `delete_domain`'s `primary_domain_cache.remove`, between its UPDATE and its DELETE, which waits for it:
`cleared` are the requests past the one and not the other (`OtherStep`). `AskPage` is the redirect of `root` and
`serve_html` (`handlers/health.rs`), which go by the database where the middleware goes by the cache. Every
other step is CustomDomain's own.

**Server.** What the other modules abstract from: a step of theirs always finds a thread, a connection and a
lock. `req` are requests through `resolve_tenant`: `lookup` waits for the query, `insert` has its answer and
waits for the lock of the key's shard, which takes its thread (`Inserting`), as `dig` does (`Digging`);
`CanRun` says that a thread is left. `guards` are the requests whose `Ref` into `subdomain_cache` is alive: it
is taken on a hit and lives to the end of the inner handler (`tenant.rs:50-61`). `Held` are the connections
that listeners keep, until the terminal payload arrives: the forwarding task of a browser that left notices only
when it sends, so that a leaving browser changes nothing of an open stream (`BrowserLeaves`). A stream that is
closed may be opened again, for any job. `job` is a provisioning task or a
pipeline, reduced to whether it needs a thread or a connection; a statement that gets no connection in time
ends it (`JobTimesOut`), as the code has it. Three things are taken from the libraries: dashmap 5.5 admits
readers to a shard while a writer waits, sqlx's pool gives up waiting after a timeout, and axum drops the
future of a browser that left. That a request on a hit may also find the writer ahead of it, or that
a fresh map starts with many shards, changes where the waiting happens and not that it does: the instances put
their keys into one shard.

**RateLimit.** `call` are checks in flight with the `now()` they began at, at most `Lag` ticks ago, or how they
ended. `Counts` is the CASE expression of the statement; `Upsert` takes the decision on its result, too: the
request passes or is `limited`, told "too many attempts". `Unheard` is a statement that took effect while its
reply was lost or its browser left, `Drop` one that had no effect, because it failed, found no connection or was
not sent before the handler's future was dropped. A request that still waits is then told the error's text
(`failed`), with the same status: both handlers map any error of `check` to `AppError::RateLimit`, 429
(`auth.rs:35-37` and `115-117`, `error.rs:28`). `admitted` is a history variable: a record for each request
whose count is within the limit, with the life of the table (`PgCrash` begins another), the window it was
counted in and the `now()` of its own; `copy` tells alike ones apart. All requests that pass are among them; the
others are those of `Unheard`. Each key is `register:<ip>` or `login:<ip>`.

## 3. Runs

| Run | Instance | Question and answer |
|---|---|---|
| SignUpFailures | 3 attempts under one email, names free/foreign/reserved, 1 page, 1 login, failures, 1 restart | What do overlapping and half-done sign-ups leave? An active tenant is complete, `kv_cache` names the holder, no DNS record is orphaned, a pending tenant is owed work or its work was cut short, "done" is always true when a page hears it, a token is backed, and the whole implements SubdomainDirectory. |
| StreamLive | 2 attempts on 1 name, 2 pages, 1 login, an email each, mock, no failures | Claimed names get served, a page that LISTENs in time is told, and who is told gets in. |
| StreamMissed | 2 attempts on 1 name, 2 pages, no failures | *Violated*: the one notification falls between query and LISTEN (`handlers/provisioning.rs:24-56`). |
| DomainRaces | 2 tenants, 2 rows for 1 domain, 2 pipelines and 2 requests at once, `FaultlessSpec` | One row per domain, routes earned, active rows owned, rows in progress worked on, and DomainRegistry implemented, whatever overlaps. |
| DomainDeleted | 1 row, 1 pipeline, replies that may lack the value, no failures | *Violated*: a pipeline that outlives the delete writes `kv_cache` and the primary domain again. |
| DomainStreamFailures | 1 row, 1 pipeline, 1 dialog, failures, 1 restart | "done" is shown only for a certified domain with an ownership value in its zone (replies carry it). |
| DomainStreamLive | 1 row, 2 pipelines, 1 dialog, no failures | Rows settle; a dialog that listens in time sees the record and hears the end. |
| Resolver | 2 tenants, 2 rows for 1 domain, 1 pipeline, 1 request, 1 browser, failures, 1 restart | Is what fails and restarts leave still earned? Active rows had their certificate, routes are earned, and so is every redirect, cached entry and routed host, however stale. |
| RateLimiter | 1 key, 3 checks that may fail or go unheard, limit 2, window 2, lag 2, 6 ticks, 1 restart | At most `3*Max - 2` admissions in any stretch as long as a window, per life of the table; who is told "too many attempts" comes after as many admitted requests as the limit allows. |
| ServerShares | 2 requests for 1 host, 1 job, 3 streams, 2 threads, 2 connections | Does anyone wait for ever? No request does, and a stream that listens in time gives its connection back, unless its job found none. |
| ServerStalls | 3 requests, 2 hosts in one shard, 2 threads | *Violated*: two inserts wait on the two threads for the guard of a third request, which nobody polls any more (`tenant.rs:50-60`). |
| ServerStarves | 1 job, 1 stream, 1 connection | *Violated*: the stream holds the connection the job needs to notify it (`handlers/provisioning.rs:55`). |

Bounds. `MaxCrashes` 1: two restarts in a row differ from one only in what already ran again. Poll limits of
1 or 2 instead of 40: 1 already gives found-at-once, found-late and timed-out; the SSL poll gets 2 because the
first one stores the challenge that the second profits from. `MaxInbox` 2 or 3 is never more than the payloads
a pipeline sends; it only delays a notifier until the reader, which is fair, has read. Two rows for one domain
are what a delete and a re-add need; an add is cut short when the row ids are used up. `Tasks` and `Handlers`
bound what runs at once. In RateLimit the lag lets statements be overtaken across one window's end; six
ticks hold two full windows and the start of a third (they start at 0, 3 and 6 at the earliest), which is where
the bound is met, and `MaxCount` passes the limit by two. SignUpFailures
gives every owner the same email, the worst case for a lookup by email, and StreamLive each its own, so that
`DoneLetsIn` is about every login. In ServerShares there are as many requests as threads, the condition of
`SomeThreadIsFree`; one more is ServerStalls. Two of its three streams fill the pool, and what comes next finds no
connection; ServerStarves is the same with one of each, the smallest instance of five streams on the five
connections of the default. DomainRaces takes the steps without failures, cancelled requests, deleted hostnames
and restarts (`FaultlessStep`), which makes room for two pipelines and two requests; those steps are in Resolver
and DomainStreamFailures.
`CfMayOmit` is TRUE only in DomainDeleted: DomainRaces, DomainStreamFailures and DomainStreamLive ask about owners'
records, which such replies void (section 5), and Resolver would not end in minutes with it; what holds with them
all the same, every property of Resolver among it, is proved for both values (section 4). Deadlock is not
checked in any run: the system rests when no request comes.

Fairness (runs StreamLive, DomainStreamLive, and the temporal counterexample StreamMissed). Weak fairness of
each handler, task and stream by itself: tokio polls every ready future, and each statement, call and poll is
assumed to return (the API client has no timeout, so this is an assumption on Cloudflare). There is none for
arrivals, failures, crashes, the certificate authority or the customer: they may do nothing. Each step of a
pipeline stays enabled until taken, since nobody else changes its program counter except a crash.

In Server a step may be enabled now and again only, when a thread, a connection or a lock is free. There the
fairness is strong, per request, job and stream: tokio's run queues and the pool's semaphore are first in, first
out, so who waits gets its turn among those who are free again and again; for the shard's lock it is
parking_lot's eventual fairness. `dig` returns (weak: it needs nothing but the thread it has). Browsers need not
leave. The two counterexamples hold under this fairness: nobody is ever free again.

## 4. Proofs

The proof modules prove their theorems for any sets of tenants, names, rows, tasks, handlers and clients, any
poll limits, threads and connections, and any number of restarts, from the ASSUMEs of the modules alone (null
values are outside their sets, numbers are naturals, and the channels are the ids).

**Provisioning_proofs**: `TypeCorrect`, `ActiveComplete`, `KvCorrect`, `DnsOwned` and `Implements` (the
refinement: initial states map to the initial state, every step to a claim, a first service or a stutter). The
properties are not inductive: that an active tenant has an owner and a DNS record was made true many steps
earlier by the program counter's path. The invariant therefore says what each value of `reg` and `prov` proves
(a task at `kv` has its record; a task exists only for an accepted request, whose user row is in), and that
names of rows are distinct. `TenantsOwed` says of every pending tenant that its handler or its task is still to
go on, unless one of the two was cut short; `PendingOwed` that nothing is ever cut short when nothing fails or
restarts. That is the half of `Provisioned` that needs no fairness.

**Login_proofs**: `LoginTypeCorrect`, `PagesTypeCorrect`, `DoneCorrect`, `TokensBacked`, `LoginTenantsOwed` and
`LoginImplements`, over sign-up, pages
and logins together. Each step is a step of Provisioning or leaves its variables alone (`SignsUp`), so its
invariant carries over. What is added: a task about to notify has made its tenant active (`Announced`), so a
message on its way is true and stays true when it is read, an active tenant stays active (`PagesOK`), and so
does what a login found (`LoginsOK`).

**CustomDomain_proofs**: `TypeCorrect`, `DomainsUnique`, `ActiveCertified`, `RoutesCorrect`. The invariant
`IInv` adds `TaskOK` (what each program counter of a pipeline proves of its row, hostname, certificate and
tenant), `RequestOK` (of a request between statements) and `RowOK` (of a row) to the properties. The argument is
monotonicity: `Grows` says that no step takes back what the invariant relies on (a row's tenant and domain, a
hostname's domain, a certificate), so each step needs a proof only for the one task, request or row it moves,
and `Combine` puts the parts together. This is where the proof goes beyond the runs: any number of pipelines,
re-verifies and deletes on any number of rows.

**DomainRows_proofs** goes on from there, in three parts.

* `WorkGoesOn`: `WorkedOn` holds when nothing fails or restarts (`FaultlessSpec`). A step must not put a row into
  progress without staying or becoming the one who works on it, and whoever leaves its work has settled its own
  row: `StillAt` says so of a pipeline, `WorkStays` puts the pipelines and the requests together. `MarkSslPending`
  is the delicate case, since it takes a row back from any status: it goes on with it.
* `OwnersConfirmed`: an active row is owned. The property spans three places: the pipeline's copy of the value,
  the row's, and the zone. The invariant follows the value along the pipeline: it has one to store (`HasValue`),
  then its row has one unless it was deleted meanwhile (`HasStored`), then it waits for one, then the zone has one
  (`HasRecord`); `RowsKeep`, `HostsKeep` and `ZoneKeeps` say that nobody takes it away in between, not even a
  second pipeline that writes another value.
* `ImplementsTheRegistry`: the refinement of DomainRegistry, for failures and restarts, too. Steps are sorted by
  what they write (`StepKinds`): the rows, the hostnames, the zones, `kv_cache`, the primary domains, or nothing
  the registry sees. One row that moves on is a claim, a release, an activation, a suspension or a stutter,
  because no other row holds its domain (`RowMoves`); a route is allowed because of what `TaskOK` says of the
  pipeline at that point. A certificate must be one of a domain that somebody had added, which needs an invariant
  of its own (`HostsKnown`); the owners' records come from `OwnersConfirmed`, if the replies carry the value.

**TenantResolver_proofs** and **DomainStream_proofs**: `AnswersCorrect`, `DoneCorrect` and the types, over the
compositions. What a cache, a request in flight or a message holds was earned when it was read, and the Keep
lemmas make it last: caches may be as stale as they like (`DomainsMove`), and a "done" in an inbox is as good as
one shown, since a session listens on its own row's channel only (`DialogOK`). `ResolverImplements` and
`StreamImplements` carry the registry over: the resolver's steps are stutters of the domains or their steps
(`ResolverKeepsDomains` has the whole specification), a dialog's steps touch nothing but its own session.
`OwnersConfirmed` and `DoneCorrect` are about replies that carry the value (`~CfMayOmit`); the rest needs no
such assumption.

**Server_proofs**: `TypeCorrect` and `ThreadsSuffice`, for any number of requests, threads, shards and
connections. The invariant: the holder of a guard is past the cache and waits for no shard (`RequestsOK`), so
a request that comes to wait finds someone who does not (`SomeoneElse`): all of them never wait at once.

**RateLimit_proofs**: `LimiterTypeCorrect`, `StretchCapped` and `RefusalsEarned`, for any limit, window, lag and
number of restarts; `StretchCapped` for a lag of at most a window, `SlidingCap`'s own hypothesis (the windows of
`config.rs` are five minutes and an hour, a wait for one row's lock is far shorter). The invariant speaks of the
shares that the windows of one life of the table have in the history: each is finite and at most `Max` (the
current one is exactly the count, as long as that has not passed `Max`), none has a time more than `Lag` before
the start of its window, the first is the one that started it, and the starts of two windows are more than
`Window` apart. A stretch meets at most three windows, since a fourth would need requests that waited longer
than a window; and of these at most one starts inside it, so of the others the first request lies outside: `Max
+ 2*(Max - 1)`. "Too many attempts" is said when the current window's share is full, and its `Max` requests are
those the property asks for; what an upsert does to the window is the same whether it is heard or not (`EndsWith`).
Of the other kind of 429, the error of a failed statement, nothing is claimed (section 5).

Only model-checked: liveness, which is out of the prover's reach (`Provisioned`, `ListenersHear`, `DoneLetsIn`,
`RowSettles`, `DomainListenersHear`, `ListenersSeeRecords`, `RequestsAnswered`, `StreamsEnd`), and the violated
properties, which are shown by a trace. Every other property of a passing run is proved.

## 5. Divergences known without a run of their own

Met while modelling, each reproduced with TLC on these modules or read off the code:

* `verify_domain` decides on a status read before an API call, and a second pipeline may time out after the
  first succeeded: a row can go from active to pending or failed. `README.md:290` says "Trigger CF recheck".
* With a reply that has no `ownership_verification` (`CfMayOmit`), the value awaited is empty, which every
  answer of `dig` contains (`custom_domain.rs:318`): a row becomes active without a TXT record.
* The pipeline calls Cloudflare with `MOCK_CLOUDFLARE=true` (`README.md:341` "Skip real CF API calls").
* `domain_stream` queries before it LISTENs and may miss `records` or the terminal event.
* The route of a deleted row's pipeline may overwrite that of the domain's new holder, as it may come back after
  the delete (DomainDeleted): the registry allows it, for its tenant had the domain with a certificate.
* Whatever error the limiter's statement ends with, the request is refused with 429 and the error's text, although
  no limit is used up and `AppError::Database` exists for it (`auth.rs:33` "rate limit — 5 registrations per IP per
  hour"). A statement that took effect counts though its reply was lost or its browser had left: fewer than the
  limit may pass before "too many attempts" is said.
* The limiter's window is fixed: up to `2*Max - 1` requests pass within one window's length without any lag
  (`README.md:464` "5 requests | per IP per hour").
* The comment "mark failed" (`custom_domain.rs:44`) has no code: after an error the row stays `pending` or
  `ssl_pending`, with no pipeline at work.
* The caches of the resolver go stale. `custom:<host>` entries are never removed, so a deleted domain, even one
  added by another tenant since, still leads to the former tenant until a restart. `primary_domain_cache` keeps
  the None of a failed query (`tenant.rs:142`) or of the time before activation, although
  `custom_domain.rs:243-245` says that the next request reads the database; and a lookup in flight while
  `delete_domain` clears the entry stores the old value again.
* After an error nothing marks a tenant failed and nobody is told: `run` logs (`services/provisioning.rs:10`), and
  `set_tenant_failed` has no caller, although `migrations/001_tenants.sql:6` says "pending | active | failed" and
  `static/status.html:204` handles the event. The tenant stays pending, its page waits.
* The login looks for an email among all tenants, "emails are unique per tenant" (`auth.rs:119-120`): of two
  owners with one email, the one whose row comes second cannot get in (`DoneLetsIn` excludes shared emails).
* `parse_ua` tests "Mac OS X" before "iPhone" and "Chrome/" before "OPR/": an iPhone is shown as macOS, Opera as
  Chrome; and an iPad, whose agent has "Mobile", as Mobile.
* `README.md:372` "Warm in-process cache" is no step of the pipeline: it writes `kv_cache`, which nothing reads,
  and the caches are warmed by requests.
* `README.md:364-373` creates the hostname before the CNAME poll; the code does it after.
* The message of `register` names `/api/provisioning/status/`, the route is `/api/provisioning/stream/`.

## 6. Plan

Done, in the order of importance: Provisioning and its directory, its stream, CustomDomain, its stream,
RateLimit, their proofs, TenantResolver with the pages' redirects, Server, Login, the proofs about these and
about the work on a row, its owner, its dialogs and its routes, DomainRegistry with its refinement, and the proofs
about the limiter. Next:

1. Proofs: the halves of the other liveness properties that need no fairness, as `PendingOwed` is of
   `Provisioned` (an open dialog of a row in progress has a session, or a message, that will end it).
2. Tokens with an expiry, and `require_auth` between a token and a handler.

Not modelled: formatting of events and pages, `list_domains` (a single SELECT that nothing depends on), how
`parse_ua` and the config are read, `block_signup`, the expiry of tokens, and the deployment files. The API
client's missing timeout (`custom_domain.rs:370`) is an assumption of the fairness: a call that never returns
holds its pipeline for ever, and no liveness property of it would hold.
