------------------------------- MODULE Server -------------------------------
(***************************************************************************)
(* What all requests, tasks and streams of the process share: the worker    *)
(* threads of tokio, the connections of the pool, and the shards of the     *)
(* resolver's subdomain_cache, whose read guard a request holds across its  *)
(* awaits.  A step is what a task does from one await to the next; a task   *)
(* that waits otherwise than at an await keeps its thread.                  *)
(***************************************************************************)
EXTENDS Integers, FiniteSets

CONSTANTS Requests,         \* bound on the tenants' requests at once
          Jobs,             \* provisioning tasks and pipelines
          Streams,          \* bound on the event streams at once
          Keys,             \* hosts, as keys of subdomain_cache
          Shards, ShardOf,  \* DashMap: the shard of a key
          Workers,          \* tokio's worker threads
          PoolSize,         \* config.db_max_connections
          NoKey, NoJob

ASSUME ServerAssumption ==
    /\ IsFiniteSet(Requests) /\ IsFiniteSet(Streams)
    /\ ShardOf \in [Keys -> Shards]
    /\ Workers \in Nat \ {0} /\ PoolSize \in Nat \ {0}
    /\ NoKey \notin Keys /\ NoJob \notin Jobs

VARIABLES req,      \* where each request is
          key,      \* the host it asks for
          cached,   \* the keys of subdomain_cache
          guards,   \* the requests whose Ref into subdomain_cache is alive
          job,      \* where each task is
          stream,   \* where each stream is
          follows   \* the job it follows

reqVars == <<req, key, cached, guards>>
streamVars == <<stream, follows>>
vars == <<reqVars, job, streamVars>>

TypeOK ==
    /\ req \in [Requests -> {"idle", "lookup", "insert", "primary", "inner"}]
    /\ key \in [Requests -> Keys \cup {NoKey}]
    /\ cached \subseteq Keys
    /\ guards \subseteq Requests
    /\ job \in [Jobs -> {"new", "dig", "work", "tell", "done", "error"}]
    /\ stream \in [Streams -> {"closed", "query", "listen", "open", "told"}]
    /\ follows \in [Streams -> Jobs \cup {NoJob}]

Init == /\ req = [r \in Requests |-> "idle"]
        /\ key = [r \in Requests |-> NoKey]
        /\ cached = {}
        /\ guards = {}
        /\ job = [j \in Jobs |-> "new"]
        /\ stream = [s \in Streams |-> "closed"]
        /\ follows = [s \in Streams |-> NoJob]

-----------------------------------------------------------------------------
(* Threads, connections, locks *)

Inserting == {r \in Requests : req[r] = "insert"}
Digging == {j \in Jobs : job[j] = "dig"}
\* a thread is left to poll a task that is ready
CanRun == Cardinality(Inserting) + Cardinality(Digging) < Workers

\* an open stream keeps its listener's connection, its browser gone or not
Held == {s \in Streams : stream[s] \in {"open", "told"}}
\* any other statement takes a connection and gives it back in one step
Connection == Cardinality(Held) < PoolSize

Unguarded(r) == \A g \in guards : ShardOf[key[g]] # ShardOf[key[r]]

-----------------------------------------------------------------------------
(* The requests: resolve_tenant around the handlers of the tenants' routes *)

\* get_primary_domain asks the database or goes by its cache; a request that is
\* not redirected is handed to the handler
Found == {"primary", "inner"}
Finish(r) == /\ req' = [req EXCEPT ![r] = "idle"]
             /\ key' = [key EXCEPT ![r] = NoKey]
             /\ guards' = guards \ {r}

\* faulty: a hit refreshes its entry
AskRefreshes(r, k) ==
    /\ CanRun /\ req[r] = "idle"
    /\ key' = [key EXCEPT ![r] = k]
    /\ IF k \in cached THEN guards' = guards \cup {r} /\ req' = [req EXCEPT ![r] = "insert"]
                       ELSE req' = [req EXCEPT ![r] = "lookup"] /\ UNCHANGED guards
    /\ UNCHANGED <<cached, job, streamVars>>

\* a hit keeps its guard until the response, unless it redirects at once
Ask(r, k) ==
    /\ CanRun /\ req[r] = "idle"
    /\ key' = [key EXCEPT ![r] = k]
    /\ IF k \in cached
         THEN /\ guards' = guards \cup {r}
              /\ \E pc \in Found : req' = [req EXCEPT ![r] = pc]
         ELSE /\ req' = [req EXCEPT ![r] = "lookup"]
              /\ UNCHANGED guards
    /\ UNCHANGED <<cached, job, streamVars>>

\* the host is unknown: 404 ...
LookupFails(r) ==
    /\ CanRun /\ Connection /\ req[r] = "lookup"
    /\ Finish(r)
    /\ UNCHANGED <<cached, job, streamVars>>

\* ... or known: the insert that follows takes the shard's lock, for which the
\* thread waits while anyone holds a guard
Lookup(r) ==
    /\ CanRun /\ Connection /\ req[r] = "lookup"
    /\ IF Unguarded(r)
         THEN /\ cached' = cached \cup {key[r]}
              /\ \E pc \in Found : req' = [req EXCEPT ![r] = pc]
         ELSE /\ req' = [req EXCEPT ![r] = "insert"]
              /\ UNCHANGED cached
    /\ UNCHANGED <<key, guards, job, streamVars>>

\* faulty: the entry is stored under its shard
InsertShard(r) ==
    /\ req[r] = "insert" /\ Unguarded(r)
    /\ cached' = cached \cup {ShardOf[key[r]]}
    /\ \E pc \in Found : req' = [req EXCEPT ![r] = pc]
    /\ UNCHANGED <<key, guards, job, streamVars>>

Insert(r) ==
    /\ req[r] = "insert" /\ Unguarded(r)
    /\ cached' = cached \cup {key[r]}
    /\ \E pc \in Found : req' = [req EXCEPT ![r] = pc]
    /\ UNCHANGED <<key, guards, job, streamVars>>

\* a query that fails for want of a connection counts as no primary domain
ReadPrimary(r) ==
    /\ CanRun /\ req[r] = "primary"
    /\ req' = [req EXCEPT ![r] = "inner"]
    /\ UNCHANGED <<key, cached, guards, job, streamVars>>

\* a redirect; or the handler's response, after statements that get a connection
\* or an error, and calls that return
Respond(r) ==
    /\ CanRun /\ req[r] \in Found
    /\ Finish(r)
    /\ UNCHANGED <<cached, job, streamVars>>

\* faulty: the pool has no acquire timeout
AcquireForEver(r) ==
    /\ CanRun /\ Connection /\ req[r] = "lookup"
    /\ Finish(r)
    /\ UNCHANGED <<cached, job, streamVars>>

\* sqlx's pool gives up: 500
AcquireTimesOut(r) ==
    /\ CanRun /\ ~Connection /\ req[r] = "lookup"
    /\ Finish(r)
    /\ UNCHANGED <<cached, job, streamVars>>

\* the browser leaves, and its request is dropped at the await it is at
Leave(r) ==
    /\ CanRun /\ req[r] \in {"lookup", "primary", "inner"}
    /\ Finish(r)
    /\ UNCHANGED <<cached, job, streamVars>>

-----------------------------------------------------------------------------
(* The jobs: provision() and verify_and_provision *)

\* a provisioning task has no DNS to poll
JobStarts(j) ==
    /\ CanRun /\ job[j] = "new"
    /\ \E pc \in {"dig", "work"} : job' = [job EXCEPT ![j] = pc]
    /\ UNCHANGED <<reqVars, streamVars>>

\* std::process::Command runs dig on the worker's thread
DigReturns(j) ==
    /\ job[j] = "dig"
    /\ job' = [job EXCEPT ![j] = "work"]
    /\ UNCHANGED <<reqVars, streamVars>>

\* the statements that lead to the end of the job
JobWorks(j) ==
    /\ CanRun /\ Connection /\ job[j] = "work"
    /\ job' = [job EXCEPT ![j] = "tell"]
    /\ UNCHANGED <<reqVars, streamVars>>

\* faulty: the notification goes to a channel nobody listens to
JobTellsNobody(j) ==
    /\ CanRun /\ Connection /\ job[j] = "tell"
    /\ job' = [job EXCEPT ![j] = "done"]
    /\ UNCHANGED <<reqVars, streamVars>>

\* pg_notify
JobTells(j) ==
    /\ CanRun /\ Connection /\ job[j] = "tell"
    /\ job' = [job EXCEPT ![j] = "done"]
    /\ stream' = [s \in Streams |-> IF stream[s] = "open" /\ follows[s] = j THEN "told" ELSE stream[s]]
    /\ UNCHANGED <<reqVars, follows>>

\* no connection: the error is logged, and that is all
JobTimesOut(j) ==
    /\ CanRun /\ ~Connection /\ job[j] \in {"work", "tell"}
    /\ job' = [job EXCEPT ![j] = "error"]
    /\ UNCHANGED <<reqVars, streamVars>>

-----------------------------------------------------------------------------
(* The streams: status_stream and domain_stream *)

Open(s, j) ==
    /\ CanRun /\ stream[s] = "closed"
    /\ stream' = [stream EXCEPT ![s] = "query"]
    /\ follows' = [follows EXCEPT ![s] = j]
    /\ UNCHANGED <<reqVars, job>>

Close(s) == /\ stream' = [stream EXCEPT ![s] = "closed"]
            /\ follows' = [follows EXCEPT ![s] = NoJob]

QueryStatus(s) ==
    /\ CanRun /\ Connection /\ stream[s] = "query"
    /\ IF job[follows[s]] = "done"
         THEN Close(s)
         ELSE /\ stream' = [stream EXCEPT ![s] = "listen"]
              /\ UNCHANGED follows
    /\ UNCHANGED <<reqVars, job>>

\* PgListener takes a connection of the pool, to keep
Subscribe(s) ==
    /\ CanRun /\ Connection /\ stream[s] = "listen"
    /\ stream' = [stream EXCEPT ![s] = "open"]
    /\ UNCHANGED <<reqVars, job, follows>>

StreamTimesOut(s) ==
    /\ CanRun /\ ~Connection /\ stream[s] \in {"query", "listen"}
    /\ Close(s)
    /\ UNCHANGED <<reqVars, job>>

\* the forwarding task sends the last event, finds its browser there or gone,
\* and drops the listener
Forward(s) ==
    /\ CanRun /\ stream[s] = "told"
    /\ Close(s)
    /\ UNCHANGED <<reqVars, job>>

\* the handler's future is dropped.  The forwarding task of an open stream is not
\* told, and keeps its listener: there a leaving browser changes nothing.
BrowserLeaves(s) ==
    /\ CanRun /\ stream[s] \in {"query", "listen"}
    /\ Close(s)
    /\ UNCHANGED <<reqVars, job>>

-----------------------------------------------------------------------------

ReqStep(r) == \/ LookupFails(r) \/ Lookup(r) \/ AcquireTimesOut(r)
              \/ ReadPrimary(r) \/ Respond(r)
JobStep(j) == JobStarts(j) \/ JobWorks(j) \/ JobTells(j) \/ JobTimesOut(j)
StreamStep(s) == QueryStatus(s) \/ Subscribe(s) \/ StreamTimesOut(s) \/ Forward(s)

Next == \/ \E r \in Requests : \/ \E k \in Keys : Ask(r, k)
                               \/ ReqStep(r) \/ Insert(r) \/ Leave(r)
        \/ \E j \in Jobs : JobStep(j) \/ DigReturns(j)
        \/ \E s \in Streams : \/ \E j \in Jobs : Open(s, j)
                              \/ StreamStep(s) \/ BrowserLeaves(s)

\* tokio's run queues and the pool's semaphore are first in, first out: who is
\* ready now and then is served in the end.  So is a writer that is woken now
\* and then, which is left to parking_lot.
Fairness == /\ \A r \in Requests : SF_vars(ReqStep(r)) /\ SF_vars(Insert(r))
            /\ \A j \in Jobs : SF_vars(JobStep(j)) /\ WF_vars(DigReturns(j))
            /\ \A s \in Streams : SF_vars(StreamStep(s))

Spec == Init /\ [][Next]_vars
FairSpec == Spec /\ Fairness

-----------------------------------------------------------------------------
(* Properties *)

\* With no more requests at once than threads, the cache's locks never take every
\* thread: someone who waits for a shard waits for a request that waits for no
\* shard itself.
SomeThreadIsFree == Cardinality(Requests) <= Workers => Cardinality(Inserting) < Workers

\* Every request is answered, though guards are held across awaits, dig keeps a
\* thread, and the streams may keep every connection.
RequestsAnswered == \A r \in Requests : req[r] # "idle" ~> req[r] = "idle"

\* A stream that listens while its job runs ends and gives its connection back,
\* its browser gone or not, unless the job itself found no connection.
StreamsEnd ==
    \A s \in Streams, j \in Jobs :
        stream[s] = "open" /\ follows[s] = j /\ job[j] \in {"dig", "work", "tell"}
            ~> stream[s] = "closed" \/ job[j] = "error"

\* README.md:417 "pg_notify -> SSE handler receives event": a page whose stream is
\* open while its job runs hears of the end.
ListenersAreTold ==
    \A s \in Streams, j \in Jobs :
        stream[s] = "open" /\ follows[s] = j /\ job[j] \in {"dig", "work", "tell"}
            ~> stream[s] \in {"told", "closed"}

\* README.md:47 "The tenant is resolved from the Host header on every request": a
\* request that missed the cache is resolved, or refused.
EveryRequestResolved ==
    \A r \in Requests : req[r] \in {"lookup", "insert"} ~> req[r] \notin {"lookup", "insert"}
=============================================================================
