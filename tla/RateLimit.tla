----------------------------- MODULE RateLimit -----------------------------
(***************************************************************************)
(* services/rate_limit.rs: one upsert per request decides it.  In Postgres  *)
(* now() is the time the statement began, and the statement may wait for    *)
(* the lock of the row: statements take effect in another order than that   *)
(* of their times.  Each key is register:<ip> or login:<ip>.  Whatever error *)
(* the statement ends with, the handlers answer it with the status of a     *)
(* limit that is used up, 429.                                              *)
(***************************************************************************)
EXTENDS Integers, FiniteSets

CONSTANTS Keys,
          Calls,        \* bound on the checks in flight at once
          Max, Window,  \* config.rate_limit_*_max and _window
          Lag,          \* how long a statement may wait, at most
          MaxTime, MaxRestarts,
          MaxCount      \* bound on the count of a window, refused calls included

ASSUME RateLimitAssumption ==
    /\ Max \in Nat \ {0} /\ Window \in Nat /\ Lag \in Nat
    /\ MaxTime \in Nat /\ MaxRestarts \in Nat /\ MaxCount \in Nat

VARIABLES now,      \* Postgres's clock
          count,    \* rate_limits.count, 0 while the key has no row
          start,    \* rate_limits.window_start
          call,     \* the checks: ended, or in flight for a key since a time
          admitted, \* history: the requests whose count the limit admits
          restarts  \* of Postgres: each begins a life of the table

vars == <<now, count, start, call, admitted, restarts>>

\* How a check ends: the request goes on, is told "too many attempts", is told
\* the database's error text (both 429), or nobody waits for it any more
Ended == [pc : {"passed", "limited", "failed", "idle"}]
InFlight == [pc : {"waiting"}, key : Keys, at : 0..MaxTime]
Waiting(c) == call[c].pc = "waiting"

\* A request that was admitted: in which life of the table, counted in the
\* window that began when, at what time of its own, and which of those alike
\* it is.  It passes, unless its answer is lost or its browser has left.
Grants == [life : 0..MaxRestarts, win : 0..MaxTime, at : 0..MaxTime, copy : Nat \ {0}]

TypeOK == /\ now \in 0..MaxTime
          /\ count \in [Keys -> Nat]
          /\ start \in [Keys -> 0..MaxTime]
          /\ call \in [Calls -> Ended \cup InFlight]
          /\ admitted \in [Keys -> SUBSET Grants]
          /\ restarts \in 0..MaxRestarts

Init == /\ now = 0
        /\ count = [k \in Keys |-> 0]
        /\ start = [k \in Keys |-> 0]
        /\ call = [c \in Calls |-> [pc |-> "idle"]]
        /\ admitted = [k \in Keys |-> {}]
        /\ restarts = 0

-----------------------------------------------------------------------------

\* the statement begins, and now() is fixed
Begin(c, k) ==
    /\ ~Waiting(c) /\ count[k] < MaxCount
    /\ call' = [call EXCEPT ![c] = [pc |-> "waiting", key |-> k, at |-> now]]
    /\ UNCHANGED <<now, count, start, admitted, restarts>>

Expired(k, at) == start[k] < at - Window
NewWindow(k, at) == count[k] = 0 \/ Expired(k, at)
\* faulty: the count stops at the limit
NewCountCapped(k, at) == IF NewWindow(k, at) THEN 1 ELSE IF count[k] < Max THEN count[k] + 1 ELSE Max
NewCount(k, at) == IF NewWindow(k, at) THEN 1 ELSE count[k] + 1

\* The admissions of key k in life l, in the window that began at w, of time t
Alike(k, l, w, t) == {g \in admitted[k] : g.life = l /\ g.win = w /\ g.at = t}
Grant(k, w, t) == [life |-> restarts, win |-> w, at |-> t,
                   copy |-> Cardinality(Alike(k, restarts, w, t)) + 1]

\* faulty: every request, refused or not, starts the window again
CountsRestarting(k, at) ==
    /\ count' = [count EXCEPT ![k] = NewCount(k, at)]
    /\ start' = [start EXCEPT ![k] = at]
    /\ admitted' = [admitted EXCEPT ![k] =
                      IF NewCount(k, at) > Max THEN @ ELSE @ \cup {Grant(k, start'[k], at)}]

\* What the statement does to the row of its key
Counts(k, at) ==
    /\ count' = [count EXCEPT ![k] = NewCount(k, at)]
    /\ start' = [start EXCEPT ![k] = IF NewWindow(k, at) THEN at ELSE @]
    /\ admitted' = [admitted EXCEPT ![k] =
                      IF NewCount(k, at) > Max THEN @ ELSE @ \cup {Grant(k, start'[k], at)}]

\* the upsert takes effect, and the count it returns decides
Upsert(c) ==
    /\ Waiting(c)
    /\ Counts(call[c].key, call[c].at)
    /\ call' = [call EXCEPT ![c] = [pc |-> IF NewCount(call[c].key, call[c].at) > Max
                                          THEN "limited" ELSE "passed"]]
    /\ UNCHANGED <<now, restarts>>

\* the upsert takes effect and nobody hears of it: the reply is lost, which is
\* an error like any other, or the handler's future was dropped meanwhile
Unheard(c) ==
    /\ Waiting(c)
    /\ Counts(call[c].key, call[c].at)
    /\ \E end \in {"failed", "idle"} : call' = [call EXCEPT ![c] = [pc |-> end]]
    /\ UNCHANGED <<now, restarts>>

\* faulty: a request that gets no answer is given back
DropRefunds(c) ==
    /\ Waiting(c)
    /\ \E end \in {"failed", "idle"} : call' = [call EXCEPT ![c] = [pc |-> end]]
    /\ count' = [count EXCEPT ![call[c].key] = @ - 1]
    /\ UNCHANGED <<now, start, admitted, restarts>>

\* the statement fails without effect, for want of a connection too, or was not
\* sent before the handler's future was dropped
Drop(c) ==
    /\ Waiting(c)
    /\ \E end \in {"failed", "idle"} : call' = [call EXCEPT ![c] = [pc |-> end]]
    /\ UNCHANGED <<now, count, start, admitted, restarts>>

Tick ==
    /\ now < MaxTime
    /\ \A c \in {d \in Calls : Waiting(d)} : now < call[c].at + Lag
    /\ now' = now + 1
    /\ UNCHANGED <<count, start, call, admitted, restarts>>

\* rate_limits is UNLOGGED: Postgres empties it when it recovers from a crash
PgCrash ==
    /\ restarts < MaxRestarts
    /\ restarts' = restarts + 1
    /\ count' = [k \in Keys |-> 0]
    /\ call' = [c \in Calls |-> IF Waiting(c) THEN [pc |-> "failed"] ELSE call[c]]
    /\ UNCHANGED <<now, start, admitted>>

Next == \/ \E c \in Calls : (\E k \in Keys : Begin(c, k)) \/ Upsert(c) \/ Unheard(c) \/ Drop(c)
        \/ Tick
        \/ PgCrash

Spec == Init /\ [][Next]_vars

-----------------------------------------------------------------------------
(* Properties *)

\* The requests admitted in life l from time x on, for one window's length
AdmittedFrom(k, l, x) == {g \in admitted[k] : g.life = l /\ g.at \in x..(x + Window)}

\* No request passes that is not admitted.  A stretch as long as a window meets
\* two windows of the limiter, and not the first request of both; it meets a
\* third one when a statement that was overtaken by the newest is counted there.
\* A restart of Postgres empties the table, and as much again may pass.
SlidingCap ==
    Lag <= Window =>
        \A k \in Keys, l \in 0..restarts, x \in 0..MaxTime :
            Cardinality(AdmittedFrom(k, l, x)) <= 3 * Max - 2

\* The request is told "too many attempts" by this step
Limited(c) == Waiting(c) /\ call'[c].pc = "limited"

\* The requests admitted since time x
AdmittedSince(k, x) == {g \in admitted[k] : g.at >= x}

\* Who is told "too many attempts" comes after as many requests of the key as
\* the limit admits, all within the last window or the longest wait before it,
\* though refused requests are counted like the others and windows restart.
\* Some of those requests may have been given up, or answered with an error.
\* This is not said of every 429: a statement that fails is answered with one
\* too, by an unused limit as well.
RefusalIsEarned ==
    [][\A c \in Calls : Limited(c) =>
         Cardinality(AdmittedSince(call[c].key, call[c].at - Window - Lag)) >= Max]_vars
=============================================================================
