---------------------------- MODULE Server_proofs ----------------------------
(***************************************************************************)
(* The process, for any number of requests, jobs, streams, hosts, shards,   *)
(* threads and connections.                                                 *)
(***************************************************************************)
EXTENDS Server, FiniteSetTheorems, TLAPS

(***************************************************************************)
(* The inductive invariant.  A guard is alive only across the awaits that   *)
(* follow a hit, so its holder waits for no shard: the request that comes   *)
(* last to wait for one leaves someone who does not.                        *)
(***************************************************************************)
RequestsOK == /\ \A g \in guards : req[g] \in Found
              /\ \A r \in Requests : req[r] # "idle" => key[r] \in Keys
SomeoneElse == Requests # {} => Inserting # Requests

IInv == TypeOK /\ RequestsOK /\ SomeoneElse

LEMMA InitInv == Init => IInv
BY DEF Init, IInv, TypeOK, RequestsOK, SomeoneElse, Inserting

\* Requests that leave the wait, or do not enter it, leave someone else outside.
LEMMA FewerWait ==
    ASSUME SomeoneElse, Inserting' \subseteq Inserting
    PROVE  SomeoneElse'
BY DEF SomeoneElse, Inserting

LEMMA RequestInv ==
    ASSUME IInv, NEW r \in Requests,
           \/ \E k \in Keys : Ask(r, k)
           \/ ReqStep(r) \/ Insert(r) \/ Leave(r)
    PROVE  IInv'
<1> USE DEF IInv, Found
<1>1. CASE \E k \in Keys : Ask(r, k)
  <2> PICK k \in Keys : Ask(r, k)
    BY <1>1
  <2> USE DEF Ask
  <2>1. TypeOK'
    BY DEF TypeOK, streamVars
  <2>2. RequestsOK'
    BY DEF TypeOK, RequestsOK
  <2>3. SomeoneElse'
    BY FewerWait DEF TypeOK, Inserting
  <2> QED
    BY <2>1, <2>2, <2>3
<1>2. CASE Lookup(r)
  <2> USE DEF Lookup
  <2>1. TypeOK'
    BY <1>2 DEF TypeOK, RequestsOK, streamVars
  <2>2. RequestsOK'
    BY <1>2 DEF TypeOK, RequestsOK
  <2>3. SomeoneElse'
    <3>1. CASE Unguarded(r)
      BY <1>2, <3>1, FewerWait DEF TypeOK, Inserting
    <3>2. CASE ~Unguarded(r)
      <4>1. PICK g \in guards : g \in Requests /\ req[g] \in Found
        BY <3>2 DEF Unguarded, TypeOK, RequestsOK
      <4>2. g # r /\ req'[g] = req[g]
        BY <1>2, <4>1 DEF TypeOK
      <4> QED
        BY <4>1, <4>2 DEF SomeoneElse, Inserting
    <3> QED
      BY <3>1, <3>2
  <2> QED
    BY <2>1, <2>2, <2>3
<1>3. CASE Insert(r) \/ ReadPrimary(r)
  <2> USE DEF Insert, ReadPrimary
  <2>1. TypeOK'
    BY <1>3 DEF TypeOK, RequestsOK, streamVars
  <2>2. RequestsOK'
    BY <1>3 DEF TypeOK, RequestsOK
  <2>3. SomeoneElse'
    BY <1>3, FewerWait DEF TypeOK, Inserting
  <2> QED
    BY <2>1, <2>2, <2>3
<1>4. CASE LookupFails(r) \/ AcquireTimesOut(r) \/ Respond(r) \/ Leave(r)
  <2>0. Finish(r) /\ UNCHANGED <<cached, job, streamVars>>
    BY <1>4 DEF LookupFails, AcquireTimesOut, Respond, Leave
  <2> USE DEF Finish
  <2>1. TypeOK'
    BY <2>0 DEF TypeOK, streamVars
  <2>2. RequestsOK'
    BY <2>0 DEF TypeOK, RequestsOK
  <2>3. SomeoneElse'
    BY <2>0, FewerWait DEF TypeOK, Inserting
  <2> QED
    BY <2>1, <2>2, <2>3
<1> QED
  BY <1>1, <1>2, <1>3, <1>4 DEF ReqStep

LEMMA OtherInv ==
    ASSUME IInv,
           \/ \E j \in Jobs : JobStep(j) \/ DigReturns(j)
           \/ \E s \in Streams : (\E j \in Jobs : Open(s, j)) \/ StreamStep(s) \/ BrowserLeaves(s)
    PROVE  IInv'
<1> USE DEF IInv
<1>1. UNCHANGED reqVars
  BY DEF JobStep, JobStarts, JobWorks, JobTells, JobTimesOut, DigReturns, Open, StreamStep,
         QueryStatus, Subscribe, StreamTimesOut, Forward, BrowserLeaves
<1>2. RequestsOK' /\ SomeoneElse'
  BY <1>1 DEF RequestsOK, SomeoneElse, Inserting, reqVars
<1>3. ASSUME NEW j \in Jobs, JobStep(j) \/ DigReturns(j)
      PROVE  TypeOK'
  BY <1>1, <1>3 DEF JobStep, JobStarts, JobWorks, JobTells, JobTimesOut, DigReturns,
                    TypeOK, reqVars, streamVars
<1>4. ASSUME NEW s \in Streams,
             (\E j \in Jobs : Open(s, j)) \/ StreamStep(s) \/ BrowserLeaves(s)
      PROVE  TypeOK'
  BY <1>1, <1>4 DEF Open, StreamStep, QueryStatus, Subscribe, StreamTimesOut, Forward,
                    BrowserLeaves, Close, TypeOK, reqVars
<1> QED
  BY <1>2, <1>3, <1>4

LEMMA NextInv == IInv /\ [Next]_vars => IInv'
<1>1. IInv /\ UNCHANGED vars => IInv'
  BY DEF IInv, TypeOK, RequestsOK, SomeoneElse, Inserting, vars, reqVars, streamVars
<1> QED
  BY <1>1, RequestInv, OtherInv DEF Next

\* Every reachable state of the process satisfies the inductive invariant.
THEOREM Invariance == Spec => []IInv
BY InitInv, NextInv, PTL DEF Spec

\* The variables keep their types: only hosts that were asked for are cached.
THEOREM TypeCorrect == Spec => []TypeOK
BY Invariance, PTL DEF IInv

\* As many requests as threads never wait for the cache's locks all at once.
THEOREM ThreadsSuffice == Spec => []SomeThreadIsFree
<1>1. IInv => SomeThreadIsFree
  <2> SUFFICES ASSUME IInv, Cardinality(Requests) <= Workers
               PROVE  Cardinality(Inserting) < Workers
    BY DEF SomeThreadIsFree
  <2>1. Inserting \subseteq Requests /\ IsFiniteSet(Requests)
    BY ServerAssumption DEF Inserting
  <2>2. /\ Cardinality(Requests) \in Nat /\ Cardinality(Inserting) \in Nat
        /\ Inserting # Requests => Cardinality(Inserting) < Cardinality(Requests)
    BY <2>1, FS_Subset, FS_CardinalityType
  <2>3. Requests = {} => Cardinality(Inserting) = 0
    BY <2>1, FS_EmptySet
  <2> QED
    BY <2>2, <2>3, ServerAssumption DEF IInv, SomeoneElse
<1> QED
  BY <1>1, Invariance, PTL
=============================================================================
