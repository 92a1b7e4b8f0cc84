-------------------------- MODULE RateLimit_proofs --------------------------
(***************************************************************************)
(* Proofs about RateLimit.  What is admitted in a stretch of time is counted *)
(* window by window: a window admits at most Max requests, windows of       *)
(* one life of the table begin more than Window apart, and the first        *)
(* request of a window has the time of its beginning.                       *)
(***************************************************************************)
EXTENDS RateLimit, FiniteSetTheorems, TLAPS

\* The admissions of a window
OfWindow(k, l, w) == {g \in admitted[k] : g.life = l /\ g.win = w}

\* The request that began the window
First(l, w) == [life |-> l, win |-> w, at |-> w, copy |-> 1]

\* Nothing is in flight from the future, nor for longer than the longest wait
ClockOK == /\ \A k \in Keys : start[k] <= now
           /\ \A c \in Calls : Waiting(c) => call[c].at <= now /\ now <= call[c].at + Lag

\* An admission belongs to a window that has begun, and has its time in it, but for
\* the wait; a life without a row has admitted nothing yet
AdmissionsOK == \A k \in Keys :
    /\ IsFiniteSet(admitted[k])
    /\ \A g \in admitted[k] :
         /\ g.life <= restarts
         /\ g.win - Lag <= g.at /\ g.at <= g.win + Window
         /\ First(g.life, g.win) \in admitted[k]
         /\ g.copy <= Cardinality(Alike(k, g.life, g.win, g.at))
         /\ g.life = restarts =>
              count[k] > 0 /\ (g.win = start[k] \/ g.win + Window < start[k])

\* Two windows of a life begin more than Window apart
WindowsApart == \A k \in Keys : \A g, h \in admitted[k] :
    g.life = h.life /\ g.win < h.win => g.win + Window < h.win

\* No window admits more than Max, and the current one as many as it counts
WindowsFilled == \A k \in Keys :
    /\ \A l \in 0..MaxRestarts, w \in 0..MaxTime : Cardinality(OfWindow(k, l, w)) <= Max
    /\ count[k] > 0 => Cardinality(OfWindow(k, restarts, start[k])) = IF count[k] > Max THEN Max ELSE count[k]

IInv == TypeOK /\ ClockOK /\ AdmissionsOK /\ WindowsApart /\ WindowsFilled

-----------------------------------------------------------------------------
(* The admissions of a window *)

LEMMA InitIInv == Init => IInv
<1> SUFFICES ASSUME Init
             PROVE  IInv
  OBVIOUS
<1> USE RateLimitAssumption DEF Init
<1>1. TypeOK
  BY DEF TypeOK, Grants, Ended
<1>2. ClockOK
  BY DEF ClockOK, Waiting
<1>3. AdmissionsOK /\ WindowsApart
  BY FS_EmptySet DEF AdmissionsOK, WindowsApart
<1>4. WindowsFilled
  <2>1. \A k \in Keys : \A l, w : OfWindow(k, l, w) = {}
    BY DEF OfWindow
  <2> QED
    BY <2>1, FS_EmptySet DEF WindowsFilled
<1> QED
  BY <1>1, <1>2, <1>3, <1>4 DEF IInv

\* The admissions of one window, and those of one time among them, are finite
LEMMA FiniteParts ==
    ASSUME AdmissionsOK, NEW k \in Keys, NEW l, NEW w, NEW t
    PROVE  /\ IsFiniteSet(OfWindow(k, l, w)) /\ Cardinality(OfWindow(k, l, w)) \in Nat
           /\ IsFiniteSet(Alike(k, l, w, t)) /\ Cardinality(Alike(k, l, w, t)) \in Nat
<1>1. IsFiniteSet(admitted[k])
  BY DEF AdmissionsOK
<1>2. OfWindow(k, l, w) \subseteq admitted[k] /\ Alike(k, l, w, t) \subseteq admitted[k]
  BY DEF OfWindow, Alike
<1> QED
  BY <1>1, <1>2, FS_Subset, FS_CardinalityType

\* The window an upsert counts in has begun, and has the time of the statement
\* in it; one that begins with the upsert has admitted nothing, and begins more
\* than Window after those of this life
LEMMA CountedWindow ==
    ASSUME IInv, NEW k \in Keys, NEW t \in 0..MaxTime, t <= now, now <= t + Lag,
           NEW w, w = IF NewWindow(k, t) THEN t ELSE start[k]
    PROVE  /\ w \in 0..MaxTime /\ w <= now
           /\ w - Lag <= t /\ t <= w + Window
           /\ NewWindow(k, t) => OfWindow(k, restarts, w) = {}
           /\ \A g \in admitted[k] :
                g.life = restarts => g.win = w \/ g.win + Window < w
<1> USE RateLimitAssumption
<1>1. /\ now \in Nat /\ start[k] \in 0..MaxTime /\ count[k] \in Nat /\ start[k] <= now
      /\ \A g \in admitted[k] : g \in Grants
  BY DEF IInv, TypeOK, ClockOK
<1>2. w \in 0..MaxTime /\ w <= now /\ w - Lag <= t /\ t <= w + Window
  BY <1>1 DEF NewWindow, Expired
<1>3. ASSUME NEW g \in admitted[k], g.life = restarts
      PROVE  /\ g.win = w \/ g.win + Window < w
             /\ NewWindow(k, t) => g.win # w
  <2>1. count[k] > 0 /\ (g.win = start[k] \/ g.win + Window < start[k]) /\ g.win \in Nat
    BY <1>1, <1>3 DEF IInv, AdmissionsOK, Grants
  <2> QED
    BY <1>1, <2>1 DEF NewWindow, Expired
<1> QED
  BY <1>2, <1>3 DEF OfWindow

-----------------------------------------------------------------------------
(* The upsert *)

\* The upsert of a call takes effect, however the call ends
EndsWith(c, end) ==
    /\ Waiting(c) /\ Counts(call[c].key, call[c].at)
    /\ end \in Ended /\ call' = [call EXCEPT ![c] = end]
    /\ UNCHANGED <<now, restarts>>

LEMMA UpsertEnds ==
    ASSUME NEW c \in Calls, Upsert(c) \/ Unheard(c)
    PROVE  \E end \in Ended : EndsWith(c, end)
<1>1. \A t \in {"passed", "limited", "failed", "idle"} : [pc |-> t] \in Ended
  BY DEF Ended
<1>2. CASE Upsert(c)
  <2> DEFINE t == IF NewCount(call[c].key, call[c].at) > Max THEN "limited" ELSE "passed"
  <2>1. EndsWith(c, [pc |-> t])
    BY <1>1, <1>2 DEF Upsert, EndsWith
  <2> QED
    BY <2>1 DEF EndsWith
<1>3. CASE Unheard(c)
  <2>1. PICK t \in {"failed", "idle"} : call' = [call EXCEPT ![c] = [pc |-> t]]
    BY <1>3 DEF Unheard
  <2>2. EndsWith(c, [pc |-> t])
    BY <1>1, <1>3, <2>1 DEF Unheard, EndsWith
  <2> QED
    BY <2>2 DEF EndsWith
<1> QED
  BY <1>2, <1>3

\* A request that is refused leaves the window that is full as it is
LEMMA UpsertRefuses ==
    ASSUME IInv, NEW c \in Calls, NEW end, EndsWith(c, end), NewCount(call[c].key, call[c].at) > Max
    PROVE  IInv'
<1> DEFINE k == call[c].key
           t == call[c].at
<1> USE RateLimitAssumption
<1>1. call[c] \in InFlight /\ k \in Keys /\ t \in 0..MaxTime
  BY DEF IInv, TypeOK, EndsWith, Waiting, Ended, InFlight
<1>2. ~NewWindow(k, t)
  BY <1>1 DEF NewCount
<1>3. count[k] \in Nat /\ count[k] > 0 /\ count[k] >= Max
  BY <1>1, <1>2 DEF NewCount, NewWindow, IInv, TypeOK
<1>4. /\ admitted' = admitted /\ start' = start
      /\ count' = [count EXCEPT ![k] = count[k] + 1]
      /\ call' = [call EXCEPT ![c] = end] /\ end \in Ended /\ now' = now /\ restarts' = restarts
  BY <1>1, <1>2 DEF EndsWith, Counts, NewCount, IInv, TypeOK
<1> HIDE DEF k, t
<1>5. TypeOK'
  BY <1>1, <1>3, <1>4 DEF IInv, TypeOK
<1>6. ClockOK'
  BY <1>4 DEF IInv, TypeOK, ClockOK, Waiting, Ended
<1>7. \A j \in Keys : count'[j] \in Nat /\ (count[j] > 0 <=> count'[j] > 0)
  BY <1>1, <1>3, <1>4 DEF IInv, TypeOK
<1>8. AdmissionsOK' /\ WindowsApart'
  BY <1>4, <1>7 DEF IInv, AdmissionsOK, WindowsApart, Alike
<1>9. WindowsFilled'
  <2>1. \A j, l, w : OfWindow(j, l, w)' = OfWindow(j, l, w)
    BY <1>4 DEF OfWindow
  <2>2. ASSUME NEW j \in Keys, count'[j] > 0
        PROVE  Cardinality(OfWindow(j, restarts, start[j])) = IF count'[j] > Max THEN Max ELSE count'[j]
    <3>1. CASE j = k
      BY <1>1, <1>3, <1>4, <3>1 DEF IInv, TypeOK, WindowsFilled
    <3>2. CASE j # k
      BY <1>4, <2>2, <3>2 DEF IInv, TypeOK, WindowsFilled
    <3> QED
      BY <3>1, <3>2
  <2> QED
    BY <1>4, <2>1, <2>2 DEF IInv, WindowsFilled
<1> QED
  BY <1>5, <1>6, <1>8, <1>9 DEF IInv

\* A request that is admitted is one admission more in the window it is counted in
LEMMA UpsertGrants ==
    ASSUME IInv, NEW c \in Calls, NEW end, EndsWith(c, end), ~(NewCount(call[c].key, call[c].at) > Max)
    PROVE  IInv'
<1> USE RateLimitAssumption
<1>0. PICK k, t, n, w, l, g0 :
        /\ k = call[c].key /\ t = call[c].at /\ n = NewCount(k, t)
        /\ w = IF NewWindow(k, t) THEN t ELSE start[k]
        /\ l = restarts /\ g0 = Grant(k, w, t)
  OBVIOUS
<1>1. /\ Waiting(c) /\ k \in Keys /\ t \in 0..MaxTime
      /\ t <= now /\ now <= t + Lag
      /\ count[k] \in Nat /\ start[k] \in 0..MaxTime /\ l \in 0..MaxRestarts
      /\ admitted[k] \subseteq Grants
  BY <1>0 DEF IInv, TypeOK, ClockOK, EndsWith, Waiting, Ended, InFlight
<1>2. n \in Nat \ {0} /\ n <= Max
  BY <1>0, <1>1 DEF NewCount
<1>3. /\ NewWindow(k, t) => n = 1
      /\ ~NewWindow(k, t) => n = count[k] + 1 /\ count[k] > 0 /\ w = start[k]
  BY <1>0, <1>1 DEF NewCount, NewWindow
<1>4. /\ w \in 0..MaxTime /\ w <= now
      /\ w - Lag <= t /\ t <= w + Window
      /\ NewWindow(k, t) => OfWindow(k, l, w) = {} /\ w = t
      /\ \A g \in admitted[k] : g.life = l => g.win = w \/ g.win + Window < w
  BY <1>0, <1>1, CountedWindow
<1>5. /\ count' = [count EXCEPT ![k] = n]
      /\ start' = [start EXCEPT ![k] = w]
      /\ admitted' = [admitted EXCEPT ![k] = admitted[k] \cup {g0}]
      /\ call' = [call EXCEPT ![c] = end] /\ end \in Ended /\ now' = now /\ restarts' = l /\ restarts = l
  <2>1. start' = [start EXCEPT ![k] = w]
    BY <1>0 DEF EndsWith, Counts
  <2>2. start'[k] = w
    BY <1>1, <2>1 DEF IInv, TypeOK
  <2> QED
    BY <1>0, <2>1, <2>2 DEF EndsWith, Counts
<1>6. /\ g0.life = l /\ g0.win = w /\ g0.at = t
      /\ g0.copy = Cardinality(Alike(k, l, w, t)) + 1
      /\ g0 \in Grants
  <2>1. Cardinality(Alike(k, l, w, t)) \in Nat
    BY <1>1, FiniteParts DEF IInv
  <2> QED
    BY <1>0, <1>1, <1>4, <2>1 DEF Grant, Grants
<1>7. IsFiniteSet(admitted[k]) /\ g0 \notin admitted[k]
  <2>1. Cardinality(Alike(k, l, w, t)) \in Nat
    BY <1>1, FiniteParts DEF IInv
  <2> QED
    BY <1>1, <1>6, <2>1 DEF IInv, AdmissionsOK
<1>8. NewWindow(k, t) => g0 = First(l, w)
  <2>1. ASSUME NewWindow(k, t)
        PROVE  Cardinality(Alike(k, l, w, t)) = 0
    <3>1. Alike(k, l, w, t) = {}
      BY <1>4, <2>1 DEF OfWindow, Alike
    <3> QED
      BY <3>1, FS_EmptySet, Zenon
  <2> QED
    BY <1>0, <1>4, <2>1 DEF Grant, First
<1>9. OfWindow(k, l, w)' = OfWindow(k, l, w) \cup {g0}
  BY <1>1, <1>5, <1>6 DEF OfWindow, IInv, TypeOK
<1>10. Cardinality(OfWindow(k, l, w)) = n - 1
  <2>1. CASE NewWindow(k, t)
    <3>1. Cardinality(OfWindow(k, l, w)) = 0
      BY <1>4, <2>1, FS_EmptySet, Zenon
    <3> QED
      BY <1>3, <2>1, <3>1
  <2>2. CASE ~NewWindow(k, t)
    BY <1>0, <1>1, <1>2, <1>3, <2>2 DEF IInv, WindowsFilled
  <2> QED
    BY <2>1, <2>2
<1>11. Cardinality(OfWindow(k, l, w)') = n
  <2>1. IsFiniteSet(OfWindow(k, l, w)) /\ g0 \notin OfWindow(k, l, w)
    <3>1. IsFiniteSet(OfWindow(k, l, w))
      BY <1>1, FiniteParts DEF IInv
    <3>2. g0 \notin OfWindow(k, l, w)
      BY <1>7 DEF OfWindow
    <3> QED
      BY <3>1, <3>2
  <2>2. Cardinality(OfWindow(k, l, w) \cup {g0}) = Cardinality(OfWindow(k, l, w)) + 1
    BY <2>1, FS_AddElement
  <2> QED
    BY <1>2, <1>9, <1>10, <2>2
<1>12. First(l, w) \in admitted'[k]
  <2>1. CASE NewWindow(k, t)
    BY <1>1, <1>5, <1>8, <2>1 DEF IInv, TypeOK
  <2>2. CASE ~NewWindow(k, t)
    <3>1. OfWindow(k, l, w) # {}
      <4>1. Cardinality(OfWindow(k, l, w)) > 0
        BY <1>1, <1>3, <1>10, <2>2
      <4> QED
        BY <4>1, FS_EmptySet
    <3>2. PICK g \in admitted[k] : g.life = l /\ g.win = w
      BY <3>1 DEF OfWindow
    <3>3. First(l, w) \in admitted[k]
      BY <1>1, <3>2 DEF IInv, AdmissionsOK
    <3> QED
      BY <1>1, <1>5, <3>3 DEF IInv, TypeOK
  <2> QED
    BY <2>1, <2>2
<1>13. /\ admitted'[k] = admitted[k] \cup {g0} /\ count'[k] = n /\ start'[k] = w
       /\ \A j \in Keys : j # k => /\ admitted'[j] = admitted[j]
                                   /\ count'[j] = count[j] /\ start'[j] = start[j]
  BY <1>1, <1>5 DEF IInv, TypeOK
<1>14. TypeOK'
  BY <1>1, <1>2, <1>4, <1>5, <1>6 DEF IInv, TypeOK
<1>15. ClockOK'
  BY <1>4, <1>5, <1>13 DEF IInv, TypeOK, ClockOK, Waiting, Ended
<1>16. AdmissionsOK'
  <2>1. ASSUME NEW j \in Keys, j # k
        PROVE  \A m, v, u : Alike(j, m, v, u)' = Alike(j, m, v, u)
    BY <1>13, <2>1 DEF Alike
  <2>2. IsFiniteSet(admitted'[k])
    BY <1>7, <1>13, FS_AddElement
  <2>3. ASSUME NEW g \in admitted[k]
        PROVE  g.copy <= Cardinality(Alike(k, g.life, g.win, g.at)')
    <3>1. Alike(k, g.life, g.win, g.at) \subseteq Alike(k, g.life, g.win, g.at)'
      BY <1>13 DEF Alike
    <3>2. IsFiniteSet(Alike(k, g.life, g.win, g.at)')
      <4>1. Alike(k, g.life, g.win, g.at)' \subseteq admitted'[k]
        BY DEF Alike
      <4> QED
        BY <2>2, <4>1, FS_Subset
    <3>3. /\ Cardinality(Alike(k, g.life, g.win, g.at)) \in Nat
          /\ Cardinality(Alike(k, g.life, g.win, g.at)') \in Nat
          /\ Cardinality(Alike(k, g.life, g.win, g.at)) <= Cardinality(Alike(k, g.life, g.win, g.at)')
      BY <3>1, <3>2, FS_Subset, FS_CardinalityType
    <3>4. g.copy \in Nat /\ g.copy <= Cardinality(Alike(k, g.life, g.win, g.at))
      BY <1>1 DEF IInv, AdmissionsOK, Grants
    <3> QED
      BY <3>3, <3>4
  <2>4. g0.copy <= Cardinality(Alike(k, g0.life, g0.win, g0.at)')
    <3>1. Alike(k, l, w, t)' = Alike(k, l, w, t) \cup {g0}
      BY <1>5, <1>6, <1>13 DEF Alike
    <3>2. /\ IsFiniteSet(Alike(k, l, w, t)) /\ Cardinality(Alike(k, l, w, t)) \in Nat
          /\ g0 \notin Alike(k, l, w, t)
      <4>1. IsFiniteSet(Alike(k, l, w, t)) /\ Cardinality(Alike(k, l, w, t)) \in Nat
        BY <1>1, FiniteParts DEF IInv
      <4>2. g0 \notin Alike(k, l, w, t)
        BY <1>7 DEF Alike
      <4> QED
        BY <4>1, <4>2
    <3>3. Cardinality(Alike(k, l, w, t)') = Cardinality(Alike(k, l, w, t)) + 1
      BY <3>1, <3>2, FS_AddElement
    <3> QED
      BY <1>6, <3>2, <3>3
  <2>5. ASSUME NEW g \in admitted[k]
        PROVE  /\ g.life <= restarts'
               /\ g.win - Lag <= g.at /\ g.at <= g.win + Window
               /\ First(g.life, g.win) \in admitted'[k]
               /\ g.life = restarts' =>
                    count'[k] > 0 /\ (g.win = start'[k] \/ g.win + Window < start'[k])
    BY <1>1, <1>2, <1>4, <1>5, <1>13 DEF IInv, AdmissionsOK
  <2>6. /\ g0.life <= restarts'
        /\ g0.win - Lag <= g0.at /\ g0.at <= g0.win + Window
        /\ First(g0.life, g0.win) \in admitted'[k]
        /\ count'[k] > 0 /\ g0.win = start'[k]
    BY <1>1, <1>2, <1>4, <1>5, <1>6, <1>12, <1>13
  <2>7. ASSUME NEW j \in Keys
        PROVE  /\ IsFiniteSet(admitted'[j])
               /\ \A g \in admitted'[j] :
                    /\ g.life <= restarts'
                    /\ g.win - Lag <= g.at /\ g.at <= g.win + Window
                    /\ First(g.life, g.win) \in admitted'[j]
                    /\ g.copy <= Cardinality(Alike(j, g.life, g.win, g.at)')
                    /\ g.life = restarts' =>
                         count'[j] > 0 /\ (g.win = start'[j] \/ g.win + Window < start'[j])
    <3>1. CASE j = k
      BY <1>13, <2>2, <2>3, <2>4, <2>5, <2>6, <3>1
    <3>2. CASE j # k
      BY <1>5, <1>13, <2>1, <3>2 DEF IInv, AdmissionsOK
    <3> QED
      BY <3>1, <3>2
  <2> QED
    BY <2>7 DEF AdmissionsOK, First
<1>17. WindowsApart'
  <2>1. ASSUME NEW j \in Keys, NEW g \in admitted'[j], NEW h \in admitted'[j],
               g.life = h.life, g.win < h.win
        PROVE  g.win + Window < h.win
    <3>1. CASE j # k \/ (g \in admitted[k] /\ h \in admitted[k])
      BY <1>13, <2>1, <3>1 DEF IInv, WindowsApart
    <3>2. CASE j = k /\ g \in admitted[k] /\ h = g0
      BY <1>1, <1>4, <1>6, <2>1, <3>2 DEF Grants
    <3>3. CASE j = k /\ g = g0 /\ h \in admitted[k]
      <4>1. h.win = w \/ h.win + Window < w
        BY <1>4, <1>6, <2>1, <3>3
      <4>2. h.win \in Nat /\ w \in Nat
        BY <1>1, <1>4, <3>3 DEF Grants
      <4> QED
        BY <1>6, <2>1, <3>3, <4>1, <4>2
    <3>4. CASE j = k /\ g = g0 /\ h = g0
      BY <1>4, <1>6, <2>1, <3>4
    <3> QED
      BY <1>13, <3>1, <3>2, <3>3, <3>4
  <2> QED
    BY <2>1 DEF WindowsApart
<1>18. WindowsFilled'
  <2>1. \A j \in Keys : \A m, v :
            ~(j = k /\ m = l /\ v = w) => OfWindow(j, m, v)' = OfWindow(j, m, v)
    BY <1>6, <1>13 DEF OfWindow
  <2>2. ASSUME NEW j \in Keys, NEW m \in 0..MaxRestarts, NEW v \in 0..MaxTime
        PROVE  Cardinality(OfWindow(j, m, v)') <= Max
    BY <1>2, <1>11, <2>1 DEF IInv, WindowsFilled
  <2>3. ASSUME NEW j \in Keys, count'[j] > 0
        PROVE  Cardinality(OfWindow(j, restarts, start[j])') = IF count'[j] > Max THEN Max ELSE count'[j]
    <3>1. CASE j = k
      BY <1>2, <1>5, <1>11, <1>13, <3>1
    <3>2. CASE j # k
      BY <1>5, <1>13, <2>1, <2>3, <3>2 DEF IInv, WindowsFilled
    <3> QED
      BY <3>1, <3>2
  <2> QED
    BY <2>2, <2>3 DEF WindowsFilled
<1> QED
  BY <1>14, <1>15, <1>16, <1>17, <1>18 DEF IInv

-----------------------------------------------------------------------------
(* The invariant *)

LEMMA StepIInv == IInv /\ [Next]_vars => IInv'
<1> SUFFICES ASSUME IInv, [Next]_vars
             PROVE  IInv'
  OBVIOUS
<1> USE RateLimitAssumption
<1>1. ASSUME count' = count, start' = start, admitted' = admitted, restarts' = restarts
      PROVE  AdmissionsOK' /\ WindowsApart' /\ WindowsFilled'
  BY <1>1 DEF IInv, AdmissionsOK, WindowsApart, WindowsFilled, Alike, OfWindow
<1>2. ASSUME NEW c \in Calls, NEW k \in Keys, Begin(c, k)
      PROVE  IInv'
  <2>1. TypeOK'
    BY <1>2 DEF Begin, IInv, TypeOK, InFlight
  <2>2. ClockOK'
    BY <1>2 DEF Begin, IInv, TypeOK, ClockOK, Waiting
  <2> QED
    BY <1>1, <1>2, <2>1, <2>2 DEF Begin, IInv
<1>3. ASSUME NEW c \in Calls, Upsert(c) \/ Unheard(c)
      PROVE  IInv'
  <2>1. PICK end \in Ended : EndsWith(c, end)
    BY <1>3, UpsertEnds
  <2> QED
    BY <2>1, UpsertRefuses, UpsertGrants
<1>4. ASSUME NEW c \in Calls, Drop(c)
      PROVE  IInv'
  <2>1. PICK end \in Ended : call' = [call EXCEPT ![c] = end]
    BY <1>4 DEF Drop, Ended
  <2>2. TypeOK' /\ ClockOK'
    BY <1>4, <2>1 DEF Drop, IInv, TypeOK, ClockOK, Waiting, Ended
  <2> QED
    BY <1>1, <1>4, <2>2 DEF Drop, IInv
<1>5. ASSUME Tick
      PROVE  IInv'
  <2>1. TypeOK'
    BY <1>5 DEF Tick, IInv, TypeOK
  <2>2. \A c \in Calls : Waiting(c) => call[c].at \in Nat
    BY DEF IInv, TypeOK, InFlight, Ended, Waiting
  <2>3. ClockOK'
    BY <1>5, <2>2 DEF Tick, IInv, TypeOK, ClockOK, Waiting
  <2> QED
    BY <1>1, <1>5, <2>1, <2>3 DEF Tick, IInv
<1>6. ASSUME PgCrash
      PROVE  IInv'
  <2>1. TypeOK' /\ ClockOK'
    BY <1>6 DEF PgCrash, IInv, TypeOK, ClockOK, Waiting, Ended
  <2>2. AdmissionsOK' /\ WindowsApart' /\ WindowsFilled'
    <3>1. \A k \in Keys : \A g \in admitted[k] : g.life \in Nat /\ g.life <= restarts
      BY DEF IInv, TypeOK, Grants, AdmissionsOK
    <3>2. \A k \in Keys : \A g \in admitted[k] : g.life <= restarts' /\ g.life # restarts'
      BY <1>6, <3>1 DEF PgCrash, IInv, TypeOK
    <3>3. AdmissionsOK'
      BY <1>6, <3>2 DEF PgCrash, IInv, AdmissionsOK, Alike
    <3>4. WindowsApart'
      BY <1>6 DEF PgCrash, IInv, WindowsApart
    <3>5. WindowsFilled'
      <4>1. \A k, l, w : OfWindow(k, l, w)' = OfWindow(k, l, w)
        BY <1>6 DEF PgCrash, OfWindow
      <4>2. \A k \in Keys : count'[k] = 0
        BY <1>6 DEF PgCrash
      <4> QED
        BY <4>1, <4>2 DEF IInv, WindowsFilled
    <3> QED
      BY <3>3, <3>4, <3>5
  <2> QED
    BY <2>1, <2>2 DEF IInv
<1>7. CASE UNCHANGED vars
  <2>1. TypeOK' /\ ClockOK'
    BY <1>7 DEF vars, IInv, TypeOK, ClockOK, Waiting
  <2> QED
    BY <1>1, <1>7, <2>1 DEF vars, IInv
<1> QED
  BY <1>2, <1>3, <1>4, <1>5, <1>6, <1>7 DEF Next

\* The count of a window, what it admitted and the clock belong together in
\* every state: upserts that take effect out of the order of their times,
\* cancelled calls and crashes of Postgres keep them so.
THEOREM LimiterInvariant == Spec => []IInv
BY InitIInv, StepIInv, PTL DEF Spec

\* Counts are natural numbers, and windows, calls and admissions are what the table
\* and the checks can hold.
THEOREM LimiterTypeCorrect == Spec => []TypeOK
<1>1. IInv => TypeOK
  BY DEF IInv
<1> QED
  BY <1>1, LimiterInvariant, PTL

-----------------------------------------------------------------------------
(* What is admitted in a stretch *)

\* What one window admits in a stretch: the first request only when the
\* stretch holds the beginning of the window
LEMMA WindowShare ==
    ASSUME IInv, NEW k \in Keys, NEW l, NEW x \in Nat, NEW g \in admitted[k], g.life = l,
           NEW S, S = OfWindow(k, l, g.win) \cap AdmittedFrom(k, l, x)
    PROVE  /\ IsFiniteSet(S) /\ Cardinality(S) \in Nat
           /\ Cardinality(S) <= Max
           /\ g.win \notin x..(x + Window) => Cardinality(S) <= Max - 1
<1> USE RateLimitAssumption
<1> DEFINE W == OfWindow(k, l, g.win)
           f == First(l, g.win)
<1>1. IsFiniteSet(W) /\ Cardinality(W) \in Nat
  BY FiniteParts DEF IInv
<1>2. Cardinality(W) <= Max
  <2>1. g.life \in 0..MaxRestarts /\ g.win \in 0..MaxTime
    BY DEF IInv, TypeOK, Grants
  <2> QED
    BY <2>1 DEF IInv, WindowsFilled
<1>3. f \in W
  BY DEF IInv, AdmissionsOK, First, OfWindow
<1> HIDE DEF W
<1>4. /\ IsFiniteSet(S) /\ Cardinality(S) \in Nat
      /\ Cardinality(S) <= Cardinality(W)
  <2>1. S \subseteq W
    BY DEF W
  <2> QED
    BY <1>1, <2>1, FS_Subset, FS_CardinalityType
<1>5. ASSUME g.win \notin x..(x + Window)
      PROVE  Cardinality(S) <= Max - 1
  <2>1. f \notin S
    BY <1>5 DEF First, AdmittedFrom
  <2>2. S \subseteq W /\ S # W
    BY <1>3, <2>1 DEF W
  <2>3. Cardinality(S) # Cardinality(W)
    BY <1>1, <2>2, FS_Subset
  <2> QED
    BY <1>1, <1>2, <1>4, <2>3
<1> QED
  BY <1>1, <1>2, <1>4, <1>5

\* Windows that meet one stretch begin at most Window + Lag after it
LEMMA StretchWindows ==
    ASSUME IInv, NEW k \in Keys, NEW l, NEW x \in Nat, NEW g \in AdmittedFrom(k, l, x)
    PROVE  /\ g \in admitted[k] /\ g.life = l /\ g.win \in Nat
           /\ x - Window <= g.win /\ g.win <= x + Window + Lag
           /\ \A h \in AdmittedFrom(k, l, x) :
                g.win = h.win \/ g.win + Window < h.win \/ h.win + Window < g.win
<1> USE RateLimitAssumption
<1>1. /\ \A h \in AdmittedFrom(k, l, x) : h \in admitted[k] /\ h.life = l
      /\ \A h \in admitted[k] : h.win \in Nat /\ h.at \in Nat
      /\ g.at \in x..(x + Window)
  BY DEF IInv, TypeOK, Grants, AdmittedFrom
<1>2. x - Window <= g.win /\ g.win <= x + Window + Lag
  BY <1>1 DEF IInv, AdmissionsOK
<1>3. ASSUME NEW h \in AdmittedFrom(k, l, x)
      PROVE  g.win = h.win \/ g.win + Window < h.win \/ h.win + Window < g.win
  BY <1>1 DEF IInv, WindowsApart
<1> QED
  BY <1>1, <1>2, <1>3

\* Of four windows that meet a stretch two are the same, when no statement
\* waits longer than a window
LEMMA ThreeWindows ==
    ASSUME IInv, Lag <= Window, NEW k \in Keys, NEW l, NEW x \in Nat,
           NEW g1 \in AdmittedFrom(k, l, x), NEW g2 \in AdmittedFrom(k, l, x),
           NEW g3 \in AdmittedFrom(k, l, x), NEW g4 \in AdmittedFrom(k, l, x),
           g1.win # g2.win, g1.win # g3.win, g2.win # g3.win
    PROVE  g4.win = g1.win \/ g4.win = g2.win \/ g4.win = g3.win
<1> USE RateLimitAssumption
<1>1. ASSUME NEW a \in Nat, NEW b \in Nat, NEW c \in Nat, NEW d \in Nat,
             a + Window < b, b + Window < c, c + Window < d,
             x - Window <= a, d <= x + Window + Lag
      PROVE  FALSE
  BY <1>1
<1>2. \A g \in {g1, g2, g3, g4} :
        g.win \in Nat /\ x - Window <= g.win /\ g.win <= x + Window + Lag
  BY StretchWindows
<1>3. \A g, h \in {g1, g2, g3, g4} :
        g.win = h.win \/ g.win + Window < h.win \/ h.win + Window < g.win
  BY StretchWindows
<1> QED
  BY <1>1, <1>2, <1>3

LEMMA UnionBound ==
    ASSUME NEW S, IsFiniteSet(S), NEW T, IsFiniteSet(T)
    PROVE  /\ IsFiniteSet(S \cup T) /\ Cardinality(S \cup T) \in Nat
           /\ Cardinality(S) \in Nat /\ Cardinality(T) \in Nat
           /\ Cardinality(S \cup T) <= Cardinality(S) + Cardinality(T)
<1>1. IsFiniteSet(S \cup T) /\ IsFiniteSet(S \cap T)
  BY FS_Union, FS_Intersection
<1>2. Cardinality(S \cup T) = Cardinality(S) + Cardinality(T) - Cardinality(S \cap T)
  BY FS_Union
<1>3. /\ Cardinality(S) \in Nat /\ Cardinality(T) \in Nat
      /\ Cardinality(S \cup T) \in Nat /\ Cardinality(S \cap T) \in Nat
  BY <1>1, FS_CardinalityType
<1> QED
  BY <1>1, <1>2, <1>3

\* Three windows at most share a stretch, and it holds the beginning of one
LEMMA StretchCap ==
    ASSUME IInv, Lag <= Window, NEW k \in Keys, NEW l, NEW x \in Nat
    PROVE  Cardinality(AdmittedFrom(k, l, x)) <= 3 * Max - 2
<1> USE RateLimitAssumption
<1> DEFINE G == AdmittedFrom(k, l, x)
           P(g) == OfWindow(k, l, g.win) \cap G
           Inside(g) == g.win \in x..(x + Window)
<1>1. ASSUME NEW g \in G
      PROVE  /\ g \in P(g) /\ P(g) \subseteq G
             /\ IsFiniteSet(P(g)) /\ Cardinality(P(g)) \in Nat
             /\ Cardinality(P(g)) <= Max
             /\ ~Inside(g) => Cardinality(P(g)) <= Max - 1
             /\ \A h \in G : h.win = g.win => h \in P(g)
  <2>1. g \in admitted[k] /\ g.life = l
    BY DEF AdmittedFrom
  <2>2. /\ IsFiniteSet(P(g)) /\ Cardinality(P(g)) \in Nat
        /\ Cardinality(P(g)) <= Max
        /\ ~Inside(g) => Cardinality(P(g)) <= Max - 1
    BY <2>1, WindowShare
  <2>3. g \in P(g) /\ P(g) \subseteq G /\ \A h \in G : h.win = g.win => h \in P(g)
    BY DEF AdmittedFrom, OfWindow
  <2> QED
    BY <2>2, <2>3
<1>2. ASSUME NEW g \in G, NEW h \in G, Inside(g), Inside(h)
      PROVE  g.win = h.win
  <2>1. g.win \in Nat /\ h.win \in Nat
    BY StretchWindows
  <2>2. g.win = h.win \/ g.win + Window < h.win \/ h.win + Window < g.win
    BY StretchWindows
  <2> QED
    BY <1>2, <2>1, <2>2
<1>3. \A a, b, c, d \in G :
        a.win # b.win /\ a.win # c.win /\ b.win # c.win =>
          d.win = a.win \/ d.win = b.win \/ d.win = c.win
  BY ThreeWindows
<1> HIDE DEF G, P, Inside
<1>4. CASE G = {}
  <2>1. Cardinality(G) = 0
    BY <1>4, FS_EmptySet, Zenon
  <2> QED
    BY <2>1 DEF G
<1>5. CASE G # {}
  <2>1. PICK a \in G : \A g \in G : Inside(g) => g.win = a.win
    BY <1>2, <1>5
  <2>2. CASE G = P(a)
    BY <1>1, <2>2 DEF G
  <2>3. CASE G # P(a)
    <3>1. PICK b \in G : b.win # a.win
      BY <1>1, <2>3
    <3>2. Cardinality(P(b)) <= Max - 1
      BY <1>1, <2>1, <3>1
    <3>3. /\ IsFiniteSet(P(a) \cup P(b))
          /\ Cardinality(P(a) \cup P(b)) \in Nat
          /\ Cardinality(P(a) \cup P(b)) <= 2 * Max - 1
      <4>1. /\ IsFiniteSet(P(a)) /\ IsFiniteSet(P(b)) /\ Cardinality(P(a)) <= Max
        BY <1>1
      <4> QED
        BY <3>2, <4>1, UnionBound
    <3>4. CASE G = P(a) \cup P(b)
      BY <3>3, <3>4 DEF G
    <3>5. CASE G # P(a) \cup P(b)
      <4>1. PICK c \in G : c.win # a.win /\ c.win # b.win
        BY <1>1, <3>5
      <4>2. IsFiniteSet(P(c)) /\ Cardinality(P(c)) <= Max - 1
        BY <1>1, <2>1, <4>1
      <4>3. G = (P(a) \cup P(b)) \cup P(c)
        BY <1>1, <1>3, <3>1, <4>1
      <4>4. Cardinality((P(a) \cup P(b)) \cup P(c)) <= 3 * Max - 2
        BY <3>3, <4>2, UnionBound
      <4> QED
        BY <4>3, <4>4 DEF G
    <3> QED
      BY <3>4, <3>5
  <2> QED
    BY <2>2, <2>3
<1> QED
  BY <1>4, <1>5

\* However the statements of a key overtake one another, and whatever is
\* cancelled, fails or goes unheard: no stretch of one window admits more than
\* three windows' shares, two of them without their first request.
THEOREM StretchCapped == Spec => []SlidingCap
<1>1. IInv => SlidingCap
  <2>1. \A x \in 0..MaxTime : x \in Nat
    BY RateLimitAssumption
  <2> QED
    BY <2>1, StretchCap DEF SlidingCap
<1> QED
  BY <1>1, LimiterInvariant, PTL

-----------------------------------------------------------------------------
(* Refusals *)

\* Only its own upsert tells a request "too many attempts"
LEMMA LimitedByUpsert ==
    ASSUME IInv, [Next]_vars, NEW c \in Calls, Limited(c)
    PROVE  /\ call[c] \in InFlight
           /\ NewCount(call[c].key, call[c].at) > Max
<1>1. /\ call[c] \in InFlight /\ call'[c].pc = "limited" /\ call[c].pc = "waiting"
      /\ \A d \in Calls : \A e : d # c => [call EXCEPT ![d] = e][c] = call[c]
      /\ \A e : [call EXCEPT ![c] = e][c] = e
  BY DEF IInv, TypeOK, InFlight, Ended, Limited, Waiting
<1>2. ASSUME NEW d \in Calls, NEW k \in Keys, Begin(d, k)
      PROVE  FALSE
  BY <1>1, <1>2 DEF Begin, Waiting
<1>3. ASSUME NEW d \in Calls, Unheard(d) \/ Drop(d)
      PROVE  FALSE
  BY <1>1, <1>3 DEF Unheard, Drop
<1>4. ~PgCrash /\ ~Tick /\ ~UNCHANGED vars
  BY <1>1 DEF PgCrash, Tick, vars, Waiting
<1>5. ASSUME NEW d \in Calls, Upsert(d)
      PROVE  NewCount(call[c].key, call[c].at) > Max
  BY <1>1, <1>5 DEF Upsert
<1> QED
  BY <1>1, <1>2, <1>3, <1>4, <1>5 DEF Next

LEMMA RefusalStep ==
    ASSUME IInv, [Next]_vars, NEW c \in Calls, Limited(c)
    PROVE  Cardinality(AdmittedSince(call[c].key, call[c].at - Window - Lag)) >= Max
<1> USE RateLimitAssumption
<1> DEFINE k == call[c].key
           t == call[c].at
           W == OfWindow(k, restarts, start[k])
           S == AdmittedSince(k, t - Window - Lag)
<1>1. k \in Keys /\ t \in Nat /\ NewCount(k, t) > Max
  BY LimitedByUpsert DEF InFlight
<1>2. /\ start[k] \in Nat /\ count[k] \in Nat
      /\ ~NewWindow(k, t) /\ count[k] >= Max /\ t - Window <= start[k]
  BY <1>1 DEF NewCount, NewWindow, Expired, IInv, TypeOK
<1>3. Cardinality(W) = Max
  BY <1>1, <1>2 DEF IInv, WindowsFilled
<1>4. W \subseteq S
  <2>1. ASSUME NEW g \in admitted[k], g.win = start[k]
        PROVE  g.at >= t - Window - Lag
    <3>1. g.at \in Nat /\ start[k] - Lag <= g.at
      BY <1>1, <2>1 DEF IInv, TypeOK, Grants, AdmissionsOK
    <3> QED
      BY <1>1, <1>2, <3>1
  <2> QED
    BY <2>1 DEF OfWindow, AdmittedSince
<1>5. IsFiniteSet(S)
  <2>1. IsFiniteSet(admitted[k]) /\ S \subseteq admitted[k]
    BY <1>1 DEF IInv, AdmissionsOK, AdmittedSince
  <2> QED
    BY <2>1, FS_Subset
<1> HIDE DEF W, S, k, t
<1>6. Cardinality(S) \in Nat /\ Cardinality(W) <= Cardinality(S)
  BY <1>4, <1>5, FS_Subset, FS_CardinalityType
<1> QED
  BY <1>3, <1>6 DEF S, k, t

\* Who is told "too many attempts" comes after Max admitted requests of the
\* key, none of them older by more than a window and the longest wait, whatever
\* was cancelled, failed, left unheard or lost in a crash of Postgres.
THEOREM RefusalsEarned == Spec => RefusalIsEarned
<1>1. IInv /\ [Next]_vars =>
        \A c \in Calls : Limited(c) =>
          Cardinality(AdmittedSince(call[c].key, call[c].at - Window - Lag)) >= Max
  BY RefusalStep
<1> QED
  BY <1>1, LimiterInvariant, PTL DEF Spec, RefusalIsEarned
=============================================================================
