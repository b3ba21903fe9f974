--------------------------- MODULE Failover_proofs ---------------------------
(* Theorems about Cluster and Failover, for every number of endpoints and   *)
(* callers, every pick order and every backoff.                             *)
EXTENDS Failover, WellFoundedInduction, TLAPS

\* The provers tried on a step that names none, and their time.
USE SMTT(30), Z3T(30), ZenonT(30)

-----------------------------------------------------------------------------
(* The cyclic scan of Pick and MarkFailed.                                  *)

\* A non-empty set of naturals has a least element.
LEMMA LeastNat ==
    ASSUME NEW T \in SUBSET Nat, T # {}
    PROVE  \E x \in T : \A y \in T : x <= y
<1>1. PICK x \in T : \A y \in T : ~(<<y, x>> \in OpToRel(<, Nat))
  BY NatLessThanWellFounded, WFMin, Zenon
<1>2. \A y \in T : ~(y < x)
  BY <1>1, Zenon DEF OpToRel
<1> QED
  BY <1>2

\* Positions are at a distance of 0 to N-1, and only a position is at
\* distance 0 from itself.
LEMMA DistType ==
    ASSUME NEW a \in Endpoint, NEW p \in Endpoint
    PROVE  Dist(a, p) \in 0 .. N - 1 /\ (Dist(a, p) = 0 <=> p = a)
  BY ClusterAssumption DEF Endpoint, Dist

\* The scan finds the nearest usable position when there is one.
LEMMA FirstUsableFinds ==
    ASSUME NEW a \in Endpoint, NEW cool, Usable(cool) # {}
    PROVE  /\ FirstUsable(a, cool) \in Usable(cool)
           /\ \A q \in Usable(cool) : Dist(a, FirstUsable(a, cool)) <= Dist(a, q)
<1> DEFINE T == {Dist(a, p) : p \in Usable(cool)}
<1>1. T \in SUBSET Nat /\ T # {}
  BY DistType, ClusterAssumption DEF Usable
<1>2. PICK d \in T : \A y \in T : d <= y
  BY <1>1, LeastNat, Zenon
<1>3. PICK p \in Usable(cool) : d = Dist(a, p)
  OBVIOUS
<1>4. \A q \in Usable(cool) : Dist(a, p) <= Dist(a, q)
  BY <1>2, <1>3
<1> QED
  BY <1>4 DEF FirstUsable

\* A usable position is the first one at or after itself.
LEMMA FirstUsableHere ==
    ASSUME NEW cool, NEW a \in Usable(cool)
    PROVE  FirstUsable(a, cool) = a
<1>1. a \in Endpoint /\ Usable(cool) \subseteq Endpoint
  BY DEF Usable
<1>2. \A q \in Usable(cool) : Dist(a, a) <= Dist(a, q)
  BY <1>1, DistType, ClusterAssumption
<1>3. ASSUME NEW p \in Usable(cool), \A q \in Usable(cool) : Dist(a, p) <= Dist(a, q)
      PROVE  p = a
  BY <1>1, <1>3, DistType, ClusterAssumption
<1> QED
  BY <1>2, <1>3 DEF FirstUsable

\* posOf inverts the pick order.
LEMMA PosOfInverts ==
    ASSUME Permutation(order), NEW p \in Endpoint
    PROVE  PosOf(order[p]) = p
  BY DEF Permutation, PosOf

\* After is the next position.
LEMMA AfterType ==
    ASSUME NEW p \in Endpoint
    PROVE  After(p) \in Endpoint /\ (p + 1 \in Endpoint => After(p) = p + 1)
  BY ClusterAssumption DEF Endpoint, After

-----------------------------------------------------------------------------
(* Types and backoff bounds.                                                *)

CInv == CTypeOK /\ BackoffBounded

\* Nothing but the cluster's own operations can disturb it.
LEMMA CKeeps == CInv /\ UNCHANGED cvars => CInv'
  BY DEF CInv, CTypeOK, Permutation, BackoffBounded, CoolingAt, cvars

\* A new cluster has no cooldown.
LEMMA CStarts == CInit => CInv
  BY ClusterAssumption DEF CInit, CInv, CTypeOK, BackoffBounded, CoolingAt, Endpoint

\* Pick moves the active position only, to an endpoint.
LEMMA PickKeeps ==
    ASSUME CInv, NEW e \in Endpoint, Pick(e)
    PROVE  CInv'
<1>1. pos' \in Endpoint
  BY FirstUsableFinds DEF Pick, CInv, CTypeOK, Usable
<1> QED
  BY <1>1 DEF Pick, CInv, CTypeOK, Permutation, BackoffBounded, CoolingAt

\* MarkFailed draws a cooldown below a ceiling within the backoff range.
LEMMA FailedKeeps ==
    ASSUME CInv, NEW e \in Endpoint, MarkFailed(e)
    PROVE  CInv'
<1> DEFINE ceiling == Double(level[e])
<1>0. level[e] \in 0 .. MaxBackoff /\ (level[e] # 0 => level[e] >= MinBackoff)
  BY ClusterAssumption DEF CInv, CTypeOK, BackoffBounded
<1>1. ceiling \in MinBackoff .. MaxBackoff
  BY <1>0, ClusterAssumption DEF Double
<1> HIDE DEF ceiling
<1>2. PICK jitter \in 0 .. ceiling - 1 :
        /\ level' = [level EXCEPT ![e] = ceiling]
        /\ cooldown' = [cooldown EXCEPT ![e] = jitter]
        /\ pos' = IF Usable(cooldown') = {} THEN pos
                  ELSE FirstUsable(After(PosOf(e)), cooldown')
        /\ order' = order
  BY Zenon DEF MarkFailed, ceiling
<1>3. PosOf(e) \in Endpoint
  BY DEF CInv, CTypeOK, Permutation, PosOf
<1>4. pos' \in Endpoint
  BY <1>2, <1>3, AfterType, FirstUsableFinds, Zenon DEF CInv, CTypeOK, Usable
<1>5. /\ cooldown' \in [Endpoint -> 0 .. MaxBackoff]
      /\ level' \in [Endpoint -> 0 .. MaxBackoff]
  BY <1>1, <1>2, ClusterAssumption DEF CInv, CTypeOK
<1>6. BackoffBounded'
  BY <1>1, <1>2, ClusterAssumption DEF CInv, CTypeOK, BackoffBounded, CoolingAt
<1> QED
  BY <1>2, <1>4, <1>5, <1>6, Zenon DEF CInv, CTypeOK, Permutation

\* MarkHealthy clears one endpoint's cooldown and ceiling.
LEMMA HealthyKeeps ==
    ASSUME CInv, NEW e \in Endpoint, MarkHealthy(e)
    PROVE  CInv'
  BY ClusterAssumption
  DEF MarkHealthy, CInv, CTypeOK, Permutation, BackoffBounded, CoolingAt

\* Time only shortens cooldowns.
LEMMA TickKeeps == CInv /\ Tick => CInv'
  BY ClusterAssumption
  DEF Tick, CInv, CTypeOK, Permutation, BackoffBounded, CoolingAt

\* fn is started at most once per attempt.
RanBounded ==
    \A p \in Callers :
        /\ ran[p] <= tries[p]
        /\ st[p] = "acquire" => ran[p] < tries[p]

\* Every step keeps the cluster's types and backoff bounds.
LEMMA CInvNext == CInv /\ FTypeOK /\ [Next]_fvars => CInv'
<1> SUFFICES ASSUME CInv, FTypeOK, [Next]_fvars PROVE CInv'
  OBVIOUS
<1>1. CASE NewPick
  BY <1>1, PickKeeps DEF NewPick
<1>2. CASE NewDialOk
  BY <1>2, CKeeps DEF NewDialOk
<1>3. CASE NewDialFail
  BY <1>3, FailedKeeps, Zenon DEF NewDialFail, Active, CInv, CTypeOK, Permutation
<1>4. CASE NewGivesUp
  BY <1>4, CKeeps DEF NewGivesUp
<1>5. ASSUME NEW p \in Callers, NEW read \in BOOLEAN, Begin(p, read)
      PROVE  CInv'
  BY <1>5, CKeeps DEF Begin
<1>6. ASSUME NEW p \in Callers, DoStep(p) PROVE CInv'
  <2>1. CASE DoPick(p)
    BY <2>1, PickKeeps DEF DoPick
  <2>2. CASE DoExhausted(p)
    BY <2>2, CKeeps DEF DoExhausted
  <2>3. CASE Acquired(p)
    BY <2>3, CKeeps DEF Acquired
  <2>4. CASE AcquireClosed(p)
    BY <2>4, CKeeps DEF AcquireClosed
  <2>5. CASE AcquireFails(p)
    BY <2>5, CKeeps DEF AcquireFails
  <2>6. CASE AcquireErr(p)
    BY <2>6, FailedKeeps, CKeeps DEF AcquireErr, FTypeOK
  <2>7. CASE FnAnswered(p)
    BY <2>7, CKeeps DEF FnAnswered
  <2>8. CASE FnUnavailable(p)
    BY <2>8, CKeeps DEF FnUnavailable
  <2>9. CASE Answered(p)
    BY <2>9, HealthyKeeps DEF Answered, FTypeOK
  <2>10. CASE Unavailable(p)
    BY <2>10, FailedKeeps, CKeeps DEF Unavailable, FTypeOK
  <2> QED
    BY <1>6, <2>1, <2>2, <2>3, <2>4, <2>5, <2>6, <2>7, <2>8, <2>9, <2>10
    DEF DoStep
<1>7. ASSUME NEW p \in Callers, CtxStep(p) PROVE CInv'
  BY <1>7, CKeeps DEF CtxStep
<1>8. CASE Close
  BY <1>8, CKeeps DEF Close
<1>9. CASE ProbeStart
  BY <1>9, CKeeps DEF ProbeStart
<1>10. ASSUME NEW e \in Endpoint, ProbeOk(e) PROVE CInv'
  BY <1>10, HealthyKeeps DEF ProbeOk
<1>11. ASSUME NEW e \in Endpoint, ProbeFails(e) PROVE CInv'
  BY <1>11, CKeeps DEF ProbeFails
<1>12. CASE Time
  BY <1>12, TickKeeps DEF Time
<1>13. CASE NewCancel
  BY <1>13, CKeeps DEF NewCancel
<1>14. CASE UNCHANGED fvars
  BY <1>14, CKeeps DEF fvars
<1> QED
  BY <1>1, <1>2, <1>3, <1>4, <1>5, <1>6, <1>7, <1>8, <1>9,
    <1>10, <1>11, <1>12, <1>13, <1>14
  DEF Next, NewStep

\* do's return clears its locals.
LEMMA ReturnTyped ==
    ASSUME FTypeOK, RanBounded, NEW p \in Callers, NEW r, Return(p, r),
           UNCHANGED <<newVars, closed, probing>>
    PROVE  FTypeOK' /\ RanBounded'
<1>1. 0 \in Endpoint /\ 0 \in 0 .. MaxRetries /\ 0 <= 0
  BY FailoverAssumption, ClusterAssumption DEF Endpoint
<1>2. PICK v \in Result : res' = [res EXCEPT ![p] = v]
  BY Zenon DEF Return, Result
<1>3. /\ st' = [st EXCEPT ![p] = "out"]
      /\ idem' = [idem EXCEPT ![p] = TRUE]
      /\ ep' = [ep EXCEPT ![p] = 0]
      /\ tries' = [tries EXCEPT ![p] = 0]
      /\ ran' = [ran EXCEPT ![p] = 0]
      /\ ctx' = [ctx EXCEPT ![p] = "live"]
  BY DEF Return, Goto
<1>4. FTypeOK'
  BY <1>1, <1>2, <1>3 DEF FTypeOK, State, newVars
<1>5. RanBounded'
  BY <1>1, <1>3 DEF FTypeOK, RanBounded
<1> QED
  BY <1>4, <1>5

\* Every step keeps the types of New's and the calls' state.
LEMMA FTypeNext == CInv /\ FTypeOK /\ RanBounded /\ [Next]_fvars => FTypeOK' /\ RanBounded'
<1> SUFFICES ASSUME CInv, FTypeOK, RanBounded, [Next]_fvars
             PROVE  FTypeOK' /\ RanBounded'
  OBVIOUS
<1>0. 0 \in Endpoint /\ 0 \in 0 .. MaxRetries
  BY FailoverAssumption, ClusterAssumption DEF Endpoint
<1> USE FailoverAssumption, ClusterAssumption, <1>0
    DEF FTypeOK, RanBounded, State, Result
<1>1. CASE NewPick
  BY <1>1 DEF NewPick, doVars
<1>2. CASE NewDialOk
  BY <1>2 DEF NewDialOk, doVars
<1>3. CASE NewDialFail
  BY <1>3 DEF NewDialFail, doVars, Active, CInv, CTypeOK, Permutation
<1>4. CASE NewGivesUp
  BY <1>4 DEF NewGivesUp, doVars
<1>5. ASSUME NEW p \in Callers, NEW read \in BOOLEAN, Begin(p, read)
      PROVE  FTypeOK' /\ RanBounded'
  BY <1>5 DEF Begin, Goto, newVars
<1>6. ASSUME NEW p \in Callers, DoStep(p) PROVE FTypeOK' /\ RanBounded'
  <2>1. CASE DoPick(p)
    BY <2>1 DEF DoPick, Goto, newVars
  <2>2. CASE DoExhausted(p)
    BY <2>2, ReturnTyped DEF DoExhausted
  <2>3. CASE Acquired(p)
    BY <2>3 DEF Acquired, Goto, newVars
  <2>4. CASE AcquireClosed(p)
    BY <2>4, ReturnTyped DEF AcquireClosed
  <2>5. CASE AcquireFails(p)
    BY <2>5 DEF AcquireFails, Goto, newVars
  <2>6. CASE AcquireErr(p)
    <3>1. CASE ctx[p] = "done"
      BY <2>6, <3>1, ReturnTyped DEF AcquireErr
    <3>2. CASE ctx[p] # "done"
      BY <2>6, <3>2 DEF AcquireErr, Goto, newVars
    <3> QED
      BY <3>1, <3>2
  <2>7. CASE FnAnswered(p)
    BY <2>7 DEF FnAnswered, Goto, newVars
  <2>8. CASE FnUnavailable(p)
    BY <2>8 DEF FnUnavailable, Goto, newVars
  <2>9. CASE Answered(p)
    BY <2>9, ReturnTyped DEF Answered
  <2>10. CASE Unavailable(p)
    <3>1. CASE ctx[p] = "done"
      BY <2>10, <3>1, ReturnTyped DEF Unavailable
    <3>2. CASE ctx[p] # "done" /\ idem[p]
      BY <2>10, <3>2 DEF Unavailable, Goto, newVars
    <3>3. CASE ctx[p] # "done" /\ ~idem[p]
      BY <2>10, <3>3, ReturnTyped DEF Unavailable
    <3> QED
      BY <3>1, <3>2, <3>3
  <2> QED
    BY <1>6, <2>1, <2>2, <2>3, <2>4, <2>5, <2>6, <2>7, <2>8, <2>9, <2>10
    DEF DoStep
<1>7. ASSUME NEW p \in Callers, CtxStep(p) PROVE FTypeOK' /\ RanBounded'
  BY <1>7 DEF CtxStep, newVars
<1>8. CASE Close
  BY <1>8 DEF Close, doVars, newVars
<1>9. CASE ProbeStart
  BY <1>9 DEF ProbeStart, doVars, newVars, Cooling
<1>10. ASSUME NEW e \in Endpoint, ProbeOk(e) PROVE FTypeOK' /\ RanBounded'
  BY <1>10 DEF ProbeOk, doVars, newVars
<1>11. ASSUME NEW e \in Endpoint, ProbeFails(e) PROVE FTypeOK' /\ RanBounded'
  BY <1>11 DEF ProbeFails, doVars, newVars
<1>12. CASE Time
  BY <1>12 DEF Time, doVars, newVars
<1>13. CASE NewCancel
  BY <1>13 DEF NewCancel, doVars
<1>14. CASE UNCHANGED fvars
  BY <1>14 DEF fvars, doVars, newVars
<1> QED
  BY <1>1, <1>2, <1>3, <1>4, <1>5, <1>6, <1>7, <1>8, <1>9,
    <1>10, <1>11, <1>12, <1>13, <1>14
  DEF Next, NewStep

TInv == CInv /\ FTypeOK /\ RanBounded

\* The type invariant's strengthening is inductive.
LEMMA TInvariant == Spec => []TInv
<1>1. Init => TInv
  <2> SUFFICES ASSUME Init PROVE TInv
    OBVIOUS
  <2>1. CInv
    BY CStarts DEF Init
  <2>2. 0 \in Endpoint /\ 0 \in 0 .. N /\ 0 \in 0 .. MaxRetries
    BY FailoverAssumption, ClusterAssumption DEF Endpoint
  <2>3. FTypeOK
    BY <2>2, Zenon DEF Init, FTypeOK, State, Result
  <2>4. RanBounded
    BY DEF Init, RanBounded
  <2> QED
    BY <2>1, <2>3, <2>4 DEF TInv
<1>2. TInv /\ [Next]_fvars => TInv'
  BY CInvNext, FTypeNext DEF TInv
<1> QED
  BY <1>1, <1>2, PTL DEF Spec

\* The active position, the cooldowns, New's and every call's state keep
\* their types, however many endpoints, callers and retries there are.
THEOREM TypeCorrect == Spec => []TypeOK
<1>1. TInv => TypeOK
  BY DEF TInv, CInv, TypeOK
<1> QED
  BY <1>1, TInvariant, PTL

\* Doubling and jitter keep every cooldown below its ceiling and every
\* ceiling between minBackoff and maxBackoff.
THEOREM BackoffIsBounded == Spec => []BackoffBounded
<1>1. TInv => BackoffBounded
  BY DEF TInv, CInv
<1> QED
  BY <1>1, TInvariant, PTL

-----------------------------------------------------------------------------
(* Calls with side effects.                                                 *)

\* Before fn runs, a call that may not be retried has not run it.
OnceInv ==
    /\ AtMostOnce
    /\ \A p \in Callers :
          /\ ~idem[p] /\ st[p] \in {"pick", "acquire", "acquireErr"} => ran[p] = 0
          /\ st[p] = "out" => ran[p] = 0

\* Only the calls' own steps can disturb it.
LEMMA OnceKeeps == OnceInv /\ UNCHANGED doVars => OnceInv'
  BY DEF OnceInv, AtMostOnce, doVars

\* A call starts fn only from acquire, and returns to pick only if it may be
\* retried or has not started fn.
LEMMA OnceNext == TInv /\ OnceInv /\ [Next]_fvars => OnceInv'
<1> SUFFICES ASSUME FTypeOK, OnceInv, [Next]_fvars PROVE OnceInv'
  BY DEF TInv
<1>1. ASSUME NEW p \in Callers, NEW read \in BOOLEAN, Begin(p, read)
      PROVE  OnceInv'
  BY <1>1 DEF Begin, Goto, OnceInv, AtMostOnce, FTypeOK
<1>2. ASSUME NEW p \in Callers, DoStep(p) PROVE OnceInv'
  <2> USE DEF OnceInv, AtMostOnce, FTypeOK, Goto, Return
  <2>1. CASE DoPick(p)
    BY <2>1 DEF DoPick
  <2>2. CASE DoExhausted(p) \/ AcquireClosed(p) \/ Answered(p)
    BY <2>2 DEF DoExhausted, AcquireClosed, Answered
  <2>3. CASE Acquired(p)
    BY <2>3 DEF Acquired
  <2>4. CASE AcquireFails(p)
    BY <2>4 DEF AcquireFails
  <2>5. CASE AcquireErr(p)
    BY <2>5 DEF AcquireErr
  <2>6. CASE FnAnswered(p) \/ FnUnavailable(p)
    BY <2>6 DEF FnAnswered, FnUnavailable
  <2>7. CASE Unavailable(p)
    BY <2>7 DEF Unavailable
  <2> QED
    BY <1>2, <2>1, <2>2, <2>3, <2>4, <2>5, <2>6, <2>7, Zenon DEF DoStep
<1>3. ASSUME NEW p \in Callers, CtxStep(p) PROVE OnceInv'
  BY <1>3 DEF CtxStep, OnceInv, AtMostOnce
<1>4. CASE NewStep \/ NewCancel
  BY <1>4, OnceKeeps
  DEF NewStep, NewPick, NewDialOk, NewDialFail, NewGivesUp, NewCancel
<1>5. CASE Close \/ ProbeStart \/ Time
  BY <1>5, OnceKeeps DEF Close, ProbeStart, Time
<1>6. ASSUME NEW e \in Endpoint, ProbeOk(e) \/ ProbeFails(e) PROVE OnceInv'
  BY <1>6, OnceKeeps DEF ProbeOk, ProbeFails
<1>7. CASE UNCHANGED fvars
  BY <1>7, OnceKeeps DEF fvars
<1> QED
  BY <1>1, <1>2, <1>3, <1>4, <1>5, <1>6, <1>7 DEF Next

\* A write's fn is started at most once, through every failover, retry,
\* cancellation and Close.
THEOREM WritesRunOnce == Spec => []AtMostOnce
<1>1. Init => OnceInv
  BY DEF Init, OnceInv, AtMostOnce
<1>2. OnceInv => AtMostOnce
  BY DEF OnceInv
<1> QED
  BY <1>1, <1>2, OnceNext, TInvariant, PTL DEF Spec

-----------------------------------------------------------------------------
(* Endpoints that work.                                                     *)

\* A failed attempt on a working endpoint is the doing of a done context.
GoodInv ==
    /\ GoodNeverCools
    /\ \A p \in Callers :
          /\ ctx[p] # "expired"
          /\ st[p] \in {"acquireErr", "unavailable"} /\ ep[p] \in Good
                => ctx[p] = "done"

\* Only steps of the calls, New and the cluster's failures can disturb it.
LEMMA GoodKeeps ==
    GoodInv /\ UNCHANGED <<cooldown, level, doVars>> /\ (newDone => newDone') => GoodInv'
  BY DEF GoodInv, GoodNeverCools, doVars

\* MarkFailed changes nothing about any other endpoint.
LEMMA FailedSpares ==
    ASSUME CTypeOK, NEW e, e \notin Good, MarkFailed(e), GoodNeverCools,
           newDone => newDone'
    PROVE  GoodNeverCools'
<1>1. \A g \in Good : g \in Endpoint /\ g # e
  BY FailoverAssumption
<1>2. \A g \in Endpoint : g # e => cooldown'[g] = cooldown[g] /\ level'[g] = level[g]
  BY DEF MarkFailed, CTypeOK
<1> QED
  BY <1>1, <1>2 DEF GoodNeverCools

\* Without deadlines a failed attempt on a working endpoint finds ctx.Err()
\* set, and MarkFailed is not called.
LEMMA GoodNext == ~Deadlines /\ TInv /\ GoodInv /\ [Next]_fvars => GoodInv'
<1> SUFFICES ASSUME ~Deadlines, CTypeOK, FTypeOK, GoodInv, [Next]_fvars PROVE GoodInv'
  BY DEF TInv, CInv
<1> USE FailoverAssumption
<1>1. ASSUME NEW p \in Callers, NEW read \in BOOLEAN, Begin(p, read)
      PROVE  GoodInv'
  BY <1>1 DEF Begin, Goto, GoodInv, GoodNeverCools, FTypeOK, cvars, newVars
<1>2. ASSUME NEW p \in Callers, DoStep(p) PROVE GoodInv'
  <2> USE DEF GoodInv, GoodNeverCools, FTypeOK, Goto, Return, cvars, newVars
  <2>1. CASE DoPick(p)
    BY <2>1 DEF DoPick, Pick
  <2>2. CASE DoExhausted(p) \/ AcquireClosed(p)
    BY <2>2 DEF DoExhausted, AcquireClosed
  <2>3. CASE Answered(p)
    BY <2>3 DEF Answered, MarkHealthy, CTypeOK
  <2>4. CASE Acquired(p) \/ FnAnswered(p)
    BY <2>4 DEF Acquired, FnAnswered
  <2>5. CASE AcquireFails(p) \/ FnUnavailable(p)
    BY <2>5 DEF AcquireFails, FnUnavailable
  <2>6. CASE AcquireErr(p)
    <3>1. CASE ctx[p] = "done"
      BY <2>6, <3>1 DEF AcquireErr
    <3>2. CASE ctx[p] # "done"
      <4>1. ep[p] \notin Good /\ MarkFailed(ep[p]) /\ newDone' = newDone
        BY <2>6, <3>2 DEF AcquireErr
      <4>2. GoodNeverCools'
        BY <4>1, FailedSpares
      <4> QED
        BY <2>6, <3>2, <4>2 DEF AcquireErr
    <3> QED
      BY <3>1, <3>2
  <2>7. CASE Unavailable(p)
    <3>1. CASE ctx[p] = "done"
      BY <2>7, <3>1 DEF Unavailable
    <3>2. CASE ctx[p] # "done"
      <4>1. ep[p] \notin Good /\ MarkFailed(ep[p]) /\ newDone' = newDone
        BY <2>7, <3>2 DEF Unavailable
      <4>2. GoodNeverCools'
        BY <4>1, FailedSpares
      <4>3. CASE idem[p]
        BY <2>7, <3>2, <4>2, <4>3 DEF Unavailable
      <4>4. CASE ~idem[p]
        BY <2>7, <3>2, <4>2, <4>4 DEF Unavailable
      <4> QED
        BY <4>3, <4>4
    <3> QED
      BY <3>1, <3>2
  <2> QED
    BY <1>2, <2>1, <2>2, <2>3, <2>4, <2>5, <2>6, <2>7 DEF DoStep
<1>3. ASSUME NEW p \in Callers, CtxStep(p) PROVE GoodInv'
  BY <1>3 DEF CtxStep, GoodInv, GoodNeverCools, FTypeOK, cvars, newVars
<1>4. CASE NewDialFail
  BY <1>4, Zenon DEF NewDialFail, MarkFailed, GoodInv, GoodNeverCools, CTypeOK, doVars
<1>5. CASE NewPick \/ NewDialOk \/ NewGivesUp \/ NewCancel
  BY <1>5, GoodKeeps
  DEF NewPick, Pick, NewDialOk, NewGivesUp, NewCancel, cvars
<1>6. CASE Close \/ ProbeStart
  BY <1>6, GoodKeeps DEF Close, ProbeStart, cvars, newVars
<1>7. CASE Time
  BY <1>7 DEF Time, Tick, GoodInv, GoodNeverCools, doVars, newVars
<1>8. ASSUME NEW e \in Endpoint, ProbeOk(e) PROVE GoodInv'
  BY <1>8 DEF ProbeOk, MarkHealthy, GoodInv, GoodNeverCools, CTypeOK, doVars, newVars
<1>9. ASSUME NEW e \in Endpoint, ProbeFails(e) PROVE GoodInv'
  BY <1>9, GoodKeeps DEF ProbeFails, cvars, newVars
<1>10. CASE UNCHANGED fvars
  BY <1>10, GoodKeeps DEF fvars, cvars, newVars
<1> QED
  BY <1>1, <1>2, <1>3, <1>4, <1>5, <1>6, <1>7, <1>8, <1>9, <1>10 DEF Next, NewStep

\* GoodInv is inductive.
LEMMA GoodInvariant == ASSUME ~Deadlines PROVE Spec => []GoodInv
<1>1. Init => GoodInv
  BY FailoverAssumption DEF Init, CInit, GoodInv, GoodNeverCools
<1>2. TInv /\ GoodInv /\ [Next]_fvars => GoodInv'
  BY GoodNext
<1> QED
  BY <1>1, <1>2, TInvariant, PTL DEF Spec

\* As long as contexts are cancelled and do not carry deadlines, an endpoint
\* that works is never cooled.
THEOREM GoodStaysUsable == ASSUME ~Deadlines PROVE Spec => []GoodNeverCools
<1>1. GoodInv => GoodNeverCools
  BY DEF GoodInv
<1> QED
  BY <1>1, GoodInvariant, PTL

-----------------------------------------------------------------------------
(* New's dial loop.                                                         *)

\* The endpoints at the first k positions.
First(k) == {order[q] : q \in {x \in Endpoint : x < k}}

\* After k failed rounds the first k endpoints of the pick order have
\* refused, the others are not cooling, and the scan stands at position k.
DialLoop(k) ==
    /\ dialed = First(k)
    /\ \A q \in Endpoint : q >= k => cooldown[order[q]] = 0
    /\ k < N => pos = k

NewInv ==
    /\ phase # "ready" => \A p \in Callers : st[p] = "out"
    /\ phase # "ready" => probing = {} /\ ~closed
    /\ phase = "pick" => DialLoop(rounds)
    /\ phase = "dial" => rounds > 0 /\ DialLoop(rounds - 1)
    /\ NewTriesAll

\* Once New has returned, the loop's state is not used any more.
LEMMA NewKeeps == NewInv /\ phase = "ready" /\ UNCHANGED newVars => NewInv'
  BY DEF NewInv, NewTriesAll, newVars

\* A round that fails moves the scan on by exactly one position.
LEMMA DialFailMoves ==
    ASSUME TInv, NewInv, NewDialFail
    PROVE  DialLoop(rounds)'
<1> DEFINE k == rounds - 1
<1>1. /\ rounds \in 1 .. N /\ k \in Endpoint
      /\ DialLoop(k) /\ pos = k /\ Active = order[k]
      /\ Permutation(order)
  <2>1. rounds \in 0 .. N /\ rounds > 0 /\ DialLoop(k) /\ Permutation(order)
    BY DEF TInv, CInv, CTypeOK, FTypeOK, NewInv, NewDialFail
  <2>2. rounds \in 1 .. N /\ k \in Endpoint /\ k < N
    BY <2>1, ClusterAssumption DEF Endpoint
  <2>3. pos = k
    BY <2>1, <2>2 DEF DialLoop
  <2> QED
    BY <2>1, <2>2, <2>3 DEF Active
<1>2. PosOf(Active) = k
  BY <1>1, PosOfInverts
<1>3. /\ order' = order /\ rounds' = rounds
      /\ \A q \in Endpoint : q # k => cooldown'[order[q]] = cooldown[order[q]]
      /\ pos' = IF Usable(cooldown') = {} THEN pos
                ELSE FirstUsable(After(k), cooldown')
  <2>1. PICK jitter : cooldown' = [cooldown EXCEPT ![Active] = jitter]
    BY Zenon DEF NewDialFail, MarkFailed
  <2>2. ASSUME NEW q \in Endpoint, q # k PROVE cooldown'[order[q]] = cooldown[order[q]]
    <3>1. order[q] # order[k] /\ order[q] \in Endpoint
      BY <1>1, <2>2 DEF Permutation
    <3> QED
      BY <1>1, <2>1, <3>1 DEF TInv, CInv, CTypeOK
  <2>3. pos' = IF Usable(cooldown') = {} THEN pos
               ELSE FirstUsable(After(PosOf(Active)), cooldown')
    BY DEF NewDialFail, MarkFailed
  <2> QED
    BY <1>2, <2>2, <2>3 DEF NewDialFail, MarkFailed
<1>4. \A q \in Endpoint : q >= rounds => cooldown'[order[q]] = 0
  <2> SUFFICES ASSUME NEW q \in Endpoint, q >= rounds PROVE cooldown'[order[q]] = 0
    OBVIOUS
  <2>1. q >= k /\ q # k
    BY <1>1, ClusterAssumption DEF Endpoint
  <2> QED
    BY <1>1, <1>3, <2>1 DEF DialLoop
<1>5. rounds < N => pos' = rounds
  <2> SUFFICES ASSUME rounds < N PROVE pos' = rounds
    OBVIOUS
  <2>1. rounds \in Endpoint /\ rounds = k + 1
    BY <1>1, ClusterAssumption DEF Endpoint
  <2>2. rounds \in Usable(cooldown')
    BY <1>4, <2>1 DEF Usable, Endpoint
  <2>3. After(k) = rounds
    BY <1>1, <2>1, AfterType
  <2> QED
    BY <1>3, <2>2, <2>3, FirstUsableHere
<1>6. dialed' = First(rounds)
  <2>1. {x \in Endpoint : x < rounds} = {x \in Endpoint : x < k} \cup {k}
    BY <1>1, ClusterAssumption DEF Endpoint
  <2>2. dialed' = First(k) \cup {order[k]}
    BY <1>1 DEF NewDialFail, DialLoop
  <2> QED
    BY <2>1, <2>2 DEF First
<1> QED
  BY <1>3, <1>4, <1>5, <1>6 DEF DialLoop, First

\* Pick finds the scan's position usable and stays there.
LEMMA NewPickStays ==
    ASSUME TInv, NewInv, NewPick
    PROVE  rounds' > 0 /\ DialLoop(rounds - 1)'
<1>1. rounds \in Endpoint /\ DialLoop(rounds) /\ pos = rounds
  <2>1. rounds \in 0 .. N /\ rounds < N /\ DialLoop(rounds)
    BY DEF TInv, FTypeOK, NewInv, NewPick
  <2>2. pos = rounds
    BY <2>1 DEF DialLoop
  <2> QED
    BY <2>1, <2>2, ClusterAssumption DEF Endpoint
<1>2. pos \in Usable(cooldown)
  BY <1>1 DEF DialLoop, Usable, Endpoint
<1>3. pos' = pos /\ order' = order /\ cooldown' = cooldown
  BY <1>2, FirstUsableHere DEF NewPick, Pick
<1>4. rounds' = rounds + 1 /\ dialed' = dialed /\ rounds' - 1 = rounds
  BY <1>1 DEF NewPick, Endpoint
<1>5. rounds' > 0
  BY <1>1, <1>4 DEF Endpoint
<1> QED
  BY <1>1, <1>3, <1>4, <1>5 DEF DialLoop, First

\* The loop ends without a connection only after a round for every endpoint.
LEMMA GivesUpLast ==
    ASSUME TInv, NewInv, NewGivesUp
    PROVE  dialed' = Endpoint /\ rounds' = N
<1>1. rounds \in 0 .. N /\ DialLoop(rounds) /\ Permutation(order)
  BY DEF TInv, CInv, CTypeOK, FTypeOK, NewInv, NewGivesUp
<1>2. rounds = N
  <2>1. SUFFICES ASSUME rounds # N PROVE FALSE
    OBVIOUS
  <2>2. rounds \in Endpoint
    BY <1>1, <2>1, ClusterAssumption DEF Endpoint
  <2>3. rounds \in Usable(cooldown)
    BY <1>1, <2>2 DEF DialLoop, Usable, Endpoint
  <2> QED
    BY <2>1, <2>3 DEF NewGivesUp
<1>3. {x \in Endpoint : x < N} = Endpoint
  BY ClusterAssumption DEF Endpoint
<1>4. First(N) = Endpoint
  BY <1>1, <1>3 DEF First, Permutation
<1> QED
  BY <1>1, <1>2, <1>4 DEF NewGivesUp, DialLoop

\* Every step keeps the dial loop's invariant.
LEMMA NewNext == TInv /\ NewInv /\ [Next]_fvars => NewInv'
<1> SUFFICES ASSUME TInv, NewInv, [Next]_fvars PROVE NewInv'
  OBVIOUS
<1>1. CASE NewPick
  BY <1>1, NewPickStays DEF NewPick, NewInv, NewTriesAll, doVars
<1>2. CASE NewDialOk
  BY <1>2 DEF NewDialOk, NewInv, NewTriesAll
<1>3. CASE NewDialFail
  BY <1>3, DialFailMoves DEF NewDialFail, NewInv, NewTriesAll, doVars
<1>4. CASE NewGivesUp
  BY <1>4, GivesUpLast DEF NewGivesUp, NewInv, NewTriesAll, doVars
<1>5. CASE NewCancel
  BY <1>5 DEF NewCancel, NewInv, NewTriesAll, DialLoop, First, doVars, cvars
<1>6. ASSUME NEW p \in Callers, NEW read \in BOOLEAN, Begin(p, read)
      PROVE  NewInv'
  BY <1>6, NewKeeps DEF Begin
<1>7. ASSUME NEW p \in Callers, DoStep(p) PROVE NewInv'
  <2>1. st[p] # "out"
    BY <1>7
    DEF DoStep, DoPick, DoExhausted, Acquired, AcquireClosed, AcquireFails,
        AcquireErr, FnAnswered, FnUnavailable, Answered, Unavailable
  <2>2. phase = "ready"
    BY <2>1 DEF NewInv
  <2>3. UNCHANGED newVars
    BY <1>7
    DEF DoStep, DoPick, DoExhausted, Acquired, AcquireClosed, AcquireFails,
        AcquireErr, FnAnswered, FnUnavailable, Answered, Unavailable
  <2> QED
    BY <2>2, <2>3, NewKeeps
<1>8. ASSUME NEW p \in Callers, CtxStep(p) PROVE NewInv'
  BY <1>8, NewKeeps DEF CtxStep, NewInv
<1>9. CASE Close \/ ProbeStart
  BY <1>9, NewKeeps DEF Close, ProbeStart
<1>10. ASSUME NEW e \in Endpoint, ProbeOk(e) \/ ProbeFails(e) PROVE NewInv'
  BY <1>10, NewKeeps DEF ProbeOk, ProbeFails, NewInv
<1>11. CASE Time
  <2>1. \A q \in Endpoint : cooldown[order[q]] = 0 => cooldown'[order[q]] = 0
    BY <1>11 DEF Time, Tick, TInv, CInv, CTypeOK, Permutation
  <2> QED
    BY <1>11, <2>1
    DEF Time, Tick, NewInv, NewTriesAll, DialLoop, First, newVars, doVars
<1>12. CASE UNCHANGED fvars
  BY <1>12
  DEF fvars, cvars, newVars, doVars, NewInv, NewTriesAll, DialLoop, First
<1> QED
  BY <1>1, <1>2, <1>3, <1>4, <1>5, <1>6, <1>7, <1>8, <1>9, <1>10, <1>11, <1>12
  DEF Next, NewStep

\* NewInv is inductive.
LEMMA NewInvariant == Spec => []NewInv
<1>1. Init => NewInv
  <2> SUFFICES ASSUME Init PROVE NewInv
    OBVIOUS
  <2>1. {x \in Endpoint : x < 0} = {}
    BY DEF Endpoint
  <2>a. \A q \in Endpoint : order[q] \in Endpoint
    BY DEF Init, CInit, Permutation
  <2>b. \A q \in Endpoint : cooldown[order[q]] = 0
    BY <2>a DEF Init, CInit
  <2>c. dialed = First(0) /\ pos = 0
    BY <2>1 DEF Init, CInit, First
  <2>2. DialLoop(0)
    BY <2>b, <2>c DEF DialLoop
  <2> QED
    BY <2>2 DEF Init, NewInv, NewTriesAll
<1> QED
  BY <1>1, NewNext, TInvariant, PTL DEF Spec

\* New reports failure only after it has dialled every endpoint, each in a
\* round of its own, however its failures' cooldowns expire meanwhile.
THEOREM NewDialsEveryEndpoint == Spec => []NewTriesAll
<1>1. NewInv => NewTriesAll
  BY DEF NewInv
<1> QED
  BY <1>1, NewInvariant, PTL

-----------------------------------------------------------------------------
(* Staying on the active endpoint, and surviving an outage.                 *)

\* MarkFailed(e) cools e alone and scans from the position behind e's.
LEMMA FailedMoves ==
    ASSUME CTypeOK, NEW e \in Endpoint, MarkFailed(e)
    PROVE  /\ PosOf(e) \in Endpoint /\ order[PosOf(e)] = e
           /\ order' = order
           /\ \A f \in Endpoint : f # e => cooldown'[f] = cooldown[f]
           /\ pos' = IF Usable(cooldown') = {} THEN pos
                     ELSE FirstUsable(After(PosOf(e)), cooldown')
<1>1. PosOf(e) \in Endpoint /\ order[PosOf(e)] = e
  BY DEF CTypeOK, Permutation, PosOf
<1>2. PICK jitter : cooldown' = [cooldown EXCEPT ![e] = jitter]
  BY Zenon DEF MarkFailed
<1> QED
  BY <1>1, <1>2 DEF MarkFailed, CTypeOK

\* With two endpoints, the position behind the failed one's is the other's.
LEMMA FailedLeaves ==
    ASSUME N <= 2, CTypeOK, NEW e \in Endpoint, MarkFailed(e), pos' # pos
    PROVE  e = Active \/ CoolingAt(Active)
<1> SUFFICES ASSUME e # Active, cooldown[Active] = 0 PROVE FALSE
  BY ClusterAssumption DEF CoolingAt, CTypeOK, Active, Permutation
<1>1. pos \in Endpoint /\ Active \in Endpoint /\ PosOf(e) # pos
  BY FailedMoves DEF CTypeOK, Active, Permutation
<1>2. After(PosOf(e)) = pos
  BY <1>1, FailedMoves, ClusterAssumption DEF After, Endpoint
<1>3. pos \in Usable(cooldown')
  BY <1>1, FailedMoves DEF Usable, Active
<1> QED
  BY <1>2, <1>3, FailedMoves, FirstUsableHere

\* Pick leaves the active endpoint only when it is cooling.
LEMMA PickLeaves ==
    ASSUME CTypeOK, NEW e, Pick(e), pos' # pos
    PROVE  CoolingAt(Active)
<1>1. pos \notin Usable(cooldown)
  BY FirstUsableHere DEF Pick
<1> QED
  BY <1>1, ClusterAssumption DEF Usable, CTypeOK, Active, Permutation, CoolingAt

\* With at most two endpoints the client stays on one that answers: it moves
\* only from an endpoint that cools or that has just failed an attempt.  (With
\* three, the late failure of another endpoint moves it too.)
THEOREM StaysPut == ASSUME N <= 2 PROVE Spec => StaysOnAnswering
<1>1. ASSUME TInv, [Next]_fvars
      PROVE  [phase = "ready" /\ pos' # pos => CoolingAt(Active) \/ JustFailed(Active)]_fvars
  <2> SUFFICES ASSUME Next, phase = "ready", pos' # pos
               PROVE  CoolingAt(Active) \/ JustFailed(Active)
    BY <1>1 DEF fvars
  <2>0. CTypeOK /\ FTypeOK
    BY <1>1 DEF TInv, CInv
  <2>1. ASSUME NEW p \in Callers, DoPick(p) PROVE CoolingAt(Active)
    BY <2>0, <2>1, PickLeaves DEF DoPick
  <2>2. ASSUME NEW p \in Callers, AcquireErr(p) \/ Unavailable(p)
        PROVE  CoolingAt(Active) \/ JustFailed(Active)
    <3>1. MarkFailed(ep[p]) /\ ep[p] \in Endpoint
      BY <2>0, <2>2 DEF AcquireErr, Unavailable, cvars, FTypeOK
    <3>2. ep[p] = Active \/ CoolingAt(Active)
      BY <2>0, <3>1, FailedLeaves
    <3>3. st[p] \in {"acquireErr", "unavailable"} /\ st'[p] # st[p]
      BY <2>0, <2>2 DEF AcquireErr, Unavailable, Goto, Return, FTypeOK
    <3> QED
      BY <3>2, <3>3 DEF JustFailed
  <2>3. ASSUME NEW p \in Callers, DoStep(p), ~DoPick(p), ~AcquireErr(p), ~Unavailable(p)
        PROVE  FALSE
    BY <2>3 DEF DoStep, DoExhausted, Acquired, AcquireClosed, AcquireFails, FnAnswered,
                FnUnavailable, Answered, MarkHealthy, cvars
  <2>4. ~NewStep
    BY DEF NewStep, NewPick, NewDialOk, NewDialFail, NewGivesUp
  <2>5. ~NewCancel /\ ~Close /\ ~ProbeStart /\ ~Time
    BY DEF NewCancel, Close, ProbeStart, Time, Tick, cvars
  <2>6. ASSUME NEW e \in Endpoint PROVE ~ProbeOk(e) /\ ~ProbeFails(e)
    BY DEF ProbeOk, ProbeFails, MarkHealthy, cvars
  <2>7. ASSUME NEW p \in Callers, NEW read \in BOOLEAN PROVE ~Begin(p, read) /\ ~CtxStep(p)
    BY DEF Begin, CtxStep, cvars
  <2> QED
    BY <2>1, <2>2, <2>3, <2>4, <2>5, <2>6, <2>7, Zenon DEF Next
<1> QED
  BY <1>1, TInvariant, PTL DEF Spec, StaysOnAnswering

\* A working endpoint is at most d positions on from a.
Near(a, d) == \E g \in Endpoint : order[g] \in Good /\ Dist(a, g) <= d

\* slack[k]: how far a call with k failed attempts behind it may still be from
\* a working endpoint.
OutInv(slack) ==
    /\ NoReadLost
    /\ ~newDone /\ Good # {} =>
         \A p \in Callers :
            /\ st[p] = "out" => tries[p] = 0
            /\ st[p] = "pick" => Near(pos, slack[tries[p]])
            /\ st[p] \notin {"out", "pick"} =>
                  tries[p] >= 1 /\ Near(PosOf(ep[p]), slack[tries[p] - 1])

\* The scan does not pass a working endpoint.
LEMMA ScanStops ==
    ASSUME CTypeOK, NEW a \in Endpoint, NEW d \in Int, Near(a, d), NEW cool,
           \A e \in Good : cool[e] = 0
    PROVE  /\ Usable(cool) # {} /\ FirstUsable(a, cool) \in Endpoint
           /\ Near(FirstUsable(a, cool), d)
<1>1. PICK g \in Endpoint : order[g] \in Good /\ Dist(a, g) <= d
  BY DEF Near
<1>2. g \in Usable(cool)
  BY <1>1 DEF Usable
<1> DEFINE f == FirstUsable(a, cool)
<1>3. f \in Usable(cool) /\ f \in Endpoint
  BY <1>2, FirstUsableFinds DEF Usable
<1>4. Dist(a, f) <= Dist(a, g)
  BY <1>2, FirstUsableFinds
<1> HIDE DEF f
<1>5. Dist(f, g) <= d
  BY <1>1, <1>3, <1>4, ClusterAssumption DEF Dist, Endpoint
<1> QED
  BY <1>1, <1>2, <1>3, <1>5 DEF Near, f

\* The failure of an endpoint brings the scan one position nearer.
LEMMA FailNears ==
    ASSUME CTypeOK, NEW e \in Endpoint \ Good, MarkFailed(e),
           \A g \in Good : cooldown'[g] = 0,
           NEW d \in Int, Near(PosOf(e), d)
    PROVE  Near(pos', d - 1)
<1> DEFINE a == PosOf(e)
<1>1. a \in Endpoint /\ order[a] = e /\ order' = order
  BY FailedMoves
<1>2. PICK g \in Endpoint : order[g] \in Good /\ Dist(a, g) <= d
  BY DEF Near
<1>3. g # a
  BY <1>1, <1>2
<1>4. After(a) \in Endpoint /\ Dist(After(a), g) <= d - 1
  BY <1>1, <1>2, <1>3, ClusterAssumption DEF After, Dist, Endpoint
<1>5. Near(After(a), d - 1)
  BY <1>2, <1>4 DEF Near
<1>6. /\ Usable(cooldown') # {}
      /\ Near(FirstUsable(After(a), cooldown'), d - 1)
  BY <1>4, <1>5, ScanStops
<1>7. pos' = FirstUsable(After(a), cooldown')
  BY <1>6, FailedMoves
<1> QED
  BY <1>6, <1>7

\* What each failure must do to a call's distance: its own brings it on, and
\* those of other calls do not throw it back.
Brings(slack) ==
    \A e \in Endpoint \ Good, k \in 1 .. MaxRetries :
        MarkFailed(e) /\ Near(PosOf(e), slack[k - 1]) => Near(pos', slack[k])

Spares(slack) ==
    \A e \in Endpoint \ Good, k \in 0 .. MaxRetries :
        MarkFailed(e) /\ Near(pos, slack[k]) => Near(pos', slack[k])

\* Only the calls' own steps and the active position can disturb OutInv.
LEMMA OutKeeps ==
    ASSUME NEW CONSTANT slack, OutInv(slack), UNCHANGED <<order, pos, newDone, doVars>>
    PROVE  OutInv(slack)'
  BY DEF OutInv, NoReadLost, Near, PosOf, doVars

\* Every step keeps OutInv, if the first attempt may start anywhere and there
\* are more attempts than slack.
LEMMA OutNext ==
    ASSUME NEW CONSTANT slack \in [0 .. MaxRetries -> Int],
           slack[0] = N - 1, slack[MaxRetries] < 0, ~Deadlines,
           TInv, NewInv, GoodInv, GoodInv', OutInv(slack), [Next]_fvars,
           ~newDone' => Brings(slack),
           ~newDone' => \A p, q \in Callers : p # q => Spares(slack)
    PROVE  OutInv(slack)'
<1> SUFFICES ASSUME Next, ~newDone', Good # {} PROVE OutInv(slack)'
  BY OutKeeps, Zenon DEF fvars, cvars, newVars, OutInv, NoReadLost
<1>0. CTypeOK /\ FTypeOK /\ ~newDone
  <2>1. newDone => newDone'
    BY Zenon DEF Next, NewStep, NewPick, NewDialOk, NewDialFail, NewGivesUp, NewCancel, Begin,
           DoStep, DoPick, DoExhausted, Acquired, AcquireClosed, AcquireFails, AcquireErr,
           FnAnswered, FnUnavailable, Answered, Unavailable, CtxStep, Close, ProbeStart,
           ProbeOk, ProbeFails, Time, newVars
  <2> QED
    BY <2>1 DEF TInv, CInv
<1>g. (\A e \in Good : cooldown[e] = 0) /\ (\A e \in Good : cooldown'[e] = 0)
  BY <1>0 DEF GoodInv, GoodNeverCools
<1>s. \A k \in 0 .. MaxRetries : slack[k] \in Int
  OBVIOUS
<1>c. \A p \in Callers :
         /\ tries[p] \in 0 .. MaxRetries /\ ep[p] \in Endpoint
         /\ res[p] # "lost"
         /\ st[p] = "out" => tries[p] = 0
         /\ st[p] = "pick" => Near(pos, slack[tries[p]])
         /\ st[p] \notin {"out", "pick"} =>
               tries[p] >= 1 /\ Near(PosOf(ep[p]), slack[tries[p] - 1])
  BY <1>0 DEF FTypeOK, OutInv, NoReadLost
<1>d. \A a \in Endpoint : Near(a, slack[0])
  BY FailoverAssumption, DistType, <1>0, ClusterAssumption DEF Near, CTypeOK, Permutation
<1>1. CASE NewStep
  <2>1. phase # "ready" /\ UNCHANGED doVars
    BY <1>1 DEF NewStep, NewPick, NewDialOk, NewDialFail, NewGivesUp
  <2>2. \A p \in Callers : st'[p] = "out" /\ tries'[p] = 0 /\ res'[p] # "lost"
    BY <1>c, <2>1 DEF NewInv, doVars
  <2> QED
    BY <2>2 DEF OutInv, NoReadLost
<1>2. CASE NewCancel
  BY <1>2 DEF NewCancel
<1>3. ASSUME NEW p \in Callers, NEW read \in BOOLEAN, Begin(p, read) PROVE OutInv(slack)'
  <2>1. Near(pos, slack[0])
    BY <1>0, <1>d DEF CTypeOK
  <2> QED
    BY <1>0, <1>3, <1>c, <2>1, Zenon
    DEF Begin, Goto, cvars, OutInv, NoReadLost, FTypeOK, Near, PosOf
<1>4. ASSUME NEW p \in Callers, DoPick(p) PROVE OutInv(slack)'
  <2>1. /\ pos' = FirstUsable(pos, cooldown) /\ UNCHANGED <<order, idem, ctx, res>>
        /\ ep' = [ep EXCEPT ![p] = order[pos']]
        /\ tries' = [tries EXCEPT ![p] = @ + 1] /\ st[p] = "pick"
        /\ st' = [st EXCEPT ![p] = "acquire"]
    BY <1>4 DEF DoPick, Pick, Goto
  <2>2. ASSUME NEW q \in Callers, st[q] = "pick"
        PROVE  pos' \in Endpoint /\ Near(pos', slack[tries[q]])
    BY <1>0, <1>g, <1>s, <1>c, <2>1, <2>2, ScanStops, Zenon DEF CTypeOK
  <2>3. PosOf(order[pos']) = pos'
    BY <1>0, <2>1, <2>2, PosOfInverts DEF CTypeOK
  <2>4. tries'[p] >= 1 /\ tries'[p] - 1 = tries[p] /\ ep'[p] = order[pos'] /\ st'[p] = "acquire"
    BY <1>0, <1>c, <2>1 DEF FTypeOK
  <2>5. \A q \in Callers : q # p => tries'[q] = tries[q] /\ ep'[q] = ep[q] /\ st'[q] = st[q]
    BY <1>0, <2>1 DEF FTypeOK
  <2>6. Near(PosOf(ep'[p]), slack[tries'[p] - 1])
    BY <2>1, <2>2, <2>3, <2>4
  <2>7. \A q \in Callers :
           /\ st'[q] = "out" => tries'[q] = 0
           /\ st'[q] = "pick" => Near(pos', slack[tries'[q]])
           /\ st'[q] \notin {"out", "pick"} =>
                 tries'[q] >= 1 /\ Near(PosOf(ep'[q]), slack[tries'[q] - 1])
    BY <1>c, <2>2, <2>4, <2>5, <2>6, Zenon
  <2> QED
    BY <1>c, <2>1, <2>7, Zenon DEF OutInv, NoReadLost, Near, PosOf
<1>5. ASSUME NEW p \in Callers, DoExhausted(p) PROVE FALSE
  <2>1. st[p] = "pick" /\ Near(pos, slack[tries[p]]) /\ pos \in Endpoint
    BY <1>0, <1>5, <1>c, Zenon DEF DoExhausted, CTypeOK
  <2>2. tries[p] # MaxRetries
    BY <2>1, <1>s, DistType, ClusterAssumption, FailoverAssumption DEF Near
  <2>3. Usable(cooldown) # {}
    BY <1>0, <1>g, <1>s, <1>c, <2>1, ScanStops
  <2> QED
    BY <1>5, <2>2, <2>3, Zenon DEF DoExhausted, PickNone
<1>6. ASSUME NEW p \in Callers, NEW r, Return(p, r), UNCHANGED <<order, pos>>,
             r # "unavailable" \/ ~idem[p]
      PROVE  OutInv(slack)'
  <2>1. /\ st' = [st EXCEPT ![p] = "out"] /\ tries' = [tries EXCEPT ![p] = 0]
        /\ ep' = [ep EXCEPT ![p] = 0] /\ res' = [res EXCEPT ![p] = "none"]
    BY <1>6, Zenon DEF Return, Goto
  <2> QED
    BY <1>0, <1>6, <1>c, <2>1, Zenon DEF OutInv, NoReadLost, FTypeOK, Near, PosOf
<1>7. ASSUME NEW p \in Callers, AcquireClosed(p) \/ Answered(p) PROVE OutInv(slack)'
  BY <1>6, <1>7 DEF AcquireClosed, Answered, MarkHealthy, cvars
<1>8. ASSUME NEW p \in Callers,
             Acquired(p) \/ AcquireFails(p) \/ FnAnswered(p) \/ FnUnavailable(p)
      PROVE  OutInv(slack)'
  <2>1. /\ UNCHANGED <<order, pos, ep, tries, res>> /\ st[p] \notin {"out", "pick"}
        /\ \E l \in State \ {"out", "pick"} : st' = [st EXCEPT ![p] = l]
    BY <1>8, Zenon DEF Acquired, AcquireFails, FnAnswered, FnUnavailable, Goto, State, cvars
  <2> QED
    BY <1>0, <1>c, <2>1, Zenon DEF OutInv, NoReadLost, FTypeOK, Near, PosOf
<1>9. ASSUME NEW p \in Callers, AcquireErr(p) \/ Unavailable(p) PROVE OutInv(slack)'
  <2>1. CASE ctx[p] = "done"
    BY <1>6, <1>9, <2>1 DEF AcquireErr, Unavailable, cvars
  <2>2. CASE ctx[p] # "done"
    <3>1. MarkFailed(ep[p]) /\ ep[p] \in Endpoint \ Good
      BY <1>9, <1>c, <2>2 DEF AcquireErr, Unavailable, GoodInv
    <3>2. \A q \in Callers : q # p /\ st[q] = "pick" => Near(pos', slack[tries[q]])
      BY <1>c, <3>1 DEF Spares
    <3>3. tries[p] \in 1 .. MaxRetries /\ Near(PosOf(ep[p]), slack[tries[p] - 1])
      BY <1>9, <1>c DEF AcquireErr, Unavailable
    <3>4. Near(pos', slack[tries[p]]) /\ order' = order
      BY <3>1, <3>3, Zenon DEF Brings, MarkFailed
    <3>5. CASE st' = [st EXCEPT ![p] = "pick"] /\ UNCHANGED <<ep, tries, res>>
      <4>1. \A q \in Callers :
              /\ st'[q] = "out" => tries'[q] = 0
              /\ st'[q] = "pick" => Near(pos', slack[tries'[q]])
              /\ st'[q] \notin {"out", "pick"} =>
                    tries'[q] >= 1 /\ Near(PosOf(ep'[q]), slack[tries'[q] - 1])
        BY <1>0, <1>c, <3>2, <3>4, <3>5 DEF FTypeOK
      <4> QED
        BY <1>c, <3>4, <3>5, <4>1, Zenon DEF OutInv, NoReadLost, Near, PosOf
    <3>6. CASE Return(p, "unavailable") /\ ~idem[p]
      <4>1. /\ st' = [st EXCEPT ![p] = "out"] /\ tries' = [tries EXCEPT ![p] = 0]
            /\ ep' = [ep EXCEPT ![p] = 0] /\ res' = [res EXCEPT ![p] = "none"]
        BY <3>6 DEF Return, Goto
      <4>2. \A q \in Callers :
              /\ st'[q] = "out" => tries'[q] = 0
              /\ st'[q] = "pick" => Near(pos', slack[tries'[q]])
              /\ st'[q] \notin {"out", "pick"} =>
                    tries'[q] >= 1 /\ Near(PosOf(ep'[q]), slack[tries'[q] - 1])
              /\ res'[q] # "lost"
        BY <1>0, <1>c, <3>2, <4>1 DEF FTypeOK
      <4> QED
        BY <3>4, <4>2 DEF OutInv, NoReadLost, Near, PosOf
    <3> QED
      BY <1>9, <2>2, <3>5, <3>6 DEF AcquireErr, Unavailable, Goto
  <2> QED
    BY <2>1, <2>2
<1>10. ASSUME NEW p \in Callers, CtxStep(p) PROVE OutInv(slack)'
  BY <1>10, <1>c DEF CtxStep, cvars, OutInv, NoReadLost, Near, PosOf
<1>11. CASE Close \/ ProbeStart \/ Time
  BY <1>11, OutKeeps DEF Close, ProbeStart, Time, Tick, cvars, newVars
<1>12. ASSUME NEW e \in Endpoint, ProbeOk(e) \/ ProbeFails(e) PROVE OutInv(slack)'
  BY <1>12, OutKeeps DEF ProbeOk, ProbeFails, MarkHealthy, cvars, newVars
<1> QED
  BY <1>1, <1>2, <1>3, <1>4, <1>5, <1>7, <1>8, <1>9, <1>10, <1>11, <1>12 DEF Next, DoStep

\* Nobody has made a call yet.
LEMMA OutStarts == ASSUME NEW CONSTANT slack, Init PROVE OutInv(slack)
  BY DEF Init, OutInv, NoReadLost

\* However many endpoints and callers there are, no read is lost to the outage
\* of one endpoint, as soon as a call may make two attempts.
THEOREM OutageOfOne ==
    ASSUME ~Deadlines, MaxRetries >= 2,
           NEW CONSTANT b \in Endpoint, Endpoint \ {b} \subseteq Good
    PROVE  Spec => []NoReadLost
<1> DEFINE S == [k \in 0 .. MaxRetries |-> IF k = 0 THEN N - 1 ELSE 1 - k]
<1>1. S \in [0 .. MaxRetries -> Int] /\ S[0] = N - 1 /\ S[MaxRetries] < 0
  BY FailoverAssumption, ClusterAssumption
<1>2. ASSUME TInv, GoodInv', ~newDone', NEW e \in Endpoint \ Good, MarkFailed(e), Good # {}
      PROVE  Near(pos', 0) /\ PosOf(e) \in Endpoint /\ order[PosOf(e)] \notin Good
  <2>1. CTypeOK /\ PosOf(e) \in Endpoint /\ order[PosOf(e)] = e
    BY <1>2, FailedMoves DEF TInv, CInv
  <2>2. PICK h \in Endpoint : h \in Good /\ h # e
    BY <1>2, FailoverAssumption
  <2>3. /\ After(PosOf(e)) \in Endpoint /\ After(PosOf(e)) # PosOf(e)
        /\ Dist(PosOf(e), After(PosOf(e))) <= 1
    BY <2>1, <2>2, ClusterAssumption DEF After, Dist, Endpoint
  <2>4. order[After(PosOf(e))] \in Good
    BY <1>2, <2>1, <2>3 DEF CTypeOK, Permutation
  <2>5. Near(PosOf(e), 1)
    BY <2>3, <2>4 DEF Near
  <2>6. Near(pos', 1 - 1)
    BY <1>2, <2>1, <2>5, FailNears DEF GoodInv, GoodNeverCools
  <2> QED
    BY <1>2, <2>1, <2>6
<1>3. ASSUME TInv, GoodInv', ~newDone' PROVE Brings(S) /\ Spares(S)
  <2>1. ASSUME NEW e \in Endpoint \ Good, NEW k \in 1 .. MaxRetries, MarkFailed(e),
               Near(PosOf(e), S[k - 1])
        PROVE  Near(pos', S[k])
    <3>1. Good # {}
      BY <2>1 DEF Near
    <3>2. k = 1
      <4>1. SUFFICES ASSUME k # 1 PROVE FALSE
        OBVIOUS
      <4>2. S[k - 1] <= 0
        BY <4>1, FailoverAssumption
      <4>3. PICK g \in Endpoint : order[g] \in Good /\ Dist(PosOf(e), g) <= S[k - 1]
        BY <2>1, Zenon DEF Near
      <4>4. S[k - 1] \in Int
        BY <4>1, FailoverAssumption
      <4> HIDE DEF S
      <4>5. Dist(PosOf(e), g) = 0
        BY <1>2, <1>3, <2>1, <3>1, <4>2, <4>3, <4>4, DistType, ClusterAssumption
      <4> QED
        BY <1>2, <1>3, <2>1, <3>1, <4>3, <4>5, DistType
    <3> QED
      BY <1>2, <1>3, <2>1, <3>1, <3>2, FailoverAssumption
  <2>2. ASSUME NEW e \in Endpoint \ Good, NEW k \in 0 .. MaxRetries, MarkFailed(e),
               Near(pos, S[k])
        PROVE  Near(pos', S[k])
    <3>1. Good # {} /\ pos \in Endpoint
      BY <1>3, <2>2 DEF Near, TInv, CInv, CTypeOK
    <3>2. S[k] >= 0 /\ S[k] \in Int
      <4> S[k] \in Int
        BY FailoverAssumption, ClusterAssumption
      <4> HIDE DEF S
      <4> QED
        BY <2>2, <3>1, DistType, ClusterAssumption DEF Near
    <3>3. Near(pos', 0)
      BY <1>2, <1>3, <2>2, <3>1
    <3>4. pos' \in Endpoint
      BY <1>3, <2>2, FailedKeeps DEF TInv, CInv, CTypeOK
    <3> HIDE DEF S
    <3> QED
      BY <3>2, <3>3, <3>4, DistType, ClusterAssumption DEF Near
  <2> HIDE DEF S
  <2> QED
    BY <2>1, <2>2 DEF Brings, Spares
<1> HIDE DEF S
<1>4. TInv /\ NewInv /\ GoodInv /\ GoodInv' /\ OutInv(S) /\ [Next]_fvars => OutInv(S)'
  BY <1>1, <1>3, OutNext, Zenon
<1>5. Init => OutInv(S)
  BY OutStarts
<1>6. OutInv(S) => NoReadLost
  BY DEF OutInv
<1> QED
  BY <1>4, <1>5, <1>6, TInvariant, NewInvariant, GoodInvariant, PTL DEF Spec

\* A caller that is alone loses no read to an outage that leaves one endpoint
\* standing, wherever that one is in the pick order, as soon as it may make an
\* attempt for every endpoint.  (With two callers and two endpoints down, the
\* late failure of one call's attempt moves the active endpoint back and costs
\* another call an attempt.)
THEOREM OutageAlone ==
    ASSUME ~Deadlines, MaxRetries >= N, \A p, q \in Callers : p = q
    PROVE  Spec => []NoReadLost
<1> DEFINE S == [k \in 0 .. MaxRetries |-> N - 1 - k]
<1>1. S \in [0 .. MaxRetries -> Int] /\ S[0] = N - 1 /\ S[MaxRetries] < 0
  BY FailoverAssumption, ClusterAssumption
<1>2. ASSUME TInv, GoodInv', ~newDone' PROVE Brings(S)
  <2> SUFFICES ASSUME NEW e \in Endpoint \ Good, NEW k \in 1 .. MaxRetries, MarkFailed(e),
                      Near(PosOf(e), S[k - 1])
               PROVE  Near(pos', S[k])
    BY DEF Brings
  <2>1. S[k - 1] \in Int /\ S[k] = S[k - 1] - 1
    BY FailoverAssumption, ClusterAssumption
  <2> HIDE DEF S
  <2> QED
    BY <1>2, <2>1, FailNears DEF TInv, CInv, GoodInv, GoodNeverCools
<1> HIDE DEF S
<1>3. TInv /\ NewInv /\ GoodInv /\ GoodInv' /\ OutInv(S) /\ [Next]_fvars => OutInv(S)'
  BY <1>1, <1>2, OutNext, Zenon
<1>4. Init => OutInv(S)
  BY OutStarts
<1>5. OutInv(S) => NoReadLost
  BY DEF OutInv
<1> QED
  BY <1>3, <1>4, <1>5, TInvariant, NewInvariant, GoodInvariant, PTL DEF Spec

\* No read is lost to an outage that is Survivable, for any number of endpoints,
\* callers and attempts: the two theorems before this one are its two cases.
THEOREM OutagesAreSurvived == Spec => []OutageSurvived
<1>1. CASE ~Survivable
  <2>1. OutageSurvived
    BY <1>1 DEF OutageSurvived
  <2> QED
    BY <2>1, PTL
<1>2. CASE Survivable
  <2>1. NoReadLost => OutageSurvived
    BY DEF OutageSurvived
  <2>2. CASE MaxRetries >= 2 /\ \E b \in Endpoint : Endpoint \ {b} \subseteq Good
    <3>1. PICK b \in Endpoint : Endpoint \ {b} \subseteq Good
      BY <2>2
    <3>2. Spec => []NoReadLost
      BY <1>2, <2>2, <3>1, OutageOfOne DEF Survivable
    <3> QED
      BY <2>1, <3>2, PTL
  <2>3. CASE MaxRetries >= N /\ \A p, q \in Callers : p = q
    <3>1. Spec => []NoReadLost
      BY <1>2, <2>3, OutageAlone DEF Survivable
    <3> QED
      BY <2>1, <3>1, PTL
  <2> QED
    BY <1>2, <2>2, <2>3 DEF Survivable
<1> QED
  BY <1>1, <1>2
=============================================================================
