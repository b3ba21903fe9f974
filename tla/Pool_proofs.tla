----------------------------- MODULE Pool_proofs -----------------------------
(* Theorems about Pool, for every number of endpoints, callers, closers and *)
(* connections and every pool size: what a goroutine's place says about what *)
(* it holds, who owns each connection, and what each stage of Close has      *)
(* waited for; with these endpointPool.live counts what it should, and so    *)
(* Pool implements the safety part of Lifecycle.                            *)
EXTENDS Pool, FiniteSetTheorems, TLAPS

\* The provers tried on a step that names none, and their time.
USE SMTT(30), Z3T(30), ZenonT(30)

-----------------------------------------------------------------------------
(* What a goroutine's place says about what it holds.                       *)

HasConn == {"loan", "release", "discard"}
ProbeHasConn == {"status", "handover", "counted", "overflow"}

\* A caller holds a connection exactly on loan and while returning it, and
\* has an endpoint exactly inside an attempt.
CallerLinks ==
    /\ \A p \in Callers : (cn[p] = Nil) <=> (pc[p] \notin HasConn)
    /\ \A p \in Callers : (at[p] = Nil) <=> (pc[p] = "out")
    /\ inFlight = {p \in Callers : pc[p] = "dialing"}

ProbeLinks ==
    /\ (pcn = Nil) <=> (ppc \notin ProbeHasConn)
    /\ ppc \in ProbeHasConn \cup {"dialing"} => pat \in Endpoints

Inv1 == TypeOK /\ CallerLinks /\ ProbeLinks

\* The initial states have the types and the links.
LEMMA Inv1Init == Init => Inv1
<1> SUFFICES ASSUME Init PROVE Inv1
  OBVIOUS
<1> PICK e \in Endpoints, c \in Conns :
      /\ idle = [d \in Endpoints |-> IF d = e THEN {c} ELSE {}]
      /\ live = [d \in Endpoints |-> IF d = e THEN 1 ELSE 0]
      /\ open = {c}
  BY Zenon DEF Init
<1>a. idle \in [Endpoints -> SUBSET Conns] /\ live \in [Endpoints -> Int]
  OBVIOUS
<1>1. TypeOK
  BY <1>a, Zenon DEF Init, TypeOK, CallerPC, ProbePC, CloserPC
<1>2. CallerLinks
  BY DEF Init, CallerLinks, HasConn
<1>3. ProbeLinks
  BY DEF Init, ProbeLinks, ProbeHasConn
<1> QED
  BY <1>1, <1>2, <1>3 DEF Inv1

\* Every step keeps them.
LEMMA Inv1Next == Inv1 /\ [Next]_vars => Inv1'
<1> SUFFICES ASSUME Inv1, [Next]_vars PROVE Inv1'
  OBVIOUS
<1> USE PoolAssumption
    DEF Inv1, TypeOK, CallerLinks, ProbeLinks, HasConn, ProbeHasConn,
        CallerPC, ProbePC, CloserPC, callerVars, probeVars, closeVars
<1>1. ASSUME NEW p \in Callers, CallerStep(p) PROVE Inv1'
  <2>1. ASSUME NEW e \in Endpoints, AcquireEnter(p, e) PROVE Inv1'
    BY <2>1 DEF AcquireEnter, Goto
  <2>2. CASE AcquireClosed(p)
    BY <2>2 DEF AcquireClosed, vars
  <2>3. CASE TakeIdle(p)
    BY <2>3 DEF TakeIdle, Goto
  <2>4. CASE IdleEmpty(p)
    BY <2>4 DEF IdleEmpty, Goto
  <2>5. CASE Reserve(p)
    BY <2>5 DEF Reserve, Goto
  <2>6. CASE AtCapacity(p)
    BY <2>6 DEF AtCapacity, Goto
  <2>7. CASE DialStart(p)
    BY <2>7 DEF DialStart, Goto
  <2>8. CASE DialOk(p)
    BY <2>8 DEF DialOk, Goto
  <2>9. CASE DialFail(p)
    BY <2>9 DEF DialFail, Goto
  <2>10. CASE Unreserve(p)
    BY <2>10 DEF Unreserve, Goto
  <2>11. CASE GiveUp(p)
    BY <2>11 DEF GiveUp, Goto
  <2>12. CASE FnReturns(p)
    BY <2>12 DEF FnReturns, Goto
  <2>13. CASE Release(p)
    BY <2>13 DEF Release, Goto, Room
  <2>14. CASE Discard(p)
    BY <2>14 DEF Discard, Goto
  <2> QED
    BY <1>1, <2>1, <2>2, <2>3, <2>4, <2>5, <2>6, <2>7, <2>8, <2>9, <2>10,
       <2>11, <2>12, <2>13, <2>14
    DEF CallerStep, AcquireStep, FinishStep, WaitClosed, WaitCancelled
<1>2. CASE ProbeTick
  BY <1>2 DEF ProbeTick
<1>3. CASE ProbeRuns
  <2>1. CASE ProbeExit
    BY <2>1 DEF ProbeExit
  <2>2. CASE ProbeNext
    BY <2>2 DEF ProbeNext
  <2>3. CASE ProbeDialOk
    BY <2>3 DEF ProbeDialOk
  <2>4. CASE ProbeDialFail
    BY <2>4 DEF ProbeDialFail
  <2>5. CASE ProbeStatusOk
    BY <2>5 DEF ProbeStatusOk
  <2>6. CASE ProbeStatusFail
    BY <2>6 DEF ProbeStatusFail, ProbeDrops
  <2>7. CASE ProbeClosed
    BY <2>7 DEF ProbeClosed, ProbeDrops
  <2>8. CASE ProbeCount
    BY <2>8 DEF ProbeCount
  <2>9. CASE ProbeSend
    BY <2>9 DEF ProbeSend, Room
  <2>10. CASE ProbeOverflow
    BY <2>10 DEF ProbeOverflow, ProbeDrops
  <2> QED
    BY <1>3, <2>1, <2>2, <2>3, <2>4, <2>5, <2>6, <2>7, <2>8, <2>9, <2>10
    DEF ProbeRuns
<1>4. ASSUME NEW k \in Closers, CloseEnter(k) \/ CloserRuns(k) PROVE Inv1'
  <2>1. CASE CloseEnter(k)
    <3>1. CASE closed
      BY <2>1, <3>1 DEF CloseEnter, CGoto
    <3>2. CASE ~closed
      BY <2>1, <3>2 DEF CloseEnter, CGoto
    <3> QED
      BY <3>1, <3>2
  <2>2. CASE DrainOne(k)
    BY <2>2 DEF DrainOne
  <2>3. CASE DrainDone(k)
    BY <2>3 DEF DrainDone, CGoto
  <2>4. CASE CancelProbe(k)
    BY <2>4 DEF CancelProbe, CGoto
  <2>5. CASE ProbeJoined(k)
    BY <2>5 DEF ProbeJoined, CGoto
  <2>6. CASE DialsJoined(k)
    BY <2>6 DEF DialsJoined, CGoto
  <2>7. CASE CloseSession(k)
    BY <2>7 DEF CloseSession, CGoto
  <2> QED
    BY <1>4, <2>1, <2>2, <2>3, <2>4, <2>5, <2>6, <2>7 DEF CloserRuns
<1>5. CASE UNCHANGED vars
  BY <1>5 DEF vars
<1> QED
  BY <1>1, <1>2, <1>3, <1>4, <1>5 DEF Next

\* Spec keeps the types of its variables (Pool's type invariant).
THEOREM TypeCorrect == Spec => []TypeOK
<1>1. Inv1 => TypeOK
  BY DEF Inv1
<1> QED
  BY Inv1Init, Inv1Next, <1>1, PTL DEF Spec

-----------------------------------------------------------------------------
(* Close: who holds mu, and what each of its stages has waited for.         *)

MuLinks ==
    /\ mu = Prober <=> ppc = "counted"
    /\ mu = Prober => ~closed
    /\ \A k \in Closers : mu = k <=> cpc[k] = "drain"
    /\ \A k \in Closers : cpc[k] # "out" => closed

JoinLinks ==
    /\ \A k \in Closers :
          /\ cpc[k] \in {"waitDials", "krb", "done"} => ppc = "exited"
          /\ cpc[k] = "krb" => inFlight = {}
    /\ krbClosed => closed /\ ppc = "exited" /\ inFlight = {}

Inv3 == MuLinks /\ JoinLinks /\ DrainedForGood

\* A new client is open, and nobody holds mu.
LEMMA Inv3Init == Init => Inv3
  BY PoolAssumption
  DEF Init, Inv3, MuLinks, JoinLinks, DrainedForGood

\* Every step keeps the order in which Close waits.
LEMMA Inv3Next == Inv1 /\ Inv3 /\ [Next]_vars => Inv3'
<1> SUFFICES ASSUME Inv1, Inv3, [Next]_vars PROVE Inv3'
  OBVIOUS
<1> USE PoolAssumption
    DEF Inv1, TypeOK, CallerLinks, ProbeLinks, Inv3, MuLinks, JoinLinks,
        DrainedForGood, ProbePC, CloserPC, callerVars, probeVars, closeVars
<1>1. ASSUME NEW p \in Callers, CallerStep(p) PROVE Inv3'
  <2>1. ASSUME NEW e \in Endpoints, AcquireEnter(p, e) PROVE Inv3'
    BY <2>1 DEF AcquireEnter, Goto
  <2>2. CASE AcquireClosed(p)
    BY <2>2 DEF AcquireClosed, vars
  <2>3. CASE TakeIdle(p)
    BY <2>3 DEF TakeIdle, Goto
  <2>4. CASE IdleEmpty(p)
    BY <2>4 DEF IdleEmpty, Goto
  <2>5. CASE Reserve(p)
    BY <2>5 DEF Reserve, Goto
  <2>6. CASE AtCapacity(p)
    BY <2>6 DEF AtCapacity, Goto
  <2>7. CASE DialStart(p)
    BY <2>7 DEF DialStart, Goto
  <2>8. CASE DialOk(p)
    BY <2>8 DEF DialOk, Goto
  <2>9. CASE DialFail(p)
    BY <2>9 DEF DialFail, Goto
  <2>10. CASE Unreserve(p)
    BY <2>10 DEF Unreserve, Goto
  <2>11. CASE GiveUp(p)
    BY <2>11 DEF GiveUp, Goto
  <2>12. CASE FnReturns(p)
    BY <2>12 DEF FnReturns, Goto
  <2>13. CASE Release(p)
    BY <2>13 DEF Release, Goto, Room
  <2>14. CASE Discard(p)
    BY <2>14 DEF Discard, Goto
  <2> QED
    BY Zenon, <1>1, <2>1, <2>2, <2>3, <2>4, <2>5, <2>6, <2>7, <2>8, <2>9, <2>10,
       <2>11, <2>12, <2>13, <2>14
    DEF CallerStep, AcquireStep, FinishStep, WaitClosed, WaitCancelled
<1>2. CASE ProbeTick
  BY <1>2 DEF ProbeTick
<1>3. CASE ProbeRuns
  <2>1. CASE ProbeExit
    BY <2>1 DEF ProbeExit
  <2>2. CASE ProbeNext
    BY <2>2 DEF ProbeNext
  <2>3. CASE ProbeDialOk
    BY <2>3 DEF ProbeDialOk
  <2>4. CASE ProbeDialFail
    BY <2>4 DEF ProbeDialFail
  <2>5. CASE ProbeStatusOk
    BY <2>5 DEF ProbeStatusOk
  <2>6. CASE ProbeStatusFail
    BY <2>6 DEF ProbeStatusFail, ProbeDrops
  <2>7. CASE ProbeClosed
    BY <2>7 DEF ProbeClosed, ProbeDrops
  <2>8. CASE ProbeCount
    BY <2>8 DEF ProbeCount
  <2>9. CASE ProbeSend
    BY <2>9 DEF ProbeSend, Room
  <2>10. CASE ProbeOverflow
    BY <2>10 DEF ProbeOverflow, ProbeDrops
  <2> QED
    BY <1>3, <2>1, <2>2, <2>3, <2>4, <2>5, <2>6, <2>7, <2>8, <2>9, <2>10
    DEF ProbeRuns
<1>4. ASSUME NEW k \in Closers, CloseEnter(k) \/ CloserRuns(k) PROVE Inv3'
  <2>1. CASE CloseEnter(k)
    BY <2>1 DEF CloseEnter, CGoto
  <2>2. CASE DrainOne(k)
    BY <2>2 DEF DrainOne
  <2>3. CASE DrainDone(k)
    BY <2>3 DEF DrainDone, CGoto
  <2>4. CASE CancelProbe(k)
    BY <2>4 DEF CancelProbe, CGoto
  <2>5. CASE ProbeJoined(k)
    BY <2>5 DEF ProbeJoined, CGoto
  <2>6. CASE DialsJoined(k)
    BY <2>6 DEF DialsJoined, CGoto
  <2>7. CASE CloseSession(k)
    BY <2>7 DEF CloseSession, CGoto
  <2> QED
    BY <1>4, <2>1, <2>2, <2>3, <2>4, <2>5, <2>6, <2>7, Zenon DEF CloserRuns
<1>5. CASE UNCHANGED vars
  BY <1>5 DEF vars
<1> QED
  BY <1>1, <1>2, <1>3, <1>4, <1>5 DEF Next

-----------------------------------------------------------------------------
(* Ownership of connections.                                                *)

\* The idle, loaned and probed connections are open ones.
Owned ==
    /\ \A e \in Endpoints : idle[e] \subseteq open
    /\ \A p \in Callers : cn[p] # Nil => cn[p] \in open
    /\ pcn # Nil => pcn \in open

Inv2 == Owned /\ NoLeak

\* The one connection New pooled is owned by its pool.
LEMMA Inv2Init == Init => Inv2
<1> SUFFICES ASSUME Init PROVE Inv2
  OBVIOUS
<1> PICK e \in Endpoints, c \in Conns :
      /\ idle = [d \in Endpoints |-> IF d = e THEN {c} ELSE {}]
      /\ open = {c}
  BY DEF Init
<1> QED
  BY PoolAssumption DEF Init, Inv2, Owned, NoLeak

\* Every step hands a connection from one owner to another, opens it for
\* its first owner, or closes it.
LEMMA Inv2Next == Inv1 /\ Inv2 /\ [Next]_vars => Inv2'
<1> SUFFICES ASSUME Inv1, Inv2, [Next]_vars PROVE Inv2'
  OBVIOUS
<1> USE PoolAssumption
    DEF Inv1, TypeOK, CallerLinks, ProbeLinks, HasConn, ProbeHasConn, Inv2,
        Owned, NoLeak, callerVars, probeVars, closeVars
<1>1. ASSUME NEW p \in Callers, CallerStep(p) PROVE Inv2'
  <2>1. ASSUME NEW e \in Endpoints, AcquireEnter(p, e) PROVE Inv2'
    BY <2>1 DEF AcquireEnter, Goto
  <2>2. CASE AcquireClosed(p)
    BY <2>2 DEF AcquireClosed, vars
  <2>3. CASE TakeIdle(p)
    BY <2>3 DEF TakeIdle, Goto
  <2>4. CASE IdleEmpty(p)
    BY <2>4 DEF IdleEmpty, Goto
  <2>5. CASE Reserve(p)
    BY <2>5 DEF Reserve, Goto
  <2>6. CASE AtCapacity(p)
    BY <2>6 DEF AtCapacity, Goto
  <2>7. CASE DialStart(p)
    BY <2>7 DEF DialStart, Goto
  <2>8. CASE DialOk(p)
    BY <2>8 DEF DialOk, Goto
  <2>9. CASE DialFail(p)
    BY <2>9 DEF DialFail, Goto
  <2>10. CASE Unreserve(p)
    BY <2>10 DEF Unreserve, Goto
  <2>11. CASE GiveUp(p)
    BY <2>11 DEF GiveUp, Goto
  <2>12. CASE FnReturns(p)
    BY <2>12 DEF FnReturns, Goto
  <2>13. CASE Release(p)
    BY <2>13 DEF Release, Goto, Room
  <2>14. CASE Discard(p)
    BY <2>14 DEF Discard, Goto
  <2> QED
    BY Zenon, <1>1, <2>1, <2>2, <2>3, <2>4, <2>5, <2>6, <2>7, <2>8, <2>9, <2>10,
       <2>11, <2>12, <2>13, <2>14
    DEF CallerStep, AcquireStep, FinishStep, WaitClosed, WaitCancelled
<1>2. CASE ProbeTick
  BY <1>2 DEF ProbeTick
<1>3. CASE ProbeRuns
  <2>1. CASE ProbeExit
    BY <2>1 DEF ProbeExit
  <2>2. CASE ProbeNext
    BY <2>2 DEF ProbeNext
  <2>3. CASE ProbeDialOk
    BY <2>3 DEF ProbeDialOk
  <2>4. CASE ProbeDialFail
    BY <2>4 DEF ProbeDialFail
  <2>5. CASE ProbeStatusOk
    BY <2>5 DEF ProbeStatusOk
  <2>6. CASE ProbeStatusFail
    BY <2>6 DEF ProbeStatusFail, ProbeDrops
  <2>7. CASE ProbeClosed
    BY <2>7 DEF ProbeClosed, ProbeDrops
  <2>8. CASE ProbeCount
    BY <2>8 DEF ProbeCount
  <2>9. CASE ProbeSend
    BY <2>9 DEF ProbeSend, Room
  <2>10. CASE ProbeOverflow
    BY <2>10 DEF ProbeOverflow, ProbeDrops
  <2> QED
    BY <1>3, <2>1, <2>2, <2>3, <2>4, <2>5, <2>6, <2>7, <2>8, <2>9, <2>10, Zenon
    DEF ProbeRuns
<1>4. ASSUME NEW k \in Closers, CloseEnter(k) \/ CloserRuns(k) PROVE Inv2'
  <2>1. CASE CloseEnter(k)
    BY <2>1 DEF CloseEnter, CGoto
  <2>2. CASE DrainOne(k)
    BY <2>2 DEF DrainOne
  <2>3. CASE DrainDone(k)
    BY <2>3 DEF DrainDone, CGoto
  <2>4. CASE CancelProbe(k)
    BY <2>4 DEF CancelProbe, CGoto
  <2>5. CASE ProbeJoined(k)
    BY <2>5 DEF ProbeJoined, CGoto
  <2>6. CASE DialsJoined(k)
    BY <2>6 DEF DialsJoined, CGoto
  <2>7. CASE CloseSession(k)
    BY <2>7 DEF CloseSession, CGoto
  <2> QED
    BY <1>4, <2>1, <2>2, <2>3, <2>4, <2>5, <2>6, <2>7, Zenon DEF CloserRuns
<1>5. CASE UNCHANGED vars
  BY <1>5 DEF vars
<1> QED
  BY <1>1, <1>2, <1>3, <1>4, <1>5, Zenon DEF Next

-----------------------------------------------------------------------------
(* The count of live connections.                                           *)

\* Adding a new element, or removing one, changes a cardinality by one.
LEMMA CardAdd ==
    ASSUME NEW S, IsFiniteSet(S), NEW x, x \notin S
    PROVE  Cardinality(S \cup {x}) = Cardinality(S) + 1
  BY FS_AddElement

\* Removing one element does the reverse.
LEMMA CardRemove ==
    ASSUME NEW S, IsFiniteSet(S), NEW x \in S
    PROVE  Cardinality(S \ {x}) = Cardinality(S) - 1
  BY FS_RemoveElement

\* What is counted is finite.
LEMMA CountedFinite ==
    ASSUME Inv1, NEW d \in Endpoints
    PROVE  /\ IsFiniteSet(idle[d]) /\ IsFiniteSet(Counted(d))
           /\ Cardinality(idle[d]) \in Nat /\ Cardinality(Counted(d)) \in Nat
<1>1. idle[d] \subseteq Conns /\ Counted(d) \subseteq Callers
  BY DEF Inv1, TypeOK, Counted
<1> QED
  BY <1>1, FS_Subset, FS_CardinalityType, PoolAssumption

\* New pooled one connection and counted it.
LEMMA LiveExactInit == Init => LiveExact
<1> SUFFICES ASSUME Init, NEW d \in Endpoints
             PROVE  live[d] = Cardinality(idle[d]) + Cardinality(Counted(d))
                                                   + ProbeCounted(d)
  BY DEF LiveExact
<1> PICK e \in Endpoints, c \in Conns :
      /\ idle = [x \in Endpoints |-> IF x = e THEN {c} ELSE {}]
      /\ live = [x \in Endpoints |-> IF x = e THEN 1 ELSE 0]
  BY Zenon DEF Init
<1>1. Counted(d) = {} /\ ProbeCounted(d) = 0
  BY DEF Init, Counted, ProbeCounted
<1>2. Cardinality({}) = 0 /\ Cardinality({c}) = 1
  BY FS_EmptySet, FS_Singleton
<1> QED
  BY <1>1, <1>2

\* Every step moves a connection between the counted places, or changes
\* live together with them.
LEMMA LiveExactNext == Inv1 /\ Inv2 /\ LiveExact /\ [Next]_vars => LiveExact'
<1> DEFINE Exact(d) == live[d] = Cardinality(idle[d]) + Cardinality(Counted(d))
                                                      + ProbeCounted(d)
<1>a. SUFFICES ASSUME Inv1, Inv2, [Next]_vars, NEW d \in Endpoints, Exact(d)
               PROVE  Exact(d)'
  BY Zenon DEF LiveExact
<1>b. /\ IsFiniteSet(idle[d]) /\ IsFiniteSet(Counted(d))
      /\ Cardinality(idle[d]) \in Nat /\ Cardinality(Counted(d)) \in Nat
      /\ ProbeCounted(d) \in Int /\ ProbeCounted(d)' \in Int /\ live[d] \in Int
      /\ live'[d] \in Int
  BY <1>a, CountedFinite, Inv1Next DEF ProbeCounted, Inv1, TypeOK
<1>c. Exact(d)
  BY <1>a
\* Nothing that is counted changes.
<1>same. ASSUME idle'[d] = idle[d], live'[d] = live[d],
                Counted(d)' = Counted(d), ProbeCounted(d)' = ProbeCounted(d)
         PROVE  Exact(d)'
  BY <1>c, <1>same, Zenon
\* A connection changes hands between idle and a caller.
<1>moved. ASSUME live'[d] = live[d], ProbeCounted(d)' = ProbeCounted(d),
                 \/ /\ Cardinality(idle'[d]) = Cardinality(idle[d]) + 1
                    /\ Cardinality(Counted(d)') = Cardinality(Counted(d)) - 1
                 \/ /\ Cardinality(idle'[d]) = Cardinality(idle[d]) - 1
                    /\ Cardinality(Counted(d)') = Cardinality(Counted(d)) + 1
          PROVE  Exact(d)'
  BY <1>b, <1>c, <1>moved
\* A caller reserves, or gives up, a place.
<1>booked. ASSUME idle'[d] = idle[d], ProbeCounted(d)' = ProbeCounted(d),
                  \/ /\ live'[d] = live[d] + 1
                     /\ Cardinality(Counted(d)') = Cardinality(Counted(d)) + 1
                  \/ /\ live'[d] = live[d] - 1
                     /\ Cardinality(Counted(d)') = Cardinality(Counted(d)) - 1
           PROVE  Exact(d)'
  BY <1>b, <1>c, <1>booked
\* The probe counts, or gives up, its connection.
<1>probed. ASSUME idle'[d] = idle[d], Counted(d)' = Counted(d),
                  live'[d] - live[d] = ProbeCounted(d)' - ProbeCounted(d)
           PROVE  Exact(d)'
  BY <1>b, <1>c, <1>probed
\* The probe puts its connection into idle.
<1>handed. ASSUME live'[d] = live[d], Counted(d)' = Counted(d),
                  ProbeCounted(d)' = 0, ProbeCounted(d) = 1,
                  Cardinality(idle'[d]) = Cardinality(idle[d]) + 1
           PROVE  Exact(d)'
  BY <1>b, <1>c, <1>handed
\* Close drains a connection.
<1>drained. ASSUME Counted(d)' = Counted(d), ProbeCounted(d)' = ProbeCounted(d),
                   live'[d] = live[d] - 1,
                   Cardinality(idle'[d]) = Cardinality(idle[d]) - 1
            PROVE  Exact(d)'
  BY <1>b, <1>c, <1>drained
\* A caller joins, or leaves, the ones that count.
<1>in. ASSUME NEW q, q \notin Counted(d)
       PROVE  Cardinality(Counted(d) \cup {q}) = Cardinality(Counted(d)) + 1
  BY <1>b, <1>in, CardAdd
<1>out. ASSUME NEW q, q \in Counted(d)
        PROVE  Cardinality(Counted(d) \ {q}) = Cardinality(Counted(d)) - 1
  BY <1>b, <1>out, CardRemove
\* A connection is put into idle, or taken out.
<1>put. ASSUME NEW c, c \notin idle[d]
        PROVE  Cardinality(idle[d] \cup {c}) = Cardinality(idle[d]) + 1
  BY <1>b, <1>put, CardAdd
<1>take. ASSUME NEW c, c \in idle[d]
         PROVE  Cardinality(idle[d] \ {c}) = Cardinality(idle[d]) - 1
  BY <1>b, <1>take, CardRemove
<1> USE DEF Inv1, TypeOK, CallerLinks, ProbeLinks, HasConn, ProbeHasConn, Inv2,
            Owned, NoLeak, callerVars, probeVars, closeVars
<1>1. ASSUME NEW p \in Callers, CallerStep(p) PROVE Exact(d)'
  <2>1. ASSUME NEW e \in Endpoints, AcquireEnter(p, e) PROVE Exact(d)'
    <3>1. /\ idle'[d] = idle[d] /\ live'[d] = live[d]
          /\ Counted(d)' = Counted(d) /\ ProbeCounted(d)' = ProbeCounted(d)
      BY <1>a, PoolAssumption, <2>1
      DEF AcquireEnter, Goto, Counted, ProbeCounted
    <3> QED
      BY <3>1, <1>same, Zenon
  <2>2. CASE AcquireClosed(p)
    <3>1. /\ idle'[d] = idle[d] /\ live'[d] = live[d]
          /\ Counted(d)' = Counted(d) /\ ProbeCounted(d)' = ProbeCounted(d)
      BY <1>a, PoolAssumption, <2>2
      DEF AcquireClosed, vars, Counted, ProbeCounted
    <3> QED
      BY <3>1, <1>same, Zenon
  <2>3. CASE TakeIdle(p)
    <3>1. PICK c \in idle[at[p]] : idle' = [idle EXCEPT ![at[p]] = @ \ {c}]
      BY <1>a, PoolAssumption, <2>3, Zenon DEF TakeIdle, Counted, ProbeCounted
    <3>2. CASE at[p] = d
      <4>1. /\ idle'[d] = idle[d] \ {c} /\ c \in idle[d]
            /\ live'[d] = live[d] /\ ProbeCounted(d)' = ProbeCounted(d)
            /\ p \notin Counted(d) /\ Counted(d)' = Counted(d) \cup {p}
        BY <1>a, PoolAssumption, <2>3, <3>1, <3>2
        DEF TakeIdle, Goto, Counted, ProbeCounted
      <4>2. Cardinality(idle'[d]) = Cardinality(idle[d]) - 1
        BY <4>1, <1>take, Zenon
      <4>3. Cardinality(Counted(d)') = Cardinality(Counted(d)) + 1
        BY <4>1, <1>in, Zenon
      <4>4. live'[d] = live[d] /\ ProbeCounted(d)' = ProbeCounted(d)
        BY <4>1
      <4> QED
        BY <1>moved, <4>2, <4>3, <4>4, Zenon
    <3>3. CASE at[p] # d
      <4>1. /\ idle'[d] = idle[d] /\ live'[d] = live[d]
            /\ Counted(d)' = Counted(d) /\ ProbeCounted(d)' = ProbeCounted(d)
        BY <1>a, PoolAssumption, <2>3, <3>3
        DEF TakeIdle, Goto, Counted, ProbeCounted
      <4> QED
        BY <4>1, <1>same, Zenon
    <3> QED
      BY <3>2, <3>3
  <2>4. CASE IdleEmpty(p)
    <3>1. /\ idle'[d] = idle[d] /\ live'[d] = live[d]
          /\ Counted(d)' = Counted(d) /\ ProbeCounted(d)' = ProbeCounted(d)
      BY <1>a, PoolAssumption, <2>4 DEF IdleEmpty, Goto, Counted, ProbeCounted
    <3> QED
      BY <3>1, <1>same, Zenon
  <2>5. CASE Reserve(p)
    <3>1. CASE at[p] = d
      <4>1. /\ idle'[d] = idle[d]
            /\ live'[d] = live[d] + 1 /\ ProbeCounted(d)' = ProbeCounted(d)
            /\ p \notin Counted(d) /\ Counted(d)' = Counted(d) \cup {p}
        BY <1>a, PoolAssumption, <2>5, <3>1
        DEF Reserve, Goto, Counted, ProbeCounted
      <4>2. Cardinality(Counted(d)') = Cardinality(Counted(d)) + 1
        BY <4>1, <1>in, Zenon
      <4>3. /\ live'[d] = live[d] + 1 /\ ProbeCounted(d)' = ProbeCounted(d)
            /\ idle'[d] = idle[d]
        BY <4>1
      <4> QED
        BY <1>booked, <4>2, <4>3, Zenon
    <3>2. CASE at[p] # d
      <4>1. /\ idle'[d] = idle[d] /\ live'[d] = live[d]
            /\ Counted(d)' = Counted(d) /\ ProbeCounted(d)' = ProbeCounted(d)
        BY <1>a, PoolAssumption, <2>5, <3>2
        DEF Reserve, Goto, Counted, ProbeCounted
      <4> QED
        BY <4>1, <1>same, Zenon
    <3> QED
      BY <3>1, <3>2
  <2>6. CASE AtCapacity(p)
    <3>1. /\ idle'[d] = idle[d] /\ live'[d] = live[d]
          /\ Counted(d)' = Counted(d) /\ ProbeCounted(d)' = ProbeCounted(d)
      BY <1>a, PoolAssumption, <2>6
      DEF AtCapacity, Goto, Counted, ProbeCounted
    <3> QED
      BY <3>1, <1>same, Zenon
  <2>7. CASE DialStart(p)
    <3>1. /\ idle'[d] = idle[d] /\ live'[d] = live[d]
          /\ Counted(d)' = Counted(d) /\ ProbeCounted(d)' = ProbeCounted(d)
      BY <1>a, PoolAssumption, <2>7 DEF DialStart, Goto, Counted, ProbeCounted
    <3> QED
      BY <3>1, <1>same, Zenon
  <2>8. CASE DialOk(p)
    <3>1. /\ idle'[d] = idle[d] /\ live'[d] = live[d]
          /\ Counted(d)' = Counted(d) /\ ProbeCounted(d)' = ProbeCounted(d)
      BY <1>a, PoolAssumption, <2>8 DEF DialOk, Goto, Counted, ProbeCounted
    <3> QED
      BY <3>1, <1>same, Zenon
  <2>9. CASE DialFail(p)
    <3>1. /\ idle'[d] = idle[d] /\ live'[d] = live[d]
          /\ Counted(d)' = Counted(d) /\ ProbeCounted(d)' = ProbeCounted(d)
      BY <1>a, PoolAssumption, <2>9 DEF DialFail, Goto, Counted, ProbeCounted
    <3> QED
      BY <3>1, <1>same, Zenon
  <2>10. CASE Unreserve(p)
    <3>1. CASE at[p] = d
      <4>1. /\ idle'[d] = idle[d]
            /\ live'[d] = live[d] - 1 /\ ProbeCounted(d)' = ProbeCounted(d)
            /\ p \in Counted(d) /\ Counted(d)' = Counted(d) \ {p}
        BY <1>a, PoolAssumption, <2>10, <3>1
        DEF Unreserve, Goto, Counted, ProbeCounted
      <4>2. Cardinality(Counted(d)') = Cardinality(Counted(d)) - 1
        BY <4>1, <1>out, Zenon
      <4>3. /\ live'[d] = live[d] - 1 /\ ProbeCounted(d)' = ProbeCounted(d)
            /\ idle'[d] = idle[d]
        BY <4>1
      <4> QED
        BY <1>booked, <4>2, <4>3, Zenon
    <3>2. CASE at[p] # d
      <4>1. /\ idle'[d] = idle[d] /\ live'[d] = live[d]
            /\ Counted(d)' = Counted(d) /\ ProbeCounted(d)' = ProbeCounted(d)
        BY <1>a, PoolAssumption, <2>10, <3>2
        DEF Unreserve, Goto, Counted, ProbeCounted
      <4> QED
        BY <4>1, <1>same, Zenon
    <3> QED
      BY <3>1, <3>2
  <2>11. CASE GiveUp(p)
    <3>1. /\ idle'[d] = idle[d] /\ live'[d] = live[d]
          /\ Counted(d)' = Counted(d) /\ ProbeCounted(d)' = ProbeCounted(d)
      BY <1>a, PoolAssumption, <2>11 DEF GiveUp, Goto, Counted, ProbeCounted
    <3> QED
      BY <3>1, <1>same, Zenon
  <2>12. CASE FnReturns(p)
    <3>1. /\ idle'[d] = idle[d] /\ live'[d] = live[d]
          /\ Counted(d)' = Counted(d) /\ ProbeCounted(d)' = ProbeCounted(d)
      BY <1>a, PoolAssumption, <2>12
      DEF FnReturns, Goto, Counted, ProbeCounted
    <3> QED
      BY <3>1, <1>same, Zenon
  <2>13. CASE Release(p)
    <3>1. CASE closed \/ ~Room(at[p])
      <4>1. /\ idle'[d] = idle[d] /\ live'[d] = live[d]
            /\ Counted(d)' = Counted(d) /\ ProbeCounted(d)' = ProbeCounted(d)
        BY <1>a, PoolAssumption, <2>13, <3>1
        DEF Release, Goto, Counted, ProbeCounted
      <4> QED
        BY <4>1, <1>same, Zenon
    <3>2. CASE ~(closed \/ ~Room(at[p])) /\ at[p] = d
      <4>1. /\ idle'[d] = idle[d] \cup {cn[p]} /\ cn[p] \notin idle[d]
            /\ live'[d] = live[d] /\ ProbeCounted(d)' = ProbeCounted(d)
            /\ p \in Counted(d) /\ Counted(d)' = Counted(d) \ {p}
        BY <1>a, PoolAssumption, <2>13, <3>2
        DEF Release, Goto, Counted, ProbeCounted
      <4>2. Cardinality(idle'[d]) = Cardinality(idle[d]) + 1
        BY <4>1, <1>put, Zenon
      <4>3. Cardinality(Counted(d)') = Cardinality(Counted(d)) - 1
        BY <4>1, <1>out, Zenon
      <4>4. live'[d] = live[d] /\ ProbeCounted(d)' = ProbeCounted(d)
        BY <4>1
      <4> QED
        BY <1>moved, <4>2, <4>3, <4>4, Zenon
    <3>3. CASE ~(closed \/ ~Room(at[p])) /\ at[p] # d
      <4>1. /\ idle'[d] = idle[d] /\ live'[d] = live[d]
            /\ Counted(d)' = Counted(d) /\ ProbeCounted(d)' = ProbeCounted(d)
        BY <1>a, PoolAssumption, <2>13, <3>3
        DEF Release, Goto, Counted, ProbeCounted
      <4> QED
        BY <4>1, <1>same, Zenon
    <3> QED
      BY <3>1, <3>2, <3>3
  <2>14. CASE Discard(p)
    <3>1. CASE at[p] = d
      <4>1. /\ idle'[d] = idle[d]
            /\ live'[d] = live[d] - 1 /\ ProbeCounted(d)' = ProbeCounted(d)
            /\ p \in Counted(d) /\ Counted(d)' = Counted(d) \ {p}
        BY <1>a, PoolAssumption, <2>14, <3>1
        DEF Discard, Goto, Counted, ProbeCounted
      <4>2. Cardinality(Counted(d)') = Cardinality(Counted(d)) - 1
        BY <4>1, <1>out, Zenon
      <4>3. /\ live'[d] = live[d] - 1 /\ ProbeCounted(d)' = ProbeCounted(d)
            /\ idle'[d] = idle[d]
        BY <4>1
      <4> QED
        BY <1>booked, <4>2, <4>3, Zenon
    <3>2. CASE at[p] # d
      <4>1. /\ idle'[d] = idle[d] /\ live'[d] = live[d]
            /\ Counted(d)' = Counted(d) /\ ProbeCounted(d)' = ProbeCounted(d)
        BY <1>a, PoolAssumption, <2>14, <3>2
        DEF Discard, Goto, Counted, ProbeCounted
      <4> QED
        BY <4>1, <1>same, Zenon
    <3> QED
      BY <3>1, <3>2
  <2> QED
    BY Zenon, <1>1, <2>1, <2>2, <2>3, <2>4, <2>5, <2>6, <2>7, <2>8, <2>9, <2>10,
       <2>11, <2>12, <2>13, <2>14
    DEF CallerStep, AcquireStep, FinishStep, WaitClosed, WaitCancelled
<1>2. CASE ProbeTick
  <2>1. /\ idle'[d] = idle[d] /\ live'[d] = live[d]
        /\ Counted(d)' = Counted(d) /\ ProbeCounted(d)' = ProbeCounted(d)
    BY <1>a, PoolAssumption, <1>2 DEF ProbeTick, Counted, ProbeCounted
  <2> QED
    BY <2>1, <1>same, Zenon
<1>3. CASE ProbeRuns
  <2>1. CASE ProbeExit
    <3>1. /\ idle'[d] = idle[d] /\ live'[d] = live[d]
          /\ Counted(d)' = Counted(d) /\ ProbeCounted(d)' = ProbeCounted(d)
      BY <1>a, PoolAssumption, <2>1 DEF ProbeExit, Counted, ProbeCounted
    <3> QED
      BY <3>1, <1>same, Zenon
  <2>2. CASE ProbeNext
    <3>1. /\ idle'[d] = idle[d] /\ live'[d] = live[d]
          /\ Counted(d)' = Counted(d) /\ ProbeCounted(d)' = ProbeCounted(d)
      BY <1>a, PoolAssumption, <2>2 DEF ProbeNext, Counted, ProbeCounted
    <3> QED
      BY <3>1, <1>same, Zenon
  <2>3. CASE ProbeDialOk
    <3>1. /\ idle'[d] = idle[d] /\ live'[d] = live[d]
          /\ Counted(d)' = Counted(d) /\ ProbeCounted(d)' = ProbeCounted(d)
      BY <1>a, PoolAssumption, <2>3 DEF ProbeDialOk, Counted, ProbeCounted
    <3> QED
      BY <3>1, <1>same, Zenon
  <2>4. CASE ProbeDialFail
    <3>1. /\ idle'[d] = idle[d] /\ live'[d] = live[d]
          /\ Counted(d)' = Counted(d) /\ ProbeCounted(d)' = ProbeCounted(d)
      BY <1>a, PoolAssumption, <2>4 DEF ProbeDialFail, Counted, ProbeCounted
    <3> QED
      BY <3>1, <1>same, Zenon
  <2>5. CASE ProbeStatusOk
    <3>1. /\ idle'[d] = idle[d] /\ live'[d] = live[d]
          /\ Counted(d)' = Counted(d) /\ ProbeCounted(d)' = ProbeCounted(d)
      BY <1>a, PoolAssumption, <2>5 DEF ProbeStatusOk, Counted, ProbeCounted
    <3> QED
      BY <3>1, <1>same, Zenon
  <2>6. CASE ProbeStatusFail
    <3>1. /\ idle'[d] = idle[d] /\ live'[d] = live[d]
          /\ Counted(d)' = Counted(d) /\ ProbeCounted(d)' = ProbeCounted(d)
      BY <1>a, PoolAssumption, <2>6
      DEF ProbeStatusFail, ProbeDrops, Counted, ProbeCounted
    <3> QED
      BY <3>1, <1>same, Zenon
  <2>7. CASE ProbeClosed
    <3>1. /\ idle'[d] = idle[d] /\ live'[d] = live[d]
          /\ Counted(d)' = Counted(d) /\ ProbeCounted(d)' = ProbeCounted(d)
      BY <1>a, PoolAssumption, <2>7
      DEF ProbeClosed, ProbeDrops, Counted, ProbeCounted
    <3> QED
      BY <3>1, <1>same, Zenon
  <2>8. CASE ProbeCount
    <3>1. Counted(d)' = Counted(d) /\ idle'[d] = idle[d]
      BY <1>a, PoolAssumption, <2>8 DEF ProbeCount, Counted, ProbeCounted
    <3>2. live'[d] - live[d] = ProbeCounted(d)' - ProbeCounted(d)
      BY <1>a, PoolAssumption, <2>8 DEF ProbeCount, Counted, ProbeCounted
    <3> QED
      BY <1>probed, <3>1, <3>2, Zenon
  <2>9. CASE ProbeSend
    <3>1. Counted(d)' = Counted(d) /\ live'[d] = live[d]
      BY <1>a, PoolAssumption, <2>9 DEF ProbeSend, Counted, ProbeCounted
    <3>2. CASE pat = d /\ Room(pat)
      <4>1. /\ idle'[d] = idle[d] \cup {pcn} /\ pcn \notin idle[d]
            /\ ProbeCounted(d)' = 0 /\ ProbeCounted(d) = 1
        BY <1>a, PoolAssumption, <2>9, <3>2
        DEF ProbeSend, Counted, ProbeCounted
      <4>2. Cardinality(idle'[d]) = Cardinality(idle[d]) + 1
        BY <4>1, <1>put, Zenon
      <4>3. ProbeCounted(d)' = 0 /\ ProbeCounted(d) = 1
        BY <4>1
      <4> QED
        BY <1>handed, <3>1, <4>2, <4>3, Zenon
    <3>3. CASE ~(pat = d /\ Room(pat))
      <4>1. idle'[d] = idle[d] /\ ProbeCounted(d)' = ProbeCounted(d)
        BY <1>a, PoolAssumption, <2>9, <3>3
        DEF ProbeSend, Counted, ProbeCounted
      <4> QED
        BY <3>1, <4>1, <1>same, Zenon
    <3> QED
      BY <3>2, <3>3
  <2>10. CASE ProbeOverflow
    <3>1. Counted(d)' = Counted(d) /\ idle'[d] = idle[d]
      BY <1>a, PoolAssumption, <2>10
      DEF ProbeOverflow, ProbeDrops, Counted, ProbeCounted
    <3>2. live'[d] - live[d] = ProbeCounted(d)' - ProbeCounted(d)
      BY <1>a, PoolAssumption, <2>10
      DEF ProbeOverflow, ProbeDrops, Counted, ProbeCounted
    <3> QED
      BY <1>probed, <3>1, <3>2, Zenon
  <2> QED
    BY <1>3, <2>1, <2>2, <2>3, <2>4, <2>5, <2>6, <2>7, <2>8, <2>9, <2>10
    DEF ProbeRuns
<1>4. ASSUME NEW k \in Closers, CloseEnter(k) \/ CloserRuns(k) PROVE Exact(d)'
  <2>1. CASE CloseEnter(k)
    <3>1. /\ idle'[d] = idle[d] /\ live'[d] = live[d]
          /\ Counted(d)' = Counted(d) /\ ProbeCounted(d)' = ProbeCounted(d)
      BY <1>a, PoolAssumption, <2>1
      DEF CloseEnter, CGoto, Counted, ProbeCounted
    <3> QED
      BY <3>1, <1>same, Zenon
  <2>2. CASE DrainOne(k)
    <3>1. PICK e \in Endpoints, c \in Conns :
            /\ c \in idle[e]
            /\ idle' = [idle EXCEPT ![e] = @ \ {c}]
            /\ live' = [live EXCEPT ![e] = @ - 1]
      BY <1>a, PoolAssumption, <2>2, Zenon DEF DrainOne, Counted, ProbeCounted
    <3>2. Counted(d)' = Counted(d) /\ ProbeCounted(d)' = ProbeCounted(d)
      BY <1>a, PoolAssumption, <2>2 DEF DrainOne, Counted, ProbeCounted
    <3>3. CASE e = d
      <4>1. idle'[d] = idle[d] \ {c} /\ c \in idle[d] /\ live'[d] = live[d] - 1
        BY <1>a, <3>1, <3>3
      <4>2. Cardinality(idle'[d]) = Cardinality(idle[d]) - 1
        BY <4>1, <1>take, Zenon
      <4>3. live'[d] = live[d] - 1
        BY <4>1
      <4> QED
        BY <1>drained, <3>2, <4>2, <4>3, Zenon
    <3>4. CASE e # d
      <4>1. idle'[d] = idle[d] /\ live'[d] = live[d]
        BY <1>a, <3>1, <3>4
      <4> QED
        BY <3>2, <4>1, <1>same, Zenon
    <3> QED
      BY <3>3, <3>4
  <2>3. CASE DrainDone(k)
    <3>1. /\ idle'[d] = idle[d] /\ live'[d] = live[d]
          /\ Counted(d)' = Counted(d) /\ ProbeCounted(d)' = ProbeCounted(d)
      BY <1>a, PoolAssumption, <2>3
      DEF DrainDone, CGoto, Counted, ProbeCounted
    <3> QED
      BY <3>1, <1>same, Zenon
  <2>4. CASE CancelProbe(k)
    <3>1. /\ idle'[d] = idle[d] /\ live'[d] = live[d]
          /\ Counted(d)' = Counted(d) /\ ProbeCounted(d)' = ProbeCounted(d)
      BY <1>a, PoolAssumption, <2>4
      DEF CancelProbe, CGoto, Counted, ProbeCounted
    <3> QED
      BY <3>1, <1>same, Zenon
  <2>5. CASE ProbeJoined(k)
    <3>1. /\ idle'[d] = idle[d] /\ live'[d] = live[d]
          /\ Counted(d)' = Counted(d) /\ ProbeCounted(d)' = ProbeCounted(d)
      BY <1>a, PoolAssumption, <2>5
      DEF ProbeJoined, CGoto, Counted, ProbeCounted
    <3> QED
      BY <3>1, <1>same, Zenon
  <2>6. CASE DialsJoined(k)
    <3>1. /\ idle'[d] = idle[d] /\ live'[d] = live[d]
          /\ Counted(d)' = Counted(d) /\ ProbeCounted(d)' = ProbeCounted(d)
      BY <1>a, PoolAssumption, <2>6
      DEF DialsJoined, CGoto, Counted, ProbeCounted
    <3> QED
      BY <3>1, <1>same, Zenon
  <2>7. CASE CloseSession(k)
    <3>1. /\ idle'[d] = idle[d] /\ live'[d] = live[d]
          /\ Counted(d)' = Counted(d) /\ ProbeCounted(d)' = ProbeCounted(d)
      BY <1>a, PoolAssumption, <2>7
      DEF CloseSession, CGoto, Counted, ProbeCounted
    <3> QED
      BY <3>1, <1>same, Zenon
  <2> QED
    BY <1>4, <2>1, <2>2, <2>3, <2>4, <2>5, <2>6, <2>7, Zenon DEF CloserRuns
<1>5. CASE UNCHANGED vars
  <2>1. /\ idle'[d] = idle[d] /\ live'[d] = live[d]
        /\ Counted(d)' = Counted(d) /\ ProbeCounted(d)' = ProbeCounted(d)
    BY <1>a, PoolAssumption, <1>5 DEF vars, Counted, ProbeCounted
  <2> QED
    BY <2>1, <1>same, Zenon
<1> QED
  BY <1>a, <1>1, <1>2, <1>3, <1>4, <1>5 DEF Next

-----------------------------------------------------------------------------
(* The theorems.                                                            *)

IInv == Inv1 /\ Inv2 /\ Inv3 /\ LiveExact

\* The conjunction is inductive.
LEMMA Inductive == Spec => []IInv
<1>1. Init => IInv
  BY Inv1Init, Inv2Init, Inv3Init, LiveExactInit DEF IInv
<1>2. IInv /\ [Next]_vars => IInv'
  BY Inv1Next, Inv2Next, Inv3Next, LiveExactNext DEF IInv
<1> QED
  BY <1>1, <1>2, PTL DEF Spec

\* endpointPool.live is exact at every instant.
THEOREM LiveIsExact == Spec => []LiveExact
<1>1. IInv => LiveExact
  BY DEF IInv
<1> QED
  BY Inductive, <1>1, PTL

\* A slot is taken only in a pool that has fewer than poolSize connections.
THEOREM DialsStayWithinPool == Spec => DialsWithinPool
<1> DEFINE Within(p) ==
      pc[p] = "grow" /\ pc'[p] = "reserved" =>
          Cardinality(idle[at[p]]) + Cardinality(Counted(at[p])) < PoolSize
<1>1. ASSUME IInv, [Next]_vars, NEW p \in Callers PROVE Within(p)
  <2> SUFFICES ASSUME pc[p] = "grow", pc'[p] = "reserved"
               PROVE  Cardinality(idle[at[p]]) + Cardinality(Counted(at[p])) < PoolSize
    OBVIOUS
  <2>t. pc \in [Callers -> CallerPC]
    BY <1>1 DEF IInv, Inv1, TypeOK
  <2>1. Reserve(p)
    <3>1. ASSUME NEW q \in Callers, CallerStep(q) PROVE Reserve(p)
      <4>1. \/ Reserve(q)
            \/ pc' = pc
            \/ \E l \in CallerPC \ {"reserved"} : pc' = [pc EXCEPT ![q] = l]
        BY <3>1, Zenon DEF CallerStep, AcquireStep, FinishStep, AcquireEnter, AcquireClosed,
          TakeIdle, IdleEmpty, AtCapacity, DialStart, DialOk, DialFail, Unreserve,
          WaitClosed, WaitCancelled, GiveUp, FnReturns, Release, Discard, Goto, vars, CallerPC
      <4>2. Reserve(q) => q = p
        BY <2>t DEF Reserve, Goto
      <4> QED
        BY <2>t, <4>1, <4>2
    <3>2. ProbeTick \/ ProbeRuns => pc' = pc
      BY Zenon DEF ProbeTick, ProbeRuns, ProbeExit, ProbeNext, ProbeDialOk, ProbeDialFail,
        ProbeStatusOk, ProbeStatusFail, ProbeClosed, ProbeDrops, ProbeCount, ProbeSend,
        ProbeOverflow, callerVars
    <3>3. ASSUME NEW k \in Closers, CloseEnter(k) \/ CloserRuns(k) PROVE pc' = pc
      BY <3>3, Zenon DEF CloseEnter, CloserRuns, DrainOne, DrainDone, CancelProbe, ProbeJoined,
        DialsJoined, CloseSession, callerVars
    <3> QED
      BY <1>1, <3>1, <3>2, <3>3 DEF Next, vars
  <2>2. at[p] \in Endpoints /\ live[at[p]] < PoolSize
    <3>1. at[p] \in Endpoints \cup {Nil} /\ at[p] # Nil
      BY <1>1 DEF IInv, Inv1, TypeOK, CallerLinks
    <3> QED
      BY <2>1, <3>1, Zenon DEF Reserve
  <2>3. IsFiniteSet(idle[at[p]]) /\ IsFiniteSet(Counted(at[p]))
    BY <1>1, <2>2, PoolAssumption, FS_Subset DEF IInv, Inv1, TypeOK, Counted
  <2>4. Cardinality(idle[at[p]]) \in Nat /\ Cardinality(Counted(at[p])) \in Nat
    BY <2>3, FS_CardinalityType
  <2>5. live[at[p]] = Cardinality(idle[at[p]]) + Cardinality(Counted(at[p])) + ProbeCounted(at[p])
    BY <1>1, <2>2 DEF IInv, LiveExact
  <2>6. ProbeCounted(at[p]) \in {0, 1}
    BY DEF ProbeCounted
  <2> QED
    BY <2>2, <2>4, <2>5, <2>6, PoolAssumption
<1>2. IInv /\ [Next]_vars => \A p \in Callers : Within(p)
  BY <1>1
<1> QED
  BY <1>2, Inductive, PTL DEF Spec, DialsWithinPool

\* No connection is lost or shared, whatever acquire, release, the probe and
\* Close do to each other.
THEOREM NothingLeaks == Spec => []NoLeak
<1>1. IInv => NoLeak
  BY DEF IInv, Inv2
<1> QED
  BY Inductive, <1>1, PTL

\* After Close's drain no connection is pooled again.
THEOREM StaysDrained == Spec => []DrainedForGood
<1>1. IInv => DrainedForGood
  BY DEF IInv, Inv3
<1> QED
  BY Inductive, <1>1, PTL

\* krbSession.Close runs only when no dial can use the session any more.
THEOREM SessionIsUnused == Spec => []SessionUnused
<1>1. IInv => SessionUnused
  BY DEF IInv, Inv1, CallerLinks, Inv3, JoinLinks, SessionUnused
<1> QED
  BY Inductive, <1>1, PTL

-----------------------------------------------------------------------------
(* Pool implements the safety part of Lifecycle.                            *)

\* Every step opens or closes at most one connection, begins or ends Close,
\* or is invisible; no step opens one after the session was closed.
LEMMA StepSimulation == IInv /\ [Next]_vars => [life!LNext]_(life!lvars)
<1> SUFFICES ASSUME IInv, [Next]_vars PROVE life!LNext \/ UNCHANGED life!lvars
  OBVIOUS
<1> USE PoolAssumption
    DEF IInv, Inv1, TypeOK, CallerLinks, ProbeLinks, HasConn, ProbeHasConn,
        Inv2, Owned, NoLeak, Inv3, MuLinks, JoinLinks, life!LNext, life!Dial,
        life!Hangup, life!BeginClose, life!Release, life!lvars,
        callerVars, probeVars, closeVars
<1>1. ASSUME NEW p \in Callers, CallerStep(p) PROVE life!LNext \/ UNCHANGED life!lvars
  <2>1. ASSUME NEW e \in Endpoints, AcquireEnter(p, e) PROVE life!LNext \/ UNCHANGED life!lvars
    BY <2>1 DEF AcquireEnter, Goto
  <2>2. CASE AcquireClosed(p)
    BY <2>2 DEF AcquireClosed, vars
  <2>3. CASE TakeIdle(p)
    BY <2>3 DEF TakeIdle, Goto
  <2>4. CASE IdleEmpty(p)
    BY <2>4 DEF IdleEmpty, Goto
  <2>5. CASE Reserve(p)
    BY <2>5 DEF Reserve, Goto
  <2>6. CASE AtCapacity(p)
    BY <2>6 DEF AtCapacity, Goto
  <2>7. CASE DialStart(p)
    BY <2>7 DEF DialStart, Goto
  <2>8. CASE DialOk(p)
    BY <2>8 DEF DialOk, Goto
  <2>9. CASE DialFail(p)
    BY <2>9 DEF DialFail, Goto
  <2>10. CASE Unreserve(p)
    BY <2>10 DEF Unreserve, Goto
  <2>11. CASE GiveUp(p)
    BY <2>11 DEF GiveUp, Goto
  <2>12. CASE FnReturns(p)
    BY <2>12 DEF FnReturns, Goto
  <2>13. CASE Release(p)
    BY <2>13 DEF Release, Goto, Room
  <2>14. CASE Discard(p)
    BY <2>14 DEF Discard, Goto
  <2> QED
    BY Zenon, <1>1, <2>1, <2>2, <2>3, <2>4, <2>5, <2>6, <2>7, <2>8, <2>9, <2>10,
       <2>11, <2>12, <2>13, <2>14
    DEF CallerStep, AcquireStep, FinishStep, WaitClosed, WaitCancelled
<1>2. CASE ProbeTick
  BY <1>2 DEF ProbeTick
<1>3. CASE ProbeRuns
  <2>1. CASE ProbeExit
    BY <2>1 DEF ProbeExit
  <2>2. CASE ProbeNext
    BY <2>2 DEF ProbeNext
  <2>3. CASE ProbeDialOk
    BY <2>3 DEF ProbeDialOk
  <2>4. CASE ProbeDialFail
    BY <2>4 DEF ProbeDialFail
  <2>5. CASE ProbeStatusOk
    BY <2>5 DEF ProbeStatusOk
  <2>6. CASE ProbeStatusFail
    BY <2>6 DEF ProbeStatusFail, ProbeDrops
  <2>7. CASE ProbeClosed
    BY <2>7 DEF ProbeClosed, ProbeDrops
  <2>8. CASE ProbeCount
    BY <2>8 DEF ProbeCount
  <2>9. CASE ProbeSend
    BY <2>9 DEF ProbeSend, Room
  <2>10. CASE ProbeOverflow
    BY <2>10 DEF ProbeOverflow, ProbeDrops
  <2> QED
    BY <1>3, <2>1, <2>2, <2>3, <2>4, <2>5, <2>6, <2>7, <2>8, <2>9, <2>10, Zenon
    DEF ProbeRuns
<1>4. ASSUME NEW k \in Closers, CloseEnter(k) \/ CloserRuns(k)
      PROVE  life!LNext \/ UNCHANGED life!lvars
  <2>1. CASE CloseEnter(k)
    BY <2>1 DEF CloseEnter, CGoto
  <2>2. CASE DrainOne(k)
    BY <2>2 DEF DrainOne
  <2>3. CASE DrainDone(k)
    BY <2>3 DEF DrainDone, CGoto
  <2>4. CASE CancelProbe(k)
    BY <2>4 DEF CancelProbe, CGoto
  <2>5. CASE ProbeJoined(k)
    BY <2>5 DEF ProbeJoined, CGoto
  <2>6. CASE DialsJoined(k)
    BY <2>6 DEF DialsJoined, CGoto
  <2>7. CASE CloseSession(k)
    BY <2>7 DEF CloseSession, CGoto
  <2> QED
    BY <1>4, <2>1, <2>2, <2>3, <2>4, <2>5, <2>6, <2>7, Zenon DEF CloserRuns
<1>5. CASE UNCHANGED vars
  BY <1>5 DEF vars
<1> QED
  BY <1>1, <1>2, <1>3, <1>4, <1>5, Zenon DEF Next

\* The initial states of Pool are Lifecycle's.
LEMMA InitSimulation == Init => life!LInit
  BY DEF Init, life!LInit

\* Connections and session live as Lifecycle says.
THEOREM ImplementsLifecycleSafety == Spec => life!LSafe
  BY Inductive, InitSimulation, StepSimulation, PTL DEF Spec, life!LSafe
=============================================================================
