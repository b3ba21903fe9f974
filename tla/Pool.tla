-------------------------------- MODULE Pool --------------------------------
(***************************************************************************)
(* The connection pools of a Client (client.go): acquire, release and      *)
(* discard by concurrent callers, the recovery probe that hands fresh      *)
(* connections to a pool, and Close with everything it waits for.          *)
(*                                                                         *)
(* Endpoint health is left to module Cluster: here a caller may use any    *)
(* endpoint and the probe may find any set of endpoints cooling.           *)
(*                                                                         *)
(* Client.mu is modelled by the variable mu for the two critical sections  *)
(* that touch shared state more than once (Close's drain, the probe's      *)
(* hand-over); every other critical section is one atomic step that needs  *)
(* mu to be free.  acquire receives from idle and reads live without mu.   *)
(***************************************************************************)
EXTENDS Integers, FiniteSets

CONSTANTS
    Endpoints,   \* endpoint indexes, one endpointPool each
    Callers,     \* goroutines that run RPCs through Client.do
    Closers,     \* goroutines that call Client.Close
    Conns,       \* identities a dialed connection can have
    Nil,         \* "no connection", "no endpoint", "mu is free"
    Prober,      \* the recovery-probe goroutine
    PoolSize     \* cfg.poolSize: the capacity of each idle channel

ASSUME PoolAssumption ==
    /\ PoolSize \in Nat \ {0}
    /\ IsFiniteSet(Callers)
    /\ IsFiniteSet(Conns)
    /\ Endpoints # {}
    /\ Nil \notin Endpoints \cup Conns \cup Closers \cup {Prober}
    /\ Prober \notin Closers

VARIABLES
    mu,          \* who holds Client.mu across several steps, or Nil
    closed,      \* Client.closed; closeCh is closed in the same section
    idle,        \* idle[e]: the connections in pools[e].idle
    live,        \* live[e]: pools[e].live
    open,        \* connections whose socket is open
    pc,          \* pc[p]: where caller p is
    at,          \* at[p]: the endpoint of p's current attempt
    cn,          \* cn[p]: the connection p has on loan, or Nil
    inFlight,    \* the callers registered in inFlightDials
    ppc,         \* where the probe goroutine is
    ptodo,       \* the endpoints it still has to probe in this sweep
    pat,         \* the endpoint it is probing, or Nil
    pcn,         \* the connection it has dialed and not yet handed over
    cancelled,   \* probeCancel has been called
    cpc,         \* cpc[k]: where closer k is
    krbClosed    \* krbSession.Close has been called

callerVars == <<pc, at, cn, inFlight>>
probeVars  == <<ppc, ptodo, pat, pcn>>
closeVars  == <<mu, closed, cancelled, cpc, krbClosed>>
vars == <<mu, closed, idle, live, open, pc, at, cn, inFlight, ppc, ptodo, pat,
          pcn, cancelled, cpc, krbClosed>>

CallerPC == {"out", "tryIdle", "grow", "reserved", "dialing", "unreserve",
             "wait", "loan", "release", "discard"}
ProbePC  == {"sleep", "sweep", "dialing", "status", "handover", "counted",
             "overflow", "exited"}
CloserPC == {"out", "drain", "cancel", "waitProbe", "waitDials", "krb",
             "waitOther", "done"}

\* Locks, pools, counters and program counters have their types.
TypeOK ==
    /\ mu \in {Nil, Prober} \cup Closers
    /\ closed \in BOOLEAN
    /\ idle \in [Endpoints -> SUBSET Conns]
    /\ live \in [Endpoints -> Int]
    /\ open \in SUBSET Conns
    /\ pc \in [Callers -> CallerPC]
    /\ at \in [Callers -> Endpoints \cup {Nil}]
    /\ cn \in [Callers -> Conns \cup {Nil}]
    /\ inFlight \in SUBSET Callers
    /\ ppc \in ProbePC
    /\ ptodo \in SUBSET Endpoints
    /\ pat \in Endpoints \cup {Nil}
    /\ pcn \in Conns \cup {Nil}
    /\ cancelled \in BOOLEAN
    /\ cpc \in [Closers -> CloserPC]
    /\ krbClosed \in BOOLEAN

Room(e) == Cardinality(idle[e]) < PoolSize

\* New has dialed one endpoint and pooled that connection.
Init ==
    /\ \E e \in Endpoints, c \in Conns :
          /\ idle = [d \in Endpoints |-> IF d = e THEN {c} ELSE {}]
          /\ live = [d \in Endpoints |-> IF d = e THEN 1 ELSE 0]
          /\ open = {c}
    /\ mu = Nil
    /\ closed = FALSE
    /\ pc = [p \in Callers |-> "out"]
    /\ at = [p \in Callers |-> Nil]
    /\ cn = [p \in Callers |-> Nil]
    /\ inFlight = {}
    /\ ppc = "sleep" /\ ptodo = {} /\ pat = Nil /\ pcn = Nil
    /\ cancelled = FALSE
    /\ cpc = [k \in Closers |-> "out"]
    /\ krbClosed = FALSE

-----------------------------------------------------------------------------
(* acquire                                                                 *)

Goto(p, l) == pc' = [pc EXCEPT ![p] = l]

\* An attempt starts and passes acquire's first closed check.
AcquireEnter(p, e) ==
    /\ pc[p] = "out"
    /\ mu = Nil /\ ~closed
    /\ Goto(p, "tryIdle")
    /\ at' = [at EXCEPT ![p] = e]
    /\ UNCHANGED <<idle, live, cn, inFlight, probeVars, open, closeVars>>

\* The first closed check fails: the call ends with errClosed.
AcquireClosed(p) ==
    /\ pc[p] = "out"
    /\ mu = Nil /\ closed
    /\ UNCHANGED vars

\* A receive from idle, in the fast path or in the final select.
TakeIdle(p) ==
    /\ pc[p] \in {"tryIdle", "wait"}
    /\ \E c \in idle[at[p]] :
          /\ idle' = [idle EXCEPT ![at[p]] = @ \ {c}]
          /\ cn' = [cn EXCEPT ![p] = c]
    /\ Goto(p, "loan")
    /\ UNCHANGED <<live, at, inFlight, probeVars, open, closeVars>>

IdleEmpty(p) ==
    /\ pc[p] = "tryIdle"
    /\ idle[at[p]] = {}
    /\ Goto(p, "grow")
    /\ UNCHANGED <<idle, live, at, cn, inFlight, probeVars, open, closeVars>>

\* The compare-and-swap loop reserves a slot ...
Reserve(p) ==
    /\ pc[p] = "grow"
    /\ live[at[p]] < PoolSize
    /\ live' = [live EXCEPT ![at[p]] = @ + 1]
    /\ Goto(p, "reserved")
    /\ UNCHANGED <<idle, at, cn, inFlight, probeVars, open, closeVars>>

\* ... or finds the pool at capacity and falls through to the select.
AtCapacity(p) ==
    /\ pc[p] = "grow"
    /\ live[at[p]] >= PoolSize
    /\ Goto(p, "wait")
    /\ UNCHANGED <<idle, live, at, cn, inFlight, probeVars, open, closeVars>>

\* Mutant: the reservation is not re-checked against Close.
DialStartUnchecked(p) ==
    /\ pc[p] = "reserved"
    /\ mu = Nil
    /\ Goto(p, "dialing")
    /\ inFlight' = inFlight \cup {p}
    /\ UNCHANGED <<idle, live, at, cn, probeVars, open, closeVars>>

\* The second closed check, and inFlightDials.Add in the same section.
DialStart(p) ==
    /\ pc[p] = "reserved"
    /\ mu = Nil
    /\ IF closed
       THEN /\ Goto(p, "unreserve")
            /\ UNCHANGED inFlight
       ELSE /\ Goto(p, "dialing")
            /\ inFlight' = inFlight \cup {p}
    /\ UNCHANGED <<idle, live, at, cn, probeVars, open, closeVars>>

\* newConn returns a connection, or an error; inFlightDials.Done.
DialOk(p) ==
    /\ pc[p] = "dialing"
    /\ \E c \in Conns \ open :
          /\ open' = open \cup {c}
          /\ cn' = [cn EXCEPT ![p] = c]
    /\ inFlight' = inFlight \ {p}
    /\ Goto(p, "loan")
    /\ UNCHANGED <<idle, live, at, probeVars, closeVars>>

\* Mutant: inFlightDials.Done only on success.
DialFailNoDone(p) ==
    /\ pc[p] = "dialing"
    /\ Goto(p, "unreserve")
    /\ UNCHANGED <<idle, live, at, cn, inFlight, probeVars, open, closeVars>>

\* Mutant: a connection is released although the dial returned none.
DialFailReleases(p) ==
    /\ pc[p] = "dialing"
    /\ inFlight' = inFlight \ {p}
    /\ Goto(p, "release")
    /\ UNCHANGED <<idle, live, at, cn, probeVars, open, closeVars>>

DialFail(p) ==
    /\ pc[p] = "dialing"
    /\ inFlight' = inFlight \ {p}
    /\ Goto(p, "unreserve")
    /\ UNCHANGED <<idle, live, at, cn, probeVars, open, closeVars>>

\* Mutant: the reserved slot is not given back.
UnreserveForgets(p) ==
    /\ pc[p] = "unreserve"
    /\ at' = [at EXCEPT ![p] = Nil]
    /\ Goto(p, "out")
    /\ UNCHANGED <<idle, live, cn, inFlight, probeVars, open, closeVars>>

\* live.Add(-1) on the failed-dial and closed-after-reserve paths.
Unreserve(p) ==
    /\ pc[p] = "unreserve"
    /\ live' = [live EXCEPT ![at[p]] = @ - 1]
    /\ at' = [at EXCEPT ![p] = Nil]
    /\ Goto(p, "out")
    /\ UNCHANGED <<idle, cn, inFlight, probeVars, open, closeVars>>

\* The final select's closeCh and ctx.Done arms.
GiveUp(p) ==
    /\ pc[p] = "wait"
    /\ at' = [at EXCEPT ![p] = Nil]
    /\ Goto(p, "out")
    /\ UNCHANGED <<idle, live, cn, inFlight, probeVars, open, closeVars>>

\* Mutant: the select has no closeCh arm.
WaitClosedMissing(p) == FALSE /\ GiveUp(p)

WaitClosed(p)    == closed /\ GiveUp(p)
WaitCancelled(p) == GiveUp(p)

-----------------------------------------------------------------------------
(* do, once fn has run, and release / discard                              *)

\* fn ends and do chooses: discard after ErrUnavailable or a reply that did
\* not decode, release otherwise.
FnReturns(p) ==
    /\ pc[p] = "loan"
    /\ \E l \in {"release", "discard"} : Goto(p, l)
    /\ UNCHANGED <<idle, live, at, cn, inFlight, open, probeVars, closeVars>>

\* Mutant: release does not look at closed.
ReleaseUnchecked(p) ==
    /\ pc[p] = "release"
    /\ mu = Nil
    /\ Room(at[p])
    /\ idle' = [idle EXCEPT ![at[p]] = @ \cup {cn[p]}]
    /\ cn' = [cn EXCEPT ![p] = Nil]
    /\ at' = [at EXCEPT ![p] = Nil]
    /\ Goto(p, "out")
    /\ UNCHANGED <<live, inFlight, probeVars, open, closeVars>>

\* release: into idle when the client is open and the channel has room,
\* otherwise on to closing the connection.
Release(p) ==
    /\ pc[p] = "release"
    /\ mu = Nil
    /\ IF ~closed /\ Room(at[p])
       THEN /\ idle' = [idle EXCEPT ![at[p]] = @ \cup {cn[p]}]
            /\ cn' = [cn EXCEPT ![p] = Nil]
            /\ at' = [at EXCEPT ![p] = Nil]
            /\ Goto(p, "out")
       ELSE /\ Goto(p, "discard")
            /\ UNCHANGED <<idle, cn, at>>
    /\ UNCHANGED <<live, inFlight, probeVars, open, closeVars>>

\* cn.close and live.Add(-1), for discard and for both tails of release.
Discard(p) ==
    /\ pc[p] = "discard"
    /\ open' = open \ {cn[p]}
    /\ live' = [live EXCEPT ![at[p]] = @ - 1]
    /\ cn' = [cn EXCEPT ![p] = Nil]
    /\ at' = [at EXCEPT ![p] = Nil]
    /\ Goto(p, "out")
    /\ UNCHANGED <<idle, inFlight, probeVars, closeVars>>

-----------------------------------------------------------------------------
(* recoveryProbe and probeCooling                                          *)

\* The ticker fires and Cooling() returns some set of endpoints.
ProbeTick ==
    /\ ppc = "sleep"
    /\ ppc' = "sweep"
    /\ ptodo' \in SUBSET Endpoints
    /\ UNCHANGED <<pat, pcn, idle, live, callerVars, open, closeVars>>

ProbeExit ==
    /\ ppc = "sleep"
    /\ cancelled
    /\ ppc' = "exited"
    /\ UNCHANGED <<ptodo, pat, pcn, idle, live, callerVars, open, closeVars>>

ProbeNext ==
    /\ ppc = "sweep"
    /\ IF ptodo = {}
       THEN ppc' = "sleep" /\ pat' = Nil /\ UNCHANGED ptodo
       ELSE \E e \in ptodo :
               ppc' = "dialing" /\ pat' = e /\ ptodo' = ptodo \ {e}
    /\ UNCHANGED <<pcn, idle, live, callerVars, open, closeVars>>

ProbeDialOk ==
    /\ ppc = "dialing"
    /\ \E c \in Conns \ open :
          /\ open' = open \cup {c}
          /\ pcn' = c
    /\ ppc' = "status"
    /\ UNCHANGED <<ptodo, pat, idle, live, callerVars, closeVars>>

ProbeDialFail ==
    /\ ppc = "dialing"
    /\ ppc' = "sweep"
    /\ UNCHANGED <<ptodo, pat, pcn, idle, live, callerVars, open, closeVars>>

\* getStatus answered: markHealthy, then the hand-over.
ProbeStatusOk ==
    /\ ppc = "status"
    /\ ppc' = "handover"
    /\ UNCHANGED <<ptodo, pat, pcn, idle, live, callerVars, open, closeVars>>

\* Mutant: the probe forgets to close what it does not hand over.
ProbeDropsLeaks ==
    /\ ppc' = "sweep"
    /\ pcn' = Nil
    /\ UNCHANGED <<ptodo, pat, idle, callerVars, open>>

\* cn.close by the probe: after a failed getStatus, or on a closed client.
ProbeDrops ==
    /\ ppc' = "sweep"
    /\ pcn' = Nil
    /\ open' = open \ {pcn}
    /\ UNCHANGED <<ptodo, pat, idle, callerVars>>

ProbeStatusFail ==
    /\ ppc = "status"
    /\ ProbeDrops
    /\ UNCHANGED <<live, closeVars>>

ProbeClosed ==
    /\ ppc = "handover"
    /\ mu = Nil /\ closed
    /\ ProbeDrops
    /\ UNCHANGED <<live, closeVars>>

\* Mutant: the connection is not counted before it is sent.
ProbeCountForgets ==
    /\ ppc = "handover"
    /\ mu = Nil /\ ~closed
    /\ mu' = Prober
    /\ ppc' = "counted"
    /\ UNCHANGED <<ptodo, pat, pcn, idle, live, closed, cancelled, cpc, krbClosed,
                   callerVars, open>>

\* live.Add(1) while holding mu ...
ProbeCount ==
    /\ ppc = "handover"
    /\ mu = Nil /\ ~closed
    /\ mu' = Prober
    /\ live' = [live EXCEPT ![pat] = @ + 1]
    /\ ppc' = "counted"
    /\ UNCHANGED <<ptodo, pat, pcn, idle, closed, cancelled, cpc, krbClosed,
                   callerVars, open>>

\* ... then the non-blocking send, and mu is released.
ProbeSend ==
    /\ ppc = "counted"
    /\ mu' = Nil
    /\ IF Room(pat)
       THEN /\ idle' = [idle EXCEPT ![pat] = @ \cup {pcn}]
            /\ ppc' = "sweep"
            /\ pcn' = Nil
       ELSE /\ ppc' = "overflow"
            /\ UNCHANGED <<idle, pcn>>
    /\ UNCHANGED <<ptodo, pat, live, closed, cancelled, cpc, krbClosed,
                   callerVars, open>>

\* The pool was full: close and uncount.
ProbeOverflow ==
    /\ ppc = "overflow"
    /\ ProbeDrops
    /\ live' = [live EXCEPT ![pat] = @ - 1]
    /\ UNCHANGED closeVars

-----------------------------------------------------------------------------
(* Close                                                                   *)

CGoto(k, l) == cpc' = [cpc EXCEPT ![k] = l]

\* The first caller sets closed, closes closeCh and keeps mu for the drain;
\* any other caller only waits for the probe.
CloseEnter(k) ==
    /\ cpc[k] = "out"
    /\ mu = Nil
    /\ IF closed
       THEN /\ CGoto(k, "waitOther")
            /\ UNCHANGED <<mu, closed>>
       ELSE /\ CGoto(k, "drain")
            /\ mu' = k
            /\ closed' = TRUE
    /\ UNCHANGED <<idle, live, cancelled, krbClosed,
                   probeVars, callerVars, open>>

\* drainPool closes one idle connection ...
DrainOne(k) ==
    /\ cpc[k] = "drain"
    /\ \E e \in Endpoints : \E c \in idle[e] :
          /\ idle' = [idle EXCEPT ![e] = @ \ {c}]
          /\ live' = [live EXCEPT ![e] = @ - 1]
          /\ open' = open \ {c}
    /\ UNCHANGED <<probeVars, callerVars, closeVars>>

\* ... until every pool is empty, and mu is released.
DrainDone(k) ==
    /\ cpc[k] = "drain"
    /\ \A e \in Endpoints : idle[e] = {}
    /\ CGoto(k, "cancel")
    /\ mu' = Nil
    /\ UNCHANGED <<idle, live, closed, cancelled, krbClosed,
                   probeVars, callerVars, open>>

CancelProbe(k) ==
    /\ cpc[k] = "cancel"
    /\ cancelled' = TRUE
    /\ CGoto(k, "waitProbe")
    /\ UNCHANGED <<idle, live, mu, closed, krbClosed,
                   probeVars, callerVars, open>>

\* <-probeDone, by the closing caller and by the others.
ProbeJoined(k) ==
    /\ cpc[k] \in {"waitProbe", "waitOther"}
    /\ ppc = "exited"
    /\ CGoto(k, IF cpc[k] = "waitProbe" THEN "waitDials" ELSE "done")
    /\ UNCHANGED <<idle, live, mu, closed, cancelled, krbClosed,
                   probeVars, callerVars, open>>

\* Mutant: Close does not wait for the dials in flight.
DialsNotJoined(k) ==
    /\ cpc[k] = "waitDials"
    /\ CGoto(k, "krb")
    /\ UNCHANGED <<idle, live, mu, closed, cancelled, krbClosed,
                   probeVars, callerVars, open>>

DialsJoined(k) ==
    /\ cpc[k] = "waitDials"
    /\ inFlight = {}
    /\ CGoto(k, "krb")
    /\ UNCHANGED <<idle, live, mu, closed, cancelled, krbClosed,
                   probeVars, callerVars, open>>

CloseSession(k) ==
    /\ cpc[k] = "krb"
    /\ krbClosed' = TRUE
    /\ CGoto(k, "done")
    /\ UNCHANGED <<idle, live, mu, closed, cancelled,
                   probeVars, callerVars, open>>

-----------------------------------------------------------------------------
AcquireStep(p) ==
    \/ TakeIdle(p) \/ IdleEmpty(p) \/ Reserve(p) \/ AtCapacity(p)
    \/ DialStart(p) \/ DialOk(p) \/ DialFail(p) \/ Unreserve(p)
    \/ WaitClosed(p)

FinishStep(p) ==
    FnReturns(p) \/ Release(p) \/ Discard(p)

CallerStep(p) ==
    \/ \E e \in Endpoints : AcquireEnter(p, e)
    \/ AcquireClosed(p) \/ WaitCancelled(p)
    \/ AcquireStep(p) \/ FinishStep(p)

ProbeRuns ==
    \/ ProbeExit \/ ProbeNext \/ ProbeDialOk \/ ProbeDialFail
    \/ ProbeStatusOk \/ ProbeStatusFail \/ ProbeClosed \/ ProbeCount
    \/ ProbeSend \/ ProbeOverflow

CloserRuns(k) ==
    \/ DrainOne(k) \/ DrainDone(k) \/ CancelProbe(k) \/ ProbeJoined(k)
    \/ DialsJoined(k) \/ CloseSession(k)

Next ==
    \/ \E p \in Callers : CallerStep(p)
    \/ ProbeTick \/ ProbeRuns
    \/ \E k \in Closers : CloseEnter(k) \/ CloserRuns(k)

Spec == Init /\ [][Next]_vars

\* Goroutines that can run do run: dials, RPCs and probes end (each is
\* bounded by a timeout), and every critical section is left again.
\* Nothing forces a new call, a cancelled context, a tick or a Close.
\* Once the probe is cancelled its select sees ctx.Done at every turn, and
\* Go's select takes a ready arm infinitely often offered: strong fairness.
Fairness ==
    /\ \A p \in Callers : WF_vars(AcquireStep(p)) /\ WF_vars(FinishStep(p))
    /\ WF_vars(ProbeRuns) /\ SF_vars(ProbeExit)
    /\ \A k \in Closers : WF_vars(CloserRuns(k))

FairSpec == Spec /\ Fairness

-----------------------------------------------------------------------------
(* Properties                                                              *)

\* Callers whose attempt is counted in live.
Counted(e) == {p \in Callers :
    at[p] = e /\ pc[p] \in {"reserved", "dialing", "unreserve", "loan",
                            "release", "discard"}}

ProbeCounted(e) ==
    IF pat = e /\ ppc \in {"counted", "overflow"} THEN 1 ELSE 0

\* live is exact at every instant: it is the number of idle connections,
\* of reserved slots and connections callers hold, and of the connection
\* the probe has counted but not yet sent.  A path that forgot one Add, or
\* counted twice, would break it and starve the pool or let acquire overfill it.
LiveExact ==
    \A e \in Endpoints :
        live[e] = Cardinality(idle[e]) + Cardinality(Counted(e)) + ProbeCounted(e)

\* acquire never dials one more than the pool permits (the comment in
\* probeCooling): a caller takes a slot only while the connections of that
\* pool, idle, on loan or being dialed, are fewer than poolSize.  Only the
\* probe takes a pool beyond poolSize.
DialsWithinPool ==
    [][\A p \in Callers :
          pc[p] = "grow" /\ pc'[p] = "reserved" =>
              Cardinality(idle[at[p]]) + Cardinality(Counted(at[p])) < PoolSize]_vars

\* No socket is ever abandoned: every open connection is idle in a pool, on
\* loan to a caller or held by the probe, and no two of them share one.
NoLeak ==
    /\ \A c \in open : \/ \E e \in Endpoints : c \in idle[e]
                       \/ \E p \in Callers : cn[p] = c
                       \/ pcn = c
    /\ \A d, e \in Endpoints : d # e => idle[d] \cap idle[e] = {}
    /\ \A p, q \in Callers : p # q /\ cn[p] = cn[q] => cn[p] = Nil
    /\ \A p \in Callers, e \in Endpoints :
          cn[p] \notin idle[e] /\ (cn[p] = pcn => cn[p] = Nil)
    /\ \A e \in Endpoints : pcn \notin idle[e]

\* Once Close has let go of mu, no connection is ever in a pool again: a
\* release or probe hand-over racing Close never strands one there.
DrainedForGood ==
    closed /\ mu = Nil => \A e \in Endpoints : idle[e] = {}

\* The Kerberos session is closed only when no dial can read it any more:
\* no caller and no probe is inside newConn, or will be.
SessionUnused ==
    krbClosed => /\ \A p \in Callers : pc[p] # "dialing"
                 /\ ppc = "exited"

\* Pool implements Lifecycle: no connection is opened once the session is
\* closed, the session is closed once, after Close was called, and every
\* connection still open then is closed.
life == INSTANCE Lifecycle WITH
    phase <- IF krbClosed THEN "released" ELSE IF closed THEN "closing" ELSE "serving",
    conns <- open

ImplementsLifecycle == life!LSpec

\* Every Close returns, whoever wins the race to close.
CloseReturns == \A k \in Closers : cpc[k] # "out" ~> cpc[k] = "done"

\* After Close every socket is eventually closed, every slot given back and
\* the Kerberos session released, for good.
CloseReleasesAll ==
    closed ~> [](open = {} /\ krbClosed /\ \A e \in Endpoints : live[e] = 0)

\* A caller blocked in acquire wakes once the client is closed.
CloseWakesWaiters ==
    \A p \in Callers : pc[p] = "wait" /\ closed ~> pc[p] # "wait"

\* A caller blocked in acquire while its pool is under capacity gets to go.
WaiterUsesCapacity ==
    \A p \in Callers :
        (pc[p] = "wait" /\ live[at[p]] < PoolSize) ~> pc[p] # "wait"
=============================================================================
