------------------------------ MODULE Failover ------------------------------
(***************************************************************************)
(* New's dial loop and Client.do's retry loop (client.go) over Cluster:    *)
(* which endpoint each attempt uses, when an endpoint is cooled, when a    *)
(* call is retried.  Acquiring a connection is one step with the outcomes  *)
(* acquire has; module Pool models what happens inside it.                 *)
(***************************************************************************)
EXTENDS Cluster, FiniteSets

CONSTANTS
    Callers,
    Good,         \* endpoints that always accept and answer
    MaxRetries,   \* cfg.maxRetries
    Cancellable,  \* callers whose context can end (the others' cannot)
    Deadlines     \* contexts may carry a deadline, not only be cancelled

ASSUME FailoverAssumption ==
    /\ Good \subseteq Endpoint
    /\ MaxRetries \in Nat \ {0}
    /\ Deadlines \in BOOLEAN

VARIABLES
    phase,        \* New: "pick", "dial", "ready" (Client returned), "refused"
    rounds,       \* New: rounds of the dial loop so far
    dialed,       \* New: the endpoints that refused
    newDone,      \* New: its context is done
    closed,       \* Client.closed
    probing,      \* the probe's Cooling() snapshot, what is left of it
    st,           \* st[p]: where caller p is in do
    idem,         \* idem[p]: p's call is a read
    ep,           \* ep[p]: the endpoint of p's attempt
    tries,        \* tries[p]: attempts made
    ran,          \* ran[p]: attempts in which fn was started
    ctx,          \* ctx[p]: "live", "expired" (deadline passed, ctx.Err()
                  \* still nil), "done"
    res           \* res[p]: "lost" when p's last call was a read and ended
                  \* because every endpoint failed it

newVars == <<phase, rounds, dialed, newDone>>
doVars  == <<st, idem, ep, tries, ran, ctx, res>>
fvars   == <<cvars, newVars, closed, probing, doVars>>

State  == {"out", "pick", "acquire", "acquireErr", "fn", "answered", "unavailable"}
Result == {"none", "lost"}

FTypeOK ==
    /\ phase \in {"pick", "dial", "ready", "refused"}
    /\ rounds \in 0 .. N
    /\ dialed \in SUBSET Endpoint
    /\ newDone \in BOOLEAN
    /\ closed \in BOOLEAN
    /\ probing \in SUBSET Endpoint
    /\ st \in [Callers -> State]
    /\ idem \in [Callers -> BOOLEAN]
    /\ ep \in [Callers -> Endpoint]
    /\ tries \in [Callers -> 0 .. MaxRetries]
    /\ ran \in [Callers -> 0 .. MaxRetries]
    /\ ctx \in [Callers -> {"live", "expired", "done"}]
    /\ res \in [Callers -> Result]

\* The cluster's, New's, and every call's state have their types.
TypeOK == CTypeOK /\ FTypeOK

Init ==
    /\ CInit
    /\ phase = "pick" /\ rounds = 0 /\ dialed = {} /\ newDone = FALSE
    /\ closed = FALSE
    /\ probing = {}
    /\ st = [p \in Callers |-> "out"]
    /\ idem = [p \in Callers |-> TRUE]
    /\ ep = [p \in Callers |-> 0]
    /\ tries = [p \in Callers |-> 0]
    /\ ran = [p \in Callers |-> 0]
    /\ ctx = [p \in Callers |-> "live"]
    /\ res = [p \in Callers |-> "none"]

-----------------------------------------------------------------------------
(* New: dial endpoints in pick order until one accepts.                    *)

NewPick ==
    /\ phase = "pick" /\ rounds < N
    /\ \E e \in Endpoint : Pick(e)
    /\ phase' = "dial"
    /\ rounds' = rounds + 1
    /\ UNCHANGED <<dialed, newDone, closed, probing, doVars>>

NewCancel ==
    /\ phase \in {"pick", "dial"} /\ ~newDone
    /\ newDone' = TRUE
    /\ UNCHANGED <<cvars, phase, rounds, dialed, closed, probing, doVars>>

\* The picked endpoint is the active one: nobody else moves it before New
\* returns.  (Over HTTP a connection is made without dialling, so it is made
\* even when the context is done.)
NewDialOk ==
    /\ phase = "dial"
    /\ phase' = "ready"
    /\ rounds' = 0 /\ dialed' = {}
    /\ UNCHANGED <<cvars, newDone, closed, probing, doVars>>

NewDialFail ==
    /\ phase = "dial"
    /\ Active \notin Good \/ newDone
    /\ MarkFailed(Active)
    /\ phase' = "pick"
    /\ dialed' = dialed \cup {Active}
    /\ UNCHANGED <<rounds, newDone, closed, probing, doVars>>

\* The rounds are used up, or Pick finds every endpoint cooling.
NewGivesUp ==
    /\ phase = "pick"
    /\ rounds = N \/ Usable(cooldown) = {}
    /\ phase' = "refused"
    /\ UNCHANGED <<cvars, rounds, dialed, newDone, closed, probing, doVars>>

-----------------------------------------------------------------------------
(* do                                                                      *)

Goto(p, l) == st' = [st EXCEPT ![p] = l]

\* do returns; its locals and the caller's context are gone.
Return(p, r) ==
    /\ Goto(p, "out")
    /\ res' = [res EXCEPT ![p] = IF r = "unavailable" /\ idem[p] THEN "lost" ELSE "none"]
    /\ idem' = [idem EXCEPT ![p] = TRUE]
    /\ ep' = [ep EXCEPT ![p] = 0]
    /\ tries' = [tries EXCEPT ![p] = 0]
    /\ ran' = [ran EXCEPT ![p] = 0]
    /\ ctx' = [ctx EXCEPT ![p] = "live"]

Begin(p, read) ==
    /\ phase = "ready" /\ st[p] = "out"
    /\ Goto(p, "pick")
    /\ idem' = [idem EXCEPT ![p] = read]
    /\ res' = [res EXCEPT ![p] = "none"]
    /\ UNCHANGED <<cvars, newVars, closed, probing, ep, tries, ran, ctx>>

DoPick(p) ==
    /\ st[p] = "pick" /\ tries[p] < MaxRetries
    /\ \E e \in Endpoint : Pick(e) /\ ep' = [ep EXCEPT ![p] = e]
    /\ tries' = [tries EXCEPT ![p] = @ + 1]
    /\ Goto(p, "acquire")
    /\ UNCHANGED <<newVars, closed, probing, idem, ran, ctx, res>>

\* Mutant: only a cluster that is all cooling ends the loop.
DoExhaustedNoBudget(p) ==
    /\ st[p] = "pick"
    /\ PickNone
    /\ Return(p, "unavailable")
    /\ UNCHANGED <<newVars, closed, probing>>

\* Every endpoint is cooling, or the attempts are used up.
DoExhausted(p) ==
    /\ st[p] = "pick"
    /\ tries[p] = MaxRetries \/ PickNone
    /\ Return(p, "unavailable")
    /\ UNCHANGED <<cvars, newVars, closed, probing>>

Acquired(p) ==
    /\ st[p] = "acquire"
    /\ ran' = [ran EXCEPT ![p] = @ + 1]
    /\ Goto(p, "fn")
    /\ UNCHANGED <<cvars, newVars, closed, probing, idem, ep, tries, ctx, res>>

\* acquire returns errClosed: no endpoint is to blame.
AcquireClosed(p) ==
    /\ st[p] = "acquire" /\ closed
    /\ Return(p, "closed")
    /\ UNCHANGED <<cvars, newVars, closed, probing>>

\* The dial fails, because of the endpoint or because of the context.
AcquireFails(p) ==
    /\ st[p] = "acquire"
    /\ ep[p] \notin Good \/ ctx[p] # "live"
    /\ Goto(p, "acquireErr")
    /\ UNCHANGED <<cvars, newVars, closed, probing, idem, ep, tries, ran, ctx, res>>

\* ctx.Err() decides between giving up and cooling the endpoint.
AcquireErr(p) ==
    /\ st[p] = "acquireErr"
    /\ IF ctx[p] = "done"
       THEN Return(p, "ctx") /\ UNCHANGED cvars
       ELSE /\ MarkFailed(ep[p])
            /\ Goto(p, "pick")
            /\ UNCHANGED <<idem, ep, tries, ran, ctx, res>>
    /\ UNCHANGED <<newVars, closed, probing>>

\* fn returns nil, an exception the endpoint answered with, or an
\* undecodable reply; or an error that classifies as ErrUnavailable.
FnAnswered(p) ==
    /\ st[p] = "fn"
    /\ Goto(p, "answered")
    /\ UNCHANGED <<cvars, newVars, closed, probing, idem, ep, tries, ran, ctx, res>>

FnUnavailable(p) ==
    /\ st[p] = "fn"
    /\ ep[p] \notin Good \/ ctx[p] # "live"
    /\ Goto(p, "unavailable")
    /\ UNCHANGED <<cvars, newVars, closed, probing, idem, ep, tries, ran, ctx, res>>

Answered(p) ==
    /\ st[p] = "answered"
    /\ MarkHealthy(ep[p])
    /\ Return(p, "answered")
    /\ UNCHANGED <<newVars, closed, probing>>

\* Mutant: a failure is charged to the endpoint whatever the context says.
UnavailableCools(p) ==
    /\ st[p] = "unavailable"
    /\ MarkFailed(ep[p])
    /\ IF idem[p] /\ ctx[p] # "done"
       THEN Goto(p, "pick") /\ UNCHANGED <<idem, ep, tries, ran, ctx, res>>
       ELSE Return(p, "unavailable")
    /\ UNCHANGED <<newVars, closed, probing>>

\* Mutant: writes are retried too.
UnavailableRetries(p) ==
    /\ st[p] = "unavailable"
    /\ IF ctx[p] = "done"
       THEN Return(p, "ctx") /\ UNCHANGED cvars
       ELSE /\ MarkFailed(ep[p])
            /\ Goto(p, "pick")
            /\ UNCHANGED <<idem, ep, tries, ran, ctx, res>>
    /\ UNCHANGED <<newVars, closed, probing>>

Unavailable(p) ==
    /\ st[p] = "unavailable"
    /\ IF ctx[p] = "done"
       THEN Return(p, "ctx") /\ UNCHANGED cvars
       ELSE /\ MarkFailed(ep[p])
            /\ IF idem[p]
               THEN Goto(p, "pick") /\ UNCHANGED <<idem, ep, tries, ran, ctx, res>>
               ELSE Return(p, "unavailable")
    /\ UNCHANGED <<newVars, closed, probing>>

-----------------------------------------------------------------------------
(* The caller's context, Close and the recovery probe                      *)

CtxStep(p) ==
    /\ st[p] # "out" /\ p \in Cancellable
    /\ \/ ctx[p] \in {"live", "expired"} /\ ctx' = [ctx EXCEPT ![p] = "done"]
       \/ Deadlines /\ ctx[p] = "live" /\ ctx' = [ctx EXCEPT ![p] = "expired"]
    /\ UNCHANGED <<cvars, newVars, closed, probing, st, idem, ep, tries, ran, res>>

Close ==
    /\ phase = "ready" /\ ~closed
    /\ closed' = TRUE
    /\ UNCHANGED <<cvars, newVars, probing, doVars>>

\* A tick of the probe: Cooling() is read once, then each endpoint is tested.
ProbeStart ==
    /\ phase = "ready" /\ ~closed /\ probing = {}
    /\ Cooling # {}
    /\ probing' = Cooling
    /\ UNCHANGED <<cvars, newVars, closed, doVars>>

ProbeOk(e) ==
    /\ e \in probing
    /\ MarkHealthy(e)
    /\ probing' = probing \ {e}
    /\ UNCHANGED <<newVars, closed, doVars>>

ProbeFails(e) ==
    /\ e \in probing \ Good
    /\ probing' = probing \ {e}
    /\ UNCHANGED <<cvars, newVars, closed, doVars>>

Time == Tick /\ UNCHANGED <<newVars, closed, probing, doVars>>

-----------------------------------------------------------------------------
NewStep == NewPick \/ NewDialOk \/ NewDialFail \/ NewGivesUp

DoStep(p) ==
    \/ DoPick(p) \/ DoExhausted(p)
    \/ Acquired(p) \/ AcquireClosed(p) \/ AcquireFails(p) \/ AcquireErr(p)
    \/ FnAnswered(p) \/ FnUnavailable(p) \/ Answered(p) \/ Unavailable(p)

Next ==
    \/ NewStep \/ NewCancel
    \/ \E p \in Callers : (\E read \in BOOLEAN : Begin(p, read)) \/ DoStep(p) \/ CtxStep(p)
    \/ Close \/ ProbeStart
    \/ \E e \in Endpoint : ProbeOk(e) \/ ProbeFails(e)
    \/ Time

Spec == Init /\ [][Next]_fvars

\* What acquire waits for last, a connection that is released, may never
\* come (module Pool, WaiterUsesCapacity); Close and the end of the context
\* wake it.
AcquireStep(p) == Acquired(p) \/ AcquireClosed(p) \/ AcquireFails(p)

\* New's loop and do's loop run on: a dial ends with its connect timeout and
\* an RPC with its timeout.  An acquire is only sure to end once the client
\* is closed or the caller's context is done.
Fairness ==
    /\ WF_fvars(NewStep)
    /\ \A p \in Callers :
          /\ WF_fvars(st[p] # "acquire" /\ DoStep(p))
          /\ WF_fvars((closed \/ ctx[p] = "done") /\ AcquireStep(p))

FairSpec == Spec /\ Fairness

-----------------------------------------------------------------------------
(* Properties                                                              *)

\* New fails only when every endpoint refused, each in a round of its own:
\* whatever cooldowns expire meanwhile, no round is spent on an endpoint
\* that has already refused.
NewTriesAll == phase = "refused" => dialed = Endpoint /\ rounds = N

\* An endpoint that works is never cooled: not by cancelled calls, by calls
\* that race Close, by other endpoints' failures, or by the probe.  (New
\* itself cools what it cannot dial once its own context is done.)
GoodNeverCools == ~newDone => \A e \in Good : cooldown[e] = 0 /\ level[e] = 0

\* A call with side effects starts fn at most once, whatever fails.
AtMostOnce == \A p \in Callers : ~idem[p] => ran[p] <= 1

\* A cooldown stays below the ceiling it was drawn from, and the ceiling
\* between the two backoff constants; only a failed endpoint has one.
BackoffBounded ==
    \A e \in Endpoint :
        /\ CoolingAt(e) => cooldown[e] < level[e]
        /\ level[e] # 0 => level[e] \in MinBackoff .. MaxBackoff

\* No read is lost while an endpoint works (a New whose own context has ended
\* may have cooled that one).
NoReadLost == \A p \in Callers : res[p] = "lost" => Good = {} \/ newDone

\* The outages a read gets through: one endpoint is down and there are two
\* attempts; or any number but not all of them are, there is an attempt for
\* each endpoint, and the caller is alone.  No context has a deadline.
Survivable ==
    /\ ~Deadlines /\ Good # {}
    /\ \/ MaxRetries >= 2 /\ \E b \in Endpoint : Endpoint \ {b} \subseteq Good
       \/ MaxRetries >= N /\ \A p, q \in Callers : p = q

\* No read is lost to such an outage, whatever cooldowns expire, whatever the
\* probe finds and, when one endpoint is down, whatever other callers report
\* meanwhile.  With two endpoints down and two callers a read can be lost: a
\* late failure of the other caller moves the active endpoint back from the
\* one that works to one this call has already tried (see StaysOnAnswering).
OutageSurvived == Survivable => NoReadLost

\* The active endpoint is left only when it is cooling or when an attempt
\* against it has just failed (SPEC 4.2 point 1: the client "stays on the
\* first one that answers").
JustFailed(e) ==
    \E p \in Callers : ep[p] = e /\ st[p] \in {"acquireErr", "unavailable"} /\ st'[p] # st[p]

StaysOnAnswering ==
    [][phase = "ready" /\ pos' # pos => CoolingAt(Active) \/ JustFailed(Active)]_fvars

\* Every call returns, however endpoints fail and recover, unless it waits
\* in acquire for ever on an open client with a context that never ends.
CallReturns ==
    \A p \in Callers :
        st[p] # "out" ~> \/ st[p] = "out"
                          \/ [](st[p] = "acquire" /\ ~closed /\ ctx[p] # "done")
=============================================================================
