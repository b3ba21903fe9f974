------------------------------- MODULE Cluster -------------------------------
(***************************************************************************)
(* internal/ha.Cluster: which endpoint the next call uses.  Every method   *)
(* runs under Cluster.mu and is one step here.                             *)
(*                                                                         *)
(* coolUntil is only ever compared with the clock, so the model keeps what *)
(* is left of it: cooldown[e] = ticks until coolUntil[e], 0 when e is not  *)
(* cooling.  A cooldown of less than a tick (jitter 0 included) is over at *)
(* once.                                                                   *)
(***************************************************************************)
EXTENDS Integers

CONSTANTS
    N,            \* number of endpoints
    MinBackoff,   \* minBackoff, in ticks
    MaxBackoff,   \* maxBackoff, in ticks
    Random        \* WithRandomEndpointOrder

ASSUME ClusterAssumption ==
    /\ N \in Nat \ {0}
    /\ MinBackoff \in Nat \ {0}
    /\ MaxBackoff \in Nat
    /\ MinBackoff <= MaxBackoff
    /\ Random \in BOOLEAN

Endpoint == 0 .. N - 1     \* also the positions in the pick order

VARIABLES
    order,        \* order[p]: the endpoint at position p of the pick order
    pos,          \* the active endpoint's position
    cooldown,     \* cooldown[e]: ticks left of e's cooldown
    level         \* level[e]: the ceiling of e's last cooldown, 0 if none

cvars == <<order, pos, cooldown, level>>

Permutation(f) ==
    /\ f \in [Endpoint -> Endpoint]
    /\ \A p, q \in Endpoint : f[p] = f[q] => p = q
    /\ \A e \in Endpoint : \E p \in Endpoint : f[p] = e

CInit ==
    /\ order \in [Endpoint -> Endpoint] /\ Permutation(order)
    /\ ~Random => order = [p \in Endpoint |-> p]
    /\ pos = 0
    /\ cooldown = [e \in Endpoint |-> 0]
    /\ level = [e \in Endpoint |-> 0]

CTypeOK ==
    /\ Permutation(order)
    /\ pos \in Endpoint
    /\ cooldown \in [Endpoint -> 0 .. MaxBackoff]
    /\ level \in [Endpoint -> 0 .. MaxBackoff]

Active == order[pos]
PosOf(e) == CHOOSE p \in Endpoint : order[p] = e
CoolingAt(e) == cooldown[e] > 0

\* Steps from position a forward to p in the cyclic pick order.
Dist(a, p) == IF p >= a THEN p - a ELSE p - a + N
After(p) == IF p = N - 1 THEN 0 ELSE p + 1

Usable(cool) == {p \in Endpoint : cool[order[p]] = 0}

\* The first usable position at or after a: the scans of Pick and MarkFailed.
FirstUsable(a, cool) ==
    CHOOSE p \in Usable(cool) : \A q \in Usable(cool) : Dist(a, p) <= Dist(a, q)

\* Pick returns e and makes it active.
Pick(e) ==
    /\ Usable(cooldown) # {}
    /\ pos' = FirstUsable(pos, cooldown)
    /\ e = order[pos']
    /\ UNCHANGED <<order, cooldown, level>>

\* Pick returns ok = false.
PickNone == Usable(cooldown) = {} /\ UNCHANGED cvars

\* Mutant: the doubling is not capped.
DoubleUncapped(l) == IF l = 0 THEN MinBackoff ELSE 2 * l

Double(l) ==
    IF l = 0 THEN MinBackoff
    ELSE IF 2 * l > MaxBackoff THEN MaxBackoff ELSE 2 * l

\* Mutant: the active endpoint is not moved on.
MarkFailedStays(e) ==
    \E jitter \in 0 .. Double(level[e]) - 1 :
        /\ level' = [level EXCEPT ![e] = Double(level[e])]
        /\ cooldown' = [cooldown EXCEPT ![e] = jitter]
        /\ UNCHANGED <<order, pos>>

\* Mutant: the jitter includes the ceiling.
MarkFailedWide(e) ==
    \E jitter \in 0 .. Double(level[e]) :
        LET cool == [cooldown EXCEPT ![e] = jitter] IN
        /\ level' = [level EXCEPT ![e] = Double(level[e])]
        /\ cooldown' = cool
        /\ pos' = IF Usable(cool) = {} THEN pos
                  ELSE FirstUsable(After(PosOf(e)), cool)
        /\ UNCHANGED order

MarkFailed(e) ==
    LET ceiling == Double(level[e]) IN
    \E jitter \in 0 .. ceiling - 1 :
        LET cool == [cooldown EXCEPT ![e] = jitter] IN
        /\ level' = [level EXCEPT ![e] = ceiling]
        /\ cooldown' = cool
        /\ pos' = IF Usable(cool) = {} THEN pos
                  ELSE FirstUsable(After(PosOf(e)), cool)
        /\ UNCHANGED order

MarkHealthy(e) ==
    /\ cooldown' = [cooldown EXCEPT ![e] = 0]
    /\ level' = [level EXCEPT ![e] = 0]
    /\ UNCHANGED <<order, pos>>

Cooling == {e \in Endpoint : CoolingAt(e)}

\* The clock moves on.
Tick ==
    /\ Cooling # {}
    /\ cooldown' = [e \in Endpoint |-> IF cooldown[e] > 0 THEN cooldown[e] - 1 ELSE 0]
    /\ UNCHANGED <<order, pos, level>>
=============================================================================
