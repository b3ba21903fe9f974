----------------------------- MODULE ConnDeadline -----------------------------
(***************************************************************************)
(* Who sets the deadline of a connection's socket (internal/transport,     *)
(* binary.go and ctxclient.go): DialBinary while the SASL handshake runs,  *)
(* then each ContextClient.Call, and the callbacks that context.AfterFunc  *)
(* starts when a context is done, on goroutines of their own.  TSocket's   *)
(* own deadline calls are no-ops (deadlineShield).                         *)
(*                                                                         *)
(* A connection has one user at a time: the dial first, then one call      *)
(* after the other, each with a context of its own.                        *)
(***************************************************************************)
EXTENDS Integers

CONSTANT Calls   \* how many calls are made on the connection

ASSUME DeadlineAssumption == Calls \in Nat

Users == 0 .. Calls     \* 0 is the dial, the others are the calls in turn

\* What a user's I/O can come to: "size" is the budget's refusal of a reply.
Results == {"none", "ok", "ctx", "timeout", "broken", "size"}

VARIABLES
    sasl,        \* the dial runs a SASL handshake
    cur,         \* the user whose turn it is
    pc,          \* where it is: "begin", "bound", "io", "stop", "idle"
    armed,       \* the users whose AfterFunc is registered
    firing,      \* the users whose callback has started and not yet run
    fired,       \* the users whose callback has run
    ctxDone,     \* the users whose context is done
    deadline,    \* the socket's: "none", "later" or "now"
    setBy,       \* the user that set it last
    result       \* result[u]: one of Results

dvars == <<sasl, cur, pc, armed, firing, fired, ctxDone, deadline, setBy, result>>

\* Turns, callbacks and the socket's deadline have their types.
DeadlineTypeOK ==
    /\ sasl \in BOOLEAN
    /\ cur \in Users
    /\ pc \in {"begin", "bound", "io", "stop", "idle"}
    /\ armed \in SUBSET Users /\ firing \in SUBSET Users /\ fired \in SUBSET Users
    /\ ctxDone \in SUBSET Users
    /\ deadline \in {"none", "later", "now"}
    /\ setBy \in Users
    /\ result \in [Users -> Results]

DeadlineInit ==
    /\ sasl \in BOOLEAN
    /\ cur = 0 /\ pc = "begin"
    /\ armed = {} /\ firing = {} /\ fired = {}
    /\ ctxDone = {}
    /\ deadline = "none" /\ setBy = 0
    /\ result = [u \in Users |-> "none"]

Set(d, u) == deadline' = d /\ setBy' = u

-----------------------------------------------------------------------------
(* Contexts and AfterFunc                                                  *)

\* The current user's context is cancelled, or its deadline passes.
CtxDone(u) ==
    /\ u = cur /\ u \notin ctxDone
    /\ ctxDone' = ctxDone \cup {u}
    /\ UNCHANGED <<cur, pc, armed, firing, fired, deadline, setBy, result>>

\* AfterFunc starts the callback's goroutine, which stop can no longer undo ...
CallbackStarts(u) ==
    /\ u \in armed /\ u \in ctxDone
    /\ armed' = armed \ {u}
    /\ firing' = firing \cup {u}
    /\ UNCHANGED <<cur, pc, fired, ctxDone, deadline, setBy, result>>

\* Mutant: the callback does not touch the socket.
CallbackIdle(u) ==
    /\ u \in firing
    /\ firing' = firing \ {u}
    /\ fired' = fired \cup {u}
    /\ UNCHANGED <<cur, pc, armed, ctxDone, deadline, setBy, result>>

\* ... and the callback moves the deadline to now.
CallbackRuns(u) ==
    /\ u \in firing
    /\ Set("now", u)
    /\ firing' = firing \ {u}
    /\ fired' = fired \cup {u}
    /\ UNCHANGED <<cur, pc, armed, ctxDone, result>>

-----------------------------------------------------------------------------
(* DialBinary and Call                                                     *)

\* The dial without SASL leaves the deadline alone.
DialPlain ==
    /\ cur = 0 /\ pc = "begin" /\ ~sasl
    /\ pc' = "idle"
    /\ result' = [result EXCEPT ![0] = "ok"]
    /\ UNCHANGED <<cur, armed, firing, fired, ctxDone, deadline, setBy>>

\* SetDeadline with the context's deadline or the timeout, if there is one.
\* Without one, Call clears the deadline and the dial leaves it as it is.
Bind ==
    /\ pc = "begin" /\ (cur = 0 => sasl)
    /\ \/ Set("later", cur)
       \/ cur # 0 /\ Set("none", cur)
       \/ cur = 0 /\ UNCHANGED <<deadline, setBy>>
    /\ pc' = "bound"
    /\ UNCHANGED <<cur, armed, firing, fired, ctxDone, result>>

Register ==
    /\ pc = "bound"
    /\ armed' = armed \cup {cur}
    /\ pc' = "io"
    /\ UNCHANGED <<cur, firing, fired, ctxDone, deadline, setBy, result>>

\* The handshake or the RPC succeeds ...
IOSucceeds ==
    /\ pc = "io"
    /\ result' = [result EXCEPT ![cur] = "ok"]
    /\ pc' = "stop"
    /\ UNCHANGED <<cur, armed, firing, fired, ctxDone, deadline, setBy>>

\* Mutant: the socket's state is reported in place of ctx.Err().
FailRaw(err) ==
    /\ result' = [result EXCEPT ![cur] = IF cur \in ctxDone THEN deadline ELSE err]
    /\ pc' = "stop"
    /\ UNCHANGED <<cur, armed, firing, fired, ctxDone, deadline, setBy>>

Fail(err) ==
    /\ result' = [result EXCEPT ![cur] = IF cur \in ctxDone THEN "ctx" ELSE err]
    /\ pc' = "stop"
    /\ UNCHANGED <<cur, armed, firing, fired, ctxDone, deadline, setBy>>

\* ... or fails: the socket's deadline is now, the deadline this user set
\* has come, or the connection breaks.  ctx.Err() takes precedence.
IOExpired == pc = "io" /\ deadline = "now" /\ Fail("timeout")
IOTimesOut == pc = "io" /\ deadline = "later" /\ setBy = cur /\ Fail("timeout")
IOBreaks == pc = "io" /\ Fail("broken")
IOTooLarge == pc = "io" /\ cur # 0 /\ Fail("size")

\* The dial calls stop, does not wait for a callback that has started, and
\* clears the deadline.
DialStops ==
    /\ cur = 0 /\ pc = "stop"
    /\ armed' = armed \ {0}
    /\ Set("none", 0)
    /\ pc' = "idle"
    /\ UNCHANGED <<cur, firing, fired, ctxDone, result>>

\* Mutant: Call does not wait for a callback that has started.
CallStopsOnly ==
    /\ cur # 0 /\ pc = "stop"
    /\ armed' = armed \ {cur}
    /\ pc' = "idle"
    /\ UNCHANGED <<cur, firing, fired, ctxDone, deadline, setBy, result>>

\* Call waits for it.
CallStops ==
    /\ cur # 0 /\ pc = "stop"
    /\ cur \in armed \/ cur \in fired
    /\ armed' = armed \ {cur}
    /\ pc' = "idle"
    /\ UNCHANGED <<cur, firing, fired, ctxDone, deadline, setBy, result>>

\* The connection is lent to the next call, if the last user did not fail.  The
\* call's context may be done before it starts.
NextCall ==
    /\ pc = "idle" /\ result[cur] = "ok"
    /\ cur + 1 \in Users
    /\ cur' = cur + 1
    /\ pc' = "begin"
    /\ ctxDone' \in {ctxDone, ctxDone \cup {cur'}}
    /\ UNCHANGED <<armed, firing, fired, deadline, setBy, result>>

-----------------------------------------------------------------------------
Stopped == DialStops \/ CallStops

Step ==
    \/ \E u \in Users : CtxDone(u) \/ CallbackStarts(u) \/ CallbackRuns(u)
    \/ DialPlain \/ Bind \/ Register
    \/ IOSucceeds \/ IOExpired \/ IOTimesOut \/ IOBreaks \/ IOTooLarge
    \/ Stopped \/ NextCall

DeadlineNext == Step /\ UNCHANGED sasl

DeadlineSpec == DeadlineInit /\ [][DeadlineNext]_dvars

-----------------------------------------------------------------------------
(* Properties                                                              *)

\* The only expired deadline that I/O meets is its user's own: the dial left
\* a clean slate, and no callback of an earlier user cuts a later call short.
OwnDeadline == pc = "io" /\ deadline = "now" => setBy = cur

\* No call's callback cuts another call short; on a connection dialed without
\* SASL nobody's does.
CallsIndependent ==
    pc = "io" /\ deadline = "now" => setBy = cur \/ (sasl /\ setBy = 0)
=============================================================================
