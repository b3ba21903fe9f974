----------------------------- MODULE FakeServer -----------------------------
(***************************************************************************)
(* hmstest.Server: the goroutine that accepts, one goroutine for each      *)
(* connection, the failures a test injects, and Stop.  The two ends of a   *)
(* connection close on their own; what was written before a close is still *)
(* delivered.                                                              *)
(*                                                                         *)
(* The module that uses this one says what requests there are and what     *)
(* handling one does.                                                      *)
(***************************************************************************)
EXTENDS Integers, FiniteSets, Sequences

CONSTANTS
    Conns,      \* connections that may exist at once; a dead one's name is used again
    Stoppers,   \* goroutines that call Stop
    MaxFail     \* bound: what WithFailNext is given

ASSUME ServerAssumption == MaxFail \in Nat

VARIABLES
    backlog,    \* connections the kernel has completed, in order
    phase,      \* what the server does with each connection
    registered, \* Server.conns
    shut,       \* connections the server has closed
    left,       \* connections the client has closed
    inbox,      \* the request on its way to the server: none or one
    answer,     \* the reply its handler is about to write: none or one
    outbox,     \* the reply on its way to the client: none or one
    failNext,   \* Server.failNext
    loaded,     \* the value each handler's ReadMessageBegin loaded of it
    serving,    \* the serve goroutine: "accept", "hold" or "exited"
    listening,  \* the listener is open
    stopped,    \* Server.stopped
    stop        \* where each Stop is

svars == <<backlog, phase, registered, shut, left, inbox, answer, outbox, failNext,
           loaded, serving, listening, stopped, stop>>

Handling == {"reading", "swap", "handle", "write"}
Phases   == {"none", "backlog", "hold"} \cup Handling

ServerTypeOK ==
    /\ phase \in [Conns -> Phases]
    /\ backlog \in Seq(Conns)
    /\ {backlog[i] : i \in DOMAIN backlog} = {c \in Conns : phase[c] = "backlog"}
    /\ registered \subseteq Conns /\ shut \subseteq Conns /\ left \subseteq Conns
    /\ \A c \in Conns : /\ Cardinality(inbox[c]) <= 1
                        /\ Cardinality(answer[c]) <= 1
                        /\ Cardinality(outbox[c]) <= 1
    /\ failNext \in 0 .. MaxFail
    /\ loaded \in [Conns -> 0 .. MaxFail]
    /\ serving \in {"accept", "hold", "exited"}
    /\ listening \in BOOLEAN /\ stopped \in BOOLEAN
    /\ stop \in [Stoppers -> {"idle", "listener", "conns", "wait", "returned", "early"}]

NewServer(n) ==
    /\ backlog = <<>>
    /\ phase = [c \in Conns |-> "none"]
    /\ registered = {} /\ shut = {} /\ left = {}
    /\ inbox = [c \in Conns |-> {}]
    /\ answer = [c \in Conns |-> {}]
    /\ outbox = [c \in Conns |-> {}]
    /\ failNext = n
    /\ loaded = [c \in Conns |-> 0]
    /\ serving = "accept" /\ listening = TRUE
    /\ stopped = FALSE
    /\ stop = [s \in Stoppers |-> "idle"]

-----------------------------------------------------------------------------
(* serve                                                                   *)

Accept(c) ==
    /\ serving = "accept" /\ backlog # <<>> /\ c = Head(backlog)
    /\ backlog' = Tail(backlog)
    /\ serving' = "hold"
    /\ phase' = [phase EXCEPT ![c] = "hold"]
    /\ UNCHANGED <<registered, shut, left, inbox, answer, outbox, failNext,
                   loaded, listening, stopped, stop>>

\* Accept returns an error.  It does so once the listener is closed; errors the
\* operating system gives on an open one, which end serve too, are left out.
AcceptFails ==
    /\ serving = "accept" /\ ~listening
    /\ serving' = "exited"
    /\ UNCHANGED <<backlog, phase, registered, shut, left, inbox, answer, outbox,
                   failNext, loaded, listening, stopped, stop>>

Turned(c) ==
    /\ shut' = shut \cup {c}
    /\ inbox' = [inbox EXCEPT ![c] = {}]
    /\ phase' = [phase EXCEPT ![c] = "none"]
    /\ serving' = "exited"
    /\ UNCHANGED registered

Registered(c) ==
    /\ registered' = registered \cup {c}
    /\ phase' = [phase EXCEPT ![c] = "reading"]
    /\ serving' = "accept"
    /\ UNCHANGED <<shut, inbox>>

\* Mutant: the flag is not looked at again under the mutex.
RegisterAnyway(c) ==
    /\ serving = "hold" /\ phase[c] = "hold"
    /\ Registered(c)
    /\ UNCHANGED <<backlog, left, answer, outbox, failNext, loaded, listening, stopped, stop>>

\* Under Server.mu, the one Stop sets stopped under.
Register(c) ==
    /\ serving = "hold" /\ phase[c] = "hold"
    /\ \/ stopped /\ Turned(c)
       \/ ~stopped /\ Registered(c)
    /\ UNCHANGED <<backlog, left, answer, outbox, failNext, loaded, listening, stopped, stop>>

-----------------------------------------------------------------------------
(* handleConn                                                              *)

\* The deferred Close and Delete, and the WaitGroup's Done; what was not read is
\* lost.
Exit(c) ==
    /\ phase' = [phase EXCEPT ![c] = "none"]
    /\ shut' = shut \cup {c}
    /\ registered' = registered \ {c}
    /\ inbox' = [inbox EXCEPT ![c] = {}]

\* One round of ReadMessageBegin's loop: load failNext, and go on if it is 0.
Load(c) ==
    /\ loaded' = [loaded EXCEPT ![c] = failNext]
    /\ phase' = [phase EXCEPT ![c] = IF failNext <= 0 THEN "handle" ELSE "swap"]

ReadMessageBegin(c) ==
    /\ phase[c] = "reading" /\ c \notin shut /\ inbox[c] # {}
    /\ Load(c)
    /\ UNCHANGED <<backlog, registered, shut, left, inbox, answer, outbox, failNext,
                   serving, listening, stopped, stop>>

\* The next message header cannot be read.
ReadFails(c) ==
    /\ phase[c] = "reading"
    /\ c \in shut \/ (c \in left /\ inbox[c] = {})
    /\ Exit(c)
    /\ UNCHANGED <<backlog, left, answer, outbox, failNext, loaded, serving, listening,
                   stopped, stop>>

FailInjected(c) ==
    /\ failNext = loaded[c]
    /\ failNext' = failNext - 1
    /\ loaded' = [loaded EXCEPT ![c] = 0]
    /\ Exit(c)

\* Mutant: a load and a store.
LoadAndStore(c) ==
    /\ phase[c] = "swap"
    /\ failNext' = failNext - 1
    /\ loaded' = [loaded EXCEPT ![c] = 0]
    /\ Exit(c)
    /\ UNCHANGED <<backlog, left, answer, outbox, serving, listening, stopped, stop>>

CompareAndSwap(c) ==
    /\ phase[c] = "swap"
    /\ \/ FailInjected(c)
       \/ /\ failNext # loaded[c]
          /\ Load(c)
          /\ UNCHANGED <<failNext, shut, registered, inbox>>
    /\ UNCHANGED <<backlog, left, answer, outbox, serving, listening, stopped, stop>>

\* The processor reads the arguments and calls the handler, which answers rep.
Process(c, rep) ==
    /\ phase[c] = "handle"
    /\ answer' = [answer EXCEPT ![c] = {rep}]
    /\ inbox' = [inbox EXCEPT ![c] = {}]
    /\ phase' = [phase EXCEPT ![c] = "write"]
    /\ UNCHANGED <<backlog, registered, shut, left, outbox, failNext, loaded, serving,
                   listening, stopped, stop>>

\* The arguments were not all there yet when the connection was closed.
ProcessCut(c) ==
    /\ phase[c] = "handle" /\ c \in shut \cup left
    /\ Exit(c)
    /\ UNCHANGED <<backlog, left, answer, outbox, failNext, loaded, serving, listening,
                   stopped, stop>>

WriteReply(c) ==
    /\ phase[c] = "write"
    /\ answer' = [answer EXCEPT ![c] = {}]
    /\ \/ /\ c \notin shut \cup left
          /\ outbox' = [outbox EXCEPT ![c] = answer[c]]
          /\ phase' = [phase EXCEPT ![c] = "reading"]
          /\ UNCHANGED <<shut, registered, inbox>>
       \/ /\ c \in shut \cup left
          /\ Exit(c)
          /\ UNCHANGED outbox
    /\ UNCHANGED <<backlog, left, failNext, loaded, serving, listening, stopped, stop>>

-----------------------------------------------------------------------------
(* Stop                                                                    *)

SetStopped(s) ==
    /\ stop[s] = "idle"
    /\ stop' = [stop EXCEPT ![s] = IF stopped THEN "early" ELSE "listener"]
    /\ stopped' = TRUE
    /\ UNCHANGED <<backlog, phase, registered, shut, left, inbox, answer, outbox,
                   failNext, loaded, serving, listening>>

\* Connections not yet accepted are reset.
CloseListener(s) ==
    /\ stop[s] = "listener"
    /\ stop' = [stop EXCEPT ![s] = "conns"]
    /\ listening' = FALSE
    /\ backlog' = <<>>
    /\ shut' = shut \cup {c \in Conns : phase[c] = "backlog"}
    /\ phase' = [c \in Conns |-> IF phase[c] = "backlog" THEN "none" ELSE phase[c]]
    /\ inbox' = [c \in Conns |-> IF phase[c] = "backlog" THEN {} ELSE inbox[c]]
    /\ UNCHANGED <<registered, left, answer, outbox, failNext, loaded,
                   serving, stopped>>

\* Mutant: Stop closes the listener only.
CloseNoConn(s) ==
    /\ stop[s] = "conns"
    /\ stop' = [stop EXCEPT ![s] = "wait"]
    /\ UNCHANGED <<backlog, phase, registered, shut, left, inbox, answer, outbox, failNext,
                   loaded, serving, listening, stopped>>

\* conns.Range: one connection at a time, in no order.
CloseConns(s) ==
    /\ stop[s] = "conns"
    /\ \/ \E c \in registered \ shut : shut' = shut \cup {c} /\ UNCHANGED stop
       \/ registered \subseteq shut /\ stop' = [stop EXCEPT ![s] = "wait"] /\ UNCHANGED shut
    /\ UNCHANGED <<backlog, phase, registered, left, inbox, answer, outbox, failNext,
                   loaded, serving, listening, stopped>>

Wait(s) ==
    /\ stop[s] = "wait"
    /\ \A c \in Conns : phase[c] \notin Handling
    /\ stop' = [stop EXCEPT ![s] = "returned"]
    /\ UNCHANGED <<backlog, phase, registered, shut, left, inbox, answer, outbox, failNext,
                   loaded, serving, listening, stopped>>

-----------------------------------------------------------------------------
(* The client's end (net.Conn as the transport uses it)                    *)

\* A new connection takes a name neither end holds any more; the kernel takes
\* its first request before the server accepts it.
Connect(c, req) ==
    /\ listening /\ phase[c] = "none"
    /\ backlog' = Append(backlog, c)
    /\ phase' = [phase EXCEPT ![c] = "backlog"]
    /\ shut' = shut \ {c} /\ left' = left \ {c}
    /\ inbox' = [inbox EXCEPT ![c] = {req}]
    /\ outbox' = [outbox EXCEPT ![c] = {}]
    /\ UNCHANGED <<registered, answer, failNext, loaded, serving, listening, stopped, stop>>

\* What is sent to a closed connection goes nowhere.
Send(c, req) ==
    /\ inbox' = [inbox EXCEPT ![c] = IF phase[c] = "none" THEN {} ELSE {req}]
    /\ UNCHANGED <<backlog, phase, registered, shut, left, answer, outbox, failNext,
                   loaded, serving, listening, stopped, stop>>

Receive(c) ==
    /\ outbox[c] # {}
    /\ outbox' = [outbox EXCEPT ![c] = {}]
    /\ UNCHANGED <<backlog, phase, registered, shut, left, inbox, answer, failNext,
                   loaded, serving, listening, stopped, stop>>

Leave(c) ==
    /\ left' = left \cup {c}
    /\ outbox' = [outbox EXCEPT ![c] = {}]
    /\ UNCHANGED <<backlog, phase, registered, shut, inbox, answer, failNext,
                   loaded, serving, listening, stopped, stop>>

-----------------------------------------------------------------------------
(* The server's steps, but for Process, whose effect is the user's.        *)

Serve == AcceptFails \/ \E c \in Conns : Accept(c) \/ Register(c)

HandleConn(c) ==
    \/ ReadMessageBegin(c) \/ CompareAndSwap(c) \/ ProcessCut(c)
    \/ WriteReply(c) \/ ReadFails(c)

Stop(s) == SetStopped(s) \/ CloseListener(s) \/ CloseConns(s) \/ Wait(s)
=============================================================================
