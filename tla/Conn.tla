--------------------------------- MODULE Conn ---------------------------------
(***************************************************************************)
(* A connection of DialBinary (internal/transport/binary.go), from its     *)
(* handshake to its last call: the deadline its contexts set on the socket *)
(* (ConnDeadline), the SASL handshake the dial runs under that deadline    *)
(* (SaslHandshake), and the budget through which each call reads its reply *)
(* (Budget).  No I/O succeeds once the deadline is "now".                  *)
(***************************************************************************)
EXTENDS ConnDeadline, SaslHandshake, Budget

cvars == <<dvars, hvars, bvars>>

\* The three parts have their types.
TypeOK == DeadlineTypeOK /\ HandshakeTypeOK /\ BudgetTypeOK

\* Without SASL no mechanism runs; PLAIN stands for either.
Init == DeadlineInit /\ HandshakeInit /\ BudgetInit /\ (sasl \/ mech = "PLAIN")

Usable == pc = "io" /\ deadline # "now"

\* The socket cuts I/O short: its deadline, or a broken connection.
Cut == IOExpired \/ IOTimesOut \/ IOBreaks

-----------------------------------------------------------------------------
(* Turns: what ConnDeadline does between the I/O                           *)

Callback == \E u \in Users : CallbackStarts(u) \/ CallbackRuns(u)
Caller == DialPlain \/ Bind \/ Register \/ Stopped \/ NextCall

Turn ==
    /\ Callback \/ Caller \/ \E u \in Users : CtxDone(u)
    /\ UNCHANGED <<sasl, hvars, bvars>>

-----------------------------------------------------------------------------
(* The dial's I/O: OpenContext                                             *)

Dialing == cur = 0 /\ pc = "io"

Server ==
    /\ Dialing
    /\ ServerSends \/ ServerHangsUp
    /\ UNCHANGED <<dvars, bvars>>

\* Mutant: the dial goes on when OpenContext has failed.
OpenReturnsOk ==
    \/ st' \in {"open", "failed"} /\ IOSucceeds
    \/ st' \notin {"open", "failed"} /\ UNCHANGED dvars

\* OpenContext returns, or has more to do.
OpenReturns ==
    \/ st' = "open" /\ IOSucceeds
    \/ st' = "failed" /\ IOBreaks
    \/ st' \notin {"open", "failed"} /\ UNCHANGED dvars

Handshake ==
    /\ Dialing /\ Usable
    /\ ClientStep
    /\ OpenReturns
    /\ UNCHANGED <<sasl, bvars>>

HandshakeCut ==
    /\ Dialing /\ IOFails /\ Cut
    /\ UNCHANGED <<sasl, bvars>>

-----------------------------------------------------------------------------
(* A call's I/O: the request, and the reply read through the budget        *)

Calling == cur # 0 /\ pc = "io"
Unsent == outcome \in {"idle", "ok"}

Request ==
    /\ Calling /\ Usable /\ Unsent
    /\ \E n \in 1 .. MaxReply : Flush(n)
    /\ UNCHANGED <<dvars, hvars>>

ReplyArrives ==
    /\ Calling
    /\ \E c \in 0 .. MaxReply : Arrives(c) /\ (c = 0 => sasl)
    /\ UNCHANGED <<dvars, hvars>>

CallReturns ==
    \/ outcome' = "ok" /\ IOSucceeds
    \/ outcome' = "size" /\ IOTooLarge
    \/ outcome' = "reading" /\ UNCHANGED dvars

ReadReply ==
    /\ Calling /\ Usable
    /\ Reads
    /\ CallReturns
    /\ UNCHANGED <<sasl, hvars>>

CallCut == Calling /\ Cut /\ UNCHANGED <<sasl, hvars, bvars>>

-----------------------------------------------------------------------------
Next ==
    \/ Turn
    \/ Server \/ Handshake \/ HandshakeCut
    \/ Request \/ ReplyArrives \/ ReadReply \/ CallCut

Spec == Init /\ [][Next]_cvars

\* Callback goroutines run, and the caller goes on: it never waits for ever
\* for anything but its peer.  Nothing obliges the peer, a context or a
\* timeout to end the wait.
Fairness ==
    /\ WF_cvars(Callback /\ UNCHANGED <<sasl, hvars, bvars>>)
    /\ WF_cvars(Caller /\ UNCHANGED <<sasl, hvars, bvars>>)
    /\ WF_cvars(Handshake) /\ WF_cvars(Request) /\ WF_cvars(ReadReply)
    /\ WF_cvars(Dialing /\ IOFails /\ IOExpired /\ UNCHANGED <<sasl, bvars>>)
    /\ WF_cvars(Calling /\ IOExpired /\ UNCHANGED <<sasl, hvars, bvars>>)

FairSpec == Spec /\ Fairness

-----------------------------------------------------------------------------
(* Properties                                                              *)

\* Cancelling its context ends a handshake or a call, even one whose peer
\* never answers.
CancelUnblocks ==
    \A u \in Users :
        cur = u /\ pc \in {"bound", "io", "stop"} /\ u \in ctxDone
            ~> cur # u \/ pc = "idle"

\* Against a server that sends frames or hangs up, OpenContext returns
\* without any help from a deadline: no sequence of frames keeps it busy for
\* ever.
HandshakeEnds ==
    WF_cvars(Server) => (Dialing ~> ~Dialing)

\* No call is made, and no byte of a request written, on a connection whose
\* handshake did not open the transport; a GSSAPI connection is then one
\* whose server has proved itself.
CallsOnOpen ==
    sasl /\ (cur # 0 \/ outcome # "idle") =>
        st = "open" /\ (mech = "GSSAPI" => proved /\ layer)
=============================================================================
