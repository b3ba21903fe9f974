---------------------------- MODULE SaslHandshake ----------------------------
(***************************************************************************)
(* saslTransport.OpenContext (internal/transport/sasl.go) driving the      *)
(* PLAIN mechanism or the GSSAPI one (gssapi.go) against a server that may *)
(* send any frames, also ahead of the client, or hang up.                  *)
(*                                                                         *)
(* A token is abstracted to what the mechanism looks at: which message it  *)
(* is, and for each test of verifyAPRep, unwrap and selectSecurityLayer    *)
(* whether it passes.                                                      *)
(***************************************************************************)
EXTENDS Naturals, Sequences

CONSTANTS
    Ahead         \* frames the server may have sent that are not yet read

ASSUME HandshakeAssumption == Ahead \in Nat \ {0}

\* An AP_REP: does the session key decrypt it, does it echo the timestamp of
\* the authenticator, does it carry a subkey.
APRep == [msg : {"aprep"}, decrypts : BOOLEAN, echoes : BOOLEAN, subkey : BOOLEAN]

\* A wrap token: its flags, the key its checksum verifies with, and the offer
\* inside: is it 4 octets, does its mask have the auth bit.
Wrap == [msg : {"wrap"}, acceptor : BOOLEAN, sealed : BOOLEAN,
         key : {"session", "subkey", "none"}, size4 : BOOLEAN, auth : BOOLEAN]

\* A KRB_ERROR, an empty payload, or bytes that parse as nothing.
Other == [msg : {"krberror", "empty", "junk"}]

\* A frame as recvNegotiate returns it; "huge" exceeds saslMaxFrame.
Frame ==
    [status : {"ok"}, token : APRep \cup Wrap \cup Other]
        \cup [status : {"complete", "bad", "error", "unknown", "huge"}]

VARIABLES
    mech,         \* the mechanism: "PLAIN" or "GSSAPI"
    st,           \* the driver: "start", "first", "recv", "open", "failed"
    stage,        \* gssapiMech.stage: 0 AP_REQ, 1 AP_REP, 2 security layer, 3 done
    sent,         \* plainMech.sent
    done,         \* the last Step reported its response as the last one
    ctxKey,       \* gssapiMech.ctxKey
    out,          \* the statuses of the frames sent to the server
    in,           \* frames the server has sent
    hungUp,       \* the server has closed the connection
    proved,       \* the server has proved it holds the service key
    layer         \* an offer of QOP auth was verified with ctxKey

hvars == <<mech, st, stage, sent, done, ctxKey, out, in, hungUp, proved, layer>>
mechVars == <<mech, stage, sent, ctxKey, proved, layer>>

\* The driver's, the mechanism's and the channel's state have their types.
HandshakeTypeOK ==
    /\ mech \in {"PLAIN", "GSSAPI"}
    /\ st \in {"start", "first", "recv", "open", "failed"}
    /\ stage \in 0 .. 3
    /\ sent \in BOOLEAN /\ done \in BOOLEAN
    /\ ctxKey \in {"none", "session", "subkey"}
    /\ out \in Seq({"START", "OK", "COMPLETE"})
    /\ in \in Seq(Frame) /\ Len(in) <= Ahead
    /\ hungUp \in BOOLEAN /\ proved \in BOOLEAN /\ layer \in BOOLEAN

HandshakeInit ==
    /\ mech \in {"PLAIN", "GSSAPI"}
    /\ st = "start" /\ stage = 0 /\ sent = FALSE /\ done = FALSE
    /\ ctxKey = "none"
    /\ out = <<>> /\ in = <<>> /\ hungUp = FALSE
    /\ proved = FALSE /\ layer = FALSE

-----------------------------------------------------------------------------
(* The server and the network: any frame, in any order, or none            *)

ServerSends ==
    /\ ~hungUp /\ Len(in) < Ahead
    /\ \E f \in Frame : in' = Append(in, f)
    /\ UNCHANGED <<st, done, out, hungUp, mechVars>>

ServerHangsUp ==
    /\ ~hungUp
    /\ hungUp' = TRUE
    /\ UNCHANGED <<st, done, out, in, mechVars>>

-----------------------------------------------------------------------------
(* The driver                                                              *)

\* A write or read fails, or the deadline expires.
IOFails ==
    /\ st \in {"start", "first", "recv"}
    /\ st' = "failed"
    /\ UNCHANGED <<done, out, in, hungUp, mechVars>>

SendStart ==
    /\ st = "start"
    /\ out' = Append(out, "START")
    /\ st' = "first"
    /\ UNCHANGED <<done, in, hungUp, mechVars>>

\* Mutant: every response goes out as COMPLETE.
ReplyComplete(d) ==
    /\ done' = d
    /\ out' = Append(out, "COMPLETE")
    /\ st' = "recv"

\* sendNegotiate(statusFor(d), resp), and on to the next frame.
Reply(d) ==
    /\ done' = d
    /\ out' = Append(out, IF d THEN "COMPLETE" ELSE "OK")
    /\ st' = "recv"

\* mech.Complete()
MechComplete == IF mech = "PLAIN" THEN sent ELSE stage = 3

\* The next frame is a challenge the loop hands to Step.
Challenged ==
    /\ st = "recv" /\ in # <<>> /\ ~done
    /\ Head(in).status = "ok"
    /\ in' = Tail(in)

\* The next frame ends the loop: a COMPLETE, a rejection, a challenge after
\* the last token, an unknown status or an oversized frame.
Recv ==
    /\ st = "recv" /\ in # <<>>
    /\ LET status == Head(in).status IN
       /\ status = "ok" => done
       /\ st' = IF status = "complete" /\ MechComplete THEN "open" ELSE "failed"
    /\ in' = Tail(in)
    /\ UNCHANGED <<done, out, hungUp, mechVars>>

\* EOF after the last frame.
RecvEOF ==
    /\ st = "recv" /\ in = <<>> /\ hungUp
    /\ st' = "failed"
    /\ UNCHANGED <<done, out, in, hungUp, mechVars>>

StepFails ==
    /\ st' = "failed"
    /\ UNCHANGED <<done, out, mechVars>>

-----------------------------------------------------------------------------
(* The mechanisms' Step                                                    *)

\* PLAIN: the one initial response; a challenge, even an empty one, fails.
PlainResponse ==
    /\ mech = "PLAIN" /\ st = "first"
    /\ sent' = TRUE
    /\ Reply(FALSE)
    /\ UNCHANGED <<mech, stage, ctxKey, proved, layer, in, hungUp>>

\* Mutant: PLAIN ignores challenges.
PlainPatient ==
    /\ mech = "PLAIN" /\ Challenged
    /\ UNCHANGED <<st, done, out, hungUp, mechVars>>

PlainChallenged == mech = "PLAIN" /\ Challenged /\ StepFails /\ UNCHANGED hungUp

\* GSSAPI round 1: the AP_REQ, unless no ticket can be had.
SendAPReq ==
    /\ mech = "GSSAPI" /\ st = "first"
    /\ \/ stage' = 1 /\ Reply(FALSE) /\ UNCHANGED <<mech, sent, ctxKey, proved, layer>>
       \/ StepFails
    /\ UNCHANGED <<in, hungUp>>

\* verifyAPRep accepts t.
APRepVerifies(t) == t.msg = "aprep" /\ t.decrypts /\ t.echoes

\* Round 2: an empty response once the AP_REP is verified.
VerifyAPRep ==
    /\ mech = "GSSAPI" /\ stage = 1 /\ Challenged
    /\ LET t == Head(in).token IN
       IF APRepVerifies(t)
       THEN /\ stage' = 2
            /\ ctxKey' = IF t.subkey THEN "subkey" ELSE "session"
            /\ proved' = (t.decrypts /\ t.echoes)
            /\ Reply(FALSE)
            /\ UNCHANGED <<mech, sent, layer>>
       ELSE StepFails
    /\ UNCHANGED hungUp

\* unwrap and selectSecurityLayer accept t.
OfferVerifies(t) ==
    /\ t.msg = "wrap" /\ t.acceptor /\ ~t.sealed /\ t.key = ctxKey
    /\ t.size4 /\ t.auth

\* Round 3: the signed choice of no security layer is the last token.
SelectSecurityLayer ==
    /\ mech = "GSSAPI" /\ stage = 2 /\ Challenged
    /\ LET t == Head(in).token IN
       IF OfferVerifies(t)
       THEN /\ stage' = 3
            /\ layer' = (t.key = ctxKey /\ t.auth)
            /\ Reply(TRUE)
            /\ UNCHANGED <<mech, sent, ctxKey, proved>>
       ELSE StepFails
    /\ UNCHANGED hungUp

-----------------------------------------------------------------------------
ClientStep ==
    \/ SendStart \/ Recv \/ RecvEOF
    \/ PlainResponse \/ PlainChallenged
    \/ SendAPReq \/ VerifyAPRep \/ SelectSecurityLayer

HandshakeNext == ServerSends \/ ServerHangsUp \/ IOFails \/ ClientStep

HandshakeSpec == HandshakeInit /\ [][HandshakeNext]_hvars

-----------------------------------------------------------------------------
(* Properties                                                              *)

\* Whatever the server sends, and in whatever order, a GSSAPI transport opens
\* only once the server has proved that it holds the service key and has
\* signed an offer of QOP auth with the context key.
OpenIsProved == st = "open" /\ mech = "GSSAPI" => proved /\ layer

\* The frames a mechanism sends when all goes well.
Script ==
    IF mech = "PLAIN" THEN <<"START", "OK">>
    ELSE <<"START", "OK", "OK", "COMPLETE">>

\* The client's frames are a prefix of the mechanism's script, and all of it
\* when the transport opens: COMPLETE goes out with the last token only.
FollowsScript ==
    /\ Len(out) <= Len(Script)
    /\ \A i \in 1 .. Len(out) : out[i] = Script[i]
    /\ st = "open" => Len(out) = Len(Script)
=============================================================================
