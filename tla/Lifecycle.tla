------------------------------ MODULE Lifecycle ------------------------------
(***************************************************************************)
(* What a Client promises about the things it owns, whatever its pools,    *)
(* probe and locks do: the life of its connections and of its Kerberos     *)
(* session, from New to the end of Close (client.go, the comments of       *)
(* Client.Close and of inFlightDials).  Pool implements it.                *)
(***************************************************************************)
CONSTANTS Conns

VARIABLES
    phase,      \* "serving", "closing" (Close was called), "released" (the
                \* Kerberos session is closed)
    conns       \* the open connections

lvars == <<phase, conns>>

LInit == phase = "serving" /\ \E c \in Conns : conns = {c}

\* A connection may be dialed until the session is released: also while
\* Close waits for the dials that started before it.
Dial ==
    /\ phase # "released"
    /\ \E c \in Conns \ conns : conns' = conns \cup {c}
    /\ UNCHANGED phase

Hangup ==
    /\ \E c \in conns : conns' = conns \ {c}
    /\ UNCHANGED phase

BeginClose ==
    /\ phase = "serving"
    /\ phase' = "closing"
    /\ UNCHANGED conns

Release ==
    /\ phase = "closing"
    /\ phase' = "released"
    /\ UNCHANGED conns

LNext == Dial \/ Hangup \/ BeginClose \/ Release

\* A Close that began is finished, and what is still on loan then comes back.
LFairness ==
    /\ WF_lvars(Release)
    /\ WF_lvars(phase = "released" /\ Hangup)

LSafe == LInit /\ [][LNext]_lvars
LSpec == LSafe /\ LFairness
=============================================================================
