--------------------------- MODULE KerberosSession ---------------------------
(***************************************************************************)
(* transport.KerberosSession (internal/transport/gssapi.go): one set of    *)
(* credentials shared by all of a client's dials.  A ticket acquisition    *)
(* whose dial gave up keeps running inside gokrb5, and gokrb5's Destroy    *)
(* writes the credentials without a lock, so Close leaves Destroy to the   *)
(* last acquisition still running.                                         *)
(*                                                                         *)
(* Close is called as client.go calls it: by New after its last dial, or   *)
(* by Client.Close after it has waited for the dials in flight and for the *)
(* probe (SessionUnused of module Pool).                                   *)
(***************************************************************************)
EXTENDS Integers, FiniteSets

CONSTANTS
    Dials,       \* goroutines that run GSSAPI handshakes
    Acqs,        \* identities a ticket acquisition's goroutine can have
    Closers,     \* goroutines that call KerberosSession.Close
    Nil

ASSUME SessionAssumption ==
    /\ IsFiniteSet(Acqs)
    /\ Nil \notin Acqs

VARIABLES
    closed,      \* KerberosSession.closed
    pending,     \* KerberosSession.pending
    once,        \* KerberosSession.once: "fresh", "running" or "done"
    destroyed,   \* destroyOnce has run gokrb5's Destroy
    acq,         \* acq[a]: where acquisition a's goroutine is
    dial,        \* dial[d]: where dial d is in initialToken
    waits,       \* waits[d]: the acquisition d's select waits for, or Nil
    cl           \* cl[k]: where closer k is

svars == <<closed, pending, once, destroyed, acq, dial, waits, cl>>

AcqState   == {"none", "running", "sent", "destroy"}
DialState  == {"out", "select", "creds"}
CloseState == {"out", "once", "destroy", "done"}

\* The session's counters and every goroutine's state have their types.
CredsTypeOK ==
    /\ closed \in BOOLEAN
    /\ pending \in Nat
    /\ once \in {"fresh", "running", "done"}
    /\ destroyed \in BOOLEAN
    /\ acq \in [Acqs -> AcqState]
    /\ dial \in [Dials -> DialState]
    /\ waits \in [Dials -> Acqs \cup {Nil}]
    /\ cl \in [Closers -> CloseState]

CredsInit ==
    /\ closed = FALSE /\ pending = 0 /\ once = "fresh" /\ destroyed = FALSE
    /\ acq = [a \in Acqs |-> "none"]
    /\ dial = [d \in Dials |-> "out"]
    /\ waits = [d \in Dials |-> Nil]
    /\ cl = [k \in Closers |-> "out"]

-----------------------------------------------------------------------------
(* serviceTicket and initialToken                                          *)

\* begin registers the acquisition and its goroutine starts ...
Begin(d) ==
    /\ dial[d] = "out" /\ ~closed
    /\ \E a \in Acqs :
          /\ acq[a] = "none" /\ \A e \in Dials : waits[e] # a
          /\ acq' = [acq EXCEPT ![a] = "running"]
          /\ waits' = [waits EXCEPT ![d] = a]
    /\ pending' = pending + 1
    /\ dial' = [dial EXCEPT ![d] = "select"]
    /\ UNCHANGED <<closed, once, destroyed, cl>>

\* ... unless the session is closed: the dial fails.
BeginRefused(d) == dial[d] = "out" /\ closed /\ UNCHANGED svars

\* ServiceTicket returns (a ticket, an error or a recovered panic) and the
\* result goes into the buffered channel ...
Exchanged(a) ==
    /\ acq[a] = "running"
    /\ acq' = [acq EXCEPT ![a] = "sent"]
    /\ UNCHANGED <<closed, pending, once, destroyed, dial, waits, cl>>

\* Mutant: end leaves the credentials to Close.
EndLeaves(a) ==
    /\ acq[a] = "sent"
    /\ pending' = pending - 1
    /\ acq' = [acq EXCEPT ![a] = "none"]
    /\ UNCHANGED <<closed, once, destroyed, dial, waits, cl>>

\* Mutant: end destroys once the session is closed, last or not.
EndEager(a) ==
    /\ acq[a] = "sent"
    /\ pending' = pending - 1
    /\ acq' = [acq EXCEPT ![a] = IF closed THEN "destroy" ELSE "none"]
    /\ UNCHANGED <<closed, once, destroyed, dial, waits, cl>>

\* ... then end unregisters the acquisition.
End(a) ==
    /\ acq[a] = "sent"
    /\ pending' = pending - 1
    /\ acq' = [acq EXCEPT ![a] =
                  IF closed /\ pending' = 0 THEN "destroy" ELSE "none"]
    /\ UNCHANGED <<closed, once, destroyed, dial, waits, cl>>

EndDestroy(a) ==
    /\ acq[a] = "destroy"
    /\ acq' = [acq EXCEPT ![a] = "none"]
    /\ destroyed' = TRUE
    /\ UNCHANGED <<closed, pending, once, dial, waits, cl>>

\* Mutant: the dial unregisters the acquisition as well.
GotTicketEnds(d) ==
    /\ dial[d] = "select" /\ acq[waits[d]] # "running"
    /\ dial' \in {[dial EXCEPT ![d] = l] : l \in {"creds", "out"}}
    /\ waits' = [waits EXCEPT ![d] = Nil]
    /\ pending' = pending - 1
    /\ UNCHANGED <<closed, once, destroyed, acq, cl>>

\* The select's two arms: the result, a ticket or an error, ...
GotTicket(d) ==
    /\ dial[d] = "select" /\ acq[waits[d]] # "running"
    /\ dial' \in {[dial EXCEPT ![d] = l] : l \in {"creds", "out"}}
    /\ waits' = [waits EXCEPT ![d] = Nil]
    /\ UNCHANGED <<closed, pending, once, destroyed, acq, cl>>

\* ... or ctx.Done, which leaves the acquisition running.
Abandon(d) ==
    /\ dial[d] = "select"
    /\ dial' = [dial EXCEPT ![d] = "out"]
    /\ waits' = [waits EXCEPT ![d] = Nil]
    /\ UNCHANGED <<closed, pending, once, destroyed, acq, cl>>

\* initialToken has read the credentials and built the AP_REQ; the rest of
\* the handshake does not use the session.
TokenBuilt(d) ==
    /\ dial[d] = "creds"
    /\ dial' = [dial EXCEPT ![d] = "out"]
    /\ UNCHANGED <<closed, pending, once, destroyed, acq, waits, cl>>

-----------------------------------------------------------------------------
(* Close                                                                   *)

\* Mutant: Close does not look at pending.
CloseEager(k) ==
    /\ cl[k] = "out"
    /\ \A d \in Dials : dial[d] = "out"
    /\ IF once = "fresh"
       THEN /\ once' = "running"
            /\ closed' = TRUE
            /\ cl' = [cl EXCEPT ![k] = "destroy"]
       ELSE /\ cl' = [cl EXCEPT ![k] = "once"]
            /\ UNCHANGED <<once, closed>>
    /\ UNCHANGED <<pending, destroyed, acq, dial, waits>>

\* once.Do: the first caller marks the session closed, and destroys it if no
\* acquisition is pending; the others wait for the first one's return.
Close(k) ==
    /\ cl[k] = "out"
    /\ \A d \in Dials : dial[d] = "out"
    /\ IF once = "fresh"
       THEN /\ once' = IF pending = 0 THEN "running" ELSE "done"
            /\ closed' = TRUE
            /\ cl' = [cl EXCEPT ![k] = IF pending = 0 THEN "destroy" ELSE "done"]
       ELSE /\ cl' = [cl EXCEPT ![k] = "once"]
            /\ UNCHANGED <<once, closed>>
    /\ UNCHANGED <<pending, destroyed, acq, dial, waits>>

CloseDestroy(k) ==
    /\ cl[k] = "destroy"
    /\ destroyed' = TRUE
    /\ once' = "done"
    /\ cl' = [cl EXCEPT ![k] = "done"]
    /\ UNCHANGED <<closed, pending, acq, dial, waits>>

CloseWaited(k) ==
    /\ cl[k] = "once" /\ once = "done"
    /\ cl' = [cl EXCEPT ![k] = "done"]
    /\ UNCHANGED <<closed, pending, once, destroyed, acq, dial, waits>>

-----------------------------------------------------------------------------
AcqStep(a)  == Exchanged(a) \/ End(a) \/ EndDestroy(a)
DialStep(d) == GotTicket(d) \/ TokenBuilt(d)
CloseStep(k) == CloseDestroy(k) \/ CloseWaited(k)

CredsNext ==
    \/ \E d \in Dials : Begin(d) \/ BeginRefused(d) \/ Abandon(d) \/ DialStep(d)
    \/ \E a \in Acqs : AcqStep(a)
    \/ \E k \in Closers : Close(k) \/ CloseStep(k)

CredsSpec == CredsInit /\ [][CredsNext]_svars

\* Acquisitions end (krb5.conf's kdc_timeout bounds them) and goroutines that
\* can run do run.
CredsFairness ==
    /\ \A a \in Acqs : WF_svars(AcqStep(a))
    /\ \A d \in Dials : WF_svars(DialStep(d))
    /\ \A k \in Closers : WF_svars(CloseStep(k))

FairCredsSpec == CredsSpec /\ CredsFairness

-----------------------------------------------------------------------------
(* Properties                                                              *)

\* Destroy has run, or somebody has decided to run it.
Destroying ==
    \/ destroyed
    \/ \E a \in Acqs : acq[a] = "destroy"
    \/ \E k \in Closers : cl[k] = "destroy"

\* Whoever runs Destroy, or is about to, is alone with the credentials: no
\* acquisition is still inside gokrb5, abandoned ones included, and no dial
\* is reading them, then or later.
DestroyedUnused ==
    Destroying => /\ \A a \in Acqs : acq[a] \notin {"running", "sent"}
                  /\ \A d \in Dials : dial[d] # "creds"

\* Close and the acquisitions that outlive it never both decide to destroy:
\* exactly one of them is last, even without destroyOnce.
OneDestroyer ==
    /\ \A a, b \in Acqs : acq[a] = "destroy" /\ acq[b] = "destroy" => a = b
    /\ \A j, k \in Closers : cl[j] = "destroy" /\ cl[k] = "destroy" => j = k
    /\ \A a \in Acqs, k \in Closers : ~(acq[a] = "destroy" /\ cl[k] = "destroy")
    /\ destroyed => /\ \A a \in Acqs : acq[a] # "destroy"
                    /\ \A k \in Closers : cl[k] # "destroy"

\* A closed session's credentials are eventually destroyed, so gokrb5's
\* renewal goroutine is stopped, and every Close returns.
Released ==
    /\ closed ~> destroyed
    /\ \A k \in Closers : cl[k] # "out" ~> cl[k] = "done"
=============================================================================
