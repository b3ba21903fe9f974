--------------------------- MODULE Transport_proofs ---------------------------
(***************************************************************************)
(* What the transport promises.  Of a connection (Conn), for every number  *)
(* of calls, every limit and every length of reply: the parts are proved   *)
(* correct one by one; every step of Conn is a step of each part or leaves *)
(* it alone, so that what is proved of the parts holds of the connection.  *)
(* Of the credentials that handshakes share (KerberosSession), for any     *)
(* number of dials, acquisitions and callers of Close.                     *)
(***************************************************************************)
EXTENDS Conn, KerberosSession, FiniteSetTheorems, SequenceTheorems, TLAPS

\* The provers tried on a step that names none, and their time.
USE SMTT(30), Z3T(30), ZenonT(30)

-----------------------------------------------------------------------------
(* The deadline                                                            *)

\* Only the current user, and a SASL dial that has returned, can have a
\* callback that is registered or started; a call has one only while it has
\* I/O to cut short; a callback that has run does not run again.
DInv ==
    /\ cur \in Nat
    /\ ~sasl => 0 \notin armed \cup firing /\ (cur = 0 => pc \in {"begin", "idle"})
    /\ armed \subseteq {cur}
    /\ firing \subseteq {0, cur}
    /\ cur \in armed => pc \in {"io", "stop"}
    /\ cur # 0 /\ cur \in firing => pc \in {"io", "stop"}
    /\ armed \cap firing = {}
    /\ fired \cap (armed \cup firing) = {}
    /\ \A u \in fired \cup firing : u \in Nat /\ u <= cur
    /\ cur \in fired \cup firing => pc \notin {"begin", "bound"}
    /\ cur = 0 /\ pc = "begin" => deadline # "now"
    /\ pc \in {"bound", "io"} /\ deadline = "now"
          => setBy = cur \/ (sasl /\ setBy = 0)

\* Every step keeps the invariant.
LEMMA DInvNext == DInv /\ [DeadlineNext]_dvars => DInv'
<1> SUFFICES ASSUME DInv, [DeadlineNext]_dvars PROVE DInv'
  OBVIOUS
<1> SUFFICES ASSUME UNCHANGED sasl PROVE DInv'
  BY DEF DeadlineNext, dvars
<1> USE DEF DInv
<1>1. ASSUME NEW u \in Users, CtxDone(u) PROVE DInv'
  BY <1>1 DEF CtxDone
<1>2. ASSUME NEW u \in Users, CallbackStarts(u) PROVE DInv'
  BY <1>2 DEF CallbackStarts
<1>3. ASSUME NEW u \in Users, CallbackRuns(u) PROVE DInv'
  BY <1>3 DEF CallbackRuns, Set
<1>4. CASE DialPlain
  BY <1>4 DEF DialPlain
<1>5. CASE Bind
  BY <1>5 DEF Bind, Set
<1>6. CASE Register
  BY <1>6 DEF Register
<1>7. CASE IOSucceeds \/ IOExpired \/ IOTimesOut \/ IOBreaks \/ IOTooLarge
  <2>1. /\ pc = "io" /\ pc' = "stop"
        /\ UNCHANGED <<cur, armed, firing, fired, deadline, setBy>>
    BY <1>7 DEF IOSucceeds, IOExpired, IOTimesOut, IOBreaks, IOTooLarge, Fail
  <2> QED
    BY <2>1
<1>8. CASE Stopped
  BY <1>8, Zenon DEF Stopped, DialStops, CallStops
<1>9. CASE NextCall
  <2>1. cur' = cur + 1 /\ cur' # 0 /\ ~(cur' <= cur) /\ armed = {}
    BY <1>9 DEF NextCall
  <2>2. cur' \notin fired \cup firing /\ firing \subseteq {0}
    BY <1>9, <2>1 DEF NextCall
  <2>3. \A u \in fired \cup firing : u \in Nat /\ u <= cur + 1
    OBVIOUS
  <2> QED
    BY <1>9, <2>1, <2>2, <2>3 DEF NextCall
<1>10. CASE UNCHANGED dvars
  BY <1>10 DEF dvars
<1> QED
  BY <1>1, <1>2, <1>3, <1>4, <1>5, <1>6, <1>7, <1>8, <1>9, <1>10 DEF DeadlineNext, Step

\* However many calls follow one another and whenever their contexts end, no
\* call meets another call's deadline: Call's wait for its callback is enough.
\* Only the callback of a SASL dial, which does not wait, can do that.
THEOREM DeadlineIsOwned == DeadlineSpec => []CallsIndependent
<1>1. DeadlineInit => DInv
  BY DEF DeadlineInit, DInv
<1>2. DInv => CallsIndependent
  BY DEF DInv, CallsIndependent
<1> QED
  BY <1>1, <1>2, DInvNext, PTL DEF DeadlineSpec

-----------------------------------------------------------------------------
(* The handshake                                                           *)

Status == {"START", "OK", "COMPLETE"}

\* How far along its script the driver is follows from where it is, and what
\* the server has proved from the stage.
HInv ==
    /\ mech \in {"PLAIN", "GSSAPI"}
    /\ stage \in 0 .. 3
    /\ st \in {"start", "first", "recv", "open", "failed"}
    /\ out \in Seq(Status)
    /\ \A i \in 1 .. Len(out) : out[i] = Script[i]
    /\ st = "start" => Len(out) = 0
    /\ st = "first" => Len(out) = 1
    /\ st \in {"recv", "open"} =>
          /\ mech = "PLAIN" => Len(out) = 2
          /\ mech = "GSSAPI" => stage # 0 /\ Len(out) = stage + 1
    /\ mech = "GSSAPI" /\ st = "open" => stage = 3
    /\ Len(out) <= Len(Script)
    /\ stage \in {2, 3} => proved
    /\ stage = 3 => layer

\* Sending the status that is next in the script keeps to the script.
LEMMA OnScript ==
    ASSUME HInv, NEW s \in Status, Len(out) < Len(Script), s = Script[Len(out) + 1],
           out' = Append(out, s), mech' = mech
    PROVE  /\ out' \in Seq(Status) /\ Len(out') = Len(out) + 1
           /\ Len(out') <= Len(Script')
           /\ \A i \in 1 .. Len(out') : out'[i] = Script'[i]
<1>1. Script' = Script /\ Len(Script) \in Nat
    BY DEF Script
<1>2. /\ out' \in Seq(Status) /\ Len(out') = Len(out) + 1
      /\ \A i \in 1 .. Len(out) : out'[i] = out[i]
      /\ out'[Len(out) + 1] = s
    BY AppendProperties DEF HInv
<1> QED
    BY <1>1, <1>2 DEF HInv

\* The script, entry by entry.
LEMMA ScriptEntries ==
    /\ mech = "PLAIN" => Len(Script) = 2
    /\ mech # "PLAIN" => Len(Script) = 4 /\ Script[3] = "OK" /\ Script[4] = "COMPLETE"
    /\ Script[1] = "START" /\ Script[2] = "OK"
BY DEF Script

\* Every step of the handshake keeps HInv.
LEMMA HandshakeStep == HInv /\ [HandshakeNext]_hvars => HInv'
<1> SUFFICES ASSUME HInv, [HandshakeNext]_hvars PROVE HInv'
    OBVIOUS
<1>1. CASE UNCHANGED hvars
    BY <1>1 DEF HInv, Script, hvars
<1>2. CASE ServerSends \/ ServerHangsUp \/ IOFails
    BY <1>2 DEF HInv, Script, ServerSends, ServerHangsUp, IOFails, mechVars
<1>3. CASE SendStart
  <2>1. Len(out) = 0 /\ out' = Append(out, "START") /\ UNCHANGED mechVars
      BY <1>3 DEF SendStart, HInv
  <2> QED
      BY <1>3, <2>1, OnScript, ScriptEntries DEF SendStart, HInv, Status, mechVars
<1>4. CASE Recv
    BY <1>4, ScriptEntries DEF HInv, Script, Recv, MechComplete, mechVars
<1>5. CASE RecvEOF
    BY <1>5 DEF HInv, Script, RecvEOF, mechVars
<1>6. CASE PlainResponse
  <2>1. Len(out) = 1 /\ out' = Append(out, "OK") /\ mech' = mech /\ mech = "PLAIN"
      BY <1>6 DEF PlainResponse, Reply, HInv
  <2>2. "OK" \in Status /\ Len(out) < Len(Script) /\ "OK" = Script[Len(out) + 1]
      BY <2>1, ScriptEntries DEF Status
  <2>3. /\ out' \in Seq(Status) /\ Len(out') = Len(out) + 1
        /\ Len(out') <= Len(Script')
        /\ \A i \in 1 .. Len(out') : out'[i] = Script'[i]
      BY <2>1, <2>2, OnScript
  <2> QED
      BY <1>6, <2>1, <2>3 DEF PlainResponse, Reply, HInv
<1>7. CASE PlainChallenged
    BY <1>7 DEF HInv, Script, PlainChallenged, Challenged, StepFails, mechVars
<1>8. CASE StepFails
    BY <1>8 DEF HInv, Script, StepFails, mechVars
<1>9. CASE SendAPReq /\ ~StepFails
  <2>1. Len(out) = 1 /\ out' = Append(out, "OK") /\ mech' = mech /\ mech = "GSSAPI"
      BY <1>9 DEF SendAPReq, Reply, HInv
  <2>2. "OK" \in Status /\ Len(out) < Len(Script) /\ "OK" = Script[Len(out) + 1]
      BY <2>1, ScriptEntries DEF Status
  <2>3. /\ out' \in Seq(Status) /\ Len(out') = Len(out) + 1
        /\ Len(out') <= Len(Script')
        /\ \A i \in 1 .. Len(out') : out'[i] = Script'[i]
      BY <2>1, <2>2, OnScript
  <2> QED
      BY <1>9, <2>1, <2>3 DEF SendAPReq, Reply, StepFails, HInv
<1>10. CASE VerifyAPRep /\ ~StepFails
  <2>1. proved'
      BY <1>10, Zenon DEF VerifyAPRep, APRepVerifies
  <2>2. /\ Len(out) = 2 /\ out' = Append(out, "OK") /\ mech' = mech /\ mech = "GSSAPI"
        /\ stage' = 2 /\ st' = "recv"
      BY <1>10 DEF VerifyAPRep, Challenged, Reply, HInv
  <2>3. "OK" \in Status /\ Len(out) < Len(Script) /\ "OK" = Script[Len(out) + 1]
      BY <2>2, ScriptEntries DEF Status
  <2>4. /\ out' \in Seq(Status) /\ Len(out') = Len(out) + 1
        /\ Len(out') <= Len(Script')
        /\ \A i \in 1 .. Len(out') : out'[i] = Script'[i]
      BY <2>2, <2>3, OnScript
  <2> QED
      BY <2>1, <2>2, <2>4 DEF HInv
<1>11. CASE SelectSecurityLayer /\ ~StepFails
  <2>1. layer'
      BY <1>11, Zenon DEF SelectSecurityLayer, OfferVerifies
  <2>2. /\ out' = Append(out, "COMPLETE") /\ mech' = mech /\ mech = "GSSAPI"
        /\ stage' = 3 /\ st' = "recv" /\ proved' = proved /\ stage = 2 /\ st = "recv"
      BY <1>11, Zenon DEF SelectSecurityLayer, Challenged, Reply
  <2>3. Len(out) = 3 /\ Len(out) + 1 = 4
    <3>1. Len(out) = stage + 1 /\ stage = 2
        BY <2>2, Zenon DEF HInv
    <3> QED
        BY <3>1
  <2>4. "COMPLETE" \in Status /\ Len(out) < Len(Script) /\ "COMPLETE" = Script[Len(out) + 1]
    <3>1. Len(Script) = 4 /\ Script[4] = "COMPLETE"
        BY <2>2, ScriptEntries
    <3> QED
        BY <2>3, <3>1 DEF Status
  <2>5. /\ out' \in Seq(Status) /\ Len(out') = Len(out) + 1
        /\ Len(out') <= Len(Script')
        /\ \A i \in 1 .. Len(out') : out'[i] = Script'[i]
      BY <2>2, <2>4, OnScript
  <2> QED
      BY <2>1, <2>2, <2>3, <2>5 DEF HInv
<1> QED
    BY <1>1, <1>2, <1>3, <1>4, <1>5, <1>6, <1>7, <1>8, <1>9, <1>10, <1>11
       DEF HandshakeNext, ClientStep

\* HInv says what OpenIsProved and FollowsScript say.
LEMMA HandshakeMeans == HInv => OpenIsProved /\ FollowsScript
<1>1. HInv => OpenIsProved
    BY DEF HInv, OpenIsProved
<1>2. HInv => FollowsScript
    BY ScriptEntries DEF HInv, FollowsScript
<1> QED
    BY <1>1, <1>2

\* HInv is inductive.
LEMMA HandshakeInvariant == HandshakeSpec => []HInv
<1>1. HandshakeInit => HInv
    BY ScriptEntries DEF HandshakeInit, HInv
<1> QED
    BY <1>1, HandshakeStep, PTL DEF HandshakeSpec

\* Whatever the server sends, OpenContext opens a GSSAPI transport only for a
\* server that has proved itself, and sends no frame out of turn.
THEOREM HandshakeSafe == HandshakeSpec => [](OpenIsProved /\ FollowsScript)
BY HandshakeInvariant, HandshakeMeans, PTL

-----------------------------------------------------------------------------
(* The budget                                                              *)

\* budgetTransport's count is the number of bytes handed up; a reply that is
\* being read has bytes left; the longest string fits the limit, unless the
\* limit is longer than any string.
BInv ==
    /\ limit \in Nat \ {0}
    /\ maxString = Least(limit, MaxInt32)
    /\ size \in Nat /\ got \in Nat /\ due \in Nat
    /\ wire \in Seq(Nat)
    /\ read = got
    /\ got <= limit
    /\ outcome \in {"idle", "reading", "ok", "size"}
    /\ outcome = "reading" => got < size
    /\ outcome = "ok" => got = size
    /\ outcome = "size" => size > limit

\* Taking no more than what is wanted and what is left keeps BInv.
LEMMA TakeKeeps ==
    ASSUME BInv, outcome = "reading", wire # <<>>, NEW n \in 1 .. Head(wire), Take(n),
           n <= size - got, n <= limit - read
    PROVE  BInv'
<1>1. Head(wire) \in Nat /\ Tail(wire) \in Seq(Nat) /\ Len(wire) \in Nat \ {0}
      /\ wire[1] = Head(wire)
    BY DEF BInv
<1>2. wire' \in Seq(Nat)
  <2>1. wire[1] - n \in Nat /\ 1 \in 1 .. Len(wire)
      BY <1>1
  <2>2. [wire EXCEPT ![1] = @ - n] \in Seq(Nat)
      BY <2>1, ExceptSeq DEF BInv
  <2> QED
      BY <1>1, <2>2 DEF Take
<1>3. /\ read' = read + n /\ got' = got + n
      /\ outcome' = IF got + n = size THEN "ok" ELSE "reading"
      /\ UNCHANGED <<limit, maxString, size, due>>
    BY DEF Take
<1>4. n \in Nat
    BY <1>1
<1> QED
    BY <1>2, <1>3, <1>4 DEF BInv, Least

\* Every step keeps BInv.
LEMMA BudgetStep == BInv /\ [BudgetNext]_bvars => BInv'
<1> SUFFICES ASSUME BInv, [BudgetNext]_bvars PROVE BInv'
    OBVIOUS
<1> USE BudgetAssumption
<1>1. CASE UNCHANGED bvars
    BY <1>1 DEF BInv, bvars
<1>2. ASSUME NEW n \in 1 .. MaxReply, Flush(n) PROVE BInv'
    BY <1>2 DEF BInv, Flush
<1>3. ASSUME NEW c \in 0 .. MaxReply, Arrives(c) PROVE BInv'
    BY <1>3, AppendProperties DEF BInv, Arrives
<1>4. CASE SkipEmpty
    BY <1>4 DEF BInv, SkipEmpty
<1>5. CASE ReadByte
  <2>1. CASE read >= limit /\ TooLarge
      BY <1>5, <2>1 DEF BInv, ReadByte, TooLarge
  <2>2. CASE read < limit /\ wire # <<>> /\ Head(wire) > 0 /\ Take(1)
    <3>1. Head(wire) \in Nat /\ 1 \in 1 .. Head(wire)
        BY <2>2 DEF BInv
    <3>2. outcome = "reading" /\ 1 <= size - got /\ 1 <= limit - read
        BY <1>5, <2>2 DEF BInv, ReadByte
    <3> QED
        BY <2>2, <3>1, <3>2, TakeKeeps
  <2> QED
      BY <1>5, <2>1, <2>2 DEF ReadByte
<1>6. ASSUME NEW k \in 1 .. MaxInt32, Read(k) PROVE BInv'
  <2>1. CASE (k > maxString \/ limit - read <= 0) /\ TooLarge
      BY <1>6, <2>1 DEF BInv, Read, TooLarge, Least
  <2>2. CASE /\ k <= maxString /\ limit - read > 0
             /\ wire # <<>> /\ Head(wire) > 0
             /\ Take(Least(Least(k, limit - read), Head(wire)))
    <3> DEFINE n == Least(Least(k, limit - read), Head(wire))
    <3>1. Head(wire) \in Nat /\ limit - read \in Int /\ k \in Int
        BY <2>2 DEF BInv
    <3>2. n \in 1 .. Head(wire) /\ n <= k /\ n <= limit - read
        BY <2>2, <3>1 DEF Least
    <3>3. outcome = "reading" /\ n <= size - got
        BY <1>6, <3>1, <3>2 DEF BInv, Read
    <3> HIDE DEF n
    <3>4. Take(n)
        BY <2>2 DEF n
    <3> QED
        BY <2>2, <3>2, <3>3, <3>4, TakeKeeps
  <2> QED
      BY <1>6, <2>1, <2>2 DEF Read
<1> QED
    BY <1>1, <1>2, <1>3, <1>4, <1>5, <1>6 DEF BudgetNext, Reads

\* BInv is inductive.
LEMMA BudgetInvariant == BudgetSpec => []BInv
<1>1. BudgetInit => BInv
    BY BudgetAssumption DEF BudgetInit, BInv, LimitOf, MaxMessageSize, Least
<1> QED
    BY <1>1, BudgetStep, PTL DEF BudgetSpec

\* For every limit, every length of reply and every way its bytes arrive and
\* are read, the reply is handed up whole or refused as the limit says.
THEOREM BudgetSafe == BudgetSpec => []BudgetExact
<1>1. BInv => BudgetExact
    BY DEF BInv, BudgetExact
<1> QED
    BY <1>1, BudgetInvariant, PTL

-----------------------------------------------------------------------------
(* The connection                                                          *)

\* A step of the connection is a step of the deadline's part, or leaves it.
LEMMA NextDeadline == [Next]_cvars => [DeadlineNext]_dvars
<1> SUFFICES ASSUME Next PROVE [DeadlineNext]_dvars
    BY DEF cvars, dvars
<1>1. CASE Turn
    BY <1>1 DEF Turn, Callback, Caller, DeadlineNext, Step
<1>2. CASE Server \/ Request \/ ReplyArrives
    BY <1>2 DEF Server, Request, ReplyArrives
<1>3. CASE Handshake
    BY <1>3 DEF Handshake, OpenReturns, DeadlineNext, Step
<1>4. CASE HandshakeCut \/ CallCut
    BY <1>4 DEF HandshakeCut, CallCut, Cut, DeadlineNext, Step
<1>5. CASE ReadReply
    BY <1>5 DEF ReadReply, CallReturns, DeadlineNext, Step
<1> QED
    BY <1>1, <1>2, <1>3, <1>4, <1>5 DEF Next

\* The same of the handshake's part.
LEMMA NextHandshake == [Next]_cvars => [HandshakeNext]_hvars
BY DEF Next, cvars, hvars, Turn, Server, Request, ReplyArrives, Handshake,
       HandshakeCut, CallCut, ReadReply, HandshakeNext

\* The same of the budget's part.
LEMMA NextBudget == [Next]_cvars => [BudgetNext]_bvars
BY DEF Next, cvars, bvars, Turn, Server, Request, ReplyArrives, Handshake,
       HandshakeCut, CallCut, ReadReply, BudgetNext

\* A connection runs its three parts, each by its own specification.
THEOREM ConnRunsItsParts == Spec => DeadlineSpec /\ HandshakeSpec /\ BudgetSpec
<1>1. Init => DeadlineInit /\ HandshakeInit /\ BudgetInit
    BY DEF Init
<1> QED
    BY <1>1, NextDeadline, NextHandshake, NextBudget, PTL
       DEF Spec, DeadlineSpec, HandshakeSpec, BudgetSpec

\* What each part promises holds of the connection.
THEOREM ConnSafe == Spec => [](CallsIndependent /\ OpenIsProved /\ FollowsScript /\ BudgetExact)
BY ConnRunsItsParts, DeadlineIsOwned, HandshakeSafe, BudgetSafe, PTL

\* A SASL dial that has succeeded, and so any later call, has an opened
\* transport; nothing is asked of the server before.
CInv ==
    /\ cur \in Users
    /\ result \in [Users -> Results]
    /\ sasl /\ cur # 0 => st = "open"
    /\ sasl /\ cur = 0 /\ result[0] = "ok" => st = "open" /\ pc \in {"stop", "idle"}
    /\ cur = 0 => outcome = "idle"

\* Every step keeps CInv.
LEMMA ConnStep == CInv /\ [Next]_cvars => CInv'
<1> SUFFICES ASSUME CInv, [Next]_cvars PROVE CInv'
    OBVIOUS
<1> USE DeadlineAssumption
<1>1. CASE UNCHANGED cvars
    BY <1>1 DEF CInv, cvars, dvars, hvars, bvars
<1>2. CASE Turn
  <2>1. UNCHANGED <<sasl, st, outcome>>
      BY <1>2 DEF Turn, hvars, bvars
  <2>2. ASSUME NEW u \in Users, CallbackStarts(u) \/ CallbackRuns(u) \/ CtxDone(u)
        PROVE  CInv'
      BY <2>1, <2>2 DEF CInv, CallbackStarts, CallbackRuns, CtxDone
  <2>3. CASE DialPlain
      BY <2>1, <2>3 DEF CInv, DialPlain, Results
  <2>4. CASE Bind \/ Register
      BY <2>1, <2>4 DEF CInv, Bind, Register
  <2>5. CASE Stopped
      BY <2>1, <2>5 DEF CInv, Stopped, DialStops, CallStops
  <2>6. CASE NextCall
      BY <2>1, <2>6 DEF CInv, NextCall, Users
  <2> QED
      BY <1>2, <2>2, <2>3, <2>4, <2>5, <2>6 DEF Turn, Callback, Caller
<1>3. CASE Server
  <2>1. st' = st /\ UNCHANGED <<sasl, cur, pc, result, outcome>>
      BY <1>3 DEF Server, ServerSends, ServerHangsUp, dvars, bvars
  <2> QED
      BY <2>1 DEF CInv
<1>4. CASE Handshake
  <2>1. cur = 0 /\ pc = "io" /\ UNCHANGED <<sasl, outcome>>
      BY <1>4 DEF Handshake, Dialing, bvars
  <2>2. CASE st' = "open" /\ IOSucceeds
      BY <2>1, <2>2 DEF CInv, IOSucceeds, Results
  <2>3. CASE st' = "failed" /\ IOBreaks
      BY <2>1, <2>3 DEF CInv, IOBreaks, Fail, Results, Users
  <2>4. CASE UNCHANGED dvars
      BY <2>1, <2>4 DEF CInv, dvars
  <2> QED
      BY <1>4, <2>2, <2>3, <2>4 DEF Handshake, OpenReturns
<1>5. CASE HandshakeCut
  <2>1. cur = 0 /\ pc = "io" /\ UNCHANGED <<sasl, outcome>>
      BY <1>5 DEF HandshakeCut, Dialing, bvars
  <2> QED
      BY <1>5, <2>1 DEF CInv, HandshakeCut, Cut, IOExpired, IOTimesOut, IOBreaks, Fail, Results, Users
<1>6. CASE Request \/ ReplyArrives
    BY <1>6 DEF CInv, Request, ReplyArrives, Calling, dvars, hvars
<1>7. CASE ReadReply
  <2>1. cur # 0 /\ UNCHANGED <<sasl, st>> /\ CallReturns
      BY <1>7 DEF ReadReply, Calling, hvars
  <2> QED
      BY <2>1 DEF CInv, CallReturns, IOSucceeds, IOTooLarge, Fail, dvars, Results, Users
<1>8. CASE CallCut
    BY <1>8 DEF CInv, CallCut, Calling, Cut, IOExpired, IOTimesOut, IOBreaks, Fail, hvars, Results, Users
<1> QED
    BY <1>1, <1>2, <1>3, <1>4, <1>5, <1>6, <1>7, <1>8 DEF Next

\* Nothing is asked of a server before the handshake with it has opened the
\* transport, and a GSSAPI server has by then proved itself.
THEOREM NoCallUnlessOpen == Spec => []CallsOnOpen
<1>1. Init => CInv
    BY DeadlineAssumption DEF Init, DeadlineInit, BudgetInit, CInv, Users, Results
<1>2. CInv /\ OpenIsProved => CallsOnOpen
    BY DEF CInv, OpenIsProved, CallsOnOpen
<1> QED
    BY <1>1, <1>2, ConnStep, ConnSafe, PTL DEF Spec

-----------------------------------------------------------------------------
(* Types                                                                   *)

\* A turn is the dial's or a call's, and every user's result is a result.
LEMMA DeadlineTyped == DeadlineTypeOK /\ [DeadlineNext]_dvars => DeadlineTypeOK'
<1> SUFFICES ASSUME DeadlineTypeOK, [DeadlineNext]_dvars PROVE DeadlineTypeOK'
    OBVIOUS
<1> USE DeadlineAssumption DEF DeadlineTypeOK
<1>1. ASSUME NEW u \in Users, CtxDone(u) \/ CallbackStarts(u) \/ CallbackRuns(u), sasl' = sasl
      PROVE  DeadlineTypeOK'
    BY <1>1 DEF CtxDone, CallbackStarts, CallbackRuns, Set
<1>2. CASE (DialPlain \/ Bind \/ Register) /\ sasl' = sasl
    BY <1>2 DEF DialPlain, Bind, Register, Set, Results
<1>3. ASSUME NEW r \in Results, pc = "io", pc' = "stop", sasl' = sasl,
             result' = [result EXCEPT ![cur] = r],
             UNCHANGED <<cur, armed, firing, fired, ctxDone, deadline, setBy>>
      PROVE  DeadlineTypeOK'
    BY <1>3
<1>4. CASE (IOSucceeds \/ IOExpired \/ IOTimesOut \/ IOBreaks \/ IOTooLarge) /\ sasl' = sasl
    BY <1>3, <1>4 DEF IOSucceeds, IOExpired, IOTimesOut, IOBreaks, IOTooLarge, Fail, Results
<1>5. CASE Stopped /\ sasl' = sasl
    BY <1>5, Zenon DEF Stopped, DialStops, CallStops, Set, Users
<1>6. CASE NextCall /\ sasl' = sasl
    BY <1>6 DEF NextCall
<1>7. CASE UNCHANGED dvars
    BY <1>7 DEF dvars
<1> QED
    BY <1>1, <1>2, <1>4, <1>5, <1>6, <1>7 DEF DeadlineNext, Step

\* What the server sends ahead is bounded, and the mechanism stays in its stages.
LEMMA HandshakeTyped == HInv' /\ HandshakeTypeOK /\ [HandshakeNext]_hvars => HandshakeTypeOK'
<1> SUFFICES ASSUME HInv', HandshakeTypeOK, [HandshakeNext]_hvars PROVE HandshakeTypeOK'
    OBVIOUS
<1>0. /\ mech' \in {"PLAIN", "GSSAPI"} /\ stage' \in 0 .. 3
      /\ st' \in {"start", "first", "recv", "open", "failed"}
      /\ out' \in Seq({"START", "OK", "COMPLETE"})
    BY DEF HInv, Status
<1>1. in' \in Seq(Frame) /\ Len(in') <= Ahead
  <2>1. CASE UNCHANGED in
      BY <2>1 DEF HandshakeTypeOK
  <2>2. CASE in # <<>> /\ in' = Tail(in)
      BY <2>2, HandshakeAssumption DEF HandshakeTypeOK
  <2>3. ASSUME NEW f \in Frame, Len(in) < Ahead, in' = Append(in, f)
        PROVE  in' \in Seq(Frame) /\ Len(in') <= Ahead
      BY <2>3, HandshakeAssumption, AppendProperties DEF HandshakeTypeOK
  <2> QED
      BY <2>1, <2>2, <2>3, Zenon
      DEF HandshakeNext, ServerSends, ServerHangsUp, IOFails, ClientStep, SendStart, Recv,
          RecvEOF, PlainResponse, PlainChallenged, SendAPReq, VerifyAPRep,
          SelectSecurityLayer, Challenged, hvars
<1>2. /\ sent' \in BOOLEAN /\ done' \in BOOLEAN /\ hungUp' \in BOOLEAN
      /\ ctxKey' \in {"none", "session", "subkey"}
      /\ proved' \in BOOLEAN /\ layer' \in BOOLEAN
    BY Zenon
    DEF HandshakeTypeOK, HandshakeNext, ServerSends, ServerHangsUp, IOFails, ClientStep,
        SendStart, Recv, RecvEOF, PlainResponse, PlainChallenged, SendAPReq, VerifyAPRep,
        SelectSecurityLayer, Challenged, StepFails, Reply, mechVars, hvars
<1> QED
    BY <1>0, <1>1, <1>2 DEF HandshakeTypeOK

\* No more of a reply arrives, or is handed up, than it has.
LEMMA BudgetTyped == BInv /\ BInv' /\ BudgetTypeOK /\ [BudgetNext]_bvars => BudgetTypeOK'
<1> SUFFICES ASSUME BInv, BInv', BudgetTypeOK, [BudgetNext]_bvars PROVE BudgetTypeOK'
    OBVIOUS
<1> USE BudgetAssumption
<1>0. /\ limit' \in Int /\ limit' > 0 /\ maxString' \in Int /\ maxString' <= MaxInt32
      /\ read' \in Nat /\ outcome' \in {"idle", "reading", "ok", "size"}
    BY DEF BInv, Least
<1>1. CASE UNCHANGED bvars
    BY <1>1 DEF BudgetTypeOK, bvars
<1>2. ASSUME NEW n \in 1 .. MaxReply, Flush(n) PROVE BudgetTypeOK'
    BY <1>0, <1>2 DEF BudgetTypeOK, Flush
<1>3. ASSUME NEW c \in 0 .. MaxReply, Arrives(c) PROVE BudgetTypeOK'
    BY <1>0, <1>3, AppendProperties DEF BudgetTypeOK, Arrives
<1>4. CASE SkipEmpty
    BY <1>0, <1>4 DEF BudgetTypeOK, SkipEmpty
<1>5. CASE TooLarge
    BY <1>0, <1>5 DEF BudgetTypeOK, TooLarge
<1>6. ASSUME NEW n \in Int, 1 <= n, n <= size - got, wire # <<>>, n <= Head(wire), Take(n)
      PROVE  BudgetTypeOK'
  <2>1. /\ Len(wire) \in Nat \ {0} /\ wire[1] = Head(wire) /\ Head(wire) \in 0 .. MaxReply
        /\ Tail(wire) \in Seq(0 .. MaxReply)
      BY <1>6 DEF BudgetTypeOK
  <2>2. wire[1] - n \in 0 .. MaxReply /\ 1 \in 1 .. Len(wire)
      BY <1>6, <2>1
  <2>3. [wire EXCEPT ![1] = @ - n] \in Seq(0 .. MaxReply)
      BY <2>2, ExceptSeq DEF BudgetTypeOK
  <2>4. wire' \in Seq(0 .. MaxReply)
      BY <1>6, <2>1, <2>3, Zenon DEF Take
  <2>5. got' \in 0 .. size /\ size' = size /\ due' = due
      BY <1>6 DEF BudgetTypeOK, Take
  <2> QED
      BY <1>0, <2>4, <2>5 DEF BudgetTypeOK
<1>7. CASE ReadByte /\ ~TooLarge
  <2>1. wire # <<>> /\ Head(wire) \in Nat /\ Head(wire) > 0 /\ Take(1) /\ 1 <= size - got
      BY <1>7 DEF BInv, ReadByte
  <2> QED
      BY <1>6, <2>1
<1>8. ASSUME NEW k \in 1 .. MaxInt32, Read(k), ~TooLarge PROVE BudgetTypeOK'
  <2> DEFINE n == Least(Least(k, limit - read), Head(wire))
  <2>1. /\ wire # <<>> /\ Head(wire) > 0 /\ limit - read > 0 /\ Take(n) /\ k <= size - got
      BY <1>8 DEF Read
  <2>2. Head(wire) \in Nat /\ limit - read \in Int /\ k \in Int /\ size - got \in Int
      BY <2>1 DEF BInv
  <2>3. n \in Int /\ 1 <= n /\ n <= Head(wire) /\ n <= size - got
      BY <2>1, <2>2 DEF Least
  <2> HIDE DEF n
  <2> QED
      BY <1>6, <2>1, <2>3
<1> QED
    BY <1>1, <1>2, <1>3, <1>4, <1>5, <1>7, <1>8 DEF BudgetNext, Reads

\* Turns, the handshake and the budget keep their types together, for every
\* number of calls, limit and length of reply.
THEOREM TypeCorrect == Spec => []TypeOK
<1>1. DeadlineSpec => []DeadlineTypeOK
  <2>1. DeadlineInit => DeadlineTypeOK
      BY DeadlineAssumption DEF DeadlineInit, DeadlineTypeOK, Users, Results
  <2> QED
      BY <2>1, DeadlineTyped, PTL DEF DeadlineSpec
<1>2. HandshakeSpec => []HandshakeTypeOK
  <2>1. HandshakeInit => HandshakeTypeOK
    <3> SUFFICES ASSUME HandshakeInit PROVE HandshakeTypeOK
        OBVIOUS
    <3>1. stage \in 0 .. 3 /\ Len(in) <= Ahead
        BY HandshakeAssumption DEF HandshakeInit
    <3>2. out \in Seq({"START", "OK", "COMPLETE"}) /\ in \in Seq(Frame)
        BY DEF HandshakeInit
    <3> QED
        BY <3>1, <3>2, Zenon DEF HandshakeInit, HandshakeTypeOK
  <2> QED
      BY <2>1, HandshakeTyped, HandshakeInvariant, PTL DEF HandshakeSpec
<1>3. BudgetSpec => []BudgetTypeOK
  <2>1. BudgetInit => BudgetTypeOK
      BY BudgetAssumption DEF BudgetInit, BudgetTypeOK, LimitOf, MaxMessageSize, Least
  <2> QED
      BY <2>1, BudgetTyped, BudgetInvariant, PTL DEF BudgetSpec
<1> QED
    BY <1>1, <1>2, <1>3, ConnRunsItsParts, PTL DEF TypeOK

-----------------------------------------------------------------------------
(* The credentials that GSSAPI handshakes share                            *)

\* The acquisitions that pending counts.
Running == {a \in Acqs : acq[a] \in {"running", "sent"}}

\* pending is exact, whoever destroys is alone, no dial outlives Close, and
\* closed is set when once.Do first runs.
CredsInv ==
    /\ CredsTypeOK
    /\ pending = Cardinality(Running)
    /\ Destroying => closed /\ Running = {}
    /\ closed => \A d \in Dials : dial[d] = "out"
    /\ once = "fresh" <=> ~closed
    /\ OneDestroyer

\* The counted set is finite, and empty exactly when its size is 0.
LEMMA RunningFinite ==
    /\ IsFiniteSet(Running) /\ Cardinality(Running) \in Nat
    /\ Cardinality(Running) = 0 <=> Running = {}
<1>1. Running \subseteq Acqs
  BY DEF Running
<1> QED
  BY <1>1, FS_Subset, FS_CardinalityType, FS_EmptySet, SessionAssumption

\* A step that leaves acq, pending, destroyed, closed and once alone and
\* starts no destruction only has to keep the dials out after Close.
LEMMA CredsKept ==
    ASSUME CredsInv, ~closed, UNCHANGED <<closed, pending, once, destroyed, acq, cl>>, CredsTypeOK'
    PROVE  CredsInv'
  BY DEF CredsInv, Destroying, OneDestroyer, Running

\* The invariant holds initially.
LEMMA CredsInvInit == CredsInit => CredsInv
<1> SUFFICES ASSUME CredsInit PROVE CredsInv
  OBVIOUS
<1>1. Running = {}
  BY DEF CredsInit, Running
<1>2. pending = Cardinality(Running)
  BY <1>1, FS_EmptySet DEF CredsInit
<1>3. CredsTypeOK
  <2>1. pending \in Nat
    BY DEF CredsInit
  <2>2. /\ acq \in [Acqs -> AcqState]
        /\ dial \in [Dials -> DialState]
        /\ waits \in [Dials -> Acqs \cup {Nil}]
        /\ cl \in [Closers -> CloseState]
    BY DEF CredsInit, AcqState, DialState, CloseState
  <2> QED
    BY <2>1, <2>2, Zenon DEF CredsInit, CredsTypeOK
<1>4. ~Destroying
  BY DEF CredsInit, Destroying
<1> QED
  BY <1>1, <1>2, <1>3, <1>4 DEF CredsInit, CredsInv, OneDestroyer, Destroying

\* Every step keeps the types.
LEMMA CredsTypes == CredsInv /\ [CredsNext]_svars => CredsTypeOK'
<1> SUFFICES ASSUME CredsInv, CredsTypeOK, [CredsNext]_svars PROVE CredsTypeOK'
  BY DEF CredsInv
<1> USE DEF CredsTypeOK, AcqState, DialState, CloseState
<1>1. ASSUME NEW d \in Dials, Begin(d) PROVE CredsTypeOK'
  BY <1>1 DEF Begin
<1>2. ASSUME NEW d \in Dials, Abandon(d) \/ DialStep(d) PROVE CredsTypeOK'
  <2>1. CASE GotTicket(d)
    <3>1. PICK l \in {"creds", "out"} : dial' = [dial EXCEPT ![d] = l]
      BY <2>1 DEF GotTicket
    <3> QED
      BY <2>1, <3>1 DEF GotTicket
  <2>2. CASE Abandon(d) \/ TokenBuilt(d)
    BY <2>2 DEF Abandon, TokenBuilt
  <2> QED
    BY <1>2, <2>1, <2>2 DEF DialStep
<1>3. ASSUME NEW a \in Acqs, AcqStep(a) PROVE CredsTypeOK'
  <2>1. CASE End(a)
    <3>1. PICK l \in {"destroy", "none"} : acq' = [acq EXCEPT ![a] = l]
      BY <2>1, Zenon DEF End
    <3>2. a \in Running
      BY <2>1 DEF End, Running
    <3>3. pending - 1 \in Nat
      BY <3>2, RunningFinite DEF CredsInv
    <3> QED
      BY <2>1, <3>1, <3>3 DEF End
  <2>2. CASE Exchanged(a) \/ EndDestroy(a)
    BY <2>2, Zenon DEF Exchanged, EndDestroy
  <2> QED
    BY <1>3, <2>1, <2>2 DEF AcqStep
<1>4. ASSUME NEW k \in Closers, Close(k) PROVE CredsTypeOK'
  BY <1>4, Zenon DEF Close
<1>5. ASSUME NEW k \in Closers, CloseStep(k) PROVE CredsTypeOK'
  BY <1>5, Zenon DEF CloseStep, CloseDestroy, CloseWaited
<1>6. CASE UNCHANGED svars
  BY <1>6 DEF svars
<1> QED
  BY <1>1, <1>2, <1>3, <1>4, <1>5, <1>6 DEF CredsNext, BeginRefused

\* Every step keeps the invariant.
LEMMA CredsInvNext == CredsInv /\ [CredsNext]_svars => CredsInv'
<1> SUFFICES ASSUME CredsInv, [CredsNext]_svars PROVE CredsInv'
  OBVIOUS
<1>0. CredsTypeOK /\ CredsTypeOK'
  BY CredsTypes DEF CredsInv
<1>1. ASSUME NEW d \in Dials, Begin(d) PROVE CredsInv'
  <2>1. PICK a \in Acqs : acq[a] = "none" /\ acq' = [acq EXCEPT ![a] = "running"]
    BY <1>1, Zenon DEF Begin
  <2>2. a \notin Running /\ Running' = Running \cup {a}
    BY <1>0, <2>1 DEF Running, CredsTypeOK
  <2>3. pending' = Cardinality(Running')
    BY <1>1, <2>2, RunningFinite, FS_AddElement, Zenon DEF CredsInv, Begin
  <2>4. ~Destroying
    BY <1>1 DEF CredsInv, Begin
  <2>5. ~Destroying'
    BY <1>0, <1>1, <2>1, <2>4 DEF Begin, Destroying, CredsTypeOK
  <2> QED
    BY <1>0, <1>1, <2>3, <2>5 DEF CredsInv, Begin, OneDestroyer, Destroying
<1>2. ASSUME NEW d \in Dials, Abandon(d) \/ DialStep(d) PROVE CredsInv'
  <2>1. ~closed
    BY <1>2 DEF CredsInv, Abandon, DialStep, GotTicket, TokenBuilt
  <2> QED
    BY <1>0, <1>2, <2>1, CredsKept DEF Abandon, DialStep, GotTicket, TokenBuilt
<1>3. ASSUME NEW a \in Acqs, Exchanged(a) PROVE CredsInv'
  <2>1. Running' = Running
    BY <1>0, <1>3 DEF Exchanged, Running, CredsTypeOK
  <2>2. Destroying' <=> Destroying
    BY <1>0, <1>3 DEF Exchanged, Destroying, CredsTypeOK
  <2>3. OneDestroyer'
    BY <1>0, <1>3 DEF Exchanged, CredsInv, OneDestroyer, CredsTypeOK
  <2> QED
    BY <1>0, <1>3, <2>1, <2>2, <2>3 DEF CredsInv, Exchanged
<1>4. ASSUME NEW a \in Acqs, End(a) PROVE CredsInv'
  <2>1. a \in Running /\ Running' = Running \ {a}
    BY <1>0, <1>4 DEF End, Running, CredsTypeOK
  <2>2. pending' = Cardinality(Running')
    BY <1>4, <2>1, RunningFinite, FS_RemoveElement, Zenon DEF CredsInv, End
  <2>3. ~Destroying
    BY <2>1 DEF CredsInv
  <2>4. CASE closed /\ pending' = 0
    <3>1. Running' = {}
      BY <2>1, <2>2, <2>4, RunningFinite, FS_RemoveElement, FS_EmptySet, FS_Subset, Zenon
    <3>2. acq' = [acq EXCEPT ![a] = "destroy"]
      BY <1>4, <2>4, Zenon DEF End
    <3>3. OneDestroyer'
      BY <1>0, <1>4, <2>3, <3>2 DEF End, OneDestroyer, Destroying, CredsTypeOK
    <3> QED
      BY <1>0, <1>4, <2>2, <2>4, <3>1, <3>3 DEF CredsInv, End
  <2>5. CASE ~(closed /\ pending' = 0)
    <3>1. acq' = [acq EXCEPT ![a] = "none"]
      BY <1>4, <2>5, Zenon DEF End
    <3>2. ~Destroying'
      BY <1>0, <1>4, <2>3, <3>1 DEF End, Destroying, CredsTypeOK
    <3> QED
      BY <1>0, <1>4, <2>2, <3>2 DEF CredsInv, End, OneDestroyer, Destroying
  <2> QED
    BY <2>4, <2>5
<1>5. ASSUME NEW a \in Acqs, EndDestroy(a) PROVE CredsInv'
  <2>1. Running' = Running /\ closed /\ Running = {}
    BY <1>0, <1>5 DEF EndDestroy, Running, CredsTypeOK, CredsInv, Destroying
  <2>2. OneDestroyer'
    BY <1>0, <1>5 DEF EndDestroy, CredsInv, OneDestroyer, CredsTypeOK
  <2> QED
    BY <1>0, <1>5, <2>1, <2>2 DEF CredsInv, EndDestroy
<1>6. ASSUME NEW k \in Closers, Close(k) PROVE CredsInv'
  <2>1. Running' = Running
    BY <1>6 DEF Close, Running
  <2>2. CASE once = "fresh"
    <3>1. ~closed /\ ~Destroying
      BY <2>2 DEF CredsInv
    <3>2. OneDestroyer'
      BY <1>0, <1>6, <2>2, <3>1 DEF Close, OneDestroyer, Destroying, CredsTypeOK
    <3>3. Destroying' => pending = 0
      BY <1>0, <1>6, <2>2, <3>1 DEF Close, Destroying, CredsTypeOK
    <3>4. pending = 0 => Running = {}
      BY RunningFinite DEF CredsInv
    <3> QED
      BY <1>0, <1>6, <2>1, <2>2, <3>2, <3>3, <3>4 DEF CredsInv, Close
  <2>3. CASE once # "fresh"
    <3>1. Destroying' <=> Destroying
      BY <1>0, <1>6, <2>3 DEF Close, Destroying, CredsTypeOK
    <3>2. OneDestroyer'
      BY <1>0, <1>6, <2>3, Zenon DEF CredsInv, Close, OneDestroyer, CredsTypeOK
    <3> QED
      BY <1>0, <1>6, <2>1, <2>3, <3>1, <3>2 DEF CredsInv, Close
  <2> QED
    BY <2>2, <2>3
<1>7. ASSUME NEW k \in Closers, CloseDestroy(k) PROVE CredsInv'
  <2>1. Running' = Running /\ closed /\ Running = {}
    BY <1>7 DEF CloseDestroy, Running, CredsInv, Destroying
  <2>2. OneDestroyer'
    BY <1>0, <1>7 DEF CloseDestroy, CredsInv, OneDestroyer, CredsTypeOK
  <2> QED
    BY <1>0, <1>7, <2>1, <2>2 DEF CredsInv, CloseDestroy
<1>8. ASSUME NEW k \in Closers, CloseWaited(k) PROVE CredsInv'
  <2>1. Running' = Running
    BY <1>8 DEF CloseWaited, Running
  <2>2. Destroying' <=> Destroying
    BY <1>0, <1>8 DEF CloseWaited, Destroying, CredsTypeOK
  <2>3. OneDestroyer'
    BY <1>0, <1>8, Zenon DEF CloseWaited, CredsInv, OneDestroyer, CredsTypeOK
  <2> QED
    BY <1>0, <1>8, <2>1, <2>2, <2>3 DEF CredsInv, CloseWaited
<1>9. CASE UNCHANGED svars
  BY <1>0, <1>9 DEF svars, CredsInv, Running, Destroying, OneDestroyer
<1> QED
  BY <1>1, <1>2, <1>3, <1>4, <1>5, <1>6, <1>7, <1>8, <1>9
  DEF CredsNext, AcqStep, CloseStep, BeginRefused

\* The strengthened invariant holds in every reachable state.
LEMMA CredsInvariant == CredsSpec => []CredsInv
  BY CredsInvInit, CredsInvNext, PTL DEF CredsSpec

\* Destroy never runs while an acquisition is inside gokrb5 or a dial reads
\* the credentials, however many dials were abandoned before Close.
THEOREM DestroyIsAlone == CredsSpec => []DestroyedUnused
<1>1. CredsInv => DestroyedUnused
  BY DEF CredsInv, DestroyedUnused, Running
<1> QED
  BY <1>1, CredsInvariant, PTL

\* Destroy is called at most once.
THEOREM DestroyedOnce == CredsSpec => []OneDestroyer
<1>1. CredsInv => OneDestroyer
  BY DEF CredsInv
<1> QED
  BY <1>1, CredsInvariant, PTL

\* The counters and every goroutine's state keep their types; in particular
\* pending, which End decrements, never goes below zero.
THEOREM CredsTypeCorrect == CredsSpec => []CredsTypeOK
<1>1. CredsInv => CredsTypeOK
  BY DEF CredsInv
<1> QED
  BY <1>1, CredsInvariant, PTL
=============================================================================
