--------------------------- MODULE Sessions_proofs ---------------------------
(***************************************************************************)
(* What holds of Sessions for any users, workloads, objects, connections   *)
(* and bounds: exclusive locks exclude, a Stop that has returned has left  *)
(* no handler behind, and what was told of a transaction stays true.  And  *)
(* what the conversions do to an object that is read, edited and altered.  *)
(***************************************************************************)
EXTENDS Sessions, TLAPS

\* The provers tried on a step that names none, and their time.
USE SMTT(30), Z3T(30), ZenonT(30)

\* Lock ids are given out in order, so a lock asked for later has the higher id.
LInv ==
    /\ nextLock \in Nat
    /\ \A i \in DOMAIN locks : i \in 1 .. nextLock
    /\ ExclusiveExcludes

\* Lock keeps LInv: a request is granted only if no lock held conflicts with it.
LEMMA LockKeeps ==
    ASSUME LInv, NEW r, Lock(r)
    PROVE  LInv'
<1> DEFINE given == IF Unset(r) THEN {} ELSE {nextLock + 1}
<1>1. /\ nextLock' = IF Unset(r) THEN nextLock ELSE nextLock + 1
      /\ locks' = [i \in DOMAIN locks \cup given |->
                      IF i \in given
                      THEN [comps |-> r.comps, state |-> LockReply(r).state]
                      ELSE locks[i]]
    BY DEF Lock
<1>2. DOMAIN locks' = DOMAIN locks \cup given
    BY <1>1
<1>3. nextLock' \in Nat /\ \A i \in DOMAIN locks' : i \in 1 .. nextLock'
    BY <1>1, <1>2 DEF LInv
<1>4. ASSUME NEW i \in DOMAIN locks', NEW j \in DOMAIN locks', i < j,
             locks'[i].state = "ACQUIRED", locks'[j].state = "ACQUIRED",
             NEW x \in locks'[i].comps, NEW y \in locks'[j].comps, x.type = "EXCLUSIVE"
      PROVE  ~LockOverlaps(x, y)
    <2>1. i \notin given
        BY <1>2, <1>3, <1>1, <1>4 DEF LInv
    <2>2. i \in DOMAIN locks /\ locks'[i] = locks[i]
        BY <2>1, <1>1, <1>2
    <2>3. CASE j \notin given
        <3>1. j \in DOMAIN locks /\ locks'[j] = locks[j]
            BY <2>3, <1>1, <1>2
        <3> QED
            BY <3>1, <2>2, <1>4 DEF LInv, ExclusiveExcludes
    <2>4. CASE j \in given
        <3>1. locks'[j] = [comps |-> r.comps, state |-> LockReply(r).state]
            BY <2>4, <1>1
        <3>2. ~Unset(r)
            BY <2>4
        <3>3. y \in r.comps /\ LockReply(r).state = "ACQUIRED"
            BY <3>1, <1>4
        <3>4. ~Conflicts(r.comps)
            BY <3>2, <3>3 DEF LockReply, Reply
        <3>5. ~HasExclusiveConflict(y)
            BY <3>4, <3>3 DEF Conflicts
        <3> QED
            BY <3>5, <2>2, <1>4 DEF HasExclusiveConflict
    <2> QED
        BY <2>3, <2>4
<1>5. ExclusiveExcludes'
    BY <1>4 DEF ExclusiveExcludes, LockOverlaps, LockDepth
<1> QED
    BY <1>3, <1>5 DEF LInv

\* Every other step takes locks away or leaves them alone.
LEMMA LocksStep == LInv /\ [Next]_vars => LInv'
<1> SUFFICES ASSUME LInv, [Next]_vars PROVE LInv'
    OBVIOUS
<1>1. ASSUME UNCHANGED <<nextLock, locks>> PROVE LInv'
    BY <1>1 DEF LInv, ExclusiveExcludes, LockOverlaps, LockDepth
<1>2. ASSUME NEW r, Unlock(r) PROVE LInv'
    <2>1. /\ nextLock' = nextLock
          /\ locks' = [i \in DOMAIN locks \ {r.lock} |-> locks[i]]
        BY <1>2 DEF Unlock
    <2>2. DOMAIN locks' \subseteq DOMAIN locks /\ \A i \in DOMAIN locks' : locks'[i] = locks[i]
        BY <2>1
    <2>3. ExclusiveExcludes'
        BY <2>2 DEF LInv, ExclusiveExcludes, LockOverlaps, LockDepth
    <2> QED
        BY <2>1, <2>2, <2>3 DEF LInv
<1>3. ASSUME NEW c, NEW r, HandlesAcid(c, r) PROVE LInv'
    <2>1. AcidStep(r)
        BY <1>3 DEF HandlesAcid
    <2>2. CASE Lock(r)
        BY <2>2, LockKeeps
    <2>3. CASE Unlock(r)
        BY <2>3, <1>2
    <2>4. CASE UNCHANGED <<nextLock, locks>>
        BY <2>4, <1>1
    <2> QED
        BY <2>1, <2>2, <2>3, <2>4 DEF AcidStep, OpenTxns, CommitTxn, AbortTxn, avars
<1>4. CASE \E c \in Conns : Handle(c)
    BY <1>4, <1>1, <1>3 DEF Handle, GetObject, AlterObject, avars
<1>5. CASE ~(\E c \in Conns : Handle(c))
    <2>1. UNCHANGED avars
        BY <1>5 DEF Next, vars, User, Call, Dial, GivesUp, Returns, ReplyLost, Cancelled,
                    Goroutine, Accepting, Stopping
    <2> QED
        BY <2>1, <1>1 DEF avars
<1> QED
    BY <1>4, <1>5

\* While a lock is held in EXCLUSIVE mode nothing it covers is granted to a
\* later request, for any components and any sequence of calls.
THEOREM ExclusiveHolds == Spec => []ExclusiveExcludes
<1>1. Init => LInv
    BY DEF Init, NewAcidState, LInv, ExclusiveExcludes
<1>2. LInv => ExclusiveExcludes
    BY DEF LInv
<1> QED
    BY <1>1, <1>2, LocksStep, PTL DEF Spec

-----------------------------------------------------------------------------
(* Stop                                                                    *)

\* A connection is in the backlog once, and nowhere else.
BInv ==
    /\ phase \in [Conns -> Phases]
    /\ backlog \in Seq(Conns)
    /\ \A i \in 1 .. Len(backlog) : phase[backlog[i]] = "backlog"
    /\ \A i, j \in 1 .. Len(backlog) : backlog[i] = backlog[j] => i = j

\* Server.conns holds the connections that have a handler, and a Stop that is
\* under way has set the flag that turns new ones away.
SInv ==
    /\ work \in DOMAIN Workloads
    /\ phase \in [Conns -> Phases]
    /\ stop \in [Stoppers -> {"idle", "listener", "conns", "wait", "returned", "early"}]
    /\ registered = {c \in Conns : phase[c] \in Handling}
    /\ \A s \in Stoppers : stop[s] # "idle" => stopped
    /\ StoppedForGood

\* A connection that goes from one phase to another with or without a handler
\* keeps SInv, if none gets one once Stop has begun.
LEMMA PhaseKeeps ==
    ASSUME SInv, NEW c \in Conns, NEW p \in Phases,
           phase' = [phase EXCEPT ![c] = p],
           registered' = IF p \in Handling THEN registered \cup {c} ELSE registered \ {c},
           p \in Handling => phase[c] \in Handling \/ ~stopped,
           UNCHANGED <<work, stop, stopped>>
    PROVE  SInv'
<1>1. phase' \in [Conns -> Phases]
    BY DEF SInv
<1>2. \A d \in Conns : phase'[d] = IF d = c THEN p ELSE phase[d]
    BY DEF SInv
<1>3. registered' = {d \in Conns : phase'[d] \in Handling}
    BY <1>2 DEF SInv
<1>4. StoppedForGood'
    <2> SUFFICES ASSUME NEW s \in Stoppers, stop'[s] = "returned"
                 PROVE  \A d \in Conns : phase'[d] \notin Handling
        BY <1>3 DEF StoppedForGood
    <2>1. stopped /\ \A d \in Conns : phase[d] \notin Handling
        BY DEF SInv, StoppedForGood
    <2> QED
        BY <2>1, <1>2
<1> QED
    BY <1>1, <1>3, <1>4 DEF SInv

\* The steps of serve and of the handlers.
LEMMA ServerKeeps ==
    ASSUME SInv, BInv, UNCHANGED work,
           Serve \/ \E c \in Conns : HandleConn(c) \/ \E rep : Process(c, rep)
    PROVE  SInv'
<1>1. ASSUME NEW c \in Conns, Exit(c), UNCHANGED <<stop, stopped>> PROVE SInv'
    <2>1. "none" \in Phases /\ "none" \notin Handling
        BY DEF Phases, Handling
    <2> QED
        BY <1>1, <2>1, PhaseKeeps, Zenon DEF Exit
<1>2. ASSUME NEW c \in Conns, NEW p \in Handling, phase[c] \in Handling,
             phase' = [phase EXCEPT ![c] = p], UNCHANGED <<registered, stop, stopped>>
      PROVE  SInv'
    <2>1. p \in Phases /\ registered = registered \cup {c}
        BY <1>2 DEF SInv, Phases
    <2> QED
        BY <1>2, <2>1, PhaseKeeps, Zenon
<1>3. ASSUME NEW c \in Conns, NEW p \in Phases \ Handling, phase[c] \notin Handling,
             phase' = [phase EXCEPT ![c] = p], UNCHANGED <<registered, stop, stopped>>
      PROVE  SInv'
    <2>1. registered = registered \ {c}
        BY <1>3 DEF SInv
    <2> QED
        BY <1>3, <2>1, PhaseKeeps, Zenon
<1>4. CASE AcceptFails
    BY <1>4 DEF AcceptFails, SInv, StoppedForGood
<1>5. ASSUME NEW c \in Conns, Accept(c) PROVE SInv'
    <2>1. phase[c] = "backlog"
        <3>1. 1 \in 1 .. Len(backlog) /\ c = backlog[1]
            BY <1>5 DEF Accept, BInv
        <3> QED
            BY <3>1 DEF BInv
    <2> QED
        BY <1>5, <2>1, <1>3, Zenon DEF Accept, Phases, Handling
<1>6. ASSUME NEW c \in Conns, Register(c) PROVE SInv'
    <2>1. CASE Turned(c)
        BY <1>6, <2>1, <1>3, Zenon DEF Register, Turned, Phases, Handling
    <2>2. CASE ~stopped /\ Registered(c)
        <3>1. "reading" \in Phases /\ "reading" \in Handling
            BY DEF Phases, Handling
        <3> QED
            BY <1>6, <2>2, <3>1, PhaseKeeps, Zenon DEF Register, Registered
    <2> QED
        BY <1>6, <2>1, <2>2 DEF Register
<1>7. ASSUME NEW c \in Conns, ReadMessageBegin(c) PROVE SInv'
    BY <1>7, <1>2, Zenon DEF ReadMessageBegin, Load, Handling
<1>8. ASSUME NEW c \in Conns, CompareAndSwap(c) PROVE SInv'
    BY <1>8, <1>1, <1>2 DEF CompareAndSwap, FailInjected, Load, Handling
<1>9. ASSUME NEW c \in Conns, WriteReply(c) PROVE SInv'
    BY <1>9, <1>1, <1>2 DEF WriteReply, Handling
<1>10. ASSUME NEW c \in Conns, NEW rep, Process(c, rep) PROVE SInv'
    BY <1>10, <1>2, Zenon DEF Process, Handling
<1>11. ASSUME NEW c \in Conns, ProcessCut(c) \/ ReadFails(c) PROVE SInv'
    BY <1>11, <1>1 DEF ProcessCut, ReadFails
<1> QED
    BY <1>4, <1>5, <1>6, <1>7, <1>8, <1>9, <1>10, <1>11 DEF Serve, HandleConn

\* The steps of Stop: the first to set the flag is the one that waits.
LEMMA StopKeeps ==
    ASSUME SInv, UNCHANGED work, NEW s \in Stoppers, Stop(s)
    PROVE  SInv'
<1>1. ASSUME NEW v \in {"listener", "conns", "wait", "early"},
             stop' = [stop EXCEPT ![s] = v], stopped',
             phase' \in [Conns -> Phases], UNCHANGED registered,
             \A c \in Conns : phase'[c] \in Handling <=> phase[c] \in Handling
      PROVE  SInv'
    BY <1>1 DEF SInv, StoppedForGood
<1>2. CASE SetStopped(s)
    BY <1>2, <1>1, Zenon DEF SetStopped, SInv
<1>3. CASE CloseListener(s)
    <2>1. stopped' /\ stop' = [stop EXCEPT ![s] = "conns"]
        BY <1>3 DEF CloseListener, SInv
    <2>2. phase' \in [Conns -> Phases]
        BY <1>3 DEF CloseListener, SInv, Phases
    <2>3. \A c \in Conns : phase'[c] \in Handling <=> phase[c] \in Handling
        BY <1>3 DEF CloseListener, Handling
    <2> QED
        BY <1>1, <1>3, <2>1, <2>2, <2>3 DEF CloseListener
<1>4. CASE CloseConns(s)
    <2>1. CASE UNCHANGED stop
        BY <1>4, <2>1 DEF CloseConns, SInv, StoppedForGood
    <2>2. CASE stop' = [stop EXCEPT ![s] = "wait"]
        BY <1>1, <1>4, <2>2 DEF CloseConns, SInv
    <2> QED
        BY <1>4, <2>1, <2>2 DEF CloseConns
<1>5. CASE Wait(s)
    <2>1. stopped /\ registered = {} /\ UNCHANGED <<phase, registered, stopped>>
        BY <1>5 DEF Wait, SInv
    <2>2. stop' \in [Stoppers -> {"idle", "listener", "conns", "wait", "returned", "early"}]
        BY <1>5 DEF Wait, SInv
    <2> QED
        BY <1>5, <2>1, <2>2 DEF Wait, SInv, StoppedForGood
<1> QED
    BY <1>2, <1>3, <1>4, <1>5 DEF Stop

\* A user's step moves a connection only by making it.
LEMMA UserSteps ==
    ASSUME NEW u \in Users, User(u)
    PROVE  /\ UNCHANGED <<work, registered, stop, stopped>>
           /\ \/ UNCHANGED <<phase, backlog>>
              \/ \E c \in Conns : /\ phase[c] = "none"
                                  /\ phase' = [phase EXCEPT ![c] = "backlog"]
                                  /\ backlog' = Append(backlog, c)
<1>1. CASE Dial(u)
    BY <1>1, Zenon DEF Dial, Free, Connect
<1>2. CASE Call(u)
    BY <1>2 DEF Call, Send, svars
<1>3. CASE GivesUp(u) \/ Returns(u) \/ ReplyLost(u) \/ Cancelled(u)
    BY <1>3 DEF GivesUp, Returns, ReplyLost, Cancelled, Receive, Leave, svars
<1> QED
    BY <1>1, <1>2, <1>3 DEF User

\* Only a new connection enters the backlog, and it is no other's name.
LEMMA BacklogStep == BInv /\ [Next]_vars => BInv'
<1> SUFFICES ASSUME BInv, [Next]_vars PROVE BInv'
    OBVIOUS
<1>1. CASE UNCHANGED <<phase, backlog>>
    BY <1>1 DEF BInv
<1>2. ASSUME NEW c \in Conns, phase[c] = "none",
             phase' = [phase EXCEPT ![c] = "backlog"], backlog' = Append(backlog, c)
      PROVE  BInv'
    <2>1. phase' \in [Conns -> Phases] /\ backlog' \in Seq(Conns)
        BY <1>2 DEF BInv, Phases
    <2>2. /\ Len(backlog) \in Nat /\ Len(backlog') = Len(backlog) + 1
          /\ \A i \in 1 .. Len(backlog) : backlog'[i] = backlog[i] /\ backlog[i] \in Conns
          /\ backlog'[Len(backlog) + 1] = c
        BY <1>2 DEF BInv
    <2>3. \A i \in 1 .. Len(backlog) : backlog[i] # c
        BY <1>2 DEF BInv
    <2>4. \A i \in 1 .. Len(backlog') : phase'[backlog'[i]] = "backlog"
        BY <1>2, <2>2, <2>3 DEF BInv
    <2>5. \A i, j \in 1 .. Len(backlog') : backlog'[i] = backlog'[j] => i = j
        BY <2>2, <2>3 DEF BInv
    <2> QED
        BY <2>1, <2>4, <2>5 DEF BInv
<1>3. ASSUME NEW c \in Conns, NEW p \in Phases, phase[c] # "backlog",
             phase' = [phase EXCEPT ![c] = p], UNCHANGED backlog
      PROVE  BInv'
    BY <1>3 DEF BInv
<1>4. ASSUME NEW c \in Conns, Accept(c) PROVE BInv'
    <2>1. /\ backlog # <<>> /\ c = Head(backlog) /\ backlog' = Tail(backlog)
          /\ phase' = [phase EXCEPT ![c] = "hold"]
        BY <1>4 DEF Accept
    <2>2. phase' \in [Conns -> Phases] /\ backlog' \in Seq(Conns)
        BY <2>1 DEF BInv, Phases
    <2>3. /\ Len(backlog) \in Nat \ {0} /\ Len(backlog') = Len(backlog) - 1
          /\ \A i \in 1 .. Len(backlog') : backlog'[i] = backlog[i + 1]
          /\ c = backlog[1]
        BY <2>1 DEF BInv
    <2>4. \A i \in 1 .. Len(backlog') :
              i + 1 \in 1 .. Len(backlog) /\ 1 \in 1 .. Len(backlog) /\ i + 1 # 1
        BY <2>3
    <2>5. ASSUME NEW i \in 1 .. Len(backlog') PROVE backlog'[i] # c /\ backlog'[i] \in Conns
        <3>1. backlog'[i] = backlog[i + 1] /\ backlog[i + 1] \in Conns
            BY <2>3, <2>4 DEF BInv
        <3>2. backlog[i + 1] # backlog[1]
            BY <2>4 DEF BInv
        <3> QED
            BY <3>1, <3>2, <2>3
    <2>6. \A i \in 1 .. Len(backlog') : phase'[backlog'[i]] = "backlog"
        BY <2>1, <2>3, <2>4, <2>5 DEF BInv
    <2>7. \A i, j \in 1 .. Len(backlog') : backlog'[i] = backlog'[j] => i = j
        BY <2>3, <2>4 DEF BInv
    <2> QED
        BY <2>2, <2>6, <2>7 DEF BInv
<1>5. ASSUME NEW c \in Conns, Register(c) PROVE BInv'
    BY <1>5, <1>3 DEF Register, Turned, Registered, Phases, Handling
<1>6. ASSUME NEW c \in Conns, HandleConn(c) \/ \E rep : Process(c, rep) PROVE BInv'
    <2>1. phase[c] # "backlog" /\ UNCHANGED backlog
        BY <1>6 DEF HandleConn, Process, ReadMessageBegin, CompareAndSwap, ProcessCut,
                    WriteReply, ReadFails
    <2>2. \E p \in Phases : phase' = [phase EXCEPT ![c] = p]
        BY <1>6 DEF HandleConn, Process, ReadMessageBegin, CompareAndSwap, ProcessCut,
                    WriteReply, ReadFails, Exit, Load, FailInjected, Phases, Handling
    <2> QED
        BY <2>1, <2>2, <1>3, Zenon
<1>7. ASSUME NEW s, Stop(s) PROVE BInv'
    <2>1. CASE CloseListener(s)
        <3>1. phase' \in [Conns -> Phases]
            BY <2>1, Zenon DEF CloseListener, BInv, Phases
        <3>2. backlog' = <<>>
            BY <2>1, Zenon DEF CloseListener
        <3>3. backlog' \in Seq(Conns) /\ 1 .. Len(backlog') = {}
            BY <3>2
        <3> QED
            BY <3>1, <3>3 DEF BInv
    <2>2. CASE ~CloseListener(s)
        BY <1>7, <2>2, <1>1 DEF Stop, SetStopped, CloseConns, Wait
    <2> QED
        BY <2>1, <2>2
<1>8. ASSUME NEW u \in Users, User(u) PROVE BInv'
    BY <1>8, <1>1, <1>2, UserSteps
<1>9. ASSUME NEW c \in Conns, Goroutine(c) PROVE BInv'
    BY <1>9, <1>6 DEF Goroutine, Handle, HandlesAcid, GetObject, AlterObject
<1>10. CASE Accepting
    BY <1>10, <1>1, <1>4, <1>5 DEF Accepting, Serve, AcceptFails
<1>11. CASE UNCHANGED vars
    BY <1>11, <1>1 DEF vars, svars
<1> QED
    BY <1>7, <1>8, <1>9, <1>10, <1>11 DEF Next, Stopping

\* SInv is inductive next to BInv.
LEMMA StopStep == SInv /\ BInv /\ [Next]_vars => SInv'
<1> SUFFICES ASSUME SInv, BInv, [Next]_vars PROVE SInv'
    OBVIOUS
<1>1. ASSUME UNCHANGED <<work, phase, registered, stop, stopped>> PROVE SInv'
    BY <1>1 DEF SInv, StoppedForGood
<1>2. ASSUME NEW u \in Users, User(u) PROVE SInv'
    <2>1. ASSUME NEW c \in Conns, phase[c] = "none", phase' = [phase EXCEPT ![c] = "backlog"]
          PROVE  SInv'
        <3>1. /\ "backlog" \in Phases /\ "backlog" \notin Handling
              /\ registered' = registered \ {c}
            BY <2>1, <1>2, UserSteps DEF SInv, Phases, Handling
        <3> QED
            BY <2>1, <3>1, <1>2, UserSteps, PhaseKeeps, Zenon
    <2> QED
        BY <2>1, <1>1, <1>2, UserSteps
<1>3. ASSUME NEW c \in Conns, Goroutine(c) PROVE SInv'
    BY <1>3, ServerKeeps DEF Goroutine, Handle, HandlesAcid, GetObject, AlterObject
<1>4. CASE Accepting
    BY <1>4, ServerKeeps DEF Accepting
<1>5. ASSUME NEW s \in Work.stop, Stopping(s) PROVE SInv'
    <2>1. s \in Stoppers
        BY <1>5, SessionsAssumption DEF Work, SInv
    <2> QED
        BY <2>1, <1>5, StopKeeps DEF Stopping
<1>6. CASE UNCHANGED vars
    BY <1>6, <1>1 DEF vars, svars
<1> QED
    BY <1>2, <1>3, <1>4, <1>5, <1>6 DEF Next

\* The server at first.
LEMMA InitBacklog == Init => BInv
<1> SUFFICES ASSUME Init PROVE BInv
    OBVIOUS
<1>1. backlog = <<>> /\ phase = [c \in Conns |-> "none"]
    BY DEF Init, NewServer
<1>2. backlog \in Seq(Conns) /\ 1 .. Len(backlog) = {}
    BY <1>1
<1>3. phase \in [Conns -> Phases]
    BY <1>1 DEF Phases
<1> QED
    BY <1>2, <1>3 DEF BInv

\* Once the Stop that stops the server has returned, no handler runs, for any
\* number of connections, of calls to Stop and of users.
THEOREM StopIsFinal == Spec => []StoppedForGood
<1>1. Init => SInv
    BY DEF Init, NewServer, SInv, StoppedForGood, Phases, Handling
<1>2. SInv => StoppedForGood
    BY DEF SInv
<1> QED
    BY <1>1, <1>2, InitBacklog, StopStep, BacklogStep, PTL DEF Spec

-----------------------------------------------------------------------------
(* Replies                                                                 *)

\* A connection carries one message at a time, and a handler that is not about
\* to write holds no reply.
CInv ==
    /\ inbox = [c \in Conns |-> inbox[c]]
    /\ answer = [c \in Conns |-> answer[c]]
    /\ outbox = [c \in Conns |-> outbox[c]]
    /\ \A c \in Conns :
        /\ phase[c] # "write" => answer[c] = {}
        /\ inbox[c] = {} \/ answer[c] = {}
        /\ inbox[c] = {} \/ outbox[c] = {}
        /\ answer[c] = {} \/ outbox[c] = {}

\* What the reply rep to the request r says of the transactions is so.
Truthful(r, rep) ==
    rep.err = "ok" =>
        /\ r.op = "commit_txn" => r.txn \in 1 .. nextTxn /\ r.txn \notin DOMAIN txns
        /\ r.op = "abort_txn" => r.txn \in DOMAIN txns /\ txns[r.txn] = "aborted"

\* No two users share a connection, and what is on a user's connection is its
\* own request or the reply to it.
UInv ==
    /\ pc = [u \in Users |-> pc[u]]
    /\ req = [u \in Users |-> req[u]]
    /\ cn = [u \in Users |-> cn[u]]
    /\ \A u \in Users : cn[u] \subseteq Conns /\ \A c, d \in cn[u] : c = d
    /\ \A u, v \in Users : \A c \in cn[u] : c \in cn[v] => u = v
    /\ \A u \in Users : pc[u] # "idle" => \E r : req[u] = {r}
    /\ \A u \in Users : \A c \in cn[u] :
        IF pc[u] = "wait"
        THEN \A r \in req[u] : /\ inbox[c] \subseteq {r}
                               /\ \A rep \in answer[c] \cup outbox[c] : Truthful(r, rep)
        ELSE inbox[c] = {} /\ answer[c] = {} /\ outbox[c] = {}

\* How many transactions are asked for is a number.
Sized(r) == r.op = "open_txns" => r.n \in Int

QInv ==
    /\ \A c \in Conns : \A r \in inbox[c] : Sized(r)
    /\ \A u \in Users : \A r \in req[u] : Sized(r)

\* The ids given out, and what users have been told of them.
TInv ==
    /\ nextTxn \in Nat
    /\ DOMAIN txns \subseteq 1 .. nextTxn
    /\ \A t : <<t, "committed">> \in told => t \in 1 .. nextTxn /\ t \notin DOMAIN txns
    /\ \A t : <<t, "aborted">> \in told => t \in DOMAIN txns /\ txns[t] = "aborted"

RInv == BInv /\ CInv /\ UInv /\ QInv /\ TInv

\* A set of one request.
LEMMA TheOne == ASSUME NEW r PROVE The({r}) = r
    BY DEF The

\* A handler of acid.go undoes nothing a reply has said, and its own reply is
\* true of the state it leaves.
LEMMA AcidKeeps ==
    ASSUME TInv, UNCHANGED told, NEW q, Sized(q), AcidStep(q)
    PROVE  /\ TInv'
           /\ \A r, rep : Truthful(r, rep) => Truthful(r, rep)'
           /\ \A rep : rep = AcidReply(q) => Truthful(q, rep)'
<1>1. CASE q.op = "open_txns" /\ OpenTxns(q)
    <2>1. NumTxns(q) \in Nat \ {0}
        BY <1>1 DEF Sized, NumTxns
    <2>2. nextTxn' \in Nat /\ nextTxn' >= nextTxn
        BY <1>1, <2>1 DEF OpenTxns, TInv
    <2>3. DOMAIN txns' = DOMAIN txns \cup nextTxn + 1 .. nextTxn + NumTxns(q)
        BY <1>1 DEF OpenTxns
    <2>4. \A t \in DOMAIN txns : txns'[t] = txns[t]
        BY <1>1, <2>3 DEF OpenTxns, TInv
    <2>5. \A t \in 1 .. nextTxn : t \in 1 .. nextTxn' /\ (t \in DOMAIN txns' <=> t \in DOMAIN txns)
        BY <2>1, <2>2, <2>3 DEF TInv
    <2>6. DOMAIN txns' \subseteq 1 .. nextTxn'
        BY <1>1, <2>1, <2>3 DEF OpenTxns, TInv
    <2>7. TInv'
        BY <2>2, <2>4, <2>5, <2>6 DEF TInv
    <2>8. \A r, rep : Truthful(r, rep) => Truthful(r, rep)'
        BY <2>4, <2>5 DEF Truthful, TInv
    <2> QED
        BY <1>1, <2>7, <2>8 DEF Truthful
<1>2. CASE q.op = "commit_txn" /\ CommitTxn(q)
    <2>1. CASE CommitTxnReply(q) = Done
        <3>1. q.txn \in DOMAIN txns /\ txns[q.txn] # "aborted"
            BY <2>1, Zenon DEF CommitTxnReply, Done, Reply
        <3>2. nextTxn' = nextTxn /\ txns' = [t \in DOMAIN txns \ {q.txn} |-> txns[t]]
            BY <1>2, <2>1 DEF CommitTxn
        <3>3. DOMAIN txns' = DOMAIN txns \ {q.txn} /\ \A t \in DOMAIN txns' : txns'[t] = txns[t]
            BY <3>2
        <3>4. TInv'
            BY <3>1, <3>2, <3>3 DEF TInv
        <3>5. \A r, rep : Truthful(r, rep) => Truthful(r, rep)'
            BY <3>1, <3>2, <3>3 DEF Truthful
        <3> QED
            BY <1>2, <3>1, <3>2, <3>3, <3>4, <3>5 DEF Truthful, TInv
    <2>2. CASE CommitTxnReply(q) # Done
        <3>1. UNCHANGED <<nextTxn, txns>>
            BY <1>2, <2>2 DEF CommitTxn
        <3>2. AcidReply(q) = CommitTxnReply(q)
            BY <1>2 DEF AcidReply
        <3>3. CommitTxnReply(q).err # "ok"
            BY <2>2, Zenon DEF CommitTxnReply, Reply
        <3> QED
            BY <3>1, <3>2, <3>3 DEF Truthful, TInv
    <2> QED
        BY <2>1, <2>2
<1>3. CASE q.op = "abort_txn" /\ AbortTxn(q)
    <2>1. /\ nextTxn' = nextTxn /\ DOMAIN txns' = DOMAIN txns
          /\ \A t \in DOMAIN txns : txns'[t] = IF t = q.txn THEN "aborted" ELSE txns[t]
        BY <1>3 DEF AbortTxn
    <2>2. TInv'
        BY <2>1 DEF TInv
    <2>3. \A r, rep : Truthful(r, rep) => Truthful(r, rep)'
        BY <2>1 DEF Truthful
    <2>4. AcidReply(q) = AbortTxnReply(q)
        BY <1>3 DEF AcidReply
    <2>5. AbortTxnReply(q).err = "ok" => q.txn \in DOMAIN txns
        BY DEF AbortTxnReply, Reply
    <2> QED
        BY <1>3, <2>1, <2>2, <2>3, <2>4, <2>5 DEF Truthful
<1>4. CASE q.op \notin {"open_txns", "commit_txn", "abort_txn"}
    <2>1. UNCHANGED <<nextTxn, txns>>
        BY <1>4 DEF AcidStep, Lock, Unlock, avars
    <2> QED
        BY <1>4, <2>1 DEF Truthful, TInv
<1> QED
    BY <1>1, <1>2, <1>3, <1>4 DEF AcidStep

\* The requests a user makes are of the right form.
LEMMA OfferedSized == ASSUME NEW u, NEW r \in Offered(u) PROVE Sized(r)
<1>1. CASE r \in OpenTransaction
    BY <1>1 DEF OpenTransaction, Sized
<1>2. CASE r \in CommitTransaction \/ r \in AbortTransaction \/ r \in Heartbeat(u)
    BY <1>2 DEF CommitTransaction, AbortTransaction, Heartbeat, Request, Sized
<1>3. CASE r \in NewLockRequest(u)
    BY <1>3 DEF NewLockRequest, Sized
<1>4. CASE r \in CheckLock(u) \/ r \in ReleaseLock(u) \/ r \in {Request("get", 0, 0)}
    BY <1>4 DEF CheckLock, ReleaseLock, Request, Sized
<1>5. CASE r \in Alter(u)
    BY <1>5 DEF Alter, Sized
<1> QED
    BY <1>1, <1>2, <1>3, <1>4, <1>5 DEF Offered

\* Messages get lost or go on to the client; none is made up.
Moves ==
    \A c \in Conns : /\ inbox'[c] \subseteq inbox[c]
                     /\ answer'[c] \cup outbox'[c] \subseteq answer[c] \cup outbox[c]

\* What the server does to a connection apart from handling a request.
LEMMA ServerMoves ==
    ASSUME BInv, CInv,
           \/ Serve \/ (\E c \in Conns : HandleConn(c)) \/ (\E s : Stop(s))
    PROVE  CInv' /\ Moves
<1>1. ASSUME UNCHANGED <<inbox, answer, outbox>>, NEW c \in Conns, NEW p,
             phase' = [phase EXCEPT ![c] = p], phase[c] # "write"
      PROVE  CInv' /\ Moves
    BY <1>1 DEF BInv, CInv, Moves
<1>2. ASSUME NEW c \in Conns, NEW p, p # "write", phase[c] # "write",
             phase' = [phase EXCEPT ![c] = p],
             inbox' = [inbox EXCEPT ![c] = {}], UNCHANGED <<answer, outbox>>
      PROVE  CInv' /\ Moves
    BY <1>2, Zenon DEF BInv, CInv, Moves
<1>3. ASSUME UNCHANGED <<inbox, answer, outbox, phase>> PROVE CInv' /\ Moves
    BY <1>3 DEF CInv, Moves
<1>4. CASE AcceptFails
    BY <1>4, <1>3 DEF AcceptFails
<1>5. ASSUME NEW c \in Conns, Accept(c) PROVE CInv' /\ Moves
    <2>1. 1 \in 1 .. Len(backlog) /\ c = backlog[1]
        BY <1>5 DEF Accept, BInv
    <2>2. phase[c] = "backlog"
        BY <2>1 DEF BInv
    <2> QED
        BY <1>5, <2>2, <1>1, Zenon DEF Accept
<1>6. ASSUME NEW c \in Conns, Register(c) PROVE CInv' /\ Moves
    BY <1>6, <1>1, <1>2 DEF Register, Turned, Registered
<1>7. ASSUME NEW c \in Conns, ReadMessageBegin(c) \/ CompareAndSwap(c) PROVE CInv' /\ Moves
    BY <1>7, <1>1, <1>2 DEF ReadMessageBegin, CompareAndSwap, FailInjected, Load, Exit
<1>8. ASSUME NEW c \in Conns, ProcessCut(c) \/ ReadFails(c) PROVE CInv' /\ Moves
    BY <1>8, <1>2 DEF ProcessCut, ReadFails, Exit
<1>9. ASSUME NEW c \in Conns, WriteReply(c) PROVE CInv' /\ Moves
    <2>1. CASE c \notin shut \cup left
        <3>1. /\ phase' = [phase EXCEPT ![c] = "reading"] /\ UNCHANGED inbox
              /\ answer' = [answer EXCEPT ![c] = {}]
              /\ outbox' = [outbox EXCEPT ![c] = answer[c]]
            BY <1>9, <2>1, Zenon DEF WriteReply
        <3> QED
            BY <3>1, Zenon DEF BInv, CInv, Moves
    <2>2. CASE c \in shut \cup left
        <3>1. /\ phase' = [phase EXCEPT ![c] = "none"] /\ UNCHANGED outbox
              /\ answer' = [answer EXCEPT ![c] = {}]
              /\ inbox' = [inbox EXCEPT ![c] = {}]
            BY <1>9, <2>2 DEF WriteReply, Exit
        <3> QED
            BY <3>1, Zenon DEF BInv, CInv, Moves
    <2> QED
        BY <2>1, <2>2
<1>10. ASSUME NEW s, Stop(s) PROVE CInv' /\ Moves
    <2>1. CASE CloseListener(s)
        <3>1. /\ phase' = [c \in Conns |-> IF phase[c] = "backlog" THEN "none" ELSE phase[c]]
              /\ inbox' = [c \in Conns |-> IF phase[c] = "backlog" THEN {} ELSE inbox[c]]
              /\ UNCHANGED <<answer, outbox>>
            BY <2>1 DEF CloseListener
        <3> QED
            BY <3>1 DEF CInv, Moves
    <2>2. CASE ~CloseListener(s)
        BY <1>10, <2>2, <1>3 DEF Stop, SetStopped, CloseConns, Wait
    <2> QED
        BY <2>1, <2>2
<1> QED
    BY <1>4, <1>5, <1>6, <1>7, <1>8, <1>9, <1>10 DEF Serve, HandleConn

\* Steps of the server that handle no request.
LEMMA MovesKeep ==
    ASSUME RInv, BInv', CInv', Moves, UNCHANGED <<uvars, avars>>
    PROVE  RInv'
<1>1. \A r, rep : Truthful(r, rep)' <=> Truthful(r, rep)
    BY DEF Truthful, avars
<1>2. TInv'
    BY DEF RInv, TInv, avars, uvars
<1>3. QInv'
    BY DEF RInv, QInv, Moves, uvars, Sized
<1>4. UInv'
    <2>1. UNCHANGED <<pc, req, cn>>
        BY DEF uvars
    <2>2. ASSUME NEW u \in Users, NEW c \in cn[u]
          PROVE  IF pc[u] = "wait"
                 THEN \A r \in req[u] :
                        /\ inbox'[c] \subseteq {r}
                        /\ \A rep \in answer'[c] \cup outbox'[c] : Truthful(r, rep)'
                 ELSE inbox'[c] = {} /\ answer'[c] = {} /\ outbox'[c] = {}
        <3>1. /\ inbox'[c] \subseteq inbox[c]
              /\ answer'[c] \cup outbox'[c] \subseteq answer[c] \cup outbox[c]
            BY <2>2 DEF RInv, UInv, Moves
        <3>2. CASE pc[u] = "wait"
            BY <2>2, <3>1, <3>2, <1>1 DEF RInv, UInv
        <3>3. CASE pc[u] # "wait"
            BY <2>2, <3>1, <3>3 DEF RInv, UInv
        <3> QED
            BY <3>2, <3>3
    <2> QED
        BY <2>1, <2>2, Zenon DEF RInv, UInv
<1> QED
    BY <1>2, <1>3, <1>4 DEF RInv

\* Handling a request: the reply is for the user who sent it, if it is there.
LEMMA HandleKeeps ==
    ASSUME RInv, BInv', TInv', UNCHANGED uvars,
           NEW c \in Conns, NEW q \in inbox[c], NEW rep, Process(c, rep), Truthful(q, rep)',
           \A r, x : Truthful(r, x) => Truthful(r, x)'
    PROVE  RInv'
<1>1. /\ inbox' = [inbox EXCEPT ![c] = {}]
      /\ answer' = [answer EXCEPT ![c] = {rep}]
      /\ phase' = [phase EXCEPT ![c] = "write"]
      /\ UNCHANGED <<outbox, pc, req, cn>>
    BY DEF Process, uvars
<1>2. outbox[c] = {}
    BY DEF RInv, CInv
<1>3. CInv'
    BY <1>1, <1>2, Zenon DEF RInv, CInv, BInv
<1>4. QInv'
    BY <1>1 DEF RInv, QInv, CInv, Sized
<1>5. ASSUME NEW u \in Users, NEW d \in cn[u]
      PROVE  IF pc[u] = "wait"
             THEN \A r \in req[u] :
                    /\ inbox'[d] \subseteq {r}
                    /\ \A x \in answer'[d] \cup outbox'[d] : Truthful(r, x)'
             ELSE inbox'[d] = {} /\ answer'[d] = {} /\ outbox'[d] = {}
    <2>1. d \in Conns
        BY <1>5 DEF RInv, UInv
    <2>2. CASE d # c
        <3>1. inbox'[d] = inbox[d] /\ answer'[d] = answer[d] /\ outbox'[d] = outbox[d]
            BY <1>1, <2>1, <2>2, Zenon DEF RInv, CInv
        <3> QED
            BY <3>1, <1>5 DEF RInv, UInv
    <2>3. CASE d = c
        <3>1. pc[u] = "wait" /\ \A r \in req[u] : r = q
            BY <1>5, <2>3 DEF RInv, UInv
        <3>2. inbox'[d] = {} /\ answer'[d] = {rep} /\ outbox'[d] = {}
            BY <1>1, <1>2, <2>3 DEF RInv, CInv
        <3> QED
            BY <3>1, <3>2, Zenon
    <2> QED
        BY <2>2, <2>3, Zenon
<1>6. UInv'
    BY <1>1, <1>5, Zenon DEF RInv, UInv
<1> QED
    BY <1>3, <1>4, <1>6, Zenon DEF RInv

\* What a user is told by a true reply is true.
LEMMA LearnsTruth ==
    ASSUME TInv, UNCHANGED avars, NEW u \in Users, NEW r, req[u] = {r}, NEW rep, Learns(u, rep),
           rep # {} => Truthful(r, The(rep))
    PROVE  TInv'
<1>1. The(req[u]) = r
    BY TheOne, Zenon
<1> DEFINE ok == rep # {} /\ The(rep).err = "ok"
<1>2. told' = told \cup (IF ~ok THEN {}
                        ELSE IF r.op = "commit_txn" THEN {<<r.txn, "committed">>}
                        ELSE IF r.op = "abort_txn" THEN {<<r.txn, "aborted">>}
                        ELSE {})
    BY <1>1 DEF Learns
<1>3. UNCHANGED <<nextTxn, txns>>
    BY Zenon DEF avars
<1>4. ASSUME NEW t, <<t, "committed">> \in told'
      PROVE  t \in 1 .. nextTxn /\ t \notin DOMAIN txns
    BY <1>2, <1>4, Zenon DEF TInv, Truthful
<1>5. ASSUME NEW t, <<t, "aborted">> \in told'
      PROVE  t \in DOMAIN txns /\ txns[t] = "aborted"
    BY <1>2, <1>5, Zenon DEF TInv, Truthful
<1> QED
    BY <1>3, <1>4, <1>5, Zenon DEF TInv

\* A call that ends leaves its connection quiet or gives it up.
LEMMA EndKeeps ==
    ASSUME RInv, BInv', TInv', UNCHANGED avars, NEW u \in Users,
           pc' = [pc EXCEPT ![u] = "idle"], req' = [req EXCEPT ![u] = {}],
           UNCHANGED <<phase, inbox, answer>>,
           \/ UNCHANGED outbox
           \/ \E c \in cn[u] : outbox' = [outbox EXCEPT ![c] = {}],
           \/ cn' = [cn EXCEPT ![u] = {}]
           \/ /\ UNCHANGED cn
              /\ \A c \in cn[u] : inbox[c] = {} /\ answer[c] = {} /\ outbox'[c] = {}
    PROVE  RInv'
<1>1. \A r, x : Truthful(r, x)' <=> Truthful(r, x)
    BY DEF Truthful, avars
<1>2. /\ outbox' = [c \in Conns |-> outbox'[c]]
      /\ \A c \in Conns : outbox'[c] \subseteq outbox[c]
      /\ \A c \in Conns : c \notin cn[u] => outbox'[c] = outbox[c]
    BY DEF RInv, CInv, UInv
<1>3. CInv'
    BY <1>2 DEF RInv, CInv
<1>4. QInv'
    BY DEF RInv, QInv, UInv, Sized
<1>5. \A v \in Users : v # u => pc'[v] = pc[v] /\ req'[v] = req[v] /\ cn'[v] = cn[v]
    BY Zenon DEF RInv, UInv
<1>6. pc'[u] = "idle" /\ cn'[u] \subseteq cn[u]
    BY DEF RInv, UInv
<1>7. ASSUME NEW v \in Users, NEW c \in cn'[v]
      PROVE  IF pc'[v] = "wait"
             THEN \A r \in req'[v] :
                    /\ inbox'[c] \subseteq {r}
                    /\ \A x \in answer'[c] \cup outbox'[c] : Truthful(r, x)'
             ELSE inbox'[c] = {} /\ answer'[c] = {} /\ outbox'[c] = {}
    <2>1. CASE v = u
        <3>1. cn' = [cn EXCEPT ![u] = {}] => cn'[u] = {}
            BY DEF RInv, UInv
        <3>2. UNCHANGED cn /\ inbox[c] = {} /\ answer[c] = {} /\ outbox'[c] = {}
            BY <2>1, <3>1, <1>7
        <3> QED
            BY <2>1, <3>2, <1>6, Zenon
    <2>2. CASE v # u
        <3>1. c \in cn[v] /\ c \in Conns /\ c \notin cn[u]
            BY <2>2, <1>5, <1>7 DEF RInv, UInv
        <3>2. outbox'[c] = outbox[c]
            BY <3>1, <1>2
        <3> QED
            BY <2>2, <3>1, <3>2, <1>1, <1>5, Zenon DEF RInv, UInv
    <2> QED
        BY <2>1, <2>2
<1>8. UInv'
    <2>1. /\ pc' = [v \in Users |-> pc'[v]] /\ req' = [v \in Users |-> req'[v]]
          /\ cn' = [v \in Users |-> cn'[v]]
        BY Zenon DEF RInv, UInv
    <2>2. \A v \in Users : cn'[v] \subseteq cn[v]
        BY <1>5, <1>6
    <2>3. \A v \in Users : pc'[v] # "idle" => \E r : req'[v] = {r}
        BY <1>5, <1>6, Zenon DEF RInv, UInv
    <2>4. \A v \in Users : cn'[v] \subseteq Conns /\ \A d, e \in cn'[v] : d = e
        BY <2>2 DEF RInv, UInv
    <2>5. \A v, w \in Users : \A d \in cn'[v] : d \in cn'[w] => v = w
        BY <2>2 DEF RInv, UInv
    <2> QED
        BY <2>1, <2>3, <2>4, <2>5, <1>7, Zenon DEF UInv
<1> QED
    BY <1>3, <1>4, <1>8, Zenon DEF RInv

\* A call that begins, or goes on, puts its request on a quiet connection.
LEMMA SendKeeps ==
    ASSUME RInv, BInv', UNCHANGED <<avars, answer, told>>, NEW u \in Users, NEW r, Sized(r),
           req' = [req EXCEPT ![u] = {r}], pc' = [pc EXCEPT ![u] = "wait"],
           NEW c \in Conns, cn' = [cn EXCEPT ![u] = {c}], \A v \in Users : c \in cn[v] => v = u,
           answer[c] = {}, \A d \in Conns : d # c => phase'[d] = phase[d],
           NEW i \in {{}, {r}}, inbox' = [inbox EXCEPT ![c] = i],
           outbox' = [outbox EXCEPT ![c] = {}]
    PROVE  RInv'
<1>1. \A q, x : Truthful(q, x)' <=> Truthful(q, x)
    BY DEF Truthful, avars
<1>2. TInv'
    BY Zenon DEF RInv, TInv, avars
<1>3. /\ inbox'[c] = i /\ answer'[c] = {} /\ outbox'[c] = {}
      /\ \A d \in Conns : d # c => inbox'[d] = inbox[d] /\ outbox'[d] = outbox[d]
    BY DEF RInv, CInv
<1>4. CInv'
    <2>1. inbox' = [d \in Conns |-> inbox'[d]] /\ outbox' = [d \in Conns |-> outbox'[d]]
        BY Zenon DEF RInv, CInv
    <2> QED
        BY <1>3, <2>1 DEF RInv, CInv
<1>5. /\ pc'[u] = "wait" /\ req'[u] = {r} /\ cn'[u] = {c}
      /\ \A v \in Users : v # u => pc'[v] = pc[v] /\ req'[v] = req[v] /\ cn'[v] = cn[v]
    BY DEF RInv, UInv
<1>6. QInv'
    <2>1. \A d \in Conns : \A q \in inbox'[d] : q = r \/ q \in inbox[d]
        BY <1>3, Zenon
    <2>2. \A v \in Users : \A q \in req'[v] : q = r \/ q \in req[v]
        BY <1>5, Zenon
    <2> QED
        BY <2>1, <2>2 DEF RInv, QInv, Sized
<1>7. ASSUME NEW v \in Users, NEW d \in cn'[v]
      PROVE  IF pc'[v] = "wait"
             THEN \A q \in req'[v] :
                    /\ inbox'[d] \subseteq {q}
                    /\ \A x \in answer'[d] \cup outbox'[d] : Truthful(q, x)'
             ELSE inbox'[d] = {} /\ answer'[d] = {} /\ outbox'[d] = {}
    <2>1. CASE v = u
        <3>1. pc'[v] = "wait" /\ req'[v] = {r} /\ d = c
            BY <2>1, <1>5, <1>7
        <3>2. inbox'[d] \subseteq {r} /\ answer'[d] \cup outbox'[d] = {}
            BY <3>1, <1>3
        <3> QED
            BY <3>1, <3>2
    <2>2. CASE v # u
        <3>0. d \in cn[v]
            BY <2>2, <1>5, <1>7, Zenon
        <3>1. d \in cn[v] /\ d \in Conns /\ d # c
            BY <2>2, <3>0 DEF RInv, UInv
        <3>2. inbox'[d] = inbox[d] /\ answer'[d] = answer[d] /\ outbox'[d] = outbox[d]
            BY <3>1, <1>3
        <3>3. pc'[v] = pc[v] /\ req'[v] = req[v]
            BY <2>2, <1>5
        <3> QED
            BY <3>1, <3>2, <3>3, <1>1, Zenon DEF RInv, UInv
    <2> QED
        BY <2>1, <2>2, Zenon
<1>8. UInv'
    <2>1. /\ pc' = [v \in Users |-> pc'[v]] /\ req' = [v \in Users |-> req'[v]]
          /\ cn' = [v \in Users |-> cn'[v]]
        BY Zenon DEF RInv, UInv
    <2>2. ASSUME NEW v \in Users PROVE cn'[v] \subseteq Conns /\ \A d, e \in cn'[v] : d = e
        <3>1. CASE v = u
            BY <3>1, <1>5
        <3>2. CASE v # u
            BY <3>2, <1>5 DEF RInv, UInv
        <3> QED
            BY <3>1, <3>2
    <2>3. ASSUME NEW v \in Users, NEW w \in Users, NEW d \in cn'[v], d \in cn'[w] PROVE v = w
        <3>1. CASE v = u \/ w = u
            <4>1. d = c
                BY <2>3, <3>1, <1>5
            <4>2. \A x \in Users : x # u => c \notin cn'[x]
                BY <1>5
            <4> QED
                BY <2>3, <3>1, <4>1, <4>2
        <3>2. CASE v # u /\ w # u
            <4>1. d \in cn[v] /\ d \in cn[w]
                BY <2>3, <3>2, <1>5
            <4> QED
                BY <4>1 DEF RInv, UInv
        <3> QED
            BY <3>1, <3>2
    <2>4. \A v \in Users : pc'[v] # "idle" => \E q : req'[v] = {q}
        BY <1>5, Zenon DEF RInv, UInv
    <2> QED
        BY <2>1, <2>2, <2>3, <2>4, <1>7, Zenon DEF UInv
<1> QED
    BY <1>2, <1>4, <1>6, <1>8, Zenon DEF RInv

\* A call that has no connection, or loses it, waits to dial.
LEMMA DialKeeps ==
    ASSUME RInv, BInv', UNCHANGED <<avars, phase, inbox, answer, told>>, NEW u \in Users,
           NEW r, Sized(r), req' = [req EXCEPT ![u] = {r}], pc' = [pc EXCEPT ![u] = "dial"],
           cn' = [cn EXCEPT ![u] = {}],
           \/ UNCHANGED outbox
           \/ \E c \in cn[u] : outbox' = [outbox EXCEPT ![c] = {}]
    PROVE  RInv'
<1>1. \A q, x : Truthful(q, x)' <=> Truthful(q, x)
    BY DEF Truthful, avars
<1>2. TInv'
    BY DEF RInv, TInv, avars
<1>3. /\ outbox' = [c \in Conns |-> outbox'[c]]
      /\ \A c \in Conns : outbox'[c] \subseteq outbox[c]
      /\ \A c \in Conns : c \notin cn[u] => outbox'[c] = outbox[c]
    BY DEF RInv, CInv, UInv
<1>4. CInv'
    BY <1>3 DEF RInv, CInv
<1>5. /\ pc'[u] = "dial" /\ req'[u] = {r} /\ cn'[u] = {}
      /\ \A v \in Users : v # u => pc'[v] = pc[v] /\ req'[v] = req[v] /\ cn'[v] = cn[v]
    BY DEF RInv, UInv
<1>6. QInv'
    BY <1>5 DEF RInv, QInv, Sized
<1>7. ASSUME NEW v \in Users, NEW d \in cn'[v]
      PROVE  IF pc'[v] = "wait"
             THEN \A q \in req'[v] :
                    /\ inbox'[d] \subseteq {q}
                    /\ \A x \in answer'[d] \cup outbox'[d] : Truthful(q, x)'
             ELSE inbox'[d] = {} /\ answer'[d] = {} /\ outbox'[d] = {}
    <2>1. v # u
        BY <1>5, <1>7
    <2>2. d \in cn[v] /\ d \in Conns /\ d \notin cn[u]
        BY <2>1, <1>5, <1>7 DEF RInv, UInv
    <2>3. outbox'[d] = outbox[d]
        BY <2>2, <1>3
    <2> QED
        BY <2>1, <2>2, <2>3, <1>1, <1>5, Zenon DEF RInv, UInv
<1>8. UInv'
    <2>1. /\ pc' = [v \in Users |-> pc'[v]] /\ req' = [v \in Users |-> req'[v]]
          /\ cn' = [v \in Users |-> cn'[v]]
        BY Zenon DEF RInv, UInv
    <2>2. \A v \in Users : cn'[v] \subseteq cn[v]
        BY <1>5
    <2>3. \A v \in Users : pc'[v] # "idle" => \E q : req'[v] = {q}
        BY <1>5, Zenon DEF RInv, UInv
    <2>4. \A v \in Users : cn'[v] \subseteq Conns /\ \A d, e \in cn'[v] : d = e
        BY <2>2 DEF RInv, UInv
    <2>5. \A v, w \in Users : \A d \in cn'[v] : d \in cn'[w] => v = w
        BY <2>2 DEF RInv, UInv
    <2> QED
        BY <2>1, <2>3, <2>4, <2>5, <1>7 DEF UInv
<1> QED
    BY <1>2, <1>4, <1>6, <1>8 DEF RInv

\* Every step of a user is one of these.
LEMMA UserKeeps ==
    ASSUME RInv, BInv', NEW u \in Users, User(u)
    PROVE  RInv'
<1>1. CASE Call(u)
    <2>1. PICK r \in Offered(u) :
            /\ NewCall(u, r)
            /\ \/ cn[u] = {} /\ pc' = [pc EXCEPT ![u] = "dial"] /\ UNCHANGED svars
               \/ \E c \in cn[u] : Send(c, r) /\ pc' = [pc EXCEPT ![u] = "wait"]
        BY <1>1, Zenon DEF Call
    <2>2. /\ Sized(r) /\ req' = [req EXCEPT ![u] = {r}] /\ pc[u] = "idle"
          /\ UNCHANGED <<avars, cn, told>>
        BY <1>1, <2>1, OfferedSized, Zenon DEF Call, NewCall
    <2>3. CASE cn[u] = {} /\ pc' = [pc EXCEPT ![u] = "dial"] /\ UNCHANGED svars
        <3>1. cn' = [cn EXCEPT ![u] = {}]
            BY <2>2, <2>3, Zenon DEF RInv, UInv
        <3> QED
            BY <2>2, <2>3, <3>1, DialKeeps, Zenon DEF svars
    <2>4. ASSUME NEW c \in cn[u], Send(c, r), pc' = [pc EXCEPT ![u] = "wait"]
          PROVE  RInv'
        <3>1. /\ c \in Conns /\ \A v \in Users : c \in cn[v] => v = u
              /\ inbox[c] = {} /\ answer[c] = {} /\ outbox[c] = {}
            BY <2>2, <2>4 DEF RInv, UInv
        <3>2. cn[u] = {c}
            BY <2>4 DEF RInv, UInv
        <3>3. cn' = [cn EXCEPT ![u] = {c}]
            BY <2>2, <3>2, Zenon DEF RInv, UInv
        <3>4. outbox' = [outbox EXCEPT ![c] = {}]
            BY <2>4, <3>1, Zenon DEF Send, RInv, CInv
        <3>5. PICK i \in {{}, {r}} : inbox' = [inbox EXCEPT ![c] = i]
            BY <2>4, Zenon DEF Send
        <3>6. UNCHANGED <<avars, answer, told>> /\ UNCHANGED phase
            BY <2>2, <2>4, Zenon DEF Send
        <3>7. \A d \in Conns : d # c => phase'[d] = phase[d]
            BY <3>6
        <3> QED
            BY <2>2, <2>4, <3>1, <3>3, <3>4, <3>5, <3>6, <3>7, SendKeeps, Zenon
    <2> QED
        BY <2>1, <2>3, <2>4, Zenon
<1>2. CASE Dial(u)
    <2>1. PICK c \in Free : Connect(c, The(req[u])) /\ cn' = [cn EXCEPT ![u] = {c}]
        BY <1>2, Zenon DEF Dial
    <2>2. PICK r : req[u] = {r}
        BY <1>2, Zenon DEF Dial, RInv, UInv
    <2>3. The(req[u]) = r /\ Sized(r)
        BY <2>2, TheOne DEF RInv, QInv
    <2>4. req' = [req EXCEPT ![u] = {r}]
        BY <1>2, <2>2, Zenon DEF Dial, RInv, UInv
    <2>5. c \in Conns /\ phase[c] = "none" /\ \A v \in Users : c \notin cn[v]
        BY <2>1 DEF Free
    <2>6. answer[c] = {}
        BY <2>5 DEF RInv, CInv
    <2>7. \A d \in Conns : d # c => phase'[d] = phase[d]
        BY <2>1, <2>5, Zenon DEF Connect, RInv, BInv
    <2>8. /\ inbox' = [inbox EXCEPT ![c] = {r}] /\ outbox' = [outbox EXCEPT ![c] = {}]
          /\ pc' = [pc EXCEPT ![u] = "wait"] /\ UNCHANGED <<avars, answer, told>>
        BY <1>2, <2>1, <2>3, Zenon DEF Connect, Dial
    <2> QED
        BY <2>1, <2>3, <2>4, <2>5, <2>6, <2>7, <2>8, SendKeeps, Zenon
<1>3. CASE GivesUp(u)
    <2>1. PICK r : req[u] = {r}
        BY <1>3 DEF GivesUp, RInv, UInv
    <2>2. TInv'
        BY <1>3, <2>1, LearnsTruth, Zenon DEF GivesUp, RInv
    <2>3. \A c \in cn[u] : inbox[c] = {} /\ answer[c] = {} /\ outbox[c] = {}
        BY <1>3 DEF GivesUp, RInv, UInv
    <2> QED
        BY <1>3, <2>2, <2>3, EndKeeps, Zenon DEF GivesUp, Learns, svars
<1>4. CASE Returns(u)
    <2>1. PICK c \in cn[u] : Receive(c) /\ Learns(u, outbox[c])
        BY <1>4 DEF Returns
    <2>2. PICK r : req[u] = {r}
        BY <1>4, Zenon DEF Returns, RInv, UInv
    <2>3. outbox[c] # {} /\ The(outbox[c]) \in outbox[c]
        BY <2>1, Zenon DEF Receive, The
    <2>4. Truthful(r, The(outbox[c]))
        BY <1>4, <2>1, <2>2, <2>3 DEF Returns, RInv, UInv
    <2>5. UNCHANGED <<avars, cn>>
        BY <1>4 DEF Returns
    <2>6. TInv'
        BY <2>1, <2>2, <2>4, <2>5, LearnsTruth DEF RInv
    <2>7. c \in Conns /\ \A d \in cn[u] : d = c
        BY <2>1 DEF RInv, UInv
    <2>8. inbox[c] = {} /\ answer[c] = {} /\ outbox'[c] = {}
        BY <2>1, <2>3, <2>7 DEF Receive, RInv, CInv
    <2>9. /\ pc' = [pc EXCEPT ![u] = "idle"] /\ req' = [req EXCEPT ![u] = {}]
          /\ UNCHANGED <<phase, inbox, answer>> /\ outbox' = [outbox EXCEPT ![c] = {}]
        BY <2>1 DEF Receive, Learns
    <2> QED
        BY <2>5, <2>6, <2>7, <2>8, <2>9, EndKeeps, Zenon
<1>5. ASSUME Learns(u, {}), NEW c \in cn[u], Leave(c), cn' = [cn EXCEPT ![u] = {}],
             pc[u] = "wait", UNCHANGED avars
      PROVE  RInv'
    <2>1. PICK r : req[u] = {r}
        BY <1>5, Zenon DEF RInv, UInv
    <2>2. TInv'
        BY <1>5, <2>1, LearnsTruth, Zenon DEF RInv
    <2> QED
        BY <1>5, <2>2, EndKeeps, Zenon DEF Leave, Learns
<1>6. CASE ReplyLost(u)
    <2>1. PICK c \in cn[u] : Leave(c)
        BY <1>6, Zenon DEF ReplyLost
    <2>2. CASE Learns(u, {})
        BY <1>5, <1>6, <2>1, <2>2, Zenon DEF ReplyLost
    <2>3. CASE pc' = [pc EXCEPT ![u] = "dial"] /\ UNCHANGED <<req, tries, known, copy, told>>
        <3>1. PICK r : req[u] = {r}
            BY <1>6, Zenon DEF ReplyLost, RInv, UInv
        <3>2. Sized(r)
            BY <3>1 DEF RInv, QInv
        <3>3. req' = [req EXCEPT ![u] = {r}]
            BY <2>3, <3>1, Zenon DEF RInv, UInv
        <3> QED
            BY <1>6, <2>1, <2>3, <3>2, <3>3, DialKeeps, Zenon DEF ReplyLost, Leave
    <2> QED
        BY <1>6, <2>2, <2>3, Zenon DEF ReplyLost
<1>7. CASE Cancelled(u)
    BY <1>5, <1>7 DEF Cancelled
<1> QED
    BY <1>1, <1>2, <1>3, <1>4, <1>6, <1>7 DEF User

\* RInv is inductive.
LEMMA RepliesStep == RInv /\ [Next]_vars => RInv'
<1> SUFFICES ASSUME RInv, [Next]_vars PROVE RInv'
    OBVIOUS
<1>1. BInv'
    BY BacklogStep DEF RInv
<1>2. ASSUME NEW u \in Users, User(u) PROVE RInv'
    BY <1>1, <1>2, UserKeeps
<1>3. ASSUME Serve \/ (\E c \in Conns : HandleConn(c)) \/ (\E s : Stop(s)),
             UNCHANGED <<uvars, avars>>
      PROVE  RInv'
    BY <1>1, <1>3, ServerMoves, MovesKeep DEF RInv
<1>4. ASSUME NEW c \in Conns, Handle(c) PROVE RInv'
    <2>1. PICK q \in inbox[c] : HandlesAcid(c, q) \/ GetObject(c, q) \/ AlterObject(c, q)
        BY <1>4 DEF Handle
    <2>2. UNCHANGED uvars /\ UNCHANGED told
        BY <1>4 DEF Handle, uvars
    <2>3. CASE HandlesAcid(c, q)
        <3>1. TInv /\ Sized(q) /\ AcidStep(q) /\ Process(c, AcidReply(q))
            BY <2>3 DEF HandlesAcid, RInv, QInv
        <3>2. /\ TInv'
              /\ \A r, rep : Truthful(r, rep) => Truthful(r, rep)'
              /\ \A rep : rep = AcidReply(q) => Truthful(q, rep)'
            BY <2>2, <3>1, AcidKeeps
        <3>3. PICK rep : rep = AcidReply(q)
            OBVIOUS
        <3> QED
            BY <1>1, <2>2, <3>1, <3>2, <3>3, HandleKeeps
    <2>4. CASE GetObject(c, q) \/ AlterObject(c, q)
        <3>1. PICK rep : Process(c, rep)
            BY <2>4 DEF GetObject, AlterObject
        <3>2. UNCHANGED avars /\ q.op \notin {"commit_txn", "abort_txn"}
            BY <2>4 DEF GetObject, AlterObject
        <3>3. TInv' /\ \A r, x : Truthful(r, x) => Truthful(r, x)'
            BY <2>2, <3>2 DEF RInv, TInv, Truthful, avars
        <3>4. Truthful(q, rep)'
            BY <3>2 DEF Truthful
        <3> QED
            BY <1>1, <2>2, <3>1, <3>3, <3>4, HandleKeeps
    <2> QED
        BY <2>1, <2>3, <2>4
<1>5. ASSUME NEW c \in Conns, Goroutine(c) PROVE RInv'
    BY <1>3, <1>4, <1>5 DEF Goroutine
<1>6. CASE Accepting
    BY <1>3, <1>6 DEF Accepting
<1>7. ASSUME NEW s, Stopping(s) PROVE RInv'
    BY <1>3, <1>7 DEF Stopping
<1>8. CASE UNCHANGED vars
    <2>1. UNCHANGED <<uvars, avars>> /\ UNCHANGED svars
        BY <1>8 DEF vars
    <2>2. CInv' /\ Moves
        BY <2>1 DEF RInv, CInv, Moves, svars
    <2> QED
        BY <1>1, <2>1, <2>2, MovesKeep
<1> QED
    BY <1>2, <1>5, <1>6, <1>7, <1>8, Zenon DEF Next

\* Nothing has been said at first.
LEMMA InitReplies == Init => RInv
<1> SUFFICES ASSUME Init PROVE RInv
    OBVIOUS
<1>1. BInv
    BY InitBacklog
<1>2. CInv
    BY DEF Init, NewServer, CInv
<1>3. UInv
    BY Zenon DEF Init, UInv
<1>4. QInv
    BY DEF Init, NewServer, QInv
<1>5. nextTxn = 0 /\ told = {} /\ txns = <<>>
    BY Zenon DEF Init, NewAcidState
<1>6. TInv
    <2>1. DOMAIN txns = {}
        BY <1>5
    <2> QED
        BY <1>5, <2>1 DEF TInv
<1> QED
    BY <1>1, <1>2, <1>3, <1>4, <1>6 DEF RInv

\* What CommitTransaction or AbortTransaction reported stays true, for any users,
\* connections and requests, however replies are lost and handlers run late.
THEOREM DecisionsStand == Spec => []TxnDecided
<1>1. RInv => TxnDecided
    BY Zenon DEF RInv, TInv, TxnDecided
<1> QED
    BY <1>1, InitReplies, RepliesStep, PTL DEF Spec

-----------------------------------------------------------------------------
(* Conversions                                                             *)

\* A set of at most one element is empty or a singleton.
LEMMA OptionCases ==
    ASSUME NEW o, IsOption(o)
    PROVE  o = {} \/ \E x : o = {x}
    BY DEF IsOption

\* A SerDe goes out as it came in, over its own snapshot, but that an empty map
\* comes out unset.
LEMMA SerDeTrip ==
    ASSUME NEW s, IsSerDe(s)
    PROVE  LET out == SerDeToThrift(SerDeFromThrift(s), s)
           IN  IsSerDe(out) /\ NormalSerDe(out) = NormalSerDe(s)
<1> DEFINE out == SerDeToThrift(SerDeFromThrift(s), s)
<1>1. CASE s = {}
    BY <1>1 DEF SerDeToThrift, SerDeFromThrift, IsSerDe, IsOption
<1>2. ASSUME NEW l, NEW p, NEW h, s = {[lib |-> l, params |-> p, hidden |-> h]}
      PROVE  IsSerDe(out) /\ NormalSerDe(out) = NormalSerDe(s)
    <2>1. SerDeFromThrift(s) = {[lib |-> l, params |-> p \ {{}}]}
        BY <1>2 DEF SerDeFromThrift, CopyMap
    <2>2. The(s) = [lib |-> l, params |-> p, hidden |-> h] /\ s # {}
        BY <1>2, TheOne, Zenon
    <2>3. out = {[lib |-> l, params |-> p \ {{}}, hidden |-> h]}
        BY <2>1, <2>2 DEF SerDeToThrift, CopyMap
    <2>4. IsSerDe(out)
        BY <2>3 DEF IsSerDe, IsOption
    <2>5. NormalSerDe(s) = {[lib |-> l, params |-> p \ {{}}, hidden |-> h]}
        BY <1>2 DEF NormalSerDe, CopyMap
    <2>6. NormalSerDe(out) = {[lib |-> l, params |-> p \ {{}}, hidden |-> h]}
        BY <2>3 DEF NormalSerDe, CopyMap
    <2> QED
        BY <2>4, <2>5, <2>6
<1>3. s = {} \/ \E x : s = {x}
    BY OptionCases DEF IsSerDe
<1>4. ASSUME NEW x, s = {x} PROVE \E l, p, h : s = {[lib |-> l, params |-> p, hidden |-> h]}
    BY <1>4 DEF IsSerDe
<1> HIDE DEF out
<1> QED
    BY <1>1, <1>2, <1>3, <1>4, Zenon DEF out

\* So does a storage descriptor; its flag comes out unset where it was FALSE.
LEMMA StorageTrip ==
    ASSUME NEW sd, IsStorage(sd)
    PROVE  LET out == StorageToThrift(StorageFromThrift(sd), sd)
           IN  IsStorage(out) /\ NormalStorage(out) = NormalStorage(sd)
<1> DEFINE out == StorageToThrift(StorageFromThrift(sd), sd)
<1>1. CASE sd = {}
    BY <1>1 DEF StorageToThrift, StorageFromThrift, IsStorage, IsOption
<1>2. ASSUME NEW l, NEW s, NEW f, sd = {[location |-> l, serde |-> s, subdirs |-> f]}
      PROVE  IsStorage(out) /\ NormalStorage(out) = NormalStorage(sd)
    <2> DEFINE serde == SerDeToThrift(SerDeFromThrift(s), s)
               flag == IF f = {TRUE} THEN {TRUE} ELSE {}
    <2>1. f \in {{}, {TRUE}, {FALSE}} /\ IsSerDe(s)
        BY <1>2, Zenon DEF IsStorage
    <2>2. IsSerDe(serde) /\ NormalSerDe(serde) = NormalSerDe(s)
        BY <2>1, SerDeTrip
    <2>3. flag \ {FALSE} = f \ {FALSE} /\ flag \in {{}, {TRUE}, {FALSE}}
        BY <2>1, Zenon
    <2>4. UNION {b.serde : b \in sd} = s
        BY <1>2
    <2> DEFINE on == f = {TRUE}
               x == [location |-> l, serde |-> s, subdirs |-> f]
               y == [location |-> l, serde |-> SerDeFromThrift(s), subdirs |-> on]
               z == [location |-> l, serde |-> serde, subdirs |-> flag]
    <2>5. StorageFromThrift(sd) = {y}
        <3>1. x.location = l /\ x.serde = s /\ x.subdirs = f
            OBVIOUS
        <3> HIDE DEF x
        <3> QED
            BY <1>2, <3>1, Zenon DEF StorageFromThrift, x
    <2>6. out = {z}
        <3>1. y.location = l /\ y.serde = SerDeFromThrift(s) /\ (y.subdirs <=> f = {TRUE})
            BY Zenon
        <3>2. (IF y.subdirs THEN {TRUE} ELSE {}) = flag
            BY <3>1, Zenon
        <3> HIDE DEF y, flag
        <3> QED
            BY <2>4, <2>5, <3>1, <3>2, Zenon DEF StorageToThrift
    <2> HIDE DEF serde, flag, out
    <2>7. IsStorage({z})
        <3>1. z.subdirs = flag /\ z.serde = serde /\ z.location = l
            BY Zenon
        <3>2. z = [location |-> z.location, serde |-> z.serde, subdirs |-> z.subdirs]
            BY <3>1, Zenon
        <3> HIDE DEF z
        <3>3. IsOption({z}) /\ \A v \in {z} : v = z
            BY Zenon DEF IsOption
        <3> QED
            BY <2>2, <2>3, <3>1, <3>2, <3>3, Zenon DEF IsStorage
    <2> DEFINE off == {FALSE}
               Plain(v) == [location |-> v.location, serde |-> NormalSerDe(v.serde),
                            subdirs |-> v.subdirs \ off]
    <2>8. flag \ off = f \ off
        BY <2>3, Zenon
    <2> HIDE DEF off
    <2>9. Plain(x) = [location |-> l, serde |-> NormalSerDe(s), subdirs |-> f \ off]
        OBVIOUS
    <2>10. Plain(z) = [location |-> l, serde |-> NormalSerDe(serde), subdirs |-> flag \ off]
        OBVIOUS
    <2>11. Plain(x) = Plain(z)
        BY <2>2, <2>8, <2>9, <2>10
    <2> HIDE DEF x, z
    <2>12. NormalStorage({x}) = {Plain(x)} /\ NormalStorage({z}) = {Plain(z)}
        BY Zenon DEF NormalStorage, off
    <2> QED
        BY <1>2, <2>6, <2>7, <2>11, <2>12, Zenon DEF x
<1>3. sd = {} \/ \E x : sd = {x}
    BY OptionCases DEF IsStorage
<1>4. ASSUME NEW x, sd = {x}
      PROVE  \E l, s, f : sd = {[location |-> l, serde |-> s, subdirs |-> f]}
    BY <1>4 DEF IsStorage
<1> HIDE DEF out
<1> QED
    BY <1>1, <1>2, <1>3, <1>4, Zenon DEF out

\* What a table is written as once its params and creation time have been set.
LEMMA TableWritten ==
    ASSUME NEW t, IsTable(t), NEW P, NEW C, NEW o,
           o = [owner |-> t.owner, ownerType |-> t.ownerType, created |-> C, params |-> P,
                storage |-> StorageFromThrift(t.sd), cat |-> Deref(t.cat, "hive"), raw |-> {t}]
    PROVE  TableToThriftFrom(o, {o.cat}) =
               [owner |-> t.owner, ownerType |-> t.ownerType, created |-> Unix32FromTime(C),
                params |-> CopyMap(P), sd |-> StorageToThrift(StorageFromThrift(t.sd), t.sd),
                cat |-> {Deref(t.cat, "hive")}, hidden |-> t.hidden]
<1>1. /\ o.owner = t.owner /\ o.ownerType = t.ownerType /\ o.created = C /\ o.params = P
      /\ o.storage = StorageFromThrift(t.sd) /\ o.cat = Deref(t.cat, "hive") /\ o.raw = {t}
    OBVIOUS
<1>2. Deref(o.raw, NewTable) = t
    BY <1>1, TheOne, Zenon DEF Deref
<1>3. t = [owner |-> t.owner, ownerType |-> t.ownerType, created |-> t.created,
           params |-> t.params, sd |-> t.sd, cat |-> t.cat, hidden |-> t.hidden]
      /\ t.ownerType # 0
    BY DEF IsTable
<1>4. TableToThriftFrom(o, {o.cat}) =
        [t EXCEPT !.owner = t.owner, !.ownerType = t.ownerType,
                  !.created = Unix32FromTime(C), !.params = CopyMap(P),
                  !.sd = StorageToThrift(StorageFromThrift(t.sd), t.sd),
                  !.cat = {Deref(t.cat, "hive")}]
    BY <1>1, <1>2, <1>3, Zenon DEF TableToThriftFrom, FillTable
<1> QED
    BY <1>3, <1>4, Zenon

\* A time of 32 bits comes out as it went in; a later one is cut off.
LEMMA TimeTrip ==
    /\ \A n : IsInt32(n) => Unix32FromTime(TimeFromUnix32(n)) = n
    /\ Unix32FromTime({Far}) = MaxInt32
    /\ IsInt32(MaxInt32)
<1>1. MaxInt32 \in Nat /\ MinInt32 = -MaxInt32 - 1 /\ Far > MaxInt32
    BY ConvertAssumption, SessionsAssumption DEF MinInt32
<1>2. ASSUME NEW n, IsInt32(n) PROVE Unix32FromTime(TimeFromUnix32(n)) = n
    <2>1. CASE n = 0
        BY <2>1 DEF TimeFromUnix32, Unix32FromTime
    <2>2. CASE n # 0
        <3>1. TimeFromUnix32(n) = {n} /\ The({n}) = n
            BY <2>2, TheOne DEF TimeFromUnix32
        <3> QED
            BY <1>1, <1>2, <3>1 DEF Unix32FromTime, IsInt32
    <2> QED
        BY <2>1, <2>2
<1>3. Unix32FromTime({Far}) = MaxInt32
    BY <1>1, TheOne, Zenon DEF Unix32FromTime
<1> QED
    BY <1>1, <1>2, <1>3 DEF IsInt32

\* Normal on a table.
LEMMA NormalTable ==
    ASSUME NEW t, IsTable(t), Work.kind = "table"
    PROVE  Normal(t) =
               [owner |-> t.owner, ownerType |-> t.ownerType, created |-> t.created,
                params |-> t.params \ {{}}, sd |-> NormalStorage(t.sd),
                cat |-> {Deref(t.cat, "hive")}, hidden |-> t.hidden]
<1>1. t = [owner |-> t.owner, ownerType |-> t.ownerType, created |-> t.created,
           params |-> t.params, sd |-> t.sd, cat |-> t.cat, hidden |-> t.hidden]
    BY DEF IsTable
<1> QED
    BY <1>1, Zenon DEF Normal

\* A table that is read, edited and altered.
LEMMA TableTrip ==
    ASSUME NEW t, IsTable(t), Work.kind = "table", NEW e \in {"params", "created"}
    PROVE  LET w == ToThriftFrom(Edited(FromThrift(t), e))
           IN  IsTable(w) /\ Normal(w) = Normal(Meant(t, e))
<1> DEFINE o == Edited(FromThrift(t), e)
           w == ToThriftFrom(o)
           P == IF e = "params" THEN {NewParams} ELSE CopyMap(t.params)
           C == IF e = "created" THEN {Far} ELSE TimeFromUnix32(t.created)
           sd == StorageToThrift(StorageFromThrift(t.sd), t.sd)
           cat == Deref(t.cat, "hive")
           m == Meant(t, e)
           created == IF e = "created" THEN MaxInt32 ELSE t.created
           params == IF e = "params" THEN {NewParams} ELSE t.params
<1>1. FromThrift(t) = [owner |-> t.owner, ownerType |-> t.ownerType,
                       created |-> TimeFromUnix32(t.created), params |-> CopyMap(t.params),
                       storage |-> StorageFromThrift(t.sd), cat |-> cat, raw |-> {t}]
    BY DEF FromThrift, TableFromThrift
<1>2. o = [owner |-> t.owner, ownerType |-> t.ownerType, created |-> C, params |-> P,
           storage |-> StorageFromThrift(t.sd), cat |-> cat, raw |-> {t}]
    BY <1>1 DEF Edited
<1>3. w = [owner |-> t.owner, ownerType |-> t.ownerType, created |-> Unix32FromTime(C),
           params |-> CopyMap(P), sd |-> sd, cat |-> {cat}, hidden |-> t.hidden]
    <2> HIDE DEF o, C, P, cat
    <2>1. TableToThriftFrom(o, {o.cat}) =
          [owner |-> t.owner, ownerType |-> t.ownerType, created |-> Unix32FromTime(C),
           params |-> CopyMap(P), sd |-> sd, cat |-> {cat}, hidden |-> t.hidden]
        BY <1>2, TableWritten DEF cat
    <2> QED
        BY <2>1 DEF ToThriftFrom
<1>4. Unix32FromTime(C) = created /\ IsInt32(created)
    BY TimeTrip DEF IsTable
<1>5. CopyMap(P) \ {{}} = params \ {{}}
    BY DEF CopyMap
<1>6. IsStorage(sd) /\ NormalStorage(sd) = NormalStorage(t.sd)
    BY StorageTrip DEF IsTable
<1>7. m = [owner |-> t.owner, ownerType |-> t.ownerType, created |-> created,
           params |-> params, sd |-> t.sd, cat |-> t.cat, hidden |-> t.hidden]
    BY DEF Meant, IsTable
<1> HIDE DEF o, w, C, P, sd, m, created, params
<1>8. IsTable(w)
    BY <1>3, <1>4, <1>6 DEF IsTable
<1>9. IsTable(m)
    BY <1>7, <1>4 DEF IsTable
<1>10. \A x : Deref({x}, "hive") = x
    BY TheOne DEF Deref
<1>11. Normal(w) = [owner |-> t.owner, ownerType |-> t.ownerType, created |-> created,
                    params |-> params \ {{}}, sd |-> NormalStorage(t.sd),
                    cat |-> {cat}, hidden |-> t.hidden]
    <2>1. /\ w.owner = t.owner /\ w.ownerType = t.ownerType /\ w.created = created
          /\ w.params \ {{}} = params \ {{}} /\ NormalStorage(w.sd) = NormalStorage(t.sd)
          /\ w.cat = {cat} /\ w.hidden = t.hidden
        BY <1>3, <1>4, <1>5, <1>6
    <2> QED
        BY <1>8, <1>10, <2>1, NormalTable, Zenon
<1>12. Normal(m) = [owner |-> t.owner, ownerType |-> t.ownerType, created |-> created,
                    params |-> params \ {{}}, sd |-> NormalStorage(t.sd),
                    cat |-> {cat}, hidden |-> t.hidden]
    <2>1. /\ m.owner = t.owner /\ m.ownerType = t.ownerType /\ m.created = created
          /\ m.params = params /\ m.sd = t.sd /\ m.cat = t.cat /\ m.hidden = t.hidden
        BY <1>7
    <2> QED
        BY <1>9, <2>1, NormalTable
<1> QED
    BY <1>8, <1>11, <1>12 DEF o, w, m

\* What a partition is written as, likewise.
LEMMA PartitionWritten ==
    ASSUME NEW p, IsPartition(p), NEW P, NEW C, NEW o,
           o = [created |-> C, params |-> P, storage |-> StorageFromThrift(p.sd),
                cat |-> Deref(p.cat, "hive"), raw |-> {p}]
    PROVE  PartitionToThriftFrom(o, {"hive"}) =
               [created |-> Unix32FromTime(C), params |-> CopyMap(P),
                sd |-> StorageToThrift(StorageFromThrift(p.sd), p.sd),
                cat |-> {"hive"}, hidden |-> p.hidden]
<1>1. /\ o.created = C /\ o.params = P
      /\ o.storage = StorageFromThrift(p.sd) /\ o.raw = {p}
    OBVIOUS
<1>2. Deref(o.raw, NewPartition) = p
    BY <1>1, TheOne, Zenon DEF Deref
<1>3. p = [created |-> p.created, params |-> p.params, sd |-> p.sd, cat |-> p.cat,
           hidden |-> p.hidden]
    BY DEF IsPartition
<1>4. PartitionToThriftFrom(o, {"hive"}) =
        [p EXCEPT !.created = Unix32FromTime(C), !.params = CopyMap(P),
                  !.sd = StorageToThrift(StorageFromThrift(p.sd), p.sd), !.cat = {"hive"}]
    BY <1>1, <1>2, <1>3, Zenon DEF PartitionToThriftFrom, FillPartition
<1> QED
    BY <1>3, <1>4, Zenon

\* Normal on a partition.
LEMMA NormalPartition ==
    ASSUME NEW p, IsPartition(p), Work.kind = "partition"
    PROVE  Normal(p) =
               [created |-> p.created, params |-> p.params \ {{}},
                sd |-> NormalStorage(p.sd), cat |-> {"hive"}, hidden |-> p.hidden]
<1>1. p = [created |-> p.created, params |-> p.params, sd |-> p.sd, cat |-> p.cat,
           hidden |-> p.hidden]
    BY DEF IsPartition
<1>2. Deref(p.cat, "hive") = "hive"
    BY TheOne, Zenon DEF Deref, IsPartition
<1> QED
    BY <1>1, <1>2, Zenon DEF Normal

\* A partition that is read, edited and altered.
LEMMA PartitionTrip ==
    ASSUME NEW p, IsPartition(p), Work.kind = "partition", NEW e \in {"params", "created"}
    PROVE  LET w == ToThriftFrom(Edited(FromThrift(p), e))
           IN  IsPartition(w) /\ Normal(w) = Normal(Meant(p, e))
<1> DEFINE o == Edited(FromThrift(p), e)
           w == ToThriftFrom(o)
           P == IF e = "params" THEN {NewParams} ELSE CopyMap(p.params)
           C == IF e = "created" THEN {Far} ELSE TimeFromUnix32(p.created)
           sd == StorageToThrift(StorageFromThrift(p.sd), p.sd)
           m == Meant(p, e)
           created == IF e = "created" THEN MaxInt32 ELSE p.created
           params == IF e = "params" THEN {NewParams} ELSE p.params
<1>1. FromThrift(p) = [created |-> TimeFromUnix32(p.created), params |-> CopyMap(p.params),
                       storage |-> StorageFromThrift(p.sd), cat |-> Deref(p.cat, "hive"),
                       raw |-> {p}]
    BY DEF FromThrift, PartitionFromThrift
<1>2. o = [created |-> C, params |-> P, storage |-> StorageFromThrift(p.sd),
           cat |-> Deref(p.cat, "hive"), raw |-> {p}]
    <2>1. CASE e = "params"
        BY <1>1, <2>1 DEF Edited
    <2>2. CASE e = "created"
        BY <1>1, <2>2 DEF Edited
    <2> QED
        BY <2>1, <2>2
<1>3. w = [created |-> Unix32FromTime(C), params |-> CopyMap(P), sd |-> sd,
           cat |-> {"hive"}, hidden |-> p.hidden]
    <2> HIDE DEF o, C, P
    <2>1. PartitionToThriftFrom(o, {"hive"}) =
          [created |-> Unix32FromTime(C), params |-> CopyMap(P), sd |-> sd,
           cat |-> {"hive"}, hidden |-> p.hidden]
        BY <1>2, PartitionWritten
    <2> QED
        BY <2>1 DEF ToThriftFrom
<1>4. Unix32FromTime(C) = created /\ IsInt32(created)
    BY TimeTrip DEF IsPartition
<1>5. CopyMap(P) \ {{}} = params \ {{}}
    BY DEF CopyMap
<1>6. IsStorage(sd) /\ NormalStorage(sd) = NormalStorage(p.sd)
    BY StorageTrip DEF IsPartition
<1>7. m = [created |-> created, params |-> params, sd |-> p.sd, cat |-> p.cat,
           hidden |-> p.hidden]
    BY DEF Meant, IsPartition
<1> HIDE DEF o, w, C, P, sd, m, created, params
<1>8. IsPartition(w)
    BY <1>3, <1>4, <1>6 DEF IsPartition
<1>9. IsPartition(m)
    BY <1>7, <1>4 DEF IsPartition
<1>10. Normal(w) = [created |-> created, params |-> params \ {{}},
                    sd |-> NormalStorage(p.sd), cat |-> {"hive"}, hidden |-> p.hidden]
    <2>1. /\ w.created = created /\ w.params \ {{}} = params \ {{}}
          /\ NormalStorage(w.sd) = NormalStorage(p.sd) /\ w.hidden = p.hidden
        BY <1>3, <1>4, <1>5, <1>6
    <2> QED
        BY <1>8, <2>1, NormalPartition
<1>11. Normal(m) = [created |-> created, params |-> params \ {{}},
                    sd |-> NormalStorage(p.sd), cat |-> {"hive"}, hidden |-> p.hidden]
    <2>1. /\ m.created = created /\ m.params = params /\ m.sd = p.sd /\ m.hidden = p.hidden
        BY <1>7
    <2> QED
        BY <1>9, <2>1, NormalPartition
<1> QED
    BY <1>8, <1>10, <1>11 DEF o, w, m

\* Normal on a database.
LEMMA NormalDatabase ==
    ASSUME NEW d, IsDatabase(d), Work.kind = "database"
    PROVE  Normal(d) =
               [owner |-> d.owner \ {""}, ownerType |-> d.ownerType, created |-> d.created,
                params |-> d.params \ {{}}, cat |-> {"hive"}, hidden |-> d.hidden]
<1>1. d = [owner |-> d.owner, ownerType |-> d.ownerType, created |-> d.created,
           params |-> d.params, cat |-> d.cat, hidden |-> d.hidden]
    BY DEF IsDatabase
<1>2. Deref(d.cat, "hive") = "hive"
    BY TheOne, Zenon DEF Deref, IsDatabase
<1> QED
    BY <1>1, <1>2, Zenon DEF Normal

\* A pointer read with a default and written back unless it is the default.
LEMMA OptionTrip ==
    ASSUME NEW o, IsOption(o), NEW default
    PROVE  {Deref(o, default)} \ {default} = o \ {default}
<1>1. CASE o = {}
    BY <1>1 DEF Deref
<1>2. ASSUME NEW x, o = {x} PROVE Deref(o, default) = x
    BY <1>2, TheOne DEF Deref
<1> QED
    BY <1>1, <1>2, OptionCases

\* A database that is read, edited and altered.
LEMMA DatabaseTrip ==
    ASSUME NEW d, IsDatabase(d), Work.kind = "database", NEW e \in {"params", "created"}
    PROVE  LET w == ToThriftFrom(Edited(FromThrift(d), e))
           IN  IsDatabase(w) /\ Normal(w) = Normal(Meant(d, e))
<1> DEFINE o == Edited(FromThrift(d), e)
           w == ToThriftFrom(o)
           P == IF e = "params" THEN {NewParams} ELSE CopyMap(d.params)
           m == Meant(d, e)
           params == IF e = "params" THEN {NewParams} ELSE d.params
           owner == Deref(d.owner, "")
           ownerType == Deref(d.ownerType, 0)
<1>1. FromThrift(d) = [owner |-> owner, ownerType |-> ownerType,
                       created |-> TimeFromUnix32Ptr(d.created), params |-> CopyMap(d.params),
                       cat |-> "hive", raw |-> {d}]
    BY TheOne, Zenon DEF FromThrift, DatabaseFromThrift, Deref
<1> HIDE DEF owner, ownerType
<1>2. /\ o.owner = owner /\ o.ownerType = ownerType /\ o.params = P
      /\ o.cat = "hive" /\ o.raw = {d}
    <2>1. CASE e = "params"
        BY <1>1, <2>1 DEF Edited
    <2>2. CASE e = "created"
        BY <1>1, <2>2 DEF Edited
    <2> QED
        BY <2>1, <2>2
<1>3. d = [owner |-> d.owner, ownerType |-> d.ownerType, created |-> d.created,
           params |-> d.params, cat |-> d.cat, hidden |-> d.hidden]
    BY DEF IsDatabase
<1>4. /\ {owner} \ {""} = d.owner \ {""}
      /\ {ownerType} \ {0} = d.ownerType
    <2>1. IsOption(d.owner) /\ IsOption(d.ownerType) /\ 0 \notin d.ownerType
        BY DEF IsDatabase
    <2>2. {owner} \ {""} = d.owner \ {""}
        BY <2>1, OptionTrip, Zenon DEF owner
    <2>3. {ownerType} \ {0} = d.ownerType \ {0}
        BY <2>1, OptionTrip DEF ownerType
    <2> QED
        BY <2>1, <2>2, <2>3, Zenon
<1>5. w = [owner |-> d.owner \ {""}, ownerType |-> d.ownerType, created |-> d.created,
           params |-> CopyMap(P), cat |-> {"hive"}, hidden |-> d.hidden]
    <2> HIDE DEF o, P
    <2>1. Deref(o.raw, NewDatabase) = d
        BY <1>2, TheOne, Zenon DEF Deref
    <2>2. w = [d EXCEPT !.owner = d.owner \ {""}, !.ownerType = d.ownerType,
                        !.params = CopyMap(P), !.cat = {"hive"}]
        BY <1>2, <1>4, <2>1, Zenon DEF ToThriftFrom, DatabaseToThriftFrom, FillDatabase
    <2> QED
        BY <1>3, <2>2, Zenon
<1>6. CopyMap(P) \ {{}} = params \ {{}}
    BY DEF CopyMap
<1>7. m = [owner |-> d.owner, ownerType |-> d.ownerType, created |-> d.created,
           params |-> params, cat |-> d.cat, hidden |-> d.hidden]
    BY <1>3 DEF Meant
<1> HIDE DEF o, w, P, m, params
<1>8. IsDatabase(w)
    BY <1>5, Zenon DEF IsDatabase, IsOption
<1>9. IsDatabase(m)
    BY <1>7 DEF IsDatabase
<1>10. Normal(w) = [owner |-> d.owner \ {""}, ownerType |-> d.ownerType, created |-> d.created,
                    params |-> params \ {{}}, cat |-> {"hive"}, hidden |-> d.hidden]
    <2>1. /\ w.owner \ {""} = d.owner \ {""} /\ w.ownerType = d.ownerType
          /\ w.created = d.created /\ w.params \ {{}} = params \ {{}} /\ w.hidden = d.hidden
        BY <1>5, <1>6, Zenon
    <2> QED
        BY <1>8, <2>1, NormalDatabase, Zenon
<1>11. Normal(m) = [owner |-> d.owner \ {""}, ownerType |-> d.ownerType, created |-> d.created,
                    params |-> params \ {{}}, cat |-> {"hive"}, hidden |-> d.hidden]
    <2>1. /\ m.owner = d.owner /\ m.ownerType = d.ownerType
          /\ m.created = d.created /\ m.params = params /\ m.hidden = d.hidden
        BY <1>7
    <2> QED
        BY <1>9, <2>1, NormalDatabase, Zenon
<1> QED
    BY <1>8, <1>10, <1>11, Zenon DEF o, w, m

\* An object that is read, edited and altered comes out with the edit made and
\* nothing else changed.
LEMMA RoundTrip ==
    ASSUME NEW w, IsObject(Work.kind, w), NEW e \in {"params", "created"}
    PROVE  LET out == ToThriftFrom(Edited(FromThrift(w), e))
           IN  IsObject(Work.kind, out) /\ Normal(out) = Normal(Meant(w, e))
    BY TableTrip, DatabaseTrip, PartitionTrip DEF IsObject
=============================================================================
