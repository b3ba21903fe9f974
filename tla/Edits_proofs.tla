---------------------------- MODULE Edits_proofs ----------------------------
(***************************************************************************)
(* What the users of Sessions do to the object they share, for any users,  *)
(* locks, connections, losses and objects: an alter the server applies     *)
(* changes what its user edited and nothing else.  That the conversions    *)
(* keep the rest is in Sessions_proofs; here it is that what the alter was *)
(* made from is still the object.                                          *)
(***************************************************************************)
EXTENDS Sessions_proofs

\* The provers tried on a step that names none, and their time.
USE SMTT(30), Z3T(30), ZenonT(30)

-----------------------------------------------------------------------------
(* Who holds which lock                                                    *)

\* There is at most one message on a connection.
MInv == \A c \in Conns : IsOption(inbox[c] \cup answer[c] \cup outbox[c])

\* u's call is a call of op.
Calling(u, op) == \E r \in req[u] : r.op = op

\* The replies on u's connection.
Heard(u) == UNION {answer[c] \cup outbox[c] : c \in cn[u]}

\* u knows of a lock it has not asked to have released.
Holds(u) == known[u].state \in {"ACQUIRED", "WAITING", "altering"} /\ ~Calling(u, "unlock")

\* A reply that gives u a lock is on its way.
Grants(r, rep) == r.op = "lock" /\ rep.err = "ok"

\* The lock i is u's: u knows of it, or is about to.
Owns(u, i) ==
    \/ Holds(u) /\ known[u].id = i
    \/ \E r \in req[u], rep \in Heard(u) : Grants(r, rep) /\ rep.lock = i

\* The lock u knows of, as the server has it.
Known(u) ==
    [comps |-> known[u].comps,
     state |-> IF known[u].state = "WAITING" THEN "WAITING" ELSE "ACQUIRED"]

\* What u may be asking for, by what it knows.
Asks(u, r) ==
    LET k == known[u]
    IN  /\ r.op = "lock" => k.state = "none"
        /\ r.op = "check_lock" => k.state \in {"ACQUIRED", "WAITING"} /\ r.lock = k.id
        /\ r.op = "unlock" => k.state \in {"ACQUIRED", "WAITING", "unsure"} /\ r.lock = k.id
        /\ r.op = "get" => k.state = "ACQUIRED"
        /\ r.op = "alter" => k.state = "ACQUIRED" /\ Covers(k.comps)

\* What u knows of a lock has its shape and an id that was given out, and u asks
\* for one thing at a time, which fits what it knows.
KInv ==
    /\ known = [u \in Users |-> known[u]]
    /\ copy = [u \in Users |-> copy[u]]
    /\ \A u \in Users :
        /\ known[u] = [id |-> known[u].id, comps |-> known[u].comps, state |-> known[u].state]
        /\ known[u].id \in 0 .. nextLock
        /\ known[u].state \in {"none", "ACQUIRED", "WAITING", "unsure", "altering"}
        /\ pc[u] = "idle" => req[u] = {}
        /\ IsOption(req[u])
        /\ \A r \in req[u] : Asks(u, r)

\* What the reply rep to u's request r says of locks is so.
Says(u, r, rep) ==
    /\ Grants(r, rep) =>
        /\ rep.lock \in DOMAIN locks
        /\ locks[rep.lock] = [comps |-> r.comps, state |-> rep.state]
        /\ rep.state \in {"ACQUIRED", "WAITING"}
    /\ r.op = "check_lock" /\ rep.err = "ok" => rep.state = known[u].state

\* What users know of locks is so, a lock belongs to one user, and a lock whose
\* release is being asked for to none.
OInv ==
    /\ \A u \in Users : Holds(u) => known[u].id \in DOMAIN locks /\ locks[known[u].id] = Known(u)
    /\ \A u \in Users : \A r \in req[u], rep \in Heard(u) : Says(u, r, rep)
    /\ \A u, v \in Users : \A i \in DOMAIN locks :
        Owns(v, i) /\ (Owns(u, i) \/ known[u].id = i) => u = v
    /\ \A c \in Conns : \A r \in inbox[c] :
        r.op = "unlock" => r.lock \in 0 .. nextLock /\ \A v \in Users : ~Owns(v, r.lock)

\* u is the one who may change the object.
Master(u) == Holds(u) /\ known[u].state # "WAITING" /\ Covers(known[u].comps)

\* What u read is the object as it is now: nobody else changes it, and u has not
\* asked for a change.
Fresh(u) == Master(u) /\ known[u].state = "ACQUIRED" /\ ~Calling(u, "alter")

\* The request r makes a change to the object as it is now.
Current(r) ==
    r.edit \in {"params", "created"} /\ r.obj = ToThriftFrom(Edited(FromThrift(object), r.edit))

\* An alter on its way, or about to be sent, changes the object as it is now: it
\* is the only one, and its sender is the object's master.  What a master read
\* and has not yet sent back is the object.
EInv ==
    /\ work \in DOMAIN Workloads /\ IsObject(Work.kind, object)
    /\ \A c \in Conns : \A r \in inbox[c] :
        r.op = "alter" =>
            /\ Current(r)
            /\ \E u \in Users :
                Master(u) /\ (known[u].state = "altering" \/ (r \in req[u] /\ c \in cn[u]))
    /\ \A c, d \in Conns : \A r \in inbox[c], q \in inbox[d] :
        r.op = "alter" /\ q.op = "alter" => c = d
    /\ \A u \in Users : \A r \in req[u] :
        r.op = "alter" /\ pc[u] = "dial" =>
            Current(r) /\ \A c \in Conns : \A q \in inbox[c] : q.op # "alter"
    /\ \A u \in Users : Fresh(u) => copy[u] \subseteq {FromThrift(object)}
    /\ \A u \in Users :
        Master(u) /\ Calling(u, "get") => \A rep \in Heard(u) : rep.obj = object

\* The inductive invariant.
XInv == RInv /\ MInv /\ LInv /\ KInv /\ OInv /\ EInv

\* Two components that cover a third overlap.
LEMMA CoversOverlap ==
    ASSUME NEW x, NEW y, NEW z, LockDepth(x) <= LockDepth(z), LockDepth(y) <= LockDepth(z),
           LockOverlaps(x, z), LockOverlaps(y, z)
    PROVE  LockOverlaps(x, y)
    BY DEF LockOverlaps, LockDepth

\* At most one user may change the object.
LEMMA OneMaster ==
    ASSUME LInv, KInv, OInv, NEW u \in Users, NEW v \in Users, Master(u), Master(v)
    PROVE  u = v
<1> DEFINE i == known[u].id
           j == known[v].id
<1>1. /\ i \in DOMAIN locks /\ locks[i] = Known(u) /\ Owns(u, i)
      /\ j \in DOMAIN locks /\ locks[j] = Known(v) /\ Owns(v, j)
    BY Zenon DEF OInv, Master, Owns
<1>2. /\ locks[i].state = "ACQUIRED" /\ locks[i].comps = known[u].comps
      /\ locks[j].state = "ACQUIRED" /\ locks[j].comps = known[v].comps
    BY <1>1 DEF Known, Master
<1>3. PICK x \in known[u].comps : /\ x.type = "EXCLUSIVE"
                                  /\ LockDepth(x) <= LockDepth(Resource[Work.kind])
                                  /\ LockOverlaps(x, Resource[Work.kind])
    BY Zenon DEF Master, Covers
<1>4. PICK y \in known[v].comps : /\ y.type = "EXCLUSIVE"
                                  /\ LockDepth(y) <= LockDepth(Resource[Work.kind])
                                  /\ LockOverlaps(y, Resource[Work.kind])
    BY Zenon DEF Master, Covers
<1>5. LockOverlaps(x, y) /\ LockOverlaps(y, x)
    BY <1>3, <1>4, CoversOverlap
<1>6. i \in Nat /\ j \in Nat
    BY <1>1 DEF LInv
<1>7. i = j
    BY <1>1, <1>2, <1>3, <1>4, <1>5, <1>6 DEF LInv, ExclusiveExcludes
<1> QED
    BY <1>1, <1>7, Zenon DEF OInv

\* MInv is inductive.
LEMMA OneMessage == RInv /\ MInv /\ [Next]_vars => MInv'
<1> SUFFICES ASSUME RInv, MInv, [Next]_vars PROVE MInv'
    OBVIOUS
<1>1. ASSUME Moves PROVE MInv'
    BY <1>1 DEF Moves, MInv, IsOption
<1>2. ASSUME NEW c \in Conns, NEW x, inbox'[c] \cup answer'[c] \cup outbox'[c] \subseteq {x},
             \A d \in Conns \ {c} : /\ inbox'[d] = inbox[d]
                                    /\ answer'[d] = answer[d] /\ outbox'[d] = outbox[d]
      PROVE  MInv'
    BY <1>2 DEF MInv, IsOption
<1>3. ASSUME NEW c \in Conns, Handle(c) PROVE MInv'
    <2>1. PICK rep : inbox[c] # {} /\ Process(c, rep)
        BY <1>3 DEF Handle, HandlesAcid, GetObject, AlterObject
    <2> QED
        BY <1>2, <2>1, Zenon DEF Process, RInv, CInv
<1>4. ASSUME UNCHANGED <<inbox, answer>>, NEW c \in Conns, outbox' = [outbox EXCEPT ![c] = {}]
      PROVE  MInv'
    BY <1>1, <1>4 DEF Moves, RInv, CInv
<1>5. ASSUME UNCHANGED <<inbox, answer, outbox>> PROVE MInv'
    BY <1>1, <1>5 DEF Moves
<1>6. ASSUME NEW u \in Users, User(u) PROVE MInv'
    <2>1. CASE Call(u)
        <3>1. CASE UNCHANGED svars
            BY <1>5, <3>1 DEF svars
        <3>2. ASSUME NEW c \in cn[u], NEW r, Send(c, r) PROVE MInv'
            <4>1. c \in Conns /\ answer[c] = {} /\ outbox[c] = {}
                BY <2>1, <3>2 DEF Call, RInv, UInv
            <4> QED
                BY <1>2, <3>2, <4>1 DEF Send, RInv, CInv
        <3> QED
            BY <2>1, <3>1, <3>2 DEF Call
    <2>2. CASE Dial(u)
        <3>1. PICK c \in Free : Connect(c, The(req[u]))
            BY <2>2 DEF Dial
        <3>2. c \in Conns /\ answer[c] = {}
            BY <3>1 DEF Free, RInv, CInv
        <3> QED
            BY <1>2, <3>1, <3>2, Zenon DEF Connect, RInv, CInv
    <2>3. CASE GivesUp(u)
        BY <1>5, <2>3 DEF GivesUp, svars
    <2>4. CASE Returns(u) \/ ReplyLost(u) \/ Cancelled(u)
        <3>1. PICK c \in cn[u] : Receive(c) \/ Leave(c)
            BY <2>4 DEF Returns, ReplyLost, Cancelled
        <3>2. c \in Conns
            BY <3>1 DEF RInv, UInv
        <3> QED
            BY <1>4, <3>1, <3>2 DEF Receive, Leave
    <2> QED
        BY <1>6, <2>1, <2>2, <2>3, <2>4 DEF User
<1>7. ASSUME Serve \/ (\E c \in Conns : HandleConn(c)) \/ (\E s : Stop(s)) PROVE MInv'
    BY <1>1, <1>7, ServerMoves DEF RInv
<1>8. CASE UNCHANGED vars
    BY <1>5, <1>8 DEF vars, svars
<1> QED
    BY <1>3, <1>6, <1>7, <1>8, Zenon DEF Next, Goroutine, Accepting, Stopping

-----------------------------------------------------------------------------
(* A user's step                                                           *)

\* What a step of u leaves alone.
Aside(u) ==
    /\ UNCHANGED <<avars, work, object>>
    /\ known' = [v \in Users |-> known'[v]]
    /\ copy' = [v \in Users |-> copy'[v]]
    /\ \A v \in Users \ {u} :
        /\ known'[v] = known[v] /\ copy'[v] = copy[v] /\ req'[v] = req[v]
        /\ pc'[v] = pc[v] /\ cn'[v] = cn[v] /\ Heard(v)' = Heard(v)
    /\ Heard(u)' = {}

\* The replies of a user whose connections are left alone.
LEMMA HeardKept ==
    ASSUME NEW v \in Users, cn'[v] = cn[v],
           \A c \in cn[v] : answer'[c] = answer[c] /\ outbox'[c] = outbox[c]
    PROVE  Heard(v)' = Heard(v)
    BY DEF Heard

\* The replies of a user who has none.
LEMMA HeardNone ==
    ASSUME NEW v \in Users, \A c \in cn'[v] : answer'[c] = {} /\ outbox'[c] = {}
    PROVE  Heard(v)' = {}
    BY DEF Heard

\* A step of u touches its own connection only, and no reply is on it then.
LEMMA UserAside ==
    ASSUME RInv, KInv, NEW u \in Users, User(u)
    PROVE  Aside(u)
<1> USE DEF RInv
<1>1. \A v \in Users \ {u} : \A c \in cn[u] : c \notin cn[v]
    BY DEF UInv
<1>2. ASSUME UNCHANGED <<avars, work, object>>,
             known' = [known EXCEPT ![u] = known'[u]], copy' = [copy EXCEPT ![u] = copy'[u]],
             req' = [req EXCEPT ![u] = req'[u]], pc' = [pc EXCEPT ![u] = pc'[u]],
             cn' = [cn EXCEPT ![u] = cn'[u]],
             \A v \in Users \ {u} : \A c \in cn[v] : answer'[c] = answer[c] /\ outbox'[c] = outbox[c],
             \A c \in cn'[u] : answer'[c] = {} /\ outbox'[c] = {}
      PROVE  Aside(u)
    <2>1. /\ known' = [v \in Users |-> known'[v]] /\ copy' = [v \in Users |-> copy'[v]]
          /\ \A v \in Users \ {u} :
              /\ known'[v] = known[v] /\ copy'[v] = copy[v] /\ req'[v] = req[v]
              /\ pc'[v] = pc[v] /\ cn'[v] = cn[v]
        BY <1>2 DEF KInv, UInv
    <2>2. \A v \in Users \ {u} : Heard(v)' = Heard(v)
        BY <1>2, <2>1, HeardKept
    <2>3. Heard(u)' = {}
        BY <1>2, HeardNone
    <2> QED
        BY <1>2, <2>1, <2>2, <2>3, Zenon DEF Aside
<1>3. /\ known = [known EXCEPT ![u] = known[u]] /\ copy = [copy EXCEPT ![u] = copy[u]]
      /\ req = [req EXCEPT ![u] = req[u]] /\ cn = [cn EXCEPT ![u] = cn[u]]
    BY Zenon DEF KInv, UInv
<1>4. pc[u] # "wait" => \A c \in cn[u] : answer[c] = {} /\ outbox[c] = {}
    BY DEF UInv
<1>5. CASE Call(u)
    <2>1. /\ pc[u] = "idle" /\ UNCHANGED <<avars, work, object, cn, known, copy>>
          /\ UNCHANGED <<answer, outbox>>
          /\ req' = [req EXCEPT ![u] = req'[u]] /\ pc' = [pc EXCEPT ![u] = pc'[u]]
        BY <1>5 DEF Call, NewCall, Send, svars, UInv
    <2> QED
        BY <2>1, <1>2, <1>3, <1>4
<1>6. CASE Dial(u)
    <2>1. PICK c \in Free : Connect(c, The(req[u])) /\ cn' = [cn EXCEPT ![u] = {c}]
        BY <1>6, Zenon DEF Dial
    <2>2. c \in Conns /\ phase[c] = "none" /\ \A v \in Users : c \notin cn[v]
        BY <2>1 DEF Free
    <2>3. answer[c] = {}
        BY <2>2 DEF CInv
    <2>4. /\ UNCHANGED <<avars, work, object, req, known, copy>>
          /\ pc' = [pc EXCEPT ![u] = pc'[u]]
        BY <1>6 DEF Dial, UInv
    <2>5. answer' = answer /\ outbox' = [outbox EXCEPT ![c] = {}] /\ outbox'[c] = {}
        BY <2>1, <2>2 DEF Connect, CInv
    <2>6. cn'[u] = {c}
        BY <2>1 DEF UInv
    <2>7. \A v \in Users \ {u} : \A d \in cn[v] : answer'[d] = answer[d] /\ outbox'[d] = outbox[d]
        BY <2>2, <2>5
    <2>8. \A d \in cn'[u] : answer'[d] = {} /\ outbox'[d] = {}
        BY <2>3, <2>5, <2>6
    <2> QED
        BY <2>1, <2>4, <2>6, <2>7, <2>8, <1>2, <1>3, Zenon
<1>7. ASSUME NEW rep, Learns(u, rep)
      PROVE  /\ known' = [known EXCEPT ![u] = known'[u]] /\ copy' = [copy EXCEPT ![u] = copy'[u]]
             /\ req' = [req EXCEPT ![u] = req'[u]] /\ pc' = [pc EXCEPT ![u] = pc'[u]]
    BY <1>7 DEF Learns, KInv, UInv
<1>8. CASE GivesUp(u)
    <2>1. pc[u] = "dial" /\ UNCHANGED <<avars, work, object, cn, answer, outbox>> /\ Learns(u, {})
        BY <1>8 DEF GivesUp, svars
    <2> QED
        BY <2>1, <1>2, <1>3, <1>4, <1>7
<1>9. CASE Returns(u)
    <2>1. PICK c \in cn[u] : Receive(c) /\ Learns(u, outbox[c])
        BY <1>9 DEF Returns
    <2>2. c \in Conns /\ \A d \in cn[u] : d = c
        BY <2>1 DEF UInv
    <2>3. answer[c] = {} /\ answer' = answer /\ outbox' = [outbox EXCEPT ![c] = {}]
        BY <2>1, <2>2 DEF Receive, CInv
    <2>4. UNCHANGED <<avars, work, object, cn>>
        BY <1>9 DEF Returns
    <2>5. \A d \in cn[u] : answer'[d] = {} /\ outbox'[d] = {}
        BY <2>2, <2>3 DEF CInv
    <2>6. \A v \in Users \ {u} : \A d \in cn[v] : answer'[d] = answer[d] /\ outbox'[d] = outbox[d]
        BY <2>3, <2>1, <1>1
    <2> QED
        BY <2>1, <2>4, <2>5, <2>6, <1>2, <1>3, <1>7
<1>10. ASSUME NEW c \in cn[u], Leave(c), cn' = [cn EXCEPT ![u] = {}],
              UNCHANGED <<avars, work, object>>,
              \/ Learns(u, {})
              \/ pc' = [pc EXCEPT ![u] = "dial"] /\ UNCHANGED <<req, known, copy>>
       PROVE  Aside(u)
    <2>1. answer' = answer /\ outbox' = [outbox EXCEPT ![c] = {}]
        BY <1>10 DEF Leave
    <2>2. \A v \in Users \ {u} : \A d \in cn[v] : answer'[d] = answer[d] /\ outbox'[d] = outbox[d]
        BY <2>1, <1>1
    <2>3. cn'[u] = {}
        BY <1>10 DEF UInv
    <2>4. /\ known' = [known EXCEPT ![u] = known'[u]] /\ copy' = [copy EXCEPT ![u] = copy'[u]]
          /\ req' = [req EXCEPT ![u] = req'[u]] /\ pc' = [pc EXCEPT ![u] = pc'[u]]
        <3>1. CASE Learns(u, {})
            BY <3>1, <1>7
        <3>2. CASE pc' = [pc EXCEPT ![u] = "dial"] /\ UNCHANGED <<req, known, copy>>
            BY <3>2, <1>3 DEF UInv
        <3> QED
            BY <1>10, <3>1, <3>2
    <2> QED
        BY <1>10, <2>2, <2>3, <2>4, <1>2, Zenon
<1>11. CASE ReplyLost(u)
    BY <1>10, <1>11 DEF ReplyLost
<1>12. CASE Cancelled(u)
    BY <1>10, <1>12 DEF Cancelled
<1> QED
    BY <1>5, <1>6, <1>8, <1>9, <1>11, <1>12 DEF User

\* What is offered to u fits what it knows, and an alter is made from what it
\* last read.
LEMMA OfferedAsks ==
    ASSUME NEW u \in Users, NEW r \in Offered(u)
    PROVE  /\ Asks(u, r)
           /\ r.op = "alter" =>
                r.edit \in {"params", "created"} /\ \E o \in copy[u] : r.obj = ToThriftFrom(Edited(o, r.edit))
<1> DEFINE Goal == /\ Asks(u, r)
                   /\ r.op = "alter" =>
                        /\ r.edit \in {"params", "created"}
                        /\ \E o \in copy[u] : r.obj = ToThriftFrom(Edited(o, r.edit))
<1>1. CASE r \in OpenTransaction \/ r \in CommitTransaction \/ r \in AbortTransaction \/ r \in Heartbeat(u)
    <2>1. r.op \in {"open_txns", "commit_txn", "abort_txn", "heartbeat"}
        BY <1>1 DEF OpenTransaction, CommitTransaction, AbortTransaction, Heartbeat, Request
    <2> QED
        BY <2>1 DEF Asks
<1>2. CASE known[u].state = "none" /\ r \in NewLockRequest(u)
    BY <1>2 DEF NewLockRequest, Asks
<1>3. CASE known[u].state \in {"ACQUIRED", "WAITING"} /\ r \in CheckLock(u)
    BY <1>3 DEF CheckLock, Request, Asks
<1>4. CASE known[u].state \in {"ACQUIRED", "WAITING", "unsure"} /\ r \in ReleaseLock(u)
    BY <1>4 DEF ReleaseLock, Request, Asks
<1>5. CASE known[u].state = "ACQUIRED" /\ r \in {Request("get", 0, 0)}
    BY <1>5 DEF Request, Asks
<1>6. CASE known[u].state = "ACQUIRED" /\ Covers(known[u].comps) /\ r \in Alter(u)
    <2>1. PICK o \in copy[u] :
            r = [op |-> "alter", txn |-> 0, lock |-> 0, edit |-> Edit[u],
                 obj |-> ToThriftFrom(Edited(o, Edit[u]))]
        BY <1>6 DEF Alter
    <2>2. r.op = "alter" /\ r.edit = Edit[u] /\ r.obj = ToThriftFrom(Edited(o, Edit[u]))
        BY <2>1
    <2>3. Edit[u] \in {"params", "created"}
        BY SessionsAssumption
    <2>4. Asks(u, r)
        BY <1>6, <2>2 DEF Asks
    <2> QED
        BY <2>2, <2>3, <2>4
<1> QED
    BY <1>1, <1>2, <1>3, <1>4, <1>5, <1>6 DEF Offered

\* A lock somebody owns is there.
LEMMA OwnsLocks ==
    ASSUME OInv, NEW u \in Users, NEW i, Owns(u, i)
    PROVE  i \in DOMAIN locks
<1>1. CASE Holds(u) /\ known[u].id = i
    BY <1>1 DEF OInv
<1>2. ASSUME NEW r \in req[u], NEW rep \in Heard(u), Grants(r, rep), rep.lock = i
      PROVE  i \in DOMAIN locks
    BY <1>2, Zenon DEF OInv, Says
<1> QED
    BY <1>1, <1>2 DEF Owns

\* A step of u that takes no lock it did not own, and sends no request but its
\* own, leaves everybody's locks as they were.
LEMMA OwnersKept ==
    ASSUME LInv, KInv, OInv, NEW u \in Users, Aside(u), KInv', NEW k, k = known'[u].id,
           Holds(u)' => Owns(u, k) /\ locks[k] = Known(u)',
           k = 0 \/ k = known[u].id \/ Owns(u, k),
           \A c \in Conns : \A r \in inbox'[c] : r \in inbox[c] \/ r \in req'[u]
    PROVE  OInv'
<1>1. ASSUME NEW v \in Users \ {u}
      PROVE  /\ Holds(v)' <=> Holds(v)
             /\ Known(v)' = Known(v)
             /\ \A i : Owns(v, i)' <=> Owns(v, i)
    <2>1. known'[v] = known[v] /\ req'[v] = req[v] /\ Heard(v)' = Heard(v)
        BY <1>1 DEF Aside
    <2>2. Holds(v)' <=> Holds(v)
        BY <2>1, Zenon DEF Holds, Calling
    <2>3. Known(v)' = Known(v)
        BY <2>1, Zenon DEF Known
    <2>4. ASSUME NEW i PROVE Owns(v, i)' <=> Owns(v, i)
        BY <2>1, <2>2, Zenon DEF Owns, Grants
    <2> QED
        BY <2>2, <2>3, <2>4
<1>2. locks' = locks /\ nextLock' = nextLock
    BY DEF Aside, avars
<1>3. ASSUME NEW i, Owns(u, i)' PROVE Owns(u, i) /\ Holds(u)'
    BY <1>3, Zenon DEF Aside, Owns
<1>4. ASSUME NEW v \in Users, NEW i, Owns(v, i)' PROVE Owns(v, i)
    BY <1>1, <1>3, <1>4
<1>5. ASSUME NEW v \in Users, Holds(v)'
      PROVE  known'[v].id \in DOMAIN locks' /\ locks'[known'[v].id] = Known(v)'
    <2>1. CASE v = u
        BY <1>2, <1>5, <2>1, OwnsLocks
    <2>2. CASE v # u
        BY <1>1, <1>2, <1>5, <2>2 DEF OInv, Aside
    <2> QED
        BY <2>1, <2>2
<1>6. ASSUME NEW v \in Users, NEW r \in req'[v], NEW rep \in Heard(v)' PROVE Says(v, r, rep)'
    <2>1. v # u
        BY <1>6 DEF Aside
    <2>2. known'[v] = known[v] /\ req'[v] = req[v] /\ Heard(v)' = Heard(v)
        BY <2>1 DEF Aside
    <2>3. Says(v, r, rep)
        BY <1>6, <2>2 DEF OInv
    <2> QED
        BY <1>2, <2>2, <2>3, Zenon DEF Says, Grants
<1>7. ASSUME NEW w \in Users, NEW v \in Users, NEW i \in DOMAIN locks', Owns(v, i)',
             Owns(w, i)' \/ known'[w].id = i
      PROVE  w = v
    <2>1. Owns(v, i) /\ i \in DOMAIN locks
        BY <1>2, <1>4, <1>7
    <2>2. CASE Owns(w, i) \/ known[w].id = i
        BY <2>1, <2>2, Zenon DEF OInv
    <2>3. CASE i = 0
        BY <2>1, <2>3 DEF LInv
    <2> QED
        BY <2>2, <2>3, <1>4, <1>7 DEF Aside
<1>9. ASSUME NEW c \in Conns, NEW r \in inbox'[c], r.op = "unlock", NEW v \in Users
      PROVE  r.lock \in 0 .. nextLock' /\ ~Owns(v, r.lock)'
    <2>1. CASE r \in inbox[c]
        BY <1>2, <1>4, <1>9, <2>1 DEF OInv
    <2>2. CASE r \in req'[u]
        <3>1. Asks(u, r)'
            BY <2>2 DEF KInv
        <3>2. r.lock = known'[u].id
            BY <1>9, <3>1 DEF Asks
        <3>3. r.lock \in 0 .. nextLock'
            BY <3>2 DEF KInv
        <3>4. ~Holds(u)'
            BY <1>9, <2>2, Zenon DEF Holds, Calling
        <3>5. ~Owns(v, r.lock)'
            <4>1. SUFFICES ASSUME Owns(v, r.lock)' PROVE FALSE
                OBVIOUS
            <4>2. PICK i : i = r.lock
                OBVIOUS
            <4>3. Owns(v, i)' /\ i = known'[u].id
                BY <3>2, <4>1, <4>2
            <4>4. i \in DOMAIN locks'
                BY <1>2, <1>4, <4>3, OwnsLocks
            <4>5. u = v
                BY <1>7, <4>3, <4>4
            <4> QED
                BY <1>3, <3>4, <4>3, <4>5
        <3> QED
            BY <3>3, <3>5
    <2> QED
        BY <2>1, <2>2, <1>9
<1> QED
    BY <1>5, <1>6, <1>7, <1>9, Zenon DEF OInv

-----------------------------------------------------------------------------
(* The end of a call                                                       *)

\* What the call r of u leaves it with, by what was called.
Ends(u, r) ==
    \/ /\ r.op = "lock" /\ copy'[u] = {}
       /\ \E x \in Heard(u) :
            Grants(r, x) /\ known'[u] = [id |-> x.lock, comps |-> r.comps, state |-> x.state]
    \/ r.op = "unlock" /\ copy'[u] = {} /\ known'[u] \in {NoLock, [known[u] EXCEPT !.state = "unsure"]}
    \/ r.op = "alter" /\ copy'[u] = {} /\ known'[u] \in {known[u], [known[u] EXCEPT !.state = "altering"]}
    \/ /\ r.op = "get" /\ known'[u] = known[u]
       /\ \A o \in copy'[u] : \E x \in Heard(u) : o = FromThrift(x.obj)
    \/ /\ r.op \notin {"unlock", "alter", "get"} /\ known'[u] = known[u]
       /\ copy'[u] \in {copy[u], {}}

\* Learns, on a reply that was on u's connection or on none.
LEMMA LearnsEnds ==
    ASSUME KInv, OInv, NEW u \in Users, NEW r, req[u] = {r}, NEW rep, Learns(u, rep),
           rep = {} \/ \E x \in Heard(u) : rep = {x}
    PROVE  /\ Ends(u, r)
           /\ r.op = "alter" /\ rep = {} => known'[u] = [known[u] EXCEPT !.state = "altering"]
<1> DEFINE ok == rep # {} /\ The(rep).err = "ok"
           k == known[u]
           lock == CASE r.op = "lock" /\ ok ->
                            [id |-> The(rep).lock, comps |-> r.comps, state |-> The(rep).state]
                     [] r.op = "check_lock" /\ ok   -> [k EXCEPT !.state = The(rep).state]
                     [] r.op = "unlock" /\ rep # {} -> NoLock
                     [] r.op = "unlock" /\ rep = {} -> [k EXCEPT !.state = "unsure"]
                     [] r.op = "alter" /\ ~ok       -> [k EXCEPT !.state = "altering"]
                     [] OTHER                       -> k
<1>1. The(req[u]) = r
    BY TheOne
<1>2. /\ known' = [known EXCEPT ![u] = lock]
      /\ copy' = [copy EXCEPT ![u] =
                      IF r.op = "get" THEN IF ok THEN {FromThrift(The(rep).obj)} ELSE {}
                      ELSE IF r.op \in {"lock", "unlock", "alter"} THEN {}
                      ELSE copy[u]]
    BY <1>1, Zenon DEF Learns
<1>3. /\ known'[u] = lock
      /\ copy'[u] = IF r.op = "get" THEN IF ok THEN {FromThrift(The(rep).obj)} ELSE {}
                    ELSE IF r.op \in {"lock", "unlock", "alter"} THEN {}
                    ELSE copy[u]
    BY <1>2, Zenon DEF KInv
<1>4. rep # {} => The(rep) \in Heard(u)
    BY TheOne, Zenon
<1>5. CASE r.op = "lock"
    <2>1. CASE ok
        <3>1. known'[u] = [id |-> The(rep).lock, comps |-> r.comps, state |-> The(rep).state]
            BY <1>3, <1>5, <2>1
        <3>2. copy'[u] = {}
            BY <1>3, <1>5
        <3> QED
            BY <1>4, <1>5, <2>1, <3>1, <3>2, Zenon DEF Ends, Grants
    <2>2. CASE ~ok
        <3>1. known'[u] = known[u] /\ copy'[u] = {}
            BY <1>3, <1>5, <2>2
        <3> QED
            BY <1>5, <3>1 DEF Ends
    <2> QED
        BY <2>1, <2>2
<1>6. CASE r.op = "check_lock"
    <2>1. ok => The(rep).state = known[u].state
        BY <1>4, <1>6, Zenon DEF OInv, Says
    <2>2. known'[u] = known[u]
        <3>1. CASE ok
            <4>1. known'[u] = [known[u] EXCEPT !.state = known[u].state]
                BY <1>3, <1>6, <2>1, <3>1
            <4>2. known[u] = [id |-> known[u].id, comps |-> known[u].comps, state |-> known[u].state]
                BY DEF KInv
            <4> QED
                BY <4>1, <4>2
        <3>2. CASE ~ok
            BY <1>3, <1>6, <3>2
        <3> QED
            BY <3>1, <3>2
    <2>3. copy'[u] = copy[u]
        BY <1>3, <1>6
    <2> QED
        BY <1>6, <2>2, <2>3 DEF Ends
<1>7. CASE r.op = "unlock"
    <2>1. copy'[u] = {}
        BY <1>3, <1>7
    <2>2. known'[u] \in {NoLock, [known[u] EXCEPT !.state = "unsure"]}
        BY <1>3, <1>7
    <2> QED
        BY <1>7, <2>1, <2>2 DEF Ends
<1>8. CASE r.op = "alter"
    <2>1. copy'[u] = {}
        BY <1>3, <1>8
    <2>2. CASE ok
        <3>1. known'[u] = known[u]
            BY <1>3, <1>8, <2>2
        <3> QED
            BY <1>8, <2>1, <2>2, <3>1 DEF Ends
    <2>3. CASE ~ok
        <3>1. known'[u] = [known[u] EXCEPT !.state = "altering"]
            BY <1>3, <1>8, <2>3
        <3> QED
            BY <1>8, <2>1, <3>1 DEF Ends
    <2> QED
        BY <2>2, <2>3
<1>9. CASE r.op = "get"
    <2>1. known'[u] = known[u]
        BY <1>3, <1>9
    <2>2. \A o \in copy'[u] : \E x \in Heard(u) : o = FromThrift(x.obj)
        BY <1>3, <1>4, <1>9
    <2> QED
        BY <1>9, <2>1, <2>2, Zenon DEF Ends
<1>10. CASE r.op \notin {"lock", "check_lock", "unlock", "alter", "get"}
    <2>1. known'[u] = known[u] /\ copy'[u] = copy[u]
        BY <1>3, <1>10
    <2> QED
        BY <1>10, <2>1 DEF Ends
<1> QED
    BY <1>5, <1>6, <1>7, <1>8, <1>9, <1>10

\* What depends on the object and the workload alone.
LEMMA ObjectKept ==
    ASSUME UNCHANGED <<work, object>>
    PROVE  /\ \A r : Current(r)' <=> Current(r)
           /\ \A comps : Covers(comps)' <=> Covers(comps)
           /\ FromThrift(object)' = FromThrift(object)
           /\ IsObject(Work.kind, object)' <=> IsObject(Work.kind, object)
<1>1. Work' = Work
    BY DEF Work
<1>2. FromThrift(object)' = FromThrift(object)
    BY <1>1 DEF FromThrift
<1>3. ASSUME NEW r PROVE Current(r)' <=> Current(r)
    BY <1>1 DEF Current, FromThrift, ToThriftFrom
<1>4. ASSUME NEW comps PROVE Covers(comps)' <=> Covers(comps)
    BY <1>1 DEF Covers
<1> QED
    BY <1>1, <1>2, <1>3, <1>4

\* Who else may change the object stays so in a step of u.
LEMMA OthersMaster ==
    ASSUME NEW u \in Users, Aside(u), NEW v \in Users \ {u}
    PROVE  Master(v)' <=> Master(v)
<1>1. known'[v] = known[v] /\ req'[v] = req[v] /\ UNCHANGED <<work, object>>
    BY DEF Aside
<1>2. Holds(v)' <=> Holds(v)
    BY <1>1, Zenon DEF Holds, Calling
<1>3. Covers(known[v].comps)' <=> Covers(known[v].comps)
    BY <1>1, Zenon DEF Covers, Work
<1> QED
    BY <1>1, <1>2, <1>3, Zenon DEF Master

\* No alter is on its way.
Quiet == \A c \in Conns : \A q \in inbox[c] : q.op # "alter"

\* u sends q on c: if q is an alter, of the object as it is and when there is no
\* other.
Sends(u, c, q) ==
    /\ inbox'[c] = {q} /\ q \in req'[u] /\ c \in cn'[u] /\ pc'[u] = "wait"
    /\ q.op = "alter" => Current(q) /\ Master(u) /\ Quiet

\* A step of u in which nothing but that is sent, and in which u goes on being
\* the one who may change the object while its alter is on its way.
LEMMA EditsKept ==
    ASSUME LInv, KInv, OInv, EInv, NEW u \in Users, Aside(u), KInv', UInv',
           \A c \in Conns : \A q \in inbox'[c] : (q \in inbox[c] /\ inbox'[c] = inbox[c]) \/ Sends(u, c, q),
           \A c \in Conns : \A q \in inbox[c] :
               /\ q.op = "alter" /\ Master(u)
               /\ known[u].state = "altering" \/ (q \in req[u] /\ c \in cn[u])
               => Master(u)' /\ (known'[u].state = "altering" \/ (q \in req'[u] /\ c \in cn'[u])),
           \A r \in req'[u] : r.op = "alter" /\ pc'[u] = "dial" => Current(r) /\ Quiet,
           Fresh(u)' => copy'[u] \subseteq {FromThrift(object)}
    PROVE  EInv'
<1>1. UNCHANGED <<work, object>>
    BY DEF Aside
<1>2. work' \in DOMAIN Workloads /\ IsObject(Work.kind, object)'
    BY <1>1, ObjectKept, Zenon DEF EInv
<1>4. ASSUME NEW v \in Users, NEW r \in req'[v], r.op = "alter" PROVE Master(v)'
    <2>1. known'[v].state = "ACQUIRED" /\ Covers(known[v].comps)'
        BY <1>4 DEF KInv, Asks
    <2>2. \A q \in req'[v] : q = r
        BY <1>4, Zenon DEF KInv, IsOption
    <2> QED
        BY <1>4, <2>1, <2>2, Zenon DEF Master, Holds, Calling
<1>5. ASSUME NEW c \in Conns, NEW r \in inbox'[c], r.op = "alter"
      PROVE  /\ Current(r)'
             /\ \E v \in Users :
                 Master(v)' /\ (known'[v].state = "altering" \/ (r \in req'[v] /\ c \in cn'[v]))
    <2>1. CASE Sends(u, c, r)
        BY <1>1, <1>4, <1>5, <2>1, ObjectKept, Zenon DEF Sends
    <2>2. CASE r \in inbox[c]
        <3>1. Current(r)'
            BY <1>1, <1>5, <2>2, ObjectKept, Zenon DEF EInv
        <3>2. PICK v \in Users :
                Master(v) /\ (known[v].state = "altering" \/ (r \in req[v] /\ c \in cn[v]))
            BY <1>5, <2>2, Zenon DEF EInv
        <3>3. CASE v = u
            BY <1>5, <2>2, <3>1, <3>2, <3>3, Zenon
        <3>4. CASE v # u
            <4>1. Master(v)' /\ known'[v] = known[v] /\ req'[v] = req[v] /\ cn'[v] = cn[v]
                BY <3>2, <3>4, OthersMaster DEF Aside
            <4> QED
                BY <3>1, <3>2, <4>1
        <3> QED
            BY <3>3, <3>4
    <2> QED
        BY <1>5, <2>1, <2>2
<1>6. ASSUME NEW c \in Conns, NEW d \in Conns, NEW r \in inbox'[c], NEW q \in inbox'[d],
             r.op = "alter", q.op = "alter"
      PROVE  c = d
    <2>1. CASE r \in inbox[c] /\ q \in inbox[d]
        BY <1>6, <2>1, Zenon DEF EInv
    <2>2. CASE Sends(u, c, r) /\ Sends(u, d, q)
        <3>1. Quiet /\ c \in cn'[u] /\ d \in cn'[u]
            BY <1>6, <2>2, Zenon DEF Sends
        <3> QED
            BY <3>1 DEF UInv
    <2>3. CASE (Sends(u, c, r) /\ q \in inbox[d]) \/ (Sends(u, d, q) /\ r \in inbox[c])
        BY <1>6, <2>3, Zenon DEF Sends, Quiet
    <2> QED
        BY <1>6, <2>1, <2>2, <2>3, Zenon
<1>7. ASSUME NEW v \in Users, NEW r \in req'[v], r.op = "alter", pc'[v] = "dial"
      PROVE  Current(r)' /\ \A c \in Conns : \A q \in inbox'[c] : q.op # "alter"
    <2>1. Current(r) /\ Quiet
        BY <1>7 DEF EInv, Quiet, Aside
    <2>2. ASSUME NEW c \in Conns, NEW q \in inbox'[c], q.op = "alter" PROVE FALSE
        <3>1. Sends(u, c, q)
            BY <2>1, <2>2, Zenon DEF Quiet
        <3>2. v # u
            BY <1>7, <3>1 DEF Sends
        <3>3. Master(v) /\ Master(u)
            BY <1>4, <1>7, <2>2, <3>1, <3>2, OthersMaster DEF Sends
        <3> QED
            BY <3>2, <3>3, OneMaster, Zenon
    <2> QED
        BY <1>1, <2>1, <2>2, ObjectKept, Zenon
<1>8. ASSUME NEW v \in Users, Fresh(v)'
      PROVE  copy'[v] \subseteq {FromThrift(object)'}
    <2>1. CASE v = u
        BY <1>1, <1>8, <2>1, ObjectKept, Zenon
    <2>2. CASE v # u
        <3>1. known'[v] = known[v] /\ copy'[v] = copy[v] /\ req'[v] = req[v] /\ (Master(v)' <=> Master(v))
            BY <2>2, OthersMaster DEF Aside
        <3>2. Fresh(v)
            BY <1>8, <3>1, Zenon DEF Fresh, Calling
        <3> QED
            BY <1>1, <3>1, <3>2, ObjectKept, Zenon DEF EInv
    <2> QED
        BY <2>1, <2>2
<1>9. ASSUME NEW v \in Users, Master(v)', Calling(v, "get")', NEW rep \in Heard(v)'
      PROVE  rep.obj = object'
    <2>1. v # u
        BY <1>9 DEF Aside
    <2>2. Master(v) /\ req'[v] = req[v] /\ rep \in Heard(v)
        BY <1>9, <2>1, OthersMaster DEF Aside
    <2>3. Calling(v, "get")
        BY <1>9, <2>2, Zenon DEF Calling
    <2> QED
        BY <1>1, <2>2, <2>3, Zenon DEF EInv
<1> QED
    BY <1>2, <1>5, <1>6, <1>7, <1>8, <1>9, Zenon DEF EInv

\* A step of u leaves what the others know and ask for as it was.
LEMMA KnowsKept ==
    ASSUME KInv, NEW u \in Users, Aside(u),
           known'[u] = [id |-> known'[u].id, comps |-> known'[u].comps, state |-> known'[u].state],
           known'[u].id \in 0 .. nextLock,
           known'[u].state \in {"none", "ACQUIRED", "WAITING", "unsure", "altering"},
           pc'[u] = "idle" => req'[u] = {}, IsOption(req'[u]),
           \A q \in req'[u] : Asks(u, q)'
    PROVE  KInv'
<1>1. nextLock' = nextLock
    BY DEF Aside, avars
<1>2. ASSUME NEW v \in Users
      PROVE  /\ known'[v] = [id |-> known'[v].id, comps |-> known'[v].comps, state |-> known'[v].state]
             /\ known'[v].id \in 0 .. nextLock'
             /\ known'[v].state \in {"none", "ACQUIRED", "WAITING", "unsure", "altering"}
             /\ pc'[v] = "idle" => req'[v] = {}
             /\ IsOption(req'[v])
             /\ \A q \in req'[v] : Asks(v, q)'
    <2>1. CASE v = u
        BY <1>1, <2>1, Zenon
    <2>2. CASE v # u
        <3>1. known'[v] = known[v] /\ req'[v] = req[v] /\ pc'[v] = pc[v]
            BY <2>2 DEF Aside
        <3>2. ASSUME NEW q \in req'[v] PROVE Asks(v, q)'
            <4>1. Asks(v, q)
                BY <3>1, <3>2 DEF KInv
            <4>2. Covers(known[v].comps)' <=> Covers(known[v].comps)
                BY <3>1, Zenon DEF Covers, Work, Aside
            <4> QED
                BY <3>1, <4>1, <4>2, Zenon DEF Asks
        <3> QED
            BY <1>1, <3>1, <3>2 DEF KInv
    <2> QED
        BY <2>1, <2>2, Zenon
<1> QED
    BY <1>2 DEF KInv, Aside

\* A call that ends keeps the invariants.
LEMMA EndStep ==
    ASSUME LInv, KInv, OInv, EInv, NEW u \in Users, Aside(u), UInv', NEW r, req[u] = {r},
           Ends(u, r), req'[u] = {}, pc'[u] = "idle", UNCHANGED inbox,
           r.op = "alter" => \/ \A c \in cn[u] : inbox[c] = {}
                             \/ known'[u] = [known[u] EXCEPT !.state = "altering"]
    PROVE  KInv' /\ OInv' /\ EInv'
<1> DEFINE k == known[u]
<1>1. k = [id |-> k.id, comps |-> k.comps, state |-> k.state] /\ k.id \in 0 .. nextLock /\ Asks(u, r)
    BY DEF KInv
<1>2. nextLock' = nextLock /\ locks' = locks
    BY DEF Aside, avars
<1>3. ~Calling(u, "unlock")' /\ ~Calling(u, "alter")'
    BY Zenon DEF Calling
<1>4. \A op : Calling(u, op) <=> r.op = op
    BY Zenon DEF Calling
<1>5. /\ known'[u] = [id |-> known'[u].id, comps |-> known'[u].comps, state |-> known'[u].state]
      /\ known'[u].id \in 0 .. nextLock
      /\ known'[u].state \in {"none", "ACQUIRED", "WAITING", "unsure", "altering"}
      /\ Holds(u)' => Owns(u, known'[u].id) /\ locks[known'[u].id] = Known(u)'
      /\ known'[u].id = 0 \/ known'[u].id = k.id \/ Owns(u, known'[u].id)
    <2>1. ASSUME NEW x \in Heard(u), Grants(r, x),
                 known'[u] = [id |-> x.lock, comps |-> r.comps, state |-> x.state]
          PROVE  <1>5!:
        <3>1. /\ x.lock \in DOMAIN locks /\ x.state \in {"ACQUIRED", "WAITING"}
              /\ locks[x.lock] = [comps |-> r.comps, state |-> x.state]
            <4>1. Says(u, r, x)
                BY <2>1 DEF OInv
            <4> QED
                BY <2>1, <4>1 DEF Says
        <3>2. Owns(u, x.lock)
            BY <2>1, Zenon DEF Owns
        <3>3. known'[u].id = x.lock /\ known'[u].comps = r.comps /\ known'[u].state = x.state
            BY <2>1
        <3>4. Known(u)' = [comps |-> r.comps, state |-> x.state]
            BY <3>1, <3>3 DEF Known
        <3>5. x.lock \in 0 .. nextLock
            BY <3>1 DEF LInv
        <3> QED
            BY <2>1, <3>1, <3>2, <3>3, <3>4, <3>5
    <2>2. CASE known'[u] = NoLock
        <3>1. known'[u].state = "none" /\ known'[u].id = 0
            BY <2>2 DEF NoLock
        <3>2. ~Holds(u)'
            BY <3>1 DEF Holds
        <3> QED
            BY <2>2, <3>1, <3>2 DEF NoLock, LInv
    <2>3. CASE known'[u] = [k EXCEPT !.state = "unsure"]
        <3>1. known'[u] = [id |-> k.id, comps |-> k.comps, state |-> "unsure"]
            BY <1>1, <2>3
        <3>2. ~Holds(u)'
            BY <3>1 DEF Holds
        <3> QED
            BY <1>1, <3>1, <3>2
    <2>4. CASE r.op # "unlock" /\ Holds(u) /\ known'[u] = [k EXCEPT !.state = "altering"] /\ k.state = "ACQUIRED"
        <3>1. known'[u] = [id |-> k.id, comps |-> k.comps, state |-> "altering"]
            BY <1>1, <2>4
        <3>2. Owns(u, k.id) /\ locks[k.id] = Known(u)
            BY <2>4, Zenon DEF OInv, Owns
        <3>3. Known(u)' = Known(u)
            BY <2>4, <3>1 DEF Known
        <3> QED
            BY <1>1, <3>1, <3>2, <3>3
    <2>5. CASE r.op # "unlock" /\ known'[u] = k
        <3>1. Holds(u)' => Holds(u)
            BY <1>4, <2>5, Zenon DEF Holds
        <3>2. Holds(u) => Owns(u, k.id) /\ locks[k.id] = Known(u)
            BY Zenon DEF OInv, Owns
        <3>3. Known(u)' = Known(u)
            BY <2>5, Zenon DEF Known
        <3>4. k.state \in {"none", "ACQUIRED", "WAITING", "unsure", "altering"}
            BY DEF KInv
        <3> QED
            BY <1>1, <2>5, <3>1, <3>2, <3>3, <3>4
    <2>6. r.op = "alter" => k.state = "ACQUIRED" /\ Holds(u)
        BY <1>1, <1>4 DEF Asks, Holds
    <2> QED
        BY <2>1, <2>2, <2>3, <2>4, <2>5, <2>6, Zenon DEF Ends
<1>6. KInv'
    BY <1>2, <1>5, KnowsKept DEF IsOption
<1>7. OInv'
    <2>1. PICK i : i = known'[u].id
        OBVIOUS
    <2> QED
        BY <1>5, <1>6, <2>1, OwnersKept
<1>8. ASSUME NEW c \in Conns, NEW q \in inbox[c], q.op = "alter", Master(u),
             known[u].state = "altering" \/ (q \in req[u] /\ c \in cn[u])
      PROVE  Master(u)' /\ known'[u].state = "altering"
    <2>1. known'[u].comps = k.comps /\ known'[u].state = "altering"
        <3>1. CASE k.state = "altering"
            <4>1. r.op \notin {"lock", "check_lock", "unlock", "get", "alter"}
                BY <1>1, <3>1 DEF Asks
            <4>2. known'[u] = k
                BY <4>1 DEF Ends
            <4> QED
                BY <3>1, <4>2
        <3>2. CASE q \in req[u] /\ c \in cn[u]
            <4>1. known'[u] = [k EXCEPT !.state = "altering"]
                BY <1>8, <3>2
            <4> QED
                BY <1>1, <4>1
        <3> QED
            BY <1>8, <3>1, <3>2
    <2>2. Covers(known[u].comps)'
        BY <1>8, <2>1, Zenon DEF Master, Covers, Work, Aside
    <2> QED
        BY <1>3, <2>1, <2>2, Zenon DEF Master, Holds
<1>9. Fresh(u)' => copy'[u] \subseteq {FromThrift(object)}
    <2>1. ASSUME Fresh(u)', r.op \notin {"unlock", "alter"}, known'[u] = k PROVE Fresh(u) /\ Master(u)
        <3>1. Covers(known[u].comps)
            BY <2>1, Zenon DEF Fresh, Master, Covers, Work, Aside
        <3>2. Master(u)
            BY <1>4, <2>1, <3>1 DEF Fresh, Master, Holds
        <3> QED
            BY <1>4, <2>1, <3>2 DEF Fresh
    <2>2. CASE copy'[u] = {}
        BY <2>2
    <2>3. CASE r.op = "get" /\ known'[u] = k /\ \A o \in copy'[u] : \E x \in Heard(u) : o = FromThrift(x.obj)
        BY <1>4, <2>1, <2>3 DEF EInv
    <2>4. CASE r.op \notin {"unlock", "alter"} /\ known'[u] = k /\ copy'[u] = copy[u]
        BY <1>4, <2>1, <2>4 DEF EInv
    <2> QED
        BY <2>2, <2>3, <2>4 DEF Ends
<1>10. EInv'
    BY <1>6, <1>8, <1>9, EditsKept
<1> QED
    BY <1>6, <1>7, <1>10

\* A call that goes on keeps them, if it sends an alter only when it may.
LEMMA StayStep ==
    ASSUME LInv, KInv, OInv, EInv, NEW u \in Users, Aside(u), UInv',
           req'[u] = req[u], known'[u] = known[u], copy'[u] = copy[u], pc'[u] # "idle",
           \A c \in Conns : \A q \in inbox'[c] : (q \in inbox[c] /\ inbox'[c] = inbox[c]) \/ Sends(u, c, q),
           \A r \in req[u], c \in cn[u] : r.op = "alter" => inbox[c] = {},
           \A r \in req[u] : r.op = "alter" => pc'[u] # "dial"
    PROVE  KInv' /\ OInv' /\ EInv'
<1>1. UNCHANGED <<work, object>>
    BY DEF Aside
<1>2. KInv'
    <2>1. ASSUME NEW q \in req'[u] PROVE Asks(u, q)'
        <3>1. Asks(u, q)
            BY <2>1 DEF KInv
        <3>2. Covers(known[u].comps)' <=> Covers(known[u].comps)
            BY <1>1, Zenon DEF Covers, Work
        <3> QED
            BY <3>1, <3>2, Zenon DEF Asks
    <2>2. /\ known[u] = [id |-> known[u].id, comps |-> known[u].comps, state |-> known[u].state]
          /\ known[u].id \in 0 .. nextLock
          /\ known[u].state \in {"none", "ACQUIRED", "WAITING", "unsure", "altering"}
          /\ IsOption(req[u])
        BY DEF KInv
    <2> QED
        BY <2>1, <2>2, KnowsKept, Zenon
<1>3. (Holds(u)' <=> Holds(u)) /\ Known(u)' = Known(u) /\ (Calling(u, "alter")' <=> Calling(u, "alter"))
    BY Zenon DEF Holds, Known, Calling
<1>4. Master(u)' <=> Master(u)
    <2>1. Covers(known[u].comps)' <=> Covers(known[u].comps)
        BY <1>1, Zenon DEF Covers, Work
    <2> QED
        BY <1>3, <2>1, Zenon DEF Master
<1>5. OInv'
    <2>1. PICK i : i = known'[u].id
        BY Zenon
    <2>2. Holds(u)' => Owns(u, i) /\ locks[i] = Known(u)'
        <3>1. i = known[u].id
            BY <2>1, Zenon
        <3>2. Holds(u) => Owns(u, i) /\ locks[i] = Known(u)
            BY <3>1, Zenon DEF OInv, Owns
        <3> QED
            BY <1>3, <3>2, Zenon
    <2>3. \A c \in Conns : \A r \in inbox'[c] : r \in inbox[c] \/ r \in req'[u]
        BY Zenon DEF Sends
    <2> QED
        BY <1>2, <2>1, <2>2, <2>3, OwnersKept, Zenon
<1>6. ASSUME NEW c \in Conns, NEW q \in inbox[c], q.op = "alter", Master(u),
             known[u].state = "altering" \/ (q \in req[u] /\ c \in cn[u])
      PROVE  Master(u)' /\ known'[u].state = "altering"
    BY <1>4, <1>6, Zenon
<1>7. Fresh(u)' => copy'[u] \subseteq {FromThrift(object)}
    BY <1>3, <1>4, Zenon DEF EInv, Fresh
<1>8. EInv'
    BY <1>2, <1>6, <1>7, EditsKept
<1> QED
    BY <1>2, <1>5, <1>8, Zenon

\* A call that begins: an alter is of the object as it is, as its user read it
\* under the lock it still has, and no other is on its way.
LEMMA CallStep ==
    ASSUME RInv, LInv, KInv, OInv, EInv, NEW u \in Users, Aside(u), UInv', Call(u)
    PROVE  KInv' /\ OInv' /\ EInv'
<1>1. PICK r \in Offered(u) :
        /\ NewCall(u, r)
        /\ \/ pc' = [pc EXCEPT ![u] = "dial"] /\ UNCHANGED svars
           \/ \E c \in cn[u] : Send(c, r) /\ pc' = [pc EXCEPT ![u] = "wait"]
    BY Zenon DEF Call
<1>2. pc[u] = "idle" /\ req[u] = {} /\ UNCHANGED <<work, object, cn, known, copy>>
    BY DEF Call, KInv
<1>3. req'[u] = {r} /\ pc'[u] # "idle"
    BY <1>1 DEF NewCall, RInv, UInv
<1>4. /\ Asks(u, r)
      /\ r.op = "alter" =>
            r.edit \in {"params", "created"} /\ \E o \in copy[u] : r.obj = ToThriftFrom(Edited(o, r.edit))
    BY OfferedAsks
<1>5. Asks(u, r)'
    <2>1. Covers(known[u].comps)' <=> Covers(known[u].comps)
        BY <1>2, Zenon DEF Covers, Work
    <2> QED
        BY <1>2, <1>4, <2>1, Zenon DEF Asks
<1>6. KInv'
    <2>1. /\ known[u] = [id |-> known[u].id, comps |-> known[u].comps, state |-> known[u].state]
          /\ known[u].id \in 0 .. nextLock
          /\ known[u].state \in {"none", "ACQUIRED", "WAITING", "unsure", "altering"}
        BY DEF KInv
    <2>2. IsOption(req'[u])
        BY <1>3 DEF IsOption
    <2> QED
        BY <1>2, <1>3, <1>5, <2>1, <2>2, KnowsKept, Zenon
<1>7. ~Calling(u, "unlock") /\ ~Calling(u, "alter")
    BY <1>2 DEF Calling
<1>8. \A op : Calling(u, op)' <=> r.op = op
    BY <1>3, Zenon DEF Calling
<1>9. (Holds(u)' => Holds(u)) /\ Known(u)' = Known(u) /\ (Master(u)' => Master(u))
    <2>1. (Holds(u)' => Holds(u)) /\ Known(u)' = Known(u)
        BY <1>2, <1>7, Zenon DEF Holds, Known
    <2>2. Covers(known[u].comps)' <=> Covers(known[u].comps)
        BY <1>2, Zenon DEF Covers, Work
    <2> QED
        BY <1>2, <2>1, <2>2, Zenon DEF Master
<1>10. r.op = "alter" => Current(r) /\ Master(u) /\ Quiet
    <2> SUFFICES ASSUME r.op = "alter" PROVE Current(r) /\ Master(u) /\ Quiet
        OBVIOUS
    <2>1. known[u].state = "ACQUIRED" /\ Master(u)
        BY <1>4, <1>7, Zenon DEF Asks, Master, Holds
    <2>2. copy[u] \subseteq {FromThrift(object)}
        BY <1>7, <2>1 DEF EInv, Fresh
    <2>3. Current(r)
        BY <1>4, <2>2 DEF Current
    <2>4. ASSUME NEW c \in Conns, NEW q \in inbox[c], q.op = "alter" PROVE FALSE
        <3>1. PICK v \in Users :
                Master(v) /\ (known[v].state = "altering" \/ (q \in req[v] /\ c \in cn[v]))
            BY <2>4 DEF EInv
        <3>2. v = u
            BY <2>1, <3>1, OneMaster
        <3> QED
            BY <1>2, <2>1, <3>1, <3>2, Zenon
    <2> QED
        BY <2>1, <2>3, <2>4 DEF Quiet
<1>11. ASSUME NEW c \in Conns, NEW q \in inbox'[c]
       PROVE  (q \in inbox[c] /\ inbox'[c] = inbox[c]) \/ Sends(u, c, q)
    <2>1. CASE UNCHANGED svars
        BY <1>11, <2>1, Zenon DEF svars
    <2>2. ASSUME NEW d \in cn[u], Send(d, r), pc' = [pc EXCEPT ![u] = "wait"]
          PROVE  (q \in inbox[c] /\ inbox'[c] = inbox[c]) \/ Sends(u, c, q)
        <3>1. inbox' = [inbox EXCEPT ![d] = IF phase[d] = "none" THEN {} ELSE {r}]
            BY <2>2, Zenon DEF Send
        <3>2. CASE c # d
            <4>1. inbox'[c] = inbox[c]
                BY <3>1, <3>2 DEF RInv, CInv
            <4> QED
                BY <1>11, <4>1
        <3>3. CASE c = d
            <4>1. inbox'[c] = {r} /\ q = r
                BY <1>11, <3>1, <3>3 DEF RInv, CInv
            <4>2. pc'[u] = "wait"
                BY <2>2 DEF RInv, UInv
            <4> QED
                BY <1>2, <1>3, <1>10, <2>2, <3>3, <4>1, <4>2, Zenon DEF Sends
        <3> QED
            BY <3>2, <3>3, Zenon
    <2> QED
        BY <1>1, <2>1, <2>2
<1>12. OInv'
    <2>1. PICK i : i = known'[u].id
        OBVIOUS
    <2>2. i = known[u].id
        BY <1>2, <2>1, Zenon
    <2>3. Holds(u) => Owns(u, i) /\ locks[i] = Known(u)
        BY <2>2, Zenon DEF OInv, Owns
    <2>4. \A c \in Conns : \A q \in inbox'[c] : q \in inbox[c] \/ q \in req'[u]
        BY <1>11, Zenon DEF Sends
    <2> QED
        BY <1>6, <1>9, <2>1, <2>2, <2>3, <2>4, OwnersKept, Zenon
<1>13. ASSUME NEW c \in Conns, NEW q \in inbox[c], q.op = "alter", Master(u),
              known[u].state = "altering" \/ (q \in req[u] /\ c \in cn[u])
       PROVE  Master(u)' /\ known'[u].state = "altering"
    <2>1. known'[u] = known[u] /\ known[u].state = "altering"
        BY <1>2, <1>13, Zenon
    <2>2. r.op # "unlock"
        BY <1>4, <2>1, Zenon DEF Asks
    <2>3. Holds(u)'
        BY <1>8, <2>1, <2>2 DEF Holds
    <2>4. Covers(known[u].comps)'
        BY <1>2, <1>13, Zenon DEF Master, Covers, Work
    <2> QED
        BY <2>1, <2>3, <2>4, Zenon DEF Master
<1>14. \A q \in req'[u] : q.op = "alter" /\ pc'[u] = "dial" => Current(q) /\ Quiet
    BY <1>3, <1>10
<1>15. Fresh(u)' => copy'[u] \subseteq {FromThrift(object)}
    BY <1>2, <1>7, <1>9, Zenon DEF EInv, Fresh
<1>16. EInv'
    BY <1>6, <1>11, <1>13, <1>14, <1>15, EditsKept, Zenon
<1> QED
    BY <1>6, <1>12, <1>16

\* Every step of a user keeps the invariants.
LEMMA UserStep ==
    ASSUME RInv, MInv, LInv, KInv, OInv, EInv, NEW u \in Users, User(u), RInv'
    PROVE  KInv' /\ OInv' /\ EInv'
<1>1. Aside(u) /\ UInv'
    BY UserAside DEF RInv
<1>2. pc[u] # "idle" => \E r : req[u] = {r}
    BY Zenon DEF RInv, UInv
<1>3. CASE Call(u)
    BY <1>1, <1>3, CallStep
<1>4. CASE Dial(u)
    <2>1. PICK c \in Free : Connect(c, The(req[u])) /\ cn' = [cn EXCEPT ![u] = {c}]
        BY <1>4, Zenon DEF Dial
    <2>2. pc[u] = "dial" /\ UNCHANGED <<req, known, copy>> /\ pc' = [pc EXCEPT ![u] = "wait"]
        BY <1>4 DEF Dial
    <2>3. PICK r : req[u] = {r}
        BY <1>2, <2>2
    <2>4. c \in Conns /\ inbox' = [inbox EXCEPT ![c] = {r}]
        BY <2>1, <2>3, TheOne, Zenon DEF Free, Connect
    <2>5. pc'[u] = "wait" /\ cn'[u] = {c}
        BY <2>1, <2>2 DEF RInv, UInv
    <2>6. r.op = "alter" => Current(r) /\ Master(u) /\ Quiet
        <3> SUFFICES ASSUME r.op = "alter" PROVE Current(r) /\ Master(u) /\ Quiet
            OBVIOUS
        <3>1. Current(r) /\ Quiet
            BY <2>2, <2>3, Zenon DEF EInv, Quiet
        <3>2. Asks(u, r) /\ ~Calling(u, "unlock")
            BY <2>3 DEF KInv, Calling
        <3> QED
            BY <3>1, <3>2, Zenon DEF Asks, Master, Holds
    <2>7. ASSUME NEW d \in Conns, NEW q \in inbox'[d]
          PROVE  (q \in inbox[d] /\ inbox'[d] = inbox[d]) \/ Sends(u, d, q)
        <3>1. CASE d # c
            <4>1. inbox'[d] = inbox[d]
                BY <2>4, <3>1 DEF RInv, CInv
            <4> QED
                BY <2>7, <4>1
        <3>2. CASE d = c
            <4>1. inbox'[d] = {r} /\ q = r
                BY <2>4, <2>7, <3>2 DEF RInv, CInv
            <4> QED
                BY <2>2, <2>3, <2>5, <2>6, <3>2, <4>1, Zenon DEF Sends
        <3> QED
            BY <3>1, <3>2, Zenon
    <2>8. \A q \in req[u], d \in cn[u] : q.op = "alter" => inbox[d] = {}
        BY <2>2 DEF RInv, UInv
    <2> QED
        BY <1>1, <2>2, <2>5, <2>7, <2>8, StayStep, Zenon
<1>5. ASSUME NEW rep, Learns(u, rep), UNCHANGED inbox, NEW r, req[u] = {r},
             rep = {} \/ \E x \in Heard(u) : rep = {x},
             rep # {} => \A c \in cn[u] : inbox[c] = {}
      PROVE  KInv' /\ OInv' /\ EInv'
    <2>1. /\ Ends(u, r)
          /\ r.op = "alter" /\ rep = {} => known'[u] = [known[u] EXCEPT !.state = "altering"]
        BY <1>5, LearnsEnds
    <2>2. req'[u] = {} /\ pc'[u] = "idle"
        BY <1>5 DEF Learns, RInv, UInv
    <2>3. r.op = "alter" => \/ \A c \in cn[u] : inbox[c] = {}
                            \/ known'[u] = [known[u] EXCEPT !.state = "altering"]
        BY <1>5, <2>1
    <2> QED
        BY <1>1, <1>5, <2>1, <2>2, <2>3, EndStep
<1>6. CASE GivesUp(u)
    <2>1. pc[u] = "dial" /\ Learns(u, {}) /\ UNCHANGED inbox
        BY <1>6 DEF GivesUp, svars
    <2> QED
        BY <1>2, <1>5, <2>1, Zenon
<1>7. CASE Returns(u)
    <2>1. PICK c \in cn[u] : Receive(c) /\ Learns(u, outbox[c])
        BY <1>7 DEF Returns
    <2>2. pc[u] = "wait" /\ c \in Conns /\ \A d \in cn[u] : d = c
        BY <1>7, <2>1 DEF Returns, RInv, UInv
    <2>3. outbox[c] # {} /\ UNCHANGED inbox /\ inbox[c] = {}
        BY <2>1, <2>2 DEF Receive, RInv, CInv
    <2>4. \E x \in Heard(u) : outbox[c] = {x}
        <3>1. IsOption(outbox[c])
            BY <2>2 DEF MInv, IsOption
        <3>2. \E x : outbox[c] = {x}
            BY <2>3, <3>1, OptionCases, Zenon
        <3> QED
            BY <2>1, <3>2 DEF Heard
    <2> QED
        BY <1>2, <1>5, <2>1, <2>2, <2>3, <2>4, Zenon
<1>8. CASE ReplyLost(u)
    <2>1. PICK c \in cn[u] : Leave(c)
        BY <1>8, Zenon DEF ReplyLost
    <2>2. pc[u] = "wait" /\ UNCHANGED inbox
        BY <1>8, <2>1 DEF ReplyLost, Leave
    <2>3. PICK r : req[u] = {r}
        BY <1>2, <2>2
    <2>4. CASE Learns(u, {})
        BY <1>5, <2>2, <2>3, <2>4, Zenon
    <2>5. CASE Idempotent(The(req[u])) /\ pc' = [pc EXCEPT ![u] = "dial"] /\ UNCHANGED <<req, known, copy>>
        <3>1. r.op = "get"
            BY <2>3, <2>5, TheOne, Zenon DEF Idempotent
        <3>2. pc'[u] = "dial"
            BY <2>5 DEF RInv, UInv
        <3> QED
            BY <1>1, <2>2, <2>3, <2>5, <3>1, <3>2, StayStep, Zenon
    <2> QED
        BY <1>8, <2>4, <2>5 DEF ReplyLost
<1>9. CASE Cancelled(u)
    <2>1. pc[u] = "wait" /\ Learns(u, {}) /\ \E c \in cn[u] : Leave(c)
        BY <1>9 DEF Cancelled
    <2>2. UNCHANGED inbox
        BY <2>1, Zenon DEF Leave
    <2> QED
        BY <1>2, <1>5, <2>1, <2>2, Zenon
<1> QED
    BY <1>3, <1>4, <1>6, <1>7, <1>8, <1>9 DEF User

-----------------------------------------------------------------------------
(* The server's steps                                                      *)

\* Messages get lost or go on, and the one new reply is rep, to the request q
\* that came on c.
Delivers(c, q, rep) ==
    /\ UNCHANGED <<uvars, work>>
    /\ \A d \in Conns : inbox'[d] \subseteq inbox[d]
    /\ \A v \in Users : \A x \in Heard(v)' :
        x \in Heard(v) \/ (x = rep /\ req[v] = {q} /\ c \in cn[v])

\* What the users know and ask for is not changed by that.
LEMMA DeliversKeeps ==
    ASSUME NEW c, NEW q, NEW rep, Delivers(c, q, rep), NEW v \in Users
    PROVE  /\ Holds(v)' <=> Holds(v)
           /\ Known(v)' = Known(v)
           /\ Master(v)' <=> Master(v)
           /\ Fresh(v)' <=> Fresh(v)
           /\ \A op : Calling(v, op)' <=> Calling(v, op)
           /\ UNCHANGED <<known, copy, req, pc, cn, work>>
<1>1. UNCHANGED <<known, copy, req, pc, cn, work>>
    BY Zenon DEF Delivers, uvars
<1>2. \A op : Calling(v, op)' <=> Calling(v, op)
    BY <1>1, Zenon DEF Calling
<1>3. (Holds(v)' <=> Holds(v)) /\ Known(v)' = Known(v)
    BY <1>1, <1>2, Zenon DEF Holds, Known
<1>4. Covers(known[v].comps)' <=> Covers(known[v].comps)
    BY <1>1, Zenon DEF Covers, Work
<1>5. (Master(v)' <=> Master(v)) /\ (Fresh(v)' <=> Fresh(v))
    BY <1>1, <1>2, <1>3, <1>4, Zenon DEF Master, Fresh
<1> QED
    BY <1>1, <1>2, <1>3, <1>5, Zenon

\* The one new owner there may be is the one whose request rep answers.
LEMMA DeliversOwns ==
    ASSUME NEW c, NEW q, NEW rep, Delivers(c, q, rep), NEW v \in Users, NEW i, Owns(v, i)'
    PROVE  Owns(v, i) \/ (Grants(q, rep) /\ rep.lock = i /\ c \in cn[v])
<1>1. UNCHANGED <<known, req>> /\ (Holds(v)' <=> Holds(v))
    BY DeliversKeeps, Zenon
<1>2. CASE Holds(v)' /\ known'[v].id = i
    BY <1>1, <1>2, Zenon DEF Owns
<1>3. ASSUME NEW r \in req'[v], NEW x \in Heard(v)', Grants(r, x), x.lock = i
      PROVE  Owns(v, i) \/ (Grants(q, rep) /\ rep.lock = i /\ c \in cn[v])
    <2>1. r \in req[v]
        BY <1>1, <1>3
    <2>2. CASE x \in Heard(v)
        BY <1>3, <2>1, <2>2, Zenon DEF Owns
    <2>3. CASE x = rep /\ req[v] = {q} /\ c \in cn[v]
        BY <1>3, <2>1, <2>3
    <2> QED
        BY <1>3, <2>2, <2>3, Zenon DEF Delivers
<1> QED
    BY <1>2, <1>3 DEF Owns, Grants

\* What the users know and ask for still fits.
LEMMA DeliverKnows ==
    ASSUME KInv, NEW c, NEW q, NEW rep, Delivers(c, q, rep),
           \A i \in 0 .. nextLock : i \in 0 .. nextLock'
    PROVE  KInv'
<1>1. UNCHANGED <<known, copy, req, pc, cn, work>>
    BY Zenon DEF Delivers, uvars
<1>2. ASSUME NEW v \in Users, NEW r \in req[v] PROVE Asks(v, r)'
    <2>1. Asks(v, r)
        BY <1>2, Zenon DEF KInv
    <2>2. Covers(known[v].comps)' <=> Covers(known[v].comps)
        BY <1>1, Zenon DEF Covers, Work
    <2> QED
        BY <1>1, <2>1, <2>2, Zenon DEF Asks
<1> QED
    BY <1>1, <1>2, Zenon DEF KInv

\* A reply to a request that does not ask for a lock, or is not given one, leaves
\* the locks that are owned with their owners.
LEMMA DeliverOwners ==
    ASSUME KInv, OInv, NEW c, NEW q, NEW rep, Delivers(c, q, rep),
           ~Grants(q, rep), nextLock' = nextLock, DOMAIN locks' \subseteq DOMAIN locks,
           \A v \in Users : \A i : Owns(v, i) => i \in DOMAIN locks' /\ locks'[i] = locks[i],
           \A v \in Users : req[v] = {q} /\ q.op = "check_lock" /\ rep.err = "ok" => rep.state = known[v].state
    PROVE  KInv' /\ OInv'
<1>1. UNCHANGED <<known, copy, req, pc, cn, work>>
    BY DEF Delivers, uvars
<1>2. ASSUME NEW v \in Users, NEW i, Owns(v, i)' PROVE Owns(v, i)
    BY <1>2, DeliversOwns, Zenon
<1>3. KInv'
    BY DeliverKnows, Zenon
<1>4. ASSUME NEW v \in Users, Holds(v)'
      PROVE  known'[v].id \in DOMAIN locks' /\ locks'[known'[v].id] = Known(v)'
    <2>1. Holds(v) /\ Known(v)' = Known(v) /\ known'[v] = known[v]
        BY <1>1, <1>4, DeliversKeeps, Zenon
    <2>2. PICK i : i = known[v].id
        BY Zenon
    <2>3. Owns(v, i) /\ locks[i] = Known(v)
        BY <2>1, <2>2, Zenon DEF OInv, Owns
    <2> QED
        BY <2>1, <2>2, <2>3, Zenon
<1>5. ASSUME NEW v \in Users, NEW r \in req'[v], NEW x \in Heard(v)' PROVE Says(v, r, x)'
    <2>1. r \in req[v] /\ known'[v] = known[v]
        BY <1>1, <1>5, Zenon
    <2>2. CASE x \in Heard(v)
        <3>1. Says(v, r, x)
            BY <2>1, <2>2, Zenon DEF OInv
        <3>2. Grants(r, x) => Owns(v, x.lock)
            BY <2>1, <2>2, Zenon DEF Owns
        <3> QED
            BY <2>1, <3>1, <3>2, Zenon DEF Says, Grants
    <2>3. CASE x = rep /\ req[v] = {q}
        BY <2>1, <2>3, Zenon DEF Says, Grants
    <2> QED
        BY <1>5, <2>2, <2>3, Zenon DEF Delivers
<1>6. ASSUME NEW w \in Users, NEW v \in Users, NEW i \in DOMAIN locks', Owns(v, i)',
             Owns(w, i)' \/ known'[w].id = i
      PROVE  w = v
    BY <1>1, <1>2, <1>6, Zenon DEF OInv
<1>7. ASSUME NEW d \in Conns, NEW r \in inbox'[d], r.op = "unlock"
      PROVE  r.lock \in 0 .. nextLock' /\ \A v \in Users : ~Owns(v, r.lock)'
    BY <1>2, <1>7, Zenon DEF OInv, Delivers
<1>8. OInv'
    BY <1>4, <1>5, <1>6, <1>7, Zenon DEF OInv
<1> QED
    BY <1>3, <1>8, Zenon

\* As long as the object is not changed, what is said about it stays true.
LEMMA DeliverEdits ==
    ASSUME EInv, NEW c, NEW q, NEW rep, Delivers(c, q, rep), UNCHANGED object,
           q.op = "get" => rep.obj = object
    PROVE  EInv'
<1>1. UNCHANGED <<known, copy, req, pc, cn, work>> /\ UNCHANGED <<work, object>>
    BY DEF Delivers, uvars
<1>2. \A d \in Conns : \A r \in inbox'[d] : r \in inbox[d]
    BY DEF Delivers
<1>3. work' \in DOMAIN Workloads /\ IsObject(Work.kind, object)'
    BY <1>1, ObjectKept, Zenon DEF EInv
<1>4. ASSUME NEW d \in Conns, NEW r \in inbox'[d], r.op = "alter"
      PROVE  /\ Current(r)'
             /\ \E v \in Users :
                 Master(v)' /\ (known'[v].state = "altering" \/ (r \in req'[v] /\ d \in cn'[v]))
    <2>1. Current(r) /\ \E v \in Users :
                Master(v) /\ (known[v].state = "altering" \/ (r \in req[v] /\ d \in cn[v]))
        BY <1>2, <1>4, Zenon DEF EInv
    <2>2. Current(r)' <=> Current(r)
        BY <1>1, ObjectKept, Zenon
    <2>3. \A v \in Users : Master(v)' <=> Master(v)
        BY DeliversKeeps, Zenon
    <2> QED
        BY <1>1, <2>1, <2>2, <2>3, Zenon
<1>5. ASSUME NEW d \in Conns, NEW e \in Conns, NEW r \in inbox'[d], NEW p \in inbox'[e],
             r.op = "alter", p.op = "alter"
      PROVE  d = e
    BY <1>2, <1>5, Zenon DEF EInv
<1>6. ASSUME NEW v \in Users, NEW r \in req'[v], r.op = "alter", pc'[v] = "dial"
      PROVE  Current(r)' /\ \A d \in Conns : \A p \in inbox'[d] : p.op # "alter"
    BY <1>1, <1>2, <1>6, ObjectKept, Zenon DEF EInv
<1>7. ASSUME NEW v \in Users, Fresh(v)' PROVE copy'[v] \subseteq {FromThrift(object)'}
    BY <1>1, <1>7, ObjectKept, DeliversKeeps, Zenon DEF EInv
<1>8. ASSUME NEW v \in Users, Master(v)', Calling(v, "get")', NEW x \in Heard(v)'
      PROVE  x.obj = object'
    <2>1. Master(v) /\ Calling(v, "get")
        BY <1>8, DeliversKeeps, Zenon
    <2>2. CASE x \in Heard(v)
        BY <1>1, <2>1, <2>2, Zenon DEF EInv
    <2>3. CASE x = rep /\ req[v] = {q}
        BY <1>1, <2>1, <2>3, Zenon DEF Calling
    <2> QED
        BY <1>8, <2>2, <2>3, Zenon DEF Delivers
<1> QED
    BY <1>3, <1>4, <1>5, <1>6, <1>7, <1>8, Zenon DEF EInv

\* A handler that is given the request q answers it on the connection it came on.
LEMMA HandleDelivers ==
    ASSUME RInv, NEW c \in Conns, NEW q \in inbox[c], NEW rep, Process(c, rep),
           UNCHANGED <<uvars, work>>
    PROVE  Delivers(c, q, rep) /\ inbox'[c] = {}
<1>1. /\ inbox' = [inbox EXCEPT ![c] = {}]
      /\ answer' = [answer EXCEPT ![c] = {rep}]
      /\ outbox' = outbox
    BY DEF Process
<1>2. /\ \A d \in Conns : inbox'[d] = IF d = c THEN {} ELSE inbox[d]
      /\ \A d \in Conns : answer'[d] = IF d = c THEN {rep} ELSE answer[d]
    BY <1>1 DEF RInv, CInv
<1>3. UNCHANGED <<known, copy, req, pc, cn, work>>
    BY DEF uvars
<1>4. ASSUME NEW v \in Users, c \in cn[v] PROVE req[v] = {q}
    <2>1. pc[v] = "wait" /\ pc[v] # "idle"
        BY <1>4 DEF RInv, UInv
    <2>2. PICK r : req[v] = {r}
        BY <2>1 DEF RInv, UInv
    <2>3. inbox[c] \subseteq {r}
        BY <1>4, <2>1, <2>2 DEF RInv, UInv
    <2> QED
        BY <2>2, <2>3
<1>5. ASSUME NEW v \in Users, NEW x \in Heard(v)'
      PROVE  x \in Heard(v) \/ (x = rep /\ req[v] = {q} /\ c \in cn[v])
    <2>1. PICK d \in cn[v] : x \in answer'[d] \cup outbox'[d]
        BY <1>3, <1>5, Zenon DEF Heard
    <2>2. d \in Conns
        BY <2>1 DEF RInv, UInv
    <2>3. CASE x \in answer[d] \cup outbox[d]
        BY <2>1, <2>3 DEF Heard
    <2>4. CASE d = c /\ x = rep
        BY <1>4, <2>1, <2>4
    <2> QED
        BY <1>1, <1>2, <2>1, <2>2, <2>3, <2>4
<1> QED
    BY <1>2, <1>5 DEF Delivers

\* Any other step of the server only moves messages on, or loses them.
LEMMA MovesDeliver ==
    ASSUME RInv, Moves, UNCHANGED <<uvars, work>>, NEW c, NEW q, NEW rep
    PROVE  Delivers(c, q, rep)
<1>1. cn' = cn
    BY DEF uvars
<1>2. ASSUME NEW v \in Users, NEW x \in Heard(v)' PROVE x \in Heard(v)
    <2>1. PICK d \in cn[v] : x \in answer'[d] \cup outbox'[d]
        BY <1>1, <1>2 DEF Heard
    <2>2. d \in Conns
        BY <2>1 DEF RInv, UInv
    <2>3. x \in answer[d] \cup outbox[d]
        BY <2>1, <2>2 DEF Moves
    <2> QED
        BY <2>1, <2>3 DEF Heard
<1> QED
    BY <1>2 DEF Delivers, Moves

\* The next id is one nobody has seen.
LEMMA NewId ==
    ASSUME LInv, NEW n, n = nextLock + 1
    PROVE  /\ n \notin DOMAIN locks /\ n \notin 0 .. nextLock
           /\ \A i \in 0 .. nextLock : i \in 0 .. n
    BY DEF LInv

\* A lock is given to the one who asked for it, under a new id.
LEMMA LockOwners ==
    ASSUME UInv, LInv, KInv, OInv, NEW c, NEW q, NEW rep, Delivers(c, q, rep), q.op = "lock",
           NEW n, n = nextLock + 1, nextLock' = n, rep.lock = n,
           rep.state \in {"ACQUIRED", "WAITING"},
           DOMAIN locks' = DOMAIN locks \cup {n},
           locks'[n] = [comps |-> q.comps, state |-> rep.state],
           \A i \in DOMAIN locks : locks'[i] = locks[i]
    PROVE  KInv' /\ OInv'
<1>1. UNCHANGED <<known, copy, req, pc, cn, work>>
    BY Zenon DEF Delivers, uvars
<1>2. n \notin DOMAIN locks /\ n \notin 0 .. nextLock /\ \A i \in 0 .. nextLock : i \in 0 .. nextLock'
    BY NewId, Zenon
<1>3. KInv'
    BY <1>2, DeliverKnows, Zenon
<1>4. ASSUME NEW v \in Users, Holds(v)'
      PROVE  known'[v].id \in DOMAIN locks' /\ locks'[known'[v].id] = Known(v)'
    <2>1. Holds(v) /\ Known(v)' = Known(v) /\ known'[v] = known[v]
        BY <1>1, <1>4, DeliversKeeps, Zenon
    <2>2. PICK i : i = known[v].id
        BY Zenon
    <2>3. i \in DOMAIN locks /\ locks[i] = Known(v)
        BY <2>1, <2>2, Zenon DEF OInv
    <2> QED
        BY <2>1, <2>2, <2>3, Zenon
<1>5. ASSUME NEW v \in Users, NEW r \in req'[v], NEW x \in Heard(v)' PROVE Says(v, r, x)'
    <2>1. r \in req[v] /\ known'[v] = known[v]
        BY <1>1, <1>5, Zenon
    <2>2. CASE x \in Heard(v)
        <3>1. Says(v, r, x)
            BY <2>1, <2>2, Zenon DEF OInv
        <3> QED
            BY <2>1, <3>1, Zenon DEF Says, Grants
    <2>3. CASE x = rep /\ req[v] = {q}
        BY <2>1, <2>3, Zenon DEF Says, Grants
    <2> QED
        BY <1>5, <2>2, <2>3, Zenon DEF Delivers
<1>6. ASSUME NEW v \in Users, NEW i, Owns(v, i)'
      PROVE  IF i = n THEN c \in cn[v] ELSE Owns(v, i)
    <2>1. Owns(v, i) \/ (Grants(q, rep) /\ rep.lock = i /\ c \in cn[v])
        BY <1>6, DeliversOwns, Zenon
    <2>2. Owns(v, i) => i # n
        BY <1>2, OwnsLocks, Zenon
    <2> QED
        BY <2>1, <2>2, Zenon
<1>7. ASSUME NEW w \in Users, NEW v \in Users, NEW i \in DOMAIN locks', Owns(v, i)',
             Owns(w, i)' \/ known'[w].id = i
      PROVE  w = v
    <2>1. CASE i = n
        <3>1. known'[w].id # n
            BY <1>1, <1>2 DEF KInv
        <3> QED
            BY <1>6, <1>7, <2>1, <3>1 DEF UInv
    <2>2. CASE i # n
        <3>1. i \in DOMAIN locks /\ Owns(v, i) /\ (Owns(w, i) \/ known[w].id = i)
            BY <1>1, <1>6, <1>7, <2>2, Zenon
        <3> QED
            BY <3>1, Zenon DEF OInv
    <2> QED
        BY <2>1, <2>2, Zenon
<1>8. ASSUME NEW d \in Conns, NEW r \in inbox'[d], r.op = "unlock"
      PROVE  r.lock \in 0 .. nextLock' /\ \A v \in Users : ~Owns(v, r.lock)'
    <2>1. r.lock \in 0 .. nextLock /\ \A v \in Users : ~Owns(v, r.lock)
        BY <1>8, Zenon DEF OInv, Delivers
    <2> QED
        BY <1>2, <1>6, <2>1, Zenon
<1>9. OInv'
    BY <1>4, <1>5, <1>7, <1>8, Zenon DEF OInv
<1> QED
    BY <1>3, <1>9, Zenon

\* acid.go's handlers: a lock is taken from the one who asked for that, and
\* nobody is told anything that is not so.
LEMMA AcidStays ==
    ASSUME RInv, LInv, KInv, OInv, EInv, NEW c \in Conns, NEW q \in inbox[c],
           HandlesAcid(c, q), UNCHANGED <<uvars, work>>
    PROVE  KInv' /\ OInv' /\ EInv'
<1>1. PICK rep : rep = AcidReply(q)
    OBVIOUS
<1>2. Process(c, rep) /\ AcidStep(q) /\ UNCHANGED object /\ q.op \in AcidOps
    BY <1>1 DEF HandlesAcid
<1>3. Delivers(c, q, rep)
    BY <1>2, HandleDelivers, Zenon
<1>4. EInv'
    BY <1>2, <1>3, DeliverEdits, Zenon DEF AcidOps
<1>5. CASE q.op = "lock" /\ Lock(q)
    <2>1. rep = LockReply(q)
        BY <1>1, <1>5 DEF AcidReply
    <2>2. CASE Unset(q)
        <3>1. rep.err # "ok"
            BY <2>1, <2>2, Zenon DEF LockReply, Reply
        <3>2. /\ nextLock' = nextLock /\ DOMAIN locks' = DOMAIN locks
              /\ \A i \in DOMAIN locks : locks'[i] = locks[i]
            BY <1>5, <2>2 DEF Lock
        <3>3. \A v \in Users : \A i : Owns(v, i) => i \in DOMAIN locks' /\ locks'[i] = locks[i]
            BY <3>2, OwnsLocks
        <3>4. ~Grants(q, rep)
            BY <3>1 DEF Grants
        <3> QED
            BY <1>3, <1>4, <1>5, <3>2, <3>3, <3>4, DeliverOwners, Zenon
    <2>3. CASE ~Unset(q)
        <3>1. PICK n : n = nextLock + 1
            OBVIOUS
        <3>2. rep.lock = n /\ rep.state \in {"ACQUIRED", "WAITING"}
            BY <2>1, <2>3, <3>1, Zenon DEF LockReply, Reply
        <3>3. /\ nextLock' = n
              /\ locks' = [i \in DOMAIN locks \cup {n} |->
                              IF i \in {n} THEN [comps |-> q.comps, state |-> LockReply(q).state]
                              ELSE locks[i]]
            BY <1>5, <2>3, <3>1, Zenon DEF Lock
        <3>4. n \notin DOMAIN locks
            BY <3>1 DEF LInv
        <3>5. /\ DOMAIN locks' = DOMAIN locks \cup {n}
              /\ locks'[n] = [comps |-> q.comps, state |-> rep.state]
              /\ \A i \in DOMAIN locks : locks'[i] = locks[i]
            BY <2>1, <3>3, <3>4, Zenon
        <3> HIDE <1>1, <2>1
        <3>6. UInv /\ q.op = "lock"
            BY <1>5 DEF RInv
        <3> QED
            BY <1>3, <1>4, <3>1, <3>2, <3>3, <3>5, <3>6, LockOwners, Zenon
    <2> QED
        BY <2>2, <2>3
<1>6. CASE q.op = "unlock" /\ Unlock(q)
    <2>1. /\ nextLock' = nextLock /\ DOMAIN locks' = DOMAIN locks \ {q.lock}
          /\ \A i \in DOMAIN locks' : locks'[i] = locks[i]
        BY <1>6, Zenon DEF Unlock
    <2>2. \A v \in Users : ~Owns(v, q.lock)
        BY <1>6, Zenon DEF OInv
    <2>3. \A v \in Users : \A i : Owns(v, i) => i \in DOMAIN locks' /\ locks'[i] = locks[i]
        BY <2>1, <2>2, OwnsLocks, Zenon
    <2>4. ~Grants(q, rep)
        BY <1>6 DEF Grants
    <2> QED
        BY <1>3, <1>4, <1>6, <2>1, <2>3, <2>4, DeliverOwners, Zenon
<1>7. CASE q.op \notin {"lock", "unlock"} /\ UNCHANGED <<nextLock, locks>>
    <2>1. ~Grants(q, rep)
        BY <1>7 DEF Grants
    <2>2. ASSUME NEW v \in Users, req[v] = {q}, q.op = "check_lock", rep.err = "ok"
          PROVE  rep.state = known[v].state
        <3>1. known[v].state \in {"ACQUIRED", "WAITING"} /\ q.lock = known[v].id
            BY <2>2 DEF KInv, Asks
        <3>2. Holds(v)
            BY <2>2, <3>1 DEF Holds, Calling
        <3>3. locks[q.lock] = Known(v)
            BY <3>1, <3>2 DEF OInv
        <3>4. rep = CheckLockReply(q)
            BY <1>1, <2>2 DEF AcidReply
        <3>5. rep.state = locks[q.lock].state
            BY <2>2, <3>4, Zenon DEF CheckLockReply, Reply
        <3> QED
            BY <3>1, <3>3, <3>5 DEF Known
    <2>3. \A v \in Users : \A i : Owns(v, i) => i \in DOMAIN locks' /\ locks'[i] = locks[i]
        BY <1>7, OwnsLocks, Zenon
    <2> QED
        BY <1>3, <1>4, <1>7, <2>1, <2>2, <2>3, DeliverOwners
<1> QED
    BY <1>2, <1>5, <1>6, <1>7
       DEF AcidStep, OpenTxns, CommitTxn, AbortTxn, avars

\* A step that leaves the locks alone and asks for none keeps their owners.
LEMMA LocksAside ==
    ASSUME KInv, OInv, NEW c, NEW q, NEW rep, Delivers(c, q, rep), UNCHANGED avars,
           q.op \notin {"lock", "check_lock"}
    PROVE  KInv' /\ OInv'
<1>1. UNCHANGED <<nextLock, locks>> /\ ~Grants(q, rep)
    BY DEF avars, Grants
<1>2. \A v \in Users : \A i : Owns(v, i) => i \in DOMAIN locks' /\ locks'[i] = locks[i]
    BY <1>1, OwnsLocks
<1> QED
    BY <1>1, <1>2, DeliverOwners

\* An alter that is applied makes the edit it was sent for to the object as it
\* is, is the only one under way, and leaves nobody with a copy that is out of
\* date and a lock to alter it under.
LEMMA AlterStays ==
    ASSUME RInv, LInv, KInv, OInv, EInv, NEW c \in Conns, NEW q \in inbox[c],
           AlterObject(c, q), UNCHANGED <<uvars, work>>
    PROVE  /\ KInv' /\ OInv' /\ EInv'
           /\ Normal(object') = Normal(Meant(object, q.edit))
<1>1. q.op = "alter" /\ Process(c, Done) /\ object' = q.obj /\ UNCHANGED avars
    BY DEF AlterObject
<1>2. Delivers(c, q, Done) /\ inbox'[c] = {}
    BY <1>1, HandleDelivers, Zenon
<1>3. KInv' /\ OInv'
    <2>1. q.op \notin {"lock", "check_lock"}
        BY <1>1, Zenon
    <2> QED
        BY <1>1, <1>2, <2>1, LocksAside, Zenon
<1>4. UNCHANGED <<known, copy, req, pc, cn, work>>
    BY DEF uvars
<1>5. Current(q)
    BY <1>1, Zenon DEF EInv
<1>6. IsObject(Work.kind, q.obj) /\ Normal(q.obj) = Normal(Meant(object, q.edit))
    <2>1. IsObject(Work.kind, object)
        BY Zenon DEF EInv
    <2>2. q.edit \in {"params", "created"} /\ q.obj = ToThriftFrom(Edited(FromThrift(object), q.edit))
        BY <1>5, Zenon DEF Current
    <2> QED
        BY <2>1, <2>2, RoundTrip, Zenon
<1>7. work' \in DOMAIN Workloads /\ IsObject(Work.kind, object)'
    <2>1. Work' = Work
        BY <1>4 DEF Work
    <2> QED
        BY <1>1, <1>4, <1>6, <2>1, Zenon DEF EInv
<1>8. PICK u \in Users : Master(u) /\ (known[u].state = "altering" \/ q \in req[u])
    BY <1>1, Zenon DEF EInv
<1>9. ASSUME NEW d \in Conns, NEW r \in inbox'[d] PROVE r.op # "alter"
    <2>1. r \in inbox[d] /\ d # c
        BY <1>2, <1>9 DEF Delivers
    <2> QED
        BY <1>1, <2>1, Zenon DEF EInv
<1>10. ASSUME NEW v \in Users, NEW r \in req'[v], r.op = "alter" PROVE pc'[v] # "dial"
    BY <1>1, <1>4, <1>10, Zenon DEF EInv
<1>11. ASSUME NEW v \in Users PROVE ~Fresh(v)'
    <2>1. SUFFICES ASSUME Fresh(v) PROVE FALSE
        BY <1>2, DeliversKeeps, Zenon
    <2>2. v = u
        BY <1>8, <2>1, OneMaster, Zenon DEF Fresh
    <2> QED
        BY <1>1, <1>8, <2>1, <2>2 DEF Fresh, Calling
<1>12. ASSUME NEW v \in Users, Master(v)' PROVE ~Calling(v, "get")'
    <2>1. SUFFICES ASSUME Master(v), Calling(v, "get") PROVE FALSE
        BY <1>2, <1>12, DeliversKeeps, Zenon
    <2>2. v = u
        BY <1>8, <2>1, OneMaster, Zenon
    <2>3. PICK r \in req[u] : r.op = "get"
        BY <2>1, <2>2, Zenon DEF Calling
    <2>4. known[u].state = "ACQUIRED"
        BY <2>3 DEF KInv, Asks
    <2>5. r = q
        BY <1>8, <2>3, <2>4 DEF KInv, IsOption
    <2> QED
        BY <1>1, <2>3, <2>5, Zenon
<1>13. EInv'
    BY <1>7, <1>9, <1>10, <1>11, <1>12, Zenon DEF EInv
<1> QED
    BY <1>1, <1>3, <1>6, <1>13, Zenon

\* A read is answered with the object as it is.
LEMMA GetStays ==
    ASSUME RInv, KInv, OInv, EInv, NEW c \in Conns, NEW q \in inbox[c],
           GetObject(c, q), UNCHANGED <<uvars, work>>
    PROVE  KInv' /\ OInv' /\ EInv'
<1>1. PICK rep : rep = [err |-> "ok", obj |-> object]
    BY Zenon
<1>2. q.op = "get" /\ Process(c, rep) /\ UNCHANGED avars /\ UNCHANGED object
    BY <1>1 DEF GetObject
<1>3. Delivers(c, q, rep)
    BY <1>2, HandleDelivers, Zenon
<1>4. rep.obj = object
    BY <1>1
<1> QED
    BY <1>2, <1>3, <1>4, LocksAside, DeliverEdits, Zenon

-----------------------------------------------------------------------------
(* The theorem                                                             *)

\* A step keeps XInv, and one that changes the object makes the edit of the
\* request it handles.
LEMMA EditsStep ==
    XInv /\ [Next]_vars =>
        /\ XInv'
        /\ object' # object =>
            \E c \in Conns : \E r \in inbox[c] :
                r.op = "alter" /\ Normal(object') = Normal(Meant(object, r.edit))
<1> SUFFICES ASSUME XInv, [Next]_vars
             PROVE  /\ XInv'
                    /\ object' # object =>
                        \E c \in Conns : \E r \in inbox[c] :
                            r.op = "alter" /\ Normal(object') = Normal(Meant(object, r.edit))
    OBVIOUS
<1> DEFINE Goal == KInv' /\ OInv' /\ EInv' /\
                   (object' # object =>
                       \E c \in Conns : \E r \in inbox[c] :
                           r.op = "alter" /\ Normal(object') = Normal(Meant(object, r.edit)))
<1>1. RInv /\ MInv /\ LInv /\ KInv /\ OInv /\ EInv
    BY DEF XInv
<1>2. RInv' /\ MInv' /\ LInv'
    BY <1>1, RepliesStep, OneMessage, LocksStep
<1>3. ASSUME NEW u \in Users, User(u) PROVE Goal
    <2>1. object' = object
        BY <1>3, Zenon DEF User, Call, Dial, GivesUp, Returns, ReplyLost, Cancelled
    <2> QED
        BY <1>1, <1>2, <1>3, <2>1, UserStep
<1>4. ASSUME NEW c \in Conns, Handle(c) PROVE Goal
    <2>1. PICK q \in inbox[c] : HandlesAcid(c, q) \/ GetObject(c, q) \/ AlterObject(c, q)
        BY <1>4, Zenon DEF Handle
    <2>2. UNCHANGED <<uvars, work>>
        BY <1>4, Zenon DEF Handle
    <2>3. CASE HandlesAcid(c, q)
        BY <1>1, <2>2, <2>3, AcidStays, Zenon DEF HandlesAcid
    <2>4. CASE GetObject(c, q)
        BY <1>1, <2>2, <2>4, GetStays, Zenon DEF GetObject
    <2>5. CASE AlterObject(c, q)
        <3>1. q.op = "alter"
            BY <2>5, Zenon DEF AlterObject
        <3> QED
            BY <1>1, <2>2, <2>5, <3>1, AlterStays, Zenon
    <2> QED
        BY <2>1, <2>3, <2>4, <2>5, Zenon
<1>5. ASSUME Moves, UNCHANGED <<avars, uvars, work, object>> PROVE Goal
    <2>1. PICK q : q = [op |-> "none"]
        BY Zenon
    <2>2. q.op \notin {"lock", "check_lock", "get"}
        BY <2>1
    <2>3. Delivers(0, q, 0)
        BY <1>1, <1>5, MovesDeliver
    <2> QED
        BY <1>1, <1>5, <2>2, <2>3, LocksAside, DeliverEdits, Zenon
<1>6. ASSUME Serve \/ (\E c \in Conns : HandleConn(c)) \/ (\E s : Stop(s)),
             UNCHANGED <<avars, uvars, work, object>>
      PROVE  Goal
    BY <1>1, <1>5, <1>6, ServerMoves DEF RInv
<1>7. ASSUME UNCHANGED vars PROVE Goal
    <2>1. UNCHANGED <<avars, uvars, work, object>> /\ UNCHANGED svars
        BY <1>7 DEF vars
    <2>2. Moves
        BY <2>1 DEF Moves, svars
    <2> QED
        BY <1>5, <2>1, <2>2, Zenon
<1> HIDE DEF Goal
<1>8. ASSUME NEW c \in Conns, Goroutine(c) PROVE Goal
    BY <1>4, <1>6, <1>8 DEF Goroutine
<1>9. ASSUME Accepting PROVE Goal
    BY <1>6, <1>9 DEF Accepting
<1>10. ASSUME NEW s, Stopping(s) PROVE Goal
    BY <1>6, <1>10 DEF Stopping
<1>11. Goal
    BY <1>3, <1>7, <1>8, <1>9, <1>10, Zenon DEF Next
<1> QED
    BY <1>2, <1>11 DEF XInv, Goal

\* Nobody holds a lock at first, and nothing is under way.
LEMMA InitEdits == Init => XInv
<1> SUFFICES ASSUME Init PROVE XInv
    OBVIOUS
<1>1. /\ known = [u \in Users |-> NoLock] /\ copy = [u \in Users |-> {}]
      /\ req = [u \in Users |-> {}] /\ cn = [u \in Users |-> {}]
      /\ pc = [u \in Users |-> "idle"] /\ nextLock = 0 /\ locks = <<>>
      /\ inbox = [c \in Conns |-> {}] /\ answer = [c \in Conns |-> {}]
      /\ outbox = [c \in Conns |-> {}]
      /\ work \in DOMAIN Workloads /\ object = Objects[Work.kind]
    BY Zenon DEF Init, NewServer, NewAcidState
<1>2. RInv
    BY InitReplies
<1>3. MInv
    <2>1. \A c \in Conns : inbox[c] = {} /\ answer[c] = {} /\ outbox[c] = {}
        BY <1>1, Zenon
    <2> QED
        BY <2>1 DEF MInv, IsOption
<1>4. LInv
    BY DEF Init, NewAcidState, LInv, ExclusiveExcludes
<1>5. KInv
    <2>1. ASSUME NEW u \in Users
          PROVE  /\ known[u] = NoLock /\ req[u] = {}
                 /\ known[u] = [id |-> known[u].id, comps |-> known[u].comps, state |-> known[u].state]
                 /\ known[u].id \in 0 .. nextLock
                 /\ known[u].state \in {"none", "ACQUIRED", "WAITING", "unsure", "altering"}
        <3>1. known[u] = NoLock /\ req[u] = {}
            BY <1>1, Zenon
        <3> QED
            BY <1>1, <3>1 DEF NoLock
    <2>2. known = [u \in Users |-> known[u]] /\ copy = [u \in Users |-> copy[u]]
        BY <1>1
    <2>3. \A u \in Users : IsOption(req[u]) /\ \A r \in req[u] : Asks(u, r)
        BY <2>1, Zenon DEF IsOption
    <2> QED
        BY <2>1, <2>2, <2>3, Zenon DEF KInv
<1>6. \A u \in Users : ~Holds(u) /\ req[u] = {} /\ Heard(u) = {}
    BY <1>1, Zenon DEF Holds, NoLock, Heard
<1>7. OInv
    BY <1>1, <1>6, Zenon DEF OInv, Owns
<1>8. IsObject(Work.kind, object)
    BY <1>1, SessionsAssumption DEF Work
<1>9. EInv
    BY <1>1, <1>6, <1>8, Zenon DEF EInv, Fresh, Master
<1> QED
    BY <1>2, <1>3, <1>4, <1>5, <1>7, <1>9 DEF XInv

\* An alter the server applies changes what its user edited and nothing else,
\* for any users, connections, workloads and wire structs, whatever is lost on
\* the way: the read under the EXCLUSIVE lock is still the object when the alter
\* is handled, and the conversions bring back every field but the one edited.
THEOREM OnlyEdits == Spec => ChangesOnlyEdits
<1>1. Spec => []XInv
    BY InitEdits, EditsStep, PTL DEF Spec
<1>2. XInv /\ [Next]_vars =>
        [object' # object =>
            \E c \in Conns : \E r \in inbox[c] :
                r.op = "alter" /\ Normal(object') = Normal(Meant(object, r.edit))]_vars
    BY EditsStep
<1> QED
    BY <1>1, <1>2, PTL DEF Spec, ChangesOnlyEdits
=============================================================================
