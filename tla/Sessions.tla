------------------------------ MODULE Sessions ------------------------------
(***************************************************************************)
(* Users who share one object under the metastore's locks.  Each user has  *)
(* a Client with one connection to one hmstest.Server, makes one call at a *)
(* time (acid.go's methods, and the Get and Alter of a table, a database   *)
(* or a partition), and keeps what the calls told it.  Replies are lost to *)
(* injected failures, to Stop and to cancelled contexts; a request whose   *)
(* caller has gone may still be handled.                                   *)
(*                                                                         *)
(* The users here keep to rules of their own: they read and alter only     *)
(* under a lock they were told is ACQUIRED, alter only under one that is   *)
(* EXCLUSIVE on the object, alter what they last read, and do not unlock   *)
(* after an alter whose outcome they do not know.  acid.go itself only     *)
(* says that whoever is told WAITING must poll CheckLock.                  *)
(***************************************************************************)
EXTENDS AcidStore, FakeServer, Convert

CONSTANTS
    Users,
    Objects,    \* what may be shared: by kind, its wire struct at first
    Resource,   \* by kind, the lock component that names it
    Workloads,  \* what may be set out to do: by name, a record of the kind of object
                \* that is shared, the ops each user calls, the component sets it
                \* asks locks for, how many contexts end, how many failures are
                \* injected and who calls Stop
    Edit,       \* by user, the field it changes
    NewParams, Far,     \* what they change them to; Far is past MaxInt32
    MaxRetries, \* WithMaxRetries
    MaxTxns, MaxLocks   \* bounds: ids the server gives out

ASSUME SessionsAssumption ==
    /\ \A w \in DOMAIN Workloads :
        LET kind == Workloads[w].kind
        IN  Workloads[w].stop \subseteq Stoppers /\ IsObject(kind, Objects[kind])
    /\ Edit \in [Users -> {"params", "created"}]
    /\ Far \in Int /\ Far > MaxInt32
    /\ MaxRetries \in Nat \ {0}

VARIABLES
    work,       \* the name of the workload
    ends,       \* contexts that may still end
    object,     \* the object as the server has it
    pc,         \* each user's Client: "idle", "dial" or "wait"
    req,        \* the request of its call: none or one
    tries,      \* attempts left
    cn,         \* its connection: none or one
    known,      \* the lock it knows of: [id, comps, state]
    copy,       \* what it last read under that lock: none or one
    told        \* history: <<txn, outcome>> that a commit or an abort was answered

uvars == <<pc, req, tries, cn, known, copy, told>>
vars  == <<avars, svars, uvars, work, ends, object>>

Work == Workloads[work]

NoLock == [id |-> 0, comps |-> {}, state |-> "none"]

\* Types; in particular ids stay within what was given out, failNext never goes
\* below zero (failInjectProtocol's compare-and-swap), and who waits has a
\* connection.
TypeOK ==
    /\ ServerTypeOK
    /\ work \in DOMAIN Workloads /\ ends \in 0 .. Work.cancel
    /\ nextTxn \in 0 .. MaxTxns /\ DOMAIN txns \subseteq 1 .. nextTxn
    /\ nextLock \in 0 .. MaxLocks /\ DOMAIN locks \subseteq 1 .. nextLock
    /\ \A u \in Users :
        /\ pc[u] \in {"idle", "dial", "wait"}
        /\ pc[u] = "idle" <=> req[u] = {}
        /\ pc[u] = "wait" => cn[u] # {}
        /\ cn[u] \subseteq Conns \ left /\ Cardinality(cn[u]) <= 1
        /\ tries[u] \in 0 .. MaxRetries
        /\ known[u].id \in 0 .. nextLock
        /\ copy[u] # {} => known[u].state = "ACQUIRED"
    /\ told \subseteq (1 .. nextTxn) \X {"committed", "aborted"}

Init ==
    /\ work \in DOMAIN Workloads
    /\ object = Objects[Work.kind]
    /\ ends = Work.cancel
    /\ NewAcidState /\ NewServer(Work.fail)
    /\ pc = [u \in Users |-> "idle"]
    /\ req = [u \in Users |-> {}]
    /\ tries = [u \in Users |-> 0]
    /\ cn = [u \in Users |-> {}]
    /\ known = [u \in Users |-> NoLock]
    /\ copy = [u \in Users |-> {}]
    /\ told = {}

-----------------------------------------------------------------------------
(* Requests                                                                *)

LockOperationType(t) ==
    CASE t = "SHARED_READ"  -> "SELECT"
      [] t = "SHARED_WRITE" -> "INSERT"
      [] t = "EXCL_WRITE"   -> "UPDATE"
      [] OTHER              -> "NO_TXN"

NewLockComponent(lc) ==
    [type |-> lc.type, level |-> lc.level, db |-> lc.db, table |-> lc.table,
     part |-> lc.part, for |-> LockOperationType(lc.type)]

\* checkID on both ids, and Heartbeat's own check: no request is sent otherwise.
Valid(r) ==
    /\ r.txn >= 0 /\ r.lock >= 0
    /\ r.op = "heartbeat" => r.txn # 0 \/ r.lock # 0

\* Reads may be sent again once they have been sent.
Idempotent(r) == r.op = "get"

FromThrift(w) ==
    CASE Work.kind = "table"     -> TableFromThrift(w)
      [] Work.kind = "database"  -> DatabaseFromThrift(w, {"hive"})
      [] Work.kind = "partition" -> PartitionFromThrift(w)

\* AlterTable, AlterDatabase, AlterPartitions against a server with catalogs.
ToThriftFrom(o) ==
    CASE Work.kind = "table"     -> TableToThriftFrom(o, {o.cat})
      [] Work.kind = "database"  -> DatabaseToThriftFrom(o, {o.cat})
      [] Work.kind = "partition" -> PartitionToThriftFrom(o, {"hive"})

Edited(o, e) ==
    CASE e = "params"  -> [o EXCEPT !.params = {NewParams}]
      [] e = "created" -> [o EXCEPT !.created = {Far}]

Request(op, txn, lock) == [op |-> op, txn |-> txn, lock |-> lock]

TxnIds == -1 .. nextTxn

\* A lock that keeps everybody else off the object.
Covers(comps) ==
    \E x \in comps : /\ x.type = "EXCLUSIVE"
                     /\ LockDepth(x) <= LockDepth(Resource[Work.kind])
                     /\ LockOverlaps(x, Resource[Work.kind])

(* What u may ask for, by the rules above.                                 *)

OpenTransaction == {[op |-> "open_txns", txn |-> 0, lock |-> 0, n |-> 1]}

CommitTransaction == {Request("commit_txn", t, 0) : t \in TxnIds \ {0}}

AbortTransaction == {Request("abort_txn", t, 0) : t \in TxnIds \ {0}}

Heartbeat(u) == {Request("heartbeat", t, known[u].id) : t \in TxnIds}

NewLockRequest(u) ==
    {[op |-> "lock", txn |-> t, lock |-> 0, comps |-> {NewLockComponent(lc) : lc \in w}] :
        t \in TxnIds, w \in Work.want[u]}

CheckLock(u) == {Request("check_lock", 0, known[u].id)}

ReleaseLock(u) == {Request("unlock", 0, known[u].id)}

Alter(u) ==
    {[op |-> "alter", txn |-> 0, lock |-> 0, edit |-> Edit[u],
      obj |-> ToThriftFrom(Edited(o, Edit[u]))] : o \in copy[u]}

Offered(u) ==
    LET k == known[u].state
        When(p, requests) == IF p THEN requests ELSE {}
    IN  UNION {OpenTransaction, CommitTransaction, AbortTransaction, Heartbeat(u),
               When(k = "none", NewLockRequest(u)),
               When(k \in {"ACQUIRED", "WAITING"}, CheckLock(u)),
               When(k \in {"ACQUIRED", "WAITING", "unsure"}, ReleaseLock(u)),
               When(k = "ACQUIRED", {Request("get", 0, 0)}),
               When(k = "ACQUIRED" /\ Covers(known[u].comps), Alter(u))}

-----------------------------------------------------------------------------
(* Calls: Client.do with one endpoint                                      *)

\* The bounds: every request still under way may be given an id.
Pending(op) ==
    Cardinality({c \in Conns : \E r \in inbox[c] : r.op = op}) +
    Cardinality({v \in Users : pc[v] = "dial" /\ \E r \in req[v] : r.op = op})

InBounds(r) ==
    /\ r.op = "open_txns" => nextTxn + Pending("open_txns") < MaxTxns
    /\ r.op = "lock" => nextLock + Pending("lock") < MaxLocks

\* An attempt on the connection the pool has is the first of MaxRetries.
NewCall(u, r) ==
    /\ req' = [req EXCEPT ![u] = {r}]
    /\ tries' = [tries EXCEPT ![u] = IF cn[u] = {} THEN MaxRetries ELSE MaxRetries - 1]

\* On the connection the pool has, or on a new one.
Call(u) ==
    /\ pc[u] = "idle"
    /\ \E r \in Offered(u) :
        /\ r.op \in Work.ops[u] /\ Valid(r) /\ InBounds(r)
        /\ NewCall(u, r)
        /\ \/ /\ cn[u] = {}
              /\ pc' = [pc EXCEPT ![u] = "dial"]
              /\ UNCHANGED svars
           \/ \E c \in cn[u] : Send(c, r) /\ pc' = [pc EXCEPT ![u] = "wait"]
    /\ UNCHANGED <<avars, work, ends, object, cn, known, copy, told>>

\* The names are interchangeable: the first free one is taken.
Free == {c \in Conns : phase[c] = "none" /\ \A v \in Users : c \notin cn[v]}

Dial(u) ==
    /\ pc[u] = "dial" /\ tries[u] > 0
    /\ \E c \in Free :
        /\ \A d \in Free : c <= d
        /\ Connect(c, The(req[u]))
        /\ cn' = [cn EXCEPT ![u] = {c}]
    /\ tries' = [tries EXCEPT ![u] = @ - 1]
    /\ pc' = [pc EXCEPT ![u] = "wait"]
    /\ UNCHANGED <<avars, work, ends, object, req, known, copy, told>>

\* What u knows once its call has returned: rep is the reply, {} an error that
\* does not say whether the request was handled.
Learns(u, rep) ==
    LET r  == The(req[u])
        k  == known[u]
        ok == rep # {} /\ The(rep).err = "ok"
        lock == CASE r.op = "lock" /\ ok ->
                        [id |-> The(rep).lock, comps |-> r.comps, state |-> The(rep).state]
                  [] r.op = "check_lock" /\ ok   -> [k EXCEPT !.state = The(rep).state]
                  [] r.op = "unlock" /\ rep # {} -> NoLock
                  [] r.op = "unlock" /\ rep = {} -> [k EXCEPT !.state = "unsure"]
                  [] r.op = "alter" /\ ~ok       -> [k EXCEPT !.state = "altering"]
                  [] OTHER                       -> k
    IN  /\ pc' = [pc EXCEPT ![u] = "idle"]
        /\ req' = [req EXCEPT ![u] = {}]
        /\ tries' = [tries EXCEPT ![u] = 0]
        /\ known' = [known EXCEPT ![u] = lock]
        /\ copy' = [copy EXCEPT ![u] =
                        IF r.op = "get" THEN IF ok THEN {FromThrift(The(rep).obj)} ELSE {}
                        ELSE IF r.op \in {"lock", "unlock", "alter"} THEN {}
                        ELSE @]
        /\ told' = told \cup (IF ~ok THEN {}
                              ELSE IF r.op = "commit_txn" THEN {<<r.txn, "committed">>}
                              ELSE IF r.op = "abort_txn" THEN {<<r.txn, "aborted">>}
                              ELSE {})

\* No connection: the dial fails, the endpoint is cooling, the context is done
\* or the attempts are used up.
GivesUp(u) ==
    /\ pc[u] = "dial"
    /\ Learns(u, {})
    /\ UNCHANGED <<avars, svars, work, ends, object, cn>>

Returns(u) ==
    /\ pc[u] = "wait"
    /\ \E c \in cn[u] : Receive(c) /\ Learns(u, outbox[c])
    /\ UNCHANGED <<avars, work, ends, object, cn>>

\* The server closed the connection first: the connection is discarded, and a
\* read goes round the loop again.
ReplyLost(u) ==
    /\ pc[u] = "wait"
    /\ \E c \in cn[u] : c \in shut /\ outbox[c] = {} /\ Leave(c)
    /\ cn' = [cn EXCEPT ![u] = {}]
    /\ \/ /\ Idempotent(The(req[u]))
          /\ pc' = [pc EXCEPT ![u] = "dial"]
          /\ UNCHANGED <<req, tries, known, copy, told>>
       \/ ~Idempotent(The(req[u])) /\ Learns(u, {})
    /\ UNCHANGED <<avars, work, ends, object>>

\* The context ends while the reply is awaited.
Cancelled(u) ==
    /\ pc[u] = "wait" /\ ends > 0
    /\ ends' = ends - 1
    /\ \E c \in cn[u] : Leave(c)
    /\ cn' = [cn EXCEPT ![u] = {}]
    /\ Learns(u, {})
    /\ UNCHANGED <<avars, work, object>>

User(u) == Call(u) \/ Dial(u) \/ GivesUp(u) \/ Returns(u) \/ ReplyLost(u) \/ Cancelled(u)

-----------------------------------------------------------------------------
(* Handlers                                                                *)

HandlesAcid(c, r) ==
    /\ r.op \in AcidOps
    /\ Process(c, AcidReply(r))
    /\ AcidStep(r)
    /\ UNCHANGED object

GetObject(c, r) ==
    /\ r.op = "get"
    /\ Process(c, [err |-> "ok", obj |-> object])
    /\ UNCHANGED <<avars, object>>

\* The whole object is replaced.
AlterObject(c, r) ==
    /\ r.op = "alter"
    /\ Process(c, Done)
    /\ object' = r.obj
    /\ UNCHANGED avars

Handle(c) ==
    /\ \E r \in inbox[c] : HandlesAcid(c, r) \/ GetObject(c, r) \/ AlterObject(c, r)
    /\ UNCHANGED <<uvars, work, ends>>

Goroutine(c) == Handle(c) \/ (HandleConn(c) /\ UNCHANGED <<avars, uvars, work, ends, object>>)
Accepting == Serve /\ UNCHANGED <<avars, uvars, work, ends, object>>
Stopping(s) == Stop(s) /\ UNCHANGED <<avars, uvars, work, ends, object>>

Next ==
    \/ \E u \in Users : User(u)
    \/ \E c \in Conns : Goroutine(c)
    \/ Accepting
    \/ \E s \in Work.stop : Stopping(s)

Spec == Init /\ [][Next]_vars

\* Goroutines that can run do, and a Client goes on with the call it is in; no
\* call and no Stop need be made, and no context need end.
Fairness ==
    /\ \A u \in Users : WF_vars(Dial(u) \/ GivesUp(u) \/ Returns(u) \/ ReplyLost(u))
    /\ \A c \in Conns : WF_vars(Goroutine(c))
    /\ WF_vars(Accepting)
    /\ WF_vars(\E s \in Stoppers : stop[s] # "idle" /\ Stopping(s))

FairSpec == Spec /\ Fairness

-----------------------------------------------------------------------------
(* Properties                                                              *)

NormalSerDe(s) == {[x EXCEPT !.params = x.params \ {{}}] : x \in s}

NormalStorage(sd) ==
    {[location |-> x.location,
      serde    |-> NormalSerDe(x.serde),
      subdirs  |-> x.subdirs \ {FALSE}] : x \in sd}

\* What an unset field and one that says nothing have in common.
Normal(w) ==
    LET n == [w EXCEPT !.params = w.params \ {{}}, !.cat = {Deref(w.cat, "hive")}]
    IN  IF Work.kind = "database" THEN [n EXCEPT !.owner = w.owner \ {""}]
        ELSE [n EXCEPT !.sd = NormalStorage(w.sd)]

\* The change a user meant, made to the object itself.  A database's creation
\* time is read-only.
Meant(w, e) ==
    CASE e = "params" -> [w EXCEPT !.params = {NewParams}]
      [] e = "created" /\ Work.kind # "database" -> [w EXCEPT !.created = MaxInt32]
      [] OTHER -> w

\* An alter the server applies changes what its user edited and nothing else:
\* no field the exported type lacks, none it converts, and nothing another
\* user changed meanwhile.
ChangesOnlyEdits ==
    [][object' # object =>
        \E c \in Conns : \E r \in inbox[c] :
            r.op = "alter" /\ Normal(object') = Normal(Meant(object, r.edit))]_vars

\* What CommitTransaction or AbortTransaction reported stays true, whoever
\* asks, in whatever order the requests are handled.
TxnDecided ==
    \A t \in 1 .. nextTxn :
        /\ <<t, "committed">> \in told => t \notin DOMAIN txns
        /\ <<t, "aborted">> \in told => t \in DOMAIN txns /\ txns[t] = "aborted"

\* Once the Stop that stops the server has returned, no handler runs and none
\* starts, also for a connection accepted while Stop ran.
StoppedForGood ==
    (\E s \in Stoppers : stop[s] = "returned") =>
        registered = {} /\ \A c \in Conns : phase[c] \notin Handling

\* Every call returns and every Stop returns, whatever was lost on the way.
EverythingEnds ==
    /\ \A u \in Users : pc[u] # "idle" ~> pc[u] = "idle"
    /\ \A s \in Stoppers : stop[s] # "idle" ~> stop[s] \in {"returned", "early"}
=============================================================================
