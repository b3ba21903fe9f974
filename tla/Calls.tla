-------------------------------- MODULE Calls --------------------------------
(***************************************************************************)
(* Goroutines that call the client's Methods, against metastores of any    *)
(* version that share one store (FakeStore).                               *)
(*                                                                         *)
(* Which endpoint serves an attempt is Failover's subject, and which       *)
(* connection Pool's: here any attempt gets a connection to a server of    *)
(* any version, whose caches hold nothing or the truth.  CachesTrue shows  *)
(* that every attempt leaves them so.                                      *)
(***************************************************************************)
EXTENDS Methods, FiniteSets, Functions

CONSTANTS
    Callers,        \* goroutines; each makes one call
    Inputs,         \* Inputs[c]: the calls c may make, as a sequence
    Servers,        \* Servers[c]: what c's attempts may reach, each a server's version
                    \* and whether the connection has been asked for catalogs before
    InitialStores,  \* what the metastore may hold at the start
    MaxLosses       \* MaxLosses[c]: bound on c's lost or undecodable replies,
                    \* failed dials and cancellations

ASSUME CallersAssumption ==
    \A c \in Callers :
        /\ Servers[c] \subseteq Version \X BOOLEAN
        /\ MaxLosses[c] \in Nat
        /\ \A n \in DOMAIN Inputs[c] : IsCall(Inputs[c][n])

\* A store has finitely many tables, and a slice of different partitions for
\* every table that a call may name.
ASSUME StoresAssumption ==
    \A s \in InitialStores :
        /\ DOMAIN s = {"cats", "dbs", "tbls", "parts", "stats", "warehouse", "versionKey", "events"}
        /\ IsFiniteSet(s.tbls) /\ \A k \in s.tbls : k = <<k[1], k[2], k[3]>>
        /\ \A k \in DOMAIN s.parts :
             s.parts[k] \in Seq(Range(s.parts[k])) /\ IsInjective(s.parts[k])
        /\ \A c \in Callers : \A n \in DOMAIN Inputs[c] :
             <<Inputs[c][n].cat, Inputs[c][n].db, Inputs[c][n].tbl>> \in DOMAIN s.parts

VARIABLES
    store,   \* the metastore's store
    losses,
    t,       \* t[c]: c's goroutine
    kept,    \* kept[c]: what c's call is about and was there since it began
    ever     \* ever[c]: what c's call is about and was there at some moment of it

vars == <<store, roots, losses, t, kept, ever>>

Fake == INSTANCE FakeStore

-----------------------------------------------------------------------------
(* History: what a call is about.                                           *)

\* The objects of store s that call w could list or find.
Objects(s, w) ==
    LET d == <<w.cat, w.db>>
        k == <<w.cat, w.db, w.tbl>>
    IN  CASE w.op \in {"GetCatalogs", "GetCatalog", "CreateCatalog", "DropCatalog"} -> s.cats
          [] w.op \in {"GetAllDatabases", "GetDatabase", "CreateDatabase",
                       "AlterDatabase", "DropDatabase"}
                -> {x[2] : x \in {y \in s.dbs : y[1] = w.cat}}
          [] w.op \in {"GetAllTables", "GetTable", "GetTables", "GetTablesSeq",
                       "CreateTable", "AlterTable", "DropTable"}
                -> {x[3] : x \in {y \in s.tbls : <<y[1], y[2]>> = d}}
          [] w.op = "CurrentNotificationID" -> DOMAIN s.events
          [] w.op = "GetNextNotifications"
                -> {n \in DOMAIN s.events :
                      n > w.n /\ (w.types # {} => s.events[n] \in w.types)}
          [] w.op \in {"ServerVersion", "GetConfigValue"} -> {}
          [] w.op = "GetTableColumnStatistics"
                -> IF k \in s.tbls THEN Range(s.stats[k]) ELSE {}
          [] OTHER -> IF k \in s.tbls THEN Range(s.parts[k]) ELSE {}

Active(c) == t[c].pc \notin {"idle", "done"}

Observe(s) ==
    /\ kept' = [c \in Callers |-> IF Active(c) THEN kept[c] \cap Objects(s, t[c].call)
                                  ELSE kept[c]]
    /\ ever' = [c \in Callers |-> IF Active(c) THEN ever[c] \cup Objects(s, t[c].call)
                                  ELSE ever[c]]

-----------------------------------------------------------------------------
(* Actions.                                                                 *)

NoConn == [v |-> "4.0", without |-> {}, catalogs |-> "unknown", legacy |-> FALSE, dirty |-> FALSE]

Init ==
    /\ store \in InitialStores
    /\ roots = {} /\ losses = [c \in Callers |-> 0]
    /\ t = [c \in Callers |->
              [pc |-> "idle", call |-> NoCall, work |-> NoCall, tries |-> 0,
               conn |-> NoConn, cat |-> Nil, i |-> 0, acc |-> <<>>, names |-> <<>>,
               pos |-> 0, buf |-> <<>>, version |-> Nil, err |-> "ok", val |-> <<>>,
               ctxDone |-> FALSE, spoilt |-> FALSE, applied |-> <<>>]]
    /\ kept = [c \in Callers |-> {}] /\ ever = [c \in Callers |-> {}]

\* The method is called; what it refuses without asking a server, it refuses here.
Begin(c) ==
    /\ t[c].pc = "idle"
    /\ \E n \in DOMAIN Inputs[c] :
         LET w == Inputs[c][n]
             x == [t[c] EXCEPT !.call = w]
             first == CASE w.op \in DOMAIN Stream -> [w EXCEPT !.op = Stream[w.op].list, !.n = -1]
                        [] w.op = "DropPartitions" -> [w EXCEPT !.op = "GetTable"]
                        [] OTHER -> w
         IN  /\ t' = [t EXCEPT ![c] =
                        IF \/ w.op \in MaxPartsOps /\ checkMaxParts(w.n).err # "ok"
                           \/ w.op = "GetTableColumnStatistics" /\ w.name = ""
                        THEN Return(x, "InvalidOperation", <<>>)
                        ELSE IF w.op = "GetTableColumnStatistics" /\ w.items = <<>>
                        THEN Return(x, "ok", <<>>)
                        ELSE StartDo(x, first)]
             /\ kept' = [kept EXCEPT ![c] = Objects(store, w)]
             /\ ever' = [ever EXCEPT ![c] = Objects(store, w)]
    /\ UNCHANGED <<store, roots, losses>>

\* acquire gives a connection; what it has cached is true of its server, which
\* may lack getVersion.
Acquire(c) ==
    /\ t[c].pc = "acquire"
    /\ \E s \in Servers[c], legacy \in BOOLEAN, without \in {{}, {"getVersion"}} :
         LET d == Doing(t[c])
             v == s[1]
         IN
         /\ legacy => d.legacy # Nil /\ d.rpc \in removedRPCs(v)
         /\ without # {} => d.rpc = "getVersion"
         /\ t' = [t EXCEPT ![c] = Start(@,
                    [v |-> v, without |-> without, legacy |-> legacy, dirty |-> FALSE,
                     catalogs |-> IF ~s[2] THEN "unknown"
                                  ELSE IF v = "2.3" THEN "no" ELSE "yes"])]
    /\ UNCHANGED <<store, roots, losses, kept, ever>>

\* acquire fails: tried again elsewhere unless the context is done, or unless
\* every endpoint is cooling, when Pick finds nothing.
DialFails(c) ==
    /\ t[c].pc = "acquire" /\ losses[c] < MaxLosses[c]
    /\ losses' = [losses EXCEPT ![c] = @ + 1]
    /\ \E picked \in BOOLEAN :
         LET x == t[c] IN
         t' = [t EXCEPT ![c] = IF ~picked \/ x.ctxDone \/ x.tries + 1 = MaxRetries
                               THEN DoReturns(x, "Unavailable", <<>>)
                               ELSE [x EXCEPT !.tries = @ + 1]]
    /\ UNCHANGED <<store, roots, kept, ever>>

InRpc(c) == t[c].pc \in {"probe", "root", "rpc", "followup"}

Served(c) == Fake!Handle(store, t[c].conn.v, t[c].conn.without, request(t[c]))

\* The server handles the request and the reply is read.  A connection with
\* an unread reply on it never gives the next one.
Replies(c) ==
    /\ InRpc(c) /\ ~t[c].conn.dirty
    /\ LET h == Served(c) IN
       /\ store' = h.store
       /\ t' = [t EXCEPT ![c] = onReply(Handled(@, h.reply), h.reply)]
       /\ roots' = IF t[c].pc = "root" /\ h.reply.err = "ok" /\ h.reply.val # <<>>
                   THEN roots \cup {t[c].cat} ELSE roots
       /\ Observe(h.store)
    /\ UNCHANGED losses

\* The transport fails or the context ends before the reply is read: the
\* request was handled or was not.  Over HTTP nothing stays unread.
Loses(c) ==
    /\ InRpc(c) /\ losses[c] < MaxLosses[c]
    /\ losses' = [losses EXCEPT ![c] = @ + 1]
    /\ \E handled \in BOOLEAN, unread \in BOOLEAN :
         LET h == IF handled THEN Served(c)
                  ELSE Fake!Answers(store, Err("Unavailable"))
             x == Handled(t[c], h.reply)
         IN  /\ store' = h.store
             /\ t' = [t EXCEPT ![c] = onReply([x EXCEPT !.conn.dirty = @ \/ unread],
                                              Err("Unavailable"))]
             /\ Observe(h.store)
    /\ UNCHANGED roots

\* After a lost reply, the follow-up on the same connection reads that one or
\* nothing.
FollowUpDesync(c) ==
    /\ t[c].pc = "followup" /\ t[c].conn.dirty
    /\ t' = [t EXCEPT ![c] = onReply(@, Err("Unavailable"))]
    /\ UNCHANGED <<store, roots, losses, kept, ever>>

\* The request is handled and the reply does not decode (too large, or broken).
Garbles(c) ==
    /\ InRpc(c) /\ ~t[c].conn.dirty /\ losses[c] < MaxLosses[c]
    /\ losses' = [losses EXCEPT ![c] = @ + 1]
    /\ LET h == Served(c)
           x == Handled(t[c], h.reply)
       IN  /\ store' = h.store
           /\ t' = [t EXCEPT ![c] = onReply([x EXCEPT !.conn.dirty = TRUE], Err("Protocol"))]
           /\ Observe(h.store)
    /\ UNCHANGED roots

Cancel(c) ==
    /\ Active(c) /\ ~t[c].ctxDone /\ losses[c] < MaxLosses[c]
    /\ losses' = [losses EXCEPT ![c] = @ + 1]
    /\ t' = [t EXCEPT ![c].ctxDone = TRUE]
    /\ UNCHANGED <<store, roots, kept, ever>>

\* Mutant: a chunk begins with the last name of the one before.
ChunkOverlaps(c) ==
    /\ t[c].pc = "chunk"
    /\ LET x == t[c]
           end == IF x.pos + ChunkSize > Len(x.names) THEN Len(x.names)
                  ELSE x.pos + ChunkSize
       IN  t' = [t EXCEPT ![c] =
             IF (end = Len(x.names) /\ x.pos > 0) \/ x.names = <<>> THEN Return(x, "ok", x.val)
             ELSE IF x.ctxDone THEN Return(x, "Unavailable", x.val)
             ELSE StartDo([x EXCEPT !.pos = end - 1],
                          [x.call EXCEPT !.op = Stream[@].chunk,
                                         !.items = batch(x.names, x.pos, ChunkSize)])]
    /\ UNCHANGED <<store, roots, losses, kept, ever>>

\* The head of a stream's loop over the chunks of its names.
Chunk(c) ==
    /\ t[c].pc = "chunk"
    /\ LET x == t[c] IN
           t' = [t EXCEPT ![c] =
             IF x.pos >= Len(x.names) THEN Return(x, "ok", x.val)
             ELSE IF x.ctxDone THEN Return(x, "Unavailable", x.val)
             ELSE StartDo([x EXCEPT !.pos = @ + ChunkSize],
                          [x.call EXCEPT !.op = Stream[@].chunk,
                                         !.items = batch(x.names, x.pos, ChunkSize)])]
    /\ UNCHANGED <<store, roots, losses, kept, ever>>

Yield(c) ==
    /\ t[c].pc = "yield"
    /\ LET x == t[c] IN
       t' = [t EXCEPT ![c] = IF x.buf = <<>> THEN [x EXCEPT !.pc = "chunk"]
                             ELSE [x EXCEPT !.val = Append(@, Head(x.buf)), !.buf = Tail(@)]]
    /\ UNCHANGED <<store, roots, losses, kept, ever>>

\* The consumer leaves its range loop.
Break(c) ==
    /\ t[c].pc = "yield" /\ t[c].buf # <<>>
    /\ t' = [t EXCEPT ![c] = Return(@, "stopped", Append(@.val, Head(@.buf)))]
    /\ UNCHANGED <<store, roots, losses, kept, ever>>

Next ==
    \E c \in Callers :
        \/ Begin(c) \/ Acquire(c) \/ DialFails(c)
        \/ Replies(c) \/ Loses(c) \/ FollowUpDesync(c) \/ Garbles(c) \/ Cancel(c)
        \/ Chunk(c) \/ Yield(c) \/ Break(c)

Spec == Init /\ [][Next]_vars

-----------------------------------------------------------------------------
(* Properties.                                                              *)

\* Types; in particular do makes at most MaxRetries attempts and no loop
\* runs past its last batch.
TypeOK ==
    /\ \A k \in DOMAIN store.parts : store.parts[k] \in Seq(STRING)
    /\ \A c \in Callers :
         /\ losses[c] \in 0 .. MaxLosses[c]
         /\ t[c].pc \in {"idle", "acquire", "probe", "root", "rpc", "followup",
                        "chunk", "yield", "done"}
         /\ t[c].tries \in 0 .. MaxRetries
         /\ t[c].conn.v \in Version
         /\ t[c].conn.catalogs \in {"unknown", "yes", "no"}
         /\ t[c].pc = "rpc" /\ Looping(t[c])
              => t[c].i < Len(t[c].work.items)

\* What a connection has learnt about its server (conn.catalogs and
\* conn.fallback) is true, whatever replies were lost or broken on the way.
CachesTrue ==
    \A c \in Callers :
        LET cn == t[c].conn IN
        /\ cn.catalogs = "yes" => cn.v # "2.3"
        /\ cn.catalogs = "no"  => cn.v = "2.3"
        /\ cn.legacy => Doing(t[c]).rpc \in removedRPCs(cn.v)

\* No request to a server without catalogs names one, in a field or in a
\* qualified database name, even when an earlier attempt of the same call
\* was served by one with catalogs (resolveCatFor, SPEC 2.3 rule 1).
NoCatalogTo23 ==
    \A c \in Callers :
        InRpc(c) /\ t[c].conn.v = "2.3" => request(t[c]).cat = Nil

Finders  == {"GetCatalog", "GetDatabase", "GetTable"}
Makers   == {"CreateCatalog", "CreateDatabase", "CreateTable", "AddPartitions"}
Changers == {"AlterDatabase", "AlterTable", "AlterPartitions"}
Droppers == {"DropCatalog", "DropDatabase", "DropTable", "DropPartition",
             "DropPartitionsByNames", "DropPartitions"}
Listers  == {"GetCatalogs", "GetAllDatabases", "GetAllTables", "GetTables", "GetPartitions",
             "GetPartitionNames", "GetPartitionsByNames", "GetPartitionsByFilter",
             "GetPartitionNamesByValues", "GetNextNotifications",
             "GetTableColumnStatistics"}

\* The objects a call names.
Targets(w) ==
    CASE w.op \in {"GetCatalog", "CreateCatalog", "DropCatalog"} -> {w.name}
      [] w.op \in {"GetDatabase", "CreateDatabase", "AlterDatabase", "DropDatabase"} -> {w.db}
      [] w.op \in {"GetTable", "CreateTable", "AlterTable", "DropTable"} -> {w.tbl}
      [] w.op \in {"DropPartitionsByNames", "GetPartitionsByNames"}
                                     -> {w.items[n][2] : n \in DOMAIN w.items}
      [] OTHER                       -> Range(w.items)

\* The objects a lister returned.
Listed(w, v) ==
    CASE w.op \in {"GetPartitionNames", "GetPartitionNamesByValues"} -> [n \in DOMAIN v |-> v[n][2]]
      [] w.op = "GetNextNotifications" -> [n \in DOMAIN v |-> v[n].id]
      [] OTHER                         -> v

\* The engine whose statistics the server of connection cn gives.
Engine(w, cn) == IF cn.v = "4.0" THEN w.name ELSE "hive"

\* The limit the caller set on the answer, or -1.
Limit(w) == CASE w.op \in MaxPartsOps /\ w.n >= 0 -> w.n
              [] w.op = "GetNextNotifications" /\ w.max > 0 -> w.max
              [] OTHER -> -1

\* Every answer was true at some moment of the call, whichever attempts,
\* versions and batches it took.  What is found, made or changed was there;
\* what is missing or dropped was not there throughout; a list has
\* everything that was there throughout (up to its limit), nothing that
\* never was, and nothing twice; a limit that does not fit the wire is
\* refused; and no call is told that its own lost effect is in its way.  A
\* version is the release line of the server that gave it, 3.0 for any 3.x.
\* (Of drops by name with ifExists only single-name batches: hmstest refuses
\* a batch with a missing name.  DropDatabase's follow-up may report the
\* call's own lost drop as ErrNotFound.  ServerVersion says 3.0 of a server
\* without getVersion when an earlier attempt has read that from another and
\* lost its probe.)
AnswersTrue ==
    \A c \in Callers : t[c].pc = "done" =>
        LET w == t[c].call  e == t[c].err
            l == Listed(w, t[c].val)
            all == IF w.op \in {"GetTables", "GetPartitionsByNames"}
                   THEN kept[c] \cap Targets(w)
                   ELSE IF w.op \in {"GetPartitionsByFilter", "GetPartitionNamesByValues"}
                   THEN {o \in kept[c] : \A n \in DOMAIN w.items : o = w.items[n]}
                   ELSE IF w.op = "GetTableColumnStatistics"
                   THEN kept[c] \cap ({Engine(w, t[c].conn)} \X Range(w.items))
                   ELSE kept[c]
        IN
        /\ w.op \in Finders \cup Makers \cup Changers /\ e = "ok"
             => Targets(w) \subseteq ever[c]
        /\ w.op \in Finders \cup Droppers \cup {"AlterDatabase"} /\ e = "NotFound"
             => ~(Targets(w) \subseteq kept[c])
        /\ w.op \in Droppers /\ e = "ok" /\ (w.ifx => BatchSize = 1 \/ Len(w.items) <= 1)
             => Targets(w) \cap kept[c] = {}
        /\ w.op \in Droppers /\ w.ifx => e # "NotFound" \/ w.op = "DropPartitions"
        /\ w.op \in Makers /\ e = "AlreadyExists" => Targets(w) \cap ever[c] # {}
        /\ e \in {"AlreadyExists", "NotFound"} /\ w.op # "DropDatabase"
             => Len(t[c].applied) = 0 \/ t[c].work.op \in Batched
        /\ w.op \in Listers /\ e = "ok" =>
             /\ Range(l) \subseteq ever[c] /\ IsInjective(l)
             /\ Limit(w) >= 0 => Len(l) <= Limit(w)
             /\ Limit(w) = -1 \/ Len(l) < Limit(w) => all \subseteq Range(l)
             /\ w.op \in MaxPartsOps => w.n <= MaxI16
             /\ w.op = "GetTableColumnStatistics" => Range(l) \subseteq all \cup (ever[c] \ kept[c])
        /\ w.op \in Listers /\ e = "NotFound" => kept[c] = {}
        /\ w.op = "CurrentNotificationID" /\ e = "ok"
             => kept[c] \subseteq 1 .. t[c].val[1] /\ 1 .. t[c].val[1] \subseteq ever[c]
        /\ w.op = "ServerVersion" /\ e = "ok"
             => \/ t[c].val[1] = t[c].conn.v
                \/ /\ t[c].val[1] = "3.0"
                   /\ \/ t[c].conn.v = "3.1"
                      \/ t[c].work.op = "ServerVersion" /\ t[c].conn.without # {}

\* GetTablesSeq and GetPartitionsSeq yield nothing twice, over retries and
\* chunks alike, and one that ends by itself has yielded everything that was
\* there throughout and nothing that never was.
StreamExact ==
    \A c \in Callers : t[c].call.op \in DOMAIN Stream =>
        /\ IsInjective(t[c].val) /\ Range(t[c].val) \subseteq ever[c]
        /\ t[c].pc = "done" /\ t[c].err = "ok" => kept[c] \subseteq Range(t[c].val)

\* Nobody drops partitions by name beside a GetPartitionsSeq: a batch with a
\* missing name leaves hmstest with a partition twice (DropPartitionsReq).
NoDropsBeside ==
    \A c, d \in Callers :
        c # d /\ (\E n \in DOMAIN Inputs[c] : Inputs[c][n].op = "GetPartitionsSeq") =>
            \A m \in DOMAIN Inputs[d] :
                Inputs[d][m].op \notin {"DropPartitionsByNames", "DropPartitions"}

\* The server carries out the batches of one call in order and each at most
\* once, a prefix of them when the call fails and all when it succeeds; a
\* write without batches is carried out at most once.
BatchesOnce ==
    \A c \in Callers :
        LET a == t[c].applied
            w == t[c].work
        IN  /\ \A m, n \in DOMAIN a : m < n => a[m] < a[n]
            /\ w.op \in Batched /\ ~w.ifx =>
                 /\ \A n \in DOMAIN a : a[n] = (n - 1) * BatchSize
                 /\ t[c].pc = "done" /\ t[c].err = "ok"
                      => Len(a) * BatchSize >= Len(w.items)

\* A connection that goes back to its pool has no unread reply on it (do's
\* comment: such a connection is discarded).  DropDatabase's follow-up
\* breaks it.
PooledClean == \A c \in Callers : ~t[c].spoilt

\* GetNextNotifications returns no event only if none matches.  A limit
\* together with eventTypes breaks it on a server that does not know the
\* list of types.
EmptyMeansNone ==
    \A c \in Callers :
        t[c].call.op = "GetNextNotifications" /\ t[c].pc = "done" /\ t[c].err = "ok"
        /\ t[c].val = <<>> => kept[c] = {}
=============================================================================
