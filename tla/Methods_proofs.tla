---------------------------- MODULE Methods_proofs ----------------------------
(***************************************************************************)
(* What a goroutine of the client keeps true from one RPC to the next.     *)
(*                                                                         *)
(* Good(x) is what holds of a goroutine at rest.  A lemma per operator of  *)
(* Methods says that it gives a Good goroutine when Base, and what that    *)
(* operator further needs, hold of its argument; Calls_proofs applies them *)
(* to the steps.  And what the loops over slices compute.                  *)
(***************************************************************************)
EXTENDS Methods, Functions, NaturalsInduction, WellFoundedInduction, TLAPS

\* The provers tried on a step that names none, and their time.
USE SMTT(30), Z3T(30), ZenonT(30)

Goroutine(x) ==
    DOMAIN x = {"pc", "call", "work", "tries", "conn", "cat", "i", "acc", "names", "pos",
                "buf", "version", "err", "val", "ctxDone", "spoilt", "applied"}

\* A connection, with caches that are true of its server.
ConnOK(cn) ==
    /\ DOMAIN cn = {"v", "without", "catalogs", "legacy", "dirty"}
    /\ cn.v \in Version /\ cn.without \subseteq {"getVersion"}
    /\ cn.catalogs \in {"unknown", "yes", "no"}
    /\ cn.catalogs = "yes" => cn.v # "2.3"
    /\ cn.catalogs = "no" => cn.v = "2.3"

\* conn.fallback is set only for a method whose RPC the server lacks.
LegacyOK(w, cn) ==
    cn.legacy => /\ Method[w.op].legacy # Nil
                 /\ Method[w.op].rpc \in removedRPCs(cn.v)

\* What a do takes over from its call.
Place(call, w) ==
    /\ w.cat = call.cat /\ w.db = call.db /\ w.tbl = call.tbl
    /\ w.op # "GetConfigValue" => w.name = call.name
    /\ w.op = call.op => w.items = call.items

\* The do's that a call consists of.
Stage(call, w) ==
    /\ Place(call, w)
    /\ call.op \in DOMAIN Method => IF call.op = "ServerVersion"
                                    THEN w.op \in {"ServerVersion", "GetConfigValue"}
                                    ELSE w.op = call.op
    /\ call.op \in DOMAIN Stream => w.op \in {Stream[call.op].list, Stream[call.op].chunk}
    /\ call.op = "DropPartitions" => w.op \in {"GetTable", "DropPartitionsByNames"}
    /\ ~Method[w.op].read => Len(w.items) \in Nat

\* The writes carried out so far.
Ordered(w, a) ==
    /\ a \in Seq(Nat)
    /\ Method[w.op].read => a = <<>>
    /\ \A m, n \in DOMAIN a : m < n => a[m] < a[n]
    /\ w.op \in Batched /\ ~w.ifx => \A n \in DOMAIN a : a[n] = (n - 1) * BatchSize

Complete(w, a) == w.op \in Batched /\ ~w.ifx => Len(a) * BatchSize >= Len(w.items)

Base(x) ==
    /\ Goroutine(x) /\ IsCall(x.call) /\ Stage(x.call, x.work)
    /\ ConnOK(x.conn) /\ LegacyOK(x.work, x.conn)
    /\ Ordered(x.work, x.applied)
    /\ x.tries \in 0 .. MaxRetries

\* x is about to send the request for offset i.
Turn(x) ==
    /\ x.i \in Nat
    /\ ~Looping(x) => x.applied = <<>> /\ x.i = 0
    /\ \A n \in DOMAIN x.applied : x.applied[n] < x.i
    /\ x.work.op \in Batched /\ ~x.work.ifx => Len(x.applied) * BatchSize = x.i

\* No catalog for a server without catalogs.
Cat23(x) == x.conn.v = "2.3" => x.cat = Nil

\* The catalog is resolved: it is the call's, or none for the default.
CatOK(x) ==
    /\ Cat23(x)
    /\ Doing(x).catalog => x.cat = x.work.cat \/ (x.cat = Nil /\ x.work.cat = "hive")

At(x) ==
    /\ x.pc \in {"acquire", "probe", "root", "rpc", "followup", "chunk", "yield", "done"}
    /\ x.pc = "probe" => Cat23(x)
    /\ x.pc \in {"root", "rpc", "followup"} => CatOK(x)
    /\ x.pc \in {"acquire", "probe", "root"} => x.applied = <<>>
    /\ x.pc = "acquire" => x.tries < MaxRetries
    /\ x.pc \in {"probe", "root"} => x.i = 0
    /\ x.pc = "rpc" => Turn(x) /\ (Looping(x) /\ ~Doing(x).read => x.i < Len(x.work.items))
    /\ x.pc = "followup" => x.work.op = "DropDatabase"
    /\ x.pc \in {"chunk", "yield"} => x.call.op \in DOMAIN Stream
    /\ x.pc = "done" /\ x.err = "ok" => Complete(x.work, x.applied)

\* Before its first do.
Fresh(x) ==
    /\ Goroutine(x) /\ ConnOK(x.conn) /\ ~x.conn.legacy
    /\ x.pc \in {"idle", "done"} /\ x.work = NoCall /\ x.applied = <<>> /\ x.tries = 0
    /\ x.pc = "idle" => x.call = NoCall /\ x.val = <<>> /\ x.pos = 0

Good(x) == Fresh(x) \/ (Base(x) /\ At(x))

-----------------------------------------------------------------------------
(* Methods.                                                                 *)

HasLegacy == {"GetPartitions", "GetPartitionsByNames", "GetPartitionNamesByValues", "AlterPartitions"}

Names ==
    {"GetCatalogs", "GetCatalog", "CreateCatalog", "DropCatalog", "GetAllDatabases",
     "GetDatabase", "CreateDatabase", "AlterDatabase", "DropDatabase", "GetAllTables",
     "GetTable", "GetTables", "CreateTable", "AlterTable", "DropTable", "GetPartitions",
     "GetPartitionNames", "GetPartitionsByNames", "GetPartitionsByFilter",
     "GetPartitionNamesByValues", "AddPartitions", "AlterPartitions", "DropPartition",
     "DropPartitionsByNames", "GetConfigValue", "ServerVersion",
     "GetTableColumnStatistics", "CurrentNotificationID", "GetNextNotifications"}

Writing == {"CreateCatalog", "DropCatalog", "CreateDatabase", "AlterDatabase",
            "DropDatabase", "CreateTable", "AlterTable", "DropTable", "AddPartitions",
            "AlterPartitions", "DropPartition", "DropPartitionsByNames"}

\* The methods' table, as the proofs use it.
LEMMA MethodFacts ==
    /\ DOMAIN Method = Names /\ DOMAIN Stream = {"GetTablesSeq", "GetPartitionsSeq"}
    /\ \A op \in Names :
         /\ Method[op].step \in Nat
         /\ Method[op].step = IF op \in Batched THEN BatchSize
                             ELSE IF op \in {"GetTables", "GetPartitionsByNames"} THEN ChunkSize
                             ELSE 0
         /\ (Method[op].read <=> op \notin Writing)
         /\ Method[op].legacy # Nil => op \in HasLegacy
<1> DEFINE Row(d, read, step, legacy) == (d.read <=> read) /\ d.step = step /\ d.legacy = legacy
<1>1. DOMAIN Method = Names /\ DOMAIN Stream = {"GetTablesSeq", "GetPartitionsSeq"}
  BY DEF Method, Stream, Names
<1>2. /\ Method["GetCatalogs"] = GetCatalogs
      /\ Method["GetCatalog"] = GetCatalog
      /\ Method["CreateCatalog"] = CreateCatalog
      /\ Method["DropCatalog"] = DropCatalog
      /\ Method["GetAllDatabases"] = GetAllDatabases
      /\ Method["GetDatabase"] = GetDatabase
      /\ Method["CreateDatabase"] = CreateDatabase
      /\ Method["AlterDatabase"] = AlterDatabase
      /\ Method["DropDatabase"] = DropDatabase
      /\ Method["GetAllTables"] = GetAllTables
      /\ Method["GetTable"] = GetTable
      /\ Method["GetTables"] = GetTables
      /\ Method["CreateTable"] = CreateTable
      /\ Method["AlterTable"] = AlterTable
      /\ Method["DropTable"] = DropTable
      /\ Method["GetPartitions"] = GetPartitions
      /\ Method["GetPartitionNames"] = GetPartitionNames
      /\ Method["GetPartitionsByNames"] = GetPartitionsByNames
      /\ Method["GetPartitionsByFilter"] = GetPartitionsByFilter
      /\ Method["GetPartitionNamesByValues"] = GetPartitionNamesByValues
      /\ Method["AddPartitions"] = AddPartitions
      /\ Method["AlterPartitions"] = AlterPartitions
      /\ Method["DropPartition"] = DropPartition
      /\ Method["DropPartitionsByNames"] = DropPartitionsByNames
      /\ Method["GetConfigValue"] = GetConfigValue
      /\ Method["ServerVersion"] = ServerVersion
      /\ Method["GetTableColumnStatistics"] = GetTableColumnStatistics
      /\ Method["CurrentNotificationID"] = CurrentNotificationID
      /\ Method["GetNextNotifications"] = GetNextNotifications
  BY DEF Method
<1>3. /\ Row(GetCatalogs, TRUE, 0, Nil)
      /\ Row(GetCatalog, TRUE, 0, Nil)
      /\ Row(CreateCatalog, FALSE, 0, Nil)
      /\ Row(DropCatalog, FALSE, 0, Nil)
      /\ Row(GetAllDatabases, TRUE, 0, Nil)
      /\ Row(GetDatabase, TRUE, 0, Nil)
      /\ Row(CreateDatabase, FALSE, 0, Nil)
      /\ Row(AlterDatabase, FALSE, 0, Nil)
  BY DEF GetCatalogs, GetCatalog, CreateCatalog, DropCatalog, GetAllDatabases,
         GetDatabase, CreateDatabase, AlterDatabase, Read, Call
<1>4. /\ Row(DropDatabase, FALSE, 0, Nil)
      /\ Row(GetAllTables, TRUE, 0, Nil)
      /\ Row(GetTable, TRUE, 0, Nil)
      /\ Row(GetTables, TRUE, ChunkSize, Nil)
      /\ Row(CreateTable, FALSE, 0, Nil)
      /\ Row(AlterTable, FALSE, 0, Nil)
      /\ Row(DropTable, FALSE, 0, Nil)
      /\ Row(GetPartitions, TRUE, 0, "get_partitions")
  BY DEF DropDatabase, GetAllTables, GetTable, GetTables, CreateTable, AlterTable,
         DropTable, GetPartitions, Read, Call
<1>5. /\ Row(GetPartitionNames, TRUE, 0, Nil)
      /\ Row(GetPartitionsByNames, TRUE, ChunkSize, "get_partitions_by_names")
      /\ Row(GetPartitionsByFilter, TRUE, 0, Nil)
      /\ Row(GetPartitionNamesByValues, TRUE, 0, "get_partition_names_ps")
      /\ Row(AddPartitions, FALSE, BatchSize, Nil)
      /\ Row(AlterPartitions, FALSE, BatchSize, "alter_partitions")
      /\ Row(DropPartition, FALSE, 0, Nil)
      /\ Row(DropPartitionsByNames, FALSE, BatchSize, Nil)
  BY DEF GetPartitionNames, GetPartitionsByNames, GetPartitionsByFilter,
         GetPartitionNamesByValues, AddPartitions, AlterPartitions, DropPartition,
         DropPartitionsByNames, Read, Call
<1>6. /\ Row(GetConfigValue, TRUE, 0, Nil)
      /\ Row(ServerVersion, TRUE, 0, Nil)
      /\ Row(GetTableColumnStatistics, TRUE, 0, Nil)
      /\ Row(CurrentNotificationID, TRUE, 0, Nil)
      /\ Row(GetNextNotifications, TRUE, 0, Nil)
  BY DEF GetConfigValue, ServerVersion, GetTableColumnStatistics, CurrentNotificationID,
         GetNextNotifications, Read, Call
<1>7. \A op \in Names :
         Method[op].step = IF op \in Batched THEN BatchSize
                           ELSE IF op \in {"GetTables", "GetPartitionsByNames"} THEN ChunkSize
                           ELSE 0
  BY <1>2, <1>3, <1>4, <1>5, <1>6 DEF Names, Batched
<1>8. \A op \in Names : (Method[op].read <=> op \notin Writing)
  BY <1>2, <1>3, <1>4, <1>5, <1>6 DEF Names, Writing
<1>9. \A op \in Names :
         Method[op].legacy # Nil => op \in HasLegacy
  BY <1>2, <1>3, <1>4, <1>5, <1>6 DEF Names, HasLegacy
<1>10. \A op \in Names : Method[op].step \in Nat
  BY <1>7, SizesAssumption
<1>11. QED
  BY <1>1, <1>7, <1>8, <1>9, <1>10

\* The method of a do is in the table.
LEMMA StageNamed ==
    ASSUME NEW call, NEW w, IsCall(call), Stage(call, w)
    PROVE  w.op \in Names
<1>1. /\ DOMAIN Method = Names /\ DOMAIN Stream = {"GetTablesSeq", "GetPartitionsSeq"}
      /\ Stream["GetTablesSeq"] = GetTablesSeq /\ Stream["GetPartitionsSeq"] = GetPartitionsSeq
  BY MethodFacts DEF Stream
<1>2. call.op \in DOMAIN Method => w.op \in Names
  BY <1>1 DEF Stage, Names
<1>3. call.op \in DOMAIN Stream => w.op \in Names
  BY <1>1 DEF Stage, GetTablesSeq, GetPartitionsSeq, Names
<1>4. call.op = "DropPartitions" => w.op \in Names
  BY DEF Stage, Names
<1>5. QED
  BY <1>2, <1>3, <1>4 DEF IsCall

-----------------------------------------------------------------------------
(* What the client does between two RPCs.                                   *)

\* Return: a call that is over.
LEMMA ReturnGood ==
    ASSUME NEW x, NEW e, NEW v, Base(x), e = "ok" => Complete(x.work, x.applied)
    PROVE  Good(Return(x, e, v))
<1> DEFINE y == Return(x, e, v)
<1>1. /\ Goroutine(y) /\ y.pc = "done" /\ y.err = e /\ y.tries = 0
      /\ y.call = x.call /\ y.work = x.work /\ y.conn = x.conn /\ y.applied = x.applied
  BY Zenon DEF Return, Goroutine, Base
<1> HIDE DEF y
<1>2. Base(y)
  BY <1>1, SizesAssumption DEF Base
<1>3. At(y)
  BY <1>1 DEF At
<1>4. QED
  BY <1>2, <1>3 DEF Good, y

\* StartDo: the next do of a call, before its first attempt.
LEMMA StartDoGood ==
    ASSUME NEW x, NEW w, Goroutine(x), IsCall(x.call), Stage(x.call, w),
           ConnOK(x.conn), LegacyOK(w, x.conn), x.applied = <<>>
    PROVE  Good(StartDo(x, w))
<1> DEFINE y == StartDo(x, w)
<1>1. /\ Goroutine(y) /\ y.pc = "acquire" /\ y.work = w /\ y.tries = 0
      /\ y.call = x.call /\ y.conn = x.conn /\ y.applied = <<>>
  BY DEF StartDo, Goroutine
<1> HIDE DEF y
<1>2. Ordered(w, <<>>)
  BY DEF Ordered
<1>3. Base(y)
  BY <1>1, <1>2, SizesAssumption DEF Base
<1>4. At(y)
  BY <1>1, SizesAssumption DEF At
<1>5. QED
  BY <1>3, <1>4 DEF Good, y

\* ServerVersion never uses a legacy form, nor does it write.
LEMMA VersionReturnsGood ==
    ASSUME NEW x, NEW e, NEW v, Base(x), x.call.op = "ServerVersion"
    PROVE  Good(VersionReturns(x, e, v))
<1>1. DOMAIN Method = Names /\ "ServerVersion" \in Names /\ "GetConfigValue" \in Names
  BY MethodFacts DEF Names
<1>2. x.work.op \in {"ServerVersion", "GetConfigValue"}
  BY <1>1 DEF Base, Stage
<1>3. /\ Method[x.work.op].read /\ Method[x.work.op].legacy = Nil
      /\ Method["GetConfigValue"].read /\ x.work.op \notin Batched
  BY <1>1, <1>2, MethodFacts DEF Writing, HasLegacy, Batched
<1>4. x.applied = <<>> /\ ~x.conn.legacy
  BY <1>3 DEF Base, Ordered, LegacyOK
<1>5. ASSUME NEW key
      PROVE  Good(StartDo(x, [x.call EXCEPT !.op = "GetConfigValue", !.name = key]))
  <2> DEFINE w == [x.call EXCEPT !.op = "GetConfigValue", !.name = key]
  <2>1. w.op = "GetConfigValue" /\ w.op # x.call.op /\ Place(x.call, w)
    BY DEF Base, IsCall, Place
  <2> HIDE DEF w
  <2>2. Stage(x.call, w)
    BY <1>1, <1>3, <2>1, MethodFacts DEF Stage
  <2>3. LegacyOK(w, x.conn)
    BY <1>4 DEF LegacyOK
  <2>4. Good(StartDo(x, w))
    BY <1>4, <2>2, <2>3, StartDoGood DEF Base
  <2>5. QED
    BY <2>4 DEF w
<1>6. ASSUME NEW f, NEW u
      PROVE  Good(Return(x, f, u))
  BY <1>3, ReturnGood DEF Complete
<1>7. QED
  BY <1>5, <1>6, Zenon DEF VersionReturns

\* What a step leaves alone: with all of this as it was, Base holds on.
LEMMA BaseKept ==
    ASSUME NEW x, NEW y, Base(x), Goroutine(y), y.call = x.call, y.work = x.work,
           y.conn = x.conn, y.applied = x.applied, y.tries = x.tries
    PROVE  Base(y)
  BY DEF Base

\* DropPartitions drops by name what it was given by value.
LEMMA DropByNames ==
    ASSUME NEW x, Base(x), x.call.op = "DropPartitions", x.work.op = "GetTable"
    PROVE  Good(StartDo(x, [x.call EXCEPT !.op = "DropPartitionsByNames",
                              !.items = [n \in DOMAIN @ |-> partitionName(@[n])]]))
<1> DEFINE items == [n \in DOMAIN x.call.items |-> partitionName(x.call.items[n])]
           w == [x.call EXCEPT !.op = "DropPartitionsByNames",
                               !.items = [n \in DOMAIN @ |-> partitionName(@[n])]]
<1>1. w.op = "DropPartitionsByNames" /\ w.items = items /\ Place(x.call, w)
  BY DEF Base, IsCall, Place
<1>2. DOMAIN items = 1 .. Len(x.call.items) /\ Len(x.call.items) \in Nat
  BY DEF Base, IsCall
<1>3. Len(items) \in Nat
  <2>1. items \in Seq({partitionName(x.call.items[n]) : n \in DOMAIN x.call.items})
    BY <1>2
  <2>2. QED
    BY <2>1
<1> HIDE DEF w, items
<1>4. "GetTable" \in Names /\ x.call.op \notin Names /\ x.call.op \notin DOMAIN Stream
  BY MethodFacts DEF Names
<1>5. Stage(x.call, w)
  BY <1>1, <1>3, <1>4, MethodFacts DEF Stage
<1>6. Method["GetTable"].read /\ Method["GetTable"].legacy = Nil
  BY <1>4, MethodFacts DEF Writing, HasLegacy
<1>7. x.applied = <<>> /\ LegacyOK(w, x.conn)
  BY <1>6 DEF Base, Ordered, LegacyOK
<1>8. Good(StartDo(x, w))
  BY <1>5, <1>7, StartDoGood DEF Base
<1>9. QED
  BY <1>8 DEF w

\* do has returned e: the call goes on with its next do, yields, or is over.
LEMMA DoReturnsGood ==
    ASSUME NEW x, NEW e, NEW v, Base(x), e = "ok" => Complete(x.work, x.applied)
    PROVE  Good(DoReturns(x, e, v))
<1>1. CASE x.call.op = "ServerVersion"
  BY <1>1, VersionReturnsGood DEF DoReturns
<1>2. CASE x.call.op # "ServerVersion" /\ e # "ok"
  BY <1>2, ReturnGood DEF DoReturns
<1>3. ASSUME x.call.op \in DOMAIN Stream
      PROVE  Good([x EXCEPT !.pc = "chunk", !.names = v]) /\ Good([x EXCEPT !.pc = "yield", !.buf = v])
  <2> DEFINE y == [x EXCEPT !.pc = "chunk", !.names = v]
             z == [x EXCEPT !.pc = "yield", !.buf = v]
  <2>1. /\ Goroutine(y) /\ y.pc = "chunk" /\ y.tries = x.tries
        /\ y.call = x.call /\ y.work = x.work /\ y.conn = x.conn /\ y.applied = x.applied
    BY DEF Base, Goroutine
  <2>2. /\ Goroutine(z) /\ z.pc = "yield" /\ z.tries = x.tries
        /\ z.call = x.call /\ z.work = x.work /\ z.conn = x.conn /\ z.applied = x.applied
    BY DEF Base, Goroutine
  <2> HIDE DEF y, z
  <2>3. Base(y) /\ Base(z)
    BY <2>1, <2>2, BaseKept
  <2>4. At(y) /\ At(z)
    BY <1>3, <2>1, <2>2 DEF At
  <2>5. QED
    BY <2>3, <2>4 DEF Good, y, z
<1>4. CASE x.call.op # "ServerVersion" /\ e = "ok" /\ x.call.op \in DOMAIN Stream
  BY <1>3, <1>4 DEF DoReturns
<1>5. CASE x.call.op # "ServerVersion" /\ e = "ok" /\ x.call.op \notin DOMAIN Stream
  <2>1. Good(Return(x, "ok", v))
    BY <1>5, ReturnGood
  <2>2. QED
    BY <1>5, <2>1, DropByNames, Zenon DEF DoReturns
<1>6. QED
  BY <1>1, <1>2, <1>4, <1>5

\* The closure has returned e: do tries a read again or returns.
LEMMA FnReturnsGood ==
    ASSUME NEW x, NEW e, NEW v, Base(x), e = "ok" => Complete(x.work, x.applied)
    PROVE  Good(FnReturns(x, e, v))
<1> DEFINE y == [x EXCEPT !.spoilt = @ \/ (x.conn.dirty /\ ~Discards(e))]
           z == [y EXCEPT !.pc = "acquire"]
<1>1. /\ Goroutine(y) /\ y.tries = x.tries
      /\ y.call = x.call /\ y.work = x.work /\ y.conn = x.conn /\ y.applied = x.applied
  BY DEF Base, Goroutine
<1> HIDE DEF y
<1>2. Base(y)
  BY <1>1, BaseKept
<1>3. /\ Goroutine(z) /\ z.tries = x.tries /\ z.pc = "acquire"
      /\ z.call = x.call /\ z.work = x.work /\ z.conn = x.conn /\ z.applied = x.applied
  BY <1>1 DEF Goroutine
<1> HIDE DEF z
<1>4. ASSUME Retries(x, e) PROVE Good(z)
  <2>1. Base(z)
    BY <1>3, BaseKept
  <2>2. z.applied = <<>> /\ z.tries < MaxRetries
    BY <1>3, <1>4 DEF Retries, Doing, Base, Ordered
  <2>3. QED
    BY <1>3, <2>1, <2>2 DEF Good, At
<1>5. classify(e) = "ok" => e = "ok"
  BY DEF classify
<1>6. Good(DoReturns(y, classify(e), v))
  BY <1>1, <1>2, <1>5, DoReturnsGood
<1>7. QED
  BY <1>4, <1>6 DEF FnReturns, y, z

\* The head of the loop over the batches: all of them done, or the next one's turn.
LEMMA LoopGood ==
    ASSUME NEW x, Base(x), CatOK(x), Turn(x)
    PROVE  Good(Loop(x))
<1>1. CASE Looping(x) /\ x.i >= Len(x.work.items)
  <2>1. Complete(x.work, x.applied)
    BY <1>1 DEF Turn, Complete
  <2>2. QED
    BY <1>1, <2>1, FnReturnsGood DEF Loop
<1>2. CASE ~(Looping(x) /\ x.i >= Len(x.work.items))
  <2> DEFINE y == [x EXCEPT !.pc = "rpc"]
  <2>1. /\ Goroutine(y) /\ y.pc = "rpc" /\ y.tries = x.tries /\ y.i = x.i /\ y.cat = x.cat
        /\ y.call = x.call /\ y.work = x.work /\ y.conn = x.conn /\ y.applied = x.applied
    BY DEF Base, Goroutine
  <2> HIDE DEF y
  <2>2. Base(y)
    BY <2>1, BaseKept
  <2>3. CatOK(y) /\ Turn(y)
    BY <2>1 DEF CatOK, Cat23, Turn, Looping, Doing
  <2>4. Looping(y) /\ ~Doing(y).read => y.i < Len(y.work.items)
    BY <1>2, <2>1 DEF Looping, Doing, Base, Stage, Turn
  <2>5. At(y)
    BY <2>1, <2>3, <2>4 DEF At
  <2>6. QED
    BY <1>2, <2>2, <2>5 DEF Good, Loop, y
<1>3. QED
  BY <1>1, <1>2

\* What is known once the batch at offset i is done.
Moved(x) ==
    /\ x.i \in Nat
    /\ Looping(x) => \A n \in DOMAIN x.applied : x.applied[n] < x.i + Doing(x).step
    /\ x.work.op \in Batched /\ ~x.work.ifx
         => Len(x.applied) * BatchSize = x.i + BatchSize

\* The batch at offset i is done.
LEMMA AdvanceGood ==
    ASSUME NEW x, NEW v, Base(x), CatOK(x), Moved(x)
    PROVE  Good(Advance(x, v))
<1>0. /\ x.work.op \in Names
      /\ Doing(x).step \in Nat /\ (x.work.op \in Batched => Doing(x).step = BatchSize)
  BY StageNamed, MethodFacts DEF Base, Doing
<1>1. CASE Looping(x)
  <2> DEFINE y == [x EXCEPT !.i = @ + Doing(x).step, !.acc = @ \o v]
  <2>1. /\ Goroutine(y) /\ y.tries = x.tries /\ y.i = x.i + Doing(x).step /\ y.cat = x.cat
        /\ y.call = x.call /\ y.work = x.work /\ y.conn = x.conn /\ y.applied = x.applied
    BY DEF Base, Goroutine
  <2> HIDE DEF y
  <2>2. Base(y)
    BY <2>1, BaseKept
  <2>3. CatOK(y)
    BY <2>1 DEF CatOK, Cat23, Doing
  <2>4. Turn(y)
    BY <1>0, <1>1, <2>1 DEF Turn, Moved, Looping, Doing
  <2>5. QED
    BY <1>1, <2>2, <2>3, <2>4, LoopGood DEF Advance, y
<1>2. CASE ~Looping(x)
  <2>1. x.work.op \notin Batched
    BY <1>0, <1>2, SizesAssumption DEF Looping
  <2>2. QED
    BY <1>2, <2>1, FnReturnsGood DEF Advance, Complete
<1>3. QED
  BY <1>1, <1>2

\* Before the closure's first RPC.
LEMMA TurnStarts ==
    ASSUME NEW x, x.i = 0, x.applied = <<>>
    PROVE  Turn(x)
  BY SizesAssumption DEF Turn

\* A catalog is named only to a server that is known to have catalogs.
LEMMA ResolveGood ==
    ASSUME NEW x, Base(x), x.applied = <<>>, x.i = 0
    PROVE  Good(resolveCatFor(x))
<1> DEFINE support == x.conn.catalogs = "yes"
           y == [x EXCEPT !.cat = IF x.work.cat = "hive" /\ ~support THEN Nil ELSE x.work.cat]
           z == [y EXCEPT !.pc = "root"]
<1>1. CASE x.work.cat # "hive" /\ ~support
  BY <1>1, FnReturnsGood DEF resolveCatFor
<1>2. CASE ~(x.work.cat # "hive" /\ ~support)
  <2>1. /\ Goroutine(y) /\ y.tries = x.tries /\ y.i = 0
        /\ y.cat = IF ~support THEN Nil ELSE x.work.cat
        /\ y.call = x.call /\ y.work = x.work /\ y.conn = x.conn /\ y.applied = <<>>
    BY <1>2 DEF Base, Goroutine
  <2> HIDE DEF y
  <2>2. /\ Goroutine(z) /\ z.tries = x.tries /\ z.i = 0 /\ z.pc = "root" /\ z.cat = y.cat
        /\ z.call = x.call /\ z.work = x.work /\ z.conn = x.conn /\ z.applied = <<>>
    BY <2>1 DEF Goroutine
  <2> HIDE DEF z
  <2>3. Base(y) /\ Base(z)
    BY <2>1, <2>2, BaseKept
  <2>4. CatOK(y) /\ CatOK(z)
    BY <1>2, <2>1, <2>2 DEF CatOK, Cat23, Base, ConnOK
  <2>5. Good(z)
    BY <2>2, <2>3, <2>4 DEF Good, At
  <2>6. Good(Loop(y))
    BY <2>1, <2>3, <2>4, TurnStarts, LoopGood
  <2>7. QED
    BY <1>2, <2>5, <2>6 DEF resolveCatFor, y, z
<1>3. QED
  BY <1>1, <1>2

\* An attempt on a connection whose caches are true.
LEMMA StartGood ==
    ASSUME NEW x, NEW cn, Base(x), x.applied = <<>>, x.tries < MaxRetries,
           ConnOK(cn), LegacyOK(x.work, cn)
    PROVE  Good(Start(x, cn))
<1> DEFINE y == [x EXCEPT !.conn = cn, !.tries = @ + 1, !.i = 0, !.acc = <<>>, !.cat = Nil]
           z == [y EXCEPT !.pc = "probe"]
<1>1. /\ Goroutine(y) /\ y.tries = x.tries + 1 /\ y.i = 0 /\ y.cat = Nil
      /\ y.call = x.call /\ y.work = x.work /\ y.conn = cn /\ y.applied = <<>>
  BY DEF Base, Goroutine
<1> HIDE DEF y
<1>2. /\ Goroutine(z) /\ z.tries = x.tries + 1 /\ z.i = 0 /\ z.cat = Nil /\ z.pc = "probe"
      /\ z.call = x.call /\ z.work = x.work /\ z.conn = cn /\ z.applied = <<>>
  BY <1>1 DEF Goroutine
<1> HIDE DEF z
<1>3. Base(y) /\ Base(z)
  BY <1>1, <1>2, SizesAssumption DEF Base
<1>4. Good(z)
  BY <1>2, <1>3 DEF Good, At, Cat23
<1>5. ~Doing(x).catalog => Good(Loop(y))
  <2>1. Doing(y) = Doing(x) /\ Turn(y)
    BY <1>1, TurnStarts DEF Doing
  <2>2. QED
    BY <1>1, <1>3, <2>1, LoopGood DEF CatOK, Cat23
<1>6. Good(resolveCatFor(y))
  BY <1>1, <1>3, ResolveGood
<1>7. QED
  BY <1>4, <1>5, <1>6 DEF Start, y, z

-----------------------------------------------------------------------------
(* Replies.                                                                 *)

\* What a reply says of the server it came from.
Says(x, r) ==
    /\ x.pc = "probe" \/ (x.pc = "rpc" /\ x.work.op = "GetCatalogs") =>
         /\ r.err = "ok" => x.conn.v # "2.3"
         /\ r.err = "UnknownMethod" => x.conn.v = "2.3"
    /\ x.pc = "rpc" /\ tryReq(x, r) => Doing(x).rpc \in removedRPCs(x.conn.v)

\* x, with what the server did for it already in applied, is about to get r.
Pending(x, r) ==
    /\ Base(x) /\ Cat23(x) /\ (x.pc # "probe" => CatOK(x)) /\ Says(x, r)
    /\ x.pc \in {"probe", "root"} => x.applied = <<>> /\ x.i = 0
    /\ x.pc = "followup" => x.work.op = "DropDatabase"
    /\ x.pc = "rpc" =>
         /\ x.i \in Nat /\ (~Looping(x) => x.i = 0)
         /\ r.err = "ok" => Moved(x)
         /\ r.err = "NotFound" /\ x.work.ifx => Moved(x)
         /\ r.err = "UnknownMethod" =>
              Turn(x) /\ (Looping(x) /\ ~Doing(x).read => x.i < Len(x.work.items))

\* A cache filled by a reply is true.
LEMMA CatalogsLearnt ==
    ASSUME NEW x, NEW b \in {"yes", "no"}, Base(x), b = "yes" <=> x.conn.v # "2.3"
    PROVE  LET y == [x EXCEPT !.conn.catalogs = b] IN
           /\ Base(y) /\ y.pc = x.pc /\ y.i = x.i /\ y.cat = x.cat
           /\ y.work = x.work /\ y.applied = x.applied /\ y.conn.v = x.conn.v
<1> DEFINE y == [x EXCEPT !.conn.catalogs = b]
<1>1. /\ Goroutine(y) /\ y.tries = x.tries /\ y.pc = x.pc /\ y.i = x.i /\ y.cat = x.cat
      /\ y.call = x.call /\ y.work = x.work /\ y.applied = x.applied
      /\ y.conn = [x.conn EXCEPT !.catalogs = b]
  BY DEF Base, Goroutine
<1> HIDE DEF y
<1>2. ConnOK(y.conn) /\ y.conn.v = x.conn.v /\ y.conn.legacy = x.conn.legacy
  BY <1>1 DEF Base, ConnOK
<1>3. LegacyOK(y.work, y.conn)
  BY <1>1, <1>2 DEF Base, LegacyOK
<1>4. Base(y)
  BY <1>1, <1>2, <1>3 DEF Base
<1>5. QED
  BY <1>1, <1>2, <1>4 DEF y

\* A release line is ServerVersion's, which has no batches.
LEMMA InferGood ==
    ASSUME NEW x, Base(x), x.work.op = "ServerVersion"
    PROVE  Good(inferLine(x))
  BY FnReturnsGood DEF inferLine, Complete, Batched

\* supportsCatalogs: only a catalog list or UNKNOWN_METHOD is remembered.
LEMMA ProbeGood ==
    ASSUME NEW x, NEW r, x.pc = "probe", Pending(x, r)
    PROVE  Good(supportsCatalogs(x, r))
<1>1. ASSUME NEW b \in {"yes", "no"}, b = "yes" <=> x.conn.v # "2.3"
      PROVE  Good(afterProbe([x EXCEPT !.conn.catalogs = b]))
  <2> DEFINE y == [x EXCEPT !.conn.catalogs = b]
  <2>1. Base(y) /\ y.i = 0 /\ y.applied = <<>>
    BY <1>1, CatalogsLearnt, Zenon DEF Pending
  <2> HIDE DEF y
  <2>2. Good(afterProbe(y))
    BY <2>1, InferGood, ResolveGood DEF afterProbe
  <2>3. QED
    BY <2>2 DEF y
<1>2. r.err \notin {"ok", "UnknownMethod"} => Good(FnReturns(x, r.err, <<>>))
  BY FnReturnsGood DEF Pending
<1>3. QED
  BY <1>1, <1>2 DEF supportsCatalogs, Pending, Says

\* warehouseRoot: CreateDatabase goes on to its RPC with a root.
LEMMA RootGood ==
    ASSUME NEW x, NEW r, x.pc = "root", Pending(x, r)
    PROVE  Good(warehouseRoot(x, r))
<1>1. Good(Loop(x))
  BY TurnStarts, LoopGood DEF Pending
<1>2. ASSUME NEW e, e # "ok" PROVE Good(FnReturns(x, e, <<>>))
  BY <1>2, FnReturnsGood DEF Pending
<1>3. QED
  BY <1>1, <1>2 DEF warehouseRoot

\* DropDatabase's follow-up ends the closure.
LEMMA FollowUpGood ==
    ASSUME NEW x, NEW r, x.pc = "followup", Pending(x, r)
    PROVE  Good(followUp(x, r))
<1>1. Complete(x.work, x.applied)
  BY DEF Pending, Complete, Batched
<1>2. QED
  BY <1>1, FnReturnsGood DEF followUp, Pending

\* learn fills a cache with the truth and changes nothing else.
LEMMA LearnKeeps ==
    ASSUME NEW x, NEW r, x.pc = "rpc", Pending(x, r)
    PROVE  LET y == learn(x, r) IN
           Base(y) /\ CatOK(y) /\ y.work = x.work /\ y.applied = x.applied /\ (Moved(x) => Moved(y))
<1> DEFINE y == learn(x, r)
<1>1. /\ Base(y) /\ y.i = x.i /\ y.cat = x.cat
      /\ y.work = x.work /\ y.applied = x.applied /\ y.conn.v = x.conn.v
  <2>1. CASE x.work.op = "GetCatalogs" /\ r.err \in {"ok", "UnknownMethod"}
    BY <2>1, CatalogsLearnt, Zenon DEF learn, Pending, Says
  <2>2. CASE ~(x.work.op = "GetCatalogs" /\ r.err \in {"ok", "UnknownMethod"})
    BY <2>2 DEF learn, Pending
  <2>3. QED
    BY <2>1, <2>2
<1> HIDE DEF y
<1>2. CatOK(y) /\ (Moved(x) => Moved(y))
  BY <1>1 DEF CatOK, Cat23, Moved, Looping, Doing, Pending
<1>3. QED
  BY <1>1, <1>2 DEF y

\* getVersion's reply ends the closure or leads to the probe.
LEMMA GotVersionGood ==
    ASSUME NEW x, NEW r, x.pc = "rpc", Pending(x, r), x.work.op = "ServerVersion", NEW v
    PROVE  Good(gotVersion(x, v))
<1> DEFINE y == [x EXCEPT !.version = v]
           z == [y EXCEPT !.pc = "probe"]
<1>1. Doing(x).read /\ ~Looping(x) /\ x.work.op \notin Batched
  BY MethodFacts DEF Doing, Looping, Names, Writing, Batched
<1>2. x.applied = <<>> /\ x.i = 0
  BY <1>1 DEF Pending, Base, Ordered, Doing
<1>3. /\ Goroutine(y) /\ y.tries = x.tries
      /\ y.call = x.call /\ y.work = x.work /\ y.conn = x.conn /\ y.applied = x.applied
      /\ Goroutine(z) /\ z.tries = x.tries /\ z.pc = "probe" /\ z.i = x.i /\ z.cat = x.cat
      /\ z.call = x.call /\ z.work = x.work /\ z.conn = x.conn /\ z.applied = x.applied
  BY DEF Pending, Base, Goroutine
<1> HIDE DEF y, z
<1>4. Base(y) /\ Base(z)
  BY <1>3, BaseKept DEF Pending
<1>5. Good(z)
  BY <1>2, <1>3, <1>4 DEF Good, At, Pending, Cat23
<1>6. Good(inferLine(y)) /\ Good(FnReturns(y, "ok", <<v>>))
  BY <1>1, <1>3, <1>4, InferGood, FnReturnsGood DEF Complete
<1>7. QED
  BY <1>5, <1>6 DEF gotVersion, y, z

\* tryReq: the same batch again, by the legacy form that the server has.
LEMMA FallbackGood ==
    ASSUME NEW x, NEW r, x.pc = "rpc", Pending(x, r), tryReq(x, r)
    PROVE  Good([x EXCEPT !.conn.legacy = TRUE])
<1> DEFINE y == [x EXCEPT !.conn.legacy = TRUE]
<1>1. /\ Goroutine(y) /\ y.tries = x.tries /\ y.pc = x.pc /\ y.i = x.i /\ y.cat = x.cat
      /\ y.call = x.call /\ y.work = x.work /\ y.applied = x.applied
      /\ y.conn = [x.conn EXCEPT !.legacy = TRUE]
  BY DEF Pending, Base, Goroutine
<1> HIDE DEF y
<1>2. ConnOK(y.conn) /\ y.conn.v = x.conn.v
  BY <1>1 DEF Pending, Base, ConnOK
<1>3. LegacyOK(y.work, y.conn)
  BY <1>1, <1>2 DEF LegacyOK, Pending, Says, tryReq, Doing
<1>4. Base(y) /\ CatOK(y)
  BY <1>1, <1>2, <1>3 DEF Pending, Base, CatOK, Cat23, Doing
<1>5. Turn(y) /\ (Looping(y) /\ ~Doing(y).read => y.i < Len(y.work.items))
  BY <1>1 DEF Pending, tryReq, Turn, Looping, Doing
<1>6. QED
  BY <1>1, <1>4, <1>5 DEF Good, At, y

\* The reply to a method's RPC.
LEMMA MethodReplyGood ==
    ASSUME NEW x, NEW r, x.pc = "rpc", Pending(x, r)
    PROVE  Good(methodReply(x, r))
<1>1. r.err = "ok" /\ x.work.op = "ServerVersion" => Good(gotVersion(x, r.val[1]))
  BY GotVersionGood
<1>2. r.err = "ok" => Good(Advance(learn(x, r), localFilter(x.work, r.val)))
  BY LearnKeeps, AdvanceGood DEF Pending
<1>3. r.err = "NotFound" /\ x.work.ifx => Good(Advance(x, <<>>))
  BY AdvanceGood DEF Pending
<1>4. x.work.op = "DropDatabase" => Good([x EXCEPT !.pc = "followup", !.err = r.err])
  <2> DEFINE y == [x EXCEPT !.pc = "followup", !.err = r.err]
  <2>1. /\ Goroutine(y) /\ y.tries = x.tries /\ y.pc = "followup" /\ y.cat = x.cat
        /\ y.call = x.call /\ y.work = x.work /\ y.conn = x.conn /\ y.applied = x.applied
    BY DEF Pending, Base, Goroutine
  <2> HIDE DEF y
  <2>2. Base(y)
    BY <2>1, BaseKept DEF Pending
  <2>3. x.work.op = "DropDatabase" => Good(y)
    BY <2>1, <2>2 DEF Good, At, CatOK, Cat23, Doing, Pending
  <2>4. QED
    BY <2>3 DEF y
<1>5. r.err # "ok" => Good(FnReturns(learn(x, r), r.err, <<>>))
  BY LearnKeeps, FnReturnsGood
<1>6. QED
  BY <1>1, <1>2, <1>3, <1>4, <1>5, FallbackGood DEF methodReply

\* A reply, whichever RPC it answers.
LEMMA OnReplyGood ==
    ASSUME NEW x, NEW r, x.pc \in {"probe", "root", "rpc", "followup"}, Pending(x, r)
    PROVE  Good(onReply(x, r))
  BY ProbeGood, RootGood, FollowUpGood, MethodReplyGood DEF onReply

-----------------------------------------------------------------------------
(* The do's of a call, and what the server has carried out.                 *)

\* The RPC names that the proofs use.
LEMMA RpcNames ==
    /\ Method["GetCatalogs"].rpc = "get_catalogs"
    /\ \A op \in HasLegacy :
         Method[op].rpc \in {"get_partitions_req", "get_partitions_by_names_req",
                             "get_partition_names_ps_req", "alter_partitions_req"}
<1>1. /\ Method["GetCatalogs"] = GetCatalogs /\ Method["GetPartitions"] = GetPartitions
      /\ Method["GetPartitionsByNames"] = GetPartitionsByNames
      /\ Method["GetPartitionNamesByValues"] = GetPartitionNamesByValues
      /\ Method["AlterPartitions"] = AlterPartitions
  BY DEF Method
<1>2. /\ GetCatalogs.rpc = "get_catalogs" /\ GetPartitions.rpc = "get_partitions_req"
      /\ GetPartitionsByNames.rpc = "get_partitions_by_names_req"
      /\ GetPartitionNamesByValues.rpc = "get_partition_names_ps_req"
      /\ AlterPartitions.rpc = "alter_partitions_req"
  BY DEF GetCatalogs, GetPartitions, GetPartitionsByNames, GetPartitionNamesByValues,
         AlterPartitions, Read, Call
<1>3. QED
  BY <1>1, <1>2 DEF HasLegacy

\* The first do of a call.
FirstWork(w) ==
    CASE w.op \in DOMAIN Stream -> [w EXCEPT !.op = Stream[w.op].list, !.n = -1]
      [] w.op = "DropPartitions" -> [w EXCEPT !.op = "GetTable"]
      [] OTHER -> w

\* It is a stage of the call.
LEMMA FirstStage ==
    ASSUME NEW w, IsCall(w)
    PROVE  Stage(w, FirstWork(w))
<1>1. /\ DOMAIN Method = Names /\ DOMAIN Stream = {"GetTablesSeq", "GetPartitionsSeq"}
      /\ Stream["GetTablesSeq"] = GetTablesSeq /\ Stream["GetPartitionsSeq"] = GetPartitionsSeq
  BY MethodFacts DEF Stream
<1>2. /\ Method["GetAllTables"].read /\ Method["GetPartitionNames"].read
      /\ Method["GetTable"].read
  BY MethodFacts DEF Names, Writing
<1>3. CASE w.op \in DOMAIN Stream
  <2> DEFINE v == [w EXCEPT !.op = Stream[w.op].list, !.n = -1]
  <2>0. FirstWork(w) = v
    <3>1. w.op # "DropPartitions"
      BY <1>1, <1>3
    <3> HIDE DEF v
    <3>2. QED
      BY <1>3, <3>1, Zenon DEF FirstWork, v
  <2>1. FirstWork(w).op = Stream[w.op].list
    <3>1. v.op = Stream[w.op].list
      BY DEF IsCall
    <3> HIDE DEF v
    <3>2. QED
      BY <2>0, <3>1
  <2>5. v.cat = w.cat /\ v.db = w.db /\ v.tbl = w.tbl /\ v.name = w.name
    BY DEF IsCall
  <2>2. FirstWork(w).op \in {"GetAllTables", "GetPartitionNames"}
    BY <1>1, <1>3, <2>1 DEF GetTablesSeq, GetPartitionsSeq
  <2>3. w.op \notin Names /\ w.op # "DropPartitions"
    BY <1>1, <1>3 DEF Names
  <2> HIDE DEF v
  <2>6. Place(w, FirstWork(w))
    BY <1>1, <1>3, <2>0, <2>2, <2>5 DEF Place
  <2>4. QED
    BY <1>1, <1>2, <2>1, <2>2, <2>3, <2>6 DEF Stage
<1>4. CASE w.op = "DropPartitions"
  <2>1. w.op \notin Names /\ w.op \notin DOMAIN Stream
    BY <1>1, <1>4 DEF Names
  <2>2. FirstWork(w).op = "GetTable" /\ Place(w, FirstWork(w))
    BY <1>4, <2>1 DEF FirstWork, IsCall, Place
  <2>3. QED
    BY <1>1, <1>2, <2>1, <2>2 DEF Stage
<1>5. CASE w.op \notin DOMAIN Stream /\ w.op # "DropPartitions"
  <2>1. FirstWork(w) = w
    BY <1>5 DEF FirstWork
  <2>2. Len(w.items) \in Nat
    BY DEF IsCall
  <2>3. QED
    BY <1>5, <2>1, <2>2 DEF Stage, Place
<1>6. QED
  BY <1>3, <1>4, <1>5

\* The streams and their do's.
LEMMA StreamOps ==
    \A op \in DOMAIN Stream :
        /\ op \in {"GetTablesSeq", "GetPartitionsSeq"}
        /\ Stream[op].list = IF op = "GetTablesSeq" THEN "GetAllTables" ELSE "GetPartitionNames"
        /\ Stream[op].chunk = IF op = "GetTablesSeq" THEN "GetTables" ELSE "GetPartitionsByNames"
  BY DEF Stream, GetTablesSeq, GetPartitionsSeq

\* A stream's do's only read, and its chunks share their legacy form.
LEMMA StreamReads ==
    ASSUME NEW x, Base(x), x.call.op \in DOMAIN Stream
    PROVE  /\ x.applied = <<>> /\ x.work.op \notin Batched
           /\ \A w : w.op = Stream[x.call.op].chunk /\ Place(x.call, w)
                     => Stage(x.call, w) /\ LegacyOK(w, x.conn)
<1>1. /\ DOMAIN Method = Names /\ DOMAIN Stream = {"GetTablesSeq", "GetPartitionsSeq"}
      /\ Stream["GetTablesSeq"] = GetTablesSeq /\ Stream["GetPartitionsSeq"] = GetPartitionsSeq
  BY MethodFacts DEF Stream
<1>2. /\ Stream[x.call.op].list \in {"GetAllTables", "GetPartitionNames"}
      /\ Stream[x.call.op].chunk \in {"GetTables", "GetPartitionsByNames"}
      /\ x.call.op \notin Names /\ x.call.op # "DropPartitions"
  BY <1>1 DEF GetTablesSeq, GetPartitionsSeq, Names
<1>3. x.work.op \in {Stream[x.call.op].list, Stream[x.call.op].chunk}
  BY DEF Base, Stage
<1>4. \A op \in {"GetAllTables", "GetPartitionNames", "GetTables", "GetPartitionsByNames"} :
        op \in Names /\ op \notin Writing /\ op \notin Batched
  BY DEF Names, Writing, Batched
<1>5. /\ \A op \in {"GetAllTables", "GetPartitionNames", "GetTables", "GetPartitionsByNames"} :
           Method[op].read
      /\ \A op \in {"GetAllTables", "GetPartitionNames"} : Method[op].legacy = Nil
  BY <1>4, MethodFacts DEF HasLegacy
<1>6. x.applied = <<>> /\ x.work.op \notin Batched
  BY <1>2, <1>3, <1>4, <1>5 DEF Base, Ordered
<1>7. ASSUME NEW w, w.op = Stream[x.call.op].chunk, Place(x.call, w)
      PROVE  Stage(x.call, w) /\ LegacyOK(w, x.conn)
  <2>1. Stage(x.call, w)
    BY <1>1, <1>2, <1>5, <1>7 DEF Stage
  <2>2. LegacyOK(w, x.conn)
    BY <1>2, <1>3, <1>5, <1>7 DEF LegacyOK, Base
  <2>3. QED
    BY <2>1, <2>2
<1>8. QED
  BY <1>6, <1>7

\* A write carried out at offset i comes after all the others.
LEMMA CarriedOut ==
    ASSUME NEW x, Base(x), Turn(x), ~Doing(x).read
    PROVE  LET a == Append(x.applied, x.i) IN
           /\ Ordered(x.work, a)
           /\ Looping(x) => \A n \in DOMAIN a : a[n] < x.i + Doing(x).step
           /\ x.work.op \in Batched /\ ~x.work.ifx => Len(a) * BatchSize = x.i + BatchSize
<1> DEFINE b == x.applied
           a == Append(b, x.i)
<1>1. b \in Seq(Nat) /\ x.i \in Nat /\ Len(b) \in Nat
  BY DEF Base, Ordered, Turn
<1>2. /\ a \in Seq(Nat) /\ Len(a) = Len(b) + 1 /\ DOMAIN a = 1 .. Len(b) + 1
      /\ DOMAIN b = 1 .. Len(b) /\ a[Len(b) + 1] = x.i
      /\ \A n \in DOMAIN b : a[n] = b[n]
  BY <1>1
<1>3. \A n \in DOMAIN b : b[n] \in Nat /\ b[n] < x.i
  BY <1>1 DEF Turn
<1> HIDE DEF a
<1>4. ASSUME NEW n \in DOMAIN a PROVE a[n] <= x.i
  <2>1. n \in DOMAIN b \/ n = Len(b) + 1
    BY <1>1, <1>2
  <2>2. CASE n \in DOMAIN b
    BY <1>1, <1>2, <1>3, <2>2
  <2>3. CASE n = Len(b) + 1
    BY <1>1, <1>2, <2>3
  <2>4. QED
    BY <2>1, <2>2, <2>3
<1>5. \A m, n \in DOMAIN a : m < n => a[m] < a[n]
  <2>1. \A m, n \in DOMAIN b : m < n => b[m] < b[n]
    BY DEF Base, Ordered
  <2>2. SUFFICES ASSUME NEW m \in DOMAIN a, NEW n \in DOMAIN a, m < n
                 PROVE  a[m] < a[n]
    OBVIOUS
  <2>3. m \in DOMAIN b /\ (n \in DOMAIN b \/ n = Len(b) + 1)
    BY <1>1, <1>2, <2>2
  <2>4. QED
    BY <1>2, <1>3, <2>1, <2>2, <2>3
<1>6. ASSUME x.work.op \in Batched /\ ~x.work.ifx
      PROVE  /\ \A n \in DOMAIN a : a[n] = (n - 1) * BatchSize
             /\ Len(a) * BatchSize = x.i + BatchSize
  <2>1. x.i = Len(b) * BatchSize /\ \A n \in DOMAIN b : b[n] = (n - 1) * BatchSize
    BY <1>6 DEF Turn, Base, Ordered
  <2>2. (Len(b) + 1) * BatchSize = Len(b) * BatchSize + BatchSize
    BY <1>1, SizesAssumption
  <2>3. (Len(b) + 1) - 1 = Len(b)
    BY <1>1
  <2>4. QED
    BY <1>1, <1>2, <2>1, <2>2, <2>3
<1>7. Looping(x) => \A n \in DOMAIN a : a[n] < x.i + Doing(x).step
  <2>1. x.work.op \in Names /\ Doing(x).step \in Nat
    BY StageNamed, MethodFacts DEF Base, Doing
  <2>2. QED
    BY <1>1, <1>2, <1>4, <2>1 DEF Looping
<1>8. Ordered(x.work, a)
  BY <1>2, <1>5, <1>6 DEF Ordered, Doing
<1>9. QED
  BY <1>6, <1>7, <1>8 DEF a

\* The server has answered q; the client gets r, which is q or says that q
\* was lost or broken.
LEMMA HandledPending ==
    ASSUME NEW x, NEW q, NEW r, Base(x), At(x), x.pc \in {"probe", "root", "rpc", "followup"},
           (r = q /\ Says(x, q)) \/ r.err \in {"Unavailable", "Protocol"}
    PROVE  Pending(Handled(x, q), r) /\ Handled(x, q).pc = x.pc /\ Handled(x, q).conn = x.conn
<1> DEFINE y == Handled(x, q)
           did == x.pc = "rpc" /\ ~Doing(x).read /\ q.err = "ok"
<1>1. /\ Goroutine(y) /\ y.pc = x.pc /\ y.tries = x.tries /\ y.i = x.i /\ y.cat = x.cat
      /\ y.call = x.call /\ y.work = x.work /\ y.conn = x.conn
      /\ did => y.applied = Append(x.applied, x.i)
      /\ ~did => y.applied = x.applied
  BY DEF Handled, Base, Goroutine
<1> HIDE DEF y
<1>2. Ordered(y.work, y.applied)
  BY <1>1, CarriedOut, Zenon DEF Base, At
<1>3. Base(y) /\ Cat23(y) /\ (y.pc # "probe" => CatOK(y))
  BY <1>1, <1>2 DEF Base, CatOK, Cat23, Doing, At
<1>4. Says(y, r)
  BY <1>1 DEF Says, tryReq, Doing
<1>5. x.work.op \in Names /\ Doing(x).step \in Nat
  BY StageNamed, MethodFacts DEF Base, Doing
<1>6. ASSUME x.pc = "rpc", r.err = "ok" PROVE Moved(y)
  <2>1. CASE did
    BY <1>1, <1>6, <2>1, CarriedOut DEF Moved, Looping, Doing, At, Turn
  <2>2. CASE ~did
    <3>1. Doing(x).read /\ x.work.op \notin Batched /\ x.applied = <<>>
      BY <1>5, <1>6, <2>2, MethodFacts DEF Base, Ordered, Doing, Batched, Writing
    <3>2. QED
      BY <1>1, <1>6, <2>2, <3>1 DEF Moved, At, Turn
  <2>3. QED
    BY <2>1, <2>2
<1>7. ASSUME x.pc = "rpc", r.err = "NotFound", x.work.ifx PROVE Moved(y)
  <2>1. y.applied = x.applied /\ x.applied \in Seq(Nat)
    BY <1>1, <1>7 DEF Base, Ordered
  <2>2. QED
    BY <1>1, <1>5, <1>7, <2>1 DEF Moved, At, Turn, Looping, Doing
<1>8. ASSUME x.pc = "rpc", r.err = "UnknownMethod"
      PROVE  Turn(y) /\ (Looping(y) /\ ~Doing(y).read => y.i < Len(y.work.items))
  BY <1>1, <1>8 DEF Turn, At, Looping, Doing
<1>9. QED
  BY <1>1, <1>3, <1>4, <1>6, <1>7, <1>8, Zenon DEF Pending, At, Turn, Looping, Doing, y

\* An unread reply leaves the rest as it is.
LEMMA DirtyPending ==
    ASSUME NEW x, NEW r, NEW b, Pending(x, r)
    PROVE  LET y == [x EXCEPT !.conn.dirty = b] IN Pending(y, r) /\ y.pc = x.pc
<1> DEFINE y == [x EXCEPT !.conn.dirty = b]
<1>1. /\ Goroutine(y) /\ y.pc = x.pc /\ y.tries = x.tries /\ y.i = x.i /\ y.cat = x.cat
      /\ y.call = x.call /\ y.work = x.work /\ y.applied = x.applied
      /\ y.conn = [x.conn EXCEPT !.dirty = b]
  BY DEF Pending, Base, Goroutine
<1> HIDE DEF y
<1>2. ConnOK(y.conn) /\ y.conn.v = x.conn.v /\ y.conn.legacy = x.conn.legacy
  BY <1>1 DEF Pending, Base, ConnOK
<1>3. Base(y) /\ Cat23(y) /\ (y.pc # "probe" => CatOK(y)) /\ Says(y, r)
  BY <1>1, <1>2 DEF Pending, Base, LegacyOK, CatOK, Cat23, Says, tryReq, Doing
<1>4. QED
  BY <1>1, <1>3 DEF Pending, Moved, Turn, Looping, Doing, y

-----------------------------------------------------------------------------
(* A Good goroutine, step by step.                                          *)

\* It is called.
LEMMA BeginStep ==
    ASSUME NEW x, NEW w, Good(x), x.pc = "idle", IsCall(w)
    PROVE  LET y == [x EXCEPT !.call = w] IN
           /\ Good(StartDo(y, FirstWork(w)))
           /\ \A e, v : Good(Return(y, e, v))
<1> DEFINE y == [x EXCEPT !.call = w]
<1>1. Fresh(x)
  BY DEF Good, At
<1>2. /\ Goroutine(y) /\ y.call = w /\ y.work = NoCall /\ y.applied = <<>>
      /\ y.conn = x.conn /\ ConnOK(y.conn) /\ ~y.conn.legacy
  BY <1>1 DEF Fresh, Goroutine
<1> HIDE DEF y
<1>3. Good(StartDo(y, FirstWork(w)))
  BY <1>2, FirstStage, StartDoGood DEF LegacyOK
<1>4. ASSUME NEW e, NEW v PROVE Good(Return(y, e, v))
  <2> DEFINE z == Return(y, e, v)
  <2>1. /\ Goroutine(z) /\ z.pc = "done" /\ z.tries = 0
        /\ z.work = y.work /\ z.conn = y.conn /\ z.applied = y.applied
    BY <1>2, Zenon DEF Return, Goroutine
  <2> HIDE DEF z
  <2>2. Good(z)
    BY <1>2, <2>1 DEF Good, Fresh
  <2>3. QED
    BY <2>2 DEF z
<1>5. QED
  BY <1>3, <1>4 DEF y

\* It gets a connection to a server of version v.
LEMMA AcquireStep ==
    ASSUME NEW x, Good(x), x.pc = "acquire", NEW v \in Version, NEW asked,
           NEW legacy, legacy => Doing(x).legacy # Nil /\ Doing(x).rpc \in removedRPCs(v),
           NEW without, without \subseteq {"getVersion"}
    PROVE  Good(Start(x, [v |-> v, without |-> without, legacy |-> legacy, dirty |-> FALSE,
                          catalogs |-> IF ~asked THEN "unknown"
                                       ELSE IF v = "2.3" THEN "no" ELSE "yes"]))
<1> DEFINE cn == [v |-> v, without |-> without, legacy |-> legacy, dirty |-> FALSE,
                  catalogs |-> IF ~asked THEN "unknown" ELSE IF v = "2.3" THEN "no" ELSE "yes"]
<1>1. Base(x) /\ x.applied = <<>> /\ x.tries < MaxRetries
  BY DEF Good, Fresh, At
<1>2. ConnOK(cn)
  BY DEF ConnOK
<1>3. LegacyOK(x.work, cn)
  BY DEF LegacyOK, Doing
<1> HIDE DEF cn
<1>4. Good(Start(x, cn))
  BY <1>1, <1>2, <1>3, StartGood
<1>5. QED
  BY <1>4 DEF cn

\* It gets none.
LEMMA DialStep ==
    ASSUME NEW x, Good(x), x.pc = "acquire"
    PROVE  /\ Good(DoReturns(x, "Unavailable", <<>>))
           /\ x.tries + 1 # MaxRetries => Good([x EXCEPT !.tries = @ + 1])
<1> DEFINE y == [x EXCEPT !.tries = @ + 1]
<1>1. Base(x) /\ At(x) /\ x.applied = <<>> /\ x.tries < MaxRetries
  BY DEF Good, Fresh, At
<1>2. Good(DoReturns(x, "Unavailable", <<>>))
  BY <1>1, DoReturnsGood
<1>3. /\ Goroutine(y) /\ y.pc = "acquire" /\ y.tries = x.tries + 1
      /\ y.call = x.call /\ y.work = x.work /\ y.conn = x.conn /\ y.applied = x.applied
  BY <1>1 DEF Base, Goroutine
<1> HIDE DEF y
<1>4. x.tries \in Nat /\ MaxRetries \in Nat
  BY <1>1, SizesAssumption DEF Base
<1>5. Base(y)
  BY <1>1, <1>3, <1>4 DEF Base
<1>6. x.tries + 1 # MaxRetries => At(y)
  BY <1>1, <1>3, <1>4 DEF At
<1>7. QED
  BY <1>2, <1>5, <1>6 DEF Good, y

\* It gets the server's reply q.
LEMMA ReplyStep ==
    ASSUME NEW x, NEW q, Good(x), x.pc \in {"probe", "root", "rpc", "followup"}, Says(x, q)
    PROVE  Good(onReply(Handled(x, q), q))
<1>1. Base(x) /\ At(x)
  BY DEF Good, Fresh
<1>2. Pending(Handled(x, q), q) /\ Handled(x, q).pc = x.pc
  BY <1>1, HandledPending
<1>3. QED
  BY <1>2, OnReplyGood

\* The request was handled with reply q, or not at all, and it gets an error.
LEMMA LostStep ==
    ASSUME NEW x, NEW q, NEW b, NEW r, Good(x), x.pc \in {"probe", "root", "rpc", "followup"},
           r.err \in {"Unavailable", "Protocol"}
    PROVE  Good(onReply([Handled(x, q) EXCEPT !.conn.dirty = b], r))
<1> DEFINE y == Handled(x, q)
           z == [y EXCEPT !.conn.dirty = b]
<1>1. Base(x) /\ At(x)
  BY DEF Good, Fresh
<1>2. Pending(y, r) /\ y.pc = x.pc
  BY <1>1, HandledPending, Zenon
<1> HIDE DEF y
<1>3. Pending(z, r) /\ z.pc = x.pc
  BY <1>2, DirtyPending, Zenon
<1> HIDE DEF z
<1>4. Good(onReply(z, r))
  BY <1>3, OnReplyGood
<1>5. QED
  BY <1>4 DEF y, z

\* The follow-up on a connection with an unread reply fails.
LEMMA DesyncStep ==
    ASSUME NEW x, NEW r, Good(x), x.pc = "followup", r.err = "Unavailable"
    PROVE  Good(onReply(x, r))
<1>1. Base(x) /\ At(x)
  BY DEF Good, Fresh
<1>2. Handled(x, r) = x
  BY DEF Handled
<1>3. Pending(x, r)
  BY <1>1, <1>2, HandledPending
<1>4. QED
  BY <1>3, OnReplyGood

\* Its context ends.
LEMMA CancelStep ==
    ASSUME NEW x, Good(x), x.pc \notin {"idle", "done"}
    PROVE  Good([x EXCEPT !.ctxDone = TRUE])
<1> DEFINE y == [x EXCEPT !.ctxDone = TRUE]
<1>1. Base(x) /\ At(x)
  BY DEF Good, Fresh
<1>2. /\ Goroutine(y) /\ y.pc = x.pc /\ y.tries = x.tries /\ y.i = x.i /\ y.cat = x.cat
      /\ y.call = x.call /\ y.work = x.work /\ y.conn = x.conn /\ y.applied = x.applied
      /\ y.err = x.err
  BY <1>1 DEF Base, Goroutine
<1> HIDE DEF y
<1>3. Base(y)
  BY <1>1, <1>2, BaseKept
<1>4. At(y)
  BY <1>1, <1>2 DEF At, CatOK, Cat23, Turn, Looping, Doing
<1>5. QED
  BY <1>3, <1>4 DEF Good, y

\* It is at the head of its loop over chunks.
LEMMA ChunkStep ==
    ASSUME NEW x, Good(x), x.pc = "chunk"
    PROVE  /\ \A e : Good(Return(x, e, x.val))
           /\ Good(StartDo([x EXCEPT !.pos = @ + ChunkSize],
                           [x.call EXCEPT !.op = Stream[@].chunk,
                                          !.items = batch(x.names, x.pos, ChunkSize)]))
<1> DEFINE y == [x EXCEPT !.pos = @ + ChunkSize]
           w == [x.call EXCEPT !.op = Stream[@].chunk,
                               !.items = batch(x.names, x.pos, ChunkSize)]
<1>1. Base(x) /\ x.call.op \in DOMAIN Stream
  BY DEF Good, Fresh, At
<1>2. /\ Goroutine(y) /\ y.call = x.call /\ y.conn = x.conn /\ y.applied = x.applied
      /\ w.op = Stream[x.call.op].chunk
      /\ w.cat = x.call.cat /\ w.db = x.call.db /\ w.tbl = x.call.tbl /\ w.name = x.call.name
  BY <1>1 DEF Base, Goroutine, IsCall
<1> HIDE DEF y, w
<1>3. Stage(x.call, w) /\ LegacyOK(w, x.conn) /\ x.applied = <<>>
  <2>1. Place(x.call, w)
    BY <1>1, <1>2, StreamOps DEF Place
  <2>2. QED
    BY <1>1, <1>2, <2>1, StreamReads
<1>4. Good(StartDo(y, w))
  BY <1>1, <1>2, <1>3, StartDoGood DEF Base
<1>5. ASSUME NEW e PROVE Good(Return(x, e, x.val))
  BY <1>1, StreamReads, ReturnGood DEF Complete
<1>6. QED
  BY <1>4, <1>5 DEF y, w

\* It hands the consumer an object, or has no more of the chunk.
LEMMA YieldStep ==
    ASSUME NEW x, Good(x), x.pc = "yield"
    PROVE  /\ Good([x EXCEPT !.pc = "chunk"])
           /\ Good([x EXCEPT !.val = Append(@, Head(x.buf)), !.buf = Tail(@)])
           /\ \A v : Good(Return(x, "stopped", v))
<1> DEFINE y == [x EXCEPT !.pc = "chunk"]
           z == [x EXCEPT !.val = Append(@, Head(x.buf)), !.buf = Tail(@)]
<1>1. Base(x) /\ x.call.op \in DOMAIN Stream
  BY DEF Good, Fresh, At
<1>2. /\ Goroutine(y) /\ y.pc = "chunk" /\ y.tries = x.tries /\ y.call = x.call
      /\ y.work = x.work /\ y.conn = x.conn /\ y.applied = x.applied
  BY <1>1 DEF Base, Goroutine
<1>3. /\ Goroutine(z) /\ z.pc = "yield" /\ z.tries = x.tries /\ z.call = x.call
      /\ z.work = x.work /\ z.conn = x.conn /\ z.applied = x.applied
  BY <1>1 DEF Base, Goroutine
<1> HIDE DEF y, z
<1>4. Base(y) /\ Base(z)
  BY <1>1, <1>2, <1>3, BaseKept
<1>5. At(y) /\ At(z)
  BY <1>1, <1>2, <1>3 DEF At
<1>6. \A v : Good(Return(x, "stopped", v))
  BY <1>1, ReturnGood
<1>7. QED
  BY <1>4, <1>5, <1>6 DEF Good, y, z

-----------------------------------------------------------------------------
(* What Good says of a goroutine.                                           *)

\* What its connection has learnt is true.
LEMMA GoodCaches ==
    ASSUME NEW x, Good(x)
    PROVE  /\ x.conn.catalogs = "yes" => x.conn.v # "2.3"
           /\ x.conn.catalogs = "no"  => x.conn.v = "2.3"
           /\ x.conn.legacy => Doing(x).rpc \in removedRPCs(x.conn.v)
<1>1. CASE Fresh(x)
  BY <1>1 DEF Fresh, ConnOK
<1>2. CASE Base(x)
  BY <1>2 DEF Base, ConnOK, LegacyOK, Doing
<1>3. QED
  BY <1>1, <1>2 DEF Good

\* Its request to a server without catalogs names none.
LEMMA GoodCatalog ==
    ASSUME NEW x, Good(x), x.pc \in {"probe", "root", "rpc", "followup"}, x.conn.v = "2.3"
    PROVE  request(x).cat = Nil
<1>1. x.cat = Nil
  BY DEF Good, Fresh, At, CatOK, Cat23
<1>2. Nil # "hive"
  BY DEF Nil
<1> DEFINE q == methodRequest(x)
<1>3. q.cat = Nil
  BY <1>1, <1>2 DEF methodRequest, qualifyDBName
<1>4. DOMAIN q = {"m", "cat", "db", "tbl", "name", "max", "types", "n", "flag", "items"}
  BY DEF methodRequest
<1> HIDE DEF q
<1>5. QED
  BY <1>1, <1>3, <1>4 DEF request, q

\* Its batches were carried out in order and at most once.
LEMMA GoodBatches ==
    ASSUME NEW x, Good(x)
    PROVE  LET a == x.applied
               w == x.work
           IN  /\ \A m, n \in DOMAIN a : m < n => a[m] < a[n]
               /\ w.op \in Batched /\ ~w.ifx =>
                    /\ \A n \in DOMAIN a : a[n] = (n - 1) * BatchSize
                    /\ x.pc = "done" /\ x.err = "ok" => Len(a) * BatchSize >= Len(w.items)
<1>1. CASE Fresh(x)
  BY <1>1 DEF Fresh, NoCall, Batched
<1>2. CASE Base(x) /\ At(x)
  BY <1>2 DEF Base, At, Ordered, Complete
<1>3. QED
  BY <1>1, <1>2 DEF Good

\* Its attempts and the offsets of its batches are bounded.
LEMMA GoodBounds ==
    ASSUME NEW x, Good(x)
    PROVE  /\ x.tries \in 0 .. MaxRetries
           /\ x.pc = "acquire" => x.tries < MaxRetries
           /\ x.pc = "rpc" /\ Looping(x) /\ ~Doing(x).read
                => x.i \in Nat /\ x.i < Len(x.work.items)
<1>1. CASE Fresh(x)
  BY <1>1, SizesAssumption DEF Fresh
<1>2. CASE Base(x) /\ At(x)
  BY <1>2 DEF Base, At, Turn
<1>3. QED
  BY <1>1, <1>2 DEF Good

\* The rpcs whose replies Says is about.
LEMMA RequestNames ==
    ASSUME NEW x, Base(x)
    PROVE  /\ x.pc = "probe" => request(x).m = "get_catalogs"
           /\ x.pc = "rpc" /\ x.work.op = "GetCatalogs" => request(x).m = "get_catalogs"
           /\ x.pc = "rpc" /\ Doing(x).legacy # Nil /\ ~x.conn.legacy =>
                /\ request(x).m = Doing(x).rpc
                /\ Doing(x).rpc \in {"get_partitions_req", "get_partitions_by_names_req",
                                     "get_partition_names_ps_req", "alter_partitions_req"}
<1>1. x.work.op \in Names /\ (x.work.op \notin HasLegacy => Doing(x).legacy = Nil)
  BY StageNamed, MethodFacts DEF Base, Doing
<1>2. x.pc = "probe" => request(x).m = "get_catalogs"
  BY ZenonT(30) DEF request, methodRequest
<1>3. x.pc = "rpc" => request(x).m = methodRequest(x).m
  BY DEF request
<1>4. x.pc = "rpc" /\ x.work.op = "GetCatalogs" => request(x).m = "get_catalogs"
  BY <1>1, <1>3, RpcNames DEF methodRequest, Doing, HasLegacy, Base, LegacyOK
<1>5. ASSUME x.pc = "rpc", Doing(x).legacy # Nil, ~x.conn.legacy
      PROVE  /\ request(x).m = Doing(x).rpc
             /\ Doing(x).rpc \in {"get_partitions_req", "get_partitions_by_names_req",
                                  "get_partition_names_ps_req", "alter_partitions_req"}
  BY <1>1, <1>3, <1>5, RpcNames, Zenon DEF methodRequest, HasLegacy, Doing
<1>6. QED
  BY <1>2, <1>4, <1>5

-----------------------------------------------------------------------------
(* Requests.                                                                *)

\* The RPCs of the metastore that the client uses.
Rpcs ==
    {"get_catalogs", "get_catalog", "create_catalog", "drop_catalog", "get_config_value",
     "getVersion", "get_table_statistics_req", "get_current_notificationEventId",
     "get_all_databases", "get_databases", "get_database", "create_database",
     "alter_database", "drop_database", "get_all_tables", "get_table_req",
     "get_table_objects_by_name_req", "create_table", "alter_table", "drop_table",
     "get_partitions", "get_partitions_req", "get_partition_names",
     "get_partitions_by_names", "get_partitions_by_names_req", "get_partitions_by_filter",
     "get_partition_names_ps", "get_partition_names_ps_req", "add_partitions_req",
     "alter_partitions", "alter_partitions_req", "drop_partition", "drop_partitions_req",
     "get_next_notification"}

\* The RPC of a method, or its legacy form.
Sends(op) == {Method[op].rpc, Method[op].legacy}

\* Which RPCs the methods use.
LEMMA MethodRpcs ==
    \A op \in Names :
        /\ Sends(op) \subseteq Rpcs \cup {Nil} /\ Method[op].rpc # Nil
        /\ "drop_partitions_req" \in Sends(op) => op = "DropPartitionsByNames"
        /\ "add_partitions_req" \in Sends(op) => op = "AddPartitions"
<1> DEFINE Row(d, rpc, legacy) == d.rpc = rpc /\ d.legacy = legacy
<1>1. /\ Row(Method["GetCatalogs"], "get_catalogs", Nil)
      /\ Row(Method["GetCatalog"], "get_catalog", Nil)
      /\ Row(Method["CreateCatalog"], "create_catalog", Nil)
      /\ Row(Method["DropCatalog"], "drop_catalog", Nil)
      /\ Row(Method["GetAllDatabases"], "get_all_databases", Nil)
      /\ Row(Method["GetDatabase"], "get_database", Nil)
      /\ Row(Method["CreateDatabase"], "create_database", Nil)
      /\ Row(Method["AlterDatabase"], "alter_database", Nil)
      /\ Row(Method["DropDatabase"], "drop_database", Nil)
  BY Zenon DEF Method, GetCatalogs, GetCatalog, CreateCatalog, DropCatalog, GetAllDatabases,
         GetDatabase, CreateDatabase, AlterDatabase, DropDatabase, Read, Call
<1>2. /\ Row(Method["GetAllTables"], "get_all_tables", Nil)
      /\ Row(Method["GetTable"], "get_table_req", Nil)
      /\ Row(Method["GetTables"], "get_table_objects_by_name_req", Nil)
      /\ Row(Method["CreateTable"], "create_table", Nil)
      /\ Row(Method["AlterTable"], "alter_table", Nil)
      /\ Row(Method["DropTable"], "drop_table", Nil)
      /\ Row(Method["GetPartitions"], "get_partitions_req", "get_partitions")
      /\ Row(Method["GetPartitionNames"], "get_partition_names", Nil)
      /\ Row(Method["GetPartitionsByNames"], "get_partitions_by_names_req",
             "get_partitions_by_names")
      /\ Row(Method["GetPartitionsByFilter"], "get_partitions_by_filter", Nil)
  BY Zenon DEF Method, GetAllTables, GetTable, GetTables, CreateTable, AlterTable, DropTable,
         GetPartitions, GetPartitionNames, GetPartitionsByNames, GetPartitionsByFilter,
         Read, Call
<1>3. /\ Row(Method["GetPartitionNamesByValues"], "get_partition_names_ps_req",
             "get_partition_names_ps")
      /\ Row(Method["AddPartitions"], "add_partitions_req", Nil)
      /\ Row(Method["AlterPartitions"], "alter_partitions_req", "alter_partitions")
      /\ Row(Method["DropPartition"], "drop_partition", Nil)
      /\ Row(Method["DropPartitionsByNames"], "drop_partitions_req", Nil)
      /\ Row(Method["GetConfigValue"], "get_config_value", Nil)
      /\ Row(Method["ServerVersion"], "getVersion", Nil)
      /\ Row(Method["GetTableColumnStatistics"], "get_table_statistics_req", Nil)
      /\ Row(Method["CurrentNotificationID"], "get_current_notificationEventId", Nil)
      /\ Row(Method["GetNextNotifications"], "get_next_notification", Nil)
  BY Zenon DEF Method, GetPartitionNamesByValues, AddPartitions, AlterPartitions, DropPartition,
         DropPartitionsByNames, GetConfigValue, ServerVersion, GetTableColumnStatistics,
         CurrentNotificationID, GetNextNotifications, Read, Call
<1>4. /\ \A op \in Names \ HasLegacy : Method[op].legacy = Nil
      /\ \A op \in HasLegacy : Method[op].legacy \in {"get_partitions", "get_partitions_by_names",
                                      "get_partition_names_ps", "alter_partitions"}
  BY <1>1, <1>2, <1>3 DEF Names, HasLegacy
<1>5. \A op \in Names : Method[op].rpc \in Rpcs
  BY <1>1, <1>2, <1>3 DEF Names, Rpcs
<1>6. \A op \in Names :
        /\ Method[op].rpc = "drop_partitions_req" => op = "DropPartitionsByNames"
        /\ Method[op].rpc = "add_partitions_req" => op = "AddPartitions"
  BY <1>1, <1>2, <1>3 DEF Names
<1>7. \A op \in Names : Method[op].legacy \in Rpcs \cup {Nil}
        /\ Method[op].legacy \notin {"drop_partitions_req", "add_partitions_req"}
  <2> SUFFICES ASSUME NEW op \in Names
               PROVE  /\ Method[op].legacy \in Rpcs \cup {Nil}
                      /\ Method[op].legacy \notin {"drop_partitions_req", "add_partitions_req"}
    OBVIOUS
  <2>1. Method[op].legacy \in {"get_partitions", "get_partitions_by_names",
                               "get_partition_names_ps", "alter_partitions", Nil}
    BY <1>4
  <2>2. QED
    BY <2>1 DEF Rpcs, Nil
<1>8. Nil \notin Rpcs
  BY DEF Nil, Rpcs
<1>9. QED
  BY <1>5, <1>6, <1>7, <1>8 DEF Sends

\* What x's next request is for.
LEMMA RequestSent ==
    ASSUME NEW x, Base(x), At(x), x.pc \in {"probe", "root", "rpc", "followup"}
    PROVE  LET q == request(x) IN
           /\ q.m \in Rpcs
           /\ q.m = "drop_partitions_req" => x.work.op = "DropPartitionsByNames"
           /\ q.m = "add_partitions_req" =>
                /\ x.pc = "rpc" /\ x.work.op = "AddPartitions"
                /\ q.items = batch(x.work.items, x.i, BatchSize)
<1> DEFINE q == methodRequest(x)
<1>1. x.work.op \in Names
  BY StageNamed DEF Base
<1>2. CASE x.pc # "rpc"
  <2>1. request(x).m \in {"get_catalogs", "get_config_value", "get_catalog", "get_database"}
    <3>1. x.pc = "probe" => request(x).m = "get_catalogs"
      BY RequestNames
    <3>2. x.pc = "root" => request(x).m \in {"get_config_value", "get_catalog"}
      BY ZenonT(30) DEF request, methodRequest
    <3>3. x.pc = "followup" => request(x).m = "get_database"
      BY ZenonT(30) DEF request, methodRequest
    <3>4. QED
      BY <1>2, <3>1, <3>2, <3>3
  <2>2. QED
    BY <2>1 DEF Rpcs
<1>3. CASE x.pc = "rpc"
  <2>1. request(x) = q
    BY <1>3 DEF request
  <2>2. /\ q.m = IF x.conn.legacy THEN Doing(x).legacy
                 ELSE IF x.work.op = "GetAllDatabases" /\ qualifyDBName(x.cat) # Nil
                 THEN "get_databases" ELSE Doing(x).rpc
        /\ Looping(x) => q.items = batch(x.work.items, x.i, Doing(x).step)
    BY DEF methodRequest
  <2> HIDE DEF q
  <2>3. x.conn.legacy => Doing(x).legacy # Nil
    BY DEF Base, LegacyOK, Doing
  <2>4. q.m \in Sends(x.work.op) \ {Nil} \/ q.m = "get_databases"
    BY <1>1, <2>2, <2>3, MethodRpcs DEF Doing, Sends
  <2>5. q.m \in Rpcs
    BY <1>1, <2>4, MethodRpcs DEF Rpcs
  <2>6. q.m = "drop_partitions_req" => x.work.op = "DropPartitionsByNames"
    BY <1>1, <2>4, MethodRpcs
  <2>7. q.m = "add_partitions_req" => x.work.op = "AddPartitions"
    BY <1>1, <2>4, MethodRpcs
  <2>8. x.work.op = "AddPartitions" => Looping(x) /\ Doing(x).step = BatchSize
    BY <1>1, MethodFacts, SizesAssumption DEF Looping, Doing, Batched
  <2>9. QED
    BY <1>3, <2>1, <2>2, <2>5, <2>6, <2>7, <2>8
<1>4. QED
  BY <1>2, <1>3

\* The methods that streams use.
LEMMA StreamMethods ==
    /\ \A op \in {"GetAllTables", "GetTables", "GetPartitionNames", "GetPartitionsByNames"} :
         Method[op].catalog
    /\ Method["GetAllTables"].rpc = "get_all_tables" /\ Method["GetAllTables"].legacy = Nil
    /\ Method["GetTables"].rpc = "get_table_objects_by_name_req"
    /\ Method["GetTables"].legacy = Nil /\ Method["GetTables"].step = ChunkSize
    /\ Method["GetPartitionNames"].rpc = "get_partition_names"
    /\ Method["GetPartitionNames"].legacy = Nil
    /\ Method["GetPartitionsByNames"].rpc = "get_partitions_by_names_req"
    /\ Method["GetPartitionsByNames"].legacy = "get_partitions_by_names"
    /\ Method["GetPartitionsByNames"].step = ChunkSize
<1>1. /\ Method["GetAllTables"] = GetAllTables /\ Method["GetTables"] = GetTables
      /\ Method["GetPartitionNames"] = GetPartitionNames
      /\ Method["GetPartitionsByNames"] = GetPartitionsByNames
  BY DEF Method
<1>2. /\ (GetAllTables.catalog <=> TRUE) /\ (GetTables.catalog <=> TRUE)
      /\ (GetPartitionNames.catalog <=> TRUE) /\ (GetPartitionsByNames.catalog <=> TRUE)
  BY DEF GetAllTables, GetTables, GetPartitionNames, GetPartitionsByNames, Read
<1>3. /\ GetAllTables.rpc = "get_all_tables" /\ GetAllTables.legacy = Nil
      /\ GetTables.rpc = "get_table_objects_by_name_req"
      /\ GetTables.legacy = Nil /\ GetTables.step = ChunkSize
      /\ GetPartitionNames.rpc = "get_partition_names" /\ GetPartitionNames.legacy = Nil
      /\ GetPartitionsByNames.rpc = "get_partitions_by_names_req"
      /\ GetPartitionsByNames.legacy = "get_partitions_by_names"
      /\ GetPartitionsByNames.step = ChunkSize
  BY DEF GetAllTables, GetTables, GetPartitionNames, GetPartitionsByNames, Read
<1>4. QED
  BY <1>1, <1>2, <1>3

\* The catalog that a request means: what is left out is the default.
Meant(q) == IF q.cat = Nil THEN "hive" ELSE q.cat

\* The table, or database, of a stream's request is the call's.
LEMMA StreamPlace ==
    ASSUME NEW x, Base(x), At(x), x.pc = "rpc", x.call.op \in DOMAIN Stream
    PROVE  LET q == request(x) IN
           Meant(q) = x.call.cat /\ q.db = x.call.db /\ q.tbl = x.call.tbl
<1> DEFINE q == methodRequest(x)
<1>1. request(x) = q
  BY DEF request
<1>2. /\ q.cat \in {x.cat, qualifyDBName(x.cat)} /\ q.db = x.work.db /\ q.tbl = x.work.tbl
  BY Zenon DEF methodRequest
<1> HIDE DEF q
<1>3. x.work.op \in {"GetAllTables", "GetTables", "GetPartitionNames", "GetPartitionsByNames"}
  BY StreamOps, Zenon DEF Base, Stage
<1>4. Doing(x).catalog
  BY <1>3, StreamMethods DEF Doing
<1>5. /\ x.cat = x.work.cat \/ (x.cat = Nil /\ x.work.cat = "hive")
      /\ x.work.cat = x.call.cat /\ x.work.db = x.call.db /\ x.work.tbl = x.call.tbl
      /\ x.call.cat # Nil
  BY <1>4 DEF At, CatOK, Base, Stage, Place, IsCall
<1>6. Meant(q) = x.call.cat
  BY <1>2, <1>5 DEF Meant, qualifyDBName
<1>7. QED
  BY <1>1, <1>2, <1>5, <1>6

\* What a stream asks for, to list names or to fetch the objects of some.
LEMMA StreamAsks ==
    ASSUME NEW x, Base(x), At(x), x.pc = "rpc", x.call.op \in DOMAIN Stream
    PROVE  LET q == request(x) IN
           /\ x.work.op = "GetAllTables" => q.m = "get_all_tables"
           /\ x.work.op = "GetTables" => /\ q.m = "get_table_objects_by_name_req"
                                         /\ q.items = batch(x.work.items, x.i, ChunkSize)
           /\ x.work.op = "GetPartitionNames" =>
                q.m = "get_partition_names" /\ q.n = checkMaxParts(x.work.n).n
           /\ x.work.op = "GetPartitionsByNames" =>
                /\ q.m \in {"get_partitions_by_names", "get_partitions_by_names_req"}
                /\ q.items = batch(x.work.items, x.i, ChunkSize)
<1> DEFINE q == methodRequest(x)
           op == x.work.op
<1>1. request(x) = q
  BY DEF request
<1>2. /\ q.m = IF x.conn.legacy THEN Doing(x).legacy
               ELSE IF op = "GetAllDatabases" /\ qualifyDBName(x.cat) # Nil
               THEN "get_databases" ELSE Doing(x).rpc
      /\ Looping(x) => q.items = batch(x.work.items, x.i, Doing(x).step)
      /\ q.n = IF op \in MaxPartsOps THEN checkMaxParts(x.work.n).n ELSE x.work.n
  BY Zenon DEF methodRequest
<1> HIDE DEF q, op
<1>3. x.conn.legacy => Doing(x).legacy # Nil
  BY Zenon DEF Base, LegacyOK, Doing
<1>4. op = "GetAllTables" => Doing(x).rpc = "get_all_tables" /\ Doing(x).legacy = Nil
  BY StreamMethods DEF op, Doing
<1>5. op = "GetTables" => /\ Doing(x).rpc = "get_table_objects_by_name_req"
                          /\ Doing(x).legacy = Nil /\ Doing(x).step = ChunkSize
  BY StreamMethods DEF op, Doing
<1>6. op = "GetPartitionNames" => Doing(x).rpc = "get_partition_names" /\ Doing(x).legacy = Nil
  BY StreamMethods DEF op, Doing
<1>7. op = "GetPartitionsByNames" =>
        /\ Doing(x).rpc = "get_partitions_by_names_req"
        /\ Doing(x).legacy = "get_partitions_by_names" /\ Doing(x).step = ChunkSize
  BY StreamMethods DEF op, Doing
<1>8. Doing(x).step = ChunkSize => Looping(x)
  BY SizesAssumption DEF Looping
<1>9. "GetPartitionNames" \in MaxPartsOps
  BY DEF MaxPartsOps
<1>10. QED
  BY <1>1, <1>2, <1>3, <1>4, <1>5, <1>6, <1>7, <1>8, <1>9 DEF op

-----------------------------------------------------------------------------
(* Loops over slices.                                                       *)

\* A set of numbers has a least.
LEMMA LeastNat ==
    ASSUME NEW T, T \subseteq Nat, T # {}
    PROVE  \E x \in T : \A y \in T : x <= y
<1> DEFINE R == {ss \in Nat \X Nat : ss[1] < ss[2]}
<1>1. IsWellFoundedOn(R, Nat)
    BY NatLessThanWellFounded DEF OpToRel
<1>2. \E x \in T : \A y \in T : ~(<<y, x>> \in R)
    <2> HIDE DEF R
    <2> QED BY <1>1, WFMin, Zenon
<1>3. PICK x \in T : \A y \in T : ~(<<y, x>> \in R)
    BY <1>2, Zenon
<1>4. ASSUME NEW y \in T PROVE x <= y
    <2>1. x \in Nat /\ y \in Nat /\ <<y, x>> \notin R BY <1>3
    <2> QED BY <2>1
<1> QED BY <1>4

\* Induction up to n, for a property given as a set.
LEMMA Induct ==
    ASSUME NEW n \in Nat, NEW S, 0 \in S, \A i \in 0 .. n - 1 : i \in S => i + 1 \in S
    PROVE  \A i \in 0 .. n : i \in S
<1> DEFINE T == {i \in 0 .. n : i \notin S}
<1> SUFFICES T # {} => FALSE
  OBVIOUS
<1>1. T \subseteq Nat
  OBVIOUS
<1> SUFFICES ASSUME T # {} PROVE FALSE
  OBVIOUS
<1>2. PICK x \in T : \A y \in T : x <= y
  <2> HIDE DEF T
  <2> QED BY <1>1, LeastNat, Zenon
<1>3. x # 0 /\ x \in 0 .. n
  OBVIOUS
<1>4. x - 1 \in 0 .. n - 1 /\ x - 1 \notin T
  BY <1>2, <1>3
<1>5. x - 1 \in S
  BY <1>4
<1>6. (x - 1) + 1 \in S
  BY <1>4, <1>5
<1>7. QED
  BY <1>3, <1>6

\* g is the function that Taken(s, I) defines.
Takes(g, s, I) ==
    \A n \in 0 .. Len(s) : g[n] = IF n = 0 THEN <<>>
                                  ELSE IF n \in I THEN Append(g[n - 1], s[n]) ELSE g[n - 1]

\* There is one, of sequences.
LEMMA TakeExists ==
    ASSUME NEW V, NEW s \in Seq(V), NEW I
    PROVE  \E g \in [0 .. Len(s) -> Seq(V)] : Takes(g, s, I)
<1> DEFINE Step(g, n) == IF n \in I THEN Append(g[n - 1], s[n]) ELSE g[n - 1]
           Upto(i) == \E g \in [0 .. i -> Seq(V)] :
                         g[0] = <<>> /\ \A n \in 1 .. i : g[n] = Step(g, n)
           S == {i \in 0 .. Len(s) : Upto(i)}
<1>1. 0 \in S
  <2> DEFINE g == [n \in 0 .. 0 |-> <<>>]
  <2>1. g \in [0 .. 0 -> Seq(V)] /\ g[0] = <<>> /\ \A n \in 1 .. 0 : g[n] = Step(g, n)
    OBVIOUS
  <2> HIDE DEF g
  <2>2. QED
    BY <2>1
<1>2. ASSUME NEW i \in 0 .. Len(s) - 1, i \in S PROVE i + 1 \in S
  <2>1. PICK g \in [0 .. i -> Seq(V)] : g[0] = <<>> /\ \A n \in 1 .. i : g[n] = Step(g, n)
    BY <1>2, Zenon
  <2> DEFINE h == [n \in 0 .. i + 1 |-> IF n = i + 1 THEN Step(g, n) ELSE g[n]]
  <2>2. Step(g, i + 1) \in Seq(V)
    OBVIOUS
  <2> HIDE DEF Step
  <2>3. h \in [0 .. i + 1 -> Seq(V)]
    BY <2>2
  <2>4. \A n \in 0 .. i : h[n] = g[n]
    OBVIOUS
  <2>5. h[i + 1] = Step(g, i + 1)
    OBVIOUS
  <2> HIDE DEF h
  <2>6. \A n \in 1 .. i + 1 : Step(h, n) = Step(g, n)
    BY <2>4 DEF Step
  <2>7. \A n \in 1 .. i + 1 : h[n] = Step(h, n)
    BY <2>1, <2>4, <2>5, <2>6
  <2>8. h[0] = <<>>
    BY <2>1, <2>4
  <2>9. Upto(i + 1)
    BY <2>3, <2>7, <2>8, Zenon
  <2>10. i + 1 \in 0 .. Len(s)
    OBVIOUS
  <2> HIDE DEF Upto
  <2>11. QED
    BY <2>9, <2>10
<1>3. Len(s) \in S
  <2>1. Len(s) \in Nat /\ Len(s) \in 0 .. Len(s)
    OBVIOUS
  <2> HIDE DEF S
  <2>2. \A i \in 0 .. Len(s) : i \in S
    BY <1>1, <1>2, <2>1, Induct, Zenon
  <2>3. QED
    BY <2>1, <2>2, Zenon
<1>4. PICK g \in [0 .. Len(s) -> Seq(V)] : g[0] = <<>> /\ \A n \in 1 .. Len(s) : g[n] = Step(g, n)
  BY <1>3
<1>5. ASSUME NEW n \in 0 .. Len(s)
      PROVE  g[n] = IF n = 0 THEN <<>> ELSE IF n \in I THEN Append(g[n - 1], s[n]) ELSE g[n - 1]
  <2>1. n = 0 \/ n \in 1 .. Len(s)
    OBVIOUS
  <2>2. QED
    BY <1>4, <2>1, Zenon
<1>6. QED
  BY <1>5, Zenon DEF Takes

\* A loop that appends some elements of a slice: what it appends are those, and
\* none twice if none of them is.
LEMMA TakenFacts ==
    ASSUME NEW V, NEW s \in Seq(V), NEW I
    PROVE  LET u == Taken(s, I) IN
           /\ u \in Seq(V)
           /\ \A j \in DOMAIN u : \E i \in I \cap DOMAIN s : u[j] = s[i]
           /\ \A i \in I \cap DOMAIN s : \E j \in DOMAIN u : u[j] = s[i]
           /\ (\A i, j \in I \cap DOMAIN s : s[i] = s[j] => i = j) => IsInjective(u)
<1> DEFINE Is(g) == g = [n \in 0 .. Len(s) |-> IF n = 0 THEN <<>>
                     ELSE IF n \in I THEN Append(g[n - 1], s[n]) ELSE g[n - 1]]
           f == CHOOSE g : Is(g)
           Once == \A i, j \in I \cap DOMAIN s : s[i] = s[j] => i = j
           P(n) == /\ f[n] \in Seq(V)
                   /\ \A j \in DOMAIN f[n] : \E i \in I \cap 1 .. n : f[n][j] = s[i]
                   /\ \A i \in I \cap 1 .. n : \E j \in DOMAIN f[n] : f[n][j] = s[i]
                   /\ Once => IsInjective(f[n])
           S == {n \in 0 .. Len(s) : P(n)}
<1>1. \E g : Is(g)
  <2>1. PICK g \in [0 .. Len(s) -> Seq(V)] : Takes(g, s, I)
    BY TakeExists, Zenon
  <2>2. Is(g)
    BY <2>1 DEF Takes
  <2> HIDE DEF Is
  <2>3. QED
    BY <2>2
<1>2. Is(f)
  BY <1>1, Zenon
<1>3. Taken(s, I) = f[Len(s)]
  BY DEF Taken
<1> HIDE DEF f
<1>4. \A n \in 0 .. Len(s) : f[n] = IF n = 0 THEN <<>>
                     ELSE IF n \in I THEN Append(f[n - 1], s[n]) ELSE f[n - 1]
  BY <1>2, Zenon
<1>5. 0 \in S
  <2>1. f[0] = <<>> /\ 0 \in 0 .. Len(s)
    BY <1>4
  <2>2. P(0)
    BY <2>1 DEF IsInjective
  <2>3. QED
    BY <2>1, <2>2, Zenon
<1>6. ASSUME NEW n \in 0 .. Len(s) - 1, n \in S PROVE n + 1 \in S
  <2>1. n + 1 \in 1 .. Len(s) /\ n \in Nat /\ P(n) /\ s[n + 1] \in V /\ DOMAIN s = 1 .. Len(s)
    BY <1>6
  <2>2. f[n + 1] = IF n + 1 \in I THEN Append(f[n], s[n + 1]) ELSE f[n]
    <3>1. n + 1 \in 0 .. Len(s) /\ n + 1 # 0 /\ (n + 1) - 1 = n
      OBVIOUS
    <3>2. QED
      BY <1>4, <3>1
  <2>3. 1 .. n + 1 = 1 .. n \cup {n + 1}
    BY <2>1
  <2>4. CASE n + 1 \notin I
    <3>1. f[n + 1] = f[n] /\ I \cap 1 .. n + 1 = I \cap 1 .. n
      BY <2>2, <2>3, <2>4
    <3>2. P(n + 1)
      BY <2>1, <3>1
    <3> HIDE DEF P
    <3>3. QED
      BY <2>1, <3>2
  <2>5. CASE n + 1 \in I
    <3> DEFINE u == f[n]
               v == f[n + 1]
    <3>1. u \in Seq(V) /\ v = Append(u, s[n + 1]) /\ Len(u) \in Nat
      BY <2>1, <2>2, <2>5
    <3> HIDE DEF u, v
    <3>2. /\ v \in Seq(V) /\ DOMAIN v = 1 .. Len(u) + 1 /\ DOMAIN u = 1 .. Len(u)
          /\ v[Len(u) + 1] = s[n + 1] /\ \A j \in DOMAIN u : v[j] = u[j]
      <4>1. s[n + 1] \in V
        BY <2>1
      <4>2. QED
        BY <3>1, <4>1
    <3>3. \A j \in DOMAIN v : j \in DOMAIN u \/ j = Len(u) + 1
      BY <3>1, <3>2
    <3>4. ASSUME NEW j \in DOMAIN v PROVE \E i \in I \cap 1 .. n + 1 : v[j] = s[i]
      <4>1. CASE j \in DOMAIN u
        <5>1. PICK i \in I \cap 1 .. n : u[j] = s[i]
          BY <2>1, <4>1 DEF u
        <5>2. QED
          BY <2>3, <3>2, <4>1, <5>1, Zenon
      <4>2. CASE j = Len(u) + 1
        BY <2>3, <2>5, <3>2, <4>2, Zenon
      <4>3. QED
        BY <3>3, <4>1, <4>2
    <3>5. ASSUME NEW i \in I \cap 1 .. n + 1 PROVE \E j \in DOMAIN v : v[j] = s[i]
      <4>1. CASE i \in 1 .. n
        <5>1. PICK j \in DOMAIN u : u[j] = s[i]
          BY <2>1, <4>1 DEF u
        <5>2. j \in DOMAIN v
          BY <3>1, <3>2
        <5>3. QED
          BY <3>2, <5>1, <5>2, Zenon
      <4>2. CASE i = n + 1
        <5>1. Len(u) + 1 \in DOMAIN v
          BY <3>1, <3>2
        <5>2. QED
          BY <3>2, <4>2, <5>1, Zenon
      <4>3. QED
        BY <2>3, <4>1, <4>2
    <3>6. ASSUME Once PROVE IsInjective(v)
      <4>1. IsInjective(u) /\ \A j \in DOMAIN u : \E i \in I \cap 1 .. n : u[j] = s[i]
        BY <2>1, <3>6 DEF u
      <4>2. \A j \in DOMAIN u : u[j] # s[n + 1]
        <5> SUFFICES ASSUME NEW j \in DOMAIN u, u[j] = s[n + 1] PROVE FALSE
          OBVIOUS
        <5>1. PICK i \in I \cap 1 .. n : u[j] = s[i]
          BY <4>1
        <5>2. i \in I \cap DOMAIN s /\ n + 1 \in I \cap DOMAIN s /\ i # n + 1
          BY <2>1, <2>5
        <5>3. QED
          BY <3>6, <5>1, <5>2, Zenon
      <4>3. QED
        BY <3>2, <3>3, <4>1, <4>2, Zenon DEF IsInjective
    <3>7. P(n + 1)
      BY <3>2, <3>4, <3>5, <3>6 DEF v
    <3> HIDE DEF P
    <3>8. QED
      BY <2>1, <3>7
  <2>6. QED
    BY <2>4, <2>5
<1>7. Len(s) \in S
  <2>1. Len(s) \in Nat /\ Len(s) \in 0 .. Len(s)
    OBVIOUS
  <2> HIDE DEF S
  <2>2. \A i \in 0 .. Len(s) : i \in S
    BY <1>5, <1>6, <2>1, Induct, Zenon
  <2>3. QED
    BY <2>1, <2>2, Zenon
<1>8. P(Len(s)) /\ DOMAIN s = 1 .. Len(s)
  BY <1>7
<1>9. QED
  BY <1>3, <1>8
=============================================================================
