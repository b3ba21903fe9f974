------------------------------- MODULE Methods -------------------------------
(***************************************************************************)
(* What a goroutine of the client does between two RPCs of a method on     *)
(* catalogs, databases, tables, partitions, notifications, column          *)
(* statistics or the server's version (client.go, table.go, partition.go,  *)
(* notification.go, stats.go), as operators on that goroutine.             *)
(*                                                                         *)
(* A method is a closure over one connection, run by do: resolve the       *)
(* catalog (probing get_catalogs on a connection that does not know yet),  *)
(* then one RPC, or one per batch or chunk, each falling back to its       *)
(* legacy form on UNKNOWN_METHOD.  do reruns a read's closure from its     *)
(* start on another connection when an attempt is lost, and a write's      *)
(* never.  The streams and DropPartitions are several do's in a row.       *)
(***************************************************************************)
EXTENDS Integers, Sequences, Wire

CONSTANTS
    MaxRetries,     \* WithMaxRetries
    ChunkSize,      \* WithChunkSize
    BatchSize,      \* WithPartitionBatchSize
    MaxI16          \* math.MaxInt16

ASSUME SizesAssumption ==
    /\ MaxRetries \in Nat \ {0} /\ ChunkSize \in Nat \ {0}
    /\ BatchSize \in Nat \ {0} /\ MaxI16 \in Nat

VARIABLE roots      \* the keys of Client.warehouseRoots

-----------------------------------------------------------------------------
(* Methods.  What the closures differ in: the RPC, its legacy form if it    *)
(* has one, whether do may rerun it (read) or not (call), whether it        *)
(* resolves a catalog, whether the request has a field for it (the others   *)
(* qualify the database name), and the size of its batches (0: no loop).    *)

Read(rpc) == [rpc |-> rpc, legacy |-> Nil, read |-> TRUE, catalog |-> TRUE,
              field |-> FALSE, step |-> 0]
Call(rpc) == [Read(rpc) EXCEPT !.read = FALSE]

GetConfigValue  == [Read("get_config_value") EXCEPT !.catalog = FALSE]
ServerVersion   == [Read("getVersion") EXCEPT !.catalog = FALSE]
GetCatalogs     == [Read("get_catalogs") EXCEPT !.catalog = FALSE]
GetCatalog      == [Read("get_catalog") EXCEPT !.catalog = FALSE]
CreateCatalog   == [Call("create_catalog") EXCEPT !.catalog = FALSE]
DropCatalog     == [Call("drop_catalog") EXCEPT !.catalog = FALSE]
GetAllDatabases == Read("get_all_databases")
GetDatabase     == Read("get_database")
CreateDatabase  == [Call("create_database") EXCEPT !.field = TRUE]
AlterDatabase   == Call("alter_database")
DropDatabase    == Call("drop_database")

GetAllTables == Read("get_all_tables")
GetTable     == [Read("get_table_req") EXCEPT !.field = TRUE]
GetTables    == [Read("get_table_objects_by_name_req") EXCEPT !.field = TRUE,
                                                              !.step = ChunkSize]
CreateTable  == [Call("create_table") EXCEPT !.field = TRUE]
AlterTable   == Call("alter_table")
DropTable    == Call("drop_table")

GetPartitions == [Read("get_partitions_req") EXCEPT !.field = TRUE,
                                                    !.legacy = "get_partitions"]
GetPartitionNames == Read("get_partition_names")
GetPartitionsByNames == [Read("get_partitions_by_names_req") EXCEPT
                            !.legacy = "get_partitions_by_names", !.step = ChunkSize]
GetPartitionsByFilter == Read("get_partitions_by_filter")
GetPartitionNamesByValues == [Read("get_partition_names_ps_req") EXCEPT
                                 !.field = TRUE, !.legacy = "get_partition_names_ps"]
AddPartitions == [Call("add_partitions_req") EXCEPT !.field = TRUE, !.step = BatchSize]
AlterPartitions == [Call("alter_partitions_req") EXCEPT
                       !.field = TRUE, !.legacy = "alter_partitions", !.step = BatchSize]
DropPartition == Call("drop_partition")
DropPartitionsByNames == [Call("drop_partitions_req") EXCEPT !.field = TRUE,
                                                             !.step = BatchSize]

GetTableColumnStatistics == [Read("get_table_statistics_req") EXCEPT !.field = TRUE]

CurrentNotificationID == [Read("get_current_notificationEventId") EXCEPT !.catalog = FALSE]
GetNextNotifications  == [Read("get_next_notification") EXCEPT !.catalog = FALSE]

\* The streams: the method that lists the names, and that fetches a chunk of them.
GetTablesSeq     == [list |-> "GetAllTables", chunk |-> "GetTables"]
GetPartitionsSeq == [list |-> "GetPartitionNames", chunk |-> "GetPartitionsByNames"]

Method ==
    [GetCatalogs |-> GetCatalogs, GetCatalog |-> GetCatalog,
     CreateCatalog |-> CreateCatalog, DropCatalog |-> DropCatalog,
     GetAllDatabases |-> GetAllDatabases, GetDatabase |-> GetDatabase,
     CreateDatabase |-> CreateDatabase, AlterDatabase |-> AlterDatabase,
     DropDatabase |-> DropDatabase, GetAllTables |-> GetAllTables, GetTable |-> GetTable,
     GetTables |-> GetTables, CreateTable |-> CreateTable, AlterTable |-> AlterTable,
     DropTable |-> DropTable, GetPartitions |-> GetPartitions,
     GetPartitionNames |-> GetPartitionNames, GetPartitionsByNames |-> GetPartitionsByNames,
     GetPartitionsByFilter |-> GetPartitionsByFilter,
     GetPartitionNamesByValues |-> GetPartitionNamesByValues,
     AddPartitions |-> AddPartitions, AlterPartitions |-> AlterPartitions,
     DropPartition |-> DropPartition, DropPartitionsByNames |-> DropPartitionsByNames,
     GetConfigValue |-> GetConfigValue, ServerVersion |-> ServerVersion,
     GetTableColumnStatistics |-> GetTableColumnStatistics,
     CurrentNotificationID |-> CurrentNotificationID,
     GetNextNotifications |-> GetNextNotifications]

Stream == [GetTablesSeq |-> GetTablesSeq, GetPartitionsSeq |-> GetPartitionsSeq]

\* A call: the method and its arguments, of which each method reads some.
IsCall(w) ==
    /\ DOMAIN w = {"op", "cat", "db", "tbl", "name", "items", "flag", "ifx", "n", "max", "types"}
    /\ w.op \in DOMAIN Method \cup DOMAIN Stream \cup {"DropPartitions"}
    /\ w.items \in Seq({w.items[n] : n \in DOMAIN w.items})
    /\ w.ifx \in BOOLEAN /\ w.cat # Nil
NoCall == [op |-> "none"]

\* The methods that write in batches.
Batched  == {"AddPartitions", "AlterPartitions", "DropPartitionsByNames"}

\* x: a goroutine.  The method its do is running.
Doing(x)   == Method[x.work.op]
Looping(x) == Doing(x).step > 0

qualifyDBName(cat) == IF cat = "hive" THEN Nil ELSE cat

\* maxParts beyond the wire's i16 is refused; any negative one means all.
MaxPartsOps == {"GetPartitions", "GetPartitionNames", "GetPartitionsByFilter",
                "GetPartitionNamesByValues"}
checkMaxParts(n) == [err |-> IF n > MaxI16 THEN "InvalidOperation" ELSE "ok",
                     n   |-> IF n < 0 THEN -1 ELSE n]

\* The items from offset i on, at most step of them.
batch(items, i, step) ==
    SubSeq(items, i + 1, IF i + step > Len(items) THEN Len(items) ELSE i + step)

\* The wire request of x's next RPC of its method.
methodRequest(x) ==
    LET w == x.work
        d == Doing(x)
    IN  [m     |-> IF x.conn.legacy THEN d.legacy
                   ELSE IF w.op = "GetAllDatabases" /\ qualifyDBName(x.cat) # Nil
                   THEN "get_databases" ELSE d.rpc,
         cat   |-> IF d.field /\ ~x.conn.legacy THEN x.cat ELSE qualifyDBName(x.cat),
         db    |-> w.db, tbl |-> w.tbl, name |-> w.name, max |-> w.max, types |-> w.types,
         n     |-> IF w.op \in MaxPartsOps THEN checkMaxParts(w.n).n ELSE w.n,
         flag  |-> w.flag \/ w.op = "CreateDatabase",
         items |-> IF Looping(x) THEN batch(w.items, x.i, d.step) ELSE w.items]

request(x) ==
    LET q == methodRequest(x) IN
    CASE x.pc = "probe"    -> [q EXCEPT !.m = "get_catalogs", !.cat = Nil]
      [] x.pc = "root"     -> [q EXCEPT !.m = IF x.cat = Nil THEN "get_config_value"
                                              ELSE "get_catalog",
                                        !.name = IF x.cat = Nil
                                                 THEN "hive.metastore.warehouse.dir"
                                                 ELSE x.cat,
                                        !.cat = Nil]
      [] x.pc = "followup" -> [q EXCEPT !.m = "get_database"]
      [] x.pc = "rpc"      -> q

-----------------------------------------------------------------------------
(* What a goroutine does between two RPCs, innermost last: the method gets  *)
(* do's result, do gets the closure's, the closure gets a reply.            *)

\* The call is over, and with it everything local.
Return(x, e, v) ==
    [x EXCEPT !.pc = "done", !.err = e, !.val = v, !.tries = 0, !.cat = Nil, !.i = 0,
              !.acc = <<>>, !.names = <<>>, !.pos = 0, !.buf = <<>>, !.version = Nil]

StartDo(x, w) == [x EXCEPT !.pc = "acquire", !.work = w, !.tries = 0]

\* ServerVersion after its getVersion, and after each configuration value: a
\* server without getVersion leaves what an earlier attempt has read.
VersionReturns(x, e, v) ==
    LET Config(key) == StartDo(x, [x.call EXCEPT !.op = "GetConfigValue", !.name = key]) IN
    CASE x.work.op = "ServerVersion" /\ e = "NotSupported" ->
            IF x.version = Nil THEN Config("hive.metastore.version")
            ELSE Return(x, "ok", <<x.version>>)
      [] x.work.op = "GetConfigValue" /\ e = "ok" /\ v = <<>> ->
            IF x.work.name = "metastore.version" THEN Return(x, "NotSupported", <<>>)
            ELSE Config("metastore.version")
      [] OTHER -> Return(x, e, v)

\* A stream yields its one error and ends.
DoReturns(x, e, v) ==
    IF x.call.op = "ServerVersion" THEN VersionReturns(x, e, v)
    ELSE IF e # "ok" THEN Return(x, e, x.val)
    ELSE IF x.call.op \in DOMAIN Stream
    THEN IF x.work.op = Stream[x.call.op].list
         THEN [x EXCEPT !.pc = "chunk", !.names = v]
         ELSE [x EXCEPT !.pc = "yield", !.buf = v]
    ELSE IF x.call.op = "DropPartitions" /\ x.work.op = "GetTable"
    THEN StartDo(x, [x.call EXCEPT !.op = "DropPartitionsByNames",
                                   !.items = [n \in DOMAIN @ |-> partitionName(@[n])]])
    ELSE Return(x, "ok", v)

\* The sentinel of an error that a caller sees.
classify(e) == CASE e = "UnknownMethod" -> "NotSupported"
                 [] e = "Protocol" -> "Meta"
                 [] OTHER -> e

\* The connection goes back to its pool unless the error says its state is unknown.
Discards(e) == e \in {"Unavailable", "Protocol"}

\* Mutant: attempts are not counted.
RetriesForever(x, e) == e = "Unavailable" /\ Doing(x).read /\ ~x.ctxDone

\* Mutant: a write is tried again like a read.
RetriesWrites(x, e) == e = "Unavailable" /\ ~x.ctxDone /\ x.tries < MaxRetries

Retries(x, e) ==
    /\ e = "Unavailable" /\ Doing(x).read
    /\ ~x.ctxDone /\ x.tries < MaxRetries

FnReturns(x, e, v) ==
    LET y == [x EXCEPT !.spoilt = @ \/ (x.conn.dirty /\ ~Discards(e))] IN
    IF Retries(x, e) THEN [y EXCEPT !.pc = "acquire"]
    ELSE DoReturns(y, classify(e), v)

\* The head of a loop over batches or chunks.
Loop(x) ==
    IF Looping(x) /\ x.i >= Len(x.work.items)
    THEN FnReturns(x, "ok", x.acc)
    ELSE [x EXCEPT !.pc = "rpc"]

Advance(x, v) ==
    IF Looping(x)
    THEN Loop([x EXCEPT !.i = @ + Doing(x).step, !.acc = @ \o v])
    ELSE FnReturns(x, "ok", v)

\* Mutant: the default catalog is named whatever the server supports.
resolveCatNamed(x) ==
    LET y == [x EXCEPT !.cat = x.work.cat] IN
    IF x.work.op = "CreateDatabase" /\ ~x.work.flag /\ y.cat \notin roots
    THEN [y EXCEPT !.pc = "root"] ELSE Loop(y)

\* w.cat: the catalog of InCatalog, the struct, WithCatalog or "hive", whichever
\* comes first.
resolveCatFor(x) ==
    LET w == x.work
        support == x.conn.catalogs = "yes"
        y == [x EXCEPT !.cat = IF w.cat = "hive" /\ ~support THEN Nil ELSE w.cat]
    IN  IF w.cat # "hive" /\ ~support THEN FnReturns(x, "NotSupported", <<>>)
        ELSE IF w.op = "CreateDatabase" /\ ~w.flag /\ y.cat \notin roots
        THEN [y EXCEPT !.pc = "root"]
        ELSE Loop(y)

\* Mutant: what an earlier attempt collected is still there.
StartKeepsAcc(x, cn) ==
    LET y == [x EXCEPT !.conn = cn, !.tries = @ + 1, !.i = 0, !.cat = Nil] IN
    IF ~Doing(x).catalog THEN Loop(y)
    ELSE IF cn.catalogs = "unknown" THEN [y EXCEPT !.pc = "probe"]
    ELSE resolveCatFor(y)

\* The closure starts from scratch in every attempt.
Start(x, cn) ==
    LET y == [x EXCEPT !.conn = cn, !.tries = @ + 1, !.i = 0, !.acc = <<>>, !.cat = Nil] IN
    IF ~Doing(x).catalog THEN Loop(y)
    ELSE IF cn.catalogs = "unknown" THEN [y EXCEPT !.pc = "probe"]
    ELSE resolveCatFor(y)

\* A server that answers with the schema's version is told by its catalogs.
inferLine(x) == FnReturns(x, "ok", <<IF x.conn.catalogs = "yes" THEN "3.0" ELSE "2.3">>)

afterProbe(x) == IF x.work.op = "ServerVersion" THEN inferLine(x) ELSE resolveCatFor(x)

\* Mutant: any error of the probe is taken for a server without catalogs.
supportsCatalogsGuess(x, r) ==
    afterProbe([x EXCEPT !.conn.catalogs = IF r.err = "ok" THEN "yes" ELSE "no"])

supportsCatalogs(x, r) ==
    CASE r.err = "ok" -> afterProbe([x EXCEPT !.conn.catalogs = "yes"])
      [] r.err = "UnknownMethod" -> afterProbe([x EXCEPT !.conn.catalogs = "no"])
      [] OTHER -> FnReturns(x, r.err, <<>>)

warehouseRoot(x, r) ==
    CASE r.err # "ok"  -> FnReturns(x, r.err, <<>>)
      [] r.val = <<>>  -> FnReturns(x, "InvalidOperation", <<>>)
      [] OTHER         -> Loop(x)

\* eventTypes is applied again to the reply.
localFilter(w, v) ==
    IF w.op = "GetNextNotifications" /\ w.types # {}
    THEN Taken(v, {n \in DOMAIN v : v[n].type \in w.types}) ELSE v

\* The caches of conn that a reply fills.
learn(x, r) ==
    CASE x.work.op = "GetCatalogs" /\ r.err = "ok" -> [x EXCEPT !.conn.catalogs = "yes"]
      [] x.work.op = "GetCatalogs" /\ r.err = "UnknownMethod"
                                                  -> [x EXCEPT !.conn.catalogs = "no"]
      [] OTHER -> x

tryReq(x, r) == /\ r.err = "UnknownMethod"
                /\ Doing(x).legacy # Nil /\ ~x.conn.legacy

\* getVersion's reply.
gotVersion(x, v) ==
    LET y == [x EXCEPT !.version = v] IN
    IF v = "4.0" THEN FnReturns(y, "ok", <<v>>)
    ELSE IF y.conn.catalogs = "unknown" THEN [y EXCEPT !.pc = "probe"]
    ELSE inferLine(y)

\* ifx: a drop's ifExists.
methodReply(x, r) ==
    CASE r.err = "ok" /\ x.work.op = "ServerVersion" -> gotVersion(x, r.val[1])
      [] r.err = "ok" -> Advance(learn(x, r), localFilter(x.work, r.val))
      [] tryReq(x, r) -> [x EXCEPT !.conn.legacy = TRUE]
      [] r.err = "NotFound" /\ x.work.ifx -> Advance(x, <<>>)
      [] x.work.op = "DropDatabase" /\ r.err \notin {"ok", "NotFound", "Protocol"}
                      -> [x EXCEPT !.pc = "followup", !.err = r.err]
      [] OTHER        -> FnReturns(learn(x, r), r.err, <<>>)

\* Only a database that is missing replaces drop_database's own error; what
\* else get_database returns is dropped.
followUp(x, r) ==
    LET e == IF r.err = "NotFound" THEN "NotFound" ELSE x.err IN
    FnReturns(x, IF e = "NotFound" /\ x.work.ifx THEN "ok" ELSE e, <<>>)

onReply(x, r) ==
    CASE x.pc = "probe"    -> supportsCatalogs(x, r)
      [] x.pc = "root"     -> warehouseRoot(x, r)
      [] x.pc = "followup" -> followUp(x, r)
      [] x.pc = "rpc"      -> methodReply(x, r)

\* A write that the server carried out: the offset of its batch.
Handled(x, r) ==
    IF x.pc = "rpc" /\ ~Doing(x).read /\ r.err = "ok"
    THEN [x EXCEPT !.applied = Append(@, x.i)] ELSE x
=============================================================================
