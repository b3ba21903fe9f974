------------------------------ MODULE FakeStore ------------------------------
(***************************************************************************)
(* hmstest's in-memory metastore (hmstest/handler.go, server.go): each     *)
(* handler as an operator from a store, the emulated version and a request *)
(* to the next store and the reply.  A handler holds Store.mu throughout,  *)
(* so it is one step of whoever serves it.                                 *)
(*                                                                         *)
(* A store has the names of its catalogs, databases and tables, each       *)
(* table's slice of partitions (a partition is its value of the one        *)
(* partition key), its column statistics as pairs of engine and column,    *)
(* whether a warehouse directory is configured, under which key a server's *)
(* release is, and the event log; what else the objects carry is left out. *)
(* A request has the method m, the catalog on the wire (a catName field or *)
(* an "@cat#" qualifier; Nil when there is none), and what that method     *)
(* reads of db, tbl, name (of a catalog, of a key or an engine, or a       *)
(* table's new one), items, flag, n (a limit or an event id), max, types.  *)
(***************************************************************************)
EXTENDS Integers, Sequences, FiniteSets, Functions, Wire

\* Events are numbered from 1: an event's id is its place in the log.
recordEvent(s, type) == [s EXCEPT !.events = Append(@, type)]

\* Names are sorted, in whatever order.
Sorted(S) == CHOOSE names \in [1 .. Cardinality(S) -> S] : IsInjective(names)

truncateParts(ps, max) ==
    IF max >= 0 /\ max < Len(ps) THEN SubSeq(ps, 1, max) ELSE ps

partitionsMatchingNames(ps, names) ==
    Taken(ps, {n \in DOMAIN ps : partitionName(ps[n]) \in Range(names)})

-----------------------------------------------------------------------------
(* Handlers.  Each is [store, reply]: what it leaves and what it answers.   *)

Answers(s, r) == [store |-> s, reply |-> r]

CreateCatalog(s, n) ==
    IF n \in s.cats THEN Answers(s, Err("AlreadyExists"))
    ELSE Answers([s EXCEPT !.cats = @ \cup {n}], Ok(<<>>))

DropCatalog(s, n) ==
    IF n \notin s.cats THEN Answers(s, Err("NotFound"))
    ELSE Answers([s EXCEPT !.cats = @ \ {n}], Ok(<<>>))

GetCatalog(s, n) ==
    Answers(s, IF n \in s.cats THEN Ok(<<n>>) ELSE Err("NotFound"))

\* The value is empty unless it is configured.
GetConfigValue(s, v, name) ==
    Answers(s, Ok(IF name = "hive.metastore.warehouse.dir"
                  THEN IF s.warehouse THEN <<"root">> ELSE <<>>
                  ELSE IF name = s.versionKey THEN <<v>> ELSE <<>>))

\* Only 4.0 answers with its release.
versionString(v) == IF v = "4.0" THEN v ELSE "3.0"

GetDatabases(s, c) ==
    Answers(s, Ok(Sorted({d[2] : d \in {x \in s.dbs : x[1] = c}})))

GetDatabase(s, d) ==
    Answers(s, IF d \in s.dbs THEN Ok(<<d[2]>>) ELSE Err("NotFound"))

\* An empty location is refused before anything is looked up.
CreateDatabase(s, d, located) ==
    IF ~located THEN Answers(s, Err("Meta"))
    ELSE IF d \in s.dbs THEN Answers(s, Err("AlreadyExists"))
    ELSE Answers(recordEvent([s EXCEPT !.dbs = @ \cup {d}], "CREATE_DATABASE"),
                 Ok(<<>>))

\* Replaces properties only; the name stays.
AlterDatabase(s, d) ==
    Answers(s, IF d \in s.dbs THEN Ok(<<>>) ELSE Err("NotFound"))

\* Hive 3.1 answers a missing database with a NullPointerException.
DropDatabase(s, v, d, cascade) ==
    LET ts == {t \in s.tbls : <<t[1], t[2]>> = d} IN
    IF d \notin s.dbs
    THEN Answers(s, Err(IF v = "3.1" THEN "Meta" ELSE "NotFound"))
    ELSE IF ts # {} /\ ~cascade THEN Answers(s, Err("InvalidOperation"))
    ELSE Answers(recordEvent(
             [s EXCEPT !.dbs = @ \ {d}, !.tbls = @ \ ts,
                       !.parts = [k \in DOMAIN @ |-> IF k \in ts THEN <<>> ELSE @[k]]],
             "DROP_DATABASE"), Ok(<<>>))

GetAllTables(s, d) ==
    Answers(s, Ok(Sorted({t[3] : t \in {x \in s.tbls : <<x[1], x[2]>> = d}})))

GetTableReq(s, k) ==
    Answers(s, IF k \in s.tbls THEN Ok(<<k[3]>>) ELSE Err("NotFound"))

\* In request order, without the names that are unknown.
GetTableObjectsByNameReq(s, d, names) ==
    Answers(s, Ok(Taken(names, {n \in DOMAIN names : <<d[1], d[2], names[n]>> \in s.tbls})))

\* The table's database is not looked up.
CreateTable(s, k) ==
    IF k \in s.tbls THEN Answers(s, Err("AlreadyExists"))
    ELSE Answers(recordEvent([s EXCEPT !.tbls = @ \cup {k}], "CREATE_TABLE"), Ok(<<>>))

\* The partitions stay under the old name.
AlterTable(s, k, to) ==
    IF k \notin s.tbls THEN Answers(s, Err("Meta"))
    ELSE Answers(recordEvent(
             [s EXCEPT !.tbls = (@ \ {k}) \cup {<<k[1], k[2], to>>}], "ALTER_TABLE"),
             Ok(<<>>))

DropTable(s, k) ==
    IF k \notin s.tbls THEN Answers(s, Err("NotFound"))
    ELSE Answers(recordEvent(
             [s EXCEPT !.tbls = @ \ {k}, !.parts[k] = <<>>], "DROP_TABLE"), Ok(<<>>))

GetPartitions(s, k, max) ==
    Answers(s, IF k \in s.tbls THEN Ok(truncateParts(s.parts[k], max))
               ELSE Err("NotFound"))

GetPartitionNames(s, k, max) ==
    LET ps == truncateParts(s.parts[k], max) IN
    Answers(s, IF k \in s.tbls
               THEN Ok([n \in DOMAIN ps |-> partitionName(ps[n])])
               ELSE Err("NotFound"))

GetPartitionsByNames(s, k, names) ==
    Answers(s, IF k \in s.tbls THEN Ok(partitionsMatchingNames(s.parts[k], names))
               ELSE Err("NotFound"))

\* vals: the term of the filter or the partial value, if there is one.
partitionsMatching(ps, vals) ==
    Taken(ps, {m \in DOMAIN ps : \A n \in DOMAIN vals : ps[m] = vals[n]})

GetPartitionsByFilter(s, k, vals, max) ==
    Answers(s, IF k \in s.tbls
               THEN Ok(truncateParts(partitionsMatching(s.parts[k], vals), max))
               ELSE Err("NotFound"))

GetPartitionNamesPs(s, k, vals, max) ==
    LET ps == truncateParts(partitionsMatching(s.parts[k], vals), max) IN
    Answers(s, IF k \in s.tbls
               THEN Ok([n \in DOMAIN ps |-> partitionName(ps[n])])
               ELSE Err("NotFound"))

\* All or nothing; a value that is there, or twice in the request, is skipped
\* or refuses the whole request.
AddPartitionsReq(s, k, vals, ifNotExists) ==
    LET added == {n \in DOMAIN vals : /\ vals[n] \notin Range(s.parts[k])
                                      /\ \A m \in 1 .. n - 1 : vals[m] # vals[n]}
        t == [s EXCEPT !.parts[k] = @ \o Taken(vals, added)]
    IN  IF k \notin s.tbls THEN Answers(s, Err("Meta"))
        ELSE IF added # DOMAIN vals /\ ~ifNotExists THEN Answers(s, Err("AlreadyExists"))
        ELSE Answers(IF added # {} THEN recordEvent(t, "ADD_PARTITION") ELSE t, Ok(<<>>))

\* Replaces partitions by value; every one is looked up before any is replaced.
applyAlterPartitions(s, k, vals) ==
    Answers(s, IF k \notin s.tbls THEN Err("Meta")
               ELSE IF \E n \in DOMAIN vals : vals[n] \notin Range(s.parts[k])
               THEN Err("InvalidOperation")
               ELSE Ok(<<>>))

\* The place of the first partition with that value.
findPartition(ps, val) ==
    CHOOSE n \in DOMAIN ps : ps[n] = val /\ \A m \in 1 .. n - 1 : ps[m] # val

DropPartition(s, k, val) ==
    IF val \notin Range(s.parts[k]) THEN Answers(s, Err("NotFound"))
    ELSE Answers(recordEvent([s EXCEPT !.parts[k] =
                                 Taken(@, DOMAIN @ \ {findPartition(@, val)})],
                             "DROP_PARTITION"), Ok(<<>>))

\* The removals shift the elements of the store's own array; only at the end
\* is the shorter slice stored.  A name that is missing ends the request with
\* the array shifted and the old length in the store.  IfExists is not read.
DropPartitionsReq(s, k, names) ==
    LET Place(a, n) == CHOOSE x \in 0 .. a.len :
            \/ x > 0 /\ partitionName(a.arr[x]) = n
                     /\ \A y \in 1 .. x - 1 : partitionName(a.arr[y]) # n
            \/ x = 0 /\ \A y \in 1 .. a.len : partitionName(a.arr[y]) # n
        Cut(a, n) ==
            LET x == Place(a, n) IN
            IF a.missing THEN a
            ELSE IF x = 0 THEN [a EXCEPT !.missing = TRUE]
            ELSE [a EXCEPT !.len = @ - 1,
                           !.arr = [y \in DOMAIN @ |->
                                      IF y \in x .. a.len - 1 THEN @[y + 1] ELSE @[y]]]
        cut[n \in 0 .. Len(names)] ==
            IF n = 0 THEN [arr |-> s.parts[k], len |-> Len(s.parts[k]), missing |-> FALSE]
            ELSE Cut(cut[n - 1], names[n])
        end == cut[Len(names)]
    IN  IF k \notin s.tbls THEN Answers(s, Err("NotFound"))
        ELSE IF end.missing
        THEN Answers([s EXCEPT !.parts[k] = end.arr], Err("NotFound"))
        ELSE Answers(recordEvent([s EXCEPT !.parts[k] = SubSeq(end.arr, 1, end.len)],
                                 "DROP_PARTITION"), Ok(<<>>))

\* Only 4.0 knows engines.  Statistics outlive their table.
GetTableStatisticsReq(s, v, k, engine, cols) ==
    LET served == IF v = "4.0" THEN engine ELSE "hive" IN
    Answers(s, IF k \in s.tbls
               THEN Ok(Taken(s.stats[k], {n \in DOMAIN s.stats[k] :
                                 s.stats[k][n][1] = served /\ s.stats[k][n][2] \in Range(cols)}))
               ELSE Err("NotFound"))

\* The ids after last, oldest first, at most max of them (no limit for 0).
\* Only 4.0 knows the list of types.
GetNextNotification(s, v, last, max, types) ==
    LET wanted == {n \in DOMAIN s.events :
                     /\ n > last
                     /\ v = "4.0" /\ types # {} => s.events[n] \in types}
        ids == Taken([n \in DOMAIN s.events |-> n], wanted)
        first == IF max > 0 THEN truncateParts(ids, max) ELSE ids
    IN  Answers(s, Ok([n \in DOMAIN first |-> [id |-> first[n], type |-> s.events[first[n]]]]))

-----------------------------------------------------------------------------
(* The processor: UNKNOWN_METHOD for an RPC removed with the version or by  *)
(* WithoutRPC; a catalog on the wire is refused by 2.3, except in           *)
(* create_database's struct.                                                *)

Handle(s, v, without, q) ==
    LET c == IF q.cat = Nil THEN "hive" ELSE q.cat
        d == <<c, q.db>>
        k == <<c, q.db, q.tbl>>
    IN
    IF q.m \in removedRPCs(v) \cup without THEN Answers(s, Err("UnknownMethod"))
    ELSE IF v = "2.3" /\ q.cat # Nil /\ q.m # "create_database"
    THEN Answers(s, Err("UnexpectedCat"))
    ELSE CASE q.m = "get_catalogs"    -> Answers(s, Ok(Sorted(s.cats)))
           [] q.m = "get_catalog"     -> GetCatalog(s, q.name)
           [] q.m = "create_catalog"  -> CreateCatalog(s, q.name)
           [] q.m = "drop_catalog"    -> DropCatalog(s, q.name)
           [] q.m = "get_config_value" -> GetConfigValue(s, v, q.name)
           [] q.m = "getVersion"      -> Answers(s, Ok(<<versionString(v)>>))
           [] q.m = "get_table_statistics_req"
                                      -> GetTableStatisticsReq(s, v, k, q.name, q.items)
           [] q.m = "get_current_notificationEventId" -> Answers(s, Ok(<<Len(s.events)>>))
           [] q.m \in {"get_all_databases", "get_databases"} -> GetDatabases(s, c)
           [] q.m = "get_database"    -> GetDatabase(s, d)
           [] q.m = "create_database" -> CreateDatabase(s, d, q.flag)
           [] q.m = "alter_database"  -> AlterDatabase(s, d)
           [] q.m = "drop_database"   -> DropDatabase(s, v, d, q.flag)
           [] q.m = "get_all_tables"  -> GetAllTables(s, d)
           [] q.m = "get_table_req"   -> GetTableReq(s, k)
           [] q.m = "get_table_objects_by_name_req"
                                      -> GetTableObjectsByNameReq(s, d, q.items)
           [] q.m = "create_table"    -> CreateTable(s, k)
           [] q.m = "alter_table"     -> AlterTable(s, k, q.name)
           [] q.m = "drop_table"      -> DropTable(s, k)
           [] q.m \in {"get_partitions", "get_partitions_req"}
                                      -> GetPartitions(s, k, q.n)
           [] q.m = "get_partition_names" -> GetPartitionNames(s, k, q.n)
           [] q.m \in {"get_partitions_by_names", "get_partitions_by_names_req"}
                                      -> GetPartitionsByNames(s, k, q.items)
           [] q.m = "get_partitions_by_filter"
                                      -> GetPartitionsByFilter(s, k, q.items, q.n)
           [] q.m \in {"get_partition_names_ps", "get_partition_names_ps_req"}
                                      -> GetPartitionNamesPs(s, k, q.items, q.n)
           [] q.m = "add_partitions_req" -> AddPartitionsReq(s, k, q.items, q.flag)
           [] q.m \in {"alter_partitions", "alter_partitions_req"}
                                      -> applyAlterPartitions(s, k, q.items)
           [] q.m = "drop_partition"  -> DropPartition(s, k, q.items[1])
           [] q.m = "drop_partitions_req" -> DropPartitionsReq(s, k, q.items)
           [] q.m = "get_next_notification"
                                      -> GetNextNotification(s, v, q.n, q.max, q.types)
=============================================================================
