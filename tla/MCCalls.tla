------------------------------- MODULE MCCalls -------------------------------
(* Calls by two goroutines: a makes any call, b changes what it is about.   *)
EXTENDS Calls

Input(op) == [op |-> op, cat |-> "hive", db |-> "d", tbl |-> "t", name |-> "c2",
             items |-> <<>>, flag |-> FALSE, ifx |-> FALSE, n |-> -1, max |-> 0,
             types |-> {}]
In(cat, w)    == [w EXCEPT !.cat = cat]
IfExists(w)   == [w EXCEPT !.ifx = TRUE]
Flagged(w)    == [w EXCEPT !.flag = TRUE]
Of(items, w)  == [w EXCEPT !.items = items]
Upto(n, w)    == [w EXCEPT !.n = n]
Vals(n)       == SubSeq(<<"p1", "p2", "p3">>, 1, n)
Names(n)      == [x \in 1 .. n |-> partitionName(Vals(n)[x])]
Events(last, max, types) ==
    [Input("GetNextNotifications") EXCEPT !.n = last, !.max = max, !.types = types]

Stats(engine, cols) ==
    [Input("GetTableColumnStatistics") EXCEPT !.name = engine, !.items = cols]

Writes ==
    <<Input("CreateDatabase"), Flagged(Input("DropDatabase")), Input("CreateTable"),
      [Input("AlterTable") EXCEPT !.name = "u"], Input("DropTable"),
      Of(<<"p3">>, Input("AddPartitions")), Of(<<"p1">>, Input("DropPartition")),
      Input("DropCatalog")>>

Others ==
    <<Input("CreateCatalog"), IfExists(Input("DropDatabase")), Input("GetCatalogs"),
      Input("GetCatalog"), IfExists(Input("DropCatalog")),
      Input("GetAllDatabases"), In("c2", Input("GetAllDatabases")),
      Input("GetDatabase"), In("c2", Input("CreateDatabase")), Flagged(Input("CreateDatabase")),
      Input("AlterDatabase"), In("c2", Input("AlterDatabase")), Input("DropDatabase"),
      Input("GetAllTables"), Input("GetTable"), In("c2", Input("GetTable")),
      Of(<<"t", "u", "x">>, Input("GetTables")), Input("GetTablesSeq"),
      IfExists(Input("DropTable")),
      Input("GetPartitions"), Upto(1, Input("GetPartitions")),
      Upto(MaxI16 + 1, Input("GetPartitions")), In("c2", Input("GetPartitions")),
      Upto(-2, Input("GetPartitionNames")), Upto(0, Input("GetPartitionNames")),
      Of(Names(3), Input("GetPartitionsByNames")), Input("GetPartitionsSeq"),
      Of(<<"p1">>, Input("GetPartitionsByFilter")),
      Of(<<"p2">>, Input("GetPartitionNamesByValues")),
      Of(Vals(3), Flagged(Input("AddPartitions"))), Of(<<"p4", "p5", "p1">>, Input("AddPartitions")),
      Of(Vals(3), Input("AlterPartitions")), Input("AlterPartitions"),
      Of(<<"p1">>, IfExists(Input("DropPartition"))),
      Of(Names(3), Input("DropPartitionsByNames")),
      Of(Names(3), IfExists(Input("DropPartitionsByNames"))),
      Of(Vals(2), Input("DropPartitions")), Input("CurrentNotificationID"),
      Input("ServerVersion"), Stats("hive", <<"x", "y">>), Stats("spark", <<"y", "z">>),
      Stats("", <<"x">>), Stats("hive", <<>>),
      Events(0, 0, {}), Events(0, 1, {}), Events(0, 0, {"DROP_TABLE", "ADD_PARTITION"})>>

MCInputs == [c \in Callers |-> IF c = "a" THEN Writes \o Others ELSE Writes]

\* b is there for what it does to the store, which is the same on every
\* version; what its losses could do, its successes do.
MCServers == [c \in Callers |-> IF c = "a" THEN Version \X BOOLEAN
                                ELSE {<<"4.0", TRUE>>}]
MCLosses == [c \in Callers |-> IF c = "a" THEN 2 ELSE 0]

Drops  == <<Input("DropDatabase"), IfExists(Input("DropDatabase"))>>
DropInputs == [c \in Callers |-> Drops]

NotifyInputs ==
    [c \in Callers |-> IF c = "a" THEN <<Events(0, 1, {"DROP_TABLE"})>>
                       ELSE <<Input("DropTable")>>]

Keys == {"hive", "c2"} \X {"d"} \X {"t", "u", "x"}

Columns == <<<<"hive", "x">>, <<"hive", "z">>, <<"spark", "y">>, <<"spark", "z">>>>

Store(cats, dbs, tbls, n, warehouse, versionKey) ==
    [cats |-> cats, dbs |-> dbs, tbls |-> tbls, warehouse |-> warehouse,
     parts |-> [k \in Keys |-> IF k \in tbls /\ k[3] = "t" THEN Vals(n) ELSE <<>>],
     stats |-> [k \in Keys |-> IF k \in tbls /\ k[3] = "t" THEN Columns ELSE <<>>],
     versionKey |-> versionKey, events |-> <<"CREATE_TABLE">>]

Full == {<<c, "d", n>> : c \in {"hive"}, n \in {"t", "u"}}

MCStores ==
    {Store({"hive"}, {}, {}, 0, FALSE, Nil),
     Store({"hive"}, {<<"hive", "d">>}, {}, 0, TRUE, "hive.metastore.version"),
     Store({"hive", "c2"}, {<<"hive", "d">>}, Full, 2, TRUE, "metastore.version"),
     Store({"hive", "c2"}, {<<"hive", "d">>, <<"c2", "d">>},
           {<<"hive", "d", n>> : n \in {"t", "u", "x"}} \cup {<<"c2", "d", "t">>}, 3, TRUE, Nil)}

\* What StreamsExact of Calls_proofs assumes holds of this instance.
ASSUME NoDropsHere == NoDropsBeside
=============================================================================
