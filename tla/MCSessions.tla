----------------------------- MODULE MCSessions -----------------------------
EXTENDS Sessions

CONSTANTS u1, u2, s1, s2

By(first, second) == [u \in Users |-> IF u = u1 THEN first ELSE second]

MCEdit == By("params", "created")

MCConns == 1 .. 3

MCParams == {"k"}

MCStorage ==
    {[location |-> "s3", subdirs |-> {FALSE},
      serde |-> {[lib |-> "orc", params |-> {{}}, hidden |-> "kept"]}]}

MCObjects ==
    [table     |-> [owner |-> "hive", ownerType |-> 2, created |-> 1, params |-> {{}},
                    sd |-> MCStorage, cat |-> {}, hidden |-> "kept"],
     database  |-> [owner |-> {"hive"}, ownerType |-> {2}, created |-> {1},
                    params |-> {{}}, cat |-> {"hive"}, hidden |-> "kept"],
     partition |-> [created |-> 0, params |-> {}, sd |-> MCStorage, cat |-> {"hive"},
                    hidden |-> "kept"]]

On(type, level) == [type |-> type, level |-> level, db |-> "d",
                    table |-> IF level = "DB" THEN "" ELSE "t",
                    part |-> IF level = "PARTITION" THEN "p" ELSE ""]

MCResource ==
    [table |-> On("", "TABLE"), database |-> On("", "DB"), partition |-> On("", "PARTITION")]

Exclusive == By({{On("EXCLUSIVE", "DB")}}, {{On("EXCLUSIVE", "TABLE")}})

Levels == Exclusive[u1] \cup Exclusive[u2] \cup {{On("SHARED_READ", "PARTITION")}}

Workload(kind, ops, want, cancel, fail, stops) ==
    [kind |-> kind, ops |-> ops, want |-> want, cancel |-> cancel, fail |-> fail, stop |-> stops]

Edits == {"lock", "get", "alter"}

\* Two users change a table; requests of one may be handled after it gave up.
Editing == Workload("table", By(Edits \cup {"unlock"}, Edits), Exclusive, 1, 0, {})

\* The other kinds of object, on a server that fails once and is stopped.
Single(kind) == Workload(kind, By(Edits, {}), Exclusive, 0, 1, {s1})

\* Locks of every level, granted, refused, released and asked after.
Locking == Workload("table", By({"lock", "unlock", "check_lock", "abort_txn"},
                                {"open_txns", "lock", "heartbeat"}),
                    By(Levels, Exclusive[u2]), 0, 0, {})

\* One user commits a transaction the other aborts.
Txns == Workload("table", By({"open_txns", "commit_txn"}, {"abort_txn", "commit_txn"}),
                 Exclusive, 1, 0, {})

\* The server is stopped twice while calls are made and failures injected.
Halting == Workload("table", By({"open_txns"}, {"lock"}), Exclusive, 0, 1, {s1, s2})

MCWorkloads ==
    [editing |-> Editing, database |-> Single("database"), partition |-> Single("partition"),
     locking |-> Locking, txns |-> Txns, halting |-> Halting]
=============================================================================
