----------------------------- MODULE Calls_proofs -----------------------------
(***************************************************************************)
(* What Calls promises of a connection's caches, of the catalog on the     *)
(* wire, of the batches, of the attempts and of the streams, for any       *)
(* callers, inputs, servers and stores.  It rests on what hmstest's server *)
(* answers and what a handler leaves of the store: the replies are true of *)
(* the server's version, no handler but the drop of partitions by name     *)
(* gives a table a partition twice, and a stream is answered with what the *)
(* store has of its names.                                                 *)
(***************************************************************************)
EXTENDS Calls, Streams_proofs, FiniteSetTheorems

\* The provers tried on a step that names none, and their time.
USE SMTT(30), Z3T(30), ZenonT(30)

-----------------------------------------------------------------------------
(* What the server answers.                                                 *)

\* get_catalogs is answered by a server with catalogs and unknown to one without.
LEMMA CatalogsHandled ==
    ASSUME NEW s, NEW v \in Version, NEW without, without \subseteq {"getVersion"},
           NEW q, q.m = "get_catalogs"
    PROVE  LET r == Fake!Handle(s, v, without, q).reply IN
           (r.err = "ok" => v # "2.3") /\ (r.err = "UnknownMethod" => v = "2.3")
<1>1. "get_catalogs" \in Fake!removedRPCs(v) \cup without <=> v = "2.3"
  BY DEF Fake!removedRPCs, Version
<1>2. CASE v = "2.3"
  BY <1>1, <1>2 DEF Fake!Handle, Fake!Answers, Fake!Err
<1>3. CASE v # "2.3"
  BY <1>1, <1>3 DEF Fake!Handle, Fake!Answers, Fake!Ok
<1>4. QED
  BY <1>2, <1>3

\* The *_req forms are unknown only to a server that lacks them.
LEMMA ReqHandled ==
    ASSUME NEW s, NEW v \in Version, NEW without, without \subseteq {"getVersion"},
           NEW q, q.m \in {"get_partitions_req", "get_partitions_by_names_req",
                           "get_partition_names_ps_req", "alter_partitions_req"},
           Fake!Handle(s, v, without, q).reply.err = "UnknownMethod"
    PROVE  q.m \in removedRPCs(v)
<1> SUFFICES ASSUME q.m \notin Fake!removedRPCs(v) PROVE FALSE
  BY Zenon DEF Fake!removedRPCs, removedRPCs
<1>1. q.m \notin Fake!removedRPCs(v) \cup without
  OBVIOUS
<1>2. ~(v = "2.3" /\ q.cat # Fake!Nil /\ q.m # "create_database")
  BY <1>1, ZenonT(30) DEF Fake!Handle, Fake!Answers, Fake!Err
<1>3. CASE q.m = "get_partitions_req"
  BY <1>1, <1>2, <1>3 DEF Fake!Handle, Fake!Answers, Fake!Err, Fake!Ok, Fake!GetPartitions
<1>4. CASE q.m = "get_partitions_by_names_req"
  BY <1>1, <1>2, <1>4
  DEF Fake!Handle, Fake!Answers, Fake!Err, Fake!Ok, Fake!GetPartitionsByNames
<1>5. CASE q.m = "get_partition_names_ps_req"
  BY <1>1, <1>2, <1>5
  DEF Fake!Handle, Fake!Answers, Fake!Err, Fake!Ok, Fake!GetPartitionNamesPs
<1>6. CASE q.m = "alter_partitions_req"
  BY <1>1, <1>2, <1>6
  DEF Fake!Handle, Fake!Answers, Fake!Err, Fake!Ok, Fake!applyAlterPartitions
<1>7. QED
  BY <1>3, <1>4, <1>5, <1>6

\* What the server of x's connection answers is true of it.
LEMMA ServedSays ==
    ASSUME NEW x, NEW s, Base(x)
    PROVE  Says(x, Fake!Handle(s, x.conn.v, x.conn.without, request(x)).reply)
<1>1. x.conn.v \in Version /\ x.conn.without \subseteq {"getVersion"}
  BY DEF Base, ConnOK
<1>2. QED
  BY <1>1, RequestNames, CatalogsHandled, ReqHandled DEF Says, tryReq

-----------------------------------------------------------------------------
(* What a handler leaves of the store.                                      *)

\* A store has its fields and finitely many tables.
StoreOK(s) ==
    /\ DOMAIN s = {"cats", "dbs", "tbls", "parts", "stats", "warehouse", "versionKey", "events"}
    /\ IsFiniteSet(s.tbls) /\ \A k \in s.tbls : k = <<k[1], k[2], k[3]>>

\* No table has a partition twice.
Slices(s) == \A k \in DOMAIN s.parts : IsSeq(s.parts[k]) /\ IsInjective(s.parts[k])

\* What a handler that makes h of s keeps.
Keeps(s, h) ==
    StoreOK(h) /\ DOMAIN h.parts = DOMAIN s.parts /\ (Slices(s) => Slices(h))

\* The tables and the partitions are as they were.
Alike(s, h) == DOMAIN h = DOMAIN s /\ h.tbls = s.tbls /\ h.parts = s.parts

\* Such a store keeps everything.
LEMMA AlikeKeeps ==
    ASSUME NEW s, NEW h, StoreOK(s), Alike(s, h)
    PROVE  Keeps(s, h)
  BY Zenon DEF Alike, Keeps, StoreOK, Slices

\* The event log is no table.
LEMMA Recorded ==
    ASSUME NEW s, StoreOK(s), NEW e
    PROVE  Alike(s, Fake!recordEvent(s, e))
  BY DEF Fake!recordEvent, Alike, StoreOK

\* The handlers of catalogs and databases.
LEMMA CatalogsKept ==
    ASSUME NEW s, StoreOK(s), NEW n, NEW b
    PROVE  /\ Keeps(s, Fake!CreateCatalog(s, n).store) /\ Keeps(s, Fake!DropCatalog(s, n).store)
           /\ Keeps(s, Fake!CreateDatabase(s, n, b).store)
<1>1. Alike(s, s) /\ \A x : Alike(s, [s EXCEPT !.cats = x]) /\ Alike(s, [s EXCEPT !.dbs = x])
  BY DEF Alike, StoreOK
<1>2. ASSUME NEW x PROVE Alike(s, Fake!recordEvent([s EXCEPT !.dbs = x], "CREATE_DATABASE"))
  <2> DEFINE u == [s EXCEPT !.dbs = x]
  <2>1. Alike(s, u) /\ StoreOK(u)
    BY <1>1, AlikeKeeps, Zenon DEF Keeps
  <2> HIDE DEF u
  <2>2. Alike(u, Fake!recordEvent(u, "CREATE_DATABASE"))
    BY <2>1, Recorded, Zenon
  <2>3. QED
    BY <2>1, <2>2, Zenon DEF Alike, u
<1>3. /\ Alike(s, Fake!CreateCatalog(s, n).store) /\ Alike(s, Fake!DropCatalog(s, n).store)
      /\ Alike(s, Fake!CreateDatabase(s, n, b).store)
  BY <1>1, <1>2, Zenon DEF Fake!CreateCatalog, Fake!DropCatalog, Fake!CreateDatabase, Fake!Answers
<1>4. QED
  BY <1>3, AlikeKeeps, Zenon

\* A store whose tables and partitions are given.
LEMMA KeepsFrom ==
    ASSUME NEW s, NEW h, NEW e, StoreOK(s), DOMAIN h = DOMAIN s,
           IsFiniteSet(h.tbls), \A k \in h.tbls : k = <<k[1], k[2], k[3]>>,
           DOMAIN h.parts = DOMAIN s.parts,
           Slices(s) => \A k \in DOMAIN s.parts : IsSeq(h.parts[k]) /\ IsInjective(h.parts[k])
    PROVE  Keeps(s, h) /\ Keeps(s, Fake!recordEvent(h, e))
<1>1. Keeps(s, h)
  BY Zenon DEF Keeps, StoreOK, Slices
<1>2. Keeps(h, Fake!recordEvent(h, e))
  BY <1>1, Recorded, AlikeKeeps, Zenon DEF Keeps
<1>3. QED
  BY <1>1, <1>2, Zenon DEF Keeps

\* Dropping a database drops its tables and their partitions.
LEMMA DropDatabaseKept ==
    ASSUME NEW s, StoreOK(s), NEW v, NEW d, NEW b
    PROVE  Keeps(s, Fake!DropDatabase(s, v, d, b).store)
<1> DEFINE ts == {y \in s.tbls : <<y[1], y[2]>> = d}
           h == [s EXCEPT !.dbs = @ \ {d}, !.tbls = @ \ ts,
                          !.parts = [k \in DOMAIN @ |-> IF k \in ts THEN <<>> ELSE @[k]]]
<1>1. /\ DOMAIN h = DOMAIN s /\ h.tbls = s.tbls \ ts /\ DOMAIN h.parts = DOMAIN s.parts
      /\ \A k \in DOMAIN s.parts : h.parts[k] = IF k \in ts THEN <<>> ELSE s.parts[k]
  BY DEF StoreOK
<1>2. Fake!DropDatabase(s, v, d, b).store \in {s, Fake!recordEvent(h, "DROP_DATABASE")}
  BY DEF Fake!DropDatabase, Fake!Answers
<1> HIDE DEF h
<1>3. IsFiniteSet(h.tbls) /\ \A k \in h.tbls : k = <<k[1], k[2], k[3]>>
  <2>1. h.tbls \in SUBSET s.tbls
    BY <1>1, Zenon
  <2>2. QED
    BY <2>1, FS_Subset, Zenon DEF StoreOK
<1>4. IsSeq(<<>>) /\ IsInjective(<<>>)
  BY DEF IsSeq, IsInjective, Range
<1>5. Slices(s) => \A k \in DOMAIN s.parts : IsSeq(h.parts[k]) /\ IsInjective(h.parts[k])
  BY <1>1, <1>4, Zenon DEF Slices
<1>6. Keeps(s, Fake!recordEvent(h, "DROP_DATABASE")) /\ Keeps(s, s)
  BY <1>1, <1>3, <1>5, KeepsFrom, AlikeKeeps, Zenon DEF Alike
<1>7. QED
  BY <1>2, <1>6

\* The handlers of tables.
LEMMA TablesKept ==
    ASSUME NEW s, StoreOK(s), NEW k, k = <<k[1], k[2], k[3]>>, NEW to
    PROVE  /\ Keeps(s, Fake!CreateTable(s, k).store) /\ Keeps(s, Fake!AlterTable(s, k, to).store)
           /\ Keeps(s, Fake!DropTable(s, k).store)
<1> DEFINE a == [s EXCEPT !.tbls = @ \cup {k}]
           b == [s EXCEPT !.tbls = (@ \ {k}) \cup {<<k[1], k[2], to>>}]
           d == [s EXCEPT !.tbls = @ \ {k}, !.parts[k] = <<>>]
<1>1. /\ DOMAIN a = DOMAIN s /\ a.tbls = s.tbls \cup {k} /\ a.parts = s.parts
      /\ DOMAIN b = DOMAIN s /\ b.tbls = (s.tbls \ {k}) \cup {<<k[1], k[2], to>>}
      /\ b.parts = s.parts
  BY DEF StoreOK
<1>2. /\ DOMAIN d = DOMAIN s /\ d.tbls = s.tbls \ {k} /\ DOMAIN d.parts = DOMAIN s.parts
      /\ \A j \in DOMAIN s.parts : d.parts[j] \in {<<>>, s.parts[j]}
  BY DEF StoreOK
<1>3. /\ Fake!CreateTable(s, k).store \in {s, Fake!recordEvent(a, "CREATE_TABLE")}
      /\ Fake!AlterTable(s, k, to).store \in {s, Fake!recordEvent(b, "ALTER_TABLE")}
      /\ Fake!DropTable(s, k).store \in {s, Fake!recordEvent(d, "DROP_TABLE")}
  BY DEF Fake!CreateTable, Fake!AlterTable, Fake!DropTable, Fake!Answers
<1> HIDE DEF a, b, d
<1>4. IsFiniteSet(a.tbls) /\ IsFiniteSet(b.tbls) /\ IsFiniteSet(d.tbls)
  <2>1. ASSUME NEW S, NEW y, IsFiniteSet(S) PROVE IsFiniteSet(S \cup {y}) /\ IsFiniteSet(S \ {y})
    BY <2>1, FS_AddElement, FS_RemoveElement, Zenon
  <2>2. /\ IsFiniteSet(s.tbls \cup {k}) /\ IsFiniteSet(s.tbls \ {k})
        /\ IsFiniteSet((s.tbls \ {k}) \cup {<<k[1], k[2], to>>})
    BY <2>1, Zenon DEF StoreOK
  <2>3. QED
    BY <1>1, <1>2, <2>2
<1>5. /\ \A j \in a.tbls : j = <<j[1], j[2], j[3]>>
      /\ \A j \in b.tbls : j = <<j[1], j[2], j[3]>>
      /\ \A j \in d.tbls : j = <<j[1], j[2], j[3]>>
  BY <1>1, <1>2 DEF StoreOK
<1>6. IsSeq(<<>>) /\ IsInjective(<<>>)
  BY DEF IsSeq, IsInjective, Range
<1>7. Slices(s) => /\ \A j \in DOMAIN s.parts : IsSeq(s.parts[j]) /\ IsInjective(s.parts[j])
                   /\ \A j \in DOMAIN s.parts : IsSeq(d.parts[j]) /\ IsInjective(d.parts[j])
  BY <1>2, <1>6 DEF Slices
<1>8. /\ Keeps(s, Fake!recordEvent(a, "CREATE_TABLE"))
      /\ Keeps(s, Fake!recordEvent(b, "ALTER_TABLE"))
  BY <1>1, <1>4, <1>5, <1>7, KeepsFrom, Zenon
<1>9. Keeps(s, Fake!recordEvent(d, "DROP_TABLE")) /\ Keeps(s, s)
  BY <1>2, <1>4, <1>5, <1>7, KeepsFrom, AlikeKeeps, Zenon DEF Alike
<1>10. QED
  BY <1>3, <1>8, <1>9, Zenon

\* hmstest's Taken is the client's.
LEMMA FakeTaken == \A s, I : Fake!Taken(s, I) = Taken(s, I)
  BY Zenon DEF Fake!Taken, Taken

\* A store of which only one table's partitions change.
LEMMA OneSlice ==
    ASSUME NEW s, StoreOK(s), NEW k, NEW p, NEW e,
           Slices(s) /\ k \in DOMAIN s.parts => IsSeq(p) /\ IsInjective(p)
    PROVE  LET h == [s EXCEPT !.parts[k] = p] IN Keeps(s, h) /\ Keeps(s, Fake!recordEvent(h, e))
<1> DEFINE h == [s EXCEPT !.parts[k] = p]
<1>1. /\ DOMAIN h = DOMAIN s /\ h.tbls = s.tbls /\ DOMAIN h.parts = DOMAIN s.parts
      /\ \A j \in DOMAIN s.parts : h.parts[j] = IF j = k THEN p ELSE s.parts[j]
  BY DEF StoreOK
<1> HIDE DEF h
<1>2. Slices(s) => \A j \in DOMAIN s.parts : IsSeq(h.parts[j]) /\ IsInjective(h.parts[j])
  BY <1>1, Zenon DEF Slices
<1>3. Keeps(s, h) /\ Keeps(s, Fake!recordEvent(h, e))
  BY <1>1, <1>2, KeepsFrom, Zenon DEF StoreOK
<1>4. QED
  BY <1>3 DEF h

\* add_partitions appends what is not there yet.
LEMMA AddKept ==
    ASSUME NEW s, StoreOK(s), NEW k, NEW vals, IsSeq(vals), NEW b
    PROVE  Keeps(s, Fake!AddPartitionsReq(s, k, vals, b).store)
<1> DEFINE added == {n \in DOMAIN vals : /\ vals[n] \notin Fake!Range(s.parts[k])
                                         /\ \A m \in 1 .. n - 1 : vals[m] # vals[n]}
           p == s.parts[k] \o Fake!Taken(vals, added)
           h == [s EXCEPT !.parts[k] = p]
<1>1. Fake!AddPartitionsReq(s, k, vals, b).store \in {s, h, Fake!recordEvent(h, "ADD_PARTITION")}
  BY DEF Fake!AddPartitionsReq, Fake!Answers
<1>2. \A i, j \in added \cap DOMAIN vals : vals[i] = vals[j] => i = j
  <2> SUFFICES ASSUME NEW i \in added, NEW j \in added, vals[i] = vals[j], i # j PROVE FALSE
    BY Zenon
  <2>1. i \in Nat /\ j \in Nat /\ i >= 1 /\ j >= 1
    BY DEF IsSeq
  <2>2. i \in 1 .. j - 1 \/ j \in 1 .. i - 1
    BY <2>1
  <2>3. QED
    BY <2>2
<1>3. Fake!Range(s.parts[k]) = Range(s.parts[k])
  BY DEF Fake!Range, Range
<1>4. \A i \in added : vals[i] \notin Range(s.parts[k])
  BY <1>3
<1> HIDE DEF added
<1>5. LET u == Fake!Taken(vals, added) IN
      IsSeq(u) /\ IsInjective(u) /\ Range(u) = {vals[i] : i \in added \cap DOMAIN vals}
  BY <1>2, TakenOnce, FakeTaken, Zenon
<1>6. ASSUME Slices(s), k \in DOMAIN s.parts PROVE IsSeq(p) /\ IsInjective(p)
  <2> DEFINE u == Fake!Taken(vals, added)
             q == s.parts[k]
  <2>1. IsSeq(q) /\ IsInjective(q)
    BY <1>6, Zenon DEF Slices
  <2>2. IsSeq(u) /\ IsInjective(u) /\ Range(q) \cap Range(u) = {}
    BY <1>4, <1>5
  <2> HIDE DEF u, q
  <2>3. IsSeq(q \o u) /\ IsInjective(q \o u)
    BY <2>1, <2>2, Joined, Zenon
  <2>4. QED
    BY <2>3 DEF q, u
<1> HIDE DEF p
<1>7. Keeps(s, h) /\ Keeps(s, Fake!recordEvent(h, "ADD_PARTITION")) /\ Keeps(s, s)
  BY <1>6, OneSlice, AlikeKeeps, Zenon DEF Alike
<1>8. QED
  BY <1>1, <1>7, Zenon DEF p

\* drop_partition takes one out.
LEMMA DropOneKept ==
    ASSUME NEW s, StoreOK(s), NEW k, NEW val
    PROVE  Keeps(s, Fake!DropPartition(s, k, val).store)
<1> DEFINE I == DOMAIN s.parts[k] \ {Fake!findPartition(s.parts[k], val)}
           p == Fake!Taken(s.parts[k], I)
           h == [s EXCEPT !.parts[k] = p]
<1>1. Fake!DropPartition(s, k, val).store \in {s, Fake!recordEvent(h, "DROP_PARTITION")}
  BY DEF Fake!DropPartition, Fake!Answers
<1> HIDE DEF I
<1>2. ASSUME Slices(s), k \in DOMAIN s.parts PROVE IsSeq(p) /\ IsInjective(p)
  <2> DEFINE q == s.parts[k]
  <2>1. IsSeq(q) /\ \A i, j \in I \cap DOMAIN q : q[i] = q[j] => i = j
    BY <1>2, Zenon DEF Slices, IsInjective
  <2> HIDE DEF q
  <2>2. IsSeq(Taken(q, I)) /\ IsInjective(Taken(q, I))
    BY <2>1, TakenOnce, Zenon
  <2>3. QED
    BY <2>2, FakeTaken, Zenon DEF q
<1> HIDE DEF p
<1>3. Keeps(s, Fake!recordEvent(h, "DROP_PARTITION")) /\ Keeps(s, s)
  BY <1>2, OneSlice, AlikeKeeps, Zenon DEF Alike
<1>4. QED
  BY <1>1, <1>3 DEF p

\* drop_partitions_req may leave a slice with a partition twice; nothing else
\* is lost.
LEMMA DropManyKept ==
    ASSUME NEW s, StoreOK(s), NEW k, NEW names
    PROVE  LET h == Fake!DropPartitionsReq(s, k, names).store IN
           StoreOK(h) /\ DOMAIN h.parts = DOMAIN s.parts
<1>1. \E p : Fake!DropPartitionsReq(s, k, names).store \in
                {s, [s EXCEPT !.parts[k] = p],
                 Fake!recordEvent([s EXCEPT !.parts[k] = p], "DROP_PARTITION")}
  BY Zenon DEF Fake!DropPartitionsReq, Fake!Answers
<1>2. ASSUME NEW p
      PROVE  LET h == [s EXCEPT !.parts[k] = p] IN
             /\ StoreOK(h) /\ DOMAIN h.parts = DOMAIN s.parts
             /\ StoreOK(Fake!recordEvent(h, "DROP_PARTITION"))
             /\ DOMAIN Fake!recordEvent(h, "DROP_PARTITION").parts = DOMAIN s.parts
  <2> DEFINE h == [s EXCEPT !.parts[k] = p]
  <2>1. DOMAIN h = DOMAIN s /\ h.tbls = s.tbls /\ DOMAIN h.parts = DOMAIN s.parts
    BY DEF StoreOK
  <2> HIDE DEF h
  <2>2. StoreOK(h)
    BY <2>1, Zenon DEF StoreOK
  <2>3. Alike(h, Fake!recordEvent(h, "DROP_PARTITION"))
    BY <2>2, Recorded, Zenon
  <2>4. Keeps(h, Fake!recordEvent(h, "DROP_PARTITION"))
    BY <2>2, <2>3, AlikeKeeps, Zenon
  <2>5. QED
    BY <2>1, <2>2, <2>4, Zenon DEF Keeps, h
<1>3. PICK p : Fake!DropPartitionsReq(s, k, names).store \in
                {s, [s EXCEPT !.parts[k] = p],
                 Fake!recordEvent([s EXCEPT !.parts[k] = p], "DROP_PARTITION")}
  BY <1>1, Zenon
<1>4. QED
  BY <1>2, <1>3, Zenon

\* A request that the server does not take.
Refused(v, without, q) ==
    \/ q.m \in Fake!removedRPCs(v) \cup without
    \/ v = "2.3" /\ q.cat # Fake!Nil /\ q.m # "create_database"

\* What serving a request keeps of the store.
LEMMA HandleStore ==
    ASSUME NEW s, StoreOK(s), NEW v, NEW without, NEW q, q.m \in Rpcs,
           q.m = "add_partitions_req" => IsSeq(q.items)
    PROVE  LET h == Fake!Handle(s, v, without, q).store IN
           /\ StoreOK(h) /\ DOMAIN h.parts = DOMAIN s.parts
           /\ q.m # "drop_partitions_req" /\ Slices(s) => Slices(h)
<1> DEFINE h == Fake!Handle(s, v, without, q).store
           c == Meant(q)
           d == <<c, q.db>>
           k == <<c, q.db, q.tbl>>
           Goal == /\ StoreOK(h) /\ DOMAIN h.parts = DOMAIN s.parts
                   /\ q.m # "drop_partitions_req" /\ Slices(s) => Slices(h)
<1>1. Keeps(s, h) => Goal
  BY Zenon DEF Keeps
<1>2. Keeps(s, s)
  BY AlikeKeeps, Zenon DEF Alike
<1>3. ASSUME Refused(v, without, q) PROVE Goal
  <2>1. h = s
    BY <1>3, Zenon DEF Refused, Fake!Handle, Fake!Answers
  <2>2. QED
    BY <1>1, <1>2, <2>1, ZenonT(30)
<1>4. (IF q.cat = Fake!Nil THEN "hive" ELSE q.cat) = c
  BY Zenon DEF Meant, Nil, Fake!Nil
<1>5. ASSUME ~Refused(v, without, q),
             q.m \in {"create_catalog", "drop_catalog", "create_database", "drop_database"}
      PROVE  Goal
  <2>1. h \in {Fake!CreateCatalog(s, q.name).store, Fake!DropCatalog(s, q.name).store,
               Fake!CreateDatabase(s, d, q.flag).store, Fake!DropDatabase(s, v, d, q.flag).store}
    BY <1>4, <1>5, Zenon DEF Refused, Fake!Handle
  <2> HIDE DEF h, d
  <2>2. Keeps(s, h)
    BY <2>1, CatalogsKept, DropDatabaseKept
  <2>3. QED
    BY <1>1, <2>2
<1>6. ASSUME ~Refused(v, without, q), q.m \in {"create_table", "alter_table", "drop_table"} PROVE Goal
  <2>1. h \in {Fake!CreateTable(s, k).store, Fake!AlterTable(s, k, q.name).store,
               Fake!DropTable(s, k).store}
    BY <1>4, <1>6, Zenon DEF Refused, Fake!Handle
  <2>2. k = <<k[1], k[2], k[3]>>
    OBVIOUS
  <2> HIDE DEF h, k
  <2>3. Keeps(s, h)
    BY <2>1, <2>2, TablesKept
  <2>4. QED
    BY <1>1, <2>3
<1>7. ASSUME ~Refused(v, without, q), q.m \in {"add_partitions_req", "drop_partition"} PROVE Goal
  <2>1. \/ q.m = "add_partitions_req" /\ h = Fake!AddPartitionsReq(s, k, q.items, q.flag).store
        \/ h = Fake!DropPartition(s, k, q.items[1]).store
    BY <1>4, <1>7, Zenon DEF Refused, Fake!Handle
  <2> HIDE DEF h, k
  <2>2. Keeps(s, h)
    BY <2>1, AddKept, DropOneKept
  <2>3. QED
    BY <1>1, <2>2
<1>8. ASSUME ~Refused(v, without, q), q.m = "drop_partitions_req" PROVE Goal
  <2>1. h = Fake!DropPartitionsReq(s, k, q.items).store
    BY <1>4, <1>8 DEF Refused, Fake!Handle
  <2> HIDE DEF h, k
  <2>2. QED
    BY <1>8, <2>1, DropManyKept
<1>9. ASSUME ~Refused(v, without, q),
             q.m \in Rpcs \ {"create_catalog", "drop_catalog", "create_database",
                             "drop_database", "create_table", "alter_table", "drop_table",
                             "add_partitions_req", "drop_partition", "drop_partitions_req"}
      PROVE  Goal
  <2>1. CASE q.m \in {"get_catalogs", "get_catalog", "get_config_value", "getVersion",
                      "get_table_statistics_req", "get_current_notificationEventId"}
    <3>1. h = s
      BY <1>9, <2>1, Zenon DEF Refused, Fake!Handle, Fake!Answers, Fake!GetCatalog, Fake!GetConfigValue,
         Fake!GetTableStatisticsReq
    <3>2. QED
      BY <1>1, <1>2, <3>1, Zenon
  <2>2. CASE q.m \in {"get_all_databases", "get_databases", "get_database", "alter_database",
                      "get_all_tables", "get_table_req", "get_table_objects_by_name_req"}
    <3>1. h = s
      BY <1>9, <2>2, Zenon DEF Refused, Fake!Handle, Fake!Answers, Fake!GetDatabases, Fake!GetDatabase,
         Fake!AlterDatabase, Fake!GetAllTables, Fake!GetTableReq, Fake!GetTableObjectsByNameReq
    <3>2. QED
      BY <1>1, <1>2, <3>1, Zenon
  <2>3. CASE q.m \in {"get_partitions", "get_partitions_req", "get_partition_names",
                      "get_partitions_by_names", "get_partitions_by_names_req"}
    <3>1. h = s
      BY <1>9, <2>3, Zenon DEF Refused, Fake!Handle, Fake!Answers, Fake!GetPartitions, Fake!GetPartitionNames,
         Fake!GetPartitionsByNames
    <3>2. QED
      BY <1>1, <1>2, <3>1, Zenon
  <2>4. CASE q.m \in {"get_partitions_by_filter", "get_partition_names_ps",
                      "get_partition_names_ps_req", "alter_partitions", "alter_partitions_req",
                      "get_next_notification"}
    <3>1. h = s
      BY <1>9, <2>4, Zenon DEF Refused, Fake!Handle, Fake!Answers, Fake!GetPartitionsByFilter,
         Fake!GetPartitionNamesPs, Fake!applyAlterPartitions, Fake!GetNextNotification
    <3>2. QED
      BY <1>1, <1>2, <3>1, Zenon
  <2>5. QED
    BY <1>9, <2>1, <2>2, <2>3, <2>4 DEF Rpcs
<1>10. QED
  BY <1>3, <1>5, <1>6, <1>7, <1>8, <1>9

-----------------------------------------------------------------------------
(* What a stream is answered.                                               *)

\* All of a finite set's elements, each once.
LEMMA SortedAll ==
    ASSUME NEW S, IsFiniteSet(S)
    PROVE  LET f == Fake!Sorted(S) IN IsSeq(f) /\ IsInjective(f) /\ Range(f) = S
<1> DEFINE f == Fake!Sorted(S)
           n == Cardinality(S)
<1>1. n \in Nat /\ ExistsBijection(1 .. n, S)
  BY FS_CardinalityType
<1>2. PICK g : g \in Injection(1 .. n, S)
  BY <1>1, Zenon DEF ExistsBijection, Bijection
<1>3. Fake!Cardinality(S) = n
  BY Zenon DEF Fake!Cardinality, Cardinality, IsFiniteSet, Fake!IsFiniteSet
<1>4. f = CHOOSE h \in [1 .. n -> S] : IsInjective(h)
  BY <1>3, Zenon DEF Fake!Sorted, Fake!IsInjective, IsInjective
<1> HIDE DEF n
<1>5. f \in Injection(1 .. n, S)
  <2>1. g \in [1 .. n -> S] /\ IsInjective(g)
    BY <1>2, Zenon DEF Injection
  <2>2. f \in [1 .. n -> S] /\ IsInjective(f)
    BY <1>4, <2>1, Zenon
  <2>3. QED
    BY <2>2, Zenon DEF Injection
<1> HIDE DEF f
<1>6. Cardinality(1 .. n) = Cardinality(S)
  BY <1>1, FS_Interval DEF n
<1>7. f \in Surjection(1 .. n, S)
  BY <1>5, <1>6, FS_Injection
<1>8. f \in [1 .. n -> S] /\ IsInjective(f) /\ \A o \in S : \E i \in 1 .. n : f[i] = o
  BY <1>5, <1>7, Zenon DEF Injection, Surjection
<1>9. f \in Seq(S)
  BY <1>1, <1>8
<1>10. Range(f) = S
  BY <1>8 DEF Range
<1>11. QED
  BY <1>8, <1>9, <1>10 DEF f, IsSeq

\* The names of a database's tables.
TablesIn(s, c, d) == {y[3] : y \in {z \in s.tbls : <<z[1], z[2]>> = <<c, d>>}}

\* A database has finitely many tables.
LEMMA TablesOf ==
    ASSUME NEW s, StoreOK(s), NEW d1, NEW d2
    PROVE  /\ IsFiniteSet(TablesIn(s, d1, d2))
           /\ \A n : n \in TablesIn(s, d1, d2) <=> <<d1, d2, n>> \in s.tbls
<1> DEFINE T == {z \in s.tbls : <<z[1], z[2]>> = <<d1, d2>>}
           S == {y[3] : y \in T}
           f == [y \in T |-> y[3]]
<1>1. IsFiniteSet(T)
  BY FS_Subset DEF StoreOK
<1>2. f \in Surjection(T, S)
  BY DEF Surjection
<1>3. IsFiniteSet(S)
  <2> HIDE DEF f, T, S
  <2>1. QED
    BY <1>1, <1>2, FS_Surjection
<1>4. ASSUME NEW n, n \in S PROVE <<d1, d2, n>> \in s.tbls
  <2>1. PICK z \in s.tbls : z[1] = d1 /\ z[2] = d2 /\ n = z[3]
    BY <1>4
  <2>2. z = <<z[1], z[2], z[3]>>
    BY DEF StoreOK
  <2>3. QED
    BY <2>1, <2>2, Zenon
<1>5. ASSUME NEW n, <<d1, d2, n>> \in s.tbls PROVE n \in S
  <2> DEFINE z == <<d1, d2, n>>
  <2>1. z[1] = d1 /\ z[2] = d2 /\ z[3] = n /\ z \in s.tbls
    BY <1>5
  <2> HIDE DEF z
  <2>2. QED
    BY <2>1, Zenon
<1>6. QED
  BY <1>3, <1>4, <1>5, Zenon DEF TablesIn

\* What a stream may yield of a store.
LEMMA StreamObjects ==
    ASSUME NEW s, NEW w
    PROVE  /\ w.op = "GetTablesSeq" => Objects(s, w) = TablesIn(s, w.cat, w.db)
           /\ w.op = "GetPartitionsSeq" =>
                Objects(s, w) = IF <<w.cat, w.db, w.tbl>> \in s.tbls
                                THEN Range(s.parts[<<w.cat, w.db, w.tbl>>]) ELSE {}
<1>1. w.op = "GetTablesSeq" => Objects(s, w) = TablesIn(s, w.cat, w.db)
  BY DEF Objects, TablesIn
<1>2. w.op = "GetPartitionsSeq" =>
                Objects(s, w) = IF <<w.cat, w.db, w.tbl>> \in s.tbls
                                THEN Range(s.parts[<<w.cat, w.db, w.tbl>>]) ELSE {}
  BY DEF Objects
<1>3. QED
  BY <1>1, <1>2

\* hmstest's answers to a stream's requests.
LEMMA StreamReplies ==
    ASSUME NEW s, NEW v, NEW without, NEW q
    PROVE  LET h == Fake!Handle(s, v, without, q)
               k == <<Meant(q), q.db, q.tbl>>
           IN
           /\ Refused(v, without, q) => h.store = s /\ h.reply.err \notin {"ok", "NotFound"}
           /\ ~Refused(v, without, q) =>
                /\ q.m = "get_all_tables" =>
                     h = Fake!Answers(s, Fake!Ok(Fake!Sorted(TablesIn(s, Meant(q), q.db))))
                /\ q.m = "get_table_objects_by_name_req" =>
                     h = Fake!GetTableObjectsByNameReq(s, <<Meant(q), q.db>>, q.items)
                /\ q.m = "get_partition_names" => h = Fake!GetPartitionNames(s, k, q.n)
                /\ q.m \in {"get_partitions_by_names", "get_partitions_by_names_req"} =>
                     h = Fake!GetPartitionsByNames(s, k, q.items)
<1> DEFINE h == Fake!Handle(s, v, without, q)
           k == <<Meant(q), q.db, q.tbl>>
           d == <<Meant(q), q.db>>
<1>1. (IF q.cat = Fake!Nil THEN "hive" ELSE q.cat) = Meant(q)
  BY Zenon DEF Meant, Nil, Fake!Nil
<1>2. Refused(v, without, q) => h.store = s /\ h.reply.err \notin {"ok", "NotFound"}
  BY Zenon DEF Refused, Fake!Handle, Fake!Answers, Fake!Err
<1>3. ~Refused(v, without, q) /\ q.m = "get_all_tables" => h = Fake!GetAllTables(s, d)
  BY <1>1 DEF Refused, Fake!Handle
<1>4. ~Refused(v, without, q) /\ q.m = "get_table_objects_by_name_req" =>
        h = Fake!GetTableObjectsByNameReq(s, d, q.items)
  BY <1>1 DEF Refused, Fake!Handle
<1>5. ~Refused(v, without, q) /\ q.m = "get_partition_names" =>
        h = Fake!GetPartitionNames(s, k, q.n)
  BY <1>1 DEF Refused, Fake!Handle
<1>6. q.m \in {"get_partitions_by_names", "get_partitions_by_names_req"} =>
        (~Refused(v, without, q) => h = Fake!GetPartitionsByNames(s, k, q.items))
  BY <1>1 DEF Refused, Fake!Handle
<1> HIDE DEF h, k
<1>7. QED
  BY <1>2, <1>3, <1>4, <1>5, <1>6, Zenon DEF Fake!GetAllTables, TablesIn, h, k

\* The tables of a database are listed.
LEMMA TablesAnswered ==
    ASSUME NEW s, StoreOK(s), NEW d1, NEW d2
    PROVE  LET S == TablesIn(s, d1, d2)
               v == Fake!Sorted(S)
           IN  IsListing("GetTablesSeq", v) /\ S = Objs("GetTablesSeq", v, Len(v))
<1> DEFINE S == TablesIn(s, d1, d2)
           v == Fake!Sorted(S)
<1>1. IsFiniteSet(S)
  BY TablesOf, Zenon
<1> HIDE DEF S
<1>2. IsSeq(v) /\ IsInjective(v) /\ Range(v) = S
  BY <1>1, SortedAll, Zenon
<1> HIDE DEF v
<1>3. IsListing("GetTablesSeq", v) /\ S = Objs("GetTablesSeq", v, Len(v))
  BY <1>2, TablesListed, Zenon
<1>4. QED
  BY <1>3, Zenon DEF v, S

\* A reply to a stream's request is true, and asking changes nothing.
LEMMA ServedAnswers ==
    ASSUME NEW x, NEW s, NEW K, NEW E, Base(x), At(x), x.pc = "rpc",
           x.call.op \in DOMAIN Stream, Streaming(x, K, E), StoreOK(s),
           <<x.call.cat, x.call.db, x.call.tbl>> \in DOMAIN s.parts,
           x.call.op = "GetPartitionsSeq" => Slices(s),
           K \subseteq Objects(s, x.call), Objects(s, x.call) \subseteq E
    PROVE  LET h == Fake!Handle(s, x.conn.v, x.conn.without, request(x)) IN
           h.store = s /\ Answer(x, K, E, h.reply)
<1> DEFINE h == Fake!Handle(s, x.conn.v, x.conn.without, request(x))
           r == h.reply
           q == request(x)
           w == x.call
           op == x.call.op
           k == <<w.cat, w.db, w.tbl>>
           S == TablesIn(s, w.cat, w.db)
           O == Objects(s, w)
<1>1. \/ /\ op = "GetTablesSeq" /\ Stream[op].list = "GetAllTables"
         /\ Stream[op].chunk = "GetTables"
      \/ /\ op = "GetPartitionsSeq" /\ Stream[op].list = "GetPartitionNames"
         /\ Stream[op].chunk = "GetPartitionsByNames"
  BY StreamOps
<1>2. Meant(q) = w.cat /\ q.db = w.db /\ q.tbl = w.tbl
  BY StreamPlace
<1>3. /\ x.work.op = "GetAllTables" => q.m = "get_all_tables"
      /\ x.work.op = "GetTables" => /\ q.m = "get_table_objects_by_name_req"
                                    /\ q.items = batch(x.work.items, x.i, ChunkSize)
      /\ x.work.op = "GetPartitionNames" =>
           q.m = "get_partition_names" /\ q.n = checkMaxParts(x.work.n).n
      /\ x.work.op = "GetPartitionsByNames" =>
           /\ q.m \in {"get_partitions_by_names", "get_partitions_by_names_req"}
           /\ q.items = batch(x.work.items, x.i, ChunkSize)
  BY StreamAsks
<1>4. x.work.op \in {Stream[op].list, Stream[op].chunk}
  BY DEF Base, Stage
<1>5. Mid(x, K, E) /\ x.i = 0
  BY DEF Streaming
<1>6. x.work.op = Stream[op].chunk => q.items = x.work.items /\ IsListing(op, x.work.items)
  BY <1>1, <1>3, <1>5, WholeChunk
<1>7. op = "GetTablesSeq" => O = S
  BY StreamObjects, Zenon
<1>8. op = "GetPartitionsSeq" => O = IF k \in s.tbls THEN Range(s.parts[k]) ELSE {}
  BY StreamObjects, Zenon
<1>9. \A u : Fake!Ok(u).err = "ok" /\ Fake!Ok(u).val = u /\ Fake!Err("NotFound").err = "NotFound"
  BY DEF Fake!Ok, Fake!Err
<1>10. \A u : Fake!Answers(s, u).store = s /\ Fake!Answers(s, u).reply = u
  BY DEF Fake!Answers
<1>11. CASE Refused(x.conn.v, x.conn.without, q)
  <2>1. h.store = s /\ r.err \notin {"ok", "NotFound"}
    BY <1>11, StreamReplies, Zenon
  <2>2. QED
    BY <2>1, Zenon DEF Answer
<1> SUFFICES ASSUME ~Refused(x.conn.v, x.conn.without, q) PROVE h.store = s /\ Answer(x, K, E, r)
  BY <1>11, Zenon
<1>12. /\ q.m = "get_all_tables" =>
            h = Fake!Answers(s, Fake!Ok(Fake!Sorted(TablesIn(s, Meant(q), q.db))))
       /\ q.m = "get_table_objects_by_name_req" =>
            h = Fake!GetTableObjectsByNameReq(s, <<Meant(q), q.db>>, q.items)
       /\ q.m = "get_partition_names" =>
            h = Fake!GetPartitionNames(s, <<Meant(q), q.db, q.tbl>>, q.n)
       /\ q.m \in {"get_partitions_by_names", "get_partitions_by_names_req"} =>
            h = Fake!GetPartitionsByNames(s, <<Meant(q), q.db, q.tbl>>, q.items)
  BY StreamReplies
<1> HIDE DEF h, q
<1>13. CASE op = "GetTablesSeq" /\ x.work.op = Stream[op].list
  <2>1. q.m = "get_all_tables" /\ x.work.op # Stream[op].chunk
    BY <1>1, <1>3, <1>13
  <2>2. h = Fake!Answers(s, Fake!Ok(Fake!Sorted(S)))
    BY <1>2, <1>12, <2>1
  <2>3. h.store = s /\ r.err = "ok" /\ r.val = Fake!Sorted(S)
    BY <1>9, <1>10, <2>2, Zenon
  <2>4. IsListing(op, r.val) /\ K \subseteq Objs(op, r.val, Len(r.val))
    BY <1>7, <1>13, <2>3, TablesAnswered
  <2> HIDE DEF h, op
  <2>5. QED
    BY <2>1, <2>3, <2>4 DEF Answer, op
<1>14. CASE op = "GetTablesSeq" /\ x.work.op = Stream[op].chunk
  <2> DEFINE items == x.work.items
             I == {n \in DOMAIN items : <<w.cat, w.db, items[n]>> \in s.tbls}
             d == <<w.cat, w.db>>
  <2>1. q.m = "get_table_objects_by_name_req" /\ x.work.op # Stream[op].list
    BY <1>1, <1>3, <1>14
  <2>2. h = Fake!GetTableObjectsByNameReq(s, d, items)
    BY <1>2, <1>6, <1>14, <1>12, <2>1
  <2>3. d[1] = w.cat /\ d[2] = w.db
    OBVIOUS
  <2>4. h = Fake!Answers(s, Fake!Ok(Taken(items, I)))
    <3> HIDE DEF d
    <3> QED BY <2>2, <2>3, FakeTaken, Zenon DEF Fake!GetTableObjectsByNameReq
  <2>5. h.store = s /\ r.err = "ok" /\ r.val = Taken(items, I)
    BY <1>9, <1>10, <2>4, Zenon
  <2>6. \A n : n \in S <=> <<w.cat, w.db, n>> \in s.tbls
    BY TablesOf, Zenon
  <2>7. \A n \in DOMAIN items : n \in I <=> items[n] \in S
    BY <2>6
  <2>8. IsListing("GetTablesSeq", items) /\ K \subseteq S /\ S \subseteq E
    BY <1>6, <1>7, <1>14
  <2> HIDE DEF I, S, items
  <2>9. ChunkOf("GetTablesSeq", items, Taken(items, I), K, E)
    BY <2>7, <2>8, TablesFetched, Zenon
  <2> HIDE DEF h
  <2>10. QED
    BY <1>14, <2>1, <2>5, <2>9 DEF Answer, items
<1>15. CASE op = "GetPartitionsSeq" /\ x.work.op = Stream[op].list
  <2> DEFINE ps == s.parts[k]
             v == [n \in DOMAIN ps |-> partitionName(ps[n])]
  <2>1. q.m = "get_partition_names" /\ x.work.op # Stream[op].chunk
    BY <1>1, <1>3, <1>15
  <2>2. q.n = -1
    BY <1>1, <1>3, <1>5, <1>15 DEF Mid, checkMaxParts
  <2>3. h = Fake!GetPartitionNames(s, k, q.n)
    BY <1>2, <1>12, <2>1
  <2>4. Fake!truncateParts(ps, q.n) = ps
    BY <2>2 DEF Fake!truncateParts
  <2>5. \A p : Fake!partitionName(p) = partitionName(p)
    BY Zenon DEF Fake!partitionName, partitionName
  <2> HIDE DEF k
  <2>6. h = Fake!Answers(s, IF k \in s.tbls THEN Fake!Ok(v) ELSE Fake!Err("NotFound"))
    BY <2>3, <2>4, <2>5 DEF Fake!GetPartitionNames
  <2>7. IsSeq(ps) /\ IsInjective(ps)
    BY <1>15, Zenon DEF Slices, k
  <2>8. IsListing(op, v) /\ Range(ps) = Objs(op, v, Len(v))
    BY <1>15, <2>7, PartitionsListed
  <2> HIDE DEF v
  <2>9. CASE k \in s.tbls
    <3>1. h.store = s /\ r.err = "ok" /\ r.val = v
      BY <1>9, <1>10, <2>6, <2>9, ZenonT(30)
    <3>2. K \subseteq Range(ps)
      BY <1>8, <1>15, <2>9 DEF k
    <3> HIDE DEF h, ps
    <3>3. QED
      BY <2>1, <2>8, <3>1, <3>2 DEF Answer
  <2>10. CASE k \notin s.tbls
    <3>1. h.store = s /\ r.err = "NotFound"
      BY <1>9, <1>10, <2>6, <2>10, Zenon
    <3>2. K = {}
      BY <1>8, <1>15, <2>10 DEF k
    <3> HIDE DEF h, ps
    <3>3. QED
      BY <3>1, <3>2 DEF Answer
  <2>11. QED
    BY <2>9, <2>10, Zenon
<1>16. CASE op = "GetPartitionsSeq" /\ x.work.op = Stream[op].chunk
  <2> DEFINE items == x.work.items
             ps == s.parts[k]
             I == {n \in DOMAIN ps : partitionName(ps[n]) \in Range(items)}
  <2>1. /\ q.m \in {"get_partitions_by_names", "get_partitions_by_names_req"}
        /\ x.work.op # Stream[op].list
    BY <1>1, <1>3, <1>16
  <2>2. h = Fake!GetPartitionsByNames(s, k, items)
    BY <1>2, <1>6, <1>16, <1>12, <2>1
  <2>3. \A p : Fake!partitionName(p) = partitionName(p) /\ Fake!Range(items) = Range(items)
    BY Zenon DEF Fake!partitionName, partitionName, Fake!Range, Range
  <2> HIDE DEF k
  <2>4. Fake!partitionsMatchingNames(ps, items) = Taken(ps, I)
    BY <2>3, FakeTaken DEF Fake!partitionsMatchingNames
  <2>5. h = Fake!Answers(s, IF k \in s.tbls THEN Fake!Ok(Taken(ps, I)) ELSE Fake!Err("NotFound"))
    BY <2>2, <2>4, Zenon DEF Fake!GetPartitionsByNames
  <2>6. IsSeq(ps) /\ IsInjective(ps) /\ IsListing("GetPartitionsSeq", items)
    BY <1>6, <1>16, Zenon DEF Slices, k
  <2>7. \A n \in DOMAIN ps : n \in I <=> partitionName(ps[n]) \in Range(items)
    OBVIOUS
  <2> HIDE DEF I
  <2>8. CASE k \in s.tbls
    <3>1. h.store = s /\ r.err = "ok" /\ r.val = Taken(ps, I)
      BY <1>9, <1>10, <2>5, <2>8, ZenonT(30)
    <3>2. K \subseteq Range(ps) /\ Range(ps) \subseteq E
      BY <1>8, <1>16, <2>8 DEF k
    <3> HIDE DEF h, ps, items
    <3>3. ChunkOf("GetPartitionsSeq", items, Taken(ps, I), K, E)
      BY <2>6, <2>7, <3>2, PartitionsFetched, Zenon
    <3>4. QED
      BY <1>16, <2>1, <3>1, <3>3 DEF Answer, items
  <2>9. CASE k \notin s.tbls
    <3>1. h.store = s /\ r.err = "NotFound"
      BY <1>9, <1>10, <2>5, <2>9, Zenon
    <3>2. K = {}
      BY <1>8, <1>16, <2>9 DEF k
    <3> HIDE DEF h, ps, items
    <3>3. QED
      BY <3>1, <3>2 DEF Answer
  <2>10. QED
    BY <2>8, <2>9, Zenon
<1>17. QED
  BY <1>1, <1>4, <1>13, <1>14, <1>15, <1>16, Zenon

-----------------------------------------------------------------------------
(* Steps.                                                                   *)

AllGood == DOMAIN t = Callers /\ \A c \in Callers : Good(t[c])

\* A step of one goroutine.
LEMMA CallerStep ==
    ASSUME NEW c \in Callers, NEW y, AllGood, t' = [t EXCEPT ![c] = y], Good(y)
    PROVE  AllGood'
<1>1. DOMAIN t' = Callers
  BY DEF AllGood
<1>2. \A d \in Callers : Good(t'[d])
  BY DEF AllGood
<1>3. QED
  BY <1>1, <1>2 DEF AllGood

\* Nothing is done and nothing learnt when the goroutines begin.
LEMMA InitGood == Init => AllGood
<1> SUFFICES ASSUME Init PROVE AllGood
  OBVIOUS
<1>1. DOMAIN t = Callers
  BY DEF Init
<1>2. ConnOK(NoConn) /\ ~NoConn.legacy
  BY DEF ConnOK, NoConn, Version
<1>3. ASSUME NEW c \in Callers PROVE Good(t[c])
  <2>1. /\ Goroutine(t[c]) /\ t[c].pc = "idle" /\ t[c].work = NoCall /\ t[c].applied = <<>>
        /\ t[c].tries = 0 /\ t[c].conn = NoConn
        /\ t[c].call = NoCall /\ t[c].val = <<>> /\ t[c].pos = 0
    BY DEF Init, Goroutine
  <2>2. QED
    BY <1>2, <2>1 DEF Good, Fresh
<1>4. QED
  BY <1>1, <1>3 DEF AllGood

\* The method's early returns and its first do.
LEMMA BeginGood ==
    ASSUME AllGood, NEW c \in Callers, Begin(c)
    PROVE  AllGood'
<1>1. PICK n \in DOMAIN Inputs[c] :
        LET w == Inputs[c][n]
            x == [t[c] EXCEPT !.call = w]
        IN  t' = [t EXCEPT ![c] =
                    IF \/ w.op \in MaxPartsOps /\ checkMaxParts(w.n).err # "ok"
                       \/ w.op = "GetTableColumnStatistics" /\ w.name = ""
                    THEN Return(x, "InvalidOperation", <<>>)
                    ELSE IF w.op = "GetTableColumnStatistics" /\ w.items = <<>>
                    THEN Return(x, "ok", <<>>)
                    ELSE StartDo(x, FirstWork(w))]
  BY Zenon DEF Begin, FirstWork
<1> DEFINE w == Inputs[c][n]
           x == [t[c] EXCEPT !.call = w]
<1>2. Good(t[c]) /\ t[c].pc = "idle" /\ IsCall(w)
  BY CallersAssumption, Zenon DEF Begin, AllGood
<1> HIDE DEF w
<1>3. Good(StartDo(x, FirstWork(w))) /\ \A e, v : Good(Return(x, e, v))
  BY <1>2, BeginStep, Zenon
<1>4. PICK y : t' = [t EXCEPT ![c] = y] /\ Good(y)
  BY <1>1, <1>3, Zenon DEF w
<1>5. QED
  BY <1>4, CallerStep, Zenon

\* What a connection brings with it is true of its server.
LEMMA AcquireGood ==
    ASSUME AllGood, NEW c \in Callers, Acquire(c)
    PROVE  AllGood'
<1>1. PICK s \in Servers[c], legacy \in BOOLEAN, without \in {{}, {"getVersion"}} :
        /\ legacy => Doing(t[c]).legacy # Nil /\ Doing(t[c]).rpc \in removedRPCs(s[1])
        /\ t' = [t EXCEPT ![c] = Start(t[c],
                   [v |-> s[1], without |-> without, legacy |-> legacy, dirty |-> FALSE,
                    catalogs |-> IF ~s[2] THEN "unknown"
                                 ELSE IF s[1] = "2.3" THEN "no" ELSE "yes"])]
  BY Zenon DEF Acquire
<1>2. Good(t[c]) /\ t[c].pc = "acquire"
  BY DEF AllGood, Acquire
<1>3. s[1] \in Version /\ without \subseteq {"getVersion"}
  BY CallersAssumption DEF Version
<1>4. Good(Start(t[c], [v |-> s[1], without |-> without, legacy |-> legacy, dirty |-> FALSE,
                        catalogs |-> IF ~s[2] THEN "unknown"
                                     ELSE IF s[1] = "2.3" THEN "no" ELSE "yes"]))
  BY <1>1, <1>2, <1>3, AcquireStep, Zenon
<1>5. QED
  BY <1>1, <1>4, CallerStep, Zenon

\* An attempt that gets no connection counts.
LEMMA DialFailsGood ==
    ASSUME AllGood, NEW c \in Callers, DialFails(c)
    PROVE  AllGood'
<1> DEFINE x == t[c]
           y == [x EXCEPT !.tries = @ + 1]
<1>1. PICK picked \in BOOLEAN :
        t' = [t EXCEPT ![c] = IF ~picked \/ x.ctxDone \/ x.tries + 1 = MaxRetries
                              THEN DoReturns(x, "Unavailable", <<>>) ELSE y]
  BY Zenon DEF DialFails
<1>2. /\ Good(DoReturns(x, "Unavailable", <<>>))
      /\ x.tries + 1 # MaxRetries => Good(y)
  BY DialStep, Zenon DEF AllGood, DialFails
<1> HIDE DEF x, y
<1>3. Good(IF ~picked \/ x.ctxDone \/ x.tries + 1 = MaxRetries
           THEN DoReturns(x, "Unavailable", <<>>) ELSE y)
  BY <1>2
<1>4. QED
  BY <1>1, <1>3, CallerStep, Zenon

\* c is waiting for a reply.
LEMMA InRpcGood ==
    ASSUME AllGood, NEW c \in Callers, InRpc(c)
    PROVE  Good(t[c]) /\ t[c].pc \in {"probe", "root", "rpc", "followup"}
  BY Zenon DEF AllGood, InRpc

\* The reply is read.
LEMMA RepliesGood ==
    ASSUME AllGood, NEW c \in Callers, Replies(c)
    PROVE  AllGood'
<1> DEFINE r == Served(c).reply
<1>1. Good(t[c]) /\ t[c].pc \in {"probe", "root", "rpc", "followup"}
  BY InRpcGood, Zenon DEF Replies
<1>2. Base(t[c])
  BY <1>1 DEF Good, Fresh
<1>3. Says(t[c], r)
  BY <1>2, ServedSays, Zenon DEF Served
<1>4. t' = [t EXCEPT ![c] = onReply(Handled(t[c], r), r)]
  BY Zenon DEF Replies
<1> HIDE DEF r
<1>5. Good(onReply(Handled(t[c], r), r))
  BY <1>1, <1>3, ReplyStep, Zenon
<1>6. QED
  BY <1>4, <1>5, CallerStep, Zenon

\* The reply is lost.
LEMMA LosesGood ==
    ASSUME AllGood, NEW c \in Callers, Loses(c)
    PROVE  AllGood'
<1> DEFINE e == Err("Unavailable")
           Dirty(h, u) == [Handled(t[c], h.reply) EXCEPT
                             !.conn.dirty = Handled(t[c], h.reply).conn.dirty \/ u]
<1>1. \E h, u : t' = [t EXCEPT ![c] = onReply(Dirty(h, u), e)]
  BY Zenon DEF Loses
<1>2. Good(t[c]) /\ t[c].pc \in {"probe", "root", "rpc", "followup"}
  BY InRpcGood, Zenon DEF Loses
<1>3. e.err \in {"Unavailable", "Protocol"}
  BY DEF Err
<1> HIDE DEF e
<1>4. \A h, u : Good(onReply(Dirty(h, u), e))
  BY <1>2, <1>3, LostStep, Zenon
<1>5. QED
  BY <1>1, <1>4, CallerStep, Zenon

\* The reply does not decode.
LEMMA GarblesGood ==
    ASSUME AllGood, NEW c \in Callers, Garbles(c)
    PROVE  AllGood'
<1> DEFINE e == Err("Protocol")
           y == [Handled(t[c], Served(c).reply) EXCEPT !.conn.dirty = TRUE]
<1>1. t' = [t EXCEPT ![c] = onReply(y, e)]
  BY Zenon DEF Garbles
<1>2. Good(t[c]) /\ t[c].pc \in {"probe", "root", "rpc", "followup"}
  BY InRpcGood, Zenon DEF Garbles
<1>3. e.err \in {"Unavailable", "Protocol"}
  BY DEF Err
<1> HIDE DEF e
<1>4. Good(onReply(y, e))
  BY <1>2, <1>3, LostStep, Zenon
<1>5. QED
  BY <1>1, <1>4, CallerStep, Zenon

\* The follow-up reads the reply that was lost before it.
LEMMA FollowUpDesyncGood ==
    ASSUME AllGood, NEW c \in Callers, FollowUpDesync(c)
    PROVE  AllGood'
<1> DEFINE e == Err("Unavailable")
<1>1. t' = [t EXCEPT ![c] = onReply(t[c], e)]
  BY Zenon DEF FollowUpDesync
<1>2. Good(t[c]) /\ t[c].pc = "followup"
  BY Zenon DEF AllGood, FollowUpDesync
<1>3. e.err = "Unavailable"
  BY DEF Err
<1> HIDE DEF e
<1>4. QED
  BY <1>1, <1>2, <1>3, DesyncStep, CallerStep, Zenon

\* The context ends.
LEMMA CancelGood ==
    ASSUME AllGood, NEW c \in Callers, Cancel(c)
    PROVE  AllGood'
<1>1. t' = [t EXCEPT ![c] = [t[c] EXCEPT !.ctxDone = TRUE]]
  BY DEF Cancel
<1>2. Good(t[c]) /\ t[c].pc \notin {"idle", "done"}
  BY Zenon DEF AllGood, Cancel, Active
<1>3. QED
  BY <1>1, <1>2, CancelStep, CallerStep, Zenon

\* A stream asks for its next chunk or ends.
LEMMA ChunkGood ==
    ASSUME AllGood, NEW c \in Callers, Chunk(c)
    PROVE  AllGood'
<1> DEFINE x == t[c]
           y == StartDo([x EXCEPT !.pos = @ + ChunkSize],
                        [x.call EXCEPT !.op = Stream[@].chunk,
                                       !.items = batch(x.names, x.pos, ChunkSize)])
<1>1. t' = [t EXCEPT ![c] = IF x.pos >= Len(x.names) THEN Return(x, "ok", x.val)
                            ELSE IF x.ctxDone THEN Return(x, "Unavailable", x.val)
                            ELSE y]
  BY Zenon DEF Chunk
<1>2. Good(y) /\ \A e : Good(Return(x, e, x.val))
  BY ChunkStep, Zenon DEF AllGood, Chunk
<1> HIDE DEF x, y
<1>3. PICK z : t' = [t EXCEPT ![c] = z] /\ Good(z)
  BY <1>1, <1>2, Zenon
<1>4. QED
  BY <1>3, CallerStep, Zenon

\* A stream yields an object or has come to the end of its chunk.
LEMMA YieldGood ==
    ASSUME AllGood, NEW c \in Callers, Yield(c)
    PROVE  AllGood'
<1> DEFINE x == t[c]
           y == [x EXCEPT !.pc = "chunk"]
           z == [x EXCEPT !.val = Append(@, Head(x.buf)), !.buf = Tail(@)]
<1>1. t' = [t EXCEPT ![c] = IF x.buf = <<>> THEN y ELSE z]
  BY Zenon DEF Yield
<1>2. Good(y) /\ Good(z)
  BY YieldStep, Zenon DEF AllGood, Yield
<1> HIDE DEF x, y, z
<1>3. PICK u : t' = [t EXCEPT ![c] = u] /\ Good(u)
  BY <1>1, <1>2, Zenon
<1>4. QED
  BY <1>3, CallerStep, Zenon

\* The consumer stops.
LEMMA BreakGood ==
    ASSUME AllGood, NEW c \in Callers, Break(c)
    PROVE  AllGood'
<1>1. t' = [t EXCEPT ![c] = Return(t[c], "stopped", Append(t[c].val, Head(t[c].buf)))]
  BY Zenon DEF Break
<1>2. Good(t[c]) /\ t[c].pc = "yield"
  BY Zenon DEF AllGood, Break
<1>3. QED
  BY <1>1, <1>2, YieldStep, CallerStep, Zenon

\* Every goroutine is Good, always.
LEMMA GoodInvariant == Spec => []AllGood
<1>1. AllGood /\ [Next]_vars => AllGood'
  <2> SUFFICES ASSUME AllGood, [Next]_vars PROVE AllGood'
    OBVIOUS
  <2>1. ASSUME NEW c \in Callers,
               \/ Begin(c) \/ Acquire(c) \/ DialFails(c)
               \/ Replies(c) \/ Loses(c) \/ FollowUpDesync(c) \/ Garbles(c) \/ Cancel(c)
               \/ Chunk(c) \/ Yield(c) \/ Break(c)
        PROVE  AllGood'
    BY <2>1, BeginGood, AcquireGood, DialFailsGood, RepliesGood, LosesGood,
       FollowUpDesyncGood, GarblesGood, CancelGood, ChunkGood, YieldGood, BreakGood, Zenon
  <2>2. CASE UNCHANGED vars
    BY <2>2 DEF vars, AllGood
  <2>3. QED
    BY <2>1, <2>2, Zenon DEF Next
<1>2. QED
  BY <1>1, InitGood, PTL DEF Spec

-----------------------------------------------------------------------------
(* Streams.                                                                 *)

\* The methods that drop partitions by name.
ByName == {"DropPartitionsByNames", "DropPartitions"}

\* Nobody has dropped partitions by name.
Undropped == \A c \in Callers : t[c].call.op \notin ByName

\* Every key that a call may name is in the store.
Keyed(s) ==
    \A c \in Callers : \A n \in DOMAIN Inputs[c] :
        <<Inputs[c][n].cat, Inputs[c][n].db, Inputs[c][n].tbl>> \in DOMAIN s.parts

\* The inductive invariant of StreamExact.
AllStreaming ==
    /\ AllGood /\ DOMAIN kept = Callers /\ DOMAIN ever = Callers
    /\ StoreOK(store) /\ Keyed(store) /\ (Undropped => Slices(store))
    /\ \A c \in Callers :
         /\ t[c].call = NoCall \/ \E n \in DOMAIN Inputs[c] : t[c].call = Inputs[c][n]
         /\ Streaming(t[c], kept[c], ever[c])

\* No stream has begun when the goroutines begin.
LEMMA InitStreaming == Init => AllStreaming
<1> SUFFICES ASSUME Init PROVE AllStreaming
  OBVIOUS
<1>1. AllGood /\ DOMAIN kept = Callers /\ DOMAIN ever = Callers
  BY InitGood DEF Init
<1>2. store \in InitialStores
  BY DEF Init
<1>3. StoreOK(store) /\ Keyed(store) /\ Slices(store)
  BY <1>2, StoresAssumption, Zenon DEF StoreOK, Keyed, Slices, IsSeq
<1>4. ASSUME NEW c \in Callers PROVE t[c].call = NoCall
  BY DEF Init
<1>5. NoCall.op \notin DOMAIN Stream
  BY StreamOps, MethodFacts DEF NoCall
<1>6. ASSUME NEW c \in Callers PROVE Streaming(t[c], kept[c], ever[c])
  BY <1>4, <1>5, Zenon DEF Streaming
<1>7. QED
  BY <1>1, <1>3, <1>4, <1>6, Zenon DEF AllStreaming

\* A step of one goroutine in its call, and what the others see of it.
LEMMA CallStep ==
    ASSUME AllStreaming, NEW c \in Callers, NEW y, t' = [t EXCEPT ![c] = y], Good(y),
           Kept(t[c], y), Streaming(y, kept'[c], ever'[c]),
           StoreOK(store'), DOMAIN store'.parts = DOMAIN store.parts,
           Undropped => Slices(store'),
           UNCHANGED <<kept, ever>> \/ Observe(store')
    PROVE  AllStreaming'
<1>1. AllGood'
  BY CallerStep, Zenon DEF AllStreaming
<1>2. DOMAIN t = Callers /\ DOMAIN kept = Callers /\ DOMAIN ever = Callers
  BY DEF AllStreaming, AllGood
<1>3. /\ t'[c] = y /\ \A d \in Callers \ {c} : t'[d] = t[d]
      /\ \A d \in Callers : t'[d].call = t[d].call
  <2>1. t'[c] = y /\ \A d \in Callers \ {c} : t'[d] = t[d]
    BY <1>2
  <2>2. y.call = t[c].call
    BY Zenon DEF Kept
  <2>3. QED
    BY <2>1, <2>2
<1>4. DOMAIN kept' = Callers /\ DOMAIN ever' = Callers
  BY <1>2 DEF Observe
<1>5. Keyed(store')
  BY Zenon DEF Keyed, AllStreaming
<1>6. Undropped' => Slices(store')
  BY <1>3, Zenon DEF Undropped
<1>7. ASSUME NEW d \in Callers
      PROVE  t'[d].call = NoCall \/ \E n \in DOMAIN Inputs[d] : t'[d].call = Inputs[d][n]
  BY <1>3, Zenon DEF AllStreaming
<1>8. ASSUME NEW d \in Callers, d # c PROVE Streaming(t'[d], kept'[d], ever'[d])
  <2>1. t'[d] = t[d] /\ Streaming(t[d], kept[d], ever[d])
    BY <1>3, <1>8, Zenon DEF AllStreaming
  <2>2. \/ kept'[d] = kept[d] /\ ever'[d] = ever[d]
        \/ \E O : kept'[d] = kept[d] \cap O /\ ever'[d] = ever[d] \cup O
    <3>1. CASE UNCHANGED <<kept, ever>>
      BY <3>1
    <3>2. CASE Observe(store')
      <4> DEFINE O == Objects(store', t[d].call)
      <4>1. kept'[d] = IF Active(d) THEN kept[d] \cap O ELSE kept[d]
        BY <3>2, Zenon DEF Observe
      <4>2. ever'[d] = IF Active(d) THEN ever[d] \cup O ELSE ever[d]
        BY <3>2, Zenon DEF Observe
      <4> HIDE DEF O
      <4>3. QED
        BY <4>1, <4>2, Zenon
    <3>3. QED
      BY <3>1, <3>2
  <2>3. CASE kept'[d] = kept[d] /\ ever'[d] = ever[d]
    BY <2>1, <2>3
  <2>4. ASSUME NEW O, kept'[d] = kept[d] \cap O, ever'[d] = ever[d] \cup O
        PROVE  Streaming(t'[d], kept'[d], ever'[d])
    <3>1. Streaming(t[d], kept[d] \cap O, ever[d] \cup O)
      BY <2>1, StreamingObserved, Zenon
    <3>2. QED
      BY <2>1, <2>4, <3>1
  <2>5. QED
    BY <2>2, <2>3, <2>4, Zenon
<1>9. ASSUME NEW d \in Callers PROVE Streaming(t'[d], kept'[d], ever'[d])
  BY <1>3, <1>8, Zenon
<1>10. QED
  BY <1>1, <1>4, <1>5, <1>6, <1>7, <1>9, Zenon DEF AllStreaming, StoreOK, Slices, Keyed

\* A step that neither server nor store sees.
LEMMA QuietStep ==
    ASSUME AllStreaming, NEW c \in Callers, NEW y, t' = [t EXCEPT ![c] = y], Good(y),
           Kept(t[c], y), Streaming(y, kept[c], ever[c]), UNCHANGED <<store, kept, ever>>
    PROVE  AllStreaming'
<1>1. store' = store /\ kept' = kept /\ ever' = ever
  OBVIOUS
<1>2. StoreOK(store) /\ (Undropped => Slices(store))
  BY Zenon DEF AllStreaming
<1>3. QED
  BY <1>1, <1>2, CallStep, Zenon

\* The call begins.
LEMMA BeginStreaming ==
    ASSUME AllStreaming, NEW c \in Callers, Begin(c)
    PROVE  AllStreaming'
<1>1. PICK n \in DOMAIN Inputs[c] :
        LET w == Inputs[c][n]
            x == [t[c] EXCEPT !.call = w]
        IN  /\ t' = [t EXCEPT ![c] =
                    IF \/ w.op \in MaxPartsOps /\ checkMaxParts(w.n).err # "ok"
                       \/ w.op = "GetTableColumnStatistics" /\ w.name = ""
                    THEN Return(x, "InvalidOperation", <<>>)
                    ELSE IF w.op = "GetTableColumnStatistics" /\ w.items = <<>>
                    THEN Return(x, "ok", <<>>)
                    ELSE StartDo(x, FirstWork(w))]
            /\ kept' = [kept EXCEPT ![c] = Objects(store, w)]
            /\ ever' = [ever EXCEPT ![c] = Objects(store, w)]
  BY Zenon DEF Begin, FirstWork
<1> DEFINE w == Inputs[c][n]
           x == [t[c] EXCEPT !.call = w]
           O == Objects(store, w)
           refused == \/ w.op \in MaxPartsOps /\ checkMaxParts(w.n).err # "ok"
                      \/ w.op = "GetTableColumnStatistics" /\ w.name = ""
           empty == w.op = "GetTableColumnStatistics" /\ w.items = <<>>
           y == IF refused THEN Return(x, "InvalidOperation", <<>>)
                ELSE IF empty THEN Return(x, "ok", <<>>) ELSE StartDo(x, FirstWork(w))
<1>2. Good(t[c]) /\ t[c].pc = "idle" /\ IsCall(w)
  BY CallersAssumption, Zenon DEF Begin, AllGood, AllStreaming
<1>3. /\ store' = store /\ AllGood'
      /\ DOMAIN t = Callers /\ DOMAIN kept = Callers /\ DOMAIN ever = Callers
  BY BeginGood, Zenon DEF Begin, AllGood, AllStreaming
<1>4. t[c].call = NoCall
  BY <1>2 DEF Good, Fresh, At
<1>5. w.op \in DOMAIN Stream => ~refused /\ ~empty
  <2>1. w.op \in DOMAIN Stream => w.op \notin MaxPartsOps /\ w.op # "GetTableColumnStatistics"
    BY StreamOps DEF MaxPartsOps
  <2>2. QED
    BY <2>1, Zenon
<1>6. t' = [t EXCEPT ![c] = y]
  BY <1>1, Zenon
<1> HIDE DEF w, O, refused, empty
<1>7. /\ Streaming(StartDo(x, FirstWork(w)), O, O)
      /\ w.op \notin DOMAIN Stream => \A e, v : Streaming(Return(x, e, v), O, O)
      /\ StartDo(x, FirstWork(w)).call = w /\ \A e, v : Return(x, e, v).call = w
  BY <1>2, BeginStreams, Zenon
<1>8. Streaming(y, O, O) /\ y.call = w
  <2> HIDE DEF x
  <2>1. QED
    BY <1>5, <1>7, Zenon
<1> HIDE DEF x, y
<1>9. /\ t'[c] = y /\ kept'[c] = O /\ ever'[c] = O
      /\ \A d \in Callers \ {c} : t'[d] = t[d] /\ kept'[d] = kept[d] /\ ever'[d] = ever[d]
      /\ DOMAIN kept' = Callers /\ DOMAIN ever' = Callers
  BY <1>1, <1>3, <1>6, Zenon DEF O, w
<1>10. Undropped' => Undropped
  <2>1. NoCall.op \notin ByName
    BY DEF NoCall, ByName
  <2>2. QED
    BY <1>4, <1>9, <2>1, Zenon DEF Undropped
<1>11. ASSUME NEW d \in Callers
       PROVE  /\ t'[d].call = NoCall \/ \E m \in DOMAIN Inputs[d] : t'[d].call = Inputs[d][m]
              /\ Streaming(t'[d], kept'[d], ever'[d])
  <2>1. CASE d = c
    BY <1>8, <1>9, <2>1, Zenon DEF w
  <2>2. CASE d # c
    BY <1>9, <2>2, Zenon DEF AllStreaming
  <2>3. QED
    BY <2>1, <2>2
<1>12. StoreOK(store) /\ Keyed(store) /\ (Undropped => Slices(store))
  BY Zenon DEF AllStreaming
<1>13. QED
  BY <1>3, <1>9, <1>10, <1>11, <1>12, Zenon DEF AllStreaming, StoreOK, Slices, Keyed

\* It gets a connection.
LEMMA AcquireStreaming ==
    ASSUME AllStreaming, NEW c \in Callers, Acquire(c)
    PROVE  AllStreaming'
<1>1. PICK s \in Servers[c], legacy \in BOOLEAN, without \in {{}, {"getVersion"}} :
        /\ legacy => Doing(t[c]).legacy # Nil /\ Doing(t[c]).rpc \in removedRPCs(s[1])
        /\ t' = [t EXCEPT ![c] = Start(t[c],
                   [v |-> s[1], without |-> without, legacy |-> legacy, dirty |-> FALSE,
                    catalogs |-> IF ~s[2] THEN "unknown"
                                 ELSE IF s[1] = "2.3" THEN "no" ELSE "yes"])]
  BY Zenon DEF Acquire
<1> DEFINE y == Start(t[c], [v |-> s[1], without |-> without, legacy |-> legacy, dirty |-> FALSE,
                             catalogs |-> IF ~s[2] THEN "unknown"
                                          ELSE IF s[1] = "2.3" THEN "no" ELSE "yes"])
<1>2. Good(t[c]) /\ t[c].pc = "acquire" /\ Streaming(t[c], kept[c], ever[c])
  BY Zenon DEF AllGood, Acquire, AllStreaming
<1>3. s[1] \in Version /\ without \subseteq {"getVersion"}
  BY CallersAssumption DEF Version
<1>4. Good(y)
  BY <1>1, <1>2, <1>3, AcquireStep, Zenon
<1>5. Streaming(y, kept[c], ever[c]) /\ Kept(t[c], y)
  BY <1>1, <1>2, <1>3, AcquireStreams, Zenon
<1>6. t' = [t EXCEPT ![c] = y] /\ UNCHANGED <<store, kept, ever>>
  BY <1>1, Zenon DEF Acquire
<1> HIDE DEF y
<1>7. QED
  BY <1>4, <1>5, <1>6, QuietStep, Zenon

\* It gets none.
LEMMA DialFailsStreaming ==
    ASSUME AllStreaming, NEW c \in Callers, DialFails(c)
    PROVE  AllStreaming'
<1> DEFINE x == t[c]
           u == DoReturns(x, "Unavailable", <<>>)
           z == [x EXCEPT !.tries = @ + 1]
<1>1. PICK picked \in BOOLEAN :
        t' = [t EXCEPT ![c] = IF ~picked \/ x.ctxDone \/ x.tries + 1 = MaxRetries THEN u ELSE z]
  BY Zenon DEF DialFails
<1>2. Good(x) /\ x.pc = "acquire" /\ Streaming(x, kept[c], ever[c])
  BY Zenon DEF AllGood, DialFails, AllStreaming
<1>3. Good(u) /\ (x.tries + 1 # MaxRetries => Good(z))
  BY <1>2, DialStep, Zenon
<1>4. /\ Streaming(u, kept[c], ever[c]) /\ Kept(x, u)
      /\ Streaming(z, kept[c], ever[c]) /\ Kept(x, z)
  BY <1>2, DialStreams, Zenon
<1> HIDE DEF x, u, z
<1>5. PICK y : t' = [t EXCEPT ![c] = y] /\ Good(y) /\ Streaming(y, kept[c], ever[c]) /\ Kept(x, y)
  BY <1>1, <1>3, <1>4, Zenon
<1>6. UNCHANGED <<store, kept, ever>>
  BY Zenon DEF DialFails
<1>7. QED
  BY <1>5, <1>6, QuietStep, Zenon DEF x

\* Its context ends, or the follow-up reads a lost reply.
LEMMA CancelStreaming ==
    ASSUME AllStreaming, NEW c \in Callers, Cancel(c) \/ FollowUpDesync(c)
    PROVE  AllStreaming'
<1>1. Good(t[c]) /\ Streaming(t[c], kept[c], ever[c])
  BY Zenon DEF AllGood, AllStreaming
<1>2. CASE Cancel(c)
  <2> DEFINE y == [t[c] EXCEPT !.ctxDone = TRUE]
  <2>1. t' = [t EXCEPT ![c] = y] /\ UNCHANGED <<store, kept, ever>>
    BY <1>2 DEF Cancel
  <2>2. Good(y)
    BY <1>1, <1>2, CancelStep, Zenon DEF Cancel, Active
  <2>3. Streaming(y, kept[c], ever[c]) /\ Kept(t[c], y)
    BY <1>1, CancelStreams, Zenon
  <2> HIDE DEF y
  <2>4. QED
    BY <2>1, <2>2, <2>3, QuietStep, Zenon
<1>3. CASE FollowUpDesync(c)
  <2> DEFINE e == Err("Unavailable")
             y == onReply(t[c], e)
  <2>1. t' = [t EXCEPT ![c] = y] /\ UNCHANGED <<store, kept, ever>> /\ t[c].pc = "followup"
    BY <1>3, Zenon DEF FollowUpDesync
  <2>2. e.err = "Unavailable"
    BY DEF Err
  <2> HIDE DEF e
  <2>3. Good(y) /\ Streaming(y, kept[c], ever[c]) /\ Kept(t[c], y)
    BY <1>1, <2>1, <2>2, DesyncStep, DesyncStreams, Zenon
  <2> HIDE DEF y
  <2>4. QED
    BY <2>1, <2>3, QuietStep, Zenon
<1>4. QED
  BY <1>2, <1>3

\* What serving c's request keeps of the store.
LEMMA ServedStore ==
    ASSUME AllStreaming, NEW c \in Callers, InRpc(c)
    PROVE  LET h == Served(c).store IN
           /\ StoreOK(h) /\ DOMAIN h.parts = DOMAIN store.parts
           /\ Undropped => Slices(h)
<1> DEFINE x == t[c]
           q == request(x)
           h == Served(c).store
<1>1. Good(x) /\ x.pc \in {"probe", "root", "rpc", "followup"} /\ StoreOK(store)
      /\ (Undropped => Slices(store))
  BY InRpcGood, Zenon DEF AllStreaming
<1>2. Base(x) /\ At(x)
  BY <1>1 DEF Good, Fresh
<1>3. q.m \in Rpcs /\ (q.m = "drop_partitions_req" => x.work.op = "DropPartitionsByNames")
  BY <1>1, <1>2, RequestSent, Zenon
<1>4. q.m = "add_partitions_req" => IsSeq(q.items)
  BY <1>1, <1>2, AddsSequence, Zenon
<1>5. x.work.op = "DropPartitionsByNames" => x.call.op \in ByName
  BY <1>2, StreamOps, MethodFacts DEF Base, Stage, IsCall, ByName
<1>6. Undropped => q.m # "drop_partitions_req"
  BY <1>3, <1>5, Zenon DEF Undropped
<1> HIDE DEF x, q
<1>7. /\ StoreOK(h) /\ DOMAIN h.parts = DOMAIN store.parts
      /\ q.m # "drop_partitions_req" /\ Slices(store) => Slices(h)
  BY <1>1, <1>3, <1>4, HandleStore DEF Served, x, q
<1>8. QED
  BY <1>1, <1>6, <1>7, Zenon

\* What c has seen when its request has left the store s.
LEMMA Seen ==
    ASSUME AllStreaming, NEW c \in Callers, InRpc(c), NEW s, Observe(s)
    PROVE  LET O == Objects(s, t[c].call) IN
           /\ kept'[c] = kept[c] \cap O /\ ever'[c] = ever[c] \cup O
           /\ Streaming(t[c], kept[c] \cap O, ever[c] \cup O)
<1> DEFINE O == Objects(s, t[c].call)
<1>1. Active(c)
  BY DEF InRpc, Active
<1>2. kept'[c] = kept[c] \cap O
  BY <1>1, Zenon DEF Observe
<1>3. ever'[c] = ever[c] \cup O
  BY <1>1, Zenon DEF Observe
<1> HIDE DEF O
<1>4. Streaming(t[c], kept[c] \cap O, ever[c] \cup O)
  BY StreamingObserved, Zenon DEF AllStreaming
<1>5. QED
  BY <1>2, <1>3, <1>4 DEF O

\* The reply is lost, or does not decode.
LEMMA LosesStreaming ==
    ASSUME AllStreaming, NEW c \in Callers, Loses(c) \/ Garbles(c)
    PROVE  AllStreaming'
<1> DEFINE O == Objects(store', t[c].call)
<1>1. \E h, b, r : /\ t' = [t EXCEPT ![c] =
                        onReply([Handled(t[c], h) EXCEPT !.conn.dirty = b], r)]
                   /\ r.err \in {"Unavailable", "Protocol"}
  <2>1. \A e \in {"Unavailable", "Protocol"} : Err(e).err \in {"Unavailable", "Protocol"}
    BY DEF Err
  <2>2. CASE Loses(c)
    <3>1. \E h, u : t' = [t EXCEPT ![c] =
             onReply([Handled(t[c], h.reply) EXCEPT
                        !.conn.dirty = Handled(t[c], h.reply).conn.dirty \/ u], Err("Unavailable"))]
      BY <2>2, Zenon DEF Loses
    <3>2. QED
      BY <2>1, <3>1, Zenon
  <2>3. CASE Garbles(c)
    BY <2>1, <2>3, Zenon DEF Garbles
  <2>4. QED
    BY <2>2, <2>3, Zenon
<1>2. InRpc(c) /\ Observe(store') /\ store' \in {store, Served(c).store}
  <2>1. Fake!Answers(store, Err("Unavailable")).store = store
    BY DEF Fake!Answers
  <2>2. CASE Loses(c)
    BY <2>1, <2>2, Zenon DEF Loses
  <2>3. CASE Garbles(c)
    BY <2>3, Zenon DEF Garbles
  <2>4. QED
    BY <2>2, <2>3
<1>3. Good(t[c]) /\ t[c].pc \in {"probe", "root", "rpc", "followup"}
  BY <1>2, InRpcGood, Zenon DEF AllStreaming
<1>4. /\ kept'[c] = kept[c] \cap O /\ ever'[c] = ever[c] \cup O
      /\ Streaming(t[c], kept[c] \cap O, ever[c] \cup O)
  BY <1>2, Seen, Zenon
<1>5. StoreOK(store') /\ DOMAIN store'.parts = DOMAIN store.parts /\ (Undropped => Slices(store'))
  BY <1>2, ServedStore DEF AllStreaming
<1>6. PICK h, b, r : /\ t' = [t EXCEPT ![c] =
                        onReply([Handled(t[c], h) EXCEPT !.conn.dirty = b], r)]
                     /\ r.err \in {"Unavailable", "Protocol"}
  BY <1>1, Zenon
<1> DEFINE y == onReply([Handled(t[c], h) EXCEPT !.conn.dirty = b], r)
<1> HIDE DEF O
<1>7. Good(y)
  BY <1>3, <1>6, LostStep, Zenon
<1>8. Streaming(y, kept[c] \cap O, ever[c] \cup O) /\ Kept(t[c], y)
  BY <1>3, <1>4, <1>6, LostStreams, Zenon
<1> HIDE DEF y
<1>9. Streaming(y, kept'[c], ever'[c]) /\ t' = [t EXCEPT ![c] = y]
  BY <1>4, <1>6, <1>8 DEF y
<1>10. QED
  BY <1>2, <1>5, <1>7, <1>8, <1>9, CallStep, Zenon

\* A stream of partitions is read from slices with nothing twice.
LEMMA StreamedSlices ==
    ASSUME NoDropsBeside, AllStreaming, NEW c \in Callers, t[c].call.op \in DOMAIN Stream
    PROVE  /\ <<t[c].call.cat, t[c].call.db, t[c].call.tbl>> \in DOMAIN store.parts
           /\ t[c].call.op = "GetPartitionsSeq" => Slices(store)
<1>1. NoCall.op \notin DOMAIN Stream /\ NoCall.op \notin ByName /\ "GetPartitionsSeq" \notin ByName
  BY StreamOps DEF NoCall, ByName
<1>2. PICK n \in DOMAIN Inputs[c] : t[c].call = Inputs[c][n]
  BY <1>1, Zenon DEF AllStreaming
<1>3. <<t[c].call.cat, t[c].call.db, t[c].call.tbl>> \in DOMAIN store.parts
  BY <1>2 DEF AllStreaming, Keyed
<1>4. ASSUME t[c].call.op = "GetPartitionsSeq" PROVE Undropped
  <2> SUFFICES ASSUME NEW d \in Callers, d # c PROVE t[d].call.op \notin ByName
    BY <1>1, <1>4, Zenon DEF Undropped
  <2>1. \A m \in DOMAIN Inputs[d] : Inputs[d][m].op \notin ByName
    BY <1>2, <1>4, Zenon DEF NoDropsBeside, ByName
  <2>2. QED
    BY <1>1, <2>1, Zenon DEF AllStreaming
<1>5. QED
  BY <1>3, <1>4, Zenon DEF AllStreaming

\* The reply is read.
LEMMA RepliesStreaming ==
    ASSUME NoDropsBeside, AllStreaming, NEW c \in Callers, Replies(c)
    PROVE  AllStreaming'
<1> DEFINE x == t[c]
           r == Served(c).reply
           y == onReply(Handled(x, r), r)
           O == Objects(store', x.call)
           K == kept[c] \cap O
           E == ever[c] \cup O
<1>1. InRpc(c) /\ Observe(store') /\ store' = Served(c).store /\ t' = [t EXCEPT ![c] = y]
  BY Zenon DEF Replies
<1>2. Good(x) /\ x.pc \in {"probe", "root", "rpc", "followup"}
  BY <1>1, InRpcGood, Zenon DEF AllStreaming
<1>3. Base(x) /\ At(x)
  BY <1>2 DEF Good, Fresh
<1>4. Says(x, r)
  BY <1>3, ServedSays, Zenon DEF Served
<1>5. kept'[c] = K /\ ever'[c] = E /\ Streaming(x, K, E)
  BY <1>1, Seen, Zenon
<1>6. StoreOK(store') /\ DOMAIN store'.parts = DOMAIN store.parts /\ (Undropped => Slices(store'))
  BY <1>1, ServedStore, Zenon
<1>7. ASSUME x.call.op \in DOMAIN Stream PROVE Answer(x, K, E, r)
  <2>1. CASE x.pc # "rpc"
    BY <2>1, Zenon DEF Answer
  <2>2. CASE x.pc = "rpc"
    <3> DEFINE P == Objects(store, x.call)
               h == Fake!Handle(store, x.conn.v, x.conn.without, request(x))
    <3>1. /\ <<x.call.cat, x.call.db, x.call.tbl>> \in DOMAIN store.parts
          /\ x.call.op = "GetPartitionsSeq" => Slices(store)
      BY <1>7, StreamedSlices, Zenon
    <3>2. StoreOK(store) /\ Streaming(x, kept[c], ever[c])
      BY Zenon DEF AllStreaming
    <3>3. Streaming(x, kept[c] \cap P, ever[c] \cup P) /\ kept[c] \cap P \subseteq P
          /\ P \subseteq ever[c] \cup P
      <4> HIDE DEF P, x
      <4> QED BY <3>2, StreamingObserved, Zenon
    <3>4. h.store = store /\ Answer(x, kept[c] \cap P, ever[c] \cup P, h.reply)
      BY <1>3, <1>7, <2>2, <3>1, <3>2, <3>3, ServedAnswers, Zenon
    <3>5. store' = store /\ r = h.reply
      BY <1>1, <3>4, Zenon DEF Served
    <3>6. K = kept[c] \cap P /\ E = ever[c] \cup P
      BY <3>5
    <3>7. QED
      BY <3>4, <3>5, <3>6, Zenon
  <2>3. QED
    BY <2>1, <2>2
<1> HIDE DEF x, r, K, E
<1>8. Streaming(y, K, E) /\ Kept(x, y)
  BY <1>2, <1>4, <1>5, <1>7, ReplyStreams, Zenon
<1>9. Good(y)
  BY <1>2, <1>4, ReplyStep, Zenon
<1> HIDE DEF y
<1>10. Streaming(y, kept'[c], ever'[c])
  BY <1>5, <1>8
<1>11. QED
  BY <1>1, <1>6, <1>8, <1>9, <1>10, CallStep, Zenon DEF x

\* It asks for the next chunk, or ends.
LEMMA ChunkStreaming ==
    ASSUME AllStreaming, NEW c \in Callers, Chunk(c)
    PROVE  AllStreaming'
<1> DEFINE x == t[c]
           z == StartDo([x EXCEPT !.pos = @ + ChunkSize],
                        [x.call EXCEPT !.op = Stream[@].chunk,
                                       !.items = batch(x.names, x.pos, ChunkSize)])
           K == kept[c]
           E == ever[c]
<1>1. t' = [t EXCEPT ![c] = IF x.pos >= Len(x.names) THEN Return(x, "ok", x.val)
                            ELSE IF x.ctxDone THEN Return(x, "Unavailable", x.val)
                            ELSE z]
  BY Zenon DEF Chunk
<1>2. Good(x) /\ Streaming(x, K, E) /\ x.pc = "chunk" /\ UNCHANGED <<store, kept, ever>>
  BY Zenon DEF AllStreaming, AllGood, Chunk
<1>3. Good(z) /\ \A e : Good(Return(x, e, x.val))
  BY <1>2, ChunkStep, Zenon
<1>4. /\ x.pos >= Len(x.names) => Streaming(Return(x, "ok", x.val), K, E)
      /\ Streaming(Return(x, "Unavailable", x.val), K, E)
      /\ ~(x.pos >= Len(x.names)) => Streaming(z, K, E)
      /\ Kept(x, z) /\ \A e : Kept(x, Return(x, e, x.val))
  BY <1>2, ChunkStreams, Zenon
<1> HIDE DEF x, z, K, E
<1>5. PICK y : t' = [t EXCEPT ![c] = y] /\ Good(y) /\ Streaming(y, K, E) /\ Kept(x, y)
  BY <1>1, <1>3, <1>4, Zenon
<1>6. QED
  BY <1>2, <1>5, QuietStep, Zenon DEF x, K, E

\* It yields, or its consumer stops.
LEMMA YieldStreaming ==
    ASSUME AllStreaming, NEW c \in Callers, Yield(c) \/ Break(c)
    PROVE  AllStreaming'
<1> DEFINE x == t[c]
           u == [x EXCEPT !.pc = "chunk"]
           z == [x EXCEPT !.val = Append(@, Head(x.buf)), !.buf = Tail(@)]
           w == Return(x, "stopped", Append(x.val, Head(x.buf)))
           K == kept[c]
           E == ever[c]
<1>1. \/ t' = [t EXCEPT ![c] = IF x.buf = <<>> THEN u ELSE z]
      \/ x.buf # <<>> /\ t' = [t EXCEPT ![c] = w]
  BY Zenon DEF Yield, Break
<1>2. Good(x) /\ Streaming(x, K, E) /\ x.pc = "yield" /\ UNCHANGED <<store, kept, ever>>
  BY Zenon DEF AllStreaming, AllGood, Yield, Break
<1>3. Good(u) /\ Good(z) /\ Good(w)
  BY <1>2, YieldStep, Zenon
<1>4. /\ x.buf = <<>> => Streaming(u, K, E)
      /\ x.buf # <<>> => Streaming(z, K, E) /\ Streaming(w, K, E)
      /\ Kept(x, u) /\ Kept(x, z) /\ Kept(x, w)
  BY <1>2, YieldStreams, Zenon
<1> HIDE DEF x, u, z, w, K, E
<1>5. PICK y : t' = [t EXCEPT ![c] = y] /\ Good(y) /\ Streaming(y, K, E) /\ Kept(x, y)
  BY <1>1, <1>3, <1>4, Zenon
<1>6. QED
  BY <1>2, <1>5, QuietStep, Zenon DEF x, K, E

-----------------------------------------------------------------------------
(* Results.                                                                 *)

\* What a connection has cached about its server is true, whichever replies
\* were lost, broken or cancelled and whatever method they belonged to.
THEOREM CachesAreTrue == Spec => []CachesTrue
<1>1. AllGood => CachesTrue
  BY GoodCaches, Zenon DEF AllGood, CachesTrue
<1>2. QED
  BY <1>1, GoodInvariant, PTL

\* No request to a server without catalogs names a catalog: a closure resolves
\* it again in every attempt, from what that attempt's connection knows.
THEOREM No23Catalog == Spec => []NoCatalogTo23
<1>1. AllGood => NoCatalogTo23
  BY GoodCatalog, Zenon DEF AllGood, NoCatalogTo23, InRpc
<1>2. QED
  BY <1>1, GoodInvariant, PTL

\* A call's batches are carried out in order, each at most once: a prefix
\* when it fails, all when it succeeds.  do never tries a write again, and
\* the loop never goes back.
THEOREM BatchesInOrder == Spec => []BatchesOnce
<1>1. AllGood => BatchesOnce
  BY GoodBatches, Zenon DEF AllGood, BatchesOnce
<1>2. QED
  BY <1>1, GoodInvariant, PTL

\* The bounds in TypeOK: do makes at most MaxRetries attempts, and a loop over
\* a write's batches sends nothing past the last of them.
AttemptsBounded ==
    \A c \in Callers :
        /\ t[c].tries \in 0 .. MaxRetries
        /\ t[c].pc = "acquire" => t[c].tries < MaxRetries
        /\ t[c].pc = "rpc" /\ Looping(t[c]) /\ ~Doing(t[c]).read
             => t[c].i \in Nat /\ t[c].i < Len(t[c].work.items)

\* do's loop over attempts ends after MaxRetries of them, and a batch is never
\* empty.
THEOREM AttemptsEnd == Spec => []AttemptsBounded
<1>1. AllGood => AttemptsBounded
  BY GoodBounds, Zenon DEF AllGood, AttemptsBounded
<1>2. QED
  BY <1>1, GoodInvariant, PTL

\* GetTablesSeq and GetPartitionsSeq yield nothing twice, nothing that never
\* was there, and, when they end by themselves, all that was there throughout:
\* whatever is created, dropped, lost, retried or cancelled meanwhile, for any
\* number of callers, chunks and objects.  (Of drops by name, see NoDropsBeside.)
THEOREM StreamsExact == ASSUME NoDropsBeside PROVE Spec => []StreamExact
<1>1. AllStreaming /\ [Next]_vars => AllStreaming'
  <2> SUFFICES ASSUME AllStreaming, [Next]_vars PROVE AllStreaming'
    OBVIOUS
  <2>1. ASSUME NEW c \in Callers,
               \/ Begin(c) \/ Acquire(c) \/ DialFails(c)
               \/ Replies(c) \/ Loses(c) \/ FollowUpDesync(c) \/ Garbles(c) \/ Cancel(c)
               \/ Chunk(c) \/ Yield(c) \/ Break(c)
        PROVE  AllStreaming'
    BY <2>1, BeginStreaming, AcquireStreaming, DialFailsStreaming, RepliesStreaming,
       LosesStreaming, CancelStreaming, ChunkStreaming, YieldStreaming, Zenon
  <2>2. CASE UNCHANGED vars
    BY <2>2 DEF vars, AllStreaming, AllGood, StoreOK, Keyed, Undropped, Slices
  <2>3. QED
    BY <2>1, <2>2, Zenon DEF Next
<1>2. AllStreaming => StreamExact
  BY StreamingExact, Zenon DEF AllStreaming, AllGood, StreamExact
<1>3. QED
  BY <1>1, <1>2, InitStreaming, PTL DEF Spec
=============================================================================
