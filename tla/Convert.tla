------------------------------- MODULE Convert -------------------------------
(***************************************************************************)
(* convert.go's conversions between the generated structs and the exported *)
(* types, and the snapshot an Alter* call builds on.                       *)
(*                                                                         *)
(* A pointer, a nullable map and a time.Time are sets of at most one       *)
(* element.  "hidden" stands for every wire field the exported type does   *)
(* not have; of the fields it has, one of each kind of conversion is kept. *)
(***************************************************************************)
EXTENDS Integers

CONSTANT MaxInt32   \* math.MaxInt32

ASSUME ConvertAssumption == MaxInt32 \in Nat \ {0}

MinInt32 == -MaxInt32 - 1

The(o) == CHOOSE x \in o : TRUE

\* deref
Deref(o, default) == IF o = {} THEN default ELSE The(o)

\* copyStringMap, copyStrings: an empty map becomes nil.
CopyMap(m) == m \ {{}}

\* 0 means unset.
TimeFromUnix32(s) == {s} \ {0}
TimeFromUnix32Ptr(p) == p \ {0}

Unix32FromTime(t) ==
    IF t = {} THEN 0
    ELSE IF The(t) > MaxInt32 THEN MaxInt32
    ELSE IF The(t) < MinInt32 THEN MinInt32
    ELSE The(t)

-----------------------------------------------------------------------------
(* Storage                                                                 *)

SerDeFromThrift(s) == {[lib |-> x.lib, params |-> CopyMap(x.params)] : x \in s}

SerDeToThrift(s, base) ==
    {[lib    |-> x.lib,
      params |-> CopyMap(x.params),
      hidden |-> IF base = {} THEN "new" ELSE The(base).hidden] : x \in s}

StorageFromThrift(sd) ==
    {[location |-> x.location,
      serde    |-> SerDeFromThrift(x.serde),
      subdirs  |-> x.subdirs = {TRUE}] : x \in sd}

\* Mutant: the snapshot's SerDe is not threaded through.
StorageToThriftFresh(sd, base) ==
    {[location |-> x.location,
      serde    |-> SerDeToThrift(x.serde, {}),
      subdirs  |-> IF x.subdirs THEN {TRUE} ELSE {}] : x \in sd}

StorageToThrift(sd, base) ==
    {[location |-> x.location,
      serde    |-> SerDeToThrift(x.serde, UNION {b.serde : b \in base}),
      subdirs  |-> IF x.subdirs THEN {TRUE} ELSE {}] : x \in sd}

-----------------------------------------------------------------------------
(* Objects.  raw is the snapshot: the struct the object was made from.     *)

TableFromThrift(t) ==
    [owner     |-> t.owner,
     ownerType |-> t.ownerType,
     created   |-> TimeFromUnix32(t.created),
     params    |-> CopyMap(t.params),
     storage   |-> StorageFromThrift(t.sd),
     cat       |-> Deref(t.cat, "hive"),
     raw       |-> {t}]

NewTable ==
    [owner |-> "", ownerType |-> 1, created |-> 0, params |-> {}, sd |-> {},
     cat |-> {}, hidden |-> "new"]

FillTable(out, t, cat) ==
    [out EXCEPT !.owner = t.owner,
                !.ownerType = IF t.ownerType = 0 THEN 1 ELSE t.ownerType,
                !.created = Unix32FromTime(t.created),
                !.params = CopyMap(t.params),
                !.sd = StorageToThrift(t.storage, out.sd),
                !.cat = cat]

TableToThriftFrom(t, cat) == FillTable(Deref(t.raw, NewTable), t, cat)

\* CreateTime is read-only: the snapshot's is echoed.
DatabaseFromThrift(d, cat) ==
    [owner     |-> Deref(d.owner, ""),
     ownerType |-> Deref(d.ownerType, 0),
     created   |-> TimeFromUnix32Ptr(d.created),
     params    |-> CopyMap(d.params),
     cat       |-> Deref(IF cat # {} THEN cat ELSE d.cat, "hive"),
     raw       |-> {d}]

NewDatabase ==
    [owner |-> {}, ownerType |-> {}, created |-> {}, params |-> {}, cat |-> {},
     hidden |-> "new"]

FillDatabase(out, d, cat) ==
    [out EXCEPT !.owner = {d.owner} \ {""},
                !.ownerType = {d.ownerType} \ {0},
                !.params = CopyMap(d.params),
                !.cat = cat]

DatabaseToThriftFrom(d, cat) == FillDatabase(Deref(d.raw, NewDatabase), d, cat)

PartitionFromThrift(p) ==
    [created |-> TimeFromUnix32(p.created),
     params  |-> CopyMap(p.params),
     storage |-> StorageFromThrift(p.sd),
     cat     |-> Deref(p.cat, "hive"),
     raw     |-> {p}]

NewPartition ==
    [created |-> 0, params |-> {}, sd |-> {}, cat |-> {}, hidden |-> "new"]

FillPartition(out, p, cat) ==
    [out EXCEPT !.created = Unix32FromTime(p.created),
                !.params = CopyMap(p.params),
                !.sd = StorageToThrift(p.storage, out.sd),
                !.cat = cat]

PartitionToThriftFrom(p, cat) == FillPartition(Deref(p.raw, NewPartition), p, cat)

-----------------------------------------------------------------------------
(* What the generated structs can hold.  PrincipalType has no 0; the       *)
(* databases and partitions here are those of the default catalog, the one *)
(* the methods that convert them are called for.                           *)

IsOption(o) == \A x, y \in o : x = y

IsInt32(n) == n \in MinInt32 .. MaxInt32

IsSerDe(s) ==
    /\ IsOption(s)
    /\ \A x \in s : x = [lib |-> x.lib, params |-> x.params, hidden |-> x.hidden]

IsStorage(sd) ==
    /\ IsOption(sd)
    /\ \A x \in sd : /\ x = [location |-> x.location, serde |-> x.serde, subdirs |-> x.subdirs]
                     /\ x.subdirs \in {{}, {TRUE}, {FALSE}}
                     /\ IsSerDe(x.serde)

IsTable(t) ==
    /\ t = [owner |-> t.owner, ownerType |-> t.ownerType, created |-> t.created,
            params |-> t.params, sd |-> t.sd, cat |-> t.cat, hidden |-> t.hidden]
    /\ t.ownerType # 0 /\ IsInt32(t.created) /\ IsStorage(t.sd)

IsDatabase(d) ==
    /\ d = [owner |-> d.owner, ownerType |-> d.ownerType, created |-> d.created,
            params |-> d.params, cat |-> d.cat, hidden |-> d.hidden]
    /\ IsOption(d.owner) /\ IsOption(d.ownerType) /\ 0 \notin d.ownerType
    /\ d.cat \in {{}, {"hive"}}

IsPartition(p) ==
    /\ p = [created |-> p.created, params |-> p.params, sd |-> p.sd, cat |-> p.cat,
            hidden |-> p.hidden]
    /\ IsInt32(p.created) /\ IsStorage(p.sd) /\ p.cat \in {{}, {"hive"}}

IsObject(kind, w) ==
    \/ kind = "table" /\ IsTable(w)
    \/ kind = "database" /\ IsDatabase(w)
    \/ kind = "partition" /\ IsPartition(w)
=============================================================================
