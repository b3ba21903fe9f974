---------------------------- MODULE Streams_proofs ----------------------------
(***************************************************************************)
(* What a goroutine that streams keeps true from one RPC to the next.      *)
(*                                                                         *)
(* Streaming(x, K, E) says of a stream x how far through its list of names *)
(* it is and that what it has yielded is what there is of those names, K   *)
(* being the objects that were there throughout the call and E those that  *)
(* were there at some moment of it.  A lemma per step says that it is kept *)
(* when the replies are true of the store; Calls_proofs shows they are.    *)
(***************************************************************************)
EXTENDS Methods_proofs

\* The provers tried on a step that names none, and their time.
USE SMTT(30), Z3T(30), ZenonT(30)

-----------------------------------------------------------------------------
(* Streams.  K: the objects that were there throughout the call.  E: those *)
(* that were there at some moment of it.                                    *)

IsSeq(s) == s \in Seq(Range(s))

\* The object that a listed name is of.
Obj(op, n) == IF op = "GetTablesSeq" THEN n ELSE n[2]

Objs(op, ns, m) == {Obj(op, ns[i]) : i \in {j \in DOMAIN ns : j <= m}}

\* The names of different objects.
IsListing(op, ns) ==
    /\ IsSeq(ns)
    /\ \A i, j \in DOMAIN ns : Obj(op, ns[i]) = Obj(op, ns[j]) => i = j
    /\ op = "GetPartitionsSeq" => \A i \in DOMAIN ns : ns[i] = partitionName(ns[i][2])

\* v is what there is to yield of the first m names.
Progress(op, ns, v, m, K, E) ==
    /\ IsListing(op, ns) /\ K \subseteq Objs(op, ns, Len(ns))
    /\ IsSeq(v) /\ IsInjective(v)
    /\ Range(v) \subseteq E \cap Objs(op, ns, m)
    /\ K \cap Objs(op, ns, m) \subseteq Range(v)

\* x is in one of its do's.
Mid(x, K, E) ==
    /\ x.call.op \in DOMAIN Stream
    /\ x.work.op = Stream[x.call.op].list => x.val = <<>> /\ x.pos = 0 /\ x.work.n = -1
    /\ x.work.op = Stream[x.call.op].chunk =>
         /\ x.pos \in Nat /\ x.pos - ChunkSize \in Nat /\ x.pos - ChunkSize < Len(x.names)
         /\ x.work.items = batch(x.names, x.pos - ChunkSize, ChunkSize)
         /\ Progress(x.call.op, x.names, x.val, x.pos - ChunkSize, K, E)

Streaming(x, K, E) ==
    x.call.op \in DOMAIN Stream =>
        /\ x.pc \in {"acquire", "probe", "rpc", "chunk", "yield", "done"}
        /\ x.pc \in {"acquire", "probe", "rpc"} => Mid(x, K, E)
        /\ x.pc \in {"probe", "rpc"} => x.i = 0 /\ x.acc = <<>>
        /\ x.pc = "chunk" => /\ x.pos \in Nat
                             /\ Progress(x.call.op, x.names, x.val, x.pos, K, E)
        /\ x.pc = "yield" => /\ x.pos \in Nat /\ IsSeq(x.val) /\ IsSeq(x.buf)
                             /\ Progress(x.call.op, x.names, x.val \o x.buf, x.pos, K, E)
        /\ x.pc = "done" => /\ IsSeq(x.val) /\ IsInjective(x.val) /\ Range(x.val) \subseteq E
                            /\ x.err = "ok" => K \subseteq Range(x.val)

\* The do's of a stream.
LEMMA StreamWork ==
    ASSUME NEW x, Base(x), x.call.op \in DOMAIN Stream
    PROVE  /\ x.call.op \in {"GetTablesSeq", "GetPartitionsSeq"} /\ x.call.op \notin Names
           /\ x.work.op \in {Stream[x.call.op].list, Stream[x.call.op].chunk}
           /\ Stream[x.call.op].list # Stream[x.call.op].chunk
           /\ x.work.op \notin {"ServerVersion", "CreateDatabase", "DropDatabase", "GetCatalogs",
                                "GetNextNotifications"}
           /\ Doing(x).read /\ Doing(x).step = IF x.work.op = Stream[x.call.op].list THEN 0 ELSE ChunkSize
           /\ (Looping(x) <=> x.work.op # Stream[x.call.op].list)
<1>1. x.work.op \in {Stream[x.call.op].list, Stream[x.call.op].chunk} /\ x.work.op \in Names
  BY StageNamed DEF Base, Stage
<1>2. /\ x.call.op \in {"GetTablesSeq", "GetPartitionsSeq"} /\ x.call.op \notin Names
      /\ Stream[x.call.op].list \in {"GetAllTables", "GetPartitionNames"}
      /\ Stream[x.call.op].chunk \in {"GetTables", "GetPartitionsByNames"}
  BY StreamOps DEF Names
<1>3. Doing(x).read /\ Doing(x).step = IF x.work.op = Stream[x.call.op].list THEN 0 ELSE ChunkSize
  BY <1>1, <1>2, MethodFacts DEF Doing, Writing, Batched
<1>4. QED
  BY <1>1, <1>2, <1>3, SizesAssumption DEF Looping

\* Objects come and go.
LEMMA StreamingObserved ==
    ASSUME NEW x, NEW K, NEW E, NEW O, Streaming(x, K, E)
    PROVE  Streaming(x, K \cap O, E \cup O)
<1>1. ASSUME NEW op, NEW ns, NEW v, NEW m, Progress(op, ns, v, m, K, E)
      PROVE  Progress(op, ns, v, m, K \cap O, E \cup O)
  <2> HIDE DEF Objs, Range
  <2> QED BY <1>1, Zenon DEF Progress
<1>2. Mid(x, K, E) => Mid(x, K \cap O, E \cup O)
  BY <1>1, Zenon DEF Mid
<1>3. QED
  BY <1>1, <1>2, Zenon DEF Streaming

\* Nothing has been yielded.
LEMMA NothingYet ==
    ASSUME NEW op, NEW ns, NEW K, NEW E, IsListing(op, ns), K \subseteq Objs(op, ns, Len(ns))
    PROVE  Progress(op, ns, <<>>, 0, K, E) /\ IsSeq(<<>>) /\ IsInjective(<<>>) /\ Range(<<>>) = {}
<1>1. IsSeq(<<>>) /\ IsInjective(<<>>) /\ Range(<<>>) = {}
  BY DEF IsSeq, IsInjective, Range
<1>2. \A j \in DOMAIN ns : ~(j <= 0)
  BY DEF IsListing, IsSeq
<1>3. Objs(op, ns, 0) = {}
  BY <1>2 DEF Objs
<1>4. QED
  BY <1>1, <1>3 DEF Progress

\* What has been yielded is distinct and was there.
LEMMA YieldedSoFar ==
    ASSUME NEW x, NEW K, NEW E, Base(x), Mid(x, K, E)
    PROVE  IsSeq(x.val) /\ IsInjective(x.val) /\ Range(x.val) \subseteq E
<1>1. CASE x.work.op = Stream[x.call.op].list
  <2>1. x.val = <<>>
    BY <1>1 DEF Mid
  <2>2. IsSeq(<<>>) /\ IsInjective(<<>>) /\ Range(<<>>) = {}
    BY DEF IsSeq, IsInjective, Range
  <2>3. QED
    BY <2>1, <2>2, Zenon
<1>2. CASE x.work.op = Stream[x.call.op].chunk
  BY <1>2 DEF Mid, Progress
<1>3. QED
  BY <1>1, <1>2, StreamWork DEF Mid

\* A call that ends with an error has yielded what it has.
LEMMA ReturnStreaming ==
    ASSUME NEW x, NEW e, NEW v, NEW K, NEW E, Goroutine(x), IsSeq(v), IsInjective(v),
           Range(v) \subseteq E, e = "ok" => K \subseteq Range(v)
    PROVE  Streaming(Return(x, e, v), K, E)
<1> DEFINE y == Return(x, e, v)
<1>1. y.pc = "done" /\ y.err = e /\ y.val = v
  BY Zenon DEF Return, Goroutine
<1> HIDE DEF y
<1>2. Streaming(y, K, E)
  BY <1>1, Zenon DEF Streaming
<1>3. QED
  BY <1>2 DEF y

\* What Mid reads of x.
Same(x, y) ==
    y.call = x.call /\ y.work = x.work /\ y.val = x.val /\ y.pos = x.pos /\ y.names = x.names

\* Another attempt.
LEMMA MidKept ==
    ASSUME NEW x, NEW y, NEW K, NEW E, Mid(x, K, E), Same(x, y)
    PROVE  Mid(y, K, E)
  BY Zenon DEF Mid, Same

\* do fails: the stream yields its error and ends.
LEMMA DoFails ==
    ASSUME NEW x, NEW e, NEW v, NEW K, NEW E, Base(x), Mid(x, K, E), e # "ok"
    PROVE  Streaming(DoReturns(x, e, v), K, E)
<1>1. DoReturns(x, e, v) = Return(x, e, x.val)
  BY StreamWork, Zenon DEF DoReturns, Mid
<1>2. Streaming(Return(x, e, x.val), K, E)
  BY YieldedSoFar, ReturnStreaming, Zenon DEF Base
<1>3. QED
  BY <1>1, <1>2, Zenon

\* What FnReturns hands to do.
LEMMA Spoils ==
    ASSUME NEW x, NEW b, Base(x)
    PROVE  LET y == [x EXCEPT !.spoilt = b] IN
           Base(y) /\ Same(x, y)
<1> DEFINE y == [x EXCEPT !.spoilt = b]
<1>1. /\ Goroutine(y) /\ y.tries = x.tries
      /\ y.call = x.call /\ y.work = x.work /\ y.conn = x.conn /\ y.applied = x.applied
      /\ Same(x, y)
  BY DEF Base, Goroutine, Same
<1> HIDE DEF y
<1>2. QED
  BY <1>1, BaseKept, Zenon DEF y

\* The closure fails: do tries again or fails.
LEMMA FnFails ==
    ASSUME NEW x, NEW e, NEW v, NEW K, NEW E, Base(x), Mid(x, K, E), e # "ok"
    PROVE  Streaming(FnReturns(x, e, v), K, E)
<1> DEFINE y == [x EXCEPT !.spoilt = @ \/ (x.conn.dirty /\ ~Discards(e))]
           z == [y EXCEPT !.pc = "acquire"]
<1>1. Base(y) /\ Same(x, y)
  BY Spoils, Zenon
<1> HIDE DEF y
<1>2. Same(x, z) /\ z.pc = "acquire"
  BY <1>1 DEF Same, Base, Goroutine
<1> HIDE DEF z
<1>3. Streaming(z, K, E)
  BY <1>2, MidKept, Zenon DEF Streaming
<1>4. classify(e) # "ok"
  BY DEF classify
<1>5. Streaming(DoReturns(y, classify(e), v), K, E)
  BY <1>1, <1>4, MidKept, DoFails, Zenon
<1>6. QED
  BY <1>3, <1>5 DEF FnReturns, y, z

\* The closure succeeds: do returns.
LEMMA FnSucceeds ==
    ASSUME NEW x, NEW v, NEW K, NEW E, Base(x), Mid(x, K, E),
           \A y : Base(y) /\ Same(x, y) => Streaming(DoReturns(y, "ok", v), K, E)
    PROVE  Streaming(FnReturns(x, "ok", v), K, E)
<1> DEFINE y == [x EXCEPT !.spoilt = @ \/ (x.conn.dirty /\ ~Discards("ok"))]
<1>1. Base(y) /\ Same(x, y)
  BY Spoils, Zenon
<1>2. ~Retries(x, "ok") /\ classify("ok") = "ok"
  BY DEF Retries, classify
<1>3. FnReturns(x, "ok", v) = DoReturns(y, "ok", v)
  BY <1>2 DEF FnReturns
<1> HIDE DEF y
<1>4. QED
  BY <1>1, <1>3, Zenon

\* The names have been listed.
LEMMA NamesListed ==
    ASSUME NEW x, NEW v, NEW K, NEW E, Base(x), Mid(x, K, E),
           x.work.op = Stream[x.call.op].list,
           IsListing(x.call.op, v), K \subseteq Objs(x.call.op, v, Len(v))
    PROVE  Streaming(FnReturns(x, "ok", v), K, E)
<1> SUFFICES ASSUME NEW y, Base(y), Same(x, y)
             PROVE  Streaming(DoReturns(y, "ok", v), K, E)
  BY FnSucceeds, Zenon
<1> DEFINE z == [y EXCEPT !.pc = "chunk", !.names = v]
<1>1. z.pc = "chunk" /\ z.names = v /\ z.val = y.val /\ z.pos = y.pos /\ z.call = y.call
  BY DEF Base, Goroutine
<1>2. DoReturns(y, "ok", v) = z
  BY StreamWork, Zenon DEF DoReturns, Same, Mid
<1> HIDE DEF z
<1>3. z.val = <<>> /\ z.pos = 0
  BY <1>1 DEF Same, Mid
<1>4. Progress(z.call.op, z.names, z.val, 0, K, E)
  BY <1>1, <1>3, NothingYet DEF Same
<1>5. QED
  BY <1>1, <1>2, <1>3, <1>4 DEF Streaming

\* top is where the batch of at most C of L names from m on ends.
Bounds(L, m, C, top) ==
    /\ m + 1 \in Int /\ top \in Int /\ m + 1 <= top /\ top - (m + 1) + 1 = top - m
    /\ top - m \in Nat /\ top - m > 0 /\ top - m <= C
    /\ \A i \in m + 1 .. top : i \in 1 .. L
    /\ \A i \in 1 .. top - m : m + i \in 1 .. L /\ i <= C /\ (m + 1) + i - 1 = m + i
    /\ \A j \in 1 .. L : j > m /\ j <= m + C => j - m \in 1 .. top - m /\ m + (j - m) = j

\* A batch ends where the names end or is full.
LEMMA BatchBounds ==
    ASSUME NEW L \in Nat, NEW m \in Nat, NEW C \in Nat, C > 0, m < L
    PROVE  Bounds(L, m, C, IF m + C > L THEN L ELSE m + C)
<1>1. CASE m + C > L
  <2>1. Bounds(L, m, C, L)
    BY <1>1 DEF Bounds
  <2>2. QED
    BY <1>1, <2>1, Zenon
<1>2. CASE ~(m + C > L)
  <2>1. m + C \in Nat /\ m + C <= L
    BY <1>2
  <2>2. Bounds(L, m, C, m + C)
    BY <2>1 DEF Bounds
  <2>3. QED
    BY <1>2, <2>2, Zenon
<1>3. QED
  BY <1>1, <1>2

\* A batch is a run of the names.
LEMMA BatchOf ==
    ASSUME NEW V, NEW ns \in Seq(V), NEW m \in Nat, m < Len(ns), NEW C \in Nat \ {0}
    PROVE  LET b == batch(ns, m, C) IN
           /\ b \in Seq(V) /\ Len(b) \in Nat /\ Len(b) > 0 /\ Len(b) <= C
           /\ DOMAIN b = 1 .. Len(b) /\ DOMAIN ns = 1 .. Len(ns)
           /\ \A i \in DOMAIN b : m + i \in DOMAIN ns /\ b[i] = ns[m + i] /\ i <= C
           /\ \A j \in DOMAIN ns : j > m /\ j <= m + C =>
                j - m \in DOMAIN b /\ b[j - m] = ns[j]
<1> DEFINE top == IF m + C > Len(ns) THEN Len(ns) ELSE m + C
           b == batch(ns, m, C)
<1>1. Len(ns) \in Nat /\ DOMAIN ns = 1 .. Len(ns) /\ C \in Nat /\ C > 0
  OBVIOUS
<1>2. Bounds(Len(ns), m, C, top)
  BY <1>1, BatchBounds, Zenon
<1>3. b = SubSeq(ns, m + 1, top)
  BY DEF batch
<1> HIDE DEF top, b
<1>4. b \in Seq(V) /\ Len(b) = top - m /\ \A i \in 1 .. top - m : b[i] = ns[m + i]
  <2>1. m + 1 \in Int /\ top \in Int /\ \A i \in m + 1 .. top : ns[i] \in V
    BY <1>1, <1>2 DEF Bounds
  <2>2. /\ b \in Seq(V) /\ Len(b) = IF m + 1 <= top THEN top - (m + 1) + 1 ELSE 0
        /\ \A i \in 1 .. (top - (m + 1) + 1) : b[i] = ns[(m + 1) + i - 1]
    BY <1>1, <1>3, <2>1
  <2>3. Len(b) = top - m
    BY <2>2, <1>2, Zenon DEF Bounds
  <2>4. ASSUME NEW i \in 1 .. top - m PROVE b[i] = ns[m + i]
    BY <2>2, <1>2, Zenon DEF Bounds
  <2>5. QED
    BY <2>2, <2>3, <2>4, Zenon
<1>5. DOMAIN b = 1 .. Len(b) /\ Len(b) \in Nat /\ Len(b) > 0 /\ Len(b) <= C
  BY <1>2, <1>4 DEF Bounds
<1>6. ASSUME NEW i \in DOMAIN b
      PROVE  m + i \in DOMAIN ns /\ b[i] = ns[m + i] /\ i <= C
  BY <1>1, <1>2, <1>4, <1>5, Zenon DEF Bounds
<1>7. ASSUME NEW j \in DOMAIN ns, j > m, j <= m + C
      PROVE  j - m \in DOMAIN b /\ b[j - m] = ns[j]
  <2>1. j - m \in 1 .. top - m /\ m + (j - m) = j
    BY <1>1, <1>2, <1>7, Zenon DEF Bounds
  <2>2. b[j - m] = ns[m + (j - m)]
    BY <1>4, <2>1, Zenon
  <2>3. QED
    BY <1>4, <1>5, <2>1, <2>2, Zenon
<1>8. QED
  BY <1>1, <1>4, <1>5, <1>6, <1>7 DEF b

\* v holds what there is to yield of the names in items.
ChunkOf(op, items, v, K, E) ==
    /\ IsSeq(v) /\ IsInjective(v) /\ Range(v) \subseteq E
    /\ \A o \in Range(v) : \E i \in DOMAIN items : o = Obj(op, items[i])
    /\ \A i \in DOMAIN items : Obj(op, items[i]) \in K => Obj(op, items[i]) \in Range(v)

\* The concatenation of two sequences with nothing in common.
LEMMA Joined ==
    ASSUME NEW u, NEW v, IsSeq(u), IsSeq(v)
    PROVE  /\ IsSeq(u \o v) /\ Range(u \o v) = Range(u) \cup Range(v)
           /\ (IsInjective(u) /\ IsInjective(v) /\ Range(u) \cap Range(v) = {} => IsInjective(u \o v))
<1> DEFINE w == u \o v
<1>1. /\ w \in Seq(Range(u) \cup Range(v)) /\ Len(w) = Len(u) + Len(v)
      /\ Len(u) \in Nat /\ Len(v) \in Nat
      /\ DOMAIN u = 1 .. Len(u) /\ DOMAIN v = 1 .. Len(v) /\ DOMAIN w = 1 .. Len(u) + Len(v)
      /\ \A i \in 1 .. Len(u) + Len(v) : w[i] = IF i <= Len(u) THEN u[i] ELSE v[i - Len(u)]
  <2>1. u \in Seq(Range(u) \cup Range(v)) /\ v \in Seq(Range(u) \cup Range(v))
    BY DEF IsSeq
  <2>2. QED
    BY <2>1
<1> HIDE DEF w
<1>2. ASSUME NEW i \in DOMAIN u PROVE i \in DOMAIN w /\ w[i] = u[i]
  BY <1>1
<1>3. ASSUME NEW i \in DOMAIN v PROVE Len(u) + i \in DOMAIN w /\ w[Len(u) + i] = v[i]
  BY <1>1
<1>4. ASSUME NEW i \in DOMAIN w
      PROVE  \/ i \in DOMAIN u /\ w[i] = u[i]
             \/ i - Len(u) \in DOMAIN v /\ w[i] = v[i - Len(u)]
  BY <1>1
<1>5. Range(w) = Range(u) \cup Range(v)
  <2>1. Range(w) \subseteq Range(u) \cup Range(v)
    BY <1>4 DEF Range
  <2>2. Range(u) \subseteq Range(w)
    BY <1>2 DEF Range
  <2>3. Range(v) \subseteq Range(w)
    BY <1>3 DEF Range
  <2>4. QED
    BY <2>1, <2>2, <2>3
<1>6. IsSeq(w)
  BY <1>1, <1>5 DEF IsSeq
<1>7. ASSUME IsInjective(u), IsInjective(v), Range(u) \cap Range(v) = {},
             NEW i \in DOMAIN w, NEW j \in DOMAIN w, w[i] = w[j]
      PROVE  i = j
  <2>1. CASE i \in DOMAIN u /\ w[i] = u[i] /\ j \in DOMAIN u /\ w[j] = u[j]
    BY <1>7, <2>1, Zenon DEF IsInjective
  <2>2. CASE /\ i - Len(u) \in DOMAIN v /\ w[i] = v[i - Len(u)]
             /\ j - Len(u) \in DOMAIN v /\ w[j] = v[j - Len(u)]
    <3>1. i - Len(u) = j - Len(u)
      BY <1>7, <2>2, Zenon DEF IsInjective
    <3>2. i \in Nat /\ j \in Nat
      BY <1>1
    <3>3. QED
      BY <1>1, <3>1, <3>2
  <2>3. CASE i \in DOMAIN u /\ w[i] = u[i] /\ j - Len(u) \in DOMAIN v /\ w[j] = v[j - Len(u)]
    BY <1>7, <2>3, Zenon DEF Range
  <2>4. CASE j \in DOMAIN u /\ w[j] = u[j] /\ i - Len(u) \in DOMAIN v /\ w[i] = v[i - Len(u)]
    BY <1>7, <2>4, Zenon DEF Range
  <2>5. QED
    BY <1>4, <2>1, <2>2, <2>3, <2>4, Zenon
<1>8. QED
  BY <1>5, <1>6, <1>7 DEF IsInjective, w

\* What a chunk adds to the progress.
LEMMA ChunkAdds ==
    ASSUME NEW op, NEW ns, NEW u, NEW v, NEW m \in Nat, NEW K, NEW E,
           Progress(op, ns, u, m, K, E), m < Len(ns),
           ChunkOf(op, batch(ns, m, ChunkSize), v, K, E)
    PROVE  Progress(op, ns, u \o v, m + ChunkSize, K, E)
<1> DEFINE b == batch(ns, m, ChunkSize)
           p == m + ChunkSize
<1>1. p \in Nat /\ m < p /\ DOMAIN ns = 1 .. Len(ns) /\ Len(ns) \in Nat
  BY SizesAssumption DEF Progress, IsListing, IsSeq
<1>2. /\ DOMAIN b = 1 .. Len(b) /\ Len(b) \in Nat
      /\ \A i \in DOMAIN b : m + i \in DOMAIN ns /\ b[i] = ns[m + i] /\ i <= ChunkSize
      /\ \A j \in DOMAIN ns : j > m /\ j <= m + ChunkSize =>
                j - m \in DOMAIN b /\ b[j - m] = ns[j]
  <2>1. ChunkSize \in Nat \ {0} /\ ns \in Seq(Range(ns))
    BY SizesAssumption DEF Progress, IsListing, IsSeq
  <2>2. QED
    BY <2>1, BatchOf
<1> HIDE DEF b
<1>3. ASSUME NEW o \in Range(v)
      PROVE  \E j \in DOMAIN ns : j > m /\ j <= p /\ o = Obj(op, ns[j])
  <2>1. PICK i \in DOMAIN b : o = Obj(op, b[i])
    BY Zenon DEF ChunkOf, b
  <2>2. m + i \in DOMAIN ns /\ b[i] = ns[m + i] /\ i <= ChunkSize
    BY <1>2, Zenon
  <2>3. m + i > m /\ m + i <= p
    BY <1>2, <2>2, SizesAssumption
  <2>4. QED
    BY <2>1, <2>2, <2>3, Zenon
<1>4. ASSUME NEW j \in DOMAIN ns, j > m, j <= p, Obj(op, ns[j]) \in K
      PROVE  Obj(op, ns[j]) \in Range(v)
  <2>1. j - m \in DOMAIN b /\ b[j - m] = ns[j]
    BY <1>2, <1>4, Zenon
  <2>2. QED
    BY <1>4, <2>1, Zenon DEF ChunkOf, b
<1>5. \A j \in DOMAIN ns : (j <= p <=> j <= m \/ (j > m /\ j <= p)) /\ ~(j <= m /\ j > m)
  BY <1>1
<1> HIDE DEF p
<1>6. Range(u) \cap Range(v) = {}
  <2> SUFFICES ASSUME NEW o \in Range(u), o \in Range(v) PROVE FALSE
    OBVIOUS
  <2>1. PICK j \in DOMAIN ns : j > m /\ o = Obj(op, ns[j])
    BY <1>3
  <2>2. o \in Objs(op, ns, m)
    BY DEF Progress
  <2>3. PICK i \in DOMAIN ns : i <= m /\ o = Obj(op, ns[i])
    BY <2>2 DEF Objs
  <2>4. i = j
    BY <2>1, <2>3, Zenon DEF Progress, IsListing
  <2>5. QED
    BY <1>5, <2>1, <2>3, <2>4, Zenon
<1>7. Range(u) \subseteq E /\ Range(v) \subseteq E /\ IsSeq(u) /\ IsSeq(v) /\ IsInjective(u) /\ IsInjective(v)
  BY DEF Progress, ChunkOf
<1>8. IsSeq(u \o v) /\ Range(u \o v) = Range(u) \cup Range(v) /\ IsInjective(u \o v)
  BY <1>6, <1>7, Joined, Zenon
<1>9. Range(u) \cup Range(v) \subseteq E \cap Objs(op, ns, p)
  <2>1. ASSUME NEW o \in Range(u) PROVE o \in Objs(op, ns, p)
    <3>1. o \in Objs(op, ns, m)
      BY DEF Progress
    <3>2. QED
      BY <1>5, <3>1 DEF Objs
  <2>2. ASSUME NEW o \in Range(v) PROVE o \in Objs(op, ns, p)
    BY <1>3, <2>2, Zenon DEF Objs
  <2>3. QED
    BY <1>7, <2>1, <2>2, Zenon
<1>10. K \cap Objs(op, ns, p) \subseteq Range(u) \cup Range(v)
  <2> SUFFICES ASSUME NEW o \in K, o \in Objs(op, ns, p) PROVE o \in Range(u) \cup Range(v)
    OBVIOUS
  <2>1. PICK j \in DOMAIN ns : j <= p /\ o = Obj(op, ns[j])
    BY DEF Objs
  <2>2. CASE j <= m
    <3>1. o \in Objs(op, ns, m)
      BY <2>1, <2>2 DEF Objs
    <3>2. QED
      BY <3>1 DEF Progress
  <2>3. CASE j > m /\ j <= p
    BY <1>4, <2>1, <2>3, Zenon
  <2>4. QED
    BY <1>5, <2>1, <2>2, <2>3, Zenon
<1>11. Progress(op, ns, u \o v, p, K, E)
  BY <1>8, <1>9, <1>10, Zenon DEF Progress
<1>12. QED
  BY <1>11 DEF p

\* A chunk has been fetched.
LEMMA ChunkFetched ==
    ASSUME NEW x, NEW v, NEW K, NEW E, Base(x), Mid(x, K, E),
           x.work.op = Stream[x.call.op].chunk,
           ChunkOf(x.call.op, x.work.items, v, K, E)
    PROVE  Streaming(FnReturns(x, "ok", v), K, E)
<1> SUFFICES ASSUME NEW y, Base(y), Same(x, y)
             PROVE  Streaming(DoReturns(y, "ok", v), K, E)
  BY FnSucceeds, Zenon
<1> DEFINE z == [y EXCEPT !.pc = "yield", !.buf = v]
           m == x.pos - ChunkSize
<1>1. z.pc = "yield" /\ z.names = y.names /\ z.val = y.val /\ z.pos = y.pos /\ z.call = y.call
      /\ z.buf = v
  BY DEF Base, Goroutine
<1>2. DoReturns(y, "ok", v) = z
  BY StreamWork, Zenon DEF DoReturns, Same, Mid
<1> HIDE DEF z
<1>3. /\ m \in Nat /\ m < Len(x.names) /\ x.work.items = batch(x.names, m, ChunkSize)
      /\ Progress(x.call.op, x.names, x.val, m, K, E) /\ x.pos \in Nat
  BY DEF Mid
<1>4. m + ChunkSize = x.pos
  BY <1>3, SizesAssumption
<1> HIDE DEF m
<1>5. Progress(x.call.op, x.names, x.val \o v, x.pos, K, E)
  BY <1>3, <1>4, ChunkAdds, Zenon
<1>6. IsSeq(x.val) /\ IsSeq(v)
  BY <1>3 DEF Progress, ChunkOf
<1>7. QED
  BY <1>1, <1>2, <1>3, <1>5, <1>6, Zenon DEF Streaming, Same

\* A chunk's do asks for at least one name, and for all of them at once.
LEMMA ChunkItems ==
    ASSUME NEW x, NEW K, NEW E, Mid(x, K, E), x.work.op = Stream[x.call.op].chunk
    PROVE  /\ Len(x.work.items) \in Nat /\ Len(x.work.items) > 0
           /\ Len(x.work.items) <= ChunkSize
<1> DEFINE m == x.pos - ChunkSize
           b == batch(x.names, m, ChunkSize)
<1>1. /\ m \in Nat /\ m < Len(x.names) /\ x.work.items = b /\ x.names \in Seq(Range(x.names))
  BY DEF Mid, Progress, IsListing, IsSeq
<1> HIDE DEF m
<1>2. Len(b) \in Nat /\ Len(b) > 0 /\ Len(b) <= ChunkSize
  BY <1>1, BatchOf, SizesAssumption
<1>3. QED
  BY <1>1, <1>2, Zenon

\* The head of a stream's loop: nothing has been sent.
LEMMA LoopStreams ==
    ASSUME NEW x, NEW K, NEW E, Base(x), Mid(x, K, E), x.i = 0, x.acc = <<>>
    PROVE  Streaming(Loop(x), K, E)
<1> DEFINE y == [x EXCEPT !.pc = "rpc"]
<1>1. Same(x, y) /\ y.pc = "rpc" /\ y.i = 0 /\ y.acc = <<>>
  BY DEF Base, Goroutine, Same
<1> HIDE DEF y
<1>2. Streaming(y, K, E)
  BY <1>1, MidKept, Zenon DEF Streaming
<1>3. Looping(x) => ~(0 >= Len(x.work.items))
  <2> SUFFICES ASSUME Looping(x) PROVE ~(0 >= Len(x.work.items))
    OBVIOUS
  <2>1. x.work.op = Stream[x.call.op].chunk
    BY StreamWork, Zenon DEF Mid
  <2>3. Len(x.work.items) \in Nat /\ Len(x.work.items) > 0
    BY <2>1, ChunkItems, Zenon
  <2>4. QED
    BY <2>3
<1>4. QED
  BY <1>2, <1>3, Zenon DEF Loop, y

\* The reply of a stream's RPC is its do's result.
LEMMA AdvanceStreams ==
    ASSUME NEW x, NEW v, NEW K, NEW E, Base(x), Mid(x, K, E), x.i = 0, x.acc = <<>>, IsSeq(v),
           x.work.op = Stream[x.call.op].list =>
               IsListing(x.call.op, v) /\ K \subseteq Objs(x.call.op, v, Len(v)),
           x.work.op = Stream[x.call.op].chunk =>
               ChunkOf(x.call.op, x.work.items, v, K, E)
    PROVE  Streaming(Advance(x, v), K, E)
<1>1. CASE x.work.op = Stream[x.call.op].list
  <2>1. ~Looping(x)
    BY <1>1, StreamWork, Zenon DEF Mid
  <2>2. QED
    BY <1>1, <2>1, NamesListed, Zenon DEF Advance
<1>2. CASE x.work.op = Stream[x.call.op].chunk
  <2>1. Looping(x) /\ Doing(x).step = ChunkSize
    BY <1>2, StreamWork, Zenon DEF Mid
  <2> DEFINE y == [x EXCEPT !.i = @ + Doing(x).step, !.acc = @ \o v]
  <2>2. /\ Goroutine(y) /\ y.i = 0 + ChunkSize /\ y.acc = <<>> \o v /\ Same(x, y)
        /\ y.conn = x.conn /\ y.applied = x.applied /\ y.tries = x.tries
    BY <2>1 DEF Base, Goroutine, Same
  <2> HIDE DEF y
  <2>3. Base(y) /\ Mid(y, K, E)
    BY <2>2, BaseKept, MidKept, Zenon DEF Same
  <2>4. y.acc = v
    BY <2>2 DEF IsSeq
  <2>6. Len(x.work.items) \in Nat /\ Len(x.work.items) <= ChunkSize
    BY <1>2, ChunkItems, Zenon
  <2>7. y.i >= Len(y.work.items)
    BY <2>2, <2>6, SizesAssumption DEF Same
  <2>8. Looping(y)
    BY <2>1, <2>2, Zenon DEF Looping, Doing, Same
  <2>9. Loop(y) = FnReturns(y, "ok", v)
    BY <2>4, <2>7, <2>8, Zenon DEF Loop
  <2>10. Streaming(FnReturns(y, "ok", v), K, E)
    BY <1>2, <2>2, <2>3, ChunkFetched, Zenon DEF Same
  <2>11. QED
    BY <2>1, <2>9, <2>10, Zenon DEF Advance, y
<1>3. QED
  BY <1>1, <1>2, StreamWork, Zenon DEF Mid

\* The catalog is resolved, or the server has none.
LEMMA ResolveStreams ==
    ASSUME NEW x, NEW K, NEW E, Base(x), Mid(x, K, E), x.i = 0, x.acc = <<>>
    PROVE  Streaming(resolveCatFor(x), K, E)
<1> DEFINE support == x.conn.catalogs = "yes"
           y == [x EXCEPT !.cat = IF x.work.cat = "hive" /\ ~support THEN Nil ELSE x.work.cat]
<1>1. /\ Goroutine(y) /\ y.i = 0 /\ y.acc = <<>> /\ Same(x, y)
      /\ y.conn = x.conn /\ y.applied = x.applied /\ y.tries = x.tries
  BY DEF Base, Goroutine, Same
<1> HIDE DEF y
<1>2. Base(y) /\ Mid(y, K, E)
  BY <1>1, BaseKept, MidKept, Zenon DEF Same
<1>3. Streaming(Loop(y), K, E)
  BY <1>1, <1>2, LoopStreams, Zenon
<1>4. Streaming(FnReturns(x, "NotSupported", <<>>), K, E)
  BY FnFails
<1>5. x.work.op # "CreateDatabase"
  BY StreamWork, Zenon DEF Mid
<1>6. QED
  BY <1>3, <1>4, <1>5, Zenon DEF resolveCatFor, y

\* An attempt starts from scratch.
LEMMA StartStreams ==
    ASSUME NEW x, NEW cn, NEW K, NEW E, Base(x), Mid(x, K, E), x.tries < MaxRetries,
           ConnOK(cn), LegacyOK(x.work, cn)
    PROVE  Streaming(Start(x, cn), K, E)
<1> DEFINE y == [x EXCEPT !.conn = cn, !.tries = @ + 1, !.i = 0, !.acc = <<>>, !.cat = Nil]
           z == [y EXCEPT !.pc = "probe"]
<1>1. /\ Goroutine(y) /\ y.i = 0 /\ y.acc = <<>> /\ y.tries = x.tries + 1 /\ Same(x, y)
      /\ y.conn = cn /\ y.applied = x.applied
  BY DEF Base, Goroutine, Same
<1> HIDE DEF y
<1>2. Base(y)
  BY <1>1, SizesAssumption DEF Base, Same
<1>3. Mid(y, K, E)
  BY <1>1, MidKept, Zenon
<1>4. z.pc = "probe" /\ z.i = 0 /\ z.acc = <<>> /\ Same(y, z)
  BY <1>1 DEF Goroutine, Same
<1> HIDE DEF z
<1>5. Streaming(z, K, E)
  BY <1>3, <1>4, MidKept, Zenon DEF Streaming
<1>6. Streaming(Loop(y), K, E) /\ Streaming(resolveCatFor(y), K, E)
  BY <1>1, <1>2, <1>3, LoopStreams, ResolveStreams, Zenon
<1>7. QED
  BY <1>5, <1>6, Zenon DEF Start, y, z

-----------------------------------------------------------------------------
(* The call stays the same until it is over.                                *)

Kept(x, y) == Goroutine(y) /\ y.call = x.call

\* Through what do and the method do with a result.
LEMMA ReturnsKeep ==
    ASSUME NEW x, Goroutine(x)
    PROVE  \A e, v : Kept(x, DoReturns(x, e, v)) /\ Kept(x, FnReturns(x, e, v))
<1>1. ASSUME NEW y, Kept(x, y), NEW e, NEW v PROVE Kept(x, Return(y, e, v))
  BY <1>1, Zenon DEF Return, Kept, Goroutine
<1>2. ASSUME NEW y, Kept(x, y), NEW w PROVE Kept(x, StartDo(y, w))
  BY <1>2 DEF StartDo, Kept, Goroutine
<1>3. ASSUME NEW y, Kept(x, y), NEW v
      PROVE  /\ Kept(x, [y EXCEPT !.pc = "chunk", !.names = v])
             /\ Kept(x, [y EXCEPT !.pc = "yield", !.buf = v])
             /\ Kept(x, [y EXCEPT !.pc = "acquire"])
             /\ Kept(x, [y EXCEPT !.spoilt = v])
  BY <1>3 DEF Kept, Goroutine
<1>4. ASSUME NEW y, Kept(x, y), NEW e, NEW v PROVE Kept(x, VersionReturns(y, e, v))
  BY <1>1, <1>2, <1>4, Zenon DEF VersionReturns
<1>5. ASSUME NEW y, Kept(x, y), NEW e, NEW v PROVE Kept(x, DoReturns(y, e, v))
  BY <1>1, <1>2, <1>3, <1>4, <1>5, Zenon DEF DoReturns
<1>6. Kept(x, x)
  BY DEF Kept
<1>7. ASSUME NEW e, NEW v PROVE Kept(x, FnReturns(x, e, v))
  BY <1>3, <1>5, <1>6, Zenon DEF FnReturns
<1>8. QED
  BY <1>5, <1>6, <1>7, Zenon

\* Kept by two steps.
LEMMA KeptTwice ==
    ASSUME NEW x, NEW y, NEW z, Kept(x, y), Kept(y, z)
    PROVE  Kept(x, z)
  BY Zenon DEF Kept

\* Through a loop and what starts one.
LEMMA LoopsKeep ==
    ASSUME NEW x, Goroutine(x)
    PROVE  /\ Kept(x, Loop(x)) /\ Kept(x, resolveCatFor(x)) /\ Kept(x, inferLine(x))
           /\ Kept(x, afterProbe(x)) /\ \A v : Kept(x, Advance(x, v))
<1>1. ASSUME NEW y, Kept(x, y), NEW v, NEW u
      PROVE  /\ Kept(x, [y EXCEPT !.pc = "rpc"]) /\ Kept(x, [y EXCEPT !.pc = "root"])
             /\ Kept(x, [y EXCEPT !.cat = v]) /\ Kept(x, [y EXCEPT !.i = v, !.acc = u])
  BY <1>1 DEF Kept, Goroutine
<1>2. ASSUME NEW y, Kept(x, y), NEW e, NEW v PROVE Kept(x, FnReturns(y, e, v))
  <2>1. Goroutine(y)
    BY <1>2 DEF Kept
  <2>2. Kept(y, FnReturns(y, e, v))
    BY <2>1, ReturnsKeep, Zenon
  <2>3. QED
    BY <1>2, <2>2, KeptTwice, Zenon
<1>3. ASSUME NEW y, Kept(x, y) PROVE Kept(x, Loop(y))
  BY <1>1, <1>2, <1>3, Zenon DEF Loop
<1>4. Kept(x, x)
  BY DEF Kept
<1>5. Kept(x, resolveCatFor(x))
  BY <1>1, <1>2, <1>3, <1>4, Zenon DEF resolveCatFor
<1>6. Kept(x, inferLine(x))
  BY <1>2, <1>4, Zenon DEF inferLine
<1>7. Kept(x, afterProbe(x))
  BY <1>5, <1>6, Zenon DEF afterProbe
<1>8. ASSUME NEW v PROVE Kept(x, Advance(x, v))
  BY <1>1, <1>2, <1>3, <1>4, Zenon DEF Advance
<1>9. QED
  BY <1>3, <1>4, <1>5, <1>6, <1>7, <1>8, Zenon

\* Through an attempt's start.
LEMMA StartKeeps ==
    ASSUME NEW x, Goroutine(x), NEW cn
    PROVE  Kept(x, Start(x, cn))
<1> DEFINE y == [x EXCEPT !.conn = cn, !.tries = @ + 1, !.i = 0, !.acc = <<>>, !.cat = Nil]
           z == [y EXCEPT !.pc = "probe"]
<1>1. Kept(x, y)
  BY DEF Kept, Goroutine
<1> HIDE DEF y
<1>2. Kept(x, z)
  BY <1>1 DEF Kept, Goroutine
<1>3. Kept(x, Loop(y)) /\ Kept(x, resolveCatFor(y))
  BY <1>1, LoopsKeep, KeptTwice, Zenon DEF Kept
<1>4. QED
  BY <1>2, <1>3, Zenon DEF Start, y

\* Through a reply.
LEMMA ReplyKeeps ==
    ASSUME NEW x, Goroutine(x), NEW r, x.pc \in {"probe", "root", "rpc", "followup"}
    PROVE  Kept(x, onReply(x, r))
<1>1. Kept(x, x)
  BY DEF Kept
<1>2. ASSUME NEW y, Kept(x, y), NEW e, NEW v
      PROVE  /\ Kept(x, FnReturns(y, e, v)) /\ Kept(x, Loop(y)) /\ Kept(x, inferLine(y))
             /\ Kept(x, afterProbe(y)) /\ Kept(x, Advance(y, v))
  <2>1. Goroutine(y)
    BY <1>2 DEF Kept
  <2>2. /\ Kept(y, FnReturns(y, e, v)) /\ Kept(y, Loop(y)) /\ Kept(y, inferLine(y))
        /\ Kept(y, afterProbe(y)) /\ Kept(y, Advance(y, v))
    BY <2>1, ReturnsKeep, LoopsKeep, Zenon
  <2>3. QED
    BY <1>2, <2>2, KeptTwice, Zenon
<1>3. ASSUME NEW y, Kept(x, y), NEW v
      PROVE  /\ Kept(x, [y EXCEPT !.conn.catalogs = v]) /\ Kept(x, [y EXCEPT !.conn.legacy = v])
             /\ Kept(x, [y EXCEPT !.version = v]) /\ Kept(x, [y EXCEPT !.pc = "probe"])
             /\ Kept(x, [y EXCEPT !.pc = "followup", !.err = v])
  BY <1>3 DEF Kept, Goroutine
<1>4. Kept(x, supportsCatalogs(x, r))
  BY <1>1, <1>2, <1>3, Zenon DEF supportsCatalogs
<1>5. Kept(x, warehouseRoot(x, r))
  BY <1>1, <1>2, Zenon DEF warehouseRoot
<1>6. Kept(x, followUp(x, r))
  BY <1>1, <1>2, Zenon DEF followUp
<1>7. Kept(x, learn(x, r))
  BY <1>1, <1>3, Zenon DEF learn
<1>8. ASSUME NEW v PROVE Kept(x, gotVersion(x, v))
  BY <1>1, <1>2, <1>3, Zenon DEF gotVersion
<1>9. Kept(x, methodReply(x, r))
  BY <1>1, <1>2, <1>3, <1>7, <1>8, Zenon DEF methodReply
<1>10. QED
  BY <1>4, <1>5, <1>6, <1>9, Zenon DEF onReply

\* Through what the server did, and an unread reply.
LEMMA HandledKeeps ==
    ASSUME NEW x, Goroutine(x), NEW q, NEW b
    PROVE  /\ Kept(x, Handled(x, q)) /\ Handled(x, q).pc = x.pc
           /\ Kept(x, [Handled(x, q) EXCEPT !.conn.dirty = b])
           /\ [Handled(x, q) EXCEPT !.conn.dirty = b].pc = x.pc
<1> DEFINE y == Handled(x, q)
<1>1. Kept(x, y) /\ y.pc = x.pc
  BY DEF Handled, Kept, Goroutine
<1> HIDE DEF y
<1>2. Kept(x, [y EXCEPT !.conn.dirty = b]) /\ [y EXCEPT !.conn.dirty = b].pc = x.pc
  BY <1>1 DEF Kept, Goroutine
<1>3. QED
  BY <1>1, <1>2 DEF y

-----------------------------------------------------------------------------
(* A stream, step by step.                                                  *)

\* r is what a server has to answer to a stream's request.
Answer(x, K, E, r) ==
    x.pc = "rpc" =>
        /\ r.err = "ok" /\ x.work.op = Stream[x.call.op].list =>
             IsListing(x.call.op, r.val) /\ K \subseteq Objs(x.call.op, r.val, Len(r.val))
        /\ r.err = "ok" /\ x.work.op = Stream[x.call.op].chunk =>
             ChunkOf(x.call.op, x.work.items, r.val, K, E)
        /\ r.err = "NotFound" => K = {}

\* A reply to a stream.
LEMMA OnReplyStreams ==
    ASSUME NEW x, NEW r, NEW K, NEW E, Base(x), Streaming(x, K, E), x.call.op \in DOMAIN Stream,
           x.pc \in {"probe", "root", "rpc", "followup"}, Says(x, r), Answer(x, K, E, r)
    PROVE  Streaming(onReply(x, r), K, E)
<1>1. x.pc \in {"probe", "rpc"} /\ Mid(x, K, E) /\ x.i = 0 /\ x.acc = <<>>
  BY Zenon DEF Streaming
<1>2. x.work.op \notin {"ServerVersion", "CreateDatabase", "DropDatabase", "GetCatalogs",
                        "GetNextNotifications"}
  BY StreamWork, Zenon
<1>3. ASSUME NEW b \in {"yes", "no"}, b = "yes" <=> x.conn.v # "2.3"
      PROVE  Streaming(afterProbe([x EXCEPT !.conn.catalogs = b]), K, E)
  <2> DEFINE y == [x EXCEPT !.conn.catalogs = b]
  <2>1. Base(y) /\ y.work = x.work
    BY <1>3, CatalogsLearnt, Zenon
  <2>2. y.i = 0 /\ y.acc = <<>> /\ Same(x, y)
    BY <1>1 DEF Base, Goroutine, Same
  <2> HIDE DEF y
  <2>3. Streaming(resolveCatFor(y), K, E)
    BY <1>1, <2>1, <2>2, MidKept, ResolveStreams, Zenon
  <2>4. afterProbe(y) = resolveCatFor(y)
    BY <1>2, <2>1, Zenon DEF afterProbe
  <2>5. QED
    BY <2>3, <2>4, Zenon DEF y
<1>4. ASSUME NEW e, e # "ok" PROVE Streaming(FnReturns(x, e, <<>>), K, E)
  BY <1>1, <1>4, FnFails, Zenon
<1>5. CASE x.pc = "probe"
  <2>1. onReply(x, r) = supportsCatalogs(x, r)
    BY <1>5, Zenon DEF onReply
  <2>2. r.err = "ok" => Streaming(supportsCatalogs(x, r), K, E)
    BY <1>3, <1>5, Zenon DEF supportsCatalogs, Says
  <2>3. r.err = "UnknownMethod" => Streaming(supportsCatalogs(x, r), K, E)
    BY <1>3, <1>5, Zenon DEF supportsCatalogs, Says
  <2>4. r.err \notin {"ok", "UnknownMethod"} => Streaming(supportsCatalogs(x, r), K, E)
    BY <1>4, Zenon DEF supportsCatalogs
  <2>5. QED
    BY <2>1, <2>2, <2>3, <2>4, Zenon
<1>6. CASE x.pc = "rpc"
  <2>1. onReply(x, r) = methodReply(x, r)
    BY <1>6, Zenon DEF onReply
  <2>2. learn(x, r) = x /\ \A v : localFilter(x.work, v) = v
    BY <1>2, Zenon DEF learn, localFilter
  <2>3. CASE r.err = "ok"
    <3>1. methodReply(x, r) = Advance(x, r.val)
      <4>1. ~tryReq(x, r) /\ r.err # "NotFound" /\ ~(r.err \notin {"ok", "NotFound", "Protocol"})
        BY <2>3 DEF tryReq
      <4>2. methodReply(x, r) = Advance(learn(x, r), localFilter(x.work, r.val))
        BY <1>2, <2>3, <4>1, Zenon DEF methodReply
      <4>3. QED
        BY <2>2, <4>2, Zenon
    <3>2. IsSeq(r.val)
      BY <1>6, <2>3, StreamWork, Zenon DEF Answer, IsListing, ChunkOf
    <3>3. QED
      BY <1>1, <1>6, <2>1, <2>3, <3>1, <3>2, AdvanceStreams, Zenon DEF Answer
  <2>4. CASE r.err # "ok"
    <3>1. tryReq(x, r) => Streaming([x EXCEPT !.conn.legacy = TRUE], K, E)
      <4> DEFINE y == [x EXCEPT !.conn.legacy = TRUE]
      <4>1. y.i = 0 /\ y.acc = <<>> /\ Same(x, y) /\ y.pc = "rpc"
        BY <1>1, <1>6 DEF Base, Goroutine, Same
      <4> HIDE DEF y
      <4>2. Streaming(y, K, E)
        BY <1>1, <4>1, MidKept, Zenon DEF Streaming
      <4>3. QED
        BY <4>2 DEF y
    <3>2. r.err = "NotFound" => Streaming(Advance(x, <<>>), K, E)
      <4> SUFFICES ASSUME r.err = "NotFound" PROVE Streaming(Advance(x, <<>>), K, E)
        OBVIOUS
      <4>1. K = {}
        BY <1>6 DEF Answer
      <4>2. IsSeq(<<>>) /\ IsInjective(<<>>) /\ Range(<<>>) = {} /\ DOMAIN <<>> = {}
        BY DEF IsSeq, IsInjective, Range
      <4>3. IsListing(x.call.op, <<>>) /\ K \subseteq Objs(x.call.op, <<>>, Len(<<>>))
        BY <4>1, <4>2, Zenon DEF IsListing
      <4>4. ChunkOf(x.call.op, x.work.items, <<>>, K, E)
        BY <4>1, <4>2, Zenon DEF ChunkOf
      <4>5. QED
        BY <1>1, <4>2, <4>3, <4>4, AdvanceStreams, Zenon
    <3>3. Streaming(FnReturns(x, r.err, <<>>), K, E)
      BY <1>4, <2>4
    <3>4. QED
      BY <1>2, <2>1, <2>2, <2>4, <3>1, <3>2, <3>3, Zenon DEF methodReply
  <2>5. QED
    BY <2>3, <2>4
<1>7. QED
  BY <1>1, <1>5, <1>6

\* A sequence of anything is one of its elements.
LEMMA SeqIs ==
    ASSUME NEW V, NEW s \in Seq(V)
    PROVE  IsSeq(s) /\ Range(s) \subseteq V /\ DOMAIN s = 1 .. Len(s) /\ Len(s) \in Nat
<1>1. DOMAIN s = 1 .. Len(s) /\ Len(s) \in Nat /\ s = [i \in 1 .. Len(s) |-> s[i]]
  OBVIOUS
<1>2. s \in Seq(Range(s))
  BY <1>1 DEF Range
<1>3. QED
  BY <1>1, <1>2 DEF IsSeq, Range

\* An element moves from the buffer to what has been yielded.
LEMMA OneMore ==
    ASSUME NEW u, NEW v, IsSeq(u), IsSeq(v), v # <<>>
    PROVE  /\ IsSeq(Append(u, Head(v))) /\ IsSeq(Tail(v))
           /\ Append(u, Head(v)) \o Tail(v) = u \o v
<1> DEFINE V == Range(u) \cup Range(v)
<1>1. u \in Seq(V) /\ v \in Seq(V)
  BY DEF IsSeq
<1> HIDE DEF V
<1>2. Head(v) \in V /\ Tail(v) \in Seq(V) /\ Append(u, Head(v)) \in Seq(V) /\ <<Head(v)>> \in Seq(V)
  BY <1>1
<1>3. IsSeq(Append(u, Head(v))) /\ IsSeq(Tail(v))
  BY <1>2, SeqIs, Zenon
<1>4. <<Head(v)>> \o Tail(v) = v
  <2> DEFINE w == <<Head(v)>> \o Tail(v)
  <2>1. Len(v) \in Nat /\ Len(v) > 0 /\ Len(Tail(v)) = Len(v) - 1 /\ Head(v) = v[1]
        /\ \A i \in 1 .. Len(Tail(v)) : Tail(v)[i] = v[i + 1]
    BY <1>1
  <2>2. Len(w) = Len(v) /\ w \in Seq(V)
    BY <1>2, <2>1
  <2>3. ASSUME NEW i \in 1 .. Len(v) PROVE w[i] = v[i]
    BY <1>2, <2>1
  <2> HIDE DEF w
  <2>4. w = v
    BY <1>1, <2>2, <2>3
  <2>5. QED
    BY <2>4 DEF w
<1>5. Append(u, Head(v)) = u \o <<Head(v)>>
  BY <1>1, <1>2
<1>6. QED
  BY <1>1, <1>2, <1>3, <1>4, <1>5

\* What comes first has nothing twice if the whole has not.
LEMMA FirstDistinct ==
    ASSUME NEW u, NEW v, IsSeq(u), IsSeq(v), IsInjective(u \o v)
    PROVE  IsInjective(u)
<1> DEFINE w == u \o v
<1>1. \A i \in DOMAIN u : i \in DOMAIN w /\ w[i] = u[i]
  <2>1. u \in Seq(Range(u) \cup Range(v)) /\ v \in Seq(Range(u) \cup Range(v))
    BY DEF IsSeq
  <2>2. QED
    BY <2>1
<1> HIDE DEF w
<1>2. IsInjective(w)
  BY DEF w
<1>3. QED
  BY <1>1, <1>2, Zenon DEF IsInjective

\* What a stream has yielded at any moment.
LEMMA StreamingExact ==
    ASSUME NEW x, NEW K, NEW E, Good(x), Streaming(x, K, E), x.call.op \in DOMAIN Stream
    PROVE  /\ IsInjective(x.val) /\ Range(x.val) \subseteq E
           /\ x.pc = "done" /\ x.err = "ok" => K \subseteq Range(x.val)
<1>1. CASE x.pc \in {"acquire", "probe", "rpc"}
  <2>1. Base(x)
    BY <1>1 DEF Good, Fresh
  <2>2. QED
    BY <1>1, <2>1, YieldedSoFar, Zenon DEF Streaming
<1>2. CASE x.pc = "chunk"
  BY <1>2 DEF Streaming, Progress
<1>3. CASE x.pc = "yield"
  <2>1. /\ IsSeq(x.val) /\ IsSeq(x.buf) /\ IsInjective(x.val \o x.buf)
        /\ Range(x.val \o x.buf) \subseteq E
    BY <1>3 DEF Streaming, Progress
  <2>2. Range(x.val \o x.buf) = Range(x.val) \cup Range(x.buf)
    BY <2>1, Joined, Zenon
  <2>3. IsInjective(x.val) /\ Range(x.val) \subseteq E
    BY <2>1, <2>2, FirstDistinct
  <2>4. QED
    BY <1>3, <2>3
<1>4. CASE x.pc = "done"
  BY <1>4 DEF Streaming
<1>5. QED
  BY <1>1, <1>2, <1>3, <1>4 DEF Streaming

\* The call begins.
LEMMA BeginStreams ==
    ASSUME NEW x, NEW w, NEW K, NEW E, Good(x), x.pc = "idle", IsCall(w)
    PROVE  LET y == [x EXCEPT !.call = w] IN
           /\ Streaming(StartDo(y, FirstWork(w)), K, E)
           /\ w.op \notin DOMAIN Stream => \A e, v : Streaming(Return(y, e, v), K, E)
           /\ StartDo(y, FirstWork(w)).call = w /\ \A e, v : Return(y, e, v).call = w
<1> DEFINE y == [x EXCEPT !.call = w]
           z == StartDo(y, FirstWork(w))
<1>1. Fresh(x)
  BY DEF Good, At
<1>2. Goroutine(y) /\ y.call = w /\ y.val = <<>> /\ y.pos = 0
  BY <1>1 DEF Fresh, Goroutine
<1> HIDE DEF y
<1>3. z.call = w /\ z.val = <<>> /\ z.pos = 0 /\ z.pc = "acquire" /\ z.work = FirstWork(w)
  BY <1>2 DEF StartDo, Goroutine
<1>4. ASSUME NEW e, NEW v PROVE Return(y, e, v).call = w
  BY <1>2, Zenon DEF Return, Goroutine
<1>5. ASSUME w.op \in DOMAIN Stream PROVE FirstWork(w).op = Stream[w.op].list /\ FirstWork(w).n = -1
  <2>1. w.op # "DropPartitions"
    BY <1>5, StreamOps
  <2>2. FirstWork(w) = [w EXCEPT !.op = Stream[w.op].list, !.n = -1]
    BY <1>5, <2>1, Zenon DEF FirstWork
  <2>3. QED
    BY <2>2 DEF IsCall
<1> HIDE DEF z
<1>6. ASSUME w.op \in DOMAIN Stream PROVE Mid(z, K, E)
  <2>1. Stream[w.op].list # Stream[w.op].chunk
    BY <1>6, StreamOps
  <2>2. QED
    BY <1>3, <1>5, <1>6, <2>1, Zenon DEF Mid
<1>7. Streaming(z, K, E)
  BY <1>3, <1>6, Zenon DEF Streaming
<1>8. w.op \notin DOMAIN Stream => \A e, v : Streaming(Return(y, e, v), K, E)
  BY <1>4, Zenon DEF Streaming
<1>9. QED
  BY <1>3, <1>4, <1>7, <1>8, Zenon DEF y, z

\* A goroutine whose call is not a stream.
LEMMA NoStream ==
    ASSUME NEW x, NEW y, NEW K, NEW E, Kept(x, y), x.call.op \notin DOMAIN Stream
    PROVE  Streaming(y, K, E)
  BY Zenon DEF Kept, Streaming

\* It gets a connection to a server of version v.
LEMMA AcquireStreams ==
    ASSUME NEW x, NEW K, NEW E, Good(x), Streaming(x, K, E), x.pc = "acquire", NEW v \in Version,
           NEW asked, NEW legacy,
           legacy => Doing(x).legacy # Nil /\ Doing(x).rpc \in removedRPCs(v),
           NEW without, without \subseteq {"getVersion"}
    PROVE  LET y == Start(x, [v |-> v, without |-> without, legacy |-> legacy, dirty |-> FALSE,
                              catalogs |-> IF ~asked THEN "unknown"
                                           ELSE IF v = "2.3" THEN "no" ELSE "yes"])
           IN  Streaming(y, K, E) /\ Kept(x, y)
<1> DEFINE cn == [v |-> v, without |-> without, legacy |-> legacy, dirty |-> FALSE,
                  catalogs |-> IF ~asked THEN "unknown" ELSE IF v = "2.3" THEN "no" ELSE "yes"]
<1>1. Base(x) /\ x.tries < MaxRetries
  BY DEF Good, Fresh, At
<1>2. ConnOK(cn)
  BY DEF ConnOK
<1>3. LegacyOK(x.work, cn)
  BY DEF LegacyOK, Doing
<1> HIDE DEF cn
<1>4. Kept(x, Start(x, cn))
  BY <1>1, StartKeeps DEF Base
<1>5. Streaming(Start(x, cn), K, E)
  <2>1. CASE x.call.op \in DOMAIN Stream
    <3>1. Mid(x, K, E)
      BY <2>1, Zenon DEF Streaming
    <3>2. QED
      BY <1>1, <1>2, <1>3, <3>1, StartStreams, Zenon
  <2>2. CASE x.call.op \notin DOMAIN Stream
    BY <1>4, <2>2, NoStream, Zenon
  <2>3. QED
    BY <2>1, <2>2
<1>6. QED
  BY <1>4, <1>5 DEF cn

\* It gets none.
LEMMA DialStreams ==
    ASSUME NEW x, NEW K, NEW E, Good(x), Streaming(x, K, E), x.pc = "acquire"
    PROVE  LET y == DoReturns(x, "Unavailable", <<>>)
               z == [x EXCEPT !.tries = @ + 1]
           IN  Streaming(y, K, E) /\ Kept(x, y) /\ Streaming(z, K, E) /\ Kept(x, z)
<1> DEFINE y == DoReturns(x, "Unavailable", <<>>)
           z == [x EXCEPT !.tries = @ + 1]
<1>1. Base(x) /\ Goroutine(x)
  BY DEF Good, Fresh, Base
<1>2. Kept(x, y)
  BY <1>1, ReturnsKeep, Zenon
<1>3. Kept(x, z) /\ Same(x, z) /\ z.pc = "acquire"
  BY <1>1 DEF Goroutine, Kept, Same
<1> HIDE DEF z
<1>4. CASE x.call.op \in DOMAIN Stream
  <2>1. Mid(x, K, E)
    BY <1>4, Zenon DEF Streaming
  <2>2. Streaming(y, K, E)
    BY <1>1, <2>1, DoFails
  <2>3. Streaming(z, K, E)
    BY <1>3, <2>1, MidKept, Zenon DEF Streaming
  <2>4. QED
    BY <1>2, <1>3, <2>2, <2>3 DEF z
<1>5. CASE x.call.op \notin DOMAIN Stream
  BY <1>2, <1>3, <1>5, NoStream, Zenon DEF z
<1>6. QED
  BY <1>4, <1>5

\* It gets the server's reply q.
LEMMA ReplyStreams ==
    ASSUME NEW x, NEW q, NEW K, NEW E, Good(x), Streaming(x, K, E),
           x.pc \in {"probe", "root", "rpc", "followup"}, Says(x, q),
           x.call.op \in DOMAIN Stream => Answer(x, K, E, q)
    PROVE  LET y == onReply(Handled(x, q), q) IN Streaming(y, K, E) /\ Kept(x, y)
<1> DEFINE h == Handled(x, q)
           y == onReply(h, q)
<1>1. Base(x) /\ Goroutine(x)
  BY DEF Good, Fresh, Base
<1>2. Kept(x, h) /\ h.pc = x.pc
  BY <1>1, HandledKeeps, Zenon
<1>3. x.call.op \in DOMAIN Stream => h = x
  BY <1>1, StreamWork, Zenon DEF Handled
<1> HIDE DEF h
<1>4. Kept(x, y)
  <2>0. Goroutine(h) /\ h.pc \in {"probe", "root", "rpc", "followup"}
    BY <1>2 DEF Kept
  <2>1. Kept(h, y)
    BY <2>0, ReplyKeeps
  <2>2. QED
    BY <1>2, <2>1, KeptTwice, Zenon
<1>5. CASE x.call.op \in DOMAIN Stream
  <2>1. Streaming(onReply(x, q), K, E)
    BY <1>1, <1>5, OnReplyStreams, Zenon
  <2>2. QED
    BY <1>3, <1>4, <1>5, <2>1, Zenon DEF h
<1>6. CASE x.call.op \notin DOMAIN Stream
  BY <1>4, <1>6, NoStream, Zenon DEF h
<1>7. QED
  BY <1>5, <1>6

\* The request was handled with reply q, or not at all, and it gets an error.
LEMMA LostStreams ==
    ASSUME NEW x, NEW q, NEW b, NEW r, NEW K, NEW E, Good(x), Streaming(x, K, E),
           x.pc \in {"probe", "root", "rpc", "followup"}, r.err \in {"Unavailable", "Protocol"}
    PROVE  LET y == onReply([Handled(x, q) EXCEPT !.conn.dirty = b], r) IN
           Streaming(y, K, E) /\ Kept(x, y)
<1> DEFINE h == [Handled(x, q) EXCEPT !.conn.dirty = b]
           y == onReply(h, r)
<1>1. Base(x) /\ Goroutine(x) /\ At(x)
  BY DEF Good, Fresh, Base
<1>2. Kept(x, h) /\ h.pc = x.pc
  BY <1>1, HandledKeeps, Zenon
<1>3. Pending(h, r)
  BY <1>1, HandledPending, DirtyPending, Zenon
<1>4. x.call.op \in DOMAIN Stream => Same(x, h) /\ h.i = x.i /\ h.acc = x.acc
  <2> SUFFICES ASSUME x.call.op \in DOMAIN Stream PROVE Same(x, h) /\ h.i = x.i /\ h.acc = x.acc
    OBVIOUS
  <2>1. h = [x EXCEPT !.conn.dirty = b]
    BY <1>1, StreamWork, Zenon DEF Handled
  <2> HIDE DEF h
  <2>2. QED
    BY <1>1, <2>1 DEF Same, Goroutine
<1> HIDE DEF h
<1>5. Kept(x, y)
  <2>0. Goroutine(h) /\ h.pc \in {"probe", "root", "rpc", "followup"}
    BY <1>2 DEF Kept
  <2>1. Kept(h, y)
    BY <2>0, ReplyKeeps
  <2>2. QED
    BY <1>2, <2>1, KeptTwice, Zenon
<1>6. CASE x.call.op \in DOMAIN Stream
  <2>1. Streaming(h, K, E)
    <3>1. x.pc \in {"probe", "rpc"} /\ Mid(x, K, E) /\ x.i = 0 /\ x.acc = <<>>
      BY <1>6, Zenon DEF Streaming
    <3>2. Mid(h, K, E) /\ h.i = 0 /\ h.acc = <<>> /\ h.pc \in {"probe", "rpc"}
      BY <1>2, <1>4, <1>6, <3>1, MidKept, Zenon
    <3>3. QED
      BY <3>2, Zenon DEF Streaming
  <2>2. Answer(h, K, E, r)
    BY DEF Answer
  <2>3. Streaming(y, K, E)
    BY <1>2, <1>3, <1>6, <2>1, <2>2, OnReplyStreams, Zenon DEF Pending, Kept
  <2>4. QED
    BY <1>5, <2>3 DEF h
<1>7. CASE x.call.op \notin DOMAIN Stream
  BY <1>5, <1>7, NoStream, Zenon DEF h
<1>8. QED
  BY <1>6, <1>7

\* The follow-up is no stream's.
LEMMA DesyncStreams ==
    ASSUME NEW x, NEW r, NEW K, NEW E, Good(x), Streaming(x, K, E), x.pc = "followup"
    PROVE  Streaming(onReply(x, r), K, E) /\ Kept(x, onReply(x, r))
<1>1. Goroutine(x)
  BY DEF Good, Fresh, Base
<1>2. Kept(x, onReply(x, r))
  BY <1>1, ReplyKeeps
<1>3. x.call.op \notin DOMAIN Stream
  BY DEF Streaming
<1>4. QED
  BY <1>2, <1>3, NoStream, Zenon

\* Its context ends.
LEMMA CancelStreams ==
    ASSUME NEW x, NEW K, NEW E, Good(x), Streaming(x, K, E)
    PROVE  LET y == [x EXCEPT !.ctxDone = TRUE] IN Streaming(y, K, E) /\ Kept(x, y)
<1> DEFINE y == [x EXCEPT !.ctxDone = TRUE]
<1>1. Goroutine(x)
  BY DEF Good, Fresh, Base
<1>2. /\ Kept(x, y) /\ Same(x, y) /\ y.pc = x.pc /\ y.i = x.i /\ y.acc = x.acc /\ y.buf = x.buf
      /\ y.err = x.err
  BY <1>1 DEF Goroutine, Kept, Same
<1> HIDE DEF y
<1>3. Mid(x, K, E) => Mid(y, K, E)
  BY <1>2, MidKept, Zenon
<1>4. Streaming(y, K, E)
  BY <1>2, <1>3, Zenon DEF Streaming, Same
<1>5. QED
  BY <1>2, <1>4 DEF y

\* It is at the head of its loop over chunks.
LEMMA ChunkStreams ==
    ASSUME NEW x, NEW K, NEW E, Good(x), Streaming(x, K, E), x.pc = "chunk"
    PROVE  LET y == StartDo([x EXCEPT !.pos = @ + ChunkSize],
                            [x.call EXCEPT !.op = Stream[@].chunk,
                                           !.items = batch(x.names, x.pos, ChunkSize)])
           IN  /\ x.pos >= Len(x.names) => Streaming(Return(x, "ok", x.val), K, E)
               /\ Streaming(Return(x, "Unavailable", x.val), K, E)
               /\ ~(x.pos >= Len(x.names)) => Streaming(y, K, E)
               /\ Kept(x, y) /\ \A e : Kept(x, Return(x, e, x.val))
<1> DEFINE z == [x EXCEPT !.pos = @ + ChunkSize]
           w == [x.call EXCEPT !.op = Stream[@].chunk,
                               !.items = batch(x.names, x.pos, ChunkSize)]
           y == StartDo(z, w)
<1>1. Base(x) /\ Goroutine(x) /\ x.call.op \in DOMAIN Stream
  BY DEF Good, Fresh, At, Base
<1>2. x.pos \in Nat /\ Progress(x.call.op, x.names, x.val, x.pos, K, E)
  BY <1>1 DEF Streaming
<1>3. /\ Len(x.names) \in Nat /\ DOMAIN x.names = 1 .. Len(x.names)
      /\ IsSeq(x.val) /\ IsInjective(x.val) /\ Range(x.val) \subseteq E
  BY <1>2 DEF Progress, IsListing, IsSeq
<1>4. x.pos >= Len(x.names) => K \subseteq Range(x.val)
  <2> SUFFICES ASSUME x.pos >= Len(x.names) PROVE K \subseteq Range(x.val)
    OBVIOUS
  <2>1. \A j \in DOMAIN x.names : j <= x.pos /\ j <= Len(x.names)
    BY <1>2, <1>3
  <2>2. Objs(x.call.op, x.names, Len(x.names)) = Objs(x.call.op, x.names, x.pos)
    BY <2>1 DEF Objs
  <2>3. QED
    BY <1>2, <2>2 DEF Progress
<1>5. x.pos >= Len(x.names) => Streaming(Return(x, "ok", x.val), K, E)
  BY <1>1, <1>3, <1>4, ReturnStreaming, Zenon
<1>6. Streaming(Return(x, "Unavailable", x.val), K, E)
  BY <1>1, <1>3, ReturnStreaming
<1>7. ASSUME NEW e PROVE Kept(x, Return(x, e, x.val))
  BY <1>1, Zenon DEF Return, Goroutine, Kept
<1>8. /\ Goroutine(z) /\ z.call = x.call /\ z.val = x.val /\ z.names = x.names
      /\ z.pos = x.pos + ChunkSize
  BY <1>1 DEF Goroutine
<1>9. w.op = Stream[x.call.op].chunk /\ w.items = batch(x.names, x.pos, ChunkSize)
  BY <1>1 DEF Base, IsCall
<1> HIDE DEF z, w
<1>10. /\ Kept(x, y) /\ y.call = x.call /\ y.val = x.val /\ y.names = x.names
       /\ y.pos = x.pos + ChunkSize /\ y.work = w /\ y.pc = "acquire"
  BY <1>8 DEF StartDo, Goroutine, Kept
<1> HIDE DEF y
<1>11. ASSUME ~(x.pos >= Len(x.names)) PROVE Mid(y, K, E)
  <2>1. /\ y.pos \in Nat /\ y.pos - ChunkSize = x.pos /\ x.pos < Len(x.names)
    BY <1>2, <1>3, <1>10, <1>11, SizesAssumption
  <2>2. Stream[x.call.op].list # Stream[x.call.op].chunk
    BY <1>1, StreamOps
  <2>3. QED
    BY <1>1, <1>2, <1>9, <1>10, <2>1, <2>2, Zenon DEF Mid
<1>12. ~(x.pos >= Len(x.names)) => Streaming(y, K, E)
  BY <1>10, <1>11, Zenon DEF Streaming
<1>13. QED
  BY <1>5, <1>6, <1>7, <1>10, <1>12 DEF y, z, w

\* It hands the consumer an object, or has no more of the chunk.
LEMMA YieldStreams ==
    ASSUME NEW x, NEW K, NEW E, Good(x), Streaming(x, K, E), x.pc = "yield"
    PROVE  LET y == [x EXCEPT !.pc = "chunk"]
               z == [x EXCEPT !.val = Append(@, Head(x.buf)), !.buf = Tail(@)]
               s == Return(x, "stopped", Append(x.val, Head(x.buf)))
           IN  /\ x.buf = <<>> => Streaming(y, K, E)
               /\ x.buf # <<>> => Streaming(z, K, E) /\ Streaming(s, K, E)
               /\ Kept(x, y) /\ Kept(x, z) /\ Kept(x, s)
<1> DEFINE y == [x EXCEPT !.pc = "chunk"]
           z == [x EXCEPT !.val = Append(@, Head(x.buf)), !.buf = Tail(@)]
           u == Append(x.val, Head(x.buf))
           s == Return(x, "stopped", u)
<1>1. Base(x) /\ Goroutine(x) /\ x.call.op \in DOMAIN Stream
  BY Zenon DEF Good, Fresh, At, Base
<1>2. /\ x.pos \in Nat /\ IsSeq(x.val) /\ IsSeq(x.buf)
      /\ Progress(x.call.op, x.names, x.val \o x.buf, x.pos, K, E)
  BY <1>1 DEF Streaming
<1>3. Kept(x, s)
  BY <1>1, Zenon DEF Return, Goroutine, Kept
<1>4. Kept(x, y) /\ Same(x, y) /\ y.pc = "chunk"
  BY <1>1 DEF Kept, Goroutine, Same
<1>5. /\ Kept(x, z) /\ z.call = x.call /\ z.names = x.names /\ z.pos = x.pos /\ z.pc = "yield"
      /\ z.val = u /\ z.buf = Tail(x.buf)
  BY <1>1 DEF Kept, Goroutine
<1> HIDE DEF y, z, s
<1>6. x.buf = <<>> => Streaming(y, K, E)
  <2> SUFFICES ASSUME x.buf = <<>> PROVE Streaming(y, K, E)
    OBVIOUS
  <2>1. x.val \o x.buf = x.val
    BY <1>2 DEF IsSeq
  <2>2. QED
    BY <1>2, <1>4, <2>1, Zenon DEF Streaming, Same
<1>7. ASSUME x.buf # <<>> PROVE Streaming(z, K, E) /\ Streaming(s, K, E)
  <2>1. IsSeq(u) /\ IsSeq(Tail(x.buf)) /\ u \o Tail(x.buf) = x.val \o x.buf
    BY <1>2, <1>7, OneMore, Zenon
  <2> HIDE DEF u
  <2>2. Streaming(z, K, E)
    BY <1>2, <1>5, <2>1, Zenon DEF Streaming
  <2>3. Range(u \o Tail(x.buf)) = Range(u) \cup Range(Tail(x.buf))
    BY <2>1, Joined, Zenon
  <2>4. IsInjective(u \o Tail(x.buf)) /\ Range(u \o Tail(x.buf)) \subseteq E
    BY <1>2, <2>1, Zenon DEF Progress
  <2>5. IsInjective(u) /\ Range(u) \subseteq E
    BY <2>1, <2>3, <2>4, FirstDistinct
  <2>6. Streaming(s, K, E)
    BY <1>1, <2>1, <2>5, ReturnStreaming DEF s
  <2>7. QED
    BY <2>2, <2>6
<1>8. QED
  BY <1>3, <1>4, <1>5, <1>6, <1>7 DEF y, z, s

\* add_partitions sends a batch of what it was given.
LEMMA AddsSequence ==
    ASSUME NEW x, Base(x), At(x), x.pc \in {"probe", "root", "rpc", "followup"},
           request(x).m = "add_partitions_req"
    PROVE  IsSeq(request(x).items)
<1>1. x.pc = "rpc" /\ x.work.op = "AddPartitions"
      /\ request(x).items = batch(x.work.items, x.i, BatchSize)
  BY RequestSent
<1>2. x.call.op = "AddPartitions"
  BY <1>1, StreamOps, MethodFacts DEF Base, Stage, IsCall
<1>3. x.work.items \in Seq(Range(x.work.items))
  BY <1>1, <1>2 DEF Base, Stage, Place, IsCall, Range
<1>4. Looping(x) /\ ~Doing(x).read
  BY <1>1, MethodFacts, SizesAssumption DEF Looping, Doing, Batched, Writing, Names
<1>5. x.i \in Nat /\ x.i < Len(x.work.items)
  BY <1>1, <1>4 DEF At, Turn
<1>6. batch(x.work.items, x.i, BatchSize) \in Seq(Range(x.work.items))
  BY <1>3, <1>5, BatchOf, SizesAssumption
<1>7. QED
  BY <1>1, <1>6, SeqIs

\* All of a chunk's names go into one request.
LEMMA WholeChunk ==
    ASSUME NEW x, NEW K, NEW E, Mid(x, K, E), x.work.op = Stream[x.call.op].chunk
    PROVE  batch(x.work.items, 0, ChunkSize) = x.work.items /\ IsListing(x.call.op, x.work.items)
<1> DEFINE m == x.pos - ChunkSize
           ns == x.names
           b == batch(ns, m, ChunkSize)
           op == x.call.op
<1>1. m \in Nat /\ m < Len(ns) /\ x.work.items = b /\ IsListing(op, ns)
  BY DEF Mid, Progress
<1>2. /\ b \in Seq(Range(ns)) /\ Len(b) \in Nat /\ Len(b) <= ChunkSize
      /\ \A i \in DOMAIN b : m + i \in DOMAIN ns /\ b[i] = ns[m + i]
      /\ DOMAIN b = 1 .. Len(b)
  <2>1. ns \in Seq(Range(ns)) /\ ChunkSize \in Nat \ {0}
    BY <1>1, SizesAssumption DEF IsListing, IsSeq
  <2> HIDE DEF ns, m
  <2>2. QED
    BY <1>1, <2>1, BatchOf
<1> HIDE DEF b, m, ns, op
<1>3. batch(b, 0, ChunkSize) = b
  <2>1. ASSUME NEW L \in Nat, NEW C \in Nat, L <= C
        PROVE  (IF 0 + C > L THEN L ELSE 0 + C) = L
    BY <2>1
  <2>2. ChunkSize \in Nat
    BY SizesAssumption
  <2>3. (IF 0 + ChunkSize > Len(b) THEN Len(b) ELSE 0 + ChunkSize) = Len(b)
    BY <1>2, <2>1, <2>2, Zenon
  <2>4. batch(b, 0, ChunkSize) = SubSeq(b, 1, Len(b))
    BY <2>3 DEF batch
  <2>5. QED
    BY <1>2, <2>4
<1>4. ASSUME NEW i \in DOMAIN b, NEW j \in DOMAIN b, Obj(op, b[i]) = Obj(op, b[j]) PROVE i = j
  <2>1. m + i \in DOMAIN ns /\ m + j \in DOMAIN ns /\ b[i] = ns[m + i] /\ b[j] = ns[m + j]
    BY <1>2, <1>4
  <2>2. m + i = m + j
    BY <1>1, <1>4, <2>1, Zenon DEF IsListing
  <2>3. QED
    BY <1>1, <1>2, <2>2
<1>5. ASSUME op = "GetPartitionsSeq", NEW i \in DOMAIN b PROVE b[i] = partitionName(b[i][2])
  <2>1. m + i \in DOMAIN ns /\ b[i] = ns[m + i]
    BY <1>2
  <2>2. QED
    BY <1>1, <1>5, <2>1, Zenon DEF IsListing
<1>6. IsSeq(b)
  BY <1>2, SeqIs
<1>7. IsListing(op, b)
  BY <1>4, <1>5, <1>6 DEF IsListing
<1>8. QED
  BY <1>1, <1>3, <1>7 DEF op

-----------------------------------------------------------------------------
(* True answers.                                                            *)

\* A list of different tables.
LEMMA TablesListed ==
    ASSUME NEW v, IsSeq(v), IsInjective(v)
    PROVE  IsListing("GetTablesSeq", v) /\ Range(v) = Objs("GetTablesSeq", v, Len(v))
<1>1. \A n : Obj("GetTablesSeq", n) = n
  BY DEF Obj
<1>2. \A j \in DOMAIN v : j <= Len(v)
  BY DEF IsSeq
<1>3. QED
  BY <1>1, <1>2 DEF IsListing, IsInjective, Objs, Range

\* The names of different partitions.
LEMMA PartitionsListed ==
    ASSUME NEW ps, IsSeq(ps), IsInjective(ps)
    PROVE  LET v == [n \in DOMAIN ps |-> partitionName(ps[n])] IN
           IsListing("GetPartitionsSeq", v) /\ Range(ps) = Objs("GetPartitionsSeq", v, Len(v))
<1> DEFINE v == [n \in DOMAIN ps |-> partitionName(ps[n])]
           op == "GetPartitionsSeq"
<1>1. DOMAIN ps = 1 .. Len(ps) /\ Len(ps) \in Nat
  BY DEF IsSeq
<1>2. v \in Seq({partitionName(ps[n]) : n \in DOMAIN ps})
  BY <1>1
<1>3. IsSeq(v) /\ DOMAIN v = 1 .. Len(v) /\ Len(v) \in Nat
  <2> HIDE DEF v
  <2>1. QED
    BY <1>2, SeqIs
<1>4. DOMAIN v = DOMAIN ps /\ \A n \in DOMAIN ps : v[n] = partitionName(ps[n])
  OBVIOUS
<1> HIDE DEF v
<1>5. \A n \in DOMAIN ps : Obj(op, v[n]) = ps[n] /\ v[n] = partitionName(v[n][2])
  BY <1>4 DEF Obj, partitionName
<1>6. \A j \in DOMAIN v : j <= Len(v)
  BY <1>3
<1>7. IsListing(op, v)
  BY <1>3, <1>4, <1>5 DEF IsListing, IsInjective
<1>8. Objs(op, v, Len(v)) = {ps[n] : n \in DOMAIN ps}
  BY <1>4, <1>5, <1>6, Zenon DEF Objs
<1>9. QED
  BY <1>7, <1>8 DEF v, Range

\* What a loop over a slice with nothing twice appends.
LEMMA TakenOnce ==
    ASSUME NEW s, IsSeq(s), NEW I, \A i, j \in I \cap DOMAIN s : s[i] = s[j] => i = j
    PROVE  LET u == Taken(s, I) IN
           IsSeq(u) /\ IsInjective(u) /\ Range(u) = {s[i] : i \in I \cap DOMAIN s}
<1> DEFINE u == Taken(s, I)
<1>1. s \in Seq(Range(s))
  BY DEF IsSeq
<1>2. /\ u \in Seq(Range(s))
      /\ \A j \in DOMAIN u : \E i \in I \cap DOMAIN s : u[j] = s[i]
      /\ \A i \in I \cap DOMAIN s : \E j \in DOMAIN u : u[j] = s[i]
      /\ (\A i, j \in I \cap DOMAIN s : s[i] = s[j] => i = j) => IsInjective(u)
  BY <1>1, TakenFacts, Zenon
<1> HIDE DEF u
<1>3. IsSeq(u)
  BY <1>2, SeqIs, Zenon
<1>4. Range(u) = {s[i] : i \in I \cap DOMAIN s}
  BY <1>2 DEF Range
<1>5. QED
  BY <1>2, <1>3, <1>4 DEF u

\* Those tables of a chunk that are there.
LEMMA TablesFetched ==
    ASSUME NEW items, IsListing("GetTablesSeq", items), NEW I, NEW S,
           \A n \in DOMAIN items : n \in I <=> items[n] \in S,
           NEW K, NEW E, K \subseteq S, S \subseteq E
    PROVE  ChunkOf("GetTablesSeq", items, Taken(items, I), K, E)
<1> DEFINE v == Taken(items, I)
<1>1. \A n : Obj("GetTablesSeq", n) = n
  BY DEF Obj
<1>2. IsSeq(items) /\ \A i, j \in DOMAIN items : items[i] = items[j] => i = j
  BY <1>1 DEF IsListing
<1>3. IsSeq(v) /\ IsInjective(v) /\ Range(v) = {items[i] : i \in I \cap DOMAIN items}
  BY <1>2, TakenOnce, Zenon
<1> HIDE DEF v
<1>4. Range(v) \subseteq E
  BY <1>3
<1>5. ASSUME NEW o \in Range(v) PROVE \E i \in DOMAIN items : o = items[i]
  BY <1>3
<1>6. ASSUME NEW i \in DOMAIN items, items[i] \in K PROVE items[i] \in Range(v)
  BY <1>3, <1>6
<1>7. QED
  BY <1>1, <1>3, <1>4, <1>5, <1>6, Zenon DEF ChunkOf, v

\* The partitions with one of a chunk's names.
LEMMA PartitionsFetched ==
    ASSUME NEW items, IsListing("GetPartitionsSeq", items), NEW ps, IsSeq(ps), IsInjective(ps),
           NEW I, \A n \in DOMAIN ps : n \in I <=> partitionName(ps[n]) \in Range(items),
           NEW K, NEW E, K \subseteq Range(ps), Range(ps) \subseteq E
    PROVE  ChunkOf("GetPartitionsSeq", items, Taken(ps, I), K, E)
<1> DEFINE v == Taken(ps, I)
           op == "GetPartitionsSeq"
<1>1. \A n : Obj(op, n) = n[2] /\ partitionName(n)[2] = n
  BY DEF Obj, partitionName
<1>2. \A i, j \in I \cap DOMAIN ps : ps[i] = ps[j] => i = j
  BY DEF IsInjective
<1>3. IsSeq(v) /\ IsInjective(v) /\ Range(v) = {ps[i] : i \in I \cap DOMAIN ps}
  BY <1>2, TakenOnce, Zenon
<1> HIDE DEF v, op
<1>4. Range(v) \subseteq E
  BY <1>3 DEF Range
<1>5. ASSUME NEW o \in Range(v) PROVE \E i \in DOMAIN items : o = Obj(op, items[i])
  <2>1. PICK n \in I \cap DOMAIN ps : o = ps[n]
    BY <1>3
  <2>2. PICK i \in DOMAIN items : partitionName(ps[n]) = items[i]
    BY DEF Range
  <2>3. QED
    BY <1>1, <2>1, <2>2, Zenon
<1>6. ASSUME NEW i \in DOMAIN items, Obj(op, items[i]) \in K PROVE Obj(op, items[i]) \in Range(v)
  <2>1. PICK n \in DOMAIN ps : items[i][2] = ps[n]
    BY <1>1, <1>6 DEF Range
  <2>2. items[i] = partitionName(ps[n])
    BY <2>1, Zenon DEF IsListing
  <2>3. n \in I \cap DOMAIN ps
    BY <2>2 DEF Range
  <2>4. QED
    BY <1>1, <1>3, <2>1, <2>3
<1>7. QED
  BY <1>3, <1>4, <1>5, <1>6, Zenon DEF ChunkOf, v, op
=============================================================================
