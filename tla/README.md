# TLA+ models of hms-client-go

hms-client-go is a Go client for the Hive Metastore: a pool of connections per
endpoint, failover between endpoints, binary (NOSASL, SASL PLAIN, SASL GSSAPI)
and HTTP transports, version fallbacks, and an in-memory metastore (`hmstest`)
for tests. This directory holds TLA+ modules that model the parts of it where
concurrency, ordering and failure matter, TLC configurations that check them
on small instances, and TLAPS proofs for instances of any size.

## The system and its modules

| Part | Source | Modules |
|---|---|---|
| Connection pool, recovery probe, `Close` | `client.go` | `Pool`, `Lifecycle` |
| Endpoint selection and cooldowns | `internal/ha/cluster.go` | `Cluster` |
| `New`'s dial loop, `do`'s retry loop | `client.go` | `Failover` |
| Kerberos credentials' life cycle | `internal/transport/gssapi.go` | `KerberosSession` |
| SASL negotiation, PLAIN and GSSAPI | `internal/transport/sasl.go`, `gssapi.go` | `SaslHandshake` |
| Socket deadlines and cancellation | `internal/transport/ctxclient.go`, `binary.go` | `ConnDeadline` |
| The limit on a reply | `internal/transport/budget.go` | `Budget` |
| A binary connection: the three together | `internal/transport/binary.go` | `Conn` |
| Catalog, database, table, partition, notification, statistics and version methods; version fallback | `client.go`, `table.go`, `partition.go`, `notification.go`, `stats.go`, `conn.go`, `errors.go` | `Methods`, `Calls` |
| The in-memory metastore's objects | `hmstest/handler.go`, `server.go` | `FakeStore`; `Wire` for what client and server share |
| Its transactions and locks | `hmstest/acid.go` | `AcidStore` |
| Its accept loop, handlers, fault injection, `Stop` | `hmstest/server.go` | `FakeServer` |
| Conversion of tables, databases and partitions | `convert.go` | `Convert` |
| Transaction and lock methods, and users of one server: the last three together | `acid.go`, `client.go`, `table.go` | `Sessions` |

How the parts interact: every public method runs a closure through `do`
(`Failover`), which asks `Cluster` for an endpoint and `Pool` for a connection
of it. A connection is dialed by `DialBinary`, which runs the handshake of
`SaslHandshake` under the deadline protocol of `ConnDeadline`, reads replies
through `Budget` (`Conn` composes the three) and takes its Kerberos ticket from the shared `KerberosSession`. `Close` of `Pool` ends with
the `Close` of `KerberosSession`; `SessionUnused` of `Pool` is the assumption
under which `KerberosSession` models it. `Calls` takes the other side: what the
closures do with the connections they get, against the server side of
`FakeStore`, with which endpoint and which pooled connection left open.
`Sessions` follows several clients over time: what they lock, read, alter,
commit and abort on one running server, and what is left of it when replies are
lost and the server is stopped.

The modules compose where the code's parts do. `Failover` extends `Cluster`,
since `do` and `New` are its only users. `Pool` refines `Lifecycle`.
`Calls` extends `Methods` and instantiates `FakeStore`; `Wire` (versions, the RPCs each lacks,
replies, partition names) is common to both sides. `Conn` extends its three parts and synchronises
their actions; `Sessions` does so with `AcidStore`, `FakeServer` and `Convert`.
Pool and health are kept apart: in
`client.go` neither reads the other's state, and `do` joins them by the
outcomes that both modules allow at any time.

### Pool

One variable per piece of shared state: `idle` and `live` are
`endpointPool.idle` and `.live`, `closed` stands for `Client.closed` and the
closing of `closeCh` in the same critical section, `inFlight` for
`inFlightDials`, `mu` for the holder of `Client.mu`. Each caller has a program
counter whose values are the points of `acquire`, `do` and `release` between
two accesses to shared state; so have the probe and each caller of `Close`.
Critical sections that touch shared state once are one step guarded by
`mu = Nil`; the drain of `Close` and the hand-over of the probe are several
steps, because `acquire` receives from `idle` and reads `live` without `mu`.
Any endpoint may be used or probed at any time: health is `Failover`'s subject.

`Lifecycle` is what the client promises about connections and the Kerberos
session whatever its pools do; `ImplementsLifecycle` shows that `Pool` refines
it, with `open` as its connections and its phase computed from `closed` and
`krbClosed`.

### Cluster and Failover

`Cluster` has one action per method. Time is discrete: `cooldown[e]` is what is
left of `coolUntil[e]`, `Tick` shortens it, and the jitter of `MarkFailed` is
any value below the ceiling, zero included. `Failover` adds `New` and, per
caller, `do`: pick, acquire, run `fn`, decide. What happens inside `acquire`
and `fn` is reduced to the outcomes `do` tells apart. `ctx` has a third value
besides live and done, `expired`: the context's deadline has passed, and with
it the socket's, but `ctx.Err()` is still nil.

### KerberosSession

One action per step of `begin`, `end`, `Close`, `destroy`, `serviceTicket` and
`initialToken`. An acquisition is a goroutine of its own, since a dial that
gives up leaves it running.

### SaslHandshake

The driver loop of `OpenContext` with the `Step` of either mechanism; `mech` is
chosen initially. The server may send any frame at any time, up to `Ahead`
frames before the client reads them, or hang up. A token is a record of the
facts the mechanism tests (does the AP_REP decrypt, does it echo the
timestamp, which key verifies the wrap token, does the offer include "auth").

### ConnDeadline

The users of one connection in turn, the dial first: who has set the socket's
deadline, which `AfterFunc` callbacks are registered, started and run.

### Budget and Conn

`Budget` is `budgetTransport` above the data phase: `read` is what the current
reply has been charged, `maxString` the message size that the Thrift library
enforces on declared lengths (an int32). A reply arrives in chunks of any size,
empty SASL frames included, and is read byte by byte or as a declared string.
`Conn` is one connection from its dial to its last call. A step of the handshake
is a step of the dial's I/O in `ConnDeadline`, a read of `Budget` a step of a
call's I/O; no I/O succeeds once the deadline is "now".

### FakeStore

Each handler is an operator from a store, the emulated version and a request
to the next store and the reply; `Store.mu` is held throughout a handler, so it
is one step. Objects are reduced to their names, a partition to the value of
its one key, a filter or partial-value list to at most one equality. Slices are
sequences: `DropPartitionsReq` models the in-place shift of the store's array
and what a missing name leaves behind. `Handle` is the processor: the removed
RPCs of a version and those of `WithoutRPC` answer UNKNOWN_METHOD, and 2.3
refuses a catalog. Column statistics are pairs of engine and column; only 4.0
reads the engine.

### Methods and Calls

`Methods` has what a goroutine does by itself, as operators on its state `x`;
`Calls` has the goroutines (`t[c]`), the store and the actions. A public method is described by a record named after it: its RPC and legacy RPC,
whether `do` may rerun it, whether it resolves a catalog, whether its request
carries one or qualifies the database name, and the size of its batches.
`GetTablesSeq`, `GetPartitionsSeq` and `DropPartitions` are sequences of such
calls, and so is `ServerVersion` (`VersionReturns`): `getVersion` with a probe on
the same connection, then two configuration values, with the variable that its
closure shares between attempts as `t[c].version`. `t[c]` is a goroutine: the closure's
locals and the connection's caches
(`conn.catalogs`, `conn.fallback`). Its program counter names the RPC in flight:
`probe` (`supportsCatalogs`), `root` (`warehouseRoot`), `rpc`, `followup`
(`DropDatabase`'s `get_database`); what runs between two RPCs touches only
locals and is part of the step of the reply (`onReply`).

The environment: a request is answered (`Replies`), lost before or after the
server handled it, with or without leaving bytes unread (`Loses`; binary and
HTTP), answered by something that does not decode (`Garbles`), not even sent
(`DialFails`), or cancelled (`Cancel`). Every attempt may reach a server of
another version, and the connection may have its caches filled or empty.
`kept` and `ever` are history: what the call is about and was there during all
of it, or at some moment of it. `applied` lists the batches the server carried
out.

### AcidStore, FakeServer, Convert and Sessions

`AcidStore` has one reply operator and one action per handler of
`hmstest/acid.go`. `FakeServer` has the `serve` goroutine (accept, then register
under `mu`), one goroutine per connection (`ReadMessageBegin` with its load
and compare-and-swap of `failNext`, process, write), and each `Stop`. Both ends
of a connection close on their own, and what was written is still delivered, so
a request may be handled after its caller has left. `Convert` has the two
directions of each conversion and the snapshot on which `Alter*` builds; one
field of each kind is kept (plain, pointer, map, int32 time, nested struct), and
`hidden` stands for every wire field that the exported type lacks.

In `Sessions` each user has a client with one connection and makes one call at a
time: `req`, `tries` and `cn` are `do`'s locals, `known`, `copy` and `told` what
the user has learnt. Users keep to rules of their own (the module's header lists
them; `acid.go` states only that whoever is told WAITING must poll `CheckLock`),
since without them nobody promises that edits survive. An attempt on the pooled
connection counts as the first of `MaxRetries`. The catalog probe of `AlterTable` is `Calls`' subject and is left
out here; the ids given to commit and abort are those the server gave out.

## Runs

| Run | Checks | Instance |
|---|---|---|
| `pool` | `TypeOK`, `LiveExact`, `NoLeak`, `DrainedForGood`, `SessionUnused`, `DialsWithinPool`, `ImplementsLifecycle`, `CloseReturns`, `CloseReleasesAll`, `CloseWakesWaiters` | 1 endpoint, pool size 1, 2 callers, probe, 2 closers, 4 connections |
| `pool_wakeup` | `WaiterUsesCapacity` is violated | the same |
| `failover` | `TypeOK`, `GoodNeverCools`, `AtMostOnce`, `BackoffBounded`, `OutageSurvived`, `NewTriesAll`, `CallReturns` | 2 endpoints, one works, both orders, 2 callers, one cancellable, 2 attempts |
| `failover_deadline` | `GoodNeverCools` is violated once deadlines exist | 2 working endpoints, 1 caller |
| `failover_sticky` | `StaysOnAnswering` is violated with a third endpoint | 3 endpoints, 2 callers |
| `kerberos` | `CredsTypeOK`, `DestroyedUnused`, `OneDestroyer`, `Released` | 2 dials, 4 acquisitions, 2 closers |
| `conn` | `TypeOK`, `FollowsScript`, `CallsIndependent`, `BudgetExact`, `CallsOnOpen`, `CancelUnblocks`, `HandshakeEnds` | both mechanisms and none, 1 frame ahead, the dial and 2 calls, 3 limits, replies of up to 3 bytes |
| `deadline_slate` | `OwnDeadline` is violated | the same with 1 call |
| `calls` | `TypeOK`, `CachesTrue`, `NoCatalogTo23`, `AnswersTrue`, `StreamExact`, `BatchesOnce` | 4 stores, any call against any of 8 writes, 2 losses |
| `calls_pooled` | `PooledClean` is violated | `DropDatabase` alone |
| `notify` | `EmptyMeansNone` is violated | one read of events, one `DropTable` |
| `sessions` | `TypeOK`, `ExclusiveExcludes`, `TxnDecided`, `StoppedForGood`, `ChangesOnlyEdits`, `EverythingEnds` | 2 users, 3 connections, 2 `Stop`s, 6 workloads |

What the less obvious ones say. `DialsWithinPool`: a caller dials only while its
pool has fewer than `poolSize` connections, counting those that the probe has just
handed over; the probe itself may take a pool beyond `poolSize`, and the code sets
no bound to that. `OutageSurvived`: no read is lost to an outage that is
`Survivable`, that is, one endpoint is down and a call may make two attempts, or
only some endpoints work, a call may make an attempt for each, and the caller is
alone. `CallReturns`: every call returns, or waits in `acquire` for ever on an open
client with a context that never ends; `pool_wakeup` shows that such a wait is
possible. `AnswersTrue`: whatever a call returns was true
at some moment of it, through retries, mixed versions, batches and another
client's writes. `BatchesOnce`: the batches of a write are carried out in order
and at most once, and the caller can tell how far it got. `ChangesOnlyEdits`: an
alter that the server applies differs from what the server had in what its user
edited and in nothing else; it needs the snapshot at every level of nesting, the
clamped times, the locks and the users' rules at once. `TxnDecided`: what a
commit or an abort reported stays true although a request given up earlier may
be handled later. `StoppedForGood` and `EverythingEnds`: `Stop` leaves no handler
behind, also for a connection accepted while it ran, and it and every call
return.

### Bounds and why they are enough

- `pool`: with one slot, two callers already compete for it, wait for it and
  race the probe for it; a third would repeat one of the two. Two closers show
  the first and the later `Close`. The four connections are one on loan, one
  idle, one with the probe and one being dialed.
- `failover`: two endpoints, one of which works, in both pick orders. With the
  broken one first, calls and `New` have to move on to the other. With the
  working one first, a `New` whose context is done can cool it and still succeed
  on the other: only then can every endpoint be cooling while calls run. One of
  the two callers has a context that can end, the other has not; the theorems
  are for any contexts, orders and number of endpoints. `OutageSurvived` depends
  on those numbers, which is why it states its condition: two endpoints of which
  one works are the least instance that is `Survivable`, and that every other one
  is survived too is a theorem. `failover_sticky` needs the third endpoint, because
  a late failure only moves the active position to an endpoint that is neither of
  the two.
- `kerberos`: two dials with two acquisitions each let an abandoned one overlap
  its successor, in both dials.
- `conn`: a callback can reach the next user only, so the dial and two calls
  have both kinds of neighbours. One frame ahead lets the server answer before it
  is asked; the proofs are for any number. With an int32 of 2, the limits 0 (the
  default), 1 and 3 are below, at and above it, and a reply of 3 exceeds all but
  the last. No deadlock is checked, since a connection may have made its last
  call.
- `calls`: three partitions in chunks and batches of two make two rounds, the
  last one short. `MaxRetries` is 2, and two losses use both attempts up. The
  stores are an empty one, one without tables, and ones with two and three
  tables and partitions, with and without a second catalog. The second
  goroutine has no losses of its own and talks to a 4.0 server that it knows: it is there for
  what its writes do to the store, and a lost write does nothing that a
  successful one does not. `MaxI16` is 5, so that one more can be asked
  for. The server's release is under either configuration key or under none.
  No deadlock is checked, since each goroutine makes one call and stops.
- `sessions`: each initial state picks a workload, so that users only make the
  calls whose interplay is in question: `editing` (two users lock and alter a
  table, one context ends), `database` and `partition` (the other two kinds, one
  injected failure, a `Stop`), `locking` (locks at all three levels), `txns` (one
  user commits what the other aborts or commits, one context ends) and `halting`
  (two `Stop`s and an injected failure under calls). Two lock ids and one
  transaction are enough for every pair of holder and newcomer. The third
  connection is the one of a call given up whose request is still on the way.
  `MaxInt32` is 3 and `Far` is 5, a time that has to be clamped. No deadlock is
  checked: users may be done, and a stopped server stays stopped.

### Fairness

Goroutines that can run are run: weak fairness for the steps of callers, closers
and acquisitions. That dials, RPCs and ticket requests end is what their
timeouts give (`WithConnectTimeout`, `WithTimeout`, `kdc_timeout`). In `failover`
an `acquire` is not assumed to end: its last `select` waits for a connection that
may never be released. It is only once the client is closed or the context is done
that it has to go on. Strong
fairness is used once, for the probe's exit: its `select` offers `ctx.Done` at
every turn and Go chooses among ready arms at random. In `conn` the peer need
never answer for `CancelUnblocks`; for `HandshakeEnds` alone the server goes on
sending or hangs up. In `sessions` the server's goroutines, clients inside a call,
the accept loop and a `Stop` that has begun go on; no failure, cancellation or
new call is obliged to happen. Nothing forces calls, cancellations, ticks or
`Close`.

## Disagreements between code and text

- `pool_wakeup`: a caller waiting in `acquire` is not woken when a discard frees
  capacity.
- `failover_deadline`: an RPC that ends at the socket deadline, just before
  `ctx.Err()` turns non-nil, cools a healthy endpoint.
- `failover_sticky`: a late failure of an endpoint that is no longer active
  moves the client off the one that answers.
- `deadline_slate`: `DialBinary`'s callback can expire the first call.
- `calls_pooled`: `DropDatabase` forgets the error of its follow-up, so a
  connection with an unread reply is pooled.
- `notify`: `max` is applied before `eventTypes` on servers before 4.0.

Further behaviours are modelled as they are, without a run of their own:

- `DropDatabase` over HTTP can report its own lost drop as `ErrNotFound`.
- `ServerVersion` keeps the version that a failed attempt has read; if the next
  attempt meets a server without `getVersion`, it returns that version without
  having looked at the server's catalogs or configuration. `AnswersTrue` excepts
  this one case. It needs a fleet in which only some servers lack the RPC.
- hmstest's `drop_partitions_req` does not read `IfExists` and leaves a shifted
  array when a name is missing (so `AnswersTrue` holds for drops by name with
  `ifExists` only with one name per batch). In `calls` the first goroutine makes
  such drops, the second does not: a read beside them meets the partition that is
  there twice, which is the test server's flaw and not the client's.
- hmstest's `alter_table` moves a renamed table and not its partitions.
- hmstest grants an exclusive lock over shared ones that are already held, and never
  grants one it answered WAITING. `ExclusiveExcludes` is about locks asked for later.
- A lock whose reply was lost stays held: nobody knows its id.
- `Stop` does not wait for the accept loop: a connection that `serve` has accepted
  and not yet registered may be closed after `Stop` has returned. It never gets
  a handler, which is what `StoppedForGood` says.

## Proofs

| Module | Theorems | Inductive invariant |
|---|---|---|
| `Pool_proofs` | `TypeCorrect`, `LiveIsExact`, `DialsStayWithinPool`, `NothingLeaks`, `StaysDrained`, `SessionIsUnused`, `ImplementsLifecycleSafety` | `IInv`: `Inv1` (what a goroutine's place says about what it holds), `Inv2` (each connection has one owner), `Inv3` (what each stage of `Close` has waited for), `LiveExact`; the refinement is a step simulation under it |
| `Failover_proofs` | `TypeCorrect`, `BackoffIsBounded`, `WritesRunOnce`, `GoodStaysUsable`, `NewDialsEveryEndpoint`, `StaysPut`, `OutageOfOne`, `OutageAlone`, `OutagesAreSurvived` | `TInv`, and per theorem `OnceInv`, `GoodInv`, `NewInv`, `OutInv` |
| `Transport_proofs` | of a connection `TypeCorrect`, `DeadlineIsOwned`, `HandshakeSafe`, `BudgetSafe`, `ConnRunsItsParts`, `ConnSafe`, `NoCallUnlessOpen`; of the Kerberos session `CredsTypeCorrect`, `DestroyIsAlone`, `DestroyedOnce` | one each for the deadline (`DInv`: whose callbacks can still be registered or running), the handshake and the budget; for `NoCallUnlessOpen`, what a user's turn says about the handshake; for the session `CredsInv`: `pending` counts the running acquisitions |
| `Methods_proofs` | (lemmas for `Calls_proofs`) | `Good(x)`: what a goroutine's state says about its call, its connection and its batches |
| `Streams_proofs` | (lemmas for `Calls_proofs`) | `Streaming(x, K, E)`: how far a stream has got and what it has yielded |
| `Calls_proofs` | `CachesAreTrue`, `No23Catalog`, `BatchesInOrder`, `AttemptsEnd`, `StreamsExact` | `AllGood`: every goroutine is `Good`; for `StreamsExact` `AllStreaming`: every stream is `Streaming` with what was `kept` and `ever` there, and the store has no partition twice (its first part is what hmstest answers, and what each handler keeps of the store) |
| `Sessions_proofs` | `ExclusiveHolds`, `StopIsFinal`, `DecisionsStand` | `LInv` (lock ids are given out in order); `BInv` and `SInv` (a connection is in one place, `registered` is the connections with a handler); `RInv` (what is on a user's connection is its own request or a true reply to it) |
| `Edits_proofs` | `OnlyEdits` | `XInv`: with `LInv` and `RInv`, what each user knows of its lock is what the server has (`KInv`, `OInv`), and an alter on its way was made from the object as it is (`EInv`) |

They hold for every value of the constants under the named assumptions of the
modules: finite sets of callers, connections and acquisitions, a pool size, an
endpoint count and a retry count of at least one (`config.clamp`), backoffs in
order. `GoodStaysUsable` assumes that no deadlines exist, which
`failover_deadline` shows to be necessary. `StaysPut` is for at most two
endpoints; `failover_sticky` shows why. `OutagesAreSurvived` needs nothing more,
since `Survivable` says which outages are meant; its two cases are `OutageOfOne`
and `OutageAlone`. The condition is needed: with three endpoints, two of them
down, three attempts and two callers a read is lost. The late failure of the other
call's attempt moves the active endpoint back, as in `failover_sticky`, and costs
an attempt. The theorems about `Calls` are for any callers, sequences of calls,
servers (each of any version), stores and numbers of losses; what they assume is
that an input is a call, that batches, chunks and retries are at least one, and
(`StoresAssumption`) that the stores they start with have finitely many tables
and no partition twice. `StreamsExact` assumes besides that nobody drops
partitions by name while another one streams partitions (`NoDropsBeside`; `MCCalls`
assumes it of its instance): hmstest's `drop_partitions_req` can leave a
table with a partition twice when one of the names is missing, and a stream then
yields it twice (TLC finds it once such a call is added to the instance). The
flaw is the test server's, not the client's.
Those about `Sessions` assume that the objects
are wire structs as the generated code has them (`IsObject`: optional fields hold
at most one value, times are int32, a database's and a partition's catalog is
the default one), that a user edits its parameters or its creation time, and that the
time out of range that it may set, `Far`, is one.

Why the strengthenings are needed. `LiveExact` compares a counter with the
callers that stand at certain places; to keep it, a step has to know that the
connection it drops was counted, which is `Inv1` and `Inv2`. `SessionUnused`
rests on `Inv3`: a closer past the wait has seen every dial registered before
`closed` end, and none registers later. `DialsWithinPool` follows from `LiveExact`
at the step that reserves a slot. `NewTriesAll` needs `NewInv`: the
endpoints refused so far are those behind the active position, so that the
cyclic scan returns a new one however many cooldowns expire; its lemmas on
`Dist` and `FirstUsable` are about the scan alone. `DestroyedUnused` needs the
count because `end` decides on `pending = 0`, not on who is running.
`ConnRunsItsParts` shows that every behaviour of a connection is one of its
deadline, its handshake and its budget, so that what is proved of each part holds
of the whole (`ConnSafe`); `CallsOnOpen` relates two parts and has an invariant
of its own. `TxnDecided` is about what a user was told, so it needs to follow a
reply from the handler to its reader: connections are not shared, carry one
message at a time, and a commit's or abort's reply stays true while it is on its
way. `ChangesOnlyEdits` rests on two things. One is about the conversions alone
(`RoundTrip` in `Sessions_proofs`): what is read, edited and converted back over
its snapshot differs from what was read by the edit, up to what `Normal` leaves
out, an empty map or owner for an unset one. The other is that the object read is
still the object when the alter is handled, possibly long after its caller gave
up. `EInv` says so of the user who holds the EXCLUSIVE lock over the object,
and `OneMaster` that there is one: two would hold locks that
`ExclusiveExcludes` forbids. That a user's idea of its lock is right is `OInv`; it
has to speak of replies on their way, and of unlocks not yet handled, whose lock
must be nobody's. `StopIsFinal` needs that whoever has begun a `Stop` has set `stopped`, so
that nothing registers behind the closing of the connections.

`Good` has to say more than the three properties of `Calls` it is for. That a
request names no catalog depends on `t[c].cat`, which was resolved from what the
connection had learnt, at a stage of the call that depends on the method; that
a batch is carried out once depends on where the loop is (`Turn`: everything
carried out lies before `i`), on `do` never retrying a write, and, for
`DropPartitions` and the streams, on which method each stage is (`Stage`). A
goroutine's step is one lemma each in `Methods_proofs`, about the operators alone
and for any reply that `Says` something true of the server; `Calls_proofs` adds
that hmstest's handler answers so (`ServedSays`) and that one goroutine's step
leaves the others alone.

`StreamExact` compares what a stream has yielded with the history of the store.
`Streaming` says that the names a stream has listed are different, that they
include everything that has been there since the call began and nothing that was
never there, and that what it has yielded or holds in its buffer is, name
by name up to where it is, what there was of them. It speaks of two sets `K` and
`E` that only shrink and only grow (`StreamingObserved`), so a step of another
client keeps it. A step of the stream itself keeps it if the reply is what the
store had at that moment (`Answer`); that hmstest answers so, whatever the version and
through either form of the RPC, is `ServedAnswers`. Chunks that another client
has emptied, attempts that start over and a chunk cut short by a cancellation are cases
of it. The loops over slices are the operator `Taken`, whose facts (`TakenFacts`)
are proved by induction on the length, in the form of a least counterexample.

Only model-checked: all liveness (and the fairness part of `Lifecycle`); of
`Sessions`, `TypeOK`; of `Calls`, `AnswersTrue` and `TypeOK`. `AnswersTrue` asks of
every method what `StreamExact` asks of the streams: the history of what each
call is about through each of its forms, batches and limits, and what
`DropPartitionsReq` makes of a shifted array. `TypeOK` of `Calls` bounds what a
goroutine holds by the values of the instance; its bounds on attempts, and on the
batches of writes, are `AttemptsEnd`.

## What is not modelled, and why

`PROJECT.json` lists every part with its status. Left out:

- The generated Thrift code (`gen/`). It is about 255,000 of the 265,000 lines
  under `src/`, so the mapped lines are a small share of all lines and somewhat
  over two fifths of the hand-written ones.
- Partition names (`partname.go`), endpoint URIs, version strings, format helpers
  and options: pure functions of their arguments and assignments to a
  configuration. `config.clamp` appears as the assumptions on the constants.
  `Calls` takes a partition's name as an injective function of its value, the
  same in client and server; hmstest does not escape names as the client does,
  so this is so for values without characters to escape.
- Of `convert.go`: columns and their interning, skew, statistics, catalogs and
  events, which are plain copies; a failing copy of the snapshot, which in-memory
  Thrift serialisation does not produce.
- Of the connection's construction: which option combinations are refused.
  `set_ugi` is the first call on a new connection and part of the dial that may
  fail.
- Of the HTTP transport: headers, redirects and the draining of a body. `Calls`
  has its one consequence for a caller, that a lost reply leaves nothing unread.
- Of warehouse roots: the locations. `Calls` has which catalogs are cached.
- Of hmstest: recording of calls, `set_ugi`, `getStatus` and the Seed methods.
- Logging and observers, which only report, and `hmsrecord`, a sequential tool
  for recording fixtures.
