# RediForge in TLA+

RediForge (package `redisgen`) is a Redis-compatible in-memory server in
JavaScript for one Node.js process, with append-only file and snapshot
persistence, primary/replica replication, a WebSocket bridge and an Electron
client. This directory holds specifications of its core, configurations with
which TLC checks them, and proofs that TLAPS checks. Paths below are relative to
the repository's root; line numbers are those of `PROJECT.json`, whose `map`
names the lines each definition stands for.

## 1. The system

Everything the server does runs on one event loop, so a handler that does not
await is one step. What interleaves is whole commands of several connections,
timers (active expiry, fsync, auto-save), deliveries and closes of sockets, and
the end of the process or of the machine.

| Part | State | Operations | Interacts with | What is hard, and what makes it correct |
|---|---|---|---|---|
| Dataset, `datastore/store.js` | values, types, byte count of each key, global byte counter, three kinds of version counters, `dirty` | every data command's `set`, `listPush`, `hashSet`, `rename`, `swapDb`, ... | TTL table, eviction pool, watch table, mutation engine | one key lives in five tables; lazy expiry and eviction delete keys in the middle of an operation. The tables name the same keys, the counter is the sum of what the values cost, growth stays below `maxmemory` |
| TTL table, `datastore/expiry.js` | deadlines and a heap of them | set, remove, lazy check, sweep by timer, swap, flush | dataset | an expiry is a deletion like any other: versions, bytes and the log must see it |
| Eviction pool, `datastore/lru.js` | keys in order of use | touch, remove, sample, evict, swap | dataset, TTL table | `volatile-lru` may take only keys with a TTL; the key being written may be the victim |
| Transactions, `commands/transaction.js`, `commands/registry.js`, watch table of `store.js` | queue per connection, versions saved per watched key | MULTI, EXEC, DISCARD, WATCH, UNWATCH, RESET, close | dataset, connections | EXEC must run only if nothing watched has changed, whoever changed it and however; nothing watched may outlive its transaction |
| Connections, `connection.js`, `bridge.js` | id, database, queue, subscriptions | data, close | all of the above | ids index the watch table |
| Mutation engine, `engine/mutation_engine.js` | listeners | record | AOF, primary | every change is recorded, in order |
| AOF, `persistence/aof.js` | write buffer, file, selected database, timer | append, flush, fsync, replay, truncate, close | mutation engine, store | what was acknowledged is in a buffer, in the page cache or on disk; a restart finds a prefix no older than the policy promised |
| Snapshots, `persistence/rdb.js`; start and stop, `server.js` | file, last saved `dirty` | save, auto-save, load; start, SIGTERM, stop | store, AOF | which of two files a start reads, and what a shutdown leaves in it |
| Primary, `replication/primary.js`, `backlog.js` | stream offset, database of the stream, bounded backlog, online replicas | mutation, PSYNC, removal | mutation engine, replicas | offsets count bytes, stores count commands; the backlog overflows |
| Replica, `replication/replica.js` | id and offset of the master, database, parser | connect, handshake, snapshot, stream, clean-up | store | links break anywhere, inside a command and inside a snapshot too |
| Pub/Sub, `commands/pubsub.js` | two indexes, two sets per connection | subscribe, publish, RESET, remove | connections | the indexes and the connections' sets agree; a connection that has left receives nothing |
| Parser, `protocol/` | buffer | append, parse | connections, replay, replicas | a chunk ends anywhere; the cut never shows in what is parsed |
| Structures, `structures/` | ring buffer, skip list with spans | push, pop, set, remove; insert, delete, rank, range | dataset | the ring wraps and grows, spans are kept at every level |
| Heap of deadlines, `datastore/expiry.js` | array and map of positions | insert, update, remove, pop, swap, sweep | TTL table | a removal in the middle fills its hole from the end; the sweep takes the earliest first |
| Gateway, `security/` | token buckets, audit ring | execute, log | registry | idle time at the capacity, the ring at its limit, which refusals leave a record |
| Desktop client, `desktop/src/main/` | queue of pending requests, parser, state, timer | connect, send, data, close, reconnect, disconnect | server, window | replies match requests by order alone, across broken links |
| Web console, `frontend/app.js`, and `bridge.js` | socket, callbacks, key list, shown database; a database per client | connect, send, message, close; handle | server | one variable for any number of sockets; chains of SCAN and TYPE overlap |

## 2. Modules

`MC*.tla` modules name the constants of TLC's instances; `MCServices` also puts
components side by side (below). `*Proofs.tla` hold theorems. Definitions whose
comment begins with "Variant of" are not part of the specification: each is a
plausible mistake in the definition next to it, used to see that a property would
notice (`mutants` in `PROJECT.json`).

### Keyspace

The dataset with its TTL table and eviction pool. A key is a pair `<<db, key>>`;
a value is a type and a function from slots (list positions, fields, members; one
slot for a string) to sizes. What estimateMemory charges is a cost per key plus
the sizes: the constant overheads of the code are part of the two. Time is a flag
per deadline, *live* or *elapsed*.

Each operation of the store is an operator that yields the set of its possible
outcomes (`[st, reply]`), following the code's order: lazy expiry, type check,
the delta, `enforceMemoryLimit` with its loop of evictions, the write, versions,
the record for the log. `Do` turns outcomes into a step. Calling the helpers in
the code's order matters: `Insert`, for one, reads the container before
admission, as `listPushLeft` does (store.js:370). Choices are nondeterministic
where the code samples (victims) or where the data is abstracted (how many
elements LREM matches, whether NX refuses). `last` records what the latest call
reported, bumped and logged, for the action properties.

`KeyspaceProofs` holds the theorems about it (section 5).

### Transactions

MULTI, EXEC and WATCH with the three version counters. Data commands are reduced
to what they do to values and versions (`Write`, `DeleteKeys`, `Rename`,
`SwapDb`, flushes), with evictions by any write and expiry at any moment. EXEC's
loop runs in one turn of the event loop; the model runs one queued command per
step and lets `running` keep everybody else out. Three variables no code keeps
(`watching`, `modified`, `swapped`) say what each client was promised.

`TransactionsProofs` holds the theorems about it (section 5).

### Persistence

The store, its AOF and its snapshot through the life of several processes: a
record waits in the buffer, in the file as the system caches it (`file`), and on
disk (its first `synced` records). `Crash` loses the buffer, `PowerLoss` any
suffix of what is not synced and may tear the last record. A start replays the
records as commands with the clock of the replay, so a record need not do what
the command did. `past` is the history of the store after each acknowledged
mutation; `promised` and `due` follow the configured policy. `Garbled` is what a cut record leaves in its key.

`PersistenceProofs` holds the theorems about it (section 5).

### Replication

A primary, its backlog and its replicas. A command is `Width` units of the
stream, so a link can break inside one; the backlog is a window of `MaxBacklog`
units. A mutation appends its number to a database, so that anything lost,
repeated, reordered or run elsewhere shows. A full resynchronisation is two
messages, header and snapshot, since the replica stores id and offset at the first
(replica.js:101). `astray` (history) is the set of replicas whose stream no
longer fits their state, for the reasons listed in section 6. `StateAt(n)`, a recursive
function over the stream, is the store its first n units make.

`ReplicationProofs` holds the theorems about it (section 5).

### PubSub

`index` is the broker's two Maps of Sets in one, `own` the two sets of each
connection (null is the empty set). `stray` (history) holds the pairs that RESET
takes from a connection and leaves in the index; `heard` is whom the last PUBLISH
wrote to. A connection is cleaned up when it ends, fails or is destroyed, and
again when it closes. `ServicesProofs` holds the theorems about it.

### Resp2Client and ConnectionManager

`Resp2Client` is the client of the desktop application with both directions of its
link and the server's end of it. `phase` is down, auth, select or ready; a
command carries the number of the request it is, so that an answer given to the
wrong request shows (`outcome`). The parser is one bit, `half`: nothing, the
first bytes of a reply of this link, or those of an older one, behind which the
next reply comes out garbled. `ConnectionManager` extends it with the two owners
of a client: the connection manager, which reconnects and tells the window, and
the pub/sub panel, which does neither. `ManagerNext` conjoins each client step with
what its events make the owner do. `ClientProofs` holds the theorems about
both.

### ExpiryTimers, ListDeque and AbstractList, SortedSet

`ExpiryTimers` has ExpiryHeap's array and position map with sift-up and sift-down as
in the code, and what ExpiryManager does with it. Each loop of the code is a recursive
function over its rounds (`Up`, `Down`, `Due`, one key of a database), and swapDb and
clearDb take the keys in any order. `ListDeque` has the ring buffer
of `structures/deque.js`; `AbstractList`, a sequence with RPUSH, LPUSH, LPOP, RPOP,
LSET and LREM, is what it implements (`IsList`, under `contents`). `SortedSet` is the
map and the skip list of one key: forward pointers and spans per level, backward
links, any level for a new node, and each read as the code walks it. One walk along a
level is `Walk`, the walk down all levels `Descent`; what differs from one caller to the
next is how far it may go (`PlacesBefore`, `UpTo`, `Within`). ZADD and ZREM take
their items one by one, as the code does. `ServicesProofs` holds the theorems about
all three.

### Gateway

`CommandGateway.execute`: limiter, authentication, workspace, permission, dangerous
commands and confirmation in the code's order, the audit record, and what AUTH
does to the session. Commands are five kinds, by the permission they need.
`since` and `admitted` (history) count what a client got through from any moment
on. `ServicesProofs` holds the theorems about it.

### WebConsole

`frontend/app.js` with the part of `bridge.js` that answers it. Sockets are numbered
in the order of doConnect; each has the bridge's database and the messages on
their way. `pendingCallbacks` maps a number to the command it waits for and to the name of
its callback; `Effect` says what each callback sends and changes. `disturbed`
(history) is set once the user acts before the last answers are in, saves a key the
list does not show, or is refused a command. Keys are numbered by their SCAN bucket, so
pages and cursors appear. `ClientProofs` holds the theorems about what waits and what is
under way, and about what the page then shows.

### RespParser

The buffer, what has been parsed, and a stream of messages of which any number
of bytes arrives at a time. A byte is a string, the digits of a length one byte
(`Digits`). A message is a simple string, an error, an integer, a null, a bulk string, an
inline command or an array of messages, or one that the parser refuses: a number that is
none, or a bulk string that does not end where its length says (`Plain`, `Broken`,
`Nested`). `Code` is what encoder.js writes for it. `TryOne` is `_tryParse` at one depth,
given the parser one level down; `InTurn` is the loop that parse() and `_parseArray`
share. `ParserProofs` holds the theorem about it.

### MCServices

These components share no variable. `part`, chosen at first and never changed,
names the one whose steps a behaviour takes; the others keep their initial state. So
one run explores the sum of their state spaces, each in all its interleavings.

## 3. Runs

Deadlock checking is off in every run: with its bounds reached a model rests, and
an idle server rests as well.

| Run | Instance | Shows |
|---|---|---|
| KeyspaceNoEviction | 2 databases, 2 keys of different length, 2 elements (symmetric), sizes 1 and 2, limit 6 | byte counters exact in sum and per value, all tables agree, no empty containers, every change bumps a version, an OOM writes nothing |
| KeyspaceEviction | 1 database, 2 keys, 2 elements, size 2, limits 3 and 4, both LRU policies, changed by CONFIG SET | types, `volatile-lru` takes only volatile keys, growth ends below the limit whatever was evicted, every change, eviction and expiry is logged |
| KeyspaceSelfEviction | allkeys-lru, limit 4, sizes 1 and 3 | violation: LPUSH evicts the list it is growing |
| TransactionsKeys | 2 clients, 2 keys, at most 3 changes | a changed watched value is always seen; EXEC does not run |
| TransactionsDbs | TCP and WebSocket client, 2 databases, SWAPDB, SELECT, RESET; 2 changes | types, the watch table is exact, EXEC runs only unmodified |
| TransactionsSwapDb | as above with 4 changes | violation: SWAPDB can bring a saved version back |
| Persistence | 1 key, AOF on or off, boot policy always or everysec, switched to always or no; 3 mutations, 4 records, clock to 1 | a start finds one moment of the past, none older than promised; stop keeps everything |
| PersistenceDeadline | AOF, always | violation: a renewed deadline deletes its key on replay |
| PersistenceShutdown | all policies | violation: SIGTERM empties the log that the next start reads |
| Replication | 1 replica, 2 databases, width 2, backlog 5, 4 mutations, 3 broken links, 1 restart of the primary | types; the backlog is the end of the stream, a streaming replica has on its way exactly the units after the offset it counts, its store is the primary's at that offset, a connected replica catches up |
| Services | see below | indexes of the broker exact, nobody who left receives; each reply to its request, the believed database, disconnect is final, the window told, every request settled; heap, ring (refinement) and skip list exact; limiter and audit ring; callbacks and list of the console; any cut of a stream |
| ReplicationSelect | 1 replica, width 1, no failure | violation: the first mutations after a full resync land in database 0 |

Why these bounds suffice for the cases that matter. The invariants of Keyspace
relate one key's entries in five tables, and an operation names at most two keys:
two databases and two keys include each aliasing of RENAME, MSET and SWAPDB, and
two elements distinguish "the last element goes" from "one stays"; the limits lie
between one and three small keys, so that admission both passes and fails. In
`KeyspaceNoEviction` elements are interchangeable (no operation prefers one),
which makes the symmetry over them sound; it checks no liveness. Three changes
are enough for the ABA patterns of versions between WATCH and EXEC, and four find
the SWAPDB one. With 3 mutations a record can be in the buffer, the page cache
and on disk at once; a deadline takes clock 1 to pass. A backlog of 5 units holds
two commands and half of a third: it overflows inside a command, and 3 broken
links include one while the replica waits for the rest of an earlier one.

Bounds of Services. *PubSub*: two connections, two channels, a pattern that matches
one of them: a message by both ways, a topic with other subscribers left. *Client*:
two requests, one push, three connections: a request on a link, one on the link
after it, and a third link behind the bytes of the first. *Heap*: three names in two
databases and two deadlines: six entries are a heap of three levels, where a hole is
filled from another branch and has to move up. *Ring*: first capacity 2, five
elements: it grows twice and wraps before each growth. *Skip list*: three members,
two scores, two levels: equal scores, and inserts before, between and behind on
either level. *Gateway*: capacity 2, refill 1, clock to 2, ring of 2, five records.
*Console*: two databases, two buckets, three actions of the user, doConnect among
them: two sockets alive at once. *Parser*: streams of at most two of fourteen
messages with up to three levels, of which the parser takes two, and payloads that look like
protocol. Three are refused, one for each reason; a buffer of 20 bytes holds any one of
the messages and not any two.

`KeyspaceNoEviction` and `KeyspaceEviction` identify states by `StoreView`, which leaves
out `last`, the record of the latest call. No guard reads it, and TLC evaluates
action properties on every step it generates, to known states too, so no
violation is lost.

`MaxChanges`, `MaxQueue`, `MaxMutations`, `MaxRecords`, `MaxTime`, `MaxDrops`,
`MaxRestarts`, `MaxRequests`, `MaxPushes`, `MaxConnects`, `MaxLength`, `MaxClock`, `MaxEvents`,
`MaxActs`, `MaxDepth` and `MaxMessages` are bounds of the models; `Limit`, `SweepBatch`,
`MaxBacklog`, `Batch`, `InitialCapacity`, `MaxLevel`, `Capacity`, `Refill`, `MaxEntries`, `MaxBuffer`,
`MaxCount` and `MaxNesting` are parameters of the code.

### Fairness

Replication assumes weak fairness of handling a PSYNC, of handling its answer and
of reading the stream, each of which the event loop does as soon as the bytes are
there; TCP delivers while the link holds. Nothing is assumed about Connect, because
no code in the repository reconnects a replica, nor about Drop and Restart.

`ManagerFairness` (run Services) assumes that a connection under way comes up, fails
or times out, which the connect timeout of the client ensures (client.ts:60); that
the server answers what it has read; and that what it wrote is delivered and
handled while the link holds. Nothing is assumed about the reconnect timer, about
further calls or about broken links. `EverySettled` needs no more, because the end of
a link rejects whatever waits. The other properties are safety and need none.

## 4. What the properties leave out, and why

- *Re-WATCH.* A second WATCH of a key replaces the versions of the first
  (store.js:947), so the promise counts from the latest WATCH.
- *Shared connection ids.* TCP and WebSocket connections number themselves
  independently (bridge.js:415). The runs and the theorems take ids to be unique; with
  `IdOf <- MCSharedIds` `CommitOnlyIfUnmodified` fails.
- *Commands that keep other books.* LSET is not admitted and can pass the limit;
  HSET with a repeated field charges it twice (`RepeatFields`); ZADD XX of absent
  members leaves an empty sorted set. The first is exempt in `GrowthAdmitted` by
  name; the others are modelled but not among the calls of `KeyspaceNoEviction`.
- *Unlogged changes.* SWAPDB, LSET and LREM record no mutation, and SET and MSET
  do not record what they do to the TTL; `EveryChangeLogged` names them.
- *MSET* under an LRU policy may evict a pair it set a moment before, and still
  answers OK.
- *A torn record with others after it* (`Buried`). Nothing trims the torn tail, so
  the next replay stops there or takes the next record for the missing field.
- *Replay into database 0.* SELECT records are dispatched on a connection whose
  database the replayed commands do not use (server.js:113): with two databases
  the promise fails at once, and the run uses one.
- *CONFIG SET appendfsync everysec* starts no timer unless the server was started
  with it: `SwitchTo` leaves it out.
- *RESET* leaves a connection in the broker's index (server_cmds.js:238): `IndexExact` and
  `LeftIsForgotten` except those pairs (`stray`), and only channels are among them.
- *A client that subscribed* is pushed messages that pass for replies: `OwnReplies` and
  `BelievedDb` except it (`subscribed`), as well as a client that began a
  connection behind half a reply of an older one (`carried`): close resets no parser.
- *`_currentDb`* is not told of a SELECT typed in the console, and a reconnect without
  a configured database starts in 0 and keeps the old number: `BelievedDb` excepts
  both (`trusted`).
- *A refused handshake* calls disconnect() of the client, which emits nothing: the
  window goes on showing a connection (`refused` in `ShownStatus`).
- *A user of the console who does not wait* (`disturbed`) can see anything: a late onclose
  of an old socket disconnects the page from a new one and stops its polling,
  while an interval of the old dashboard may go on; overlapping refreshes append to one
  list; after a change of database the inspected key is still the one Delete
  names; a terminal SELECT and the selector may answer in the other order. So can a user
  who saves a key that the list does not show (`Unlisted`): the inspected key of another
  database, or one the terminal has deleted, is written into this one, and
  handleSaveEditKey does not read the list again (app.js:1734). It takes four actions,
  one more than the run allows; the proof of the property found it.
- *The callback of a dangerous command* is never called and stays in the table; the request for
  confirmation carries no command (app.js:1312 reads `msg.command`, which bridge.js:632
  does not send), so confirming does nothing. `CallbacksRouted` excepts it.
- *Inline lines that end in a bare LF* are cut differently when a CRLF is in the buffer
  behind them (parser.js:175): `Inline` has no message that is one. After a malformed message
  `CutAnywhere` promises nothing more: parse() throws, the commands parsed before it
  in the chunk are lost, and nothing catches it (connection.js:46).
- *An empty sorted set* has no reads: it is no key, but after ZADD XX on a missing one.
- *Values, not deadlines* are compared after a restart: SET EX records no
  deadline and a snapshot drops those that have passed.

## 5. Proofs

Every theorem is for all values of the constants, under the assumptions of the modules
(`KeyspaceAssumption`, `TransactionsAssumption`, ...: finite sets of keys, natural bounds;
TLC evaluates them in the runs) and the hypotheses it states.

Induction over data is stated for a SET: the numbers, or the finite sets, of which
something holds (`Induction`, `FiniteInduction` of `InductionProofs`). The recursive
functions of the models and the folds of the community modules are unfolded with it: such
a function exists and is unique, so it takes the value its equation gives at each point
(`SumsExist`, `SumsAgree`, `SummedFirst` for sums; `RoundsExist` for loops). `SummedRemove`,
`SummedSplit` and `SummedSame` are what the proofs then need of a sum.

`KeyspaceProofs` is proved for any databases, keys, elements, sizes, costs, limits,
policies and calls; it uses no assumption on them.

- `ChangesBump`: whatever a step does to a value or to the presence of a deadline
  moves the version a WATCH compares, MSET's deadlines aside.
- `ChangesAreLogged`: the same of the mutations for the AOF and the replicas.
- `RefusedWritesNothing`: an operation answered OOM has only deleted, and without
  eviction only keys that had expired.
- `VolatileVictims`: under volatile-lru a key without a deadline goes only in an
  operation that names it.
- `TablesAgree`: while the policy is noeviction, all tables name the same keys. Under
  the other policies they do not (section 6, 1).

The argument follows the record `s` that an operation threads through its calls.
`Kept(s, X)`: wherever `s` differs from the state, in the value or (outside `X`) in the
presence of a deadline, the pair is in `s.bumped`; no deadline is without a value;
and if nothing may be evicted, the tables agree. `Recorded` is the same of
`s.logged`. There is one lemma per call (`DeleteKept`, `EnforceKept`, `WrittenKept`, ...)
and one per operation, whose outcomes are compositions of calls. The invariant
of the states is small: deadlines belong to stored keys (`Stored`). Without it a delete
could drop the deadline of an absent key, which moves no version. `Shrunk` plays the
part of `Kept` for refused operations, and `Spares` for victims: victims have deadlines
when they are chosen, and an operation gives deadlines only to keys it names.

The rest of the module is about the bytes, from `KeyspaceAssumption`.

- `KeyspaceTypes`: `TypeOK`, which says of a sum of sizes that it is a natural number.
- `GrowthIsAdmitted`: no step but LSET grows the dataset beyond `maxmemory`.
- `BooksExact`: while the policy is noeviction the counter is the sum of the charges, and
  each key is charged for its value. Two calls are excluded because they break it (section
  4): ZADD XX of a new key, and a command that names one field twice.
- `ListsPaid`: a list is charged at least its bytes under every policy, so that the
  re-estimate of LREM never makes the dataset larger.
- `ContainersFilled`: ZADD XX aside, no operation leaves an empty container.

The operations are followed in the same way, with other facts of the record `s`:
`Typed`, `Paid`, `Exact`, `Filled`, and `Within` (it is within the limit or has not grown).
One lemma per call says which it keeps. An operation computes its increment before it
writes; that the increment is the difference of the two sums is where the
lemmas about sums enter. `Exact` does not survive an eviction inside an operation
(section 6, 1), hence the hypothesis; `Paid` does, and is what bounds LREM.

`TransactionsProofs` is proved for any sets of clients, databases, keys and
values, any assignment of ids and any bounds. It assumes
`TransactionsAssumption` (which TLC evaluates in the runs) and, where the statement says so,
`Unaliased`: no two connections share an id.

- `Invariance`: `Unaliased => (Spec => []Inv)`, `Inv` being type correctness and
  `Coherent`.
- `TypeCorrect`: `TypeOK` is an invariant.
- `WatchIsSound`: once a watched value has changed, the watch is dirty.
- `CommitsAreUnmodified`: EXEC runs only if no watched value has changed.
- `WatchTableIsExact`: the store's watch table and the connections' watch sets name the
  same watches. It is inductive with `Inv`; one lemma per way the table changes
  (`WatchExact`, `ForgetExact`, `HandleExact`).

`WatchSound` is not inductive: a dirty comparison says only that some saved version
*differs*, and a counter that could go back might make it equal again.
`Coherent` adds the order: each saved version is at most the present one
(`AtLeast`), and one of the three is strictly less once the value has changed
(`Behind`); it also ties the table to the clients that own its entries. Each
effect on the data `Advances`: it moves no counter back, and moves one of every
value it changes (lemmas `DeleteAdvances`, `WriteAdvances`, `RenameAdvances`,
`SwapAdvances`, `EffectAdvances`). Versions of databases exchanged by SWAPDB are
the exception, excluded through `swapped`. The steps of the table
(`WatchCoherent`, `ForgetCoherent`, `ObserveCoherent`) then keep `Coherent`.

`PersistenceProofs` is proved for any keys, values, clock and bounds on the life of the
server, from `PersistenceAssumption`.

- `AlwaysRecorded`, `PersistenceTypes`: the log never holds more mutations than were
  acknowledged, and holds all of them while the process runs and after a stop, unless a
  cut record hides some.
- `StopLosesNothing`: a start after a stop finds every mutation.
- `PromisesAreKept`: a start finds what the policy promised. It assumes that CONFIG SET does
  not switch to everysec, since that starts no timer (server.js starts it once).
- `StartFindsThePast`: what a start finds is the store of one moment of the past. It
  assumes one database, because the replay does not follow SELECT (section 4).

A replay folds over the log. `After(t, L, k)` is that fold after k records, computed one
record at a time; `Got` is how many mutations it has counted. On that rest: what appending,
flushing, cutting and truncating do to the count (`Grown`, `Clean`), and `Recorded`, the
invariant that the other proofs share. `Promises` adds the timer of everysec (`Timed`), what
is owed between two of its ticks (`Owed`), and that what is promised is on disk (`Kept`).
`Recoverable` relates the log to `past` record by record (`Faithful`): a replay of k records
is the store after the k-th mutation, except for keys whose deadline lies between that
moment and the replay's clock (`AsPast`, `AsEarlier`); and it says the same of the
memory (`Current`) and of the snapshot (`Saved`).

`ReplicationProofs` is proved for any sets of replicas and databases, any length
of a command, any size of the backlog and any bounds, from `ReplicationAssumption`
only (which TLC evaluates in the runs).

- `BacklogInvariance`, `BacklogIsExact`: the backlog is the end of the stream, and
  its offsets and the primary's are the positions they name.
- `ContinueIsExact`: what a partial answer sends is the stream from the offset
  asked for to its end.
- `Invariance`, `TypeCorrect`: `TypeOK` is an invariant.
- `NothingIsMissed`: a replica that streams, and is not astray, has on its way
  exactly the units that follow the offset it counts.
- `ReplicasAreExact`: a replica that is not astray holds, at the offset it counts, the
  store the primary had there.

The stream grows only at its end and the backlog is a window of it: appending to
a sequence appends to each of its ends (`Extend`), and cutting an end gives
another (`Slide`), so the window moves by what `firstOffset` counts. `BacklogInv`
adds to `BacklogExact` the types and the size the arithmetic needs.
`NothingMissed` speaks only of replicas that stream, so it is not inductive: what
a link holds then was written before the answer was read. `LinkOK` says what a
link holds in each state of its replica: nothing; what is left of an answer
followed by the end of the stream (`Continued`, `Headed`, `Snapped`); or that end
alone. Mutations extend it (`FollowsMore`); reading moves the offset along it
(`FollowsTail`). A replica whose header or snapshot was wrong is astray,
and the invariant promises nothing for it.

`PositionInv` is for `ReplicasAreExact`. The stream is whole commands, each in the database
selected when it is read (`Shaped`), and each offset of it names a store (`StoreOf`), a
database (`InDb`) and a number of units of a command that has begun (`Begun`). The primary is
at its end (`Primary`); a replica of this primary's id is at its offset (`Placed`); an
answer on its way is of the offset it carries (`Sent`). What is read next is the next unit
of the stream, by `LinkOK`, so a replica moves from one offset to the following. An id that a
later primary gives out is larger, so old ids never name a new stream.

`ClientProofs` assumes only `ConsoleAssumption`, for what the page shows.

*The desktop client*, for any number of requests, pushes and connections and any
databases:

- `RepliesAreOwn`: no request is resolved with the answer to another.
- `DatabaseIsBelieved`: `_currentDb` is the database the connection is in, once no SELECT
  is under way.
- `DisconnectIsFinal`: nothing brings a client back after disconnect().
- `StatusIsShown`: what the window shows is what the manager has.

The exceptions are those the properties name (section 4). The heart of `ClientInv` is
`Paired`: on a client that has not subscribed, and did not begin behind bytes of an
older link, the queue of requests is the replies on their way back followed by the
commands on their way out, one by one. So a reply meets its own request, whatever
the interleaving (`PairedSend`, `PairedAnswer`, `PairedTake`). `AtRest` says what a
client without a live link is left with: every way a link ends must empty the queue.
For the database, at most one handshake step waits, the one `phase` names (`OneStep`),
and the server is in the database of the last SELECT it said OK to (`LastSelect`); what
is no longer on its way back, the client has been told (`Believes`). `ManagerHolds`
relates the owner to its client: whatever is live, or will be by the timer, is held.

*The web console*, for any number of sockets and requests, any keys and any databases:

- `CallbacksAreRouted`: every callback meets the answer to its own command.
- `PatientSeesServer`: a user who waits for the answers sees what the server holds.

What is under way on a socket is its `outbox` followed by its `inbox`.
The invariant `Routed` says that those messages are numbered apart with numbers already
given (`Numbered`), that those of an open socket and the callbacks that wait on it are the
same (`Served`), that only an answer to FLUSHDB asks for a confirmation (`Answer`), and that
nothing waits on a socket that is not open yet (`Waits`), so that a socket opens with nothing owed.
An answer takes the place of its question (`AnsweredWay`), a delivery removes the first
message and its callback (`DeliveredWay`, `DeliveredServed`), and what is sent comes last
under fresh numbers (`SentWay`, `SentServed`). A callback that runs sends at once, on the
page's socket of that moment, which need not be the one the answer came by. The pages
of SCAN stay finite sets, so that the commands of a callback are a sequence.

`PatientSeesServer` says what the page shows once nothing is under way, so `PatientInv` says
what the messages under way will make of it (`Stage`). Either the list shows the first keys
of the socket's database, and what comes last under way asks for the types of the others,
in order (`Filling`); or exactly one message is not idle, and once it is answered the list
is read, or needs no reading (`Turn`): a SELECT, a write, or a SCAN whose callback has
collected the keys below the cursor. The bridge's answer keeps the stage, of the database
and the keys it leaves behind (`StageRead`, `StageSelected`, `StageWritten`); the page takes
an idle message, one key for the list, or the message of the turn (`StageDelivered`), and the
callback of that one begins the next stage (`EffectLeads`, `SentTurn`, `SentTypes`, `SentIdle`).
Two facts about keys are needed. `AscendingIs`: sorting by the number of smaller keys
lists every key once and in order, because there is a key of each rank. `PageAdds`: the keys
below the cursor and a page are those below the next cursor, and the last page leaves
none out, which needs that a key is a bucket number (`ConsoleAssumption`). The sockets
before the last are closed (`Calm`), so ws, status and the interval follow the last one
(`Phase`). The bound on the user's actions plays no part.

`ServicesProofs` holds the proofs about five components that share no state.

*The broker*, for any connections, channels, patterns and matching, from
`ApartAssumption`: `IndexIsExact` and `LeaversAreForgotten`. The inductive invariant
`BrokerInv` is the types, `IndexExact`, that the own sets of a connection that has left
are empty (`LeftOwnsNothing`), and that `stray` holds channels only, none of which its
connection still remembers (`StrayApart`).

*The list*, for any values, first capacity and length, from
`CapacityAssumption`: `DequeIsList`, the ring buffer implements the abstract list. The invariant says that
`tail` is `length` slots after `head` modulo the capacity. The lemmas about
`contents` do the modular arithmetic once: what an append, a prepend, a drop at
either end, an update and a growth do to the sequence read from `head` on. A step that
removes by value rebuilds the ring from the sequence, and needs only that it fits.

*The gateway*, for any capacity, rate, ring, clients and clock, from
`GatewayAssumption`: `LimiterBounds` and `AuditIsExact`. `RateBound` alone is not inductive: the invariant says
that what was admitted since the moment, together with the tokens that are left
and those the time since the last refill is still worth, is at most a bucket and the
refill of the window (a potential), and that no bucket is above its capacity.

*The deadlines*, for any databases, names, deadlines and batch, from `TimersAssumption`:
`HeapIsExact` and `SweepsTakeEarliest`. The invariant says that the heap holds exactly the
table (`Holds`) and no entry is earlier than its parent (`Ordered`). Each sift starts at the
only entry that may be out of order. `Loose` says so, and that the entry's children are no
earlier than its parent, which is what a swap needs; `Above` and `Below` say to
which side it can still be wrong. A round up keeps `Above`, a round down keeps `Below`
(`UpStep`, `DownStep`), and when the loop ends there is nothing wrong (`SiftUpSorts`,
`SiftDownSorts`). The entry that fills a hole may be wrong to either side: a sift down
leaves it `Above` where it began, so that the sift up which follows finishes
(`RemoveSorts`). The root is first (`RootFirst`), so each pop takes the earliest key
(`PopSorts`), and a sweep that ends before its batch is full has left none that elapsed.

*The sorted set*, for any members, scores, levels and items of a command, from
`ZsetAssumption`: `ListInStep` and `ReadsAreExact`. The invariant says that the skip list is
`Sound` and has the members and scores of the map. `Sound` takes a numbering of the nodes
that follows the order of scores and members (`Numbered`), and says what every pointer
is worth in it: a link leads to the next node that is as high as its level, and its span is
the difference of their numbers, also at the end of the level (`LinksExact`); a backward link
leads to the node one number before (`BackExact`); each node has links up to its height, and
none is higher than the levels in use (`Shape`). A walk ends at the last node of its level that is within the limit of the caller
(`DescentIs`), when that limit is a number: the nodes before a score and member are the
first ones of the order (`NearBy`). An insert numbers the node one after the end of that walk and
moves those behind on (`InsertSound`); a delete closes the gap (`DeleteSound`).
From a sound list the reads follow: a rank is the number (`RankIs`), the node of a rank has it
(`ByRankIs`), a walk along the lowest level is the sorted members, and one backward is its reverse
(`AlongIs`, `SortedIs`), a range is cut where the indexes say (`WindowIs`), and a
range of scores where the scores leave the bounds (`ByScoreIs`, `BoundsCut`).

`ParserProofs` is proved for any bytes, values, nesting, cuts and limits, from
`ParserAssumption`: the bytes of the protocol are bytes, lengths have digits of their own,
and the messages are values of at most `MaxDepth` levels.

- `StreamParsed`: as long as the parser has not thrown it has returned exactly the messages
  that have arrived whole, once and in order, whatever their payloads hold. It throws
  only for a message that is refused, or for more bytes than the buffer may hold.

The argument is about the code of one value. `Reads(parse, code, v)`: a buffer that begins
with the code is read as `v` and just as many bytes, whatever follows, and for a buffer that
is only a beginning of the code the parser waits. `Rejects`: the parser waits as well, or
refuses, but never returns a value. That a terminator is found where it was written, and
not inside a field or a payload, or half of it at a cut, is in the lemmas about
CRLFs (`LineEnds`, `LineOpen`, `TypedWhole`, `TypedOpen`) and in `BulkBody`, where the length
counts and the bytes do not. An array goes up one level: its elements are read in turn from
what the one before left (`TurnsRead`), the turn ends at the first that is incomplete or
refused (`TurnsWait`, `TurnsReject`), and a beginning of the array is a number of whole codes
and a beginning of the next (`SplitAt`). So the code of every value is read, or refused, at
every depth (`EncodedHandled`, by induction on the levels; a value that is too deep for
the parser is refused where it crosses the limit). `ParseIs` is the same loop once
more, over the messages of the stream.

The invariant `ParserInv` says that the bytes that arrived are the codes of the messages
returned, followed by the buffer, and that the buffer is a proper beginning of the code of
the next (`Arrived`). A chunk makes the buffer longer (`ChunkIs`), parse() takes the codes
that it completed (`ChunkParsed`), and the invariant holds of what is left. `WholeIs`
turns it into `CutAnywhere`. The bound on the messages plays no part.

What stays with TLC: liveness (`CatchesUp`, `EverySettled`), which the prover does not reach; and
the five violation runs.

## 6. Disagreements the runs show

Each violation run checks one property that a document or test of the repository
states; `findings` in `PROJECT.json` quotes it.

1. `KeyspaceSelfEviction`: an LPUSH under `allkeys-lru` may evict the list it has
   just read; it answers OK, the elements are lost, the bytes stay charged.
2. `TransactionsSwapDb`: SWAPDB sets a database's version from the other's; the
   result can equal a version a WATCH saved, and EXEC runs on changed data.
3. `PersistenceDeadline`: `pexpireAt` deletes a key whose deadline has passed,
   during a replay too, before the record that renewed the deadline.
4. `PersistenceShutdown`: SIGTERM saves a snapshot and truncates the AOF; with
   `appendonly` the next start reads the AOF only, and is empty.
5. `ReplicationSelect`: the primary writes SELECT only when its database changes,
   a new replica starts in database 0.

What makes a replica `astray` in the run Replication, besides 5: a link that
breaks between the header and the snapshot leaves old data under the new offset,
and the partial resync that follows is accepted; exportSnapshot may expire keys
after the offset was written, so that their deletion is in the snapshot and in the
stream; neither parser nor database of the replica is reset at a full resync; a
new `ReplicaReplication` that is given only id and offset forgets both.

Met while modelling, and not the subject of a run: ZADD records its members without
the flags it was given (store.js:795), so a replay adds what XX refused; a range by
score with a count of 0 returns everything; the desktop client's back-off never grows,
since one failed attempt schedules no other.

## 7. Not modelled

- *Cryptography and network*: signatures, tokens and fetched keys of
  `security/auth_service.js`; WebSocket frames, HTTP routes and polling by fetch.
- *Pure conversions*: the words of an inline command, the matching of
  globs (a constant of PubSub), formatting, redaction, configuration tables.
- *Queries*: INFO, CLIENT, DEBUG, the reports over the audit trail.
- `persistence/wal.js`, which nothing creates, and the demo data of the console.
- *Presentation*: the panels of the desktop application, the charts and accounts of the
  web console; the transaction panel's own queue.
- *Write errors of the AOF*, the main missing failure: `_flush` empties the buffer
  before it writes and only logs an error (aof.js:171), so that after one the file has a
  gap; nothing the code says about recovery holds across it.
- *Deadlines* as times: one bit in Keyspace, a small clock in Persistence.

## 8. Plan

Done: the modules of section 2, the proofs of section 5. Left: *Log*, an
abstract log that loses a suffix when the process ends, Persistence shown to implement it, and
a failed write as an action that makes a gap in it.
