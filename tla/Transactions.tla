---------------------------- MODULE Transactions ----------------------------
(***************************************************************************)
(* MULTI / EXEC / WATCH: src/commands/transaction.js, the queueing in      *)
(* commands/registry.js, the version counters and the watch table of       *)
(* datastore/store.js, and the connections (connection.js, bridge.js)      *)
(* whose ids index that table.                                             *)
(*                                                                         *)
(* WATCH is optimistic: it copies three counters, the version of the key,  *)
(* of its database and of the whole server, and EXEC compares them.  Every *)
(* way a key can change must therefore move at least one of the three, and *)
(* no way of changing them may bring an old combination back.              *)
(*                                                                         *)
(* The event loop runs one handler at a time.  EXEC runs its queue in one  *)
(* turn; here each queued command is a step of its own and `running` keeps *)
(* every other client out until the queue is done.                         *)
(*                                                                         *)
(* Values are opaque.  A write of any data type is "set": what matters is  *)
(* that it replaces the value and bumps the key, perhaps after evicting    *)
(* other keys or the key itself.                                           *)
(***************************************************************************)
EXTENDS Integers, Sequences, FiniteSets, Functions

CONSTANTS
  Client,      \* connections, each opened and closed once
  WsClient,    \* those of them accepted by the WebSocket bridge
  Id,          \* connection ids
  IdOf,        \* IdOf[c]: the id the connection was given
  Db, Key, Val,
  Absent,      \* not a value: the key does not exist
  Db0,         \* the database a connection starts in
  Idle,        \* not a client: no EXEC is running
  Ops,         \* the commands clients of this instance send
  QueuedOps,   \* those of them they also send inside MULTI
  MaxChanges,  \* bound of the model on the sum of the version counters
  MaxQueue     \* bound of the model on the length of a queue

ASSUME TransactionsAssumption ==
  /\ WsClient \subseteq Client
  /\ IdOf \in [Client -> Id]
  /\ Absent \notin Val
  /\ Db0 \in Db
  /\ Idle \notin Client
  /\ MaxChanges \in Nat /\ MaxQueue \in Nat

Pair == Db \X Key

\* A command: its name, the database it runs in, and the arguments it uses.
Cmd == [op : Ops, db : Db, key : Key, to : Key, val : Val, other : Db]
AnyKey == CHOOSE k \in Key : TRUE
AnyVal == CHOOSE v \in Val : TRUE
\* One command for each name and each choice of the arguments it does use.
Request(d) ==
  {cmd \in Cmd :
     /\ cmd.db = d
     /\ cmd.op \notin {"set", "del", "rename"} => cmd.key = AnyKey
     /\ cmd.op # "rename" => cmd.to = AnyKey
     /\ cmd.op # "set" => cmd.val = AnyVal
     /\ cmd.op \notin {"swapdb", "select"} => cmd.other = d}
Saved == [key : Nat, db : Nat, global : Nat]
NotSaved == [key |-> 0, db |-> 0, global |-> 0]

VARIABLES
  dbs,            \* [Pair -> Val \cup {Absent}]
  keyVersions,    \* _keyVersions: [Pair -> Nat]
  dbVersions,     \* _dbVersions: [Db -> Nat]
  globalVersion,  \* _globalVersion
  watchedKeys,    \* the keys of _watchedKeys: [Id -> SUBSET Pair]
  savedVersions,  \* the entries of _watchedKeys: [Id -> [Pair -> Saved]]
  connState,      \* [Client -> {"new", "open", "closed"}]
  connDb,         \* connection.db
  inMulti,        \* connection.txQueue is not null
  txQueue,        \* its commands
  running,        \* the client whose EXEC is running its queue
  rest,           \* the queued commands still to run
  (* History of what each client was promised, kept by no code: *)
  watching,       \* the pairs it has WATCHed since its last EXEC, DISCARD, ...
  modified,       \* those whose value has changed since the latest WATCH of it
  swapped         \* the databases a SWAPDB has exchanged since its first WATCH

dataVars == <<dbs, keyVersions, dbVersions, globalVersion>>
watchVars == <<watchedKeys, savedVersions>>
connVars == <<connState, connDb, inMulti, txQueue>>
execVars == <<running, rest>>
history == <<watching, modified, swapped>>
vars == <<dataVars, watchVars, connVars, execVars, history>>

Init ==
  /\ dbs = [p \in Pair |-> Absent]
  /\ keyVersions = [p \in Pair |-> 0]
  /\ dbVersions = [d \in Db |-> 0]
  /\ globalVersion = 0
  /\ watchedKeys = [i \in Id |-> {}]
  /\ savedVersions = [i \in Id |-> [p \in Pair |-> NotSaved]]
  /\ connState = [c \in Client |-> "new"]
  /\ connDb = [c \in Client |-> Db0]
  /\ inMulti = [c \in Client |-> FALSE]
  /\ txQueue = [c \in Client |-> <<>>]
  /\ running = Idle /\ rest = <<>>
  /\ watching = [c \in Client |-> {}]
  /\ modified = [c \in Client |-> {}]
  /\ swapped = [c \in Client |-> {}]

Existing == {p \in Pair : dbs[p] # Absent}

-----------------------------------------------------------------------------
(* What the commands do to the data and its versions.                      *)

\* _bumpKeyVersion for every pair of P.
Bump(P) == keyVersions' = [p \in Pair |-> keyVersions[p] + IF p \in P THEN 1 ELSE 0]
Changes == FoldFunctionOnSet(+, 0, keyVersions, Pair)
             + FoldFunctionOnSet(+, 0, dbVersions, Db) + globalVersion
CanBump(n) == Changes + n <= MaxChanges

\* deleteKey: only a key that existed is bumped.
DeleteKeys(P) ==
  /\ CanBump(Cardinality(P \cap Existing))
  /\ dbs' = [p \in Pair |-> IF p \in P THEN Absent ELSE dbs[p]]
  /\ Bump(P \cap Existing)
  /\ UNCHANGED <<dbVersions, globalVersion>>

\* A write of pair p after evicting the keys E.  If p is evicted itself, a
\* string is stored all the same and the versions have moved twice.
Write(p, v, E) ==
  /\ CanBump(Cardinality(E) + 1)
  /\ dbs' = [q \in Pair |-> IF q = p THEN v ELSE IF q \in E THEN Absent ELSE dbs[q]]
  /\ keyVersions' = [q \in Pair |-> keyVersions[q] + (IF q \in E THEN 1 ELSE 0)
                                                  + (IF q = p THEN 1 ELSE 0)]
  /\ UNCHANGED <<dbVersions, globalVersion>>

\* Variant of RenameVersions that forgets the version of the source.
TargetVersion(from, to) == [p \in Pair |-> IF p = to THEN 1 ELSE 0]

\* How many times rename itself bumps each pair.
RenameVersions(from, to) == [p \in Pair |-> IF p \in {from, to} THEN 1 ELSE 0]

\* rename, after evicting the keys E; the value was read before that.
Rename(from, to, E) ==
  IF dbs[from] = Absent \/ from = to THEN UNCHANGED dataVars
  ELSE /\ CanBump(Cardinality(E) + 2)
       /\ dbs' = [p \in Pair |-> IF p = to THEN dbs[from]
                                 ELSE IF p \in E \cup {from} THEN Absent ELSE dbs[p]]
       /\ keyVersions' = [p \in Pair |-> keyVersions[p] + (IF p \in E THEN 1 ELSE 0)
                                            + RenameVersions(from, to)[p]]
       /\ UNCHANGED <<dbVersions, globalVersion>>

\* flushDb
FlushDb(d) ==
  /\ CanBump(1)
  /\ dbs' = [p \in Pair |-> IF p[1] = d THEN Absent ELSE dbs[p]]
  /\ dbVersions' = [dbVersions EXCEPT ![d] = @ + 1]
  /\ UNCHANGED <<keyVersions, globalVersion>>

\* flushAll
FlushAll ==
  /\ CanBump(1 + Cardinality(Db))
  /\ dbs' = [p \in Pair |-> Absent]
  /\ dbVersions' = [d \in Db |-> dbVersions[d] + 1]
  /\ globalVersion' = globalVersion + 1
  /\ UNCHANGED keyVersions

\* swapDb: each database takes the OTHER's version plus one; the versions of
\* the keys stay where they are.
SwapDb(a, b) ==
  LET Other(p) == <<IF p[1] = a THEN b ELSE IF p[1] = b THEN a ELSE p[1], p[2]>>
  IN  /\ CanBump(2)
      /\ dbs' = [p \in Pair |-> dbs[Other(p)]]
      /\ dbVersions' = [dbVersions EXCEPT ![a] = dbVersions[b] + 1,
                                          ![b] = dbVersions[a] + 1]
      /\ UNCHANGED <<keyVersions, globalVersion>>

\* The effect of a data command.  Any of them may first evict keys or find
\* them expired; "refuse" stands for those that then store nothing, such as a
\* read, or a write answered OOM.
Effect(cmd) ==
  \/ /\ cmd.op \in {"set", "refuse", "rename"}
     /\ \E E \in SUBSET Existing :
          \/ cmd.op = "set" /\ Write(<<cmd.db, cmd.key>>, cmd.val, E)
          \/ cmd.op = "refuse" /\ DeleteKeys(E)
          \/ cmd.op = "rename" /\ Rename(<<cmd.db, cmd.key>>, <<cmd.db, cmd.to>>, E)
  \/ cmd.op = "del" /\ DeleteKeys({<<cmd.db, cmd.key>>})
  \/ cmd.op = "flushdb" /\ FlushDb(cmd.db)
  \/ cmd.op = "flushall" /\ FlushAll
  \/ cmd.op = "swapdb" /\ SwapDb(cmd.db, cmd.other)

\* What a deadline or the active sweep deletes between two commands.
Expire(P) == P # {} /\ P \subseteq Existing /\ DeleteKeys(P)

\* The history notes which watched values a data command has changed, and the
\* databases it has exchanged.
Note == [c \in Client |-> modified[c] \cup {p \in watching[c] : dbs'[p] # dbs[p]}]
Observe(exchanged) ==
  /\ modified' = Note
  /\ swapped' = [c \in Client |-> IF watching[c] = {} THEN {} ELSE swapped[c] \cup exchanged]
  /\ UNCHANGED watching

-----------------------------------------------------------------------------
(* The watch table.                                                        *)

SavedNow(p) ==
  [key |-> keyVersions[p], db |-> dbVersions[p[1]], global |-> globalVersion]

\* watchKey, for the pairs P: an earlier entry is overwritten.
WatchKeys(id, P) ==
  /\ watchedKeys' = [watchedKeys EXCEPT ![id] = @ \cup P]
  /\ savedVersions' = [savedVersions EXCEPT
       ![id] = [p \in Pair |-> IF p \in P THEN SavedNow(p) ELSE savedVersions[id][p]]]

\* unwatchAll
UnwatchAll(id) ==
  /\ watchedKeys' = [watchedKeys EXCEPT ![id] = {}]
  /\ savedVersions' = [savedVersions EXCEPT ![id] = [p \in Pair |-> NotSaved]]

\* Variant of Dirty that trusts the version of the key alone.
DirtyKeyOnly(id) ==
  \E p \in watchedKeys[id] : savedVersions[id][p].key # keyVersions[p]

\* isWatchDirty
Dirty(id) == \E p \in watchedKeys[id] : savedVersions[id][p] # SavedNow(p)

Forget(c) ==
  /\ watching' = [watching EXCEPT ![c] = {}]
  /\ modified' = [modified EXCEPT ![c] = {}]
  /\ swapped' = [swapped EXCEPT ![c] = {}]

-----------------------------------------------------------------------------
(* Handlers: what a command does when it runs, at once or inside EXEC.     *)

DataCommand(cmd) ==
  /\ Effect(cmd)
  /\ Observe(IF cmd.op = "swapdb" THEN {cmd.db, cmd.other} ELSE {})
  /\ UNCHANGED <<watchVars, connVars>>

\* cmdSelect moves the connection, not the commands already queued.
Select(c, cmd) ==
  /\ cmd.op = "select"
  /\ connDb' = [connDb EXCEPT ![c] = cmd.other]
  /\ UNCHANGED <<dataVars, watchVars, connState, inMulti, txQueue, history>>

\* cmdUnwatch
Unwatch(c, cmd) ==
  /\ cmd.op = "unwatch"
  /\ UnwatchAll(IdOf[c]) /\ Forget(c)
  /\ UNCHANGED <<dataVars, connVars>>

\* cmdReset
Reset(c, cmd) ==
  /\ cmd.op = "reset"
  /\ connDb' = [connDb EXCEPT ![c] = Db0]
  /\ inMulti' = [inMulti EXCEPT ![c] = FALSE]
  /\ txQueue' = [txQueue EXCEPT ![c] = <<>>]
  /\ UnwatchAll(IdOf[c]) /\ Forget(c)
  /\ UNCHANGED <<dataVars, connState>>

Handle(c, cmd) ==
  DataCommand(cmd) \/ Select(c, cmd) \/ Unwatch(c, cmd) \/ Reset(c, cmd)

-----------------------------------------------------------------------------
(* What a connection does.                                                 *)

\* The event loop serves c: it is connected and no queue is being run.
Serving(c) == running = Idle /\ connState[c] = "open"

Open(c) ==
  /\ running = Idle /\ connState[c] = "new"
  /\ connState' = [connState EXCEPT ![c] = "open"]
  /\ UNCHANGED <<dataVars, watchVars, connDb, inMulti, txQueue, execVars, history>>

\* dispatch outside MULTI.
Run(c) ==
  /\ Serving(c) /\ ~inMulti[c]
  /\ \E cmd \in Request(connDb[c]) : Handle(c, cmd)
  /\ UNCHANGED execVars

\* dispatch inside MULTI: the handler is queued with a context of its own.
Queue(c) ==
  /\ Serving(c) /\ inMulti[c]
  /\ Len(txQueue[c]) < MaxQueue
  /\ \E cmd \in {r \in Request(connDb[c]) : r.op \in QueuedOps} :
       txQueue' = [txQueue EXCEPT ![c] = Append(@, cmd)]
  /\ UNCHANGED <<dataVars, watchVars, connState, connDb, inMulti, execVars, history>>

\* cmdWatch: refused inside MULTI, where it is not queued either.
Watch(c) ==
  /\ Serving(c) /\ ~inMulti[c]
  /\ \E K \in (SUBSET Key) \ {{}} :
       LET P == {connDb[c]} \X K
       IN  /\ WatchKeys(IdOf[c], P)
           /\ watching' = [watching EXCEPT ![c] = @ \cup P]
           /\ modified' = [modified EXCEPT ![c] = @ \ P]
           /\ UNCHANGED swapped
  /\ UNCHANGED <<dataVars, connVars, execVars>>

\* cmdMulti: an error when already in MULTI.
Multi(c) ==
  /\ Serving(c) /\ ~inMulti[c]
  /\ inMulti' = [inMulti EXCEPT ![c] = TRUE]
  /\ UNCHANGED <<dataVars, watchVars, connState, connDb, txQueue, execVars, history>>

\* Variant of LeaveMulti that keeps what was watched.
LeaveWatched(c) ==
  /\ inMulti' = [inMulti EXCEPT ![c] = FALSE]
  /\ txQueue' = [txQueue EXCEPT ![c] = <<>>]
  /\ Forget(c)
  /\ UNCHANGED <<dataVars, watchVars, connState, connDb>>

\* The three ways out of MULTI drop the queue and everything watched.
LeaveMulti(c) ==
  /\ inMulti' = [inMulti EXCEPT ![c] = FALSE]
  /\ txQueue' = [txQueue EXCEPT ![c] = <<>>]
  /\ UnwatchAll(IdOf[c]) /\ Forget(c)
  /\ UNCHANGED <<dataVars, connState, connDb>>

\* cmdExec, a watched key is dirty.
ExecAbort(c) ==
  /\ Serving(c) /\ inMulti[c] /\ Dirty(IdOf[c])
  /\ LeaveMulti(c)
  /\ UNCHANGED execVars

\* Variant of Runner that enters the loop even for an empty queue.
AlwaysRunner(c, queue) == c

\* Who runs, while `queue` is still to be run.
Runner(c, queue) == IF queue = <<>> THEN Idle ELSE c

\* cmdExec, nothing watched is dirty: the queue starts to run.
ExecCommit(c) ==
  /\ Serving(c) /\ inMulti[c] /\ ~Dirty(IdOf[c])
  /\ rest' = txQueue[c]
  /\ running' = Runner(c, txQueue[c])
  /\ LeaveMulti(c)

\* The loop of cmdExec.
ExecStep(c) ==
  /\ running = c
  /\ Handle(c, Head(rest))
  /\ rest' = Tail(rest)
  /\ running' = Runner(c, Tail(rest))

\* cmdDiscard
Discard(c) ==
  /\ Serving(c) /\ inMulti[c]
  /\ LeaveMulti(c)
  /\ UNCHANGED execVars

\* The end of a connection.  _cleanup unwatches for a TCP one; the bridge
\* unwatches id + 100000, under which nothing was ever watched.
Disconnect(c) ==
  /\ Serving(c)
  /\ connState' = [connState EXCEPT ![c] = "closed"]
  /\ inMulti' = [inMulti EXCEPT ![c] = FALSE]
  /\ txQueue' = [txQueue EXCEPT ![c] = <<>>]
  /\ IF c \in WsClient THEN UNCHANGED watchVars ELSE UnwatchAll(IdOf[c])
  /\ Forget(c)
  /\ UNCHANGED <<dataVars, connDb, execVars>>

\* Keys expire between two commands.
Expiry ==
  /\ running = Idle
  /\ \E P \in SUBSET Existing : Expire(P)
  /\ Observe({})
  /\ UNCHANGED <<watchVars, connVars, execVars>>

Next ==
  \/ \E c \in Client :
       \/ Open(c) \/ Run(c) \/ Queue(c) \/ Watch(c) \/ Multi(c)
       \/ ExecAbort(c) \/ ExecCommit(c) \/ ExecStep(c)
       \/ Discard(c) \/ Disconnect(c)
  \/ Expiry

Spec == Init /\ [][Next]_vars

-----------------------------------------------------------------------------
(* Properties.                                                             *)

\* Type invariant.
TypeOK ==
  /\ dbs \in [Pair -> Val \cup {Absent}]
  /\ keyVersions \in [Pair -> Nat]
  /\ dbVersions \in [Db -> Nat]
  /\ globalVersion \in Nat
  /\ watchedKeys \in [Id -> SUBSET Pair]
  /\ savedVersions \in [Id -> [Pair -> Saved]]
  /\ connState \in [Client -> {"new", "open", "closed"}]
  /\ connDb \in [Client -> Db]
  /\ inMulti \in [Client -> BOOLEAN]
  /\ txQueue \in [Client -> Seq(Cmd)]
  /\ running \in Client \cup {Idle}
  /\ rest \in Seq(Cmd)
  /\ running # Idle => rest # <<>>
  /\ watching \in [Client -> SUBSET Pair]
  /\ modified \in [Client -> SUBSET Pair]
  /\ swapped \in [Client -> SUBSET Db]

\* The watched pairs whose value has changed, but for those of a database that
\* took another one's version meanwhile.
Modified(c) == {p \in modified[c] : p[1] \notin swapped[c]}

\* Once the value behind a WATCH has changed, by whatever command of whoever,
\* by eviction or by expiry, EXEC is bound to see it: a change is never undone
\* by a later combination of the three versions (isWatchDirty).
WatchSound == \A c \in Client : Modified(c) # {} => Dirty(IdOf[c])

\* EXEC runs its queue only if no watched value has changed since it was
\* (last) watched.
CommitOnlyIfUnmodified == [][\A c \in Client : ExecCommit(c) => Modified(c) = {}]_vars

\* The same promise with SWAPDB among the ways a watched key can change.
CommitOnlyIfUntouched == [][\A c \in Client : ExecCommit(c) => modified[c] = {}]_vars

\* A TCP client's entries in the watch table are exactly what it watches, so
\* nothing watched in one transaction can abort a later one and a closed
\* connection leaves nothing behind.
WatchTableExact ==
  \A c \in Client \ WsClient : watchedKeys[IdOf[c]] = watching[c]

=============================================================================
