----------------------------- MODULE Persistence -----------------------------
(***************************************************************************)
(* What survives the end of a RediForge process: the append-only file of   *)
(* src/persistence/aof.js, the snapshots of src/persistence/rdb.js, and    *)
(* the start, the graceful shutdown and the stop of src/server.js.         *)
(*                                                                         *)
(* Every mutation of the store is handed to the AOF as a record (engine/   *)
(* mutation_engine.js).  A record waits in a buffer of the process, then   *)
(* in the file as the operating system caches it, then on the disk; a      *)
(* crash of the process loses the first, a power loss any suffix of the    *)
(* second, tearing the last record that reached the disk.  At the next     *)
(* start the file is dispatched again as commands, so what a record DOES   *)
(* when it is replayed need not be what the command did when it was        *)
(* recorded.                                                               *)
(*                                                                         *)
(* A key holds an opaque value and a deadline; time is a counter.  Data    *)
(* types, eviction and byte limits are those of module Keyspace.           *)
(***************************************************************************)
EXTENDS Integers, Sequences, SequencesExt

CONSTANTS
  Db, Key, Val,
  Absent,        \* not a value: no such key
  Garbled,       \* not a value: what a replay makes of a swallowed record
  Db0,           \* the database a replay runs in, ctx.db of _loadData
  NoDb,          \* aof._currentDb before the first record
  Ops,           \* the commands clients use
  AppendOnly,    \* values of config appendonly at start
  BootPolicy,    \* values of config appendfsync at start
  SwitchTo,      \* values CONFIG SET appendfsync is given later
  Cuts,          \* where a power loss may cut a record: "inside", "between"
  MaxMutations,  \* bound of the model on the mutations in the history
  MaxRecords,    \* bound of the model on the records a command may find logged
  MaxTime        \* bound of the model on the clock

Policies == {"always", "everysec", "no"}

ASSUME PersistenceAssumption ==
  /\ Db0 \in Db /\ NoDb \notin Db
  /\ Val # {} /\ Absent \notin Val /\ Garbled \notin Val \cup {Absent}
  /\ AppendOnly \subseteq BOOLEAN
  /\ BootPolicy \subseteq Policies /\ SwitchTo \subseteq Policies
  /\ Cuts \subseteq {"inside", "between"}
  /\ MaxMutations \in Nat /\ MaxRecords \in Nat /\ MaxTime \in Nat

VARIABLES
  up,          \* is the process running?
  appendonly,  \* config
  policy,      \* config appendfsync
  mem,         \* the store: [Pair -> Entry]
  buffer,      \* aof._writeBuffer
  file,        \* the records in the AOF, as the operating system sees it
  synced,      \* how many of them are on the disk
  timer,       \* is aof._syncTimer running?
  currentDb,   \* aof._currentDb
  rdb,         \* the snapshot file: the entries, and when it was taken
  changed,     \* has store.dirty moved since rdb._lastSaveDirty? (without an AOF)
  now,
  (* History, kept by no code: *)
  past,        \* the store after each acknowledged mutation, oldest first
  promised,    \* how many of them the configuration has promised to keep
  due,         \* how many of them it will have, a second after
  ended        \* how the previous process ended

aofVars == <<buffer, file, synced, timer, currentDb>>
config == <<appendonly, policy>>
history == <<past, promised, due, ended>>
vars == <<up, config, mem, aofVars, rdb, changed, now, history>>

Pair == Db \X Key
NoTtl == 0
Entry == [val : Val \cup {Absent, Garbled}, ttl : 0..MaxTime + 1]
Gone == [val |-> Absent, ttl |-> NoTtl]
Empty == [p \in Pair |-> Gone]
Mutations == Len(past) - 1

\* A record: a command, whole or cut short by a power loss.
Record == [op : {"SELECT", "SET", "DEL", "PEXPIREAT", "PERSIST"}, db : Db, key : Key,
           val : Val, at : 0..MaxTime + 1, cut : {"whole", "inside", "between"}]

-----------------------------------------------------------------------------
(* The append-only file.                                                   *)

\* Variant of Flush that leaves fsync under "everysec" to the system.
FlushUnsynced(records) ==
  /\ buffer' = <<>>
  /\ file' = file \o records
  /\ synced' = IF records # <<>> /\ policy = "always" THEN Len(file') ELSE synced

\* _flush: the policy of this moment decides whether fsync is called.
Flush(records) ==
  /\ buffer' = <<>>
  /\ file' = file \o records
  /\ synced' = IF records # <<>> /\ policy \in {"always", "everysec"}
               THEN Len(file') ELSE synced

\* Variant of Buffered that overwrites what is waiting.
OnlyLatest(records) == records

\* The write buffer after some records.
Buffered(records) == buffer \o records

\* appendEvent emits a SELECT when the database is another one than last time.
Select(db) == db # currentDb

\* appendEvent and appendCommand: nothing is written while the file is closed.
AppendEvent(r) ==
  LET named == [r EXCEPT !.op = "SELECT"]
      records == Buffered(IF Select(r.db) THEN <<named, r>> ELSE <<r>>)
  IN  /\ currentDb' = r.db
      /\ IF ~appendonly THEN UNCHANGED <<buffer, file, synced>>
         ELSE IF policy = "always" THEN Flush(records)
         ELSE buffer' = records /\ UNCHANGED <<file, synced>>
      /\ UNCHANGED timer

\* What a record does to an entry when it is replayed at time t.
Replayed(e, r, t) ==
  CASE r.op = "SET" -> [val |-> r.val, ttl |-> NoTtl]
    [] r.op = "DEL" -> Gone
    [] r.op = "PEXPIREAT" -> IF e = Gone \/ r.at <= t THEN Gone ELSE [e EXCEPT !.ttl = r.at]
    [] r.op = "PERSIST" -> [e EXCEPT !.ttl = NoTtl]

\* replay, one record: SELECT moves the database of a connection nobody reads,
\* so every command runs in Db0.  A record cut inside a field makes the parser
\* throw when another record follows and ends the replay; one cut between two
\* fields takes the next record for the missing one.
Reader == [mem |-> Empty, cut |-> <<>>, lost |-> FALSE, n |-> 0]
Read(s, r) ==
  IF s.lost THEN s
  ELSE IF s.cut # <<>>
  THEN IF s.cut[1].cut = "inside" THEN [s EXCEPT !.lost = TRUE]
       ELSE [s EXCEPT !.cut = <<>>,
                      !.mem = IF s.cut[1].op = "SET"
                              THEN [@ EXCEPT ![<<Db0, s.cut[1].key>>] =
                                      [val |-> Garbled, ttl |-> NoTtl]]
                              ELSE @]
  ELSE IF r.cut # "whole" THEN [s EXCEPT !.cut = <<r>>]
  ELSE IF r.op = "SELECT" THEN s
  ELSE [s EXCEPT !.mem[<<Db0, r.key>>] = Replayed(@, r, now), !.n = @ + 1]
Replay == FoldLeft(Read, Reader, file)

-----------------------------------------------------------------------------
(* Commands.  A key whose deadline has passed is deleted before anything   *)
(* else touches it, which is the step Expired.                             *)

Elapsed(p) == mem[p].ttl # NoTtl /\ mem[p].ttl <= now
Exists(p) == mem[p] # Gone

Mutate(p, e, op, val, at) ==
  /\ up /\ Mutations < MaxMutations /\ Len(file) + Len(buffer) < MaxRecords
  /\ mem' = [mem EXCEPT ![p] = e]
  /\ AppendEvent([op |-> op, db |-> p[1], key |-> p[2], val |-> val, at |-> at, cut |-> "whole"])
  /\ changed' = ~appendonly
  /\ past' = Append(past, mem')
  /\ promised' = IF appendonly /\ policy = "always" THEN Mutations + 1 ELSE promised
  /\ due' = IF appendonly /\ policy = "everysec" THEN Mutations + 1 ELSE due
  /\ UNCHANGED <<up, config, rdb, now, ended>>

AnyVal == CHOOSE v \in Val : TRUE

\* cmdSet: an EX deadline reaches the TTL table but no record; so does the
\* deadline INCR and APPEND keep.
Set(p, v) == "set" \in Ops /\ Mutate(p, [val |-> v, ttl |-> NoTtl], "SET", v, 0)
SetEx(p, v, at) == "setex" \in Ops /\ at > now /\ Mutate(p, [val |-> v, ttl |-> at], "SET", v, 0)
Incr(p, v) == "incr" \in Ops /\ Mutate(p, [mem[p] EXCEPT !.val = v], "SET", v, 0)
Del(p) == "del" \in Ops /\ Exists(p) /\ Mutate(p, Gone, "DEL", AnyVal, 0)

\* expire and its three relatives, and persist.
Expire(p, at) ==
  /\ "expire" \in Ops /\ Exists(p) /\ at > now
  /\ Mutate(p, [mem[p] EXCEPT !.ttl = at], "PEXPIREAT", AnyVal, at)
Persist(p) ==
  /\ "persist" \in Ops /\ mem[p].ttl # NoTtl
  /\ Mutate(p, [mem[p] EXCEPT !.ttl = NoTtl], "PERSIST", AnyVal, 0)

Command ==
  \E p \in Pair :
    IF Elapsed(p) THEN Mutate(p, Gone, "DEL", AnyVal, 0)
    ELSE \/ \E v \in Val : Set(p, v) \/ Incr(p, v)
         \/ \E v \in Val, at \in 1..MaxTime : SetEx(p, v, at)
         \/ \E at \in 1..MaxTime : Expire(p, at)
         \/ Del(p) \/ Persist(p)

\* CONFIG SET appendfsync: starts and stops no timer.
ConfigSet ==
  /\ up /\ policy' \in SwitchTo
  /\ due' = promised
  /\ UNCHANGED <<up, appendonly, mem, aofVars, rdb, changed, now, past, promised, ended>>

-----------------------------------------------------------------------------
(* Time, saves, and the end of a process.                                  *)

\* A second passes: the timer of _startSync flushes what is buffered.
Tick ==
  /\ now < MaxTime /\ now' = now + 1
  /\ IF up /\ timer THEN Flush(buffer) ELSE UNCHANGED <<buffer, file, synced>>
  /\ promised' = IF due > promised THEN due ELSE promised
  /\ UNCHANGED <<up, config, mem, timer, currentDb, rdb, changed, past, due, ended>>

\* _buildSnapshot meets every key, so those that have expired are gone first.
Snapshot == [mem |-> mem, n |-> Mutations]
CanSave == up /\ \A p \in Pair : ~Elapsed(p)

\* _checkAutoSave, when some rule of config `save` is met.  It saves with an
\* AOF too, but then no start reads the snapshot and the model leaves it out.
AutoSave ==
  /\ CanSave /\ changed /\ ~appendonly
  /\ rdb' = Snapshot /\ changed' = FALSE /\ promised' = Mutations
  /\ UNCHANGED <<up, config, mem, aofVars, now, past, due, ended>>

\* The process is gone.
Down(how) ==
  /\ up' = FALSE /\ ended' = how
  /\ mem' = Empty /\ timer' = FALSE /\ currentDb' = NoDb /\ changed' = FALSE
  /\ due' = 0
  /\ UNCHANGED <<config, now, past>>

\* Variant of CloseFile that forgets the buffer.
CloseUnflushed == buffer' = <<>> /\ UNCHANGED <<file, synced>>

\* aof.close
CloseFile == Flush(buffer)

\* Variant of Truncate that forgets how much of the file was synced.
TruncateOnly == buffer' = <<>> /\ file' = <<>> /\ UNCHANGED synced

\* aof.truncate
Truncate == buffer' = <<>> /\ file' = <<>> /\ synced' = 0

\* The SIGTERM and SIGINT handler: a last snapshot, then the log is emptied.
Shutdown ==
  /\ CanSave
  /\ rdb' = Snapshot
  /\ IF appendonly THEN Truncate ELSE CloseFile
  /\ promised' = Mutations
  /\ Down("shutdown")

\* RedisGenServer.stop
Stop == up /\ CloseFile /\ Down("stop") /\ UNCHANGED <<rdb, promised>>

\* The process is killed: what it had buffered is lost.
Crash ==
  /\ up /\ buffer' = <<>> /\ Down("crash")
  /\ UNCHANGED <<file, synced, rdb, promised>>

\* The machine goes down: any part of what was not synced is lost, and the
\* first record that is may be cut.
PowerLoss ==
  /\ up \/ file # <<>>
  /\ \E k \in synced..Len(file) :
       LET kept == SubSeq(file, 1, k)
           torn == IF k = Len(file) THEN {}
                   ELSE {<<[file[k + 1] EXCEPT !.cut = c]>> : c \in Cuts}
       IN  \E tail \in torn \cup {<<>>} : file' = kept \o tail
  /\ synced' = Len(file') /\ buffer' = <<>>
  /\ Down("power")
  /\ UNCHANGED <<rdb, promised>>

\* _restoreSnapshot: a deadline that has passed is dropped, its key is not.
Restored(e) == IF e.ttl <= now THEN [e EXCEPT !.ttl = NoTtl] ELSE e

\* How many mutations the next start finds.
Found == IF appendonly THEN Replay.n ELSE rdb.n

\* start and _loadData: the AOF if there is to be one, the snapshot otherwise.
Start ==
  /\ ~up /\ up' = TRUE
  /\ policy' \in BootPolicy
  /\ mem' = IF appendonly THEN Replay.mem ELSE [p \in Pair |-> Restored(rdb.mem[p])]
  /\ timer' = (appendonly /\ policy' = "everysec")
  /\ past' = SubSeq(past, 1, Found + 1)
  /\ promised' = IF promised > Found THEN Found ELSE promised
  /\ UNCHANGED <<appendonly, buffer, file, synced, currentDb, rdb, changed, now, due, ended>>

Init ==
  /\ up = FALSE /\ appendonly \in AppendOnly /\ policy \in BootPolicy
  /\ mem = Empty
  /\ buffer = <<>> /\ file = <<>> /\ synced = 0 /\ timer = FALSE /\ currentDb = NoDb
  /\ rdb = [mem |-> Empty, n |-> 0] /\ changed = FALSE
  /\ now = 0 /\ past = <<Empty>> /\ promised = 0 /\ due = 0 /\ ended = "never"

Next ==
  \/ Start \/ Command \/ ConfigSet \/ Tick \/ AutoSave
  \/ Shutdown \/ Stop \/ Crash \/ PowerLoss

Spec == Init /\ [][Next]_vars

-----------------------------------------------------------------------------
(* Properties.                                                             *)

\* Type invariant.
TypeOK ==
  /\ up \in BOOLEAN /\ appendonly \in AppendOnly /\ policy \in Policies
  /\ mem \in [Pair -> Entry]
  /\ buffer \in Seq(Record) /\ file \in Seq(Record)
  /\ synced \in 0..Len(file)
  /\ timer \in BOOLEAN /\ currentDb \in Db \cup {NoDb}
  /\ rdb.mem \in [Pair -> Entry] /\ rdb.n \in 0..MaxMutations
  /\ changed \in BOOLEAN
  /\ now \in 0..MaxTime
  /\ past \in Seq([Pair -> Entry]) /\ past # <<>>
  /\ promised \in 0..Mutations /\ due \in 0..Mutations
  /\ ended \in {"never", "shutdown", "stop", "crash", "power"}

\* A record torn by a power loss with others after it: nothing trims the torn
\* tail of the file before it is written to again.
Buried(cuts) == \E i \in 1..(Len(file) - 1) : file[i].cut \in cuts

\* Has a deadline that p had at some time up to mutation n passed?
HadDeadline(p, n) == \E i \in 1..(n + 1) : past[i][p].ttl \in 1..now

\* A start finds the values of one moment of the past, whatever ended the
\* process before it and wherever the log was cut: mutations are neither
\* reordered nor lost in the middle (appendCommand, _flush, replay; save, load).
\* A key is missing from that moment only if one of its deadlines has passed.
RecoveredIsPrefix ==
  [][Start /\ ~Buried({"between"}) =>
       \A p \in Pair : \/ mem'[p].val = past[Found + 1][p].val
                       \/ mem'[p] = Gone /\ HadDeadline(p, Found)]_vars

\* That moment is not before the last one the configuration promised to keep:
\* every acknowledged mutation under appendfsync always, those of more than a
\* second ago under everysec, those before the last save without an AOF.
PromiseKept ==
  [][Start /\ ~Buried(Cuts) /\ ~(appendonly /\ ended = "shutdown") => Found >= promised]_vars

\* A server that was stopped comes back with everything in its AOF, under every
\* appendfsync policy (stop, close).
StopKeepsAll ==
  [][Start /\ appendonly /\ ended = "stop" /\ ~Buried(Cuts) => Found = Mutations]_vars

SameValues ==
  \A p \in Pair : LET last == past[Len(past)][p]
                  IN  mem'[p].val = last.val \/ last.ttl \in 1..now

\* With an AOF and appendfsync always, a crash of the process loses nothing but
\* the keys whose deadline has passed.
CrashLosesNothing == [][Start /\ ended = "crash" => SameValues]_vars

\* A graceful shutdown loses nothing either.
ShutdownLosesNothing == [][Start /\ ended = "shutdown" => SameValues]_vars

=============================================================================
