----------------------------- MODULE Replication -----------------------------
(***************************************************************************)
(* A primary and its replicas: src/replication/primary.js, backlog.js and  *)
(* replica.js, with handlePsync as commands/registry.js calls it.          *)
(*                                                                         *)
(* Every mutation recorded by the primary is encoded, kept in a bounded    *)
(* backlog and written to the replicas that are online.  A replica counts  *)
(* the bytes it has received; when it connects again it asks for the rest  *)
(* of the stream from that offset and gets it if the backlog still holds   *)
(* it, or else a whole snapshot.  The stream has a state of its own: which *)
(* database the last SELECT chose, and how much of a command has arrived.  *)
(*                                                                         *)
(* A command is Width units of the stream, so that with Width > 1 a link   *)
(* may break inside one.  A mutation appends its number to a database, the *)
(* strictest data there is: a mutation lost, repeated, reordered or run in *)
(* another database shows.                                                 *)
(***************************************************************************)
EXTENDS Integers, Sequences

CONSTANTS
  Replica,
  Db, Db0,      \* the databases, and the one a connection starts in
  Width,        \* units of the stream per command
  MaxBacklog,   \* backlog.maxSize, in units
  Objects,      \* how replicas connect again: with the "same" object or a "new" one
  ExportExpires,\* may exportSnapshot meet a key whose deadline has passed?
  MaxMutations, \* bound of the model on mutations
  MaxDrops,     \* bound of the model on broken links
  MaxRestarts   \* bound of the model on restarts of the primary

ASSUME ReplicationAssumption ==
  /\ Db0 \in Db
  /\ Width \in Nat \ {0} /\ MaxBacklog \in Nat \ {0}
  /\ Objects \subseteq {"same", "new"} /\ ExportExpires \in BOOLEAN
  /\ MaxMutations \in Nat /\ MaxDrops \in Nat /\ MaxRestarts \in Nat

VARIABLES
  (* the primary *)
  data,            \* its store: [Db -> numbers of the mutations made there]
  replicationId,
  currentOffset,   \* primary.currentOffset
  selected,        \* primary._currentDb
  backlog,         \* [buffer, firstOffset, currentOffset]
  online,          \* the replicas whose entry in primary.replicas is ONLINE
  (* each replica *)
  copy,            \* its store
  state,           \* "none", "psync" (request sent), "online"; "dead": it crashed
  masterId,        \* masterReplicationId, 0 for none
  receivedOffset,
  currentDb,       \* _currentDb
  parser,          \* the units of an incomplete command
  link,            \* what the primary has written and the replica not yet read
  (* history, kept by no code *)
  stream,          \* every unit since the primary started
  base,            \* its store when it started
  made,            \* how many mutations there have been
  drops,           \* how many links have broken
  astray           \* the replicas whose stream no longer fits their state

primaryVars == <<data, replicationId, currentOffset, selected, backlog>>
replicaVars == <<copy, masterId, receivedOffset, currentDb, parser>>
vars == <<primaryVars, online, replicaVars, state, link, stream, base, made, drops, astray>>

Nothing == [d \in Db |-> <<>>]
NoBacklog == [buffer |-> <<>>, firstOffset |-> 0, currentOffset |-> 0]

Init ==
  /\ data = Nothing /\ replicationId = 1 /\ currentOffset = 0 /\ selected = Db0
  /\ backlog = NoBacklog /\ online = {}
  /\ copy = [r \in Replica |-> Nothing]
  /\ state = [r \in Replica |-> "none"]
  /\ masterId = [r \in Replica |-> 0]
  /\ receivedOffset = [r \in Replica |-> 0]
  /\ currentDb = [r \in Replica |-> Db0]
  /\ parser = [r \in Replica |-> <<>>]
  /\ link = [r \in Replica |-> <<>>]
  /\ stream = <<>> /\ base = Nothing /\ made = 0 /\ drops = 0 /\ astray = {}

-----------------------------------------------------------------------------
(* The primary.                                                            *)

\* A command of the stream and its units (encodeCommand).
SelectCmd(d) == [op |-> "select", db |-> d, id |-> 0]
PushCmd(d, n) == [op |-> "push", db |-> d, id |-> n]
Units(cmd) == [i \in 1..Width |-> [kind |-> "unit", cmd |-> cmd, part |-> i]]

\* Variants of Kept that drop one unit too many and one too few.
KeptShort(buffer) == SubSeq(buffer, Len(buffer) - MaxBacklog + 2, Len(buffer))
KeptLong(buffer) == SubSeq(buffer, Len(buffer) - MaxBacklog, Len(buffer))

\* What of a buffer that is too long is kept.
Kept(buffer) == SubSeq(buffer, Len(buffer) - MaxBacklog + 1, Len(buffer))

\* backlog.append
BacklogAppend(chunk) ==
  LET grown == backlog.buffer \o chunk
      overflow == Len(grown) - MaxBacklog
      now == backlog.currentOffset + Len(chunk)
  IN  IF overflow > 0
      THEN [buffer |-> Kept(grown), firstOffset |-> backlog.firstOffset + overflow,
            currentOffset |-> now]
      ELSE [backlog EXCEPT !.buffer = grown, !.currentOffset = now]

\* canProvide and sliceFrom
CanProvide(offset) ==
  backlog.buffer # <<>> /\ offset \in backlog.firstOffset..backlog.currentOffset

\* Variant of SliceFrom that begins one unit late.
SliceAfter(offset) ==
  SubSeq(backlog.buffer, offset - backlog.firstOffset + 2, Len(backlog.buffer))

SliceFrom(offset) ==
  SubSeq(backlog.buffer, offset - backlog.firstOffset + 1, Len(backlog.buffer))

\* Variant of Chunk that never selects a database.
PushOnly(d) == Units(PushCmd(d, made + 1))

\* _onMutation: the units a mutation of database d adds to the stream.
Chunk(d) ==
  IF d # selected THEN Units(SelectCmd(d)) \o Units(PushCmd(d, made + 1))
  ELSE Units(PushCmd(d, made + 1))

\* record and _onMutation, without the writes to the replicas.
Record(d) ==
  /\ made < MaxMutations /\ made' = made + 1
  /\ data' = [data EXCEPT ![d] = Append(@, made + 1)]
  /\ selected' = d
  /\ backlog' = BacklogAppend(Chunk(d))
  /\ currentOffset' = currentOffset + Len(Chunk(d))
  /\ stream' = stream \o Chunk(d)
  /\ UNCHANGED <<replicationId, base>>

\* A mutation of the primary's store.
Mutate(d) ==
  /\ Record(d)
  /\ link' = [r \in Replica |-> IF r \in online THEN link[r] \o Chunk(d) ELSE link[r]]
  /\ UNCHANGED <<online, replicaVars, state, drops, astray>>

\* handlePsync, partial: the rest of the stream from the offset asked for.
Continue(r) ==
  /\ masterId[r] = replicationId /\ receivedOffset[r] > 0 /\ CanProvide(receivedOffset[r])
  /\ link' = [link EXCEPT ![r] = @ \o <<[kind |-> "continue"]>> \o SliceFrom(receivedOffset[r])]
  /\ UNCHANGED <<primaryVars, stream, base, made, astray>>

\* The two parts of a full resynchronisation: the header, written before the
\* snapshot is taken, and the snapshot.  db and exact are history: the database
\* the stream goes on in, and whether the snapshot is of the header's offset.
Header == [kind |-> "full", id |-> replicationId, offset |-> currentOffset]
Snapshot(store, db, exact) == [kind |-> "snapshot", data |-> store, db |-> db, exact |-> exact]

\* handlePsync, full.  exportSnapshot may delete expired keys, which are
\* mutations of their own.
FullResync(r) ==
  /\ ~(masterId[r] = replicationId /\ receivedOffset[r] > 0 /\ CanProvide(receivedOffset[r]))
  /\ \/ /\ UNCHANGED <<primaryVars, stream, base, made>>
        /\ link' = [link EXCEPT ![r] = @ \o <<Header, Snapshot(data, selected, TRUE)>>]
     \/ /\ ExportExpires
        /\ \E d \in Db :
             /\ Record(d)
             /\ link' = [s \in Replica |->
                  IF s = r THEN link[r] \o <<Header, Snapshot(data', d, FALSE)>>
                  ELSE IF s \in online THEN link[s] \o Chunk(d) ELSE link[s]]
  /\ UNCHANGED astray

\* Variant of Accepted that answers but does not stream.
NotStreamed(r) == UNCHANGED online

Accepted(r) == online' = online \cup {r}

Psync(r) ==
  /\ state[r] = "psync" /\ r \notin online /\ link[r] = <<>>
  /\ Continue(r) \/ FullResync(r)
  /\ Accepted(r)
  /\ UNCHANGED <<replicaVars, state, drops>>

-----------------------------------------------------------------------------
(* A replica.                                                              *)

\* connect, up to the PSYNC request.  Reconnecting is left to the embedder: it
\* may use its ReplicaReplication again, or, as the tests do, a new one that is
\* given the id and the offset of the old.
Connect(r, object) ==
  /\ state[r] = "none" /\ object \in Objects
  /\ state' = [state EXCEPT ![r] = "psync"]
  /\ IF object = "same" THEN UNCHANGED <<parser, currentDb, astray>>
     ELSE /\ parser' = [parser EXCEPT ![r] = <<>>]
          /\ currentDb' = [currentDb EXCEPT ![r] = Db0]
          /\ astray' = IF parser[r] # <<>> \/ currentDb[r] # Db0 THEN astray \cup {r} ELSE astray
  /\ UNCHANGED <<primaryVars, online, copy, masterId, receivedOffset, link, stream, base, made,
                 drops>>

\* _handlePsyncResponse, +CONTINUE: the stream goes on.
Resume(r, reply) ==
  /\ reply.kind = "continue"
  /\ state' = [state EXCEPT ![r] = "online"]
  /\ UNCHANGED <<copy, masterId, receivedOffset, astray>>

\* +FULLRESYNC: the id and the offset are taken as soon as the header is there,
\* so that until the snapshot is, they say more than the replica has.
TakeHeader(r, reply) ==
  /\ reply.kind = "full"
  /\ masterId' = [masterId EXCEPT ![r] = reply.id]
  /\ receivedOffset' = [receivedOffset EXCEPT ![r] = reply.offset]
  /\ astray' = astray \cup {r}
  /\ UNCHANGED <<copy, state>>

\* The snapshot; the parser and _currentDb stay as they are.
TakeSnapshot(r, reply) ==
  /\ reply.kind = "snapshot"
  /\ copy' = [copy EXCEPT ![r] = reply.data]
  /\ state' = [state EXCEPT ![r] = "online"]
  /\ astray' = IF reply.exact /\ reply.db = currentDb[r] /\ parser[r] = <<>>
               THEN astray \ {r} ELSE astray
  /\ UNCHANGED <<masterId, receivedOffset>>

PsyncResponse(r) ==
  /\ state[r] = "psync" /\ link[r] # <<>>
  /\ LET reply == Head(link[r])
     IN  Resume(r, reply) \/ TakeHeader(r, reply) \/ TakeSnapshot(r, reply)
  /\ link' = [link EXCEPT ![r] = Tail(@)]
  /\ UNCHANGED <<primaryVars, online, currentDb, parser, stream, base, made, drops>>

\* Variant of Counted that counts commands, not what has been read.
CountedCommands(r, unit) == receivedOffset[r] + IF unit.part = Width THEN 1 ELSE 0

Counted(r, unit) == receivedOffset[r] + 1

\* processChunk, one unit at a time: the last unit of a command whose others
\* are there runs it; the end of a command whose beginning is not there is
\* skipped; the beginning of another command in the middle of one makes parse()
\* throw, which nothing catches.  (Inside a bulk string it would be read as part
\* of the value; such a replica is astray in both cases.)
Stream(r) ==
  /\ state[r] = "online" /\ link[r] # <<>>
  /\ LET unit == Head(link[r])
         complete == Len(parser[r]) + 1 = Width /\ unit.part = Width
         expected == unit.part = Len(parser[r]) + 1
     IN  /\ receivedOffset' = [receivedOffset EXCEPT ![r] = Counted(r, unit)]
         /\ parser' = [parser EXCEPT ![r] = IF expected /\ ~complete THEN Append(@, unit)
                                            ELSE <<>>]
         /\ state' = [state EXCEPT ![r] = IF ~expected /\ parser[r] # <<>> THEN "dead" ELSE @]
         /\ currentDb' = [currentDb EXCEPT ![r] = IF complete /\ unit.cmd.op = "select"
                                                  THEN unit.cmd.db ELSE @]
         /\ copy' = [copy EXCEPT ![r][currentDb[r]] =
                       IF complete /\ unit.cmd.op = "push" THEN Append(@, unit.cmd.id) ELSE @]
         /\ link' = [link EXCEPT ![r] = Tail(@)]
  /\ UNCHANGED <<primaryVars, online, masterId, stream, base, made, drops, astray>>

-----------------------------------------------------------------------------
(* Failures.                                                               *)

\* The link breaks: what was under way is lost, both ends clean up.
Drop(r) ==
  /\ state[r] \in {"psync", "online"} /\ drops < MaxDrops /\ drops' = drops + 1
  /\ state' = [state EXCEPT ![r] = "none"]
  /\ link' = [link EXCEPT ![r] = <<>>]
  /\ online' = online \ {r}
  /\ UNCHANGED <<primaryVars, replicaVars, stream, base, made, astray>>

\* The primary restarts with the store it had: a new id, an empty backlog.
Restart ==
  /\ replicationId <= MaxRestarts
  /\ replicationId' = replicationId + 1
  /\ currentOffset' = 0 /\ selected' = Db0 /\ backlog' = NoBacklog
  /\ online' = {} /\ stream' = <<>> /\ base' = data
  /\ link' = [r \in Replica |-> <<>>]
  /\ state' = [r \in Replica |-> IF state[r] = "dead" THEN "dead" ELSE "none"]
  /\ UNCHANGED <<data, replicaVars, made, drops, astray>>

Next ==
  \/ \E d \in Db : Mutate(d)
  \/ \E r \in Replica : \/ \E object \in Objects : Connect(r, object)
                        \/ Psync(r) \/ PsyncResponse(r) \/ Stream(r) \/ Drop(r)
  \/ Restart

\* The event loops run and TCP delivers while the link holds.  Nothing in the
\* code connects a replica again, so nothing is assumed about Connect.
Fairness == \A r \in Replica : WF_vars(Psync(r)) /\ WF_vars(PsyncResponse(r)) /\ WF_vars(Stream(r))

Spec == Init /\ [][Next]_vars /\ Fairness

-----------------------------------------------------------------------------
(* Properties.                                                             *)

\* Type invariant.
TypeOK ==
  /\ data \in [Db -> Seq(1..MaxMutations)]
  /\ replicationId \in Nat /\ currentOffset \in Nat /\ selected \in Db
  /\ backlog.firstOffset \in Nat /\ backlog.currentOffset \in Nat
  /\ Len(backlog.buffer) <= MaxBacklog
  /\ online \subseteq Replica
  /\ copy \in [Replica -> [Db -> Seq(1..MaxMutations)]]
  /\ state \in [Replica -> {"none", "psync", "online", "dead"}]
  /\ masterId \in [Replica -> Nat]
  /\ receivedOffset \in [Replica -> Nat]
  /\ currentDb \in [Replica -> Db]
  /\ \A r \in Replica : Len(parser[r]) < Width
  /\ astray \subseteq Replica

\* The backlog is the end of the stream, and its offsets and the primary's name
\* the positions it really has (append, canProvide, sliceFrom, _onMutation).
BacklogExact ==
  /\ currentOffset = Len(stream)
  /\ backlog.currentOffset = currentOffset
  /\ backlog.buffer = SubSeq(stream, backlog.firstOffset + 1, backlog.currentOffset)
  /\ backlog.firstOffset > 0 => Len(backlog.buffer) = MaxBacklog

\* A replica that streams has, on its way, exactly the units of the stream that
\* follow the offset it counts: none is lost and none comes twice, whatever broke
\* before (sliceFrom, _onMutation, processChunk).
NothingMissed ==
  \A r \in Replica \ astray :
    state[r] = "online" => /\ receivedOffset[r] <= Len(stream)
                           /\ link[r] = SubSeq(stream, receivedOffset[r] + 1, Len(stream))

\* What the last unit of a command does to the store it was recorded for.
Applied(store, unit) ==
  IF unit.part = Width /\ unit.cmd.op = "push"
  THEN [store EXCEPT ![unit.cmd.db] = Append(@, unit.cmd.id)]
  ELSE store

\* The primary's store after the first n units of the stream.
StateAt(n) ==
  LET store[i \in 0..n] == IF i = 0 THEN base ELSE Applied(store[i - 1], stream[i])
  IN  store[n]

\* A replica's store is the primary's at exactly the offset the replica counts:
\* nothing is lost, repeated, reordered or run elsewhere, through any number of
\* broken links, partial and full resynchronisations.
ExactPosition ==
  \A r \in Replica \ astray :
    masterId[r] = replicationId /\ state[r] # "dead" => copy[r] = StateAt(receivedOffset[r])

\* A replica that asks for the stream, and whose link holds, gets it, and at some
\* point holds exactly the primary's data: streaming, full and partial answers
\* end in the same place (handlePsync, _handlePsyncResponse, processChunk).
CatchesUp ==
  \A r \in Replica :
    state[r] = "psync" ~> \/ state[r] = "online" /\ (copy[r] = data \/ r \in astray)
                          \/ state[r] \in {"none", "dead"}

\* A replica that has read all the primary wrote holds the primary's data.
InSync ==
  \A r \in online : state[r] = "online" /\ link[r] = <<>> => copy[r] = data

=============================================================================
