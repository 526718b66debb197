-------------------------- MODULE ReplicationProofs --------------------------
(***************************************************************************)
(* The backlog of the primary and the links to the replicas, for any       *)
(* number of replicas and databases, any length of a command and any size  *)
(* of the backlog.                                                         *)
(*                                                                         *)
(* The argument: the stream only grows at its end, and the backlog is a    *)
(* window of it that ends where the stream does.  Appending keeps it one   *)
(* (Extend), and so does dropping units at its front (Slide), as long as   *)
(* firstOffset moves by what was dropped.  The rest of the stream from any *)
(* offset inside the window is therefore in the buffer.  A link has what   *)
(* is left of an answer and then, again, the end of the stream (LinkOK):   *)
(* mutations extend it, reading moves the offset along it.                 *)
(*                                                                         *)
(* The last part is about the stores.  What a prefix of the stream makes   *)
(* of the primary's first store never changes once it is written, so each  *)
(* offset has a store (StoreOf), a selected database (InDb) and a command  *)
(* that has begun (Begun).  A replica that is not astray has all three of  *)
(* the offset it counts, and reading one unit gives it those of the next.  *)
(***************************************************************************)
EXTENDS Replication, InductionProofs, SequenceTheorems

\* A unit of the stream.
Command == {cmd \in [op : {"select", "push"}, db : Db, id : 0..MaxMutations] :
              cmd.op = "push" => cmd.id > 0}
Unit == [kind : {"unit"}, cmd : Command, part : 1..Width]

\* The inductive invariant behind BacklogExact.
BacklogInv ==
  /\ made \in 0..MaxMutations
  /\ stream \in Seq(Unit)
  /\ backlog \in [buffer : Seq(Unit), firstOffset : Nat, currentOffset : Nat]
  /\ backlog.firstOffset <= backlog.currentOffset
  /\ Len(backlog.buffer) <= MaxBacklog
  /\ BacklogExact

-----------------------------------------------------------------------------
(* Windows: ends of a sequence.                                            *)

End(s, f) == SubSeq(s, f + 1, Len(s))

\* What the end of a sequence holds.
LEMMA EndProperties ==
  ASSUME NEW S, NEW s \in Seq(S), NEW f \in 0..Len(s)
  PROVE  /\ End(s, f) \in Seq(S)
         /\ Len(End(s, f)) = Len(s) - f
         /\ \A i \in 1..(Len(s) - f) : End(s, f)[i] = s[f + i]
<1>1. Len(s) \in Nat
  OBVIOUS
<1>2. \A i \in (f + 1)..Len(s) : s[i] \in S
  BY <1>1, ElementOfSeq
<1>3. /\ SubSeq(s, f + 1, Len(s)) \in Seq(S)
      /\ Len(SubSeq(s, f + 1, Len(s))) = IF f + 1 <= Len(s) THEN Len(s) - (f + 1) + 1 ELSE 0
      /\ \A i \in 1..(Len(s) - (f + 1) + 1) : SubSeq(s, f + 1, Len(s))[i] = s[(f + 1) + i - 1]
  BY <1>1, <1>2, SubSeqProperties, f + 1 \in Int, Len(s) \in Int
<1> QED
  BY <1>1, <1>3 DEF End

\* Appending to a sequence appends to its end.
LEMMA Extend ==
  ASSUME NEW S, NEW s \in Seq(S), NEW c \in Seq(S), NEW f \in 0..Len(s)
  PROVE  End(s, f) \o c = End(s \o c, f)
<1>1. /\ s \o c \in Seq(S) /\ Len(s \o c) = Len(s) + Len(c)
      /\ \A i \in 1..(Len(s) + Len(c)) :
           (s \o c)[i] = IF i <= Len(s) THEN s[i] ELSE c[i - Len(s)]
  BY ConcatProperties
<1>2. Len(s) \in Nat /\ Len(c) \in Nat /\ f \in 0..Len(s \o c)
  BY <1>1
<1>3. /\ End(s, f) \in Seq(S) /\ Len(End(s, f)) = Len(s) - f
      /\ \A i \in 1..(Len(s) - f) : End(s, f)[i] = s[f + i]
  BY EndProperties
<1>4. /\ End(s \o c, f) \in Seq(S) /\ Len(End(s \o c, f)) = Len(s) + Len(c) - f
      /\ \A i \in 1..(Len(s) + Len(c) - f) : End(s \o c, f)[i] = (s \o c)[f + i]
  <2> DEFINE t == s \o c
  <2>1. t \in Seq(S) /\ f \in 0..Len(t) /\ Len(t) = Len(s) + Len(c)
    BY <1>1, <1>2
  <2> HIDE DEF t
  <2>2. /\ End(t, f) \in Seq(S) /\ Len(End(t, f)) = Len(t) - f
        /\ \A i \in 1..(Len(t) - f) : End(t, f)[i] = t[f + i]
    BY <2>1, EndProperties
  <2>3. /\ End(t, f) \in Seq(S) /\ Len(End(t, f)) = Len(s) + Len(c) - f
        /\ \A i \in 1..(Len(s) + Len(c) - f) : End(t, f)[i] = t[f + i]
    BY <2>1, <2>2
  <2> QED
    BY <2>3 DEF t
<1>5. /\ End(s, f) \o c \in Seq(S)
      /\ Len(End(s, f) \o c) = Len(s) - f + Len(c)
      /\ \A i \in 1..(Len(s) - f + Len(c)) :
           (End(s, f) \o c)[i] = IF i <= Len(s) - f THEN End(s, f)[i] ELSE c[i - (Len(s) - f)]
  <2> DEFINE e == End(s, f)
  <2>1. e \in Seq(S) /\ Len(e) = Len(s) - f
    BY <1>3
  <2> HIDE DEF e
  <2>2. /\ e \o c \in Seq(S) /\ Len(e \o c) = Len(e) + Len(c)
        /\ \A i \in 1..(Len(e) + Len(c)) :
             (e \o c)[i] = IF i <= Len(e) THEN e[i] ELSE c[i - Len(e)]
    BY <2>1, ConcatProperties
  <2>3. /\ e \o c \in Seq(S) /\ Len(e \o c) = Len(s) - f + Len(c)
        /\ \A i \in 1..(Len(s) - f + Len(c)) :
             (e \o c)[i] = IF i <= Len(s) - f THEN e[i] ELSE c[i - (Len(s) - f)]
    BY <2>1, <2>2
  <2> QED
    BY <2>3 DEF e
<1>6. \A i \in 1..(Len(s) - f + Len(c)) : (End(s, f) \o c)[i] = End(s \o c, f)[i]
  <2> TAKE i \in 1..(Len(s) - f + Len(c))
  <2>1. End(s \o c, f)[i] = (s \o c)[f + i]
    BY <1>2, <1>4
  <2>2. CASE i <= Len(s) - f
    BY <2>1, <2>2, <1>1, <1>2, <1>3, <1>5
  <2>3. CASE ~(i <= Len(s) - f)
    <3>1. f + i \in 1..(Len(s) + Len(c)) /\ ~(f + i <= Len(s)) /\ i - (Len(s) - f) = f + i - Len(s)
      BY <2>3, <1>2
    <3> QED
      BY <3>1, <2>1, <2>3, <1>1, <1>5
  <2> QED
    BY <2>2, <2>3
<1> DEFINE l == End(s, f) \o c
           r == End(s \o c, f)
<1>7. l \in Seq(S) /\ r \in Seq(S) /\ Len(l) = Len(r) /\ \A i \in 1..Len(l) : l[i] = r[i]
  BY <1>2, <1>4, <1>5, <1>6
<1> HIDE DEF l, r
<1>8. l = r
  BY <1>7, SeqEqual
<1> QED
  BY <1>8 DEF l, r

\* The end of an end is an end.
LEMMA Slide ==
  ASSUME NEW S, NEW s \in Seq(S), NEW f \in 0..Len(s), NEW k \in 0..(Len(s) - f)
  PROVE  End(End(s, f), k) = End(s, f + k)
<1>1. Len(s) \in Nat /\ f + k \in 0..Len(s)
  OBVIOUS
<1>2. /\ End(s, f) \in Seq(S) /\ Len(End(s, f)) = Len(s) - f
      /\ \A i \in 1..(Len(s) - f) : End(s, f)[i] = s[f + i]
  BY EndProperties
<1>3. /\ End(s, f + k) \in Seq(S) /\ Len(End(s, f + k)) = Len(s) - (f + k)
      /\ \A i \in 1..(Len(s) - (f + k)) : End(s, f + k)[i] = s[f + k + i]
  BY <1>1, EndProperties
<1>4. /\ End(End(s, f), k) \in Seq(S) /\ Len(End(End(s, f), k)) = Len(s) - f - k
      /\ \A i \in 1..(Len(s) - f - k) : End(End(s, f), k)[i] = End(s, f)[k + i]
  BY <1>2, EndProperties
<1>5. \A i \in 1..(Len(s) - f - k) : End(End(s, f), k)[i] = End(s, f + k)[i]
  <2> TAKE i \in 1..(Len(s) - f - k)
  <2>1. k + i \in 1..(Len(s) - f) /\ i \in 1..(Len(s) - (f + k)) /\ f + (k + i) = f + k + i
    BY <1>1
  <2> QED
    BY <2>1, <1>2, <1>3, <1>4
<1> QED
  BY <1>1, <1>3, <1>4, <1>5, SeqEqual

-----------------------------------------------------------------------------
(* The backlog.                                                            *)

\* A mutation adds whole commands to the stream.
LEMMA ChunkType ==
  ASSUME NEW d \in Db, made \in 0..MaxMutations, made < MaxMutations
  PROVE  Chunk(d) \in Seq(Unit)
<1>1. \A cmd \in Command : Units(cmd) \in Seq(Unit)
  BY ReplicationAssumption DEF Units, Unit
<1>2. SelectCmd(d) \in Command
  BY ReplicationAssumption DEF SelectCmd, Command
<1>3. PushCmd(d, made + 1) \in Command
  BY ReplicationAssumption DEF PushCmd, Command
<1> QED
  BY <1>1, <1>2, <1>3, ConcatProperties DEF Chunk

\* append keeps the backlog a window that ends with the stream.
LEMMA AppendExact ==
  ASSUME BacklogInv, NEW chunk \in Seq(Unit)
  PROVE  LET after == BacklogAppend(chunk) IN
         /\ after \in [buffer : Seq(Unit), firstOffset : Nat, currentOffset : Nat]
         /\ after.firstOffset <= after.currentOffset
         /\ Len(after.buffer) <= MaxBacklog
         /\ after.currentOffset = Len(stream \o chunk)
         /\ after.buffer = End(stream \o chunk, after.firstOffset)
         /\ after.firstOffset > 0 => Len(after.buffer) = MaxBacklog
<1> DEFINE first == backlog.firstOffset
           grown == backlog.buffer \o chunk
           overflow == Len(grown) - MaxBacklog
           whole == stream \o chunk
           now == backlog.currentOffset + Len(chunk)
<1>1. /\ first \in 0..Len(stream) /\ Len(stream) \in Nat /\ Len(chunk) \in Nat
      /\ backlog.currentOffset = Len(stream)
      /\ backlog.buffer = End(stream, first)
      /\ MaxBacklog \in Nat \ {0}
  BY ReplicationAssumption DEF BacklogInv, BacklogExact, End
<1>2. whole \in Seq(Unit) /\ Len(whole) = Len(stream) + Len(chunk)
  BY ConcatProperties DEF BacklogInv
<1>3. grown = End(whole, first)
  <2>1. stream \in Seq(Unit) /\ chunk \in Seq(Unit) /\ first \in 0..Len(stream)
    BY <1>1 DEF BacklogInv
  <2> HIDE DEF first
  <2>2. End(stream, first) \o chunk = End(stream \o chunk, first)
    BY <2>1, Extend
  <2> QED
    BY <1>1, <2>2
<1>4. grown \in Seq(Unit) /\ Len(grown) = Len(whole) - first
  <2>1. first \in 0..Len(whole)
    BY <1>1, <1>2
  <2> HIDE DEF first, whole, grown
  <2> QED
    BY <1>2, <1>3, <2>1, EndProperties
<1>5. Len(backlog.buffer) = Len(stream) - first /\ Len(backlog.buffer) <= MaxBacklog
      /\ (first > 0 => Len(backlog.buffer) = MaxBacklog)
  BY <1>1, EndProperties DEF BacklogInv, BacklogExact
<1>6. CASE overflow > 0
  <2>1. BacklogAppend(chunk) =
          [buffer |-> Kept(grown), firstOffset |-> first + overflow, currentOffset |-> now]
    BY <1>6 DEF BacklogAppend
  <2>2. Kept(grown) = End(grown, overflow)
    BY <1>1, <1>4 DEF Kept, End
  <2>3. overflow \in 0..(Len(whole) - first) /\ first \in 0..Len(whole)
    BY <1>1, <1>2, <1>4, <1>6
  <2>4. Kept(grown) = End(whole, first + overflow)
    <3> HIDE DEF whole, grown, first, overflow
    <3>1. End(End(whole, first), overflow) = End(whole, first + overflow)
      BY <1>2, <2>3, Slide
    <3> QED
      BY <3>1, <1>3, <2>2
  <2>5. /\ Kept(grown) \in Seq(Unit)
        /\ Len(Kept(grown)) = Len(whole) - (first + overflow)
    BY <1>2, <2>3, <2>4, EndProperties, first + overflow \in 0..Len(whole)
  <2>6. Len(Kept(grown)) = MaxBacklog
    BY <1>1, <1>2, <1>4, <2>5
  <2>7. now = Len(whole) /\ now \in Nat /\ first + overflow \in Nat /\ first + overflow <= now
    BY <1>1, <1>2, <2>3
  <2> QED
    BY <2>1, <2>4, <2>5, <2>6, <2>7, <1>1
<1>7. CASE ~(overflow > 0)
  <2>1. BacklogAppend(chunk) =
          [buffer |-> grown, firstOffset |-> first, currentOffset |-> now]
    BY <1>7 DEF BacklogAppend, BacklogInv
  <2>2. Len(grown) <= MaxBacklog
    BY <1>1, <1>2, <1>4, <1>7
  <2>3. first > 0 => Len(grown) = MaxBacklog
    BY <1>1, <1>2, <1>4, <1>5, <2>2
  <2>4. now = Len(whole) /\ now \in Nat /\ first \in Nat /\ first <= now
    BY <1>1, <1>2
  <2> QED
    BY <2>1, <2>2, <2>3, <2>4, <1>3, <1>4
<1> QED
  BY <1>6, <1>7

\* So do all the steps that record a mutation.
LEMMA RecordExact ==
  ASSUME BacklogInv, NEW d \in Db, Record(d)
  PROVE  BacklogInv'
<1>1. Chunk(d) \in Seq(Unit)
  BY ChunkType DEF BacklogInv, Record
<1>2. /\ made' \in 0..MaxMutations
      /\ stream' = stream \o Chunk(d)
      /\ backlog' = BacklogAppend(Chunk(d))
      /\ currentOffset' = currentOffset + Len(Chunk(d))
  BY ReplicationAssumption DEF Record, BacklogInv
<1>3. stream' \in Seq(Unit) /\ Len(stream') = Len(stream) + Len(Chunk(d))
  BY <1>1, <1>2, ConcatProperties DEF BacklogInv
<1>4. /\ backlog' \in [buffer : Seq(Unit), firstOffset : Nat, currentOffset : Nat]
      /\ backlog'.firstOffset <= backlog'.currentOffset
      /\ Len(backlog'.buffer) <= MaxBacklog
      /\ backlog'.currentOffset = Len(stream')
      /\ backlog'.buffer = End(stream', backlog'.firstOffset)
      /\ backlog'.firstOffset > 0 => Len(backlog'.buffer) = MaxBacklog
  BY <1>1, <1>2, AppendExact
<1>5. currentOffset' = Len(stream')
  BY <1>2, <1>3 DEF BacklogInv, BacklogExact
<1> QED
  BY <1>2, <1>3, <1>4, <1>5 DEF BacklogInv, BacklogExact, End

\* The backlog starts as an empty window of an empty stream.
LEMMA InitExact == Init => BacklogInv
BY ReplicationAssumption, SubSeqEmpty DEF Init, BacklogInv, BacklogExact, NoBacklog

\* Only Record and Restart touch the stream or the backlog, and both keep the one
\* a window of the other.
LEMMA NextExact == BacklogInv /\ [Next]_vars => BacklogInv'
<1> SUFFICES ASSUME BacklogInv, [Next]_vars PROVE BacklogInv'
  OBVIOUS
<1> DEFINE kept == UNCHANGED <<made, stream, backlog, currentOffset>>
<1>1. CASE kept
  BY <1>1 DEF BacklogInv, BacklogExact
<1>2. CASE \E d \in Db : Record(d)
  BY <1>2, RecordExact
<1>3. CASE Restart
  BY <1>3, ReplicationAssumption, SubSeqEmpty
     DEF Restart, BacklogInv, BacklogExact, NoBacklog
<1>4. ASSUME NEW d \in Db, Mutate(d) PROVE \E e \in Db : Record(e)
  BY <1>4 DEF Mutate
<1>5. ASSUME NEW r \in Replica, Psync(r) PROVE kept \/ \E e \in Db : Record(e)
  BY <1>5 DEF Psync, Continue, FullResync, primaryVars
<1>6. ASSUME NEW r \in Replica, NEW object \in Objects, Connect(r, object) PROVE kept
  BY <1>6 DEF Connect, primaryVars
<1>7. ASSUME NEW r \in Replica, PsyncResponse(r) \/ Stream(r) \/ Drop(r) PROVE kept
  BY <1>7 DEF PsyncResponse, Stream, Drop, primaryVars
<1>8. CASE UNCHANGED vars
  BY <1>1, <1>8 DEF vars, primaryVars
<1> QED
  BY <1>1, <1>2, <1>3, <1>4, <1>5, <1>6, <1>7, <1>8 DEF Next

-----------------------------------------------------------------------------

\* The window is the end of the stream in every state of the system.
THEOREM BacklogInvariance == Spec => []BacklogInv
BY InitExact, NextExact, PTL DEF Spec

\* The backlog is the end of the stream, its offsets and the primary's are the
\* positions they name, and it is cut only when full (append, _onMutation).
THEOREM BacklogIsExact == Spec => []BacklogExact
<1>1. BacklogInv => BacklogExact
  BY DEF BacklogInv
<1> QED
  BY <1>1, BacklogInvariance, PTL

\* The rest of the stream, from any offset canProvide accepts.
ServesTheRest ==
  \A offset \in Nat :
    CanProvide(offset) => /\ offset <= Len(stream)
                          /\ SliceFrom(offset) = End(stream, offset)

\* The buffer from the offset on is a window of a window (Slide).
LEMMA BacklogServes == BacklogInv => ServesTheRest
<1> SUFFICES ASSUME BacklogInv, NEW offset \in Nat, CanProvide(offset)
             PROVE  offset <= Len(stream) /\ SliceFrom(offset) = End(stream, offset)
  BY DEF ServesTheRest
<1> DEFINE first == backlog.firstOffset
           k == offset - first
<1>1. /\ first \in Nat /\ first <= Len(stream) /\ Len(stream) \in Nat
      /\ offset \in first..Len(stream)
      /\ backlog.buffer = End(stream, first)
  BY DEF BacklogInv, BacklogExact, CanProvide, End
<1>2. first \in 0..Len(stream) /\ k \in 0..(Len(stream) - first) /\ first + k = offset
  BY <1>1
<1>3. SliceFrom(offset) = End(End(stream, first), k)
  BY <1>1 DEF SliceFrom, End
<1>4. End(End(stream, first), k) = End(stream, first + k)
  BY <1>2, Slide DEF BacklogInv
<1> QED
  BY <1>1, <1>2, <1>3, <1>4

\* What +CONTINUE is followed by is the stream from the offset the replica
\* asked for to its end: not a unit more, not a unit less (sliceFrom).
THEOREM ContinueIsExact == Spec => []ServesTheRest
BY BacklogServes, BacklogInvariance, PTL

-----------------------------------------------------------------------------
(* The links.  A replica that waits for the answer to its PSYNC has before *)
(* it what is left of the answer, and then the stream; one that is online  *)
(* has the stream.  The units go on from the offset the replica will count *)
(* from, unless its snapshot was taken late, which leaves it astray.       *)

ContinueReply == [kind : {"continue"}]
HeaderReply == [kind : {"full"}, id : Nat, offset : Nat]
SnapshotReply ==
  [kind : {"snapshot"}, data : [Db -> Seq(1..MaxMutations)], db : Db, exact : BOOLEAN]
Message == Unit \cup ContinueReply \cup HeaderReply \cup SnapshotReply

\* Units that follow the given offset of the stream, up to its end.
Follows(units, offset) == offset \in 0..Len(stream) /\ units = End(stream, offset)

\* The three forms of a link whose answer has not been read to its end.
Continued(r, reply, units) ==
  /\ reply \in ContinueReply /\ link[r] = <<reply>> \o units
  /\ Follows(units, receivedOffset[r])
Headed(r, reply, snapshot, units) ==
  /\ reply \in HeaderReply /\ snapshot \in SnapshotReply
  /\ link[r] = <<reply>> \o (<<snapshot>> \o units)
  /\ snapshot.exact => Follows(units, reply.offset)
Snapped(r, snapshot, units) ==
  /\ snapshot \in SnapshotReply /\ link[r] = <<snapshot>> \o units
  /\ r \in astray
  /\ snapshot.exact => Follows(units, receivedOffset[r])

Answered(r) ==
  /\ r \in online
  /\ \E units \in Seq(Unit) :
       \/ \E reply : Continued(r, reply, units)
       \/ \E reply, snapshot : Headed(r, reply, snapshot, units)
       \/ \E snapshot : Snapped(r, snapshot, units)
Streaming(r) ==
  /\ r \in online
  /\ link[r] \in Seq(Unit)
  /\ r \notin astray => Follows(link[r], receivedOffset[r])
Silent(r) == r \notin online /\ link[r] = <<>>

LinkOK(r) ==
  \/ state[r] = "none" /\ Silent(r)
  \/ state[r] = "psync" /\ (Silent(r) \/ Answered(r))
  \/ state[r] = "online" /\ Streaming(r)
  \/ state[r] = "dead"

\* The types the steps of the links need.
LinkTypeOK ==
  /\ link \in [Replica -> Seq(Message)]
  /\ state \in [Replica -> {"none", "psync", "online", "dead"}]
  /\ receivedOffset \in [Replica -> Nat]
  /\ replicationId \in Nat /\ currentOffset \in Nat
  /\ data \in [Db -> Seq(1..MaxMutations)] /\ selected \in Db
  /\ online \subseteq Replica

LinkInv == BacklogInv /\ LinkTypeOK /\ \A r \in Replica : LinkOK(r)

\* A sequence of units is one of messages, and so is one message.
LEMMA Messages ==
  /\ \A units \in Seq(Unit) : units \in Seq(Message)
  /\ \A reply \in Message : <<reply>> \in Seq(Message)
<1>1. ASSUME NEW units \in Seq(Unit) PROVE units \in Seq(Message)
  BY SeqMonotonic, Unit \subseteq Message DEF Message
<1> QED
  BY <1>1

\* What a mutation appends to the stream follows what is on a link.
LEMMA FollowsMore ==
  ASSUME BacklogInv, NEW c \in Seq(Unit), NEW units \in Seq(Unit), NEW offset,
         Follows(units, offset)
  PROVE  /\ offset \in 0..Len(stream \o c)
         /\ units \o c = End(stream \o c, offset)
<1>1. stream \in Seq(Unit) /\ offset \in 0..Len(stream) /\ units = End(stream, offset)
  BY DEF BacklogInv, Follows
<1>2. End(stream, offset) \o c = End(stream \o c, offset)
  BY <1>1, Extend
<1>3. Len(stream \o c) = Len(stream) + Len(c) /\ Len(stream) \in Nat /\ Len(c) \in Nat
  BY <1>1, ConcatProperties
<1> QED
  BY <1>1, <1>2, <1>3

\* The units a mutation writes to the online replicas keep every link in form.
LEMMA LinkGrows ==
  ASSUME BacklogInv, NEW r \in Replica, LinkOK(r), NEW c \in Seq(Unit),
         stream' = stream \o c,
         link'[r] = IF r \in online THEN link[r] \o c ELSE link[r],
         state'[r] = state[r], receivedOffset'[r] = receivedOffset[r],
         r \in astray' <=> r \in astray, r \in online' <=> r \in online
  PROVE  LinkOK(r)'
<1>1. CASE state[r] = "dead"
  BY <1>1 DEF LinkOK
<1>2. CASE Silent(r)
  BY <1>2 DEF LinkOK, Silent, Streaming, Answered
<1>3. CASE state[r] = "online" /\ Streaming(r)
  <2>1. link'[r] = link[r] \o c /\ link'[r] \in Seq(Unit)
    BY <1>3, ConcatProperties DEF Streaming
  <2>2. ASSUME r \notin astray'
        PROVE  receivedOffset'[r] \in 0..Len(stream') /\ link'[r] = End(stream', receivedOffset'[r])
    BY <1>3, <2>1, <2>2, FollowsMore DEF Streaming
  <2> QED
    BY <1>3, <2>1, <2>2 DEF LinkOK, Streaming, Follows
<1>4. CASE state[r] = "psync" /\ Answered(r)
  <2>1. PICK units \in Seq(Unit) :
          \/ \E reply : Continued(r, reply, units)
          \/ \E reply, snapshot : Headed(r, reply, snapshot, units)
          \/ \E snapshot : Snapped(r, snapshot, units)
    BY <1>4 DEF Answered
  <2>2. units \o c \in Seq(Unit) /\ units \in Seq(Message) /\ c \in Seq(Message)
    BY ConcatProperties, Messages
  <2>3. link'[r] = link[r] \o c
    BY <1>4 DEF Answered
  <2>4. \A offset : Follows(units, offset) =>
          offset \in 0..Len(stream') /\ units \o c = End(stream', offset)
    BY FollowsMore
  <2>5. \A reply \in Message : (<<reply>> \o units) \o c = <<reply>> \o (units \o c)
    BY <2>2, Messages, ConcatAssociative
  <2>6. \A snapshot \in Message : <<snapshot>> \o units \in Seq(Message)
    BY <2>2, Messages, ConcatProperties
  <2>7. \A reply, snapshot \in Message :
          (<<reply>> \o (<<snapshot>> \o units)) \o c = <<reply>> \o (<<snapshot>> \o (units \o c))
    <3> TAKE reply, snapshot \in Message
    <3> DEFINE rest == <<snapshot>> \o units
    <3>1. <<reply>> \in Seq(Message) /\ rest \in Seq(Message)
      BY <2>6, Messages
    <3>2. rest \o c = <<snapshot>> \o (units \o c)
      BY <2>5
    <3> HIDE DEF rest
    <3>3. (<<reply>> \o rest) \o c = <<reply>> \o (rest \o c)
      BY <3>1, <2>2, ConcatAssociative
    <3> QED
      BY <3>2, <3>3 DEF rest
  <2>8. ASSUME NEW reply, Continued(r, reply, units) PROVE Continued(r, reply, units \o c)'
    BY <2>3, <2>4, <2>5, <2>8 DEF Continued, Follows, Message
  <2>9. ASSUME NEW reply, NEW snapshot, Headed(r, reply, snapshot, units)
        PROVE  Headed(r, reply, snapshot, units \o c)'
    BY <2>3, <2>4, <2>7, <2>9 DEF Headed, Follows, Message
  <2>10. ASSUME NEW snapshot, Snapped(r, snapshot, units) PROVE Snapped(r, snapshot, units \o c)'
    BY <2>3, <2>4, <2>5, <2>10 DEF Snapped, Follows, Message
  <2>11. r \in online'
    BY <1>4 DEF Answered
  <2>12. Answered(r)'
    BY <2>1, <2>2, <2>8, <2>9, <2>10, <2>11 DEF Answered
  <2> QED
    BY <1>4, <2>12 DEF LinkOK
<1> QED
  BY <1>1, <1>2, <1>3, <1>4 DEF LinkOK

\* A step that leaves the stream and the link alone keeps it in form.
LEMMA LinkKept ==
  ASSUME NEW r \in Replica, LinkOK(r),
         stream' = stream, link'[r] = link[r],
         state'[r] = state[r], receivedOffset'[r] = receivedOffset[r],
         r \in astray' <=> r \in astray, r \in online' <=> r \in online
  PROVE  LinkOK(r)'
BY DEF LinkOK, Silent, Answered, Streaming, Continued, Headed, Snapped, Follows

-----------------------------------------------------------------------------
(* The steps of the links.                                                 *)

\* The head and the tail of a link that begins with m.
LEMMA HeadTailConcat ==
  ASSUME NEW m \in Message, NEW s \in Seq(Message)
  PROVE  /\ <<m>> \o s # <<>>
         /\ Head(<<m>> \o s) = m
         /\ Tail(<<m>> \o s) = s
<1> DEFINE t == <<m>> \o s
<1>1. /\ t \in Seq(Message) /\ Len(t) = 1 + Len(s)
      /\ \A i \in 1..(1 + Len(s)) : t[i] = IF i <= 1 THEN m ELSE s[i - 1]
  BY Messages, ConcatProperties
<1>2. Len(s) \in Nat
  OBVIOUS
<1> HIDE DEF t
<1>3. t # <<>> /\ Head(t) = m
  BY <1>1, <1>2
<1>4. Tail(t) \in Seq(Message) /\ Len(Tail(t)) = Len(s)
  BY <1>1, <1>2, <1>3
<1>5. \A i \in 1..Len(s) : Tail(t)[i] = s[i]
  BY <1>1, <1>2, <1>3
<1>6. Tail(t) = s
  BY <1>4, <1>5, SeqEqual
<1> QED
  BY <1>3, <1>6 DEF t

\* What follows an offset, once its first unit has been read.
LEMMA FollowsTail ==
  ASSUME BacklogInv, NEW units \in Seq(Unit), units # <<>>, NEW offset, Follows(units, offset)
  PROVE  Follows(Tail(units), offset + 1)
<1>1. stream \in Seq(Unit) /\ Len(stream) \in Nat /\ offset \in 0..Len(stream)
      /\ units = End(stream, offset)
  BY DEF BacklogInv, Follows
<1>2. Len(units) = Len(stream) - offset /\ Len(units) > 0
  BY <1>1, EndProperties
<1>3. Tail(units) = End(units, 1)
  BY TailIsSubSeq DEF End
<1>4. 1 \in 0..(Len(stream) - offset)
  BY <1>1, <1>2
<1>5. End(End(stream, offset), 1) = End(stream, offset + 1)
  BY <1>1, <1>4, Slide
<1> QED
  BY <1>1, <1>2, <1>3, <1>5 DEF Follows

\* A mutation extends the links of the online replicas.
LEMMA MutateLinks ==
  ASSUME LinkInv, NEW d \in Db, Mutate(d)
  PROVE  \A r \in Replica : LinkOK(r)'
<1> SUFFICES ASSUME NEW r \in Replica PROVE LinkOK(r)'
  OBVIOUS
<1>1. Chunk(d) \in Seq(Unit) /\ stream' = stream \o Chunk(d)
  BY ChunkType DEF Mutate, Record, LinkInv, BacklogInv
<1>2. link'[r] = IF r \in online THEN link[r] \o Chunk(d) ELSE link[r]
  BY DEF Mutate
<1> QED
  BY <1>1, <1>2, LinkGrows DEF LinkInv, Mutate, replicaVars

\* A replica connects with an empty link.
LEMMA ConnectLinks ==
  ASSUME LinkInv, NEW q \in Replica, NEW object \in Objects, Connect(q, object)
  PROVE  \A r \in Replica : LinkOK(r)'
<1> SUFFICES ASSUME NEW r \in Replica PROVE LinkOK(r)'
  OBVIOUS
<1>1. CASE r = q
  BY <1>1 DEF LinkInv, LinkTypeOK, LinkOK, Connect, Silent
<1>2. CASE r # q
  <2>1. stream' = stream /\ link' = link /\ receivedOffset' = receivedOffset /\ online' = online
    BY DEF Connect
  <2>2. state'[r] = state[r] /\ (r \in astray' <=> r \in astray)
    BY <1>2 DEF Connect, LinkInv, LinkTypeOK
  <2> QED
    BY <2>1, <2>2, LinkKept DEF LinkInv
<1> QED
  BY <1>1, <1>2

\* A broken link is empty.
LEMMA DropLinks ==
  ASSUME LinkInv, NEW q \in Replica, Drop(q)
  PROVE  \A r \in Replica : LinkOK(r)'
<1> SUFFICES ASSUME NEW r \in Replica PROVE LinkOK(r)'
  OBVIOUS
<1>1. CASE r = q
  BY <1>1 DEF LinkInv, LinkTypeOK, LinkOK, Drop, Silent
<1>2. CASE r # q
  <2>1. stream' = stream /\ receivedOffset' = receivedOffset /\ astray' = astray
    BY DEF Drop, replicaVars
  <2>2. state'[r] = state[r] /\ link'[r] = link[r] /\ (r \in online' <=> r \in online)
    BY <1>2 DEF Drop, LinkInv, LinkTypeOK
  <2> QED
    BY <2>1, <2>2, LinkKept DEF LinkInv
<1> QED
  BY <1>1, <1>2

\* So are all links when the primary restarts.
LEMMA RestartLinks ==
  ASSUME LinkInv, Restart
  PROVE  \A r \in Replica : LinkOK(r)'
BY DEF Restart, LinkInv, LinkTypeOK, LinkOK, Silent

\* The next unit is read, and counted.
LEMMA StreamLinks ==
  ASSUME LinkInv, NEW q \in Replica, Stream(q)
  PROVE  \A r \in Replica : LinkOK(r)'
<1> SUFFICES ASSUME NEW r \in Replica PROVE LinkOK(r)'
  OBVIOUS
<1>1. stream' = stream /\ astray' = astray /\ online' = online
  BY DEF Stream
<1>2. CASE r = q
  <2>1. state[q] = "online" /\ link[q] # <<>> /\ Streaming(q)
    BY DEF Stream, LinkInv, LinkOK
  <2>2. link'[q] = Tail(link[q]) /\ link'[q] \in Seq(Unit)
    BY <2>1 DEF Stream, LinkInv, LinkTypeOK, Streaming
  <2>3. receivedOffset'[q] = receivedOffset[q] + 1
    BY DEF Stream, Counted, LinkInv, LinkTypeOK
  <2>4. state'[q] \in {"online", "dead"}
    BY <2>1 DEF Stream, LinkInv, LinkTypeOK
  <2>5. q \notin astray' => Follows(link'[q], receivedOffset'[q])
    BY <1>1, <2>1, <2>2, <2>3, FollowsTail DEF Streaming, LinkInv
  <2>6. Streaming(q)'
    BY <1>1, <2>1, <2>2, <2>5 DEF Streaming, Follows
  <2> QED
    BY <1>2, <2>4, <2>6 DEF LinkOK
<1>3. CASE r # q
  <2>1. state'[r] = state[r] /\ link'[r] = link[r] /\ receivedOffset'[r] = receivedOffset[r]
    BY <1>3 DEF Stream, LinkInv, LinkTypeOK
  <2> QED
    BY <1>1, <2>1, LinkKept DEF LinkInv
<1> QED
  BY <1>2, <1>3

\* Each part of an answer leaves the rest of it before the stream.
LEMMA ResponseLinks ==
  ASSUME LinkInv, NEW q \in Replica, PsyncResponse(q)
  PROVE  \A r \in Replica : LinkOK(r)'
<1> SUFFICES ASSUME NEW r \in Replica PROVE LinkOK(r)'
  OBVIOUS
<1>1. stream' = stream /\ online' = online
  BY DEF PsyncResponse
<1>2. CASE r = q
  <2> DEFINE head == Head(link[q])
  <2>1. state[q] = "psync" /\ link[q] # <<>> /\ Answered(q)
    BY DEF PsyncResponse, LinkInv, LinkOK, Silent
  <2>2. link'[q] = Tail(link[q])
    BY DEF PsyncResponse, LinkInv, LinkTypeOK
  <2>3. Resume(q, head) \/ TakeHeader(q, head) \/ TakeSnapshot(q, head)
    BY DEF PsyncResponse
  <2>4. PICK units \in Seq(Unit) :
          \/ \E reply : Continued(q, reply, units)
          \/ \E reply, snapshot : Headed(q, reply, snapshot, units)
          \/ \E snapshot : Snapped(q, snapshot, units)
    BY <2>1 DEF Answered
  <2>5. units \in Seq(Message)
    BY Messages
  <2>6. q \in online'
    BY <1>1, <2>1 DEF Answered
  <2>7. ASSUME NEW reply, Continued(q, reply, units) PROVE LinkOK(q)'
    <3>1. reply \in Message /\ reply.kind = "continue"
      BY <2>7 DEF Continued, ContinueReply, Message
    <3>2. head = reply /\ link'[q] = units
      BY <2>2, <2>5, <2>7, <3>1, HeadTailConcat DEF Continued
    <3> HIDE DEF head
    <3>3. Resume(q, head)
      BY <2>3, <3>1, <3>2 DEF TakeHeader, TakeSnapshot
    <3>4. state'[q] = "online" /\ receivedOffset' = receivedOffset
      BY <3>3 DEF Resume, LinkInv, LinkTypeOK
    <3> QED
      BY <1>1, <2>6, <2>7, <3>2, <3>4 DEF LinkOK, Streaming, Continued, Follows
  <2>8. ASSUME NEW reply, NEW snapshot, Headed(q, reply, snapshot, units) PROVE LinkOK(q)'
    <3>1. reply \in Message /\ reply.kind = "full" /\ reply \in HeaderReply
          /\ snapshot \in Message
      BY <2>8 DEF Headed, HeaderReply, Message
    <3>2. <<snapshot>> \o units \in Seq(Message)
      BY <2>5, <3>1, Messages, ConcatProperties
    <3>3. head = reply /\ link'[q] = <<snapshot>> \o units
      BY <2>2, <2>8, <3>1, <3>2, HeadTailConcat DEF Headed
    <3> HIDE DEF head
    <3>4. TakeHeader(q, head)
      BY <2>3, <3>1, <3>3 DEF Resume, TakeSnapshot
    <3>5. state'[q] = "psync" /\ receivedOffset'[q] = reply.offset /\ q \in astray'
      BY <2>1, <3>3, <3>4 DEF TakeHeader, LinkInv, LinkTypeOK
    <3>6. Snapped(q, snapshot, units)'
      BY <1>1, <2>8, <3>3, <3>5 DEF Snapped, Headed, Follows
    <3> QED
      BY <2>6, <3>5, <3>6 DEF LinkOK, Answered
  <2>9. ASSUME NEW snapshot, Snapped(q, snapshot, units) PROVE LinkOK(q)'
    <3>1. snapshot \in Message /\ snapshot.kind = "snapshot"
      BY <2>9 DEF Snapped, SnapshotReply, Message
    <3>2. head = snapshot /\ link'[q] = units
      BY <2>2, <2>5, <2>9, <3>1, HeadTailConcat DEF Snapped
    <3> HIDE DEF head
    <3>3. TakeSnapshot(q, head)
      BY <2>3, <3>1, <3>2 DEF Resume, TakeHeader
    <3>4. state'[q] = "online" /\ receivedOffset' = receivedOffset
      BY <3>3 DEF TakeSnapshot, LinkInv, LinkTypeOK
    <3>5. q \notin astray' => snapshot.exact
      BY <2>9, <3>2, <3>3 DEF TakeSnapshot, Snapped
    <3> QED
      BY <1>1, <2>6, <2>9, <3>2, <3>4, <3>5 DEF LinkOK, Streaming, Snapped, Follows
  <2> QED
    BY <1>2, <2>4, <2>7, <2>8, <2>9
<1>3. CASE r # q
  <2>1. /\ state'[r] = state[r] /\ link'[r] = link[r] /\ receivedOffset'[r] = receivedOffset[r]
        /\ r \in astray' <=> r \in astray
    BY <1>3 DEF PsyncResponse, Resume, TakeHeader, TakeSnapshot, LinkInv, LinkTypeOK
  <2> QED
    BY <1>1, <2>1, LinkKept DEF LinkInv
<1> QED
  BY <1>2, <1>3

\* The header and the snapshot of a full answer.
LEMMA FullReplies ==
  ASSUME LinkInv, NEW store \in [Db -> Seq(1..MaxMutations)], NEW d \in Db, NEW exact \in BOOLEAN
  PROVE  /\ Header \in HeaderReply
         /\ Snapshot(store, d, exact) \in SnapshotReply
         /\ <<>> \o <<Header, Snapshot(store, d, exact)>>
              = <<Header>> \o (<<Snapshot(store, d, exact)>> \o <<>>)
<1>1. Header \in HeaderReply
  BY DEF Header, HeaderReply, LinkInv, LinkTypeOK
<1>2. Snapshot(store, d, exact) \in SnapshotReply
  BY DEF Snapshot, SnapshotReply
<1> QED
  BY <1>1, <1>2

\* A partial answer is followed by the stream from the offset asked for; a full
\* one by nothing yet, and its offset is the stream's end unless the export has
\* recorded mutations.
LEMMA PsyncLinks ==
  ASSUME LinkInv, NEW q \in Replica, Psync(q)
  PROVE  \A r \in Replica : LinkOK(r)'
<1> SUFFICES ASSUME NEW r \in Replica PROVE LinkOK(r)'
  OBVIOUS
<1>1. /\ state[q] = "psync" /\ q \notin online /\ link[q] = <<>>
      /\ online' = online \cup {q} /\ state' = state /\ receivedOffset' = receivedOffset
      /\ astray' = astray
      /\ Continue(q) \/ FullResync(q)
  BY DEF Psync, Accepted, replicaVars, Continue, FullResync
<1>2. CASE Continue(q)
  <2>1. stream' = stream
    BY <1>2 DEF Continue
  <2>2. CASE r # q
    <3>1. link'[r] = link[r]
      BY <1>2, <2>2 DEF Continue, LinkInv, LinkTypeOK
    <3> QED
      BY <1>1, <2>1, <2>2, <3>1, LinkKept DEF LinkInv
  <2>3. CASE r = q
    <3>1. PICK units, reply :
            units = SliceFrom(receivedOffset[q]) /\ reply = [kind |-> "continue"]
      OBVIOUS
    <3>2. receivedOffset[q] \in Nat /\ CanProvide(receivedOffset[q])
      BY <1>2 DEF Continue, LinkInv, LinkTypeOK
    <3>3. receivedOffset[q] \in 0..Len(stream) /\ units = End(stream, receivedOffset[q])
      BY <3>1, <3>2, BacklogServes DEF ServesTheRest, LinkInv, BacklogInv
    <3>4. units \in Seq(Unit)
      BY <3>3, EndProperties DEF LinkInv, BacklogInv
    <3>5. link'[q] = (<<>> \o <<reply>>) \o units
      BY <1>1, <1>2, <3>1 DEF Continue, LinkInv, LinkTypeOK
    <3>6. link'[q] = <<reply>> \o units
      BY <3>4, <3>5
    <3>7. Continued(q, reply, units)'
      BY <1>1, <2>1, <3>1, <3>3, <3>6 DEF Continued, ContinueReply, Follows
    <3>8. Answered(q)'
      BY <1>1, <3>4, <3>7 DEF Answered
    <3> QED
      BY <1>1, <2>3, <3>8 DEF LinkOK
  <2> QED
    BY <2>2, <2>3
<1>3. CASE FullResync(q)
  <2>1. CASE /\ UNCHANGED <<primaryVars, stream, base, made>>
             /\ link' = [link EXCEPT ![q] = @ \o <<Header, Snapshot(data, selected, TRUE)>>]
    <3>1. CASE r # q
      <4>1. link'[r] = link[r] /\ stream' = stream
        BY <2>1, <3>1 DEF LinkInv, LinkTypeOK
      <4> QED
        BY <1>1, <3>1, <4>1, LinkKept DEF LinkInv
    <3>2. CASE r = q
      <4> DEFINE snapshot == Snapshot(data, selected, TRUE)
      <4>1. link'[q] = <<>> \o <<Header, snapshot>>
        BY <1>1, <2>1 DEF LinkInv, LinkTypeOK
      <4>2. /\ Header \in HeaderReply /\ snapshot \in SnapshotReply
            /\ link'[q] = <<Header>> \o (<<snapshot>> \o <<>>)
        BY <4>1, FullReplies DEF LinkInv, LinkTypeOK
      <4>3. Header.offset = Len(stream) /\ stream' = stream /\ stream \in Seq(Unit)
        BY <2>1 DEF Header, LinkInv, BacklogInv, BacklogExact
      <4>4. Len(stream) \in 0..Len(stream) /\ End(stream, Len(stream)) = <<>>
        BY <4>3, SubSeqEmpty DEF End
      <4> HIDE DEF snapshot
      <4>5. \E reply, s : Headed(q, reply, s, <<>>)'
        BY <4>2, <4>3, <4>4 DEF Headed, Follows
      <4>6. <<>> \in Seq(Unit)
        OBVIOUS
      <4>7. Answered(q)'
        BY <1>1, <4>5, <4>6 DEF Answered
      <4> QED
        BY <1>1, <3>2, <4>7 DEF LinkOK
    <3> QED
      BY <3>1, <3>2
  <2>2. ASSUME NEW d \in Db, Record(d),
               link' = [s \in Replica |->
                          IF s = q THEN link[q] \o <<Header, Snapshot(data', d, FALSE)>>
                          ELSE IF s \in online THEN link[s] \o Chunk(d) ELSE link[s]]
        PROVE  LinkOK(r)'
    <3>1. Chunk(d) \in Seq(Unit) /\ stream' = stream \o Chunk(d)
      BY <2>2, ChunkType DEF Record, LinkInv, BacklogInv
    <3>2. CASE r # q
      <4>1. link'[r] = IF r \in online THEN link[r] \o Chunk(d) ELSE link[r]
        BY <2>2, <3>2
      <4> QED
        BY <1>1, <3>1, <3>2, <4>1, LinkGrows DEF LinkInv
    <3>3. CASE r = q
      <4> DEFINE snapshot == Snapshot(data', d, FALSE)
      <4>1. link'[q] = <<>> \o <<Header, snapshot>>
        BY <1>1, <2>2
      <4>2. data' \in [Db -> Seq(1..MaxMutations)]
        <5>1. data \in [Db -> Seq(1..MaxMutations)] /\ made + 1 \in 1..MaxMutations
          BY <2>2, ReplicationAssumption DEF Record, LinkInv, LinkTypeOK, BacklogInv
        <5>2. data' = [data EXCEPT ![d] = Append(@, made + 1)]
          BY <2>2 DEF Record
        <5> QED
          BY <5>1, <5>2
      <4>3. /\ Header \in HeaderReply /\ snapshot \in SnapshotReply
            /\ link'[q] = <<Header>> \o (<<snapshot>> \o <<>>)
        BY <4>1, <4>2, FullReplies
      <4>4. ~snapshot.exact
        BY DEF Snapshot
      <4> HIDE DEF snapshot
      <4>5. \E reply, s : Headed(q, reply, s, <<>>)'
        BY <4>3, <4>4 DEF Headed
      <4>6. <<>> \in Seq(Unit)
        OBVIOUS
      <4>7. Answered(q)'
        BY <1>1, <4>5, <4>6 DEF Answered
      <4> QED
        BY <1>1, <3>3, <4>7 DEF LinkOK
    <3> QED
      BY <3>2, <3>3
  <2> QED
    BY <1>3, <2>1, <2>2 DEF FullResync
<1> QED
  BY <1>1, <1>2, <1>3

-----------------------------------------------------------------------------
(* Types.                                                                  *)

ReplicaTypeOK ==
  /\ copy \in [Replica -> [Db -> Seq(1..MaxMutations)]]
  /\ masterId \in [Replica -> Nat]
  /\ currentDb \in [Replica -> Db]
  /\ parser \in [Replica -> Seq(Unit)]
  /\ \A r \in Replica : Len(parser[r]) < Width
  /\ astray \subseteq Replica

Inv == LinkInv /\ ReplicaTypeOK

\* A recorded mutation keeps the types of the primary.
LEMMA RecordTypes ==
  ASSUME LinkInv, NEW d \in Db, Record(d)
  PROVE  /\ data' \in [Db -> Seq(1..MaxMutations)]
         /\ replicationId' \in Nat /\ currentOffset' \in Nat /\ selected' \in Db
         /\ Chunk(d) \in Seq(Message) /\ Len(Chunk(d)) \in Nat
<1>1. Chunk(d) \in Seq(Unit)
  BY ChunkType DEF Record, LinkInv, BacklogInv
<1>2. Chunk(d) \in Seq(Message) /\ Len(Chunk(d)) \in Nat
  BY <1>1, Messages
<1>3. made + 1 \in 1..MaxMutations
  BY ReplicationAssumption DEF Record, LinkInv, BacklogInv
<1> QED
  BY <1>2, <1>3 DEF Record, LinkInv, LinkTypeOK

\* An answer is a sequence of messages.
LEMMA PsyncTypes ==
  ASSUME Inv, NEW q \in Replica, Psync(q)
  PROVE  LinkTypeOK' /\ ReplicaTypeOK'
<1>1. /\ online' \subseteq Replica /\ state' = state /\ receivedOffset' = receivedOffset
      /\ link[q] = <<>>
  BY DEF Psync, Accepted, replicaVars, Inv, LinkInv, LinkTypeOK
<1>2. ReplicaTypeOK'
  BY DEF Psync, replicaVars, Inv, ReplicaTypeOK, Continue, FullResync
<1>3. CASE Continue(q)
  <2>1. SliceFrom(receivedOffset[q]) = End(stream, receivedOffset[q])
        /\ receivedOffset[q] \in 0..Len(stream)
    BY <1>3, BacklogServes DEF ServesTheRest, Continue, Inv, LinkInv, LinkTypeOK, BacklogInv
  <2>2. SliceFrom(receivedOffset[q]) \in Seq(Message)
    BY <2>1, EndProperties, Messages DEF Inv, LinkInv, BacklogInv
  <2>3. <<[kind |-> "continue"]>> \in Seq(Message)
    BY Messages DEF Message, ContinueReply
  <2>4. link[q] \o <<[kind |-> "continue"]>> \o SliceFrom(receivedOffset[q]) \in Seq(Message)
    BY <1>1, <2>2, <2>3, ConcatProperties
  <2>5. link' \in [Replica -> Seq(Message)]
    BY <1>3, <2>4 DEF Continue, Inv, LinkInv, LinkTypeOK
  <2> QED
    BY <1>1, <1>2, <1>3, <2>5 DEF Continue, primaryVars, Inv, LinkInv, LinkTypeOK
<1>4. ASSUME NEW store \in [Db -> Seq(1..MaxMutations)], NEW d \in Db, NEW exact \in BOOLEAN
      PROVE  link[q] \o <<Header, Snapshot(store, d, exact)>> \in Seq(Message)
  <2>1. Header \in Message /\ Snapshot(store, d, exact) \in Message
    BY FullReplies DEF Message, Inv
  <2>2. \A a, b \in Message : <<>> \o <<a, b>> \in Seq(Message)
    OBVIOUS
  <2> QED
    BY <1>1, <2>1, <2>2
<1>5. CASE /\ UNCHANGED <<primaryVars, stream, base, made>>
           /\ link' = [link EXCEPT ![q] = @ \o <<Header, Snapshot(data, selected, TRUE)>>]
  <2>1. link[q] \o <<Header, Snapshot(data, selected, TRUE)>> \in Seq(Message)
    BY <1>4 DEF Inv, LinkInv, LinkTypeOK
  <2>2. link' \in [Replica -> Seq(Message)]
    BY <1>5, <2>1 DEF Inv, LinkInv, LinkTypeOK
  <2> QED
    BY <1>1, <1>2, <1>5, <2>2 DEF primaryVars, Inv, LinkInv, LinkTypeOK
<1>6. ASSUME NEW d \in Db, Record(d),
             link' = [s \in Replica |->
                        IF s = q THEN link[q] \o <<Header, Snapshot(data', d, FALSE)>>
                        ELSE IF s \in online THEN link[s] \o Chunk(d) ELSE link[s]]
      PROVE  LinkTypeOK'
  <2>1. /\ data' \in [Db -> Seq(1..MaxMutations)]
        /\ replicationId' \in Nat /\ currentOffset' \in Nat /\ selected' \in Db
        /\ Chunk(d) \in Seq(Message)
    BY <1>6, RecordTypes DEF Inv
  <2>3. link[q] \o <<Header, Snapshot(data', d, FALSE)>> \in Seq(Message)
    BY <1>4, <2>1
  <2>4. \A s \in Replica : link[s] \o Chunk(d) \in Seq(Message) /\ link[s] \in Seq(Message)
    BY <2>1, ConcatProperties DEF Inv, LinkInv, LinkTypeOK
  <2>5. link' \in [Replica -> Seq(Message)]
    BY <1>6, <2>3, <2>4
  <2> QED
    BY <1>1, <2>1, <2>5 DEF Inv, LinkInv, LinkTypeOK
<1> QED
  BY <1>2, <1>3, <1>5, <1>6 DEF Psync, FullResync

\* The parts of an answer have the types of what they replace.
LEMMA ResponseTypes ==
  ASSUME Inv, NEW q \in Replica, PsyncResponse(q)
  PROVE  LinkTypeOK' /\ ReplicaTypeOK'
<1> DEFINE head == Head(link[q])
<1>1. link[q] \in Seq(Message) /\ link[q] # <<>> /\ head \in Message
  BY ElementOfSeq, HeadTailProperties DEF PsyncResponse, Inv, LinkInv, LinkTypeOK
<1>2. link' \in [Replica -> Seq(Message)]
  BY <1>1 DEF PsyncResponse, Inv, LinkInv, LinkTypeOK
<1>3. Resume(q, head) \/ TakeHeader(q, head) \/ TakeSnapshot(q, head)
  BY DEF PsyncResponse
<1>4. head.kind = "full" => head \in HeaderReply
  BY <1>1 DEF Message, Unit, ContinueReply, HeaderReply, SnapshotReply
<1>5. head.kind = "snapshot" => head \in SnapshotReply
  BY <1>1 DEF Message, Unit, ContinueReply, HeaderReply, SnapshotReply
<1> HIDE DEF head
<1>6. /\ copy' \in [Replica -> [Db -> Seq(1..MaxMutations)]]
      /\ masterId' \in [Replica -> Nat]
      /\ receivedOffset' \in [Replica -> Nat]
      /\ state' \in [Replica -> {"none", "psync", "online", "dead"}]
      /\ astray' \subseteq Replica
  <2>1. CASE Resume(q, head)
    BY <2>1 DEF Resume, Inv, LinkInv, LinkTypeOK, ReplicaTypeOK
  <2>2. CASE TakeHeader(q, head)
    BY <1>4, <2>2 DEF TakeHeader, HeaderReply, Inv, LinkInv, LinkTypeOK, ReplicaTypeOK
  <2>3. CASE TakeSnapshot(q, head)
    BY <1>5, <2>3 DEF TakeSnapshot, SnapshotReply, Inv, LinkInv, LinkTypeOK, ReplicaTypeOK
  <2> QED
    BY <1>3, <2>1, <2>2, <2>3
<1> QED
  BY <1>2, <1>6 DEF PsyncResponse, primaryVars, Inv, LinkInv, LinkTypeOK, ReplicaTypeOK

\* A unit keeps the types of the replica, and its parser short of a command.
LEMMA StreamTypes ==
  ASSUME Inv, NEW q \in Replica, Stream(q)
  PROVE  LinkTypeOK' /\ ReplicaTypeOK'
<1> DEFINE unit == Head(link[q])
<1>1. link[q] \in Seq(Unit) /\ link[q] \in Seq(Message) /\ link[q] # <<>>
  BY DEF Stream, Inv, LinkInv, LinkTypeOK, LinkOK, Streaming
<1>2. unit \in Unit
  BY <1>1, HeadTailProperties
<1>3. link' \in [Replica -> Seq(Message)]
  BY <1>1 DEF Stream, Inv, LinkInv, LinkTypeOK
<1>4. receivedOffset' \in [Replica -> Nat]
  BY DEF Stream, Counted, Inv, LinkInv, LinkTypeOK
<1>5. state' \in [Replica -> {"none", "psync", "online", "dead"}]
  BY DEF Stream, Inv, LinkInv, LinkTypeOK
<1>6. /\ unit.cmd.db \in Db /\ unit.part \in 1..Width
      /\ unit.cmd.op = "push" => unit.cmd.id \in 1..MaxMutations
  BY <1>2, ReplicationAssumption DEF Unit, Command
<1> DEFINE complete == Len(parser[q]) + 1 = Width /\ unit.part = Width
           expected == unit.part = Len(parser[q]) + 1
<1>7. currentDb' \in [Replica -> Db]
  BY <1>6 DEF Stream, Inv, ReplicaTypeOK
<1>8. copy' \in [Replica -> [Db -> Seq(1..MaxMutations)]]
  <2> DEFINE store == copy[q][currentDb[q]]
             new == IF complete /\ unit.cmd.op = "push" THEN Append(store, unit.cmd.id) ELSE store
  <2>1. copy' = [copy EXCEPT ![q] = [copy[q] EXCEPT ![currentDb[q]] = new]]
    BY DEF Stream, Inv, ReplicaTypeOK
  <2>2. copy[q] \in [Db -> Seq(1..MaxMutations)] /\ currentDb[q] \in Db
    BY DEF Inv, ReplicaTypeOK
  <2> HIDE DEF unit, complete
  <2>3. store \in Seq(1..MaxMutations)
    BY <2>2
  <2> HIDE DEF store
  <2>4. new \in Seq(1..MaxMutations)
    <3>1. unit.cmd.op = "push" => Append(store, unit.cmd.id) \in Seq(1..MaxMutations)
      BY <1>6, <2>3
    <3> QED
      BY <2>3, <3>1, Zenon
  <2> HIDE DEF new
  <2>5. [copy[q] EXCEPT ![currentDb[q]] = new] \in [Db -> Seq(1..MaxMutations)]
    BY <2>2, <2>4
  <2> QED
    BY <2>1, <2>5 DEF Inv, ReplicaTypeOK
<1>9. parser' \in [Replica -> Seq(Unit)] /\ \A r \in Replica : Len(parser'[r]) < Width
  <2>1. parser' = [parser EXCEPT ![q] = IF expected /\ ~complete THEN Append(@, unit) ELSE <<>>]
    BY DEF Stream
  <2>2. parser[q] \in Seq(Unit) /\ Len(parser[q]) \in Nat /\ Width \in Nat \ {0}
    BY ReplicationAssumption DEF Inv, ReplicaTypeOK
  <2>3. expected /\ ~complete => Len(parser[q]) + 1 < Width
    BY <1>6, <2>2
  <2> HIDE DEF unit, complete, expected
  <2>4. Append(parser[q], unit) \in Seq(Unit) /\ Len(Append(parser[q], unit)) = Len(parser[q]) + 1
    BY <1>2, <2>2
  <2>5. parser' \in [Replica -> Seq(Unit)]
    BY <2>1, <2>4 DEF Inv, ReplicaTypeOK
  <2>6. ASSUME NEW r \in Replica PROVE Len(parser'[r]) < Width
    <3>1. \/ parser'[r] = parser[r]
          \/ parser'[r] = <<>>
          \/ expected /\ ~complete /\ parser'[r] = Append(parser[q], unit)
      BY <2>1 DEF Inv, ReplicaTypeOK
    <3>2. Len(parser[r]) < Width /\ Len(<<>>) < Width
      BY <2>2 DEF Inv, ReplicaTypeOK
    <3> QED
      BY <2>3, <2>4, <3>1, <3>2
  <2> QED
    BY <2>5, <2>6
<1> QED
  BY <1>3, <1>4, <1>5, <1>7, <1>8, <1>9
     DEF Stream, primaryVars, Inv, LinkInv, LinkTypeOK, ReplicaTypeOK

\* The inductive invariant holds at first,
LEMMA InitInv == Init => Inv
<1> SUFFICES ASSUME Init PROVE Inv
  OBVIOUS
<1>1. BacklogInv
  BY InitExact
<1>2. LinkTypeOK
  BY ReplicationAssumption DEF Init, LinkTypeOK, Nothing
<1>3. ReplicaTypeOK
  BY ReplicationAssumption DEF Init, ReplicaTypeOK, Nothing
<1>4. \A r \in Replica : LinkOK(r)
  BY DEF Init, LinkOK, Silent
<1> QED
  BY <1>1, <1>2, <1>3, <1>4 DEF Inv, LinkInv

\* and every step keeps it.
LEMMA NextInv == Inv /\ [Next]_vars => Inv'
<1> SUFFICES ASSUME Inv, [Next]_vars PROVE Inv'
  OBVIOUS
<1>1. BacklogInv'
  BY NextExact DEF Inv, LinkInv
<1> DEFINE Rest == LinkTypeOK' /\ ReplicaTypeOK' /\ \A r \in Replica : LinkOK(r)'
<1> SUFFICES Rest
  BY <1>1 DEF Inv, LinkInv
<1>2. ASSUME NEW d \in Db, Mutate(d) PROVE Rest
  <2>1. \A r \in Replica : LinkOK(r)'
    BY <1>2, MutateLinks DEF Inv
  <2>2. /\ data' \in [Db -> Seq(1..MaxMutations)]
        /\ replicationId' \in Nat /\ currentOffset' \in Nat /\ selected' \in Db
        /\ Chunk(d) \in Seq(Message)
    BY <1>2, RecordTypes DEF Mutate, Inv
  <2>3. \A s \in Replica : link[s] \o Chunk(d) \in Seq(Message) /\ link[s] \in Seq(Message)
    BY <2>2, ConcatProperties DEF Inv, LinkInv, LinkTypeOK
  <2>4. link' \in [Replica -> Seq(Message)]
    BY <1>2, <2>3 DEF Mutate
  <2> QED
    BY <1>2, <2>1, <2>2, <2>4 DEF Mutate, replicaVars, Inv, LinkInv, LinkTypeOK, ReplicaTypeOK
<1>3. ASSUME NEW r \in Replica, NEW object \in Objects, Connect(r, object) PROVE Rest
  <2>1. \A s \in Replica : LinkOK(s)'
    BY <1>3, ConnectLinks DEF Inv
  <2>2. LinkTypeOK'
    BY <1>3 DEF Connect, primaryVars, Inv, LinkInv, LinkTypeOK
  <2>3. ReplicaTypeOK'
    <3>1. /\ currentDb' \in [Replica -> Db] /\ parser' \in [Replica -> Seq(Unit)]
          /\ astray' \subseteq Replica
      <4>1. CASE object = "same"
        BY <1>3, <4>1 DEF Connect, Inv, ReplicaTypeOK
      <4>2. CASE object # "same"
        <5>1. /\ parser' = [parser EXCEPT ![r] = <<>>]
              /\ currentDb' = [currentDb EXCEPT ![r] = Db0]
              /\ astray' = astray \cup {r} \/ astray' = astray
          BY <1>3, <4>2 DEF Connect
        <5>2. <<>> \in Seq(Unit) /\ Db0 \in Db
          BY ReplicationAssumption
        <5> QED
          BY <5>1, <5>2 DEF Inv, ReplicaTypeOK
      <4> QED
        BY <4>1, <4>2
    <3>2. ASSUME NEW s \in Replica PROVE Len(parser'[s]) < Width
      <4>1. parser'[s] = parser[s] \/ parser'[s] = <<>>
        BY <1>3 DEF Connect, Inv, ReplicaTypeOK
      <4> QED
        BY <4>1, ReplicationAssumption DEF Inv, ReplicaTypeOK
    <3> QED
      BY <1>3, <3>1, <3>2 DEF Connect, Inv, ReplicaTypeOK
  <2> QED
    BY <2>1, <2>2, <2>3
<1>4. ASSUME NEW r \in Replica, Psync(r) PROVE Rest
  BY <1>4, PsyncTypes, PsyncLinks DEF Inv
<1>5. ASSUME NEW r \in Replica, PsyncResponse(r) PROVE Rest
  BY <1>5, ResponseTypes, ResponseLinks DEF Inv
<1>6. ASSUME NEW r \in Replica, Stream(r) PROVE Rest
  BY <1>6, StreamTypes, StreamLinks DEF Inv
<1>7. ASSUME NEW r \in Replica, Drop(r) PROVE Rest
  <2>1. \A s \in Replica : LinkOK(s)'
    BY <1>7, DropLinks DEF Inv
  <2> QED
    BY <1>7, <2>1 DEF Drop, primaryVars, replicaVars, Inv, LinkInv, LinkTypeOK, ReplicaTypeOK
<1>8. CASE Restart
  <2>1. \A s \in Replica : LinkOK(s)'
    BY <1>8, RestartLinks DEF Inv
  <2> QED
    BY <1>8, <2>1, ReplicationAssumption
       DEF Restart, replicaVars, Inv, LinkInv, LinkTypeOK, ReplicaTypeOK
<1>9. CASE UNCHANGED vars
  <2>1. \A s \in Replica : LinkOK(s)'
    BY <1>9, LinkKept DEF vars, replicaVars, Inv, LinkInv
  <2> QED
    BY <1>9, <2>1 DEF vars, primaryVars, replicaVars, Inv, LinkInv, LinkTypeOK, ReplicaTypeOK
<1> HIDE DEF Rest
<1> QED
  BY <1>2, <1>3, <1>4, <1>5, <1>6, <1>7, <1>8, <1>9 DEF Next

-----------------------------------------------------------------------------

\* The inductive invariant, in every state of the system.
THEOREM Invariance == Spec => []Inv
BY InitInv, NextInv, PTL DEF Spec

\* Every variable keeps its type; a parser never holds a whole command and the
\* backlog never more than its size.
THEOREM TypeCorrect == Spec => []TypeOK
<1>1. Inv => TypeOK
  BY DEF Inv, LinkInv, BacklogInv, LinkTypeOK, ReplicaTypeOK, TypeOK
<1> QED
  BY <1>1, Invariance, PTL

\* A replica that streams has on its way exactly the units that follow the
\* offset it counts, through any broken links, partial and full answers and
\* restarts of the primary.
THEOREM NothingIsMissed == Spec => []NothingMissed
<1>1. Inv => NothingMissed
  <2> SUFFICES ASSUME Inv, NEW r \in Replica \ astray, state[r] = "online"
               PROVE  /\ receivedOffset[r] <= Len(stream)
                      /\ link[r] = SubSeq(stream, receivedOffset[r] + 1, Len(stream))
    BY DEF NothingMissed
  <2>1. Follows(link[r], receivedOffset[r])
    BY DEF Inv, LinkInv, LinkOK, Streaming
  <2>2. Len(stream) \in Nat
    BY DEF Inv, LinkInv, BacklogInv
  <2> QED
    BY <2>1, <2>2 DEF Follows, End
<1> QED
  BY <1>1, Invariance, PTL

-----------------------------------------------------------------------------
(* Positions.  Every prefix of the stream has made a store, stopped so far *)
(* into a command, and selected a database; a replica that is not astray   *)
(* is at one of them (Placed), and so is a snapshot on its way (Sent).     *)

\* Does the unit end a command that selects a database, or one that mutates?
Selects(unit) == unit.part = Width /\ unit.cmd.op = "select"
Pushes(unit) == unit.part = Width /\ unit.cmd.op = "push"

\* f maps each i up to n to the store that the first i units of s make of b.
Stores(f, s, b, n) == f = [i \in 0..n |-> IF i = 0 THEN b ELSE Applied(f[i - 1], s[i])]
StoreOf(s, b, n) == (CHOOSE f : Stores(f, s, b, n))[n]

\* How many units of an unfinished command end the first n units of s.
Begun(s, n) == IF n = 0 THEN 0 ELSE IF s[n].part = Width THEN 0 ELSE s[n].part

\* The first n units of s leave database d selected.
InDb(s, n, d) ==
  \/ d = Db0 /\ \A i \in 1..n : ~Selects(s[i])
  \/ \E i \in 1..n : /\ Selects(s[i]) /\ s[i].cmd.db = d
                     /\ \A j \in (i + 1)..n : ~Selects(s[j])

\* Whole commands, each in the database that is selected when it is read.
Shaped(s) ==
  /\ \A i \in 1..Len(s) : s[i].part = Begun(s, i - 1) + 1
  /\ \A i \in 1..Len(s) : Pushes(s[i]) => InDb(s, i - 1, s[i].cmd.db)

Primary ==
  /\ Shaped(stream) /\ Begun(stream, Len(stream)) = 0
  /\ InDb(stream, Len(stream), selected)
  /\ data = StateAt(Len(stream))
  /\ base \in [Db -> Seq(1..MaxMutations)]

\* A snapshot of the primary at offset n.
Taken(snapshot, n) ==
  /\ n \in 0..Len(stream) /\ Begun(stream, n) = 0
  /\ snapshot.data = StateAt(n) /\ InDb(stream, n, snapshot.db)

Placed(r) ==
  r \notin astray /\ masterId[r] = replicationId /\ state[r] # "dead" =>
    LET n == receivedOffset[r]
    IN  /\ n \in 0..Len(stream) /\ Begun(stream, n) = Len(parser[r])
        /\ copy[r] = StateAt(n) /\ InDb(stream, n, currentDb[r])

Sent(r) ==
  state[r] = "psync" /\ link[r] # <<>> =>
    /\ link[r][1].kind = "full" =>
         /\ link[r][1].id <= replicationId
         /\ link[r][2].exact => Taken(link[r][2], link[r][1].offset)
    /\ link[r][1].kind = "snapshot" /\ link[r][1].exact => Taken(link[r][1], receivedOffset[r])

PositionInv ==
  Primary /\ \A r \in Replica : Placed(r) /\ Sent(r) /\ masterId[r] <= replicationId

\* Two sequences have the same first n units.
Agree(s, t, n) == \A i \in 1..n : s[i] = t[i]

LEMMA StateIs == \A n : StateAt(n) = StoreOf(stream, base, n)
BY DEF StateAt, StoreOf, Stores

\* There is such a function, and one only.
LEMMA StoresExist ==
  ASSUME NEW s, NEW b
  PROVE  \A n \in Nat : \E f : Stores(f, s, b, n)
<1> DEFINE N == {n \in Nat : \E f : Stores(f, s, b, n)}
<1>1. 0 \in N
  <2>1. Stores([i \in 0..0 |-> b], s, b, 0)
    BY DEF Stores
  <2> QED
    BY <2>1
<1>2. ASSUME NEW n \in Nat, n \in N PROVE n + 1 \in N
  <2>1. PICK f : Stores(f, s, b, n)
    BY <1>2
  <2> DEFINE g == [i \in 0..(n + 1) |-> IF i = n + 1 THEN Applied(f[n], s[n + 1]) ELSE f[i]]
  <2>2. ASSUME NEW i \in 0..(n + 1)
        PROVE  g[i] = IF i = 0 THEN b ELSE Applied(g[i - 1], s[i])
    <3>1. CASE i = n + 1
      <4>1. i # 0 /\ i - 1 = n /\ n \in 0..(n + 1) /\ n # n + 1
        BY <3>1
      <4>2. g[n] = f[n] /\ g[i] = Applied(f[n], s[n + 1])
        BY <3>1, <4>1
      <4> HIDE DEF g
      <4> QED
        BY <3>1, <4>1, <4>2
    <3>2. CASE i # n + 1
      <4>1. i \in 0..n
        BY <3>2
      <4>2. f[i] = IF i = 0 THEN b ELSE Applied(f[i - 1], s[i])
        BY <2>1, <4>1 DEF Stores
      <4>3. i # 0 => i - 1 \in 0..(n + 1) /\ i - 1 # n + 1
        BY <4>1
      <4>4. g[i] = f[i] /\ (i # 0 => g[i - 1] = f[i - 1])
        BY <3>2, <4>3
      <4> HIDE DEF g
      <4> QED
        BY <4>2, <4>4
    <3> QED
      BY <3>1, <3>2
  <2>3. g = [i \in 0..(n + 1) |-> g[i]]
    OBVIOUS
  <2> HIDE DEF g
  <2>4. Stores(g, s, b, n + 1)
    BY <2>2, <2>3 DEF Stores
  <2> QED
    BY <2>4
<1> HIDE DEF N
<1>3. Nat \subseteq N
  BY <1>1, <1>2, Induction
<1> QED
  BY <1>3 DEF N

LEMMA StoresAgree ==
  ASSUME NEW s, NEW t, NEW b, NEW m \in Nat, NEW n \in Nat, NEW f, NEW g,
         Stores(f, s, b, m), Stores(g, t, b, n), NEW k \in Nat, k <= m, k <= n, Agree(s, t, k)
  PROVE  f[k] = g[k]
<1> DEFINE N == {i \in Nat : i <= k => f[i] = g[i]}
<1>1. 0 \in N
  <2>1. f[0] = b /\ g[0] = b
    BY DEF Stores
  <2> QED
    BY <2>1
<1>2. ASSUME NEW i \in Nat, i \in N PROVE i + 1 \in N
  <2> SUFFICES ASSUME i + 1 <= k PROVE f[i + 1] = g[i + 1]
    OBVIOUS
  <2>1. i + 1 \in 0..m /\ i + 1 \in 0..n /\ i + 1 # 0 /\ (i + 1) - 1 = i /\ i + 1 \in 1..k /\ i <= k
    OBVIOUS
  <2>2. f[i + 1] = Applied(f[(i + 1) - 1], s[i + 1])
    BY <2>1 DEF Stores
  <2>3. g[i + 1] = Applied(g[(i + 1) - 1], t[i + 1])
    BY <2>1 DEF Stores
  <2>4. f[i] = g[i] /\ s[i + 1] = t[i + 1]
    BY <1>2, <2>1 DEF Agree
  <2> QED
    BY <2>1, <2>2, <2>3, <2>4
<1> HIDE DEF N
<1>3. Nat \subseteq N
  BY <1>1, <1>2, Induction
<1> QED
  BY <1>3 DEF N

\* Any such function of a sequence with the same first units tells the store.
LEMMA StoreIs ==
  ASSUME NEW s, NEW t, NEW b, NEW m \in Nat, NEW n \in Nat, n <= m, NEW f,
         Stores(f, t, b, m), Agree(s, t, n)
  PROVE  StoreOf(s, b, n) = f[n]
<1> DEFINE g == CHOOSE g : Stores(g, s, b, n)
<1>1. Stores(g, s, b, n)
  BY StoresExist
<1>2. StoreOf(s, b, n) = g[n] /\ n <= n
  BY DEF StoreOf
<1> HIDE DEF g
<1> QED
  BY <1>1, <1>2, StoresAgree

LEMMA StoreNone ==
  ASSUME NEW s, NEW b
  PROVE  StoreOf(s, b, 0) = b
<1>1. PICK f : Stores(f, s, b, 0)
  BY StoresExist
<1>2. StoreOf(s, b, 0) = f[0]
  <2>1. Agree(s, s, 0)
    BY DEF Agree
  <2> QED
    BY <1>1, <2>1, StoreIs
<1> QED
  BY <1>1, <1>2 DEF Stores

LEMMA StoreNext ==
  ASSUME NEW s, NEW b, NEW n \in Nat
  PROVE  StoreOf(s, b, n + 1) = Applied(StoreOf(s, b, n), s[n + 1])
<1>1. n + 1 \in Nat /\ n <= n + 1 /\ n + 1 <= n + 1 /\ n + 1 \in 0..(n + 1) /\ n + 1 # 0 /\ (n + 1) - 1 = n
  OBVIOUS
<1>2. PICK f : Stores(f, s, b, n + 1)
  BY <1>1, StoresExist
<1>3. Agree(s, s, n) /\ Agree(s, s, n + 1)
  BY DEF Agree
<1>4. StoreOf(s, b, n) = f[n]
  BY <1>1, <1>2, <1>3, StoreIs
<1>5. StoreOf(s, b, n + 1) = f[n + 1]
  BY <1>1, <1>2, <1>3, StoreIs
<1>6. f[n + 1] = Applied(f[(n + 1) - 1], s[n + 1])
  BY <1>1, <1>2 DEF Stores
<1> QED
  BY <1>1, <1>4, <1>5, <1>6

LEMMA StoreSame ==
  ASSUME NEW s, NEW t, NEW b, NEW n \in Nat, Agree(s, t, n)
  PROVE  StoreOf(s, b, n) = StoreOf(t, b, n)
<1>1. PICK f : Stores(f, t, b, n)
  BY StoresExist
<1>2. n <= n /\ Agree(t, t, n)
  BY DEF Agree
<1>3. StoreOf(s, b, n) = f[n]
  BY <1>1, <1>2, StoreIs
<1>4. StoreOf(t, b, n) = f[n]
  BY <1>1, <1>2, StoreIs
<1> QED
  BY <1>3, <1>4

\* What a prefix leaves depends on the prefix alone.
LEMMA PrefixSame ==
  ASSUME NEW s, NEW t, NEW n \in Nat, Agree(s, t, n)
  PROVE  /\ Begun(s, n) = Begun(t, n)
         /\ \A d : InDb(s, n, d) => InDb(t, n, d)
<1>1. n # 0 => n \in 1..n
  OBVIOUS
<1>2. Begun(s, n) = Begun(t, n)
  BY <1>1 DEF Agree, Begun
<1>3. ASSUME NEW d, InDb(s, n, d) PROVE InDb(t, n, d)
  <2>1. CASE d = Db0 /\ \A i \in 1..n : ~Selects(s[i])
    BY <2>1 DEF Agree, InDb, Selects
  <2>2. ASSUME NEW i \in 1..n, Selects(s[i]), s[i].cmd.db = d,
               \A j \in (i + 1)..n : ~Selects(s[j])
        PROVE  InDb(t, n, d)
    <3>1. \A j \in (i + 1)..n : j \in 1..n
      OBVIOUS
    <3>2. Selects(t[i]) /\ t[i].cmd.db = d
      BY <2>2 DEF Agree
    <3>3. \A j \in (i + 1)..n : ~Selects(t[j])
      BY <2>2, <3>1 DEF Agree
    <3> QED
      BY <3>2, <3>3 DEF InDb
  <2> QED
    BY <1>3, <2>1, <2>2 DEF InDb
<1> QED
  BY <1>2, <1>3

\* One database is selected, and the next unit selects the next.
LEMMA InOneDb ==
  ASSUME NEW s, NEW n \in Nat, NEW d, NEW e, InDb(s, n, d), InDb(s, n, e)
  PROVE  d = e
<1>1. ASSUME NEW i \in 1..n, NEW j \in 1..n, Selects(s[i]), Selects(s[j]),
             \A k \in (i + 1)..n : ~Selects(s[k]), \A k \in (j + 1)..n : ~Selects(s[k])
      PROVE  i = j
  <2>1. ~(j \in (i + 1)..n) /\ ~(i \in (j + 1)..n)
    BY <1>1
  <2> QED
    BY <2>1
<1> QED
  BY <1>1 DEF InDb

LEMMA InDbNext ==
  ASSUME NEW s, NEW n \in Nat, NEW d, InDb(s, n, d)
  PROVE  /\ ~Selects(s[n + 1]) => InDb(s, n + 1, d)
         /\ Selects(s[n + 1]) => InDb(s, n + 1, s[n + 1].cmd.db)
<1>1. \A i \in 1..(n + 1) : i \in 1..n \/ i = n + 1
  OBVIOUS
<1>2. n + 1 \in 1..(n + 1) /\ (n + 1 + 1)..(n + 1) = {}
  OBVIOUS
<1>3. Selects(s[n + 1]) => InDb(s, n + 1, s[n + 1].cmd.db)
  BY <1>2 DEF InDb
<1>4. ASSUME ~Selects(s[n + 1]) PROVE InDb(s, n + 1, d)
  <2>1. CASE d = Db0 /\ \A i \in 1..n : ~Selects(s[i])
    BY <1>1, <1>4, <2>1 DEF InDb
  <2>2. ASSUME NEW i \in 1..n, Selects(s[i]), s[i].cmd.db = d,
               \A j \in (i + 1)..n : ~Selects(s[j])
        PROVE  InDb(s, n + 1, d)
    <3>1. i \in 1..(n + 1)
      OBVIOUS
    <3>2. \A j \in (i + 1)..(n + 1) : j \in (i + 1)..n \/ j = n + 1
      OBVIOUS
    <3>3. \A j \in (i + 1)..(n + 1) : ~Selects(s[j])
      BY <1>4, <2>2, <3>2
    <3> QED
      BY <2>2, <3>1, <3>3 DEF InDb
  <2> QED
    BY <2>1, <2>2 DEF InDb
<1> QED
  BY <1>3, <1>4

\* A command at the end of a stream of whole commands.
LEMMA CommandAdded ==
  ASSUME NEW s \in Seq(Unit), Shaped(s), Begun(s, Len(s)) = 0, NEW cmd \in Command, NEW b,
         NEW d, InDb(s, Len(s), d), cmd.op = "push" => cmd.db = d
  PROVE  LET t == s \o Units(cmd)
             old == StoreOf(s, b, Len(s))
         IN  /\ t \in Seq(Unit) /\ Len(s) <= Len(t) /\ Agree(s, t, Len(s))
             /\ Shaped(t) /\ Begun(t, Len(t)) = 0 /\ InDb(t, Len(t), cmd.db)
             /\ cmd.op = "select" => StoreOf(t, b, Len(t)) = old
             /\ cmd.op = "push" =>
                  StoreOf(t, b, Len(t)) = [old EXCEPT ![cmd.db] = Append(@, cmd.id)]
<1> DEFINE t == s \o Units(cmd)
           n == Len(s)
           old == StoreOf(s, b, n)
           U(i) == [kind |-> "unit", cmd |-> cmd, part |-> i]
<1>1. Width \in Nat \ {0} /\ n \in Nat /\ cmd.op \in {"select", "push"}
  BY ReplicationAssumption DEF Command
<1>2. Units(cmd) \in Seq(Unit) /\ Len(Units(cmd)) = Width /\ \A i \in 1..Width : Units(cmd)[i] = U(i)
  BY <1>1 DEF Units, Unit
<1>3. /\ t \in Seq(Unit) /\ Len(t) = n + Width
      /\ \A i \in 1..n : t[i] = s[i]
      /\ \A i \in 1..Width : t[n + i] = U(i)
  <2> DEFINE c == Units(cmd)
  <2>1. c \in Seq(Unit) /\ Len(c) = Width
    BY <1>2
  <2> HIDE DEF c
  <2>2. /\ s \o c \in Seq(Unit) /\ Len(s \o c) = n + Width
        /\ \A i \in 1..n : (s \o c)[i] = s[i]
        /\ \A i \in 1..Width : (s \o c)[n + i] = c[i]
    BY <1>1, <2>1
  <2> QED
    BY <1>2, <2>2 DEF c
<1>4. \A i \in 1..Width : U(i).part = i /\ U(i).cmd = cmd
  OBVIOUS
<1> HIDE DEF t, n, U
<1>5. Agree(s, t, n) /\ n <= n + Width /\ n + Width \in Nat
  BY <1>1, <1>3 DEF Agree
<1>6. Begun(t, n) = 0 /\ InDb(t, n, d) /\ StoreOf(t, b, n) = old
  BY <1>1, <1>5, PrefixSame, StoreSame DEF n, old
<1> HIDE DEF old
<1> DEFINE P(k) == k < Width => /\ Begun(t, n + k) = k /\ InDb(t, n + k, d)
                                /\ StoreOf(t, b, n + k) = old
<1>7. P(0)
  BY <1>1, <1>6
<1>8. ASSUME NEW k \in Nat, P(k) PROVE P(k + 1)
  <2> SUFFICES ASSUME k + 1 < Width
               PROVE  /\ Begun(t, n + (k + 1)) = k + 1 /\ InDb(t, n + (k + 1), d)
                      /\ StoreOf(t, b, n + (k + 1)) = old
    OBVIOUS
  <2>1. /\ n + (k + 1) = (n + k) + 1 /\ n + k \in Nat /\ k < Width /\ k + 1 \in 1..Width
        /\ n + (k + 1) # 0 /\ k + 1 # Width
    BY <1>1
  <2>2. t[n + (k + 1)].part = k + 1
    BY <1>3, <1>4, <2>1
  <2>3. ~Selects(t[(n + k) + 1]) /\ \A x : Applied(x, t[(n + k) + 1]) = x
    BY <2>1, <2>2 DEF Selects, Applied
  <2>4. InDb(t, (n + k) + 1, d)
    BY <1>8, <2>1, <2>3, InDbNext
  <2>5. StoreOf(t, b, (n + k) + 1) = old
    BY <1>8, <2>1, <2>3, StoreNext
  <2>6. Begun(t, n + (k + 1)) = k + 1
    BY <2>1, <2>2 DEF Begun
  <2> QED
    BY <2>1, <2>4, <2>5, <2>6
<1>9. \A k \in Nat : P(k)
  <2> DEFINE N == {k \in Nat : P(k)}
  <2> HIDE DEF P
  <2>1. 0 \in N /\ \A k \in Nat : k \in N => k + 1 \in N
    BY <1>7, <1>8
  <2>2. Nat \subseteq N
    <3> HIDE DEF N
    <3> QED
      BY <2>1, Induction
  <2> QED
    BY <2>2
<1>10. \A i \in 1..Width : /\ Begun(t, n + (i - 1)) = i - 1 /\ InDb(t, n + (i - 1), d)
                           /\ StoreOf(t, b, n + (i - 1)) = old
  <2> SUFFICES ASSUME NEW i \in 1..Width PROVE P(i - 1) /\ i - 1 < Width
    OBVIOUS
  <2>1. i - 1 \in Nat /\ i - 1 < Width
    BY <1>1
  <2> HIDE DEF P
  <2> QED
    BY <1>9, <2>1
<1> HIDE DEF P
<1>11. /\ Width \in 1..Width /\ n + (Width - 1) \in Nat /\ (n + (Width - 1)) + 1 = n + Width
       /\ n + Width # 0
  BY <1>1
<1>12. t[n + Width].part = Width /\ t[n + Width].cmd = cmd
  BY <1>3, <1>4, <1>11
<1>13. Begun(t, n + Width) = 0
  BY <1>11, <1>12 DEF Begun
<1>14. InDb(t, n + Width, cmd.db)
  <2>1. InDb(t, n + (Width - 1), d)
    BY <1>10, <1>11
  <2>2. CASE cmd.op = "select"
    BY <1>11, <1>12, <2>1, <2>2, InDbNext DEF Selects
  <2>3. CASE cmd.op = "push"
    BY <1>11, <1>12, <2>1, <2>3, InDbNext DEF Selects
  <2> QED
    BY <1>1, <2>2, <2>3
<1>15. StoreOf(t, b, n + Width) = Applied(old, t[n + Width])
  <2>1. StoreOf(t, b, n + (Width - 1)) = old
    BY <1>10, <1>11
  <2> QED
    BY <1>11, <2>1, StoreNext
<1>16. /\ cmd.op = "select" => StoreOf(t, b, n + Width) = old
       /\ cmd.op = "push" => StoreOf(t, b, n + Width) = [old EXCEPT ![cmd.db] = Append(@, cmd.id)]
  BY <1>12, <1>15 DEF Applied
<1>17. Shaped(t)
  <2>1. ASSUME NEW i \in 1..(n + Width)
        PROVE  t[i].part = Begun(t, i - 1) + 1 /\ (Pushes(t[i]) => InDb(t, i - 1, t[i].cmd.db))
    <3>1. CASE i <= n
      <4>1. i \in 1..n /\ i - 1 \in Nat
        BY <1>1, <3>1
      <4>2. t[i] = s[i] /\ s[i].part = Begun(s, i - 1) + 1
            /\ (Pushes(s[i]) => InDb(s, i - 1, s[i].cmd.db))
        BY <1>3, <4>1 DEF Shaped, n
      <4>3. Agree(s, t, i - 1)
        BY <1>1, <1>5, <4>1 DEF Agree
      <4> QED
        BY <4>1, <4>2, <4>3, PrefixSame
    <3>2. CASE ~(i <= n)
      <4>1. i - n \in 1..Width /\ n + (i - n) = i /\ n + ((i - n) - 1) = i - 1
        BY <1>1, <3>2
      <4>2. t[n + (i - n)].part = i - n /\ t[n + (i - n)].cmd = cmd
        BY <1>3, <1>4, <4>1
      <4>3. Begun(t, n + ((i - n) - 1)) = (i - n) - 1 /\ InDb(t, n + ((i - n) - 1), d)
        BY <1>10, <4>1
      <4>4. t[i].part = i - n /\ t[i].cmd = cmd
        BY <4>1, <4>2
      <4>5. Begun(t, i - 1) = (i - n) - 1 /\ InDb(t, i - 1, d)
        BY <4>1, <4>3
      <4>6. t[i].part = Begun(t, i - 1) + 1
        <5>1. i - n = ((i - n) - 1) + 1
          BY <1>1
        <5> QED
          BY <4>4, <4>5, <5>1
      <4>7. Pushes(t[i]) => t[i].cmd.db = d
        BY <4>4 DEF Pushes
      <4> QED
        BY <4>5, <4>6, <4>7
    <3> QED
      BY <3>1, <3>2
  <2> QED
    BY <1>3, <2>1 DEF Shaped
<1> QED
  BY <1>3, <1>5, <1>13, <1>14, <1>16, <1>17 DEF t, n, old

LEMMA StateIsNext == \A n : StateAt(n)' = StoreOf(stream', base', n)
BY DEF StateAt, StoreOf, Stores

\* The stream goes on; what it has said stays.
Lengthened ==
  /\ Len(stream) \in Nat /\ Len(stream') \in Nat /\ Len(stream) <= Len(stream')
  /\ Agree(stream, stream', Len(stream))
  /\ base' = base /\ replicationId' = replicationId

LEMMA PositionsKept ==
  ASSUME Lengthened, NEW n \in 0..Len(stream)
  PROVE  /\ n \in 0..Len(stream') /\ Begun(stream', n) = Begun(stream, n)
         /\ StateAt(n)' = StateAt(n)
         /\ \A d : InDb(stream, n, d) => InDb(stream', n, d)
<1>1. n \in Nat /\ Agree(stream, stream', n) /\ n \in 0..Len(stream')
  BY DEF Lengthened, Agree
<1>2. StoreOf(stream, base, n) = StoreOf(stream', base, n)
  BY <1>1, StoreSame
<1>3. StateAt(n)' = StateAt(n)
  BY <1>2, StateIs, StateIsNext DEF Lengthened
<1> QED
  BY <1>1, <1>3, PrefixSame

LEMMA TakenKept ==
  ASSUME Lengthened, NEW snapshot, NEW n, Taken(snapshot, n)
  PROVE  /\ n \in 0..Len(stream') /\ Begun(stream', n) = 0
         /\ snapshot.data = StateAt(n)' /\ InDb(stream', n, snapshot.db)
BY PositionsKept DEF Taken

LEMMA PlacedKept ==
  ASSUME Lengthened, NEW r \in Replica, Placed(r),
         receivedOffset'[r] = receivedOffset[r], parser'[r] = parser[r], copy'[r] = copy[r],
         currentDb'[r] = currentDb[r], masterId'[r] = masterId[r],
         state'[r] # "dead" => state[r] # "dead", r \notin astray' => r \notin astray
  PROVE  Placed(r)'
<1> SUFFICES ASSUME r \notin astray', masterId'[r] = replicationId', state'[r] # "dead"
             PROVE  LET n == receivedOffset'[r]
                    IN  /\ n \in 0..Len(stream') /\ Begun(stream', n) = Len(parser'[r])
                        /\ copy'[r] = StateAt(receivedOffset[r])' /\ InDb(stream', n, currentDb'[r])
  <2>1. StateAt(receivedOffset[r])' = StoreOf(stream', base', receivedOffset'[r])
    BY DEF StateAt, StoreOf, Stores
  <2> QED
    BY <2>1 DEF Placed
<1> DEFINE n == receivedOffset[r]
<1>1. /\ n \in 0..Len(stream) /\ Begun(stream, n) = Len(parser[r])
      /\ copy[r] = StateAt(n) /\ InDb(stream, n, currentDb[r])
  BY DEF Placed, Lengthened
<1> QED
  BY <1>1, PositionsKept

\* The same, said of the stores: what follows names no state but the next.
LEMMA TakenStays ==
  ASSUME Lengthened, NEW snapshot, NEW n, Taken(snapshot, n)
  PROVE  /\ n \in 0..Len(stream') /\ Begun(stream', n) = 0
         /\ snapshot.data = StoreOf(stream', base', n) /\ InDb(stream', n, snapshot.db)
BY TakenKept, StateIsNext

LEMMA PlacedAt ==
  ASSUME NEW r \in Replica, NEW n, receivedOffset'[r] = n, n \in 0..Len(stream'),
         Begun(stream', n) = Len(parser'[r]), copy'[r] = StoreOf(stream', base', n),
         InDb(stream', n, currentDb'[r])
  PROVE  Placed(r)'
<1>1. StateAt(receivedOffset[r])' = StoreOf(stream', base', receivedOffset'[r])
  BY DEF StateAt, StoreOf, Stores
<1> QED
  BY <1>1 DEF Placed

\* A recorded mutation: perhaps a SELECT, and then the command itself.
LEMMA RecordPrimary ==
  ASSUME Inv, Primary, NEW d \in Db, Record(d)
  PROVE  Primary' /\ Lengthened
<1> DEFINE sel == SelectCmd(d)
           push == PushCmd(d, made + 1)
           s == stream
           a == s \o Units(sel)
           old == StoreOf(s, base, Len(s))
           t == stream'
<1>1. /\ s \in Seq(Unit) /\ Shaped(s) /\ Begun(s, Len(s)) = 0 /\ InDb(s, Len(s), selected)
      /\ data = old /\ base \in [Db -> Seq(1..MaxMutations)] /\ Len(s) \in Nat
      /\ data \in [Db -> Seq(1..MaxMutations)]
  BY StateIs DEF Primary, Inv, LinkInv, LinkTypeOK, BacklogInv
<1>2. sel \in Command /\ push \in Command /\ sel.op = "select" /\ sel.db = d
      /\ push.op = "push" /\ push.db = d /\ push.id = made + 1
  BY ReplicationAssumption DEF SelectCmd, PushCmd, Command, Record, Inv, LinkInv, BacklogInv
<1>3. /\ data' = [data EXCEPT ![d] = Append(@, made + 1)] /\ selected' = d
      /\ t = s \o Chunk(d) /\ base' = base /\ replicationId' = replicationId
  BY DEF Record
<1>4. Units(sel) \in Seq(Unit) /\ Units(push) \in Seq(Unit)
  BY <1>2, ReplicationAssumption DEF Units, Unit
<1> HIDE DEF sel, push, s
<1>5. /\ t \in Seq(Unit) /\ Len(s) <= Len(t) /\ Agree(s, t, Len(s))
      /\ Shaped(t) /\ Begun(t, Len(t)) = 0 /\ InDb(t, Len(t), d)
      /\ StoreOf(t, base, Len(t)) = [old EXCEPT ![d] = Append(@, made + 1)]
  <2>1. CASE d = selected
    <3>1. t = s \o Units(push)
      BY <1>3, <2>1 DEF Chunk, push
    <3> DEFINE u == s \o Units(push)
    <3>2. /\ u \in Seq(Unit) /\ Len(s) <= Len(u) /\ Agree(s, u, Len(s))
          /\ Shaped(u) /\ Begun(u, Len(u)) = 0 /\ InDb(u, Len(u), push.db)
          /\ StoreOf(u, base, Len(u))
               = [StoreOf(s, base, Len(s)) EXCEPT ![push.db] = Append(@, push.id)]
      <4>1. /\ s \in Seq(Unit) /\ Shaped(s) /\ Begun(s, Len(s)) = 0 /\ InDb(s, Len(s), d)
            /\ push \in Command /\ push.op = "push" /\ push.db = d
        BY <1>1, <1>2, <2>1
      <4> HIDE DEF u, t, old, a
      <4> QED
        BY <4>1, CommandAdded DEF u
    <3> HIDE DEF t, u
    <3> QED
      BY <1>2, <3>1, <3>2 DEF u
  <2>2. CASE d # selected
    <3>1. t = s \o (Units(sel) \o Units(push))
      BY <1>3, <2>2 DEF Chunk, push, sel
    <3>2. t = a \o Units(push)
      <4>1. (s \o Units(sel)) \o Units(push) = s \o (Units(sel) \o Units(push))
        <5>1. s \in Seq(Unit) /\ Units(sel) \in Seq(Unit) /\ Units(push) \in Seq(Unit)
          BY <1>1, <1>4
        <5> QED
          BY ONLY <5>1, ConcatAssociative
      <4> QED
        BY <3>1, <4>1
    <3>3. /\ a \in Seq(Unit) /\ Len(s) <= Len(a) /\ Agree(s, a, Len(s))
          /\ Shaped(a) /\ Begun(a, Len(a)) = 0 /\ InDb(a, Len(a), d)
          /\ StoreOf(a, base, Len(a)) = old
      BY <1>1, <1>2, CommandAdded
    <3> HIDE DEF t, a, old
    <3> DEFINE u == a \o Units(push)
    <3>7. /\ u \in Seq(Unit) /\ Len(a) <= Len(u) /\ Agree(a, u, Len(a))
          /\ Shaped(u) /\ Begun(u, Len(u)) = 0 /\ InDb(u, Len(u), push.db)
          /\ StoreOf(u, base, Len(u))
               = [StoreOf(a, base, Len(a)) EXCEPT ![push.db] = Append(@, push.id)]
      <4> HIDE DEF u
      <4> QED
        BY <1>2, <3>3, CommandAdded DEF u
    <3>4. /\ t \in Seq(Unit) /\ Len(a) <= Len(t) /\ Agree(a, t, Len(a))
          /\ Shaped(t) /\ Begun(t, Len(t)) = 0 /\ InDb(t, Len(t), d)
          /\ StoreOf(t, base, Len(t)) = [old EXCEPT ![d] = Append(@, made + 1)]
      <4> HIDE DEF u
      <4> QED
        BY <1>2, <3>2, <3>3, <3>7 DEF u
    <3>5. Len(a) \in Nat /\ Len(t) \in Nat
      BY <3>3, <3>4
    <3>6. Agree(s, t, Len(s))
      BY <1>1, <3>3, <3>4, <3>5 DEF Agree
    <3> QED
      BY <1>1, <3>3, <3>4, <3>5, <3>6
  <2> QED
    BY <2>1, <2>2
<1>6. Lengthened
  BY <1>1, <1>3, <1>5 DEF Lengthened, s
<1>7. data' = StoreOf(t, base', Len(t))
  BY <1>1, <1>3, <1>5
<1>8. data' = (StateAt(Len(stream)))'
  BY <1>7 DEF StateAt, StoreOf, Stores
<1> QED
  BY <1>1, <1>3, <1>5, <1>6, <1>8 DEF Primary

\* What a replica that waits for its answer has before it.
LEMMA Forms ==
  ASSUME Inv, NEW r \in Replica, state[r] = "psync", link[r] # <<>>
  PROVE  /\ r \in online /\ link[r] \in Seq(Message) /\ 1 \in 1..Len(link[r])
         /\ Head(link[r]) = link[r][1] /\ link[r][1].kind \in {"continue", "full", "snapshot"}
         /\ link[r][1].kind = "full" =>
              /\ 2 \in 1..Len(link[r]) /\ link[r][2].kind = "snapshot" /\ link[r][1] \in HeaderReply
         /\ link[r][1].kind = "snapshot" => r \in astray /\ link[r][1] \in SnapshotReply
<1>1. Answered(r) /\ link[r] \in Seq(Message)
  BY DEF Inv, LinkInv, LinkTypeOK, LinkOK, Silent
<1>2. PICK units \in Seq(Unit) :
          \/ \E reply : Continued(r, reply, units)
          \/ \E reply, snapshot : Headed(r, reply, snapshot, units)
          \/ \E snapshot : Snapped(r, snapshot, units)
  BY <1>1 DEF Answered
<1>3. units \in Seq(Message)
  BY Messages
<1>4. \A m \in Message, s \in Seq(Message) : (<<m>> \o s)[1] = m /\ Len(<<m>> \o s) = Len(s) + 1
  OBVIOUS
<1>5. \A m, n \in Message, s \in Seq(Message) :
        LET t == <<m>> \o (<<n>> \o s) IN t[1] = m /\ t[2] = n /\ Len(t) = Len(s) + 2
  OBVIOUS
<1>6. Len(units) \in Nat
  OBVIOUS
<1>7. ASSUME NEW reply, Continued(r, reply, units)
      PROVE  link[r][1].kind = "continue"
  <2>1. reply \in Message /\ reply.kind = "continue"
    BY <1>7 DEF Continued, ContinueReply, Message
  <2> QED
    BY <1>3, <1>4, <1>7, <2>1 DEF Continued
<1>8. ASSUME NEW reply, NEW snapshot, Headed(r, reply, snapshot, units)
      PROVE  /\ link[r][1].kind = "full" /\ link[r][1] \in HeaderReply
             /\ link[r][2].kind = "snapshot" /\ 2 \in 1..Len(link[r])
  <2>1. /\ reply \in Message /\ reply.kind = "full" /\ reply \in HeaderReply
        /\ snapshot \in Message /\ snapshot.kind = "snapshot"
    BY <1>8 DEF Headed, HeaderReply, SnapshotReply, Message
  <2>2. link[r] = <<reply>> \o (<<snapshot>> \o units)
    BY <1>8 DEF Headed
  <2>3. link[r][1] = reply /\ link[r][2] = snapshot /\ Len(link[r]) = Len(units) + 2
    BY <1>3, <1>5, <2>1, <2>2
  <2> QED
    BY <1>6, <2>1, <2>3
<1>9. ASSUME NEW snapshot, Snapped(r, snapshot, units)
      PROVE  link[r][1].kind = "snapshot" /\ r \in astray /\ link[r][1] \in SnapshotReply
  <2>1. snapshot \in Message /\ snapshot.kind = "snapshot" /\ snapshot \in SnapshotReply
    BY <1>9 DEF Snapped, SnapshotReply, Message
  <2> QED
    BY <1>3, <1>4, <1>9, <2>1 DEF Snapped
<1>10. r \in online /\ 1 \in 1..Len(link[r]) /\ Head(link[r]) = link[r][1]
  BY <1>1 DEF Answered
<1>11. \/ link[r][1].kind = "continue"
       \/ /\ link[r][1].kind = "full" /\ link[r][1] \in HeaderReply
          /\ link[r][2].kind = "snapshot" /\ 2 \in 1..Len(link[r])
       \/ link[r][1].kind = "snapshot" /\ r \in astray /\ link[r][1] \in SnapshotReply
  BY <1>2, <1>7, <1>8, <1>9
<1> QED
  BY <1>1, <1>10, <1>11

LEMMA AnsweredNot ==
  ASSUME NEW r \in Replica, Answered(r)
  PROVE  link[r] # <<>>
<1>1. \A units \in Seq(Unit), reply \in Message, snapshot \in Message :
        <<reply>> \o units # <<>> /\ <<reply>> \o (<<snapshot>> \o units) # <<>>
  <2> TAKE units \in Seq(Unit), reply \in Message, snapshot \in Message
  <2>1. units \in Seq(Message)
    BY Messages
  <2>2. <<snapshot>> \o units \in Seq(Message)
    BY <2>1
  <2> QED
    BY <2>1, <2>2, HeadTailConcat
<1>2. ContinueReply \subseteq Message /\ HeaderReply \subseteq Message /\ SnapshotReply \subseteq Message
  BY DEF Message
<1> QED
  BY <1>1, <1>2 DEF Answered, Continued, Headed, Snapped

LEMMA SentKept ==
  ASSUME Inv, Lengthened, NEW r \in Replica, Sent(r), NEW c \in Seq(Unit),
         link'[r] = IF r \in online THEN link[r] \o c ELSE link[r],
         state'[r] = state[r], receivedOffset'[r] = receivedOffset[r]
  PROVE  Sent(r)'
<1>1. CASE state[r] = "psync" /\ link[r] # <<>>
  <2>1. /\ link[r] \in Seq(Message) /\ c \in Seq(Message) /\ 1 \in 1..Len(link[r])
        /\ link[r][1].kind = "full" => 2 \in 1..Len(link[r])
    BY <1>1, Forms, Messages
  <2>2. \A s \in Seq(Message), i \in 1..Len(link[r]) : (link[r] \o s)[i] = link[r][i]
    BY <2>1
  <2>3. \A i \in 1..Len(link[r]) : link'[r][i] = link[r][i]
    BY <2>1, <2>2
  <2>4. link'[r][1] = link[r][1] /\ (link[r][1].kind = "full" => link'[r][2] = link[r][2])
    BY <2>1, <2>3
  <2>5. /\ link[r][1].kind = "full" =>
             /\ link[r][1].id <= replicationId
             /\ link[r][2].exact => Taken(link[r][2], link[r][1].offset)
        /\ link[r][1].kind = "snapshot" /\ link[r][1].exact => Taken(link[r][1], receivedOffset[r])
    BY <1>1 DEF Sent
  <2>6. replicationId' = replicationId
    BY DEF Lengthened
  <2>7. link[r][1].kind = "full" /\ link[r][2].exact => Taken(link[r][2], link[r][1].offset)'
    <3> SUFFICES ASSUME link[r][1].kind = "full", link[r][2].exact
                 PROVE  Taken(link[r][2], link[r][1].offset)'
      OBVIOUS
    <3> DEFINE x == link[r][2]
               n == link[r][1].offset
    <3>1. Taken(x, n) /\ link'[r][2] = x /\ link'[r][1].offset = n
      BY <2>4, <2>5
    <3> QED
      BY <3>1, TakenKept DEF Taken
  <2>8. link[r][1].kind = "snapshot" /\ link[r][1].exact => Taken(link[r][1], receivedOffset[r])'
    BY <2>4, <2>5, TakenKept DEF Taken
  <2> QED
    BY <2>4, <2>5, <2>6, <2>7, <2>8 DEF Sent
<1>2. CASE ~(state[r] = "psync" /\ link[r] # <<>>)
  <2>1. state[r] = "psync" => r \notin online
    BY <1>2, AnsweredNot DEF Inv, LinkInv, LinkOK, Silent
  <2> QED
    BY <1>2, <2>1 DEF Sent
<1> QED
  BY <1>1, <1>2

LEMMA PrimaryKept ==
  ASSUME Inv, Primary, UNCHANGED <<data, selected, replicationId, stream, base>>
  PROVE  Primary' /\ Lengthened
<1>1. Lengthened
  BY DEF Lengthened, Agree, Inv, LinkInv, BacklogInv
<1>2. (StateAt(Len(stream)))' = StateAt(Len(stream))
  BY DEF StateAt
<1> QED
  BY <1>1, <1>2 DEF Primary

LEMMA SentSame ==
  ASSUME Inv, Lengthened, NEW r \in Replica, Sent(r), link'[r] = link[r],
         state'[r] = state[r], receivedOffset'[r] = receivedOffset[r]
  PROVE  Sent(r)'
<1>1. link[r] \in Seq(Message)
  BY DEF Inv, LinkInv, LinkTypeOK
<1>2. link[r] \o <<>> = link[r] /\ <<>> \in Seq(Unit)
  BY <1>1
<1>3. link'[r] = IF r \in online THEN link[r] \o <<>> ELSE link[r]
  BY <1>2
<1> QED
  BY <1>2, <1>3, SentKept

\* A replica no step has touched.
Untouched(r) ==
  /\ receivedOffset'[r] = receivedOffset[r] /\ parser'[r] = parser[r] /\ copy'[r] = copy[r]
  /\ currentDb'[r] = currentDb[r] /\ masterId'[r] = masterId[r]
  /\ state'[r] = state[r] /\ (r \in astray' <=> r \in astray)

Position(r) == Placed(r) /\ Sent(r) /\ masterId[r] <= replicationId

LEMMA PositionSame ==
  ASSUME Inv, Lengthened, NEW r \in Replica, Position(r), Untouched(r), link'[r] = link[r]
  PROVE  Position(r)'
<1>1. Placed(r)' /\ Sent(r)'
  BY PlacedKept, SentSame DEF Position, Untouched
<1> QED
  BY <1>1 DEF Position, Untouched, Lengthened

LEMMA PositionGrows ==
  ASSUME Inv, Lengthened, NEW r \in Replica, Position(r), Untouched(r), NEW c \in Seq(Unit),
         link'[r] = IF r \in online THEN link[r] \o c ELSE link[r]
  PROVE  Position(r)'
<1>1. Placed(r)' /\ Sent(r)'
  BY PlacedKept, SentKept DEF Position, Untouched
<1> QED
  BY <1>1 DEF Position, Untouched, Lengthened

LEMMA MutatePositions ==
  ASSUME Inv, PositionInv, NEW d \in Db, Mutate(d)
  PROVE  PositionInv'
<1>1. Primary' /\ Lengthened
  BY RecordPrimary DEF Mutate, PositionInv
<1>2. Chunk(d) \in Seq(Unit)
  BY ChunkType DEF Mutate, Record, Inv, LinkInv, BacklogInv
<1>3. ASSUME NEW r \in Replica PROVE Position(r)'
  <2>1. Untouched(r) /\ link'[r] = IF r \in online THEN link[r] \o Chunk(d) ELSE link[r]
    BY DEF Mutate, replicaVars, Untouched
  <2>2. Position(r)
    BY DEF PositionInv, Position
  <2> QED
    BY <1>1, <1>2, <2>1, <2>2, PositionGrows
<1> QED
  BY <1>1, <1>3 DEF PositionInv, Position

LEMMA ConnectPositions ==
  ASSUME Inv, PositionInv, NEW q \in Replica, NEW object \in Objects, Connect(q, object)
  PROVE  PositionInv'
<1>1. Primary' /\ Lengthened
  BY PrimaryKept DEF Connect, primaryVars, PositionInv
<1>2. ASSUME NEW r \in Replica PROVE Position(r)'
  <2>0. Position(r) /\ link' = link
    BY DEF PositionInv, Position, Connect
  <2>1. CASE r # q
    <3>1. Untouched(r)
      BY <2>1 DEF Connect, Untouched, Inv, LinkInv, LinkTypeOK, ReplicaTypeOK
    <3> QED
      BY <1>1, <2>0, <3>1, PositionSame
  <2>2. CASE r = q
    <3>1. /\ receivedOffset' = receivedOffset /\ copy' = copy /\ masterId' = masterId
          /\ state[q] = "none" /\ state'[q] = "psync"
      BY DEF Connect, Inv, LinkInv, LinkTypeOK
    <3>2. link[q] = <<>>
      BY <3>1 DEF Inv, LinkInv, LinkOK, Silent
    <3>3. q \notin astray' => /\ q \notin astray /\ parser'[q] = parser[q]
                              /\ currentDb'[q] = currentDb[q]
      <4>1. CASE object = "same"
        BY <4>1 DEF Connect
      <4>2. CASE object # "same"
        <5>1. /\ parser' = [parser EXCEPT ![q] = <<>>] /\ currentDb' = [currentDb EXCEPT ![q] = Db0]
              /\ astray' = IF parser[q] # <<>> \/ currentDb[q] # Db0 THEN astray \cup {q} ELSE astray
          BY <4>2 DEF Connect
        <5> QED
          BY <5>1 DEF Inv, ReplicaTypeOK
      <4> QED
        BY <4>1, <4>2
    <3>4. Placed(q)'
      <4>1. CASE q \in astray'
        BY <4>1 DEF Placed
      <4>2. CASE q \notin astray'
        <5>1. Placed(q)
          BY <2>0, <2>2 DEF Position
        <5> QED
          BY <1>1, <3>1, <3>3, <4>2, <5>1, PlacedKept
      <4> QED
        BY <4>1, <4>2
    <3>5. Sent(q)'
      BY <2>0, <3>2 DEF Sent
    <3>6. masterId'[q] <= replicationId'
      BY <1>1, <2>0, <2>2, <3>1 DEF Position, Lengthened
    <3> QED
      BY <2>2, <3>4, <3>5, <3>6 DEF Position
  <2> QED
    BY <2>1, <2>2
<1> QED
  BY <1>1, <1>2 DEF PositionInv, Position

LEMMA DropPositions ==
  ASSUME Inv, PositionInv, NEW q \in Replica, Drop(q)
  PROVE  PositionInv'
<1>1. Primary' /\ Lengthened
  BY PrimaryKept DEF Drop, primaryVars, PositionInv
<1>2. ASSUME NEW r \in Replica PROVE Position(r)'
  <2>0. Position(r)
    BY DEF PositionInv, Position
  <2>1. CASE r # q
    <3>1. Untouched(r) /\ link'[r] = link[r]
      BY <2>1 DEF Drop, replicaVars, Untouched, Inv, LinkInv, LinkTypeOK
    <3> QED
      BY <1>1, <2>0, <3>1, PositionSame
  <2>2. CASE r = q
    <3>1. state'[q] = "none" /\ state[q] # "dead"
      BY DEF Drop, Inv, LinkInv, LinkTypeOK
    <3>2. Placed(q)'
      BY <1>1, <2>0, <2>2, <3>1, PlacedKept DEF Drop, replicaVars, Position
    <3>3. Sent(q)'
      BY <3>1 DEF Sent
    <3>4. masterId'[q] <= replicationId'
      BY <1>1, <2>0, <2>2 DEF Position, Lengthened, Drop, replicaVars
    <3> QED
      BY <2>2, <3>2, <3>3, <3>4 DEF Position
  <2> QED
    BY <2>1, <2>2
<1> QED
  BY <1>1, <1>2 DEF PositionInv, Position

\* A restart begins another stream, which no replica and no answer names yet.
LEMMA RestartPositions ==
  ASSUME Inv, PositionInv, Restart
  PROVE  PositionInv'
<1>1. /\ stream' = <<>> /\ base' = data /\ data' = data /\ selected' = Db0
      /\ replicationId' = replicationId + 1 /\ masterId' = masterId
      /\ replicationId \in Nat /\ data \in [Db -> Seq(1..MaxMutations)]
      /\ masterId \in [Replica -> Nat]
  BY DEF Restart, replicaVars, Inv, LinkInv, LinkTypeOK, ReplicaTypeOK
<1>2. Len(stream') = 0
  BY <1>1
<1>3. (StateAt(Len(stream)))' = base'
  <2>1. (StateAt(Len(stream)))' = StoreOf(stream', base', Len(stream'))
    BY DEF StateAt, StoreOf, Stores
  <2> QED
    BY <1>2, <2>1, StoreNone
<1>4. Shaped(stream') /\ Begun(stream', 0) = 0 /\ InDb(stream', 0, Db0)
  BY <1>2 DEF Shaped, Begun, InDb
<1>5. Primary'
  BY <1>1, <1>2, <1>3, <1>4 DEF Primary
<1>6. ASSUME NEW r \in Replica PROVE Position(r)'
  <2>1. masterId[r] \in Nat /\ masterId[r] <= replicationId
    BY <1>1 DEF PositionInv
  <2>2. masterId'[r] # replicationId' /\ masterId'[r] <= replicationId'
    BY <1>1, <2>1
  <2>3. state'[r] # "psync"
    BY DEF Restart
  <2> QED
    BY <2>2, <2>3 DEF Position, Placed, Sent
<1> QED
  BY <1>5, <1>6 DEF PositionInv, Position

\* The two messages of a full answer, at the head of an empty link.
LEMMA FullSent ==
  ASSUME Inv, NEW q \in Replica, Primary', Lengthened, NEW store, NEW d, NEW exact \in BOOLEAN,
         link'[q] = <<>> \o <<Header, Snapshot(store, d, exact)>>,
         store \in [Db -> Seq(1..MaxMutations)], d \in Db,
         exact => Taken(Snapshot(store, d, exact), currentOffset)
  PROVE  Sent(q)'
<1> DEFINE snapshot == Snapshot(store, d, exact)
<1>1. /\ Header \in Message /\ Header.kind = "full" /\ Header.id = replicationId
      /\ Header.offset = currentOffset
      /\ snapshot \in Message /\ snapshot.kind = "snapshot" /\ snapshot.exact = exact
  <2>1. Header \in HeaderReply /\ snapshot \in SnapshotReply
    BY FullReplies DEF Inv
  <2> QED
    BY <2>1 DEF Header, Snapshot, Message
<1>2. link'[q] = <<>> \o <<Header, snapshot>> /\ (exact => Taken(snapshot, currentOffset))
  OBVIOUS
<1> HIDE DEF snapshot
<1>3. \A a, b \in Message : (<<>> \o <<a, b>>)[1] = a /\ (<<>> \o <<a, b>>)[2] = b
  OBVIOUS
<1>4. link'[q][1] = Header /\ link'[q][2] = snapshot
  BY <1>1, <1>2, <1>3
<1>5. replicationId \in Nat /\ replicationId' = replicationId
  BY DEF Lengthened, Inv, LinkInv, LinkTypeOK
<1>6. exact => Taken(link[q][2], link[q][1].offset)'
  <2> SUFFICES ASSUME exact PROVE Taken(link[q][2], link[q][1].offset)'
    OBVIOUS
  <2> DEFINE n == currentOffset
  <2>1. Taken(snapshot, n)
    BY <1>2
  <2>2. link'[q][2] = snapshot /\ link'[q][1].offset = n
    BY <1>1, <1>4
  <2> HIDE DEF n
  <2> QED
    BY <2>1, <2>2, TakenKept DEF Taken
<1> QED
  BY <1>1, <1>4, <1>5, <1>6 DEF Sent

LEMMA PsyncPositions ==
  ASSUME Inv, PositionInv, NEW q \in Replica, Psync(q)
  PROVE  PositionInv'
<1>1. /\ state[q] = "psync" /\ link[q] = <<>> /\ UNCHANGED <<replicaVars, state, astray>>
      /\ link \in [Replica -> Seq(Message)]
  BY DEF Psync, Continue, FullResync, Inv, LinkInv, LinkTypeOK
<1>2. \A r \in Replica : Untouched(r) /\ Position(r)
  BY <1>1 DEF replicaVars, Untouched, PositionInv, Position
<1>3. ASSUME Lengthened, Sent(q)' PROVE Position(q)'
  <2>1. Placed(q)'
    BY <1>2, <1>3, PlacedKept DEF Untouched, Position
  <2> QED
    BY <1>2, <1>3, <2>1 DEF Position, Untouched, Lengthened
<1>4. ASSUME Primary', Lengthened, Sent(q)', \A r \in Replica \ {q} : Position(r)'
      PROVE  PositionInv'
  BY <1>3, <1>4 DEF PositionInv, Position
<1>5. CASE Continue(q)
  <2>1. Primary' /\ Lengthened
    BY <1>5, PrimaryKept DEF Continue, primaryVars, PositionInv
  <2>2. \A r \in Replica \ {q} : Position(r)'
    BY <1>1, <1>2, <1>5, <2>1, PositionSame DEF Continue
  <2>3. Sent(q)'
    <3> DEFINE rest == SliceFrom(receivedOffset[q])
               reply == [kind |-> "continue"]
    <3>1. link'[q] = (<<>> \o <<reply>>) \o rest
      BY <1>1, <1>5 DEF Continue
    <3>2. rest \in Seq(Message)
      <4>1. rest = End(stream, receivedOffset[q]) /\ receivedOffset[q] \in 0..Len(stream)
        BY <1>5, BacklogServes DEF ServesTheRest, Continue, Inv, LinkInv, LinkTypeOK, BacklogInv
      <4> QED
        BY <4>1, EndProperties, Messages DEF Inv, LinkInv, BacklogInv
    <3>3. reply \in Message
      BY DEF Message, ContinueReply
    <3>4. \A m \in Message, s \in Seq(Message) : ((<<>> \o <<m>>) \o s)[1] = m
      OBVIOUS
    <3>5. link'[q][1] = reply
      <4> HIDE DEF rest, reply
      <4> QED
        BY <3>1, <3>2, <3>3, <3>4
    <3>6. link'[q][1].kind = "continue"
      BY <3>5
    <3> QED
      BY <3>6 DEF Sent
  <2> QED
    BY <1>4, <2>1, <2>2, <2>3
<1>6. CASE /\ UNCHANGED <<primaryVars, stream, base, made>>
           /\ link' = [link EXCEPT ![q] = @ \o <<Header, Snapshot(data, selected, TRUE)>>]
  <2>1. Primary' /\ Lengthened
    BY <1>6, PrimaryKept DEF primaryVars, PositionInv
  <2>2. \A r \in Replica \ {q} : Position(r)'
    BY <1>1, <1>2, <1>6, <2>1, PositionSame
  <2>3. Sent(q)'
    <3>1. link'[q] = <<>> \o <<Header, Snapshot(data, selected, TRUE)>>
      BY <1>1, <1>6
    <3>2. /\ data \in [Db -> Seq(1..MaxMutations)] /\ selected \in Db
          /\ currentOffset = Len(stream) /\ Len(stream) \in 0..Len(stream)
      BY DEF Inv, LinkInv, LinkTypeOK, BacklogInv, BacklogExact
    <3>3. Taken(Snapshot(data, selected, TRUE), currentOffset)
      BY <3>2 DEF Taken, Snapshot, PositionInv, Primary
    <3> QED
      BY <2>1, <3>1, <3>2, <3>3, FullSent
  <2> QED
    BY <1>4, <2>1, <2>2, <2>3
<1>7. ASSUME NEW d \in Db, Record(d),
             link' = [s \in Replica |->
                        IF s = q THEN link[q] \o <<Header, Snapshot(data', d, FALSE)>>
                        ELSE IF s \in online THEN link[s] \o Chunk(d) ELSE link[s]]
      PROVE  PositionInv'
  <2>1. Primary' /\ Lengthened
    BY <1>7, RecordPrimary DEF PositionInv
  <2>2. Chunk(d) \in Seq(Unit)
    BY <1>7, ChunkType DEF Record, Inv, LinkInv, BacklogInv
  <2>3. ASSUME NEW r \in Replica \ {q} PROVE Position(r)'
    <3>1. link'[r] = IF r \in online THEN link[r] \o Chunk(d) ELSE link[r]
      BY <1>7
    <3> QED
      BY <1>2, <2>1, <2>2, <3>1, PositionGrows
  <2>4. Sent(q)'
    <3>1. link'[q] = <<>> \o <<Header, Snapshot(data', d, FALSE)>>
      BY <1>1, <1>7
    <3>2. data' \in [Db -> Seq(1..MaxMutations)]
      BY <1>7, RecordTypes DEF Inv
    <3> QED
      BY <2>1, <3>1, <3>2, FullSent
  <2> QED
    BY <1>4, <2>1, <2>3, <2>4
<1> QED
  BY <1>5, <1>6, <1>7 DEF Psync, FullResync

LEMMA ResponsePositions ==
  ASSUME Inv, PositionInv, NEW q \in Replica, PsyncResponse(q)
  PROVE  PositionInv'
<1> DEFINE head == Head(link[q])
<1>1. Primary' /\ Lengthened
  BY PrimaryKept DEF PsyncResponse, primaryVars, PositionInv
<1>2. /\ state[q] = "psync" /\ link[q] # <<>> /\ link[q] \in Seq(Message)
      /\ link'[q] = Tail(link[q]) /\ UNCHANGED <<currentDb, parser>>
      /\ Resume(q, head) \/ TakeHeader(q, head) \/ TakeSnapshot(q, head)
  BY DEF PsyncResponse, Inv, LinkInv, LinkTypeOK
<1>3. /\ head = link[q][1]
      /\ head.kind = "full" =>
           /\ 2 \in 1..Len(link[q]) /\ link[q][2].kind = "snapshot" /\ head \in HeaderReply
      /\ head.kind = "snapshot" => q \in astray /\ head \in SnapshotReply
  BY <1>2, Forms
<1>4. /\ head.kind = "full" =>
           head.id <= replicationId /\ (link[q][2].exact => Taken(link[q][2], head.offset))
      /\ head.kind = "snapshot" /\ head.exact => Taken(head, receivedOffset[q])
  BY <1>2, <1>3 DEF PositionInv, Sent
<1>5. \A r \in Replica : Position(r)
  BY DEF PositionInv, Position
<1>6. ASSUME NEW r \in Replica, r # q PROVE Position(r)'
  <2>1. Untouched(r) /\ link'[r] = link[r]
    BY <1>6 DEF PsyncResponse, Resume, TakeHeader, TakeSnapshot, Untouched, Inv, LinkInv, LinkTypeOK,
                ReplicaTypeOK
  <2> QED
    BY <1>1, <1>5, <2>1, PositionSame
<1> HIDE DEF head
<1>7. Position(q)'
  <2>1. CASE Resume(q, head)
    <3>1. /\ state'[q] = "online" /\ UNCHANGED <<copy, masterId, receivedOffset, astray>>
      BY <2>1 DEF Resume, Inv, LinkInv, LinkTypeOK
    <3>2. Placed(q)'
      BY <1>1, <1>2, <1>5, <3>1, PlacedKept DEF Position
    <3> QED
      BY <1>1, <1>5, <3>1, <3>2 DEF Position, Sent, Lengthened
  <2>2. CASE TakeHeader(q, head)
    <3>1. /\ head.kind = "full" /\ q \in astray' /\ masterId'[q] = head.id
          /\ receivedOffset'[q] = head.offset
      BY <2>2 DEF TakeHeader, Inv, LinkInv, LinkTypeOK, ReplicaTypeOK
    <3>2. link'[q][1] = link[q][2]
      BY <1>2, <1>3, <3>1
    <3>3. link[q][2].exact => Taken(link[q][1], receivedOffset[q])'
      <4> SUFFICES ASSUME link[q][2].exact PROVE Taken(link[q][1], receivedOffset[q])'
        OBVIOUS
      <4> DEFINE x == link[q][2]
                 n == head.offset
      <4>1. Taken(x, n) /\ link'[q][1] = x /\ receivedOffset'[q] = n
        BY <1>4, <3>1, <3>2
      <4> HIDE DEF x, n
      <4> QED
        BY <1>1, <4>1, TakenKept DEF Taken
    <3>4. link'[q][1].kind = "snapshot"
      BY <1>3, <3>1, <3>2
    <3>5. Sent(q)'
      BY <3>2, <3>3, <3>4 DEF Sent
    <3>6. masterId'[q] <= replicationId'
      BY <1>1, <1>4, <3>1 DEF Lengthened
    <3> QED
      BY <3>1, <3>5, <3>6 DEF Position, Placed
  <2>3. CASE TakeSnapshot(q, head)
    <3>1. /\ head.kind = "snapshot" /\ copy'[q] = head.data /\ state'[q] = "online"
          /\ astray' = IF head.exact /\ head.db = currentDb[q] /\ parser[q] = <<>>
                       THEN astray \ {q} ELSE astray
          /\ UNCHANGED <<masterId, receivedOffset>>
      BY <2>3 DEF TakeSnapshot, Inv, LinkInv, LinkTypeOK, ReplicaTypeOK
    <3>2. q \notin astray' => head.exact /\ head.db = currentDb[q] /\ parser[q] = <<>>
      BY <1>3, <3>1
    <3>3. Placed(q)'
      <4> SUFFICES ASSUME q \notin astray' PROVE Placed(q)'
        BY DEF Placed
      <4>1. Taken(head, receivedOffset[q])
        BY <1>4, <3>1, <3>2
      <4>2. /\ receivedOffset'[q] = receivedOffset[q] /\ copy'[q] = head.data
            /\ Len(parser'[q]) = 0 /\ currentDb'[q] = head.db
        BY <1>2, <3>1, <3>2
      <4> QED
        BY <1>1, <4>1, <4>2, PlacedAt, TakenStays
    <3>4. Sent(q)'
      BY <3>1 DEF Sent
    <3>5. masterId'[q] <= replicationId'
      BY <1>1, <1>5, <3>1 DEF Lengthened, Position
    <3> QED
      BY <3>3, <3>4, <3>5 DEF Position
  <2> QED
    BY <1>2, <2>1, <2>2, <2>3
<1> QED
  BY <1>1, <1>6, <1>7 DEF PositionInv, Position

\* A unit of the stream read by a replica that is where it says.
LEMMA UnitRead ==
  ASSUME Inv, Primary, NEW q \in Replica, Stream(q), Placed(q),
         q \notin astray, masterId[q] = replicationId
  PROVE  /\ receivedOffset'[q] \in 0..Len(stream)
         /\ Begun(stream, receivedOffset'[q]) = Len(parser'[q])
         /\ copy'[q] = StoreOf(stream, base, receivedOffset'[q])
         /\ InDb(stream, receivedOffset'[q], currentDb'[q])
<1> DEFINE unit == Head(link[q])
<1>1. /\ state[q] = "online" /\ link[q] # <<>> /\ link[q] \in Seq(Unit)
      /\ Follows(link[q], receivedOffset[q])
  BY DEF Stream, Inv, LinkInv, LinkTypeOK, LinkOK, Streaming
<1>2. PICK n \in Nat : n = receivedOffset[q]
  BY DEF Inv, LinkInv, LinkTypeOK
<1>3. /\ stream \in Seq(Unit) /\ Len(stream) \in Nat /\ n \in 0..Len(stream)
      /\ link[q] = End(stream, n)
  BY <1>1, <1>2 DEF Follows, Inv, LinkInv, BacklogInv
<1>4. Len(link[q]) = Len(stream) - n /\ Len(link[q]) > 0
  BY <1>1, <1>3, EndProperties
<1>5. n + 1 \in 1..Len(stream) /\ unit = stream[n + 1] /\ unit \in Unit
  <2>1. \A i \in 1..(Len(stream) - n) : End(stream, n)[i] = stream[n + i]
    BY <1>3, EndProperties
  <2>2. 1 \in 1..(Len(stream) - n)
    BY <1>2, <1>3, <1>4
  <2>3. link[q][1] = stream[n + 1]
    BY <1>3, <2>1, <2>2
  <2> QED
    BY <1>1, <1>2, <1>3, <1>4, <2>3
<1>6. /\ Begun(stream, n) = Len(parser[q]) /\ copy[q] = StoreOf(stream, base, n)
      /\ InDb(stream, n, currentDb[q])
  BY <1>1, <1>2, StateIs DEF Placed
<1>7. unit.part = Len(parser[q]) + 1 /\ (Pushes(unit) => unit.cmd.db = currentDb[q])
  <2>1. n + 1 - 1 = n
    BY <1>2
  <2>2. /\ stream[n + 1].part = Begun(stream, (n + 1) - 1) + 1
        /\ Pushes(stream[n + 1]) => InDb(stream, (n + 1) - 1, stream[n + 1].cmd.db)
    BY <1>5 DEF Primary, Shaped
  <2>3. Pushes(unit) => unit.cmd.db = currentDb[q]
    BY <1>2, <1>5, <1>6, <2>1, <2>2, InOneDb
  <2> QED
    BY <1>5, <1>6, <2>1, <2>2, <2>3
<1>8. /\ receivedOffset'[q] = n + 1
      /\ parser'[q] = IF unit.part = Width THEN <<>> ELSE Append(parser[q], unit)
      /\ currentDb'[q] = IF Selects(unit) THEN unit.cmd.db ELSE currentDb[q]
      /\ copy'[q] = [copy[q] EXCEPT ![currentDb[q]] = IF Pushes(unit) THEN Append(@, unit.cmd.id) ELSE @]
  BY <1>2, <1>7 DEF Stream, Counted, Selects, Pushes, Inv, LinkInv, LinkTypeOK, ReplicaTypeOK
<1>9. Begun(stream, n + 1) = IF unit.part = Width THEN 0 ELSE unit.part
  BY <1>2, <1>5 DEF Begun
<1>10. Len(parser'[q]) = IF unit.part = Width THEN 0 ELSE unit.part
  <2>1. parser[q] \in Seq(Unit) /\ Len(<<>>) = 0
    BY DEF Inv, ReplicaTypeOK
  <2> HIDE DEF unit
  <2> QED
    BY <1>5, <1>7, <1>8, <2>1
<1>11. InDb(stream, n + 1, currentDb'[q])
  BY <1>2, <1>5, <1>6, <1>8, InDbNext
<1>12. copy'[q] = Applied(copy[q], unit)
  <2>1. copy[q] \in [Db -> Seq(1..MaxMutations)]
    BY DEF Inv, ReplicaTypeOK
  <2> HIDE DEF unit
  <2>2. CASE Pushes(unit)
    BY <1>7, <1>8, <2>1, <2>2 DEF Applied, Pushes
  <2>3. CASE ~Pushes(unit)
    BY <1>8, <2>1, <2>3 DEF Applied, Pushes
  <2> QED
    BY <2>2, <2>3
<1>13. copy'[q] = StoreOf(stream, base, n + 1)
  BY <1>2, <1>5, <1>6, <1>12, StoreNext
<1> QED
  BY <1>3, <1>5, <1>8, <1>9, <1>10, <1>11, <1>13

LEMMA StreamPositions ==
  ASSUME Inv, PositionInv, NEW q \in Replica, Stream(q)
  PROVE  PositionInv'
<1>1. Primary' /\ Lengthened
  BY PrimaryKept DEF Stream, primaryVars, PositionInv
<1>2. ASSUME NEW r \in Replica PROVE Position(r)'
  <2>0. Position(r)
    BY DEF PositionInv, Position
  <2>1. CASE r # q
    <3>1. Untouched(r) /\ link'[r] = link[r]
      BY <2>1 DEF Stream, Untouched, Inv, LinkInv, LinkTypeOK, ReplicaTypeOK
    <3> QED
      BY <1>1, <2>0, <3>1, PositionSame
  <2>2. CASE r = q
    <3>1. /\ state'[q] # "psync"
          /\ UNCHANGED <<masterId, replicationId, astray, stream, base>>
      BY DEF Stream, primaryVars, Inv, LinkInv, LinkTypeOK
    <3>2. Placed(q)'
      <4>1. CASE q \in astray \/ masterId[q] # replicationId
        BY <3>1, <4>1 DEF Placed
      <4>2. CASE q \notin astray /\ masterId[q] = replicationId
        <5>1. /\ receivedOffset'[q] \in 0..Len(stream)
              /\ Begun(stream, receivedOffset'[q]) = Len(parser'[q])
              /\ copy'[q] = StoreOf(stream, base, receivedOffset'[q])
              /\ InDb(stream, receivedOffset'[q], currentDb'[q])
          BY <2>0, <2>2, <4>2, UnitRead DEF Position, PositionInv
        <5>2. StateAt(receivedOffset[q])' = StoreOf(stream', base', receivedOffset'[q])
          BY DEF StateAt, StoreOf, Stores
        <5> QED
          BY <3>1, <5>1, <5>2 DEF Placed
      <4> QED
        BY <4>1, <4>2
    <3>3. Sent(q)'
      BY <3>1 DEF Sent
    <3>4. masterId'[q] <= replicationId'
      BY <2>0, <2>2, <3>1 DEF Position
    <3> QED
      BY <2>2, <3>2, <3>3, <3>4 DEF Position
  <2> QED
    BY <2>1, <2>2
<1> QED
  BY <1>1, <1>2 DEF PositionInv, Position

\* Nothing has been streamed yet, and every replica awaits its first answer.
LEMMA InitPositions == Init => PositionInv
<1> SUFFICES ASSUME Init PROVE PositionInv
  OBVIOUS
<1>1. /\ stream = <<>> /\ Len(stream) = 0 /\ base = Nothing /\ data = Nothing /\ selected = Db0
      /\ replicationId = 1
  BY DEF Init
<1>2. StateAt(0) = base
  BY StateIs, StoreNone
<1>3. Shaped(stream) /\ Begun(stream, 0) = 0 /\ InDb(stream, 0, Db0)
  BY <1>1 DEF Shaped, Begun, InDb
<1>4. Nothing \in [Db -> Seq(1..MaxMutations)]
  BY DEF Nothing
<1>5. Primary
  BY <1>1, <1>2, <1>3, <1>4 DEF Primary
<1>6. ASSUME NEW r \in Replica PROVE Placed(r) /\ Sent(r) /\ masterId[r] <= replicationId
  BY <1>1 DEF Init, Placed, Sent
<1> QED
  BY <1>5, <1>6 DEF PositionInv

LEMMA NextPositions == Inv /\ PositionInv /\ [Next]_vars => PositionInv'
<1> SUFFICES ASSUME Inv, PositionInv, [Next]_vars PROVE PositionInv'
  OBVIOUS
<1>1. ASSUME NEW d \in Db, Mutate(d) PROVE PositionInv'
  BY <1>1, MutatePositions
<1>2. ASSUME NEW r \in Replica, NEW object \in Objects, Connect(r, object) PROVE PositionInv'
  BY <1>2, ConnectPositions
<1>3. ASSUME NEW r \in Replica, Psync(r) PROVE PositionInv'
  BY <1>3, PsyncPositions
<1>4. ASSUME NEW r \in Replica, PsyncResponse(r) PROVE PositionInv'
  BY <1>4, ResponsePositions
<1>5. ASSUME NEW r \in Replica, Stream(r) PROVE PositionInv'
  BY <1>5, StreamPositions
<1>6. ASSUME NEW r \in Replica, Drop(r) PROVE PositionInv'
  BY <1>6, DropPositions
<1>7. CASE Restart
  BY <1>7, RestartPositions
<1>8. CASE UNCHANGED vars
  <2>1. Primary' /\ Lengthened
    BY <1>8, PrimaryKept DEF vars, primaryVars, PositionInv
  <2>2. ASSUME NEW r \in Replica PROVE Position(r)'
    <3>1. Position(r) /\ Untouched(r) /\ link'[r] = link[r]
      BY <1>8 DEF vars, replicaVars, Untouched, PositionInv, Position
    <3> QED
      BY <2>1, <3>1, PositionSame
  <2> QED
    BY <2>1, <2>2 DEF PositionInv, Position
<1> QED
  BY <1>1, <1>2, <1>3, <1>4, <1>5, <1>6, <1>7, <1>8 DEF Next

\* A replica that is not astray holds, at whatever offset it counts of the
\* primary's stream, exactly what the primary's store was at that offset: after
\* any mutations, broken links, partial and full answers and restarts, in any
\* number and order (sliceFrom, handlePsync, _onMutation, processChunk).
THEOREM ReplicasAreExact == Spec => []ExactPosition
<1>1. PositionInv => ExactPosition
  <2> SUFFICES ASSUME PositionInv, NEW r \in Replica \ astray, masterId[r] = replicationId,
                      state[r] # "dead"
               PROVE  copy[r] = StateAt(receivedOffset[r])
    BY DEF ExactPosition
  <2> QED
    BY DEF PositionInv, Placed
<1> QED
  BY <1>1, InitPositions, NextPositions, Invariance, PTL DEF Spec
=============================================================================
