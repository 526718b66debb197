------------------------------- MODULE PubSub -------------------------------
(***************************************************************************)
(* The publish/subscribe broker (src/src/commands/pubsub.js) and the       *)
(* connections it indexes.  The broker keeps, per channel and per pattern, *)
(* the set of connections; each connection keeps, in subscriptions and in  *)
(* patternSubs, the topics it is in.  Everything that leaves the broker is *)
(* found through the connection's own sets, so the two must agree.         *)
(* Names are model values; globMatch is the relation Matches.              *)
(***************************************************************************)
EXTENDS Naturals, FiniteSets

CONSTANTS
  Conn,      \* client connections, TCP and WebSocket
  Channel,   \* channel names
  Pattern,   \* glob patterns
  Matches    \* the pairs <<pattern, channel>> globMatch accepts

ASSUME ApartAssumption == Channel \cap Pattern = {}

VARIABLES
  index,       \* _channels and _patterns: topic -> the connections in its Set
  own,         \* subscriptions and patternSubs of each connection; null is {}
  socket,      \* open, left (end, error or destroy seen) or closed
  stray,       \* history: pairs RESET left in the index and took from own
  heard        \* history: the pairs <<connection, topic>> the last PUBLISH wrote to

brokerVars == <<index, own, socket, stray, heard>>

Topic == Channel \cup Pattern

BrokerInit ==
  /\ index = [t \in Topic |-> {}]
  /\ own = [c \in Conn |-> {}]
  /\ socket = [c \in Conn |-> "open"]
  /\ stray = {}
  /\ heard = {}

-----------------------------------------------------------------------------
\* What subscribe and psubscribe do for each topic of S.
Join(c, S) ==
  /\ index' = [t \in Topic |-> IF t \in S THEN index[t] \cup {c} ELSE index[t]]
  /\ own' = [own EXCEPT ![c] = @ \cup S]
  /\ stray' = stray \ ({c} \X S)
  /\ UNCHANGED <<socket, heard>>

\* What unsubscribe and punsubscribe do for each topic of S: both sides lose
\* the pair, whether the connection knew of the topic or not.
Part(c, S) ==
  /\ index' = [t \in Topic |-> IF t \in S THEN index[t] \ {c} ELSE index[t]]
  /\ own' = [own EXCEPT ![c] = @ \ S]
  /\ stray' = stray \ ({c} \X S)
  /\ UNCHANGED <<socket, heard>>

Subscribe(c, S) == socket[c] = "open" /\ Join(c, S)
Psubscribe(c, S) == socket[c] = "open" /\ Join(c, S)
Unsubscribe(c, S) == socket[c] = "open" /\ Part(c, S)
Punsubscribe(c, S) == socket[c] = "open" /\ Part(c, S)

\* Without arguments the topics are those the connection itself remembers.
UnsubscribeAll(c) == socket[c] = "open" /\ Part(c, own[c] \cap Channel)
PunsubscribeAll(c) == socket[c] = "open" /\ Part(c, own[c] \cap Pattern)

\* RESET sets subscriptions to null, leaves patternSubs, and tells the broker nothing.
\* ForgetsAll is RESET with patternSubs set to null as well.
ForgetsAll(c) == own' = [own EXCEPT ![c] = {}]
ForgetsChannels(c) == own' = [own EXCEPT ![c] = @ \cap Pattern]
Reset(c) ==
  /\ socket[c] = "open"
  /\ ForgetsChannels(c)
  /\ stray' = stray \cup ({c} \X (own[c] \cap Channel))
  /\ UNCHANGED <<index, socket, heard>>

\* removeConnection walks the connection's own sets. RemovesChannels is the
\* first half alone.
RemovesChannels(c) ==
  /\ index' = [t \in Topic |-> IF t \in own[c] \cap Channel THEN index[t] \ {c} ELSE index[t]]
  /\ own' = [own EXCEPT ![c] = {}]
RemoveConnection(c) ==
  /\ index' = [t \in Topic |-> IF t \in own[c] THEN index[t] \ {c} ELSE index[t]]
  /\ own' = [own EXCEPT ![c] = {}]

\* A TCP connection is cleaned up at end and by destroy, a WebSocket one at
\* error; close follows each and cleans up again.
Leave(c) ==
  /\ socket[c] = "open"
  /\ RemoveConnection(c)
  /\ socket' = [socket EXCEPT ![c] = "left"]
  /\ UNCHANGED <<stray, heard>>
Close(c) ==
  /\ socket[c] # "closed"
  /\ RemoveConnection(c)
  /\ socket' = [socket EXCEPT ![c] = "closed"]
  /\ UNCHANGED <<stray, heard>>

\* The connections PUBLISH writes to: one message per direct subscription and
\* one per matching pattern.
Receivers(ch) ==
  {p \in Conn \X Topic : p[1] \in index[p[2]] /\ (p[2] = ch \/ <<p[2], ch>> \in Matches)}
Publish(ch) ==
  /\ heard' = Receivers(ch)
  /\ UNCHANGED <<index, own, socket, stray>>

BrokerNext ==
  \/ \E c \in Conn, S \in SUBSET Channel \ {{}} : Subscribe(c, S) \/ Unsubscribe(c, S)
  \/ \E c \in Conn, S \in SUBSET Pattern \ {{}} : Psubscribe(c, S) \/ Punsubscribe(c, S)
  \/ \E c \in Conn :
       UnsubscribeAll(c) \/ PunsubscribeAll(c) \/ Reset(c) \/ Leave(c) \/ Close(c)
  \/ \E ch \in Channel : Publish(ch)

BrokerSpec == BrokerInit /\ [][BrokerNext]_brokerVars

-----------------------------------------------------------------------------
BrokerTypeOK ==
  /\ index \in [Topic -> SUBSET Conn]
  /\ own \in [Conn -> SUBSET Topic]
  /\ socket \in [Conn -> {"open", "left", "closed"}]
  /\ stray \in SUBSET (Conn \X Topic)
  /\ heard \in SUBSET (Conn \X Topic)

\* The broker's sets and the connections' own sets name the same pairs, but
\* for the channels RESET made a connection forget: those it stays in.
IndexExact ==
  \A c \in Conn, t \in Topic : c \in index[t] <=> t \in own[c] \/ <<c, t>> \in stray

\* A connection that has left is in no channel and no pattern, so PUBLISH
\* neither writes to it nor counts it, unless a RESET hid the channel from
\* removeConnection; a RESET never hides a pattern.
LeftIsForgotten ==
  \A c \in Conn : socket[c] # "open" =>
    /\ \A t \in Pattern : c \notin index[t]
    /\ \A t \in Channel : c \in index[t] => <<c, t>> \in stray
=============================================================================
