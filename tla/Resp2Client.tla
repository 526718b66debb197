---------------------------- MODULE Resp2Client ----------------------------
(***************************************************************************)
(* The desktop's RESP client (desktop/src/main/resp2/client.ts) over one   *)
(* server: the connect handshake, the queue that pairs replies with        *)
(* requests by their order alone, SELECT and the database it believes to   *)
(* be in, disconnect, and the reconnect timer.                             *)
(*                                                                         *)
(* The server is the environment: it answers every command in order, and   *)
(* on a connection that has subscribed it also pushes messages nobody      *)
(* asked for.  A TCP link delivers in order and may break anywhere, within *)
(* a reply too.  A link carries whole replies here, and `half` says        *)
(* whether the parser holds the first bytes of one.                        *)
(***************************************************************************)
EXTENDS Naturals, Sequences

CONSTANTS
  UserDb,        \* the databases the user selects; 0 is every connection's first
  MaxRequests,   \* bound of the model on the requests of the user
  MaxPushes,     \* bound of the model on the messages pushed
  MaxConnects    \* bound of the model on the connections made

VARIABLES
  options,     \* password set or not, db, autoReconnect
  sock,        \* _socket: none, connecting, open, or closed (destroyed)
  phase,       \* _connected and _ready: down; auth, select (connected); ready
  destroyed,   \* _destroyed
  timer,       \* _reconnectTimer armed
  attempts,    \* _reconnectAttempts
  pending,     \* _queue
  currentDb,   \* _currentDb
  half,        \* bytes of an incomplete reply in _parser: none, current, old
  toServer,    \* commands on the wire
  toClient,    \* replies and pushes on the wire
  serverDb,    \* the database of the server's end of the connection
  listening,   \* the server's end has subscribed
  outcome,     \* history: request -> unsent, waiting, own, other, failed
  subscribed,  \* history: a subscription was sent
  carried,     \* history: a connection began behind the bytes of an old reply
  trusted,     \* history: currentDb is meant to be serverDb
  pushes, connects   \* counters for the bounds

clientVars == <<options, sock, phase, destroyed, timer, attempts, pending, currentDb, half,
                toServer, toClient, serverDb, listening, outcome, subscribed, carried, trusted,
                pushes, connects>>
clientLink == <<toServer, toClient, serverDb, listening>>

Request == 1..MaxRequests
Connected == phase \in {"auth", "select", "ready"}

\* A command: what it does, the database of a SELECT, and the request of the
\* user it is, or 0 in the handshake.
Command(op, db, n) == [op |-> op, db |-> db, n |-> n]

\* What travels back: the command it answers, whether it is an Error, and
\* whether it is more than the one reply that command is waiting for.
Reply(cmd, ok, extra) == [cmd |-> cmd, ok |-> ok, extra |-> extra]
Unasked == Command("none", 0, 0)

\* The profiles of the connection manager, which reconnect, and the options
\* of the pub/sub panel, which do not.
Profiles == [password : BOOLEAN, db : {0, 1}, autoReconnect : {TRUE}]
PanelOptions == [password |-> FALSE, db |-> 0, autoReconnect |-> FALSE]

ClientInit ==
  /\ options \in Profiles \cup {PanelOptions}
  /\ sock = "none" /\ phase = "down"
  /\ destroyed = FALSE /\ timer = FALSE /\ attempts = 0
  /\ pending = <<>> /\ currentDb = 0 /\ half = "none"
  /\ toServer = <<>> /\ toClient = <<>> /\ serverDb = 0 /\ listening = FALSE
  /\ outcome = [n \in Request |-> "unsent"]
  /\ subscribed = FALSE /\ carried = FALSE /\ trusted = TRUE
  /\ pushes = 0 /\ connects = 0

-----------------------------------------------------------------------------
\* Pieces several handlers share.

\* The outcomes when every queued request is rejected.
AllRejected == [n \in Request |-> IF outcome[n] = "waiting" THEN "failed" ELSE outcome[n]]

\* A new socket: nothing is on the wire, and the server's end starts in database 0.
FreshLink ==
  /\ toServer' = <<>> /\ toClient' = <<>>
  /\ serverDb' = 0 /\ listening' = FALSE

\* connect(), by the manager or by the timer. The parser keeps what it holds.
OpenSocket ==
  /\ connects < MaxConnects
  /\ connects' = connects + 1
  /\ sock' = "connecting"
  /\ FreshLink
  /\ carried' = (carried \/ half # "none")
  /\ UNCHANGED subscribed

\* The socket is given up and every request rejected; toServer and toClient go with it.
\* KeepsQueue leaves the requests in the queue, ForgetsQueue does not reject them.
KeepsQueue == UNCHANGED <<pending, outcome>> /\ FreshLink
ForgetsQueue == pending' = <<>> /\ UNCHANGED outcome /\ FreshLink
DropLink ==
  /\ pending' = <<>>
  /\ outcome' = AllRejected
  /\ FreshLink

\* disconnect(), also the catch of the handshake. DestroySocket forgets the timer.
DestroySocket ==
  /\ destroyed' = TRUE /\ phase' = "down" /\ sock' = "none" /\ half' = "none"
  /\ DropLink /\ UNCHANGED timer
Destroy ==
  /\ destroyed' = TRUE
  /\ phase' = "down"
  /\ timer' = FALSE
  /\ sock' = "none"
  /\ half' = "none"
  /\ DropLink

\* The handshake goes on after `step`; what it sends is queued behind what was
\* sent before the link was up.
Handshake(step) ==
  LET next == IF step = "connect" /\ options.password THEN "auth"
              ELSE IF step # "select" /\ options.db > 0 THEN "select"
              ELSE "ready"
      sends == IF next = "ready" THEN <<>> ELSE <<Command(next, options.db, 0)>>
  IN /\ phase' = next
     /\ toServer' = toServer \o sends
     /\ pending' = (IF step = "connect" THEN pending ELSE Tail(pending)) \o sends

-----------------------------------------------------------------------------
\* connect() as called by the connection manager and the pub/sub panel, once.
Connect ==
  /\ sock = "none" /\ ~destroyed
  /\ OpenSocket
  /\ UNCHANGED <<options, phase, destroyed, timer, attempts, pending, currentDb, half,
                 outcome, trusted, pushes>>

TcpConnected ==
  /\ sock = "connecting"
  /\ sock' = "open"
  /\ attempts' = 0
  /\ Handshake("connect")
  /\ UNCHANGED <<options, destroyed, timer, currentDb, half, toClient, serverDb, listening,
                 outcome, subscribed, carried, trusted, pushes, connects>>

\* The link does not come up, by the connect timeout or by an error: close
\* follows, finds _connected false, and schedules nothing.
ConnectFails ==
  /\ sock = "connecting"
  /\ sock' = "closed"
  /\ DropLink
  /\ UNCHANGED <<options, phase, destroyed, timer, attempts, currentDb, half, subscribed, carried,
                 trusted, pushes, connects>>

\* The link breaks or the server closes it. The requests are rejected; a
\* rejected step of the handshake disconnects for good, and otherwise
\* _scheduleReconnect arms the timer.
LinkBreaks ==
  /\ sock = "open"
  /\ IF phase \in {"auth", "select"}
     THEN Destroy /\ attempts' = attempts + (IF options.autoReconnect THEN 1 ELSE 0)
     ELSE /\ sock' = "closed"
          /\ phase' = "down"
          /\ DropLink
          /\ half' = (IF half = "none" THEN "none" ELSE "old")
          /\ timer' = options.autoReconnect
          /\ attempts' = attempts + (IF options.autoReconnect THEN 1 ELSE 0)
          /\ UNCHANGED destroyed
  /\ UNCHANGED <<options, currentDb, subscribed, carried, trusted, pushes, connects>>

\* The reconnect timer; a failure of this connect() is swallowed.
TimerFires ==
  /\ timer
  /\ timer' = FALSE
  /\ OpenSocket
  /\ trusted' = (options.db > 0)
  /\ UNCHANGED <<options, phase, destroyed, attempts, pending, currentDb, half, outcome, pushes>>

Disconnect ==
  /\ sock # "none"
  /\ Destroy
  /\ UNCHANGED <<options, attempts, currentDb, subscribed, carried, trusted, pushes, connects>>

-----------------------------------------------------------------------------
\* _sendRaw: queued and written, as soon as there is a socket.
SendRaw(n, op, db) ==
  /\ outcome[n] = "unsent" /\ \A m \in 1..(n - 1) : outcome[m] # "unsent"
  /\ IF sock \in {"connecting", "open"}
     THEN /\ pending' = Append(pending, Command(op, db, n))
          /\ toServer' = Append(toServer, Command(op, db, n))
          /\ outcome' = [outcome EXCEPT ![n] = "waiting"]
          /\ subscribed' = (subscribed \/ op = "subscribe")
          /\ trusted' = (trusted /\ op # "console")
     ELSE /\ outcome' = [outcome EXCEPT ![n] = "failed"]
          /\ UNCHANGED <<pending, toServer, subscribed, trusted>>
  /\ UNCHANGED <<options, sock, phase, destroyed, timer, attempts, currentDb, half, toClient,
                 serverDb, listening, carried, pushes, connects>>

\* What the user asks for: any command; selectDb; a SELECT typed in the console,
\* which selectDb does not see; SUBSCRIBE.
Ask(n) ==
  \/ SendRaw(n, "get", 0)
  \/ SendRaw(n, "subscribe", 0)
  \/ \E d \in UserDb : SendRaw(n, "selectDb", d) \/ SendRaw(n, "console", d)

\* The server answers the oldest command. A subscription to two channels is
\* answered twice.
ServerAnswers ==
  /\ sock = "open" /\ toServer # <<>>
  /\ LET cmd == Head(toServer)
         selects == cmd.op \in {"select", "selectDb", "console"}
     IN \E ok \in IF selects \/ cmd.op = "auth" THEN BOOLEAN ELSE {TRUE},
           more \in IF cmd.op = "subscribe" THEN BOOLEAN ELSE {FALSE} :
          /\ toServer' = Tail(toServer)
          /\ toClient' = toClient \o <<Reply(cmd, ok, FALSE)>>
                         \o (IF more THEN <<Reply(cmd, ok, TRUE)>> ELSE <<>>)
          /\ serverDb' = (IF selects /\ ok THEN cmd.db ELSE serverDb)
          /\ listening' = (listening \/ cmd.op = "subscribe")
  /\ UNCHANGED <<options, sock, phase, destroyed, timer, attempts, pending, currentDb, half,
                 outcome, subscribed, carried, trusted, pushes, connects>>

ServerPushes ==
  /\ sock = "open" /\ listening
  /\ pushes < MaxPushes
  /\ pushes' = pushes + 1
  /\ toClient' = Append(toClient, Reply(Unasked, TRUE, TRUE))
  /\ UNCHANGED <<options, sock, phase, destroyed, timer, attempts, pending, currentDb, half,
                 toServer, serverDb, listening, outcome, subscribed, carried, trusted, connects>>

-----------------------------------------------------------------------------
\* The first bytes of a reply arrive; the parser keeps them.
HalfArrives ==
  /\ sock = "open" /\ toClient # <<>> /\ half = "none"
  /\ half' = "current"
  /\ UNCHANGED <<options, sock, phase, destroyed, timer, attempts, pending, currentDb,
                 clientLink, outcome, subscribed, carried, trusted, pushes, connects>>

\* A SELECT the client sent itself was answered +OK. AnySelect takes any answer for it.
AnySelect(v, p) == p.op \in {"select", "selectDb"}
Selected(v, p) == v.ok /\ p.op \in {"select", "selectDb"}

\* One parsed value goes to the oldest request, whoever it answers, and what
\* awaited that request goes on.
Resolve(v) ==
  LET p == Head(pending)
      mine == v.cmd = p /\ ~v.extra
  IN /\ outcome' = [n \in Request |-> IF n # p.n THEN outcome[n]
                                     ELSE IF mine THEN "own" ELSE "other"]
     /\ IF p.op \in {"auth", "select"} THEN Handshake(p.op)
        ELSE pending' = Tail(pending) /\ UNCHANGED <<phase, toServer>>
     /\ IF Selected(v, p)
        THEN /\ currentDb' = p.db
             /\ trusted' = (mine /\ \A i \in DOMAIN pending : pending[i].op # "console")
        ELSE UNCHANGED <<currentDb, trusted>>
     /\ toClient' = Tail(toClient)
     /\ half' = "none"
     /\ UNCHANGED <<sock, destroyed, timer, serverDb, listening>>

\* A value nobody waits for is emitted as 'message'.
Emit ==
  /\ toClient' = Tail(toClient)
  /\ half' = "none"
  /\ UNCHANGED <<sock, phase, destroyed, timer, pending, currentDb, toServer, serverDb,
                 listening, outcome, trusted>>

\* An error answer to AUTH or to the first SELECT throws: disconnect().
Refused(v) == ~v.ok /\ Head(pending).op \in {"auth", "select"}
GivesUp == Destroy /\ UNCHANGED <<currentDb, trusted>>

TakeValue(v) ==
  IF pending = <<>> THEN Emit
  ELSE IF Refused(v) THEN GivesUp
  ELSE Resolve(v)

\* _onData for the rest of a reply. Behind the bytes an old connection left, a
\* reply comes out as one garbled value, or disappears into it altogether.
Arrives ==
  /\ sock = "open" /\ toClient # <<>>
  /\ IF half # "old" THEN TakeValue(Head(toClient))
     ELSE \/ \E ok \in BOOLEAN : TakeValue(Reply(Unasked, ok, TRUE))
          \/ /\ toClient' = Tail(toClient)
             /\ UNCHANGED <<sock, phase, destroyed, timer, pending, currentDb, half, toServer,
                            serverDb, listening, outcome, trusted>>
  /\ UNCHANGED <<options, attempts, subscribed, carried, pushes, connects>>

ClientNext ==
  \/ Connect \/ TcpConnected \/ ConnectFails \/ LinkBreaks \/ TimerFires \/ Disconnect
  \/ \E n \in Request : Ask(n)
  \/ ServerAnswers \/ ServerPushes
  \/ HalfArrives \/ Arrives

\* The connect timeout bounds TcpConnected or ConnectFails; the server answers
\* what it reads, and TCP delivers it.
ClientFairness ==
  /\ WF_clientVars(TcpConnected \/ ConnectFails)
  /\ WF_clientVars(ServerAnswers)
  /\ WF_clientVars(Arrives)

ClientSpec == ClientInit /\ [][ClientNext]_clientVars /\ ClientFairness

-----------------------------------------------------------------------------
\* The queue pairs by order alone, yet no request is ever resolved with the
\* answer to another one, through broken links and reconnects: unless the user
\* subscribed on this client, or a link broke inside a reply and its first bytes
\* stayed in the parser.
OwnReplies == ~subscribed /\ ~carried => \A n \in Request : outcome[n] # "other"

\* With no SELECT on the way, the client believes to be in the database its
\* connection is in. It is not after a SELECT typed in the console, nor after a
\* reconnect without a configured database, which keeps the old currentDb.
BelievedDb ==
  (trusted /\ ~subscribed /\ ~carried /\ phase = "ready"
     /\ \A i \in DOMAIN pending : pending[i].op # "selectDb") => currentDb = serverDb

\* After disconnect() no timer, late connect or late reply brings the client
\* back, and nothing waits.
DestroyedIsFinal ==
  destroyed => /\ ~Connected /\ ~timer /\ sock = "none"
               /\ \A n \in Request : outcome[n] # "waiting"

\* Every request is settled, although the client has no timeout for it: by its
\* answer, or by the end of the link. One that a broken reply swallowed waits.
EverySettled ==
  \A n \in Request : outcome[n] = "waiting" ~> outcome[n] # "waiting" \/ carried
=============================================================================
