------------------------------ MODULE WebConsole ------------------------------
(***************************************************************************)
(* The web console (frontend/app.js) and the WebSocket bridge that answers *)
(* it (bridge.js).  A socket is numbered in the order of doConnect; the    *)
(* bridge keeps one database per socket and answers a socket's commands in *)
(* the order they came.  The page has one variable ws, one table of        *)
(* callbacks and one key list, whatever number of sockets is still alive.  *)
(***************************************************************************)
EXTENDS Integers, Sequences, FiniteSets

CONSTANTS
  ConsoleDb,    \* databases the user selects, 0 among them
  Bucket,       \* keys are numbered by their SCAN bucket: 0..Bucket - 1
  FirstKeys,    \* what the databases may hold at first
  MaxActs       \* bound of the model on the user's actions, doConnect among them

NoKey == -1

VARIABLES
  stored,     \* the keys of every database of the server
  ws,         \* the page's socket, 0 for null
  sockets,    \* every socket: its state, the bridge's client.db, the messages under way
  msgId,      \* msgId
  pendingCallbacks,   \* pendingCallbacks
  shownDb,    \* currentDb
  status,     \* what the status badge shows
  statsOn,    \* statsInterval # null
  polls,      \* intervals that really run
  list,       \* the items of els.keyList
  inspected,  \* activeInspectKey
  dialog,     \* the danger dialog is shown (pendingDangerCommand is always null)
  acts,       \* user actions so far
  disturbed   \* the user acted before an answer was in or saved an unlisted key, or was refused

consoleVars == <<stored, ws, sockets, msgId, pendingCallbacks, shownDb, status, statsOn, polls,
                 list, inspected, dialog, acts, disturbed>>

ConsoleKey == 0..(Bucket - 1)

ASSUME ConsoleAssumption ==
  0 \in ConsoleDb /\ Bucket \in Nat /\ FirstKeys \subseteq [ConsoleDb -> SUBSET ConsoleKey]

ConsoleInit ==
  /\ stored \in FirstKeys
  /\ ws = 0 /\ sockets = <<>> /\ msgId = 0 /\ pendingCallbacks = <<>>
  /\ shownDb = 0 /\ status = "Disconnected" /\ statsOn = FALSE /\ polls = 0
  /\ list = <<>> /\ inspected = NoKey /\ dialog = FALSE
  /\ acts = 0 /\ disturbed = FALSE

-----------------------------------------------------------------------------
\* A command with the callback that waits for its answer, and the socket it went by.
Cmd(op, arg, then, info) == [op |-> op, arg |-> arg, then |-> then, info |-> info]

Ready(socks) == ws # 0 /\ socks[ws].state = "open"

\* The id of the n-th command sent from now on (++msgId). IdAfter is msgId++.
IdAfter(n) == msgId + n - 1
Id(n) == msgId + n

\* sendCommand, once for every command of asks: nothing at all when ws is not open.
Send(socks, calls, asks) ==
  IF Ready(socks)
    THEN /\ sockets' = [socks EXCEPT ![ws].inbox =
                       @ \o [n \in 1..Len(asks) |->
                              [id |-> Id(n), op |-> asks[n].op, arg |-> asks[n].arg]]]
         /\ LET new == {Id(n) : n \in 1..Len(asks)}
                Asked(i) == asks[CHOOSE n \in 1..Len(asks) : Id(n) = i]
            IN  pendingCallbacks' = [i \in DOMAIN calls \cup new |->
                  IF i \notin new THEN calls[i]
                  ELSE [op |-> Asked(i).op, arg |-> Asked(i).arg, then |-> Asked(i).then,
                        info |-> Asked(i).info, via |-> ws]]
         /\ msgId' = msgId + Len(asks)
    ELSE sockets' = socks /\ pendingCallbacks' = calls /\ UNCHANGED msgId

Scan(cursor, keys) == <<Cmd("SCAN", cursor, "scanned", keys)>>
refreshKeys == Scan(0, {})
inspectKey(k) == <<Cmd("TTL", k, "shown", k), Cmd("GET", k, "shown", k)>>

\* renderKeyList: an empty list, then one item per TYPE answer.
Ascending(keys) == [n \in 1..Cardinality(keys) |->
                      CHOOSE k \in keys : Cardinality({j \in keys : j < k}) = n - 1]
Types(keys) == [n \in 1..Cardinality(keys) |-> Cmd("TYPE", Ascending(keys)[n], "typed", 0)]

Quiet == ws # 0 => sockets[ws].inbox = <<>> /\ sockets[ws].outbox = <<>>
Gone(s) == sockets[s].state = "closed"

\* Every action of the user, with whether it came too early to be told apart, or is
\* set apart for a reason of its own.
Act(apart) ==
  /\ acts < MaxActs /\ acts' = acts + 1
  /\ disturbed' = (disturbed \/ ~Quiet \/ apart)

-----------------------------------------------------------------------------
\* doConnect: Enter in the login form opens another socket while one is connecting.
doConnect ==
  /\ acts < MaxActs /\ acts' = acts + 1
  /\ status = "Disconnected"
  /\ sockets' = Append(sockets, [state |-> "connecting", db |-> 0, chose |-> FALSE,
                           inbox |-> <<>>, outbox |-> <<>>])
  /\ ws' = Len(sockets) + 1
  /\ disturbed' = (disturbed \/ \E s \in DOMAIN sockets : ~Gone(s))
  /\ UNCHANGED <<stored, msgId, pendingCallbacks, shownDb, status, statsOn, polls, list, inspected,
                 dialog>>

\* ws.onopen, without the AUTH of a login with a password, and enterDashboard.
\* The interval of an earlier dashboard is not cleared.
onopen(s) ==
  /\ sockets[s].state = "connecting"
  /\ status' = "Connected"
  /\ Send([sockets EXCEPT ![s].state = "open"], pendingCallbacks, refreshKeys)
  /\ statsOn' = TRUE /\ polls' = polls + 1
  /\ UNCHANGED <<stored, ws, shownDb, list, inspected, dialog, acts, disturbed>>

\* setDisconnected, whichever socket asked for it. DisconnectedOnly forgets the interval.
DisconnectedOnly ==
  /\ status' = "Disconnected" /\ ws' = 0
  /\ UNCHANGED <<statsOn, polls>>
setDisconnected ==
  /\ status' = "Disconnected" /\ ws' = 0 /\ statsOn' = FALSE
  /\ polls' = IF statsOn THEN polls - 1 ELSE polls

doDisconnect ==
  /\ status = "Connected" /\ Act(FALSE)
  /\ sockets' = IF ws = 0 \/ sockets[ws].state = "closed" THEN sockets
             ELSE [sockets EXCEPT ![ws].state = "closing"]
  /\ setDisconnected
  /\ UNCHANGED <<stored, msgId, pendingCallbacks, shownDb, list, inspected, dialog>>

\* ws.onclose of any socket: refused, closed by the page, or lost.
onclose(s) ==
  /\ ~Gone(s)
  /\ sockets' = [sockets EXCEPT ![s].state = "closed", ![s].inbox = <<>>, ![s].outbox = <<>>]
  /\ setDisconnected
  /\ UNCHANGED <<stored, msgId, pendingCallbacks, shownDb, list, inspected, dialog, acts, disturbed>>

-----------------------------------------------------------------------------
\* SCAN from a bucket: the keys of the first one in use, and the bucket after it.
Page(db, cursor) ==
  LET ahead == {k \in stored[db] : k >= cursor}
      key == CHOOSE k \in ahead : \A j \in ahead : k <= j
  IN  IF ahead = {} THEN [next |-> 0, keys |-> {}]
      ELSE [next |-> IF key + 1 < Bucket THEN key + 1 ELSE 0, keys |-> {key}]

Answered(s, m, answer, result) ==
  [sockets EXCEPT ![s].inbox = Tail(@),
               ![s].outbox = Append(@, [id |-> m.id, op |-> m.op, arg |-> m.arg,
                                        answer |-> answer, result |-> result])]

\* _handleMessage of the next message of a socket that is not closed. FLUSHDB is a
\* dangerous command: without msg.confirmed the gateway asks for a confirmation. A
\* refusal of the gateway is modelled while nothing else disturbed the page.
Handle(s) ==
  /\ sockets[s].inbox # <<>>
  /\ LET m == Head(sockets[s].inbox)
         db == sockets[s].db
     IN  \/ /\ m.op # "FLUSHDB" /\ ~disturbed
            /\ sockets' = Answered(s, m, "error", 0)
            /\ disturbed' = TRUE /\ UNCHANGED stored
         \/ /\ m.op = "SCAN"
            /\ sockets' = Answered(s, m, "ok", Page(db, m.arg))
            /\ UNCHANGED <<stored, disturbed>>
         \/ /\ m.op \in {"TYPE", "TTL", "GET", "EXPIRE"}
            /\ sockets' = Answered(s, m, "ok", 0)
            /\ UNCHANGED <<stored, disturbed>>
         \/ /\ m.op = "SELECT"
            /\ sockets' = [Answered(s, m, "ok", 0) EXCEPT ![s].db = m.arg, ![s].chose = TRUE]
            /\ UNCHANGED <<stored, disturbed>>
         \/ /\ m.op \in {"SET", "DEL"}
            /\ stored' = [stored EXCEPT ![db] =
                            IF m.op = "SET" THEN @ \cup {m.arg} ELSE @ \ {m.arg}]
            /\ sockets' = Answered(s, m, "ok", 0)
            /\ UNCHANGED disturbed
         \/ /\ m.op = "FLUSHDB"
            /\ sockets' = Answered(s, m, "confirm", 0)
            /\ UNCHANGED <<stored, disturbed>>
  /\ UNCHANGED <<ws, msgId, pendingCallbacks, shownDb, status, statsOn, polls, list, inspected,
                 dialog, acts>>

-----------------------------------------------------------------------------
\* renderKeyList clears the list before it asks for the types. RenderedOnTop does not.
RenderedOnTop(keys) == list
Rendered(keys) == <<>>

\* What the callback of a command sends, and what it does to the list, the shown
\* database and the inspected key.
Effect(call, msg) ==
  LET none == [sends |-> <<>>, list |-> list, db |-> shownDb, key |-> inspected]
      keys == IF msg.answer = "ok" /\ msg.op = "SCAN" THEN call.info \cup msg.result.keys
              ELSE call.info
  IN  CASE call.then = "scanned" ->
             IF msg.answer = "ok" /\ msg.result.next # 0
               THEN [none EXCEPT !.sends = Scan(msg.result.next, keys)]
               ELSE [none EXCEPT !.sends = Types(keys), !.list = Rendered(keys)]
        [] call.then = "typed" -> [none EXCEPT !.list = Append(list, call.arg)]
        [] call.then = "refresh" -> [none EXCEPT !.sends = refreshKeys]
        [] call.then = "selected" -> [none EXCEPT !.sends = refreshKeys, !.db = call.arg]
        [] call.then = "deleted" -> [none EXCEPT !.sends = refreshKeys, !.key = NoKey]
        [] call.then = "created" ->
             IF msg.answer = "error" THEN none
             ELSE [none EXCEPT !.sends = refreshKeys \o inspectKey(call.arg), !.key = call.arg]
        [] call.then = "expires" ->
             IF msg.answer = "error" THEN none
             ELSE [none EXCEPT !.sends = <<Cmd("EXPIRE", call.arg, "expired", 0)>>]
        [] call.then = "expired" ->
             [none EXCEPT !.sends = refreshKeys \o inspectKey(call.arg), !.key = call.arg]
        [] call.then = "edited" ->
             [none EXCEPT !.sends = inspectKey(call.arg), !.key = call.arg]
        [] OTHER -> none

\* ws.onmessage: browsers deliver nothing once close() was called. The dialog is
\* given msg.command, which the bridge does not send: there is nothing to confirm.
onmessage(s) ==
  /\ sockets[s].state = "open" /\ sockets[s].outbox # <<>>
  /\ LET msg == Head(sockets[s].outbox)
         socks == [sockets EXCEPT ![s].outbox = Tail(@)]
         rest == [i \in DOMAIN pendingCallbacks \ {msg.id} |-> pendingCallbacks[i]]
     IN  \/ /\ msg.answer = "confirm"
            /\ dialog' = TRUE /\ sockets' = socks
            /\ UNCHANGED <<msgId, pendingCallbacks, list, shownDb, inspected>>
         \/ /\ msg.answer # "confirm"
            /\ IF msg.id # 0 /\ msg.id \in DOMAIN pendingCallbacks
                 THEN LET effect == Effect(pendingCallbacks[msg.id], msg)
                      IN  /\ Send(socks, rest, effect.sends)
                          /\ list' = effect.list /\ shownDb' = effect.db
                          /\ inspected' = effect.key
                 ELSE /\ sockets' = socks
                      /\ UNCHANGED <<msgId, pendingCallbacks, list, shownDb, inspected>>
            /\ UNCHANGED dialog
  /\ UNCHANGED <<stored, ws, status, statsOn, polls, acts, disturbed>>

-----------------------------------------------------------------------------
Gesture(asks, apart) ==
  /\ status = "Connected" /\ Act(apart)
  /\ Send(sockets, pendingCallbacks, asks)
  /\ UNCHANGED <<stored, ws, status, statsOn, polls, list>>
UserSends(asks) == Gesture(asks, FALSE)

\* onDbChange shows the database before the server has it.
onDbChange(db) ==
  /\ UserSends(<<Cmd("SELECT", db, "refresh", 0)>>)
  /\ shownDb' = db /\ UNCHANGED <<inspected, dialog>>

\* onTerminalKey: SELECT, a write, or a command that wants confirmation.
onTerminalKey ==
  /\ \/ \E db \in ConsoleDb : UserSends(<<Cmd("SELECT", db, "selected", 0)>>)
     \/ \E k \in ConsoleKey : UserSends(<<Cmd("DEL", k, "refresh", 0)>>)
     \/ UserSends(<<Cmd("FLUSHDB", 0, "refresh", 0)>>)
  /\ UNCHANGED <<shownDb, inspected, dialog>>

onRefresh == UserSends(refreshKeys) /\ UNCHANGED <<shownDb, inspected, dialog>>

\* A click on an item of the list.
onInspect ==
  \E n \in DOMAIN list :
    /\ UserSends(inspectKey(list[n]))
    /\ inspected' = list[n] /\ UNCHANGED <<shownDb, dialog>>

handleDeleteCurrentKey ==
  /\ inspected # NoKey
  /\ UserSends(<<Cmd("DEL", inspected, "deleted", 0)>>)
  /\ UNCHANGED <<shownDb, inspected, dialog>>

\* With a TTL the new key is given it before the list is read again.
handleCreateKey(k) ==
  /\ \E then \in {"created", "expires"} : UserSends(<<Cmd("SET", k, then, 0)>>)
  /\ UNCHANGED <<shownDb, inspected, dialog>>

\* The list is not read again. The key need not be in it: onDbChange leaves the
\* inspected key of another database, and the terminal deletes keys.
Unlisted == \A n \in DOMAIN list : list[n] # inspected
handleSaveEditKey ==
  /\ inspected # NoKey
  /\ Gesture(<<Cmd("SET", inspected, "edited", 0)>>, Unlisted)
  /\ UNCHANGED <<shownDb, inspected, dialog>>

\* closeDangerModal; executePendingDangerCommand returns, for want of a command.
closeDangerModal ==
  /\ dialog /\ dialog' = FALSE
  /\ UNCHANGED <<stored, ws, sockets, msgId, pendingCallbacks, shownDb, status, statsOn, polls, list,
                 inspected, acts, disturbed>>

ConsoleNext ==
  \/ doConnect \/ doDisconnect \/ onRefresh \/ onInspect \/ onTerminalKey
  \/ handleDeleteCurrentKey \/ handleSaveEditKey \/ closeDangerModal
  \/ \E db \in ConsoleDb : onDbChange(db)
  \/ \E k \in ConsoleKey : handleCreateKey(k)
  \/ \E s \in DOMAIN sockets : onopen(s) \/ onclose(s) \/ Handle(s) \/ onmessage(s)

ConsoleSpec == ConsoleInit /\ [][ConsoleNext]_consoleVars

-----------------------------------------------------------------------------
\* Every callback that waits on an open socket waits for exactly one message, which
\* is under way and answers the very command it was registered with, and every message
\* meets its callback; the exception is a command whose confirmation was asked for,
\* which is never called back. It holds through reconnections, late closes and
\* overlapping requests.
CallbacksRouted ==
  \A s \in DOMAIN sockets : sockets[s].state = "open" =>
    LET calls == pendingCallbacks
        owed == {i \in DOMAIN calls : calls[i].via = s /\ calls[i].op # "FLUSHDB"}
        way == sockets[s].outbox \o sockets[s].inbox
        mine == {n \in DOMAIN way : way[n].op # "FLUSHDB"}
    IN  /\ {way[n].id : n \in mine} = owed
        /\ \A m, n \in mine : way[m].id = way[n].id => m = n
        /\ \A n \in mine :
             way[n].op = calls[way[n].id].op /\ way[n].arg = calls[way[n].id].arg

\* A user who waits for the answers, saves no key that the list does not show and is
\* refused nothing sees what the server holds:
\* once nothing is under way the list shows every key of the database that this socket
\* has selected, each once and in order, the prompt names that database unless
\* nothing was selected since the socket opened, and a dashboard that shows
\* Disconnected polls nothing.
PatientUserSeesServer ==
  ~disturbed /\ Quiet =>
    /\ status = "Disconnected" => polls = 0
    /\ status = "Connected" =>
         /\ sockets[ws].state = "open" /\ polls = 1
         /\ list = Ascending(stored[sockets[ws].db])
         /\ sockets[ws].chose => shownDb = sockets[ws].db
===============================================================================
