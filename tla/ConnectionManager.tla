------------------------- MODULE ConnectionManager -------------------------
(***************************************************************************)
(* The owners of the desktop's RESP clients: the connection manager        *)
(* (connection-manager.ts), which holds one client per profile and tells   *)
(* the window its status, and the pub/sub panel (ipc/pubsub.ts), which     *)
(* keeps a client of its own.  Which of the two it is, options say: only   *)
(* the manager's clients reconnect.                                        *)
(*                                                                         *)
(* The window asks for one connection at a time (ConnectionDialog.tsx      *)
(* disables its buttons while connect() is out), and a new client replaces *)
(* the old one, so the state of Resp2Client is that of the latest client.  *)
(***************************************************************************)
EXTENDS Resp2Client

VARIABLES
  held,      \* _client, pubsubClient: not null
  call,      \* the promise of connect(): none, pending, ok or failed
  shown,     \* what the window was last told of `connected`
  refused    \* history: the server refused a handshake since the window was told

managerVars == <<held, call, shown, refused>>
ownerVars == <<clientVars, managerVars>>

ManagerInit ==
  /\ ClientInit
  /\ held = FALSE /\ call = "none" /\ shown = FALSE /\ refused = FALSE

Managed == options.autoReconnect

-----------------------------------------------------------------------------
\* connect(profile), and the first subscribe of the panel: an old client is
\* disconnected, which tells the window; then the new one connects.
ManagerConnect ==
  /\ call # "pending"
  /\ ~Managed => ~held
  /\ options' \in IF Managed THEN Profiles ELSE {PanelOptions}
  /\ OpenSocket
  /\ phase' = "down" /\ destroyed' = FALSE /\ timer' = FALSE /\ attempts' = 0
  /\ pending' = <<>> /\ outcome' = AllRejected
  /\ currentDb' = 0 /\ half' = "none" /\ trusted' = TRUE
  /\ held' = TRUE /\ call' = "pending"
  /\ IF held THEN shown' = FALSE /\ refused' = FALSE ELSE UNCHANGED <<shown, refused>>
  /\ UNCHANGED pushes

\* How the step of the client settles connect(): resolved when ready, rejected
\* when the socket is given up, and then the manager lets the client go without
\* a word to the window. The panel keeps its dead client.
Settle ==
  /\ call' = (IF call # "pending" THEN call
              ELSE IF phase' = "ready" THEN "ok"
              ELSE IF sock' \in {"none", "closed"} THEN "failed" ELSE "pending")
  /\ held' = (held /\ ~(Managed /\ call' = "failed"))

\* _notifyStatus, on connect, ready and disconnect events of the client.
Notify(connected) == shown' = connected /\ refused' = FALSE
Silent == UNCHANGED <<shown, refused>>

LinkUp == TcpConnected /\ Settle /\ Notify(TRUE)
\* SilentDown breaks the link without telling the window.
SilentDown == LinkBreaks /\ Settle /\ Silent
LinkDown == LinkBreaks /\ Settle /\ Notify(FALSE)

\* The connect timeout rejects. An error is emitted first: nobody listens on
\* the panel's client, so emit throws and reject is never reached.
TimesOut == ConnectFails /\ Settle /\ Silent
ConnectError ==
  /\ ConnectFails
  /\ IF Managed THEN Settle ELSE UNCHANGED <<call, held>>
  /\ Silent

\* A reply ends the handshake: ready is told to the window, a refusal is not.
Arrive ==
  /\ Arrives
  /\ Settle
  /\ IF phase' = "ready" /\ phase # "ready" THEN Notify(TRUE)
     ELSE shown' = shown /\ refused' = (refused \/ (destroyed' /\ ~destroyed))

\* disconnect() of the manager tells the window; the panel's does not.
LetGo ==
  /\ held /\ (Managed => call # "pending")
  /\ \/ sock # "none" /\ Disconnect
     \/ sock = "none" /\ UNCHANGED clientVars
  /\ held' = FALSE
  /\ call' = "none"
  /\ Notify(FALSE)

\* execute() of the manager insists on ready, the panel on having a client.
ExecuteCall(n) ==
  /\ held /\ (Managed => phase = "ready")
  /\ Ask(n)
  /\ UNCHANGED managerVars

\* Steps the owner has no part in.
Alone ==
  /\ TimerFires \/ ServerAnswers \/ ServerPushes \/ HalfArrives
  /\ UNCHANGED managerVars

ManagerNext ==
  \/ ManagerConnect \/ LinkUp \/ LinkDown \/ TimesOut \/ ConnectError
  \/ Arrive \/ LetGo \/ (\E n \in Request : ExecuteCall(n)) \/ Alone

\* The connect timeout fires unless the link came up or failed before; the
\* server answers what it reads, and TCP delivers it.
ManagerFairness ==
  /\ WF_ownerVars(LinkUp \/ TimesOut \/ ConnectError)
  /\ WF_ownerVars(ServerAnswers /\ UNCHANGED managerVars)
  /\ WF_ownerVars(Arrive)

ManagerSpec == ManagerInit /\ [][ManagerNext]_ownerVars /\ ManagerFairness

-----------------------------------------------------------------------------
\* The window believes in a connection exactly when the manager has one, but
\* after the server refused a handshake: the link was announced when it came up
\* and neither disconnect() in its catch nor the manager's says it is gone.
ShownStatus == Managed => /\ held /\ Connected => shown
                          /\ shown => (held /\ Connected) \/ refused
=============================================================================
