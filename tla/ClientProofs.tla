---------------------------- MODULE ClientProofs ----------------------------
(***************************************************************************)
(* What TLAPS proves of the two clients: the desktop's RESP client with    *)
(* its owners, for any number of requests, pushes and connections and any  *)
(* databases, and the web console with the bridge, for any number of       *)
(* sockets and requests, any keys and any databases.                       *)
(*                                                                         *)
(* The heart of the first: what the client waits for is what is on its way *)
(* back followed by what is on its way out (Paired), unless a subscription *)
(* or the bytes of an older link have broken that order.  So the head of   *)
(* the queue is always the request that the next reply answers.            *)
(*                                                                         *)
(* The heart of the second: numbers are given in order and never again, so *)
(* what is under way on a socket, answers before questions, is numbered    *)
(* apart and meets its callbacks (Routed); a delivered answer is the first *)
(* under way, and a socket that is not open yet has nothing.               *)
(* On it rests what a user who waits for the answers sees: whatever is     *)
(* under way fills the list with the keys of the socket's database in      *)
(* order, or holds the one message after which they will be read (Stage).  *)
(***************************************************************************)
EXTENDS ConnectionManager, WebConsole, FiniteSetTheorems, FunctionTheorems, SequenceTheorems,
        TLAPS

Ops == {"auth", "select", "get", "subscribe", "selectDb", "console"}
Commands == [op : Ops, db : UserDb \cup {0, 1}, n : Request \cup {0}]
Replies == [cmd : Commands \cup {Unasked}, ok : BOOLEAN, extra : BOOLEAN]

\* The types of what the steps compute with; the flags need none.
ClientTypeOK ==
  /\ options \in Profiles \cup {PanelOptions}
  /\ sock \in {"none", "connecting", "open", "closed"}
  /\ phase \in {"down", "auth", "select", "ready"}
  /\ half \in {"none", "current", "old"}
  /\ pending \in Seq(Commands) /\ toServer \in Seq(Commands) /\ toClient \in Seq(Replies)
  /\ outcome \in [Request -> {"unsent", "waiting", "own", "other", "failed"}]

\* What a client without a live socket is left with.
AtRest ==
  /\ phase = "down" <=> sock # "open"
  /\ sock # "open" => toClient = <<>>
  /\ sock \in {"none", "closed"} =>
       pending = <<>> /\ toServer = <<>> /\ \A n \in Request : outcome[n] # "waiting"
  /\ timer => sock = "closed"
  /\ destroyed => sock = "none"

Live == sock \in {"connecting", "open"}
Orderly == ~subscribed /\ ~carried

\* The requests P wait for the replies C and then for the answers to S.
Paired(P, C, S) ==
  /\ Len(P) = Len(C) + Len(S)
  /\ \A i \in 1..Len(C) : C[i].cmd = P[i] /\ ~C[i].extra
  /\ \A i \in 1..Len(S) : S[i] = P[Len(C) + i]

InOrder ==
  /\ Orderly /\ Live => Paired(pending, toClient, toServer)
  /\ Live /\ ~carried => half # "old"
  /\ ~subscribed => ~listening /\ \A i \in DOMAIN toServer : toServer[i].op # "subscribe"

\* One step of the handshake at a time, the one the phase names.
IsStep(cmd) == cmd.op \in {"auth", "select"}
OneStep ==
  /\ \A i \in DOMAIN pending : IsStep(pending[i]) => pending[i].op = phase
  /\ \A i, j \in DOMAIN pending : IsStep(pending[i]) /\ IsStep(pending[j]) => i = j

\* The server's database is the one of the last SELECT it said OK to.
Selects(v) == v.ok /\ v.cmd.op \in {"select", "selectDb", "console"}
LastSelect ==
  \A i \in DOMAIN toClient :
    Selects(toClient[i]) /\ (\A j \in DOMAIN toClient : j > i => ~Selects(toClient[j]))
      => serverDb = toClient[i].cmd.db

\* With none on its way back the client knows it, a handshake that has yet to
\* select aside.
NoneReturning == \A i \in DOMAIN toClient : ~Selects(toClient[i])
Believes ==
  trusted /\ Orderly =>
    /\ \A i \in DOMAIN pending : pending[i].op # "console"
    /\ Live /\ NoneReturning /\ (phase = "ready" \/ options.db = 0) => currentDb = serverDb

ClientInv ==
  ClientTypeOK /\ AtRest /\ InOrder /\ OneStep /\ LastSelect /\ Believes /\ OwnReplies

\* What the manager holds, and has told.
ManagerHolds ==
  Managed =>
    /\ Live \/ timer => held
    /\ call = "pending" => phase # "ready" /\ ~timer /\ Live
    /\ call = "failed" => ~held

-----------------------------------------------------------------------------
(* Sequences in step.                                                      *)

\* What is sent is waited for.
LEMMA PairedSend ==
  ASSUME NEW P \in Seq(Commands), NEW C \in Seq(Replies), NEW S \in Seq(Commands),
         NEW T \in Seq(Commands), Paired(P, C, S)
  PROVE  Paired(P \o T, C, S \o T)
<1>1. /\ P \o T \in Seq(Commands) /\ Len(P \o T) = Len(P) + Len(T)
      /\ \A i \in 1..(Len(P) + Len(T)) :
           (P \o T)[i] = IF i <= Len(P) THEN P[i] ELSE T[i - Len(P)]
  BY ConcatProperties
<1>2. /\ S \o T \in Seq(Commands) /\ Len(S \o T) = Len(S) + Len(T)
      /\ \A i \in 1..(Len(S) + Len(T)) :
           (S \o T)[i] = IF i <= Len(S) THEN S[i] ELSE T[i - Len(S)]
  BY ConcatProperties
<1>3. Len(P) \in Nat /\ Len(C) \in Nat /\ Len(S) \in Nat /\ Len(T) \in Nat
  OBVIOUS
<1>4. Len(P \o T) = Len(C) + Len(S \o T)
  BY <1>1, <1>2, <1>3 DEF Paired
<1>5. \A i \in 1..Len(C) : C[i].cmd = (P \o T)[i] /\ ~C[i].extra
  BY <1>1, <1>3 DEF Paired
<1>6. \A i \in 1..Len(S \o T) : (S \o T)[i] = (P \o T)[Len(C) + i]
  BY <1>1, <1>2, <1>3 DEF Paired
<1> QED
  BY <1>4, <1>5, <1>6 DEF Paired

\* An answer joins the replies in the place of its command.
LEMMA PairedAnswer ==
  ASSUME NEW P \in Seq(Commands), NEW C \in Seq(Replies), NEW S \in Seq(Commands),
         NEW v \in Replies, S # <<>>, v.cmd = Head(S), ~v.extra, Paired(P, C, S)
  PROVE  Paired(P, C \o <<v>>, Tail(S))
<1>1. /\ Len(C \o <<v>>) = Len(C) + 1
      /\ \A i \in 1..Len(C) : (C \o <<v>>)[i] = C[i]
      /\ (C \o <<v>>)[Len(C) + 1] = v
  OBVIOUS
<1>2. /\ Len(Tail(S)) = Len(S) - 1 /\ Len(S) >= 1 /\ Head(S) = S[1]
      /\ \A i \in 1..Len(Tail(S)) : Tail(S)[i] = S[i + 1]
  OBVIOUS
<1>3. Len(P) \in Nat /\ Len(C) \in Nat /\ Len(S) \in Nat
  OBVIOUS
<1>4. \A i \in 1..(Len(C) + 1) : (C \o <<v>>)[i].cmd = P[i] /\ ~(C \o <<v>>)[i].extra
  BY <1>1, <1>2, <1>3 DEF Paired
<1>5. \A i \in 1..Len(Tail(S)) : Tail(S)[i] = P[Len(C) + 1 + i]
  <2> SUFFICES ASSUME NEW i \in 1..Len(Tail(S)) PROVE Tail(S)[i] = P[Len(C) + 1 + i]
    OBVIOUS
  <2>1. i + 1 \in 1..Len(S) /\ Len(C) + (i + 1) = Len(C) + 1 + i
    BY <1>2, <1>3
  <2> QED
    BY <1>2, <2>1 DEF Paired
<1> QED
  BY <1>1, <1>2, <1>3, <1>4, <1>5 DEF Paired

\* The oldest reply meets the oldest request.
LEMMA PairedTake ==
  ASSUME NEW P \in Seq(Commands), NEW C \in Seq(Replies), NEW S \in Seq(Commands),
         C # <<>>, Paired(P, C, S)
  PROVE  /\ P # <<>> /\ Head(C).cmd = Head(P) /\ ~Head(C).extra
         /\ Paired(Tail(P), Tail(C), S)
<1>1. Len(P) \in Nat /\ Len(C) \in Nat /\ Len(S) \in Nat /\ Len(C) >= 1
  OBVIOUS
<1>2. Len(P) = Len(C) + Len(S) /\ P # <<>>
  BY <1>1 DEF Paired
<1>3. /\ Head(P) = P[1] /\ Len(Tail(P)) = Len(P) - 1
      /\ \A i \in 1..Len(Tail(P)) : Tail(P)[i] = P[i + 1]
  BY <1>2
<1>4. /\ Head(C) = C[1] /\ Len(Tail(C)) = Len(C) - 1
      /\ \A i \in 1..Len(Tail(C)) : Tail(C)[i] = C[i + 1]
  OBVIOUS
<1>5. \A i \in 1..Len(Tail(C)) : Tail(C)[i].cmd = Tail(P)[i] /\ ~Tail(C)[i].extra
  <2> SUFFICES ASSUME NEW i \in 1..Len(Tail(C))
               PROVE  Tail(C)[i].cmd = Tail(P)[i] /\ ~Tail(C)[i].extra
    OBVIOUS
  <2>1. i + 1 \in 1..Len(C) /\ i \in 1..Len(Tail(P))
    BY <1>1, <1>2, <1>3, <1>4
  <2> QED
    BY <1>3, <1>4, <2>1 DEF Paired
<1>6. \A i \in 1..Len(S) : S[i] = Tail(P)[Len(Tail(C)) + i]
  <2> SUFFICES ASSUME NEW i \in 1..Len(S) PROVE S[i] = Tail(P)[Len(Tail(C)) + i]
    OBVIOUS
  <2>1. /\ Len(Tail(C)) + i \in 1..Len(Tail(P))
        /\ Len(Tail(C)) + i + 1 = Len(C) + i
    BY <1>1, <1>2, <1>3, <1>4
  <2> QED
    BY <1>3, <2>1 DEF Paired
<1>7. Head(C).cmd = Head(P) /\ ~Head(C).extra
  BY <1>1, <1>3, <1>4 DEF Paired
<1>8. Len(Tail(P)) = Len(Tail(C)) + Len(S)
  BY <1>1, <1>2, <1>3, <1>4
<1> QED
  BY <1>2, <1>5, <1>6, <1>7, <1>8 DEF Paired

\* The database a profile or the panel asks for.
LEMMA OptionsDb ==
  ASSUME options \in Profiles \cup {PanelOptions}
  PROVE  options.db \in {0, 1}
<1>1. CASE options \in Profiles
  BY <1>1 DEF Profiles
<1>2. CASE options = PanelOptions
  <2>1. PanelOptions.db = 0
    BY DEF PanelOptions
  <2> QED
    BY <1>2, <2>1
<1> QED
  BY <1>1, <1>2

-----------------------------------------------------------------------------
(* Steps that give a link up or begin one.                                 *)

\* An empty link is in order, for a client that believes what its server does.
LEMMA EmptyLink ==
  ASSUME pending' = <<>>, toServer' = <<>>, toClient' = <<>>, ~listening',
         (Live /\ ~carried => half # "old")',
         (trusted /\ Orderly /\ Live /\ (phase = "ready" \/ options.db = 0)
            => currentDb = serverDb)'
  PROVE  InOrder' /\ OneStep' /\ LastSelect' /\ Believes'
<1>1. DOMAIN pending' = {} /\ DOMAIN toServer' = {} /\ DOMAIN toClient' = {}
  OBVIOUS
<1>2. Paired(pending, toClient, toServer)'
  BY DEF Paired
<1>3. InOrder'
  BY <1>1, <1>2 DEF InOrder
<1>4. OneStep' /\ LastSelect'
  BY <1>1 DEF OneStep, LastSelect
<1>5. Believes'
  BY <1>1 DEF Believes
<1> QED
  BY <1>3, <1>4, <1>5

\* Rejecting everybody resolves nobody, and leaves nobody waiting.
LEMMA RejectAll ==
  ASSUME ClientTypeOK, OwnReplies, outcome' = AllRejected, Orderly' => Orderly
  PROVE  /\ outcome' \in [Request -> {"unsent", "waiting", "own", "other", "failed"}]
         /\ OwnReplies'
         /\ \A n \in Request : outcome'[n] # "waiting"
BY DEF ClientTypeOK, OwnReplies, AllRejected, Orderly

\* disconnect() leaves the client at rest.
LEMMA DestroyKeeps ==
  ASSUME ClientInv, Destroy, UNCHANGED <<options, subscribed, carried>>
  PROVE  ClientInv'
<1>1. /\ pending' = <<>> /\ toServer' = <<>> /\ toClient' = <<>> /\ ~listening'
      /\ sock' = "none" /\ phase' = "down" /\ outcome' = AllRejected
      /\ destroyed' = TRUE /\ timer' = FALSE /\ half' = "none" /\ listening' = FALSE
  BY DEF Destroy, DropLink, FreshLink
<1>2. InOrder' /\ OneStep' /\ LastSelect' /\ Believes'
  BY <1>1, EmptyLink DEF Live
<1>3. /\ outcome' \in [Request -> {"unsent", "waiting", "own", "other", "failed"}]
      /\ OwnReplies' /\ \A n \in Request : outcome'[n] # "waiting"
  BY <1>1, RejectAll DEF ClientInv, Orderly
<1>4. ClientTypeOK'
  BY <1>1, <1>3 DEF ClientInv, ClientTypeOK
<1>5. AtRest'
  BY <1>1, <1>3 DEF AtRest
<1> QED
  BY <1>2, <1>3, <1>4, <1>5 DEF ClientInv

\* So does the end of a link, which may leave the timer armed.
LEMMA CloseKeeps ==
  ASSUME ClientInv, sock \in {"connecting", "open"}, sock' = "closed", phase' = "down", DropLink,
         half' \in {"none", "current", "old"},
         UNCHANGED <<options, destroyed, subscribed, carried, trusted>>
  PROVE  ClientInv'
<1>1. /\ pending' = <<>> /\ toServer' = <<>> /\ toClient' = <<>> /\ ~listening'
      /\ outcome' = AllRejected /\ listening' = FALSE
  BY DEF DropLink, FreshLink
<1>2. InOrder' /\ OneStep' /\ LastSelect' /\ Believes'
  BY <1>1, EmptyLink DEF Live
<1>3. /\ outcome' \in [Request -> {"unsent", "waiting", "own", "other", "failed"}]
      /\ OwnReplies' /\ \A n \in Request : outcome'[n] # "waiting"
  BY <1>1, RejectAll DEF ClientInv, Orderly
<1>4. ClientTypeOK'
  BY <1>1, <1>3 DEF ClientInv, ClientTypeOK
<1>5. AtRest'
  BY <1>1, <1>3 DEF ClientInv, AtRest
<1> QED
  BY <1>2, <1>3, <1>4, <1>5 DEF ClientInv

\* A link begun behind an old reply is no longer orderly.
LEMMA OpenKeeps ==
  ASSUME ClientInv, OpenSocket, pending' = <<>>, phase' = "down", timer' = FALSE, ~destroyed',
         half' \in {half, "none"},
         options' \in Profiles \cup {PanelOptions},
         outcome' = AllRejected,
         trusted' /\ options'.db = 0 => currentDb' = 0
  PROVE  ClientInv'
<1>1. /\ toServer' = <<>> /\ toClient' = <<>> /\ ~listening' /\ listening' = FALSE
      /\ sock' = "connecting" /\ serverDb' = 0
      /\ carried' = (carried \/ half # "none") /\ subscribed' = subscribed
  BY DEF OpenSocket, FreshLink
<1>2. InOrder' /\ OneStep' /\ LastSelect' /\ Believes'
  <2>1. (Live /\ ~carried => half # "old")'
    BY <1>1
  <2>2. (trusted /\ Orderly /\ Live /\ (phase = "ready" \/ options.db = 0)
           => currentDb = serverDb)'
    BY <1>1
  <2> QED
    BY <1>1, <2>1, <2>2, EmptyLink
<1>3. /\ outcome' \in [Request -> {"unsent", "waiting", "own", "other", "failed"}]
      /\ OwnReplies' /\ \A n \in Request : outcome'[n] # "waiting"
  BY <1>1, RejectAll DEF ClientInv, Orderly
<1>4. ClientTypeOK'
  BY <1>1, <1>3 DEF ClientInv, ClientTypeOK
<1>5. AtRest'
  BY <1>1, <1>3 DEF AtRest
<1> QED
  BY <1>2, <1>3, <1>4, <1>5 DEF ClientInv

\* The timer finds a client with nothing to wait for.
LEMMA TimerKeeps ==
  ASSUME ClientInv, TimerFires
  PROVE  ClientInv'
<1>1. sock = "closed" /\ pending = <<>> /\ phase = "down" /\ ~destroyed
  BY DEF TimerFires, ClientInv, AtRest
<1>2. outcome' = AllRejected
  <2>1. \A n \in Request : outcome[n] # "waiting"
    BY <1>1 DEF ClientInv, AtRest
  <2>2. outcome = [n \in Request |-> outcome[n]]
    BY DEF ClientInv, ClientTypeOK
  <2>3. AllRejected = outcome
    BY <2>1, <2>2 DEF AllRejected
  <2> QED
    BY <2>3 DEF TimerFires
<1>3. /\ OpenSocket /\ timer' = FALSE /\ trusted' = (options.db > 0)
      /\ UNCHANGED <<options, phase, destroyed, pending, currentDb, half>>
  BY DEF TimerFires
<1>4. trusted' => options'.db # 0
  <2>1. options.db \in {0, 1}
    BY OptionsDb DEF ClientInv, ClientTypeOK
  <2>2. trusted' => options.db > 0
    BY DEF TimerFires
  <2> QED
    BY <1>3, <2>1, <2>2
<1>5. options' \in Profiles \cup {PanelOptions}
  BY <1>3 DEF ClientInv, ClientTypeOK
<1>6. pending' = <<>> /\ phase' = "down" /\ ~destroyed' /\ half' \in {half, "none"}
  BY <1>1, <1>3
<1> QED
  BY <1>2, <1>3, <1>4, <1>5, <1>6, OpenKeeps

\* A link breaks in the handshake, or later.
LEMMA LinkBreaksKeeps ==
  ASSUME ClientInv, LinkBreaks
  PROVE  ClientInv'
<1>1. CASE phase \in {"auth", "select"}
  BY <1>1, DestroyKeeps DEF LinkBreaks
<1>2. CASE phase \notin {"auth", "select"}
  <2>1. half' \in {"none", "current", "old"}
    BY <1>2 DEF LinkBreaks
  <2> QED
    BY <1>2, <2>1, CloseKeeps DEF LinkBreaks
<1> QED
  BY <1>1, <1>2

-----------------------------------------------------------------------------
(* Steps of a live link.                                                   *)

\* What Handshake sends is one step, or nothing once the client is ready.
LEMMA HandshakeSends ==
  ASSUME ClientTypeOK, NEW step, Handshake(step)
  PROVE  \E sends \in Seq(Commands) :
           /\ toServer' = toServer \o sends
           /\ pending' = (IF step = "connect" THEN pending ELSE Tail(pending)) \o sends
           /\ phase' \in {"auth", "select", "ready"}
           /\ sends = <<>> \/ (Len(sends) = 1 /\ IsStep(sends[1]) /\ sends[1].op = phase')
           /\ step # "select" /\ options.db > 0 => phase' # "ready"
<1> DEFINE next == IF step = "connect" /\ options.password THEN "auth"
                   ELSE IF step # "select" /\ options.db > 0 THEN "select"
                   ELSE "ready"
           sends == IF next = "ready" THEN <<>> ELSE <<Command(next, options.db, 0)>>
<1>1. /\ phase' = next
      /\ toServer' = toServer \o sends
      /\ pending' = (IF step = "connect" THEN pending ELSE Tail(pending)) \o sends
  BY DEF Handshake
<1>2. options.db \in {0, 1}
  BY OptionsDb DEF ClientTypeOK
<1>3. next \in {"auth", "select", "ready"}
  OBVIOUS
<1>4. next # "ready" => Command(next, options.db, 0) \in Commands
  BY <1>2, <1>3 DEF Command, Commands, Ops
<1>5. sends \in Seq(Commands)
  <2> HIDE DEF next
  <2> QED
    BY <1>4
<1>6. sends = <<>> \/ (Len(sends) = 1 /\ IsStep(sends[1]) /\ sends[1].op = next)
  <2> HIDE DEF next
  <2> QED
    BY <1>3 DEF Command, IsStep
<1>7. step # "select" /\ options.db > 0 => next # "ready"
  OBVIOUS
<1> QED
  BY <1>1, <1>3, <1>5, <1>6, <1>7

\* The step of the handshake it names follows requests that are none.
LEMMA OneStepSends ==
  ASSUME NEW P \in Seq(Commands), NEW T \in Seq(Commands), NEW ph,
         \A i \in DOMAIN P : ~IsStep(P[i]),
         T = <<>> \/ (Len(T) = 1 /\ T[1].op = ph)
  PROVE  LET Q == P \o T IN
         /\ \A i \in DOMAIN Q : IsStep(Q[i]) => Q[i].op = ph
         /\ \A i, j \in DOMAIN Q : IsStep(Q[i]) /\ IsStep(Q[j]) => i = j
<1>1. CASE T = <<>>
  BY <1>1
<1>2. CASE Len(T) = 1 /\ T[1].op = ph
  <2>1. P \o T \in Seq(Commands) /\ Len(P \o T) = Len(P) + 1
    <3>1. P \o T \in Seq(Commands) /\ Len(P \o T) = Len(P) + Len(T)
      BY ConcatProperties
    <3> QED
      BY <1>2, <3>1
  <2>2. /\ Len(P) \in Nat /\ DOMAIN P = 1..Len(P)
        /\ DOMAIN (P \o T) = 1..(Len(P) + 1)
        /\ \A i \in 1..Len(P) : (P \o T)[i] = P[i]
        /\ (P \o T)[Len(P) + 1] = T[1]
    BY <1>2, <2>1
  <2>3. \A i \in DOMAIN (P \o T) : IsStep((P \o T)[i]) => i = Len(P) + 1
    BY <2>2
  <2> QED
    BY <1>2, <2>2, <2>3
<1> QED
  BY <1>1, <1>2

\* The handshake starts on a link with nothing on its way back.
LEMMA TcpConnectedKeeps ==
  ASSUME ClientInv, TcpConnected
  PROVE  ClientInv'
<1>1. ClientTypeOK /\ sock = "connecting" /\ sock' = "open" /\ toClient = <<>> /\ phase = "down"
  BY DEF TcpConnected, ClientInv, AtRest
<1>2. UNCHANGED <<options, destroyed, timer, currentDb, half, toClient, serverDb, listening,
                  outcome, subscribed, carried, trusted>>
  BY DEF TcpConnected
<1>3. PICK sends \in Seq(Commands) :
        /\ toServer' = toServer \o sends
        /\ pending' = pending \o sends
        /\ phase' \in {"auth", "select", "ready"}
        /\ sends = <<>> \/ (Len(sends) = 1 /\ IsStep(sends[1]) /\ sends[1].op = phase')
        /\ options.db > 0 => phase' # "ready"
  BY <1>1, HandshakeSends DEF TcpConnected
<1>4. ClientTypeOK'
  BY <1>1, <1>2, <1>3 DEF ClientTypeOK
<1>5. AtRest'
  BY <1>1, <1>2, <1>3 DEF ClientInv, AtRest
<1>6. \A i \in DOMAIN pending : ~IsStep(pending[i])
  BY <1>1 DEF ClientInv, OneStep, IsStep
<1>7. OneStep'
  <2>1. pending \in Seq(Commands)
    BY <1>1 DEF ClientTypeOK
  <2>2. /\ \A i \in DOMAIN (pending \o sends) :
             IsStep((pending \o sends)[i]) => (pending \o sends)[i].op = phase'
        /\ \A i, j \in DOMAIN (pending \o sends) :
             IsStep((pending \o sends)[i]) /\ IsStep((pending \o sends)[j]) => i = j
    BY <1>3, <1>6, <2>1, OneStepSends
  <2> QED
    BY <1>3, <2>2 DEF OneStep
<1>8. ASSUME NEW op \in {"subscribe", "console"}
      PROVE  /\ (\A i \in DOMAIN toServer : toServer[i].op # op)
                  => \A i \in DOMAIN toServer' : toServer'[i].op # op
             /\ (\A i \in DOMAIN pending : pending[i].op # op)
                  => \A i \in DOMAIN pending' : pending'[i].op # op
  <2>1. ASSUME NEW q \in Seq(Commands), \A i \in DOMAIN q : q[i].op # op
        PROVE  \A i \in DOMAIN (q \o sends) : (q \o sends)[i].op # op
    <3>1. CASE sends = <<>>
      BY <2>1, <3>1
    <3>2. CASE Len(sends) = 1 /\ sends[1].op \in {"auth", "select"}
      <4>1. ASSUME NEW i \in DOMAIN (q \o sends)
            PROVE  \/ i \in DOMAIN q /\ (q \o sends)[i] = q[i]
                   \/ (q \o sends)[i] = sends[1]
        <5>1. q \in Seq(Commands) /\ sends \in Seq(Commands) /\ Len(sends) = 1
          BY <1>3, <2>1, <3>2
        <5>2. /\ DOMAIN (q \o sends) = 1..(Len(q) + Len(sends)) /\ Len(q) \in Nat
              /\ \A n \in 1..(Len(q) + Len(sends)) :
                   (q \o sends)[n] = IF n <= Len(q) THEN q[n] ELSE sends[n - Len(q)]
          <6>1. /\ q \o sends \in Seq(Commands) /\ Len(q \o sends) = Len(q) + Len(sends)
                /\ \A n \in 1..(Len(q) + Len(sends)) :
                     (q \o sends)[n] = IF n <= Len(q) THEN q[n] ELSE sends[n - Len(q)]
            BY ONLY <5>1, ConcatProperties
          <6>2. Len(q) \in Nat /\ DOMAIN (q \o sends) = 1..Len(q \o sends)
            BY ONLY <5>1, <6>1, LenProperties
          <6> QED
            BY <6>1, <6>2
        <5>3. i \in 1..(Len(q) + 1) /\ DOMAIN q = 1..Len(q)
          BY <4>1, <5>1, <5>2
        <5> QED
          BY <5>1, <5>2, <5>3
      <4> QED
        BY <1>8, <2>1, <3>2, <4>1
    <3> QED
      BY <1>3, <3>1, <3>2 DEF IsStep
  <2>2. pending \in Seq(Commands) /\ toServer \in Seq(Commands)
    BY <1>1 DEF ClientTypeOK
  <2> QED
    BY <1>3, <2>1, <2>2
<1>9. InOrder'
  <2>1. (Orderly /\ Live => Paired(pending, toClient, toServer))'
    BY <1>1, <1>2, <1>3, PairedSend DEF ClientInv, InOrder, Orderly, Live, ClientTypeOK
  <2>2. (Live /\ ~carried => half # "old")'
    BY <1>1, <1>2 DEF ClientInv, InOrder, Live
  <2>3. (~subscribed => ~listening /\ \A i \in DOMAIN toServer : toServer[i].op # "subscribe")'
    BY <1>2, <1>8 DEF ClientInv, InOrder
  <2> QED
    BY <2>1, <2>2, <2>3 DEF InOrder
<1>10. LastSelect'
  BY <1>1, <1>2 DEF LastSelect
<1>11. Believes'
  <2>1. options.db \in {0, 1}
    BY <1>1, OptionsDb DEF ClientTypeOK
  <2>2. phase' = "ready" \/ options'.db = 0 => options.db = 0
    BY <1>2, <1>3, <2>1
  <2> QED
    BY <1>1, <1>2, <1>8, <2>2 DEF ClientInv, Believes, Orderly, Live, NoneReturning
<1>12. OwnReplies'
  BY <1>2 DEF ClientInv, OwnReplies
<1> QED
  BY <1>4, <1>5, <1>7, <1>9, <1>10, <1>11, <1>12 DEF ClientInv

\* A request joins both queues, or fails at once.
LEMMA SendRawKeeps ==
  ASSUME ClientInv, NEW n \in Request, NEW op \in {"get", "subscribe", "selectDb", "console"},
         NEW db \in UserDb \cup {0}, SendRaw(n, op, db)
  PROVE  ClientInv'
<1> DEFINE cmd == Command(op, db, n)
<1>1. /\ UNCHANGED <<options, sock, phase, destroyed, timer, currentDb, half, toClient,
                     serverDb, listening, carried>>
      /\ ClientTypeOK
  BY DEF SendRaw, ClientInv
<1>2. LastSelect'
  BY <1>1 DEF ClientInv, LastSelect
<1>3. CASE ~Live
  <2>1. /\ outcome' = [outcome EXCEPT ![n] = "failed"]
        /\ UNCHANGED <<pending, toServer, subscribed, trusted>>
    BY <1>3 DEF SendRaw, Live
  <2>2. ClientTypeOK'
    BY <1>1, <2>1 DEF ClientTypeOK
  <2>3. AtRest'
    BY <1>1, <2>1 DEF ClientInv, AtRest, ClientTypeOK
  <2>4. InOrder' /\ OneStep' /\ Believes'
    BY <1>1, <2>1 DEF ClientInv, InOrder, OneStep, Believes, Live, Orderly, NoneReturning
  <2>5. OwnReplies'
    BY <1>1, <2>1 DEF ClientInv, OwnReplies, ClientTypeOK
  <2> QED
    BY <1>2, <2>2, <2>3, <2>4, <2>5 DEF ClientInv
<1>4. CASE Live
  <2>1. /\ pending' = Append(pending, cmd) /\ toServer' = Append(toServer, cmd)
        /\ outcome' = [outcome EXCEPT ![n] = "waiting"]
        /\ subscribed' = (subscribed \/ op = "subscribe")
        /\ trusted' = (trusted /\ op # "console")
    BY <1>4 DEF SendRaw, Live
  <2>2. cmd \in Commands /\ cmd.op = op /\ ~IsStep(cmd)
    BY DEF Command, Commands, Ops, IsStep
  <2> HIDE DEF cmd
  <2>3. ClientTypeOK'
    BY <1>1, <2>1, <2>2 DEF ClientTypeOK
  <2>4. AtRest'
    BY <1>1, <1>4, <2>1 DEF ClientInv, AtRest, ClientTypeOK, Live
  <2>5. /\ DOMAIN pending' = 1..(Len(pending) + 1) /\ Len(pending) \in Nat
        /\ DOMAIN toServer' = 1..(Len(toServer) + 1) /\ Len(toServer) \in Nat
        /\ \A i \in 1..Len(pending) : i \in DOMAIN pending /\ pending'[i] = pending[i]
        /\ \A i \in 1..Len(toServer) : i \in DOMAIN toServer /\ toServer'[i] = toServer[i]
        /\ pending'[Len(pending) + 1] = cmd /\ toServer'[Len(toServer) + 1] = cmd
    BY <1>1, <2>1, <2>2 DEF ClientTypeOK
  <2>6. OneStep'
    <3>1. \A i \in DOMAIN pending' : IsStep(pending'[i]) =>
            i \in DOMAIN pending /\ pending'[i] = pending[i]
      BY <2>2, <2>5
    <3> QED
      BY <1>1, <3>1 DEF ClientInv, OneStep
  <2>7. InOrder'
    <3>1. (Orderly /\ Live => Paired(pending, toClient, toServer))'
      <4> SUFFICES ASSUME Orderly', Live' PROVE Paired(pending', toClient', toServer')
        OBVIOUS
      <4>1. Paired(pending, toClient, toServer)
        BY <1>1, <1>4, <2>1 DEF ClientInv, InOrder, Orderly
      <4>2. pending' = pending \o <<cmd>> /\ toServer' = toServer \o <<cmd>>
        BY <1>1, <2>1, <2>2, AppendIsConcat DEF ClientTypeOK
      <4>3. <<cmd>> \in Seq(Commands)
        BY <2>2
      <4> QED
        BY <1>1, <4>1, <4>2, <4>3, PairedSend DEF ClientTypeOK
    <3>2. (Live /\ ~carried => half # "old")'
      BY <1>1, <1>4 DEF ClientInv, InOrder, Live
    <3>3. (~subscribed => ~listening /\ \A i \in DOMAIN toServer : toServer[i].op # "subscribe")'
      <4> SUFFICES ASSUME ~subscribed', NEW i \in DOMAIN toServer'
                   PROVE  ~listening' /\ toServer'[i].op # "subscribe"
        BY <1>1, <2>1 DEF ClientInv, InOrder
      <4>1. ~subscribed /\ op # "subscribe"
        BY <2>1
      <4>2. i \in 1..Len(toServer) \/ i = Len(toServer) + 1
        BY <2>5
      <4> QED
        BY <1>1, <2>2, <2>5, <4>1, <4>2 DEF ClientInv, InOrder
    <3> QED
      BY <3>1, <3>2, <3>3 DEF InOrder
  <2>8. Believes'
    <3> SUFFICES ASSUME trusted', Orderly'
                 PROVE  /\ \A i \in DOMAIN pending' : pending'[i].op # "console"
                        /\ (Live /\ NoneReturning /\ (phase = "ready" \/ options.db = 0)
                              => currentDb = serverDb)'
      BY DEF Believes
    <3>1. trusted /\ Orderly /\ op # "console"
      BY <1>1, <2>1 DEF Orderly
    <3> QED
      BY <1>1, <2>2, <2>5, <3>1 DEF ClientInv, Believes, Live, NoneReturning
  <2>9. OwnReplies'
    BY <1>1, <2>1 DEF ClientInv, OwnReplies, ClientTypeOK
  <2> QED
    BY <1>2, <2>3, <2>4, <2>6, <2>7, <2>8, <2>9 DEF ClientInv
<1> QED
  BY <1>3, <1>4

\* All that a user can ask for.
LEMMA AskKeeps ==
  ASSUME ClientInv, NEW n \in Request, Ask(n)
  PROVE  ClientInv'
<1>1. ASSUME NEW d \in UserDb, SendRaw(n, "selectDb", d) \/ SendRaw(n, "console", d)
      PROVE  ClientInv'
  BY <1>1, SendRawKeeps
<1>2. ASSUME SendRaw(n, "get", 0) \/ SendRaw(n, "subscribe", 0)
      PROVE  ClientInv'
  BY <1>2, SendRawKeeps
<1> QED
  BY <1>1, <1>2 DEF Ask

\* An answer, or the two of a subscription, go on their way back.
LEMMA ServerAnswersKeeps ==
  ASSUME ClientInv, ServerAnswers
  PROVE  ClientInv'
<1> DEFINE cmd == Head(toServer)
           selects == cmd.op \in {"select", "selectDb", "console"}
<1>1. /\ UNCHANGED <<options, sock, phase, destroyed, timer, pending, currentDb, half,
                     outcome, subscribed, carried, trusted>>
      /\ ClientTypeOK /\ sock = "open" /\ toServer # <<>>
  BY DEF ServerAnswers, ClientInv
<1>2. PICK ok \in BOOLEAN, more \in BOOLEAN :
        /\ more => cmd.op = "subscribe"
        /\ toServer' = Tail(toServer)
        /\ toClient' = (toClient \o <<Reply(cmd, ok, FALSE)>>)
                         \o (IF more THEN <<Reply(cmd, ok, TRUE)>> ELSE <<>>)
        /\ serverDb' = (IF selects /\ ok THEN cmd.db ELSE serverDb)
        /\ listening' = (listening \/ cmd.op = "subscribe")
  BY DEF ServerAnswers
<1> DEFINE one == Reply(cmd, ok, FALSE)
           two == Reply(cmd, ok, TRUE)
<1>3. /\ cmd \in Commands /\ one \in Replies /\ two \in Replies
      /\ one.cmd = cmd /\ two.cmd = cmd /\ ~one.extra /\ one.ok = ok
  BY <1>1 DEF ClientTypeOK, Reply, Replies
<1>4. /\ Tail(toServer) \in Seq(Commands)
      /\ \A i \in DOMAIN Tail(toServer) :
           i + 1 \in DOMAIN toServer /\ Tail(toServer)[i] = toServer[i + 1]
      /\ 1 \in DOMAIN toServer /\ cmd = toServer[1]
  BY <1>1 DEF ClientTypeOK
<1> HIDE DEF cmd, one, two
<1>5. /\ toClient \o <<one>> \in Seq(Replies) /\ Len(toClient) \in Nat
      /\ DOMAIN (toClient \o <<one>>) = 1..(Len(toClient) + 1)
      /\ \A i \in 1..Len(toClient) : (toClient \o <<one>>)[i] = toClient[i]
      /\ (toClient \o <<one>>)[Len(toClient) + 1] = one
  BY <1>1, <1>3 DEF ClientTypeOK
<1>6. /\ toClient' \in Seq(Replies)
      /\ \A i \in 1..Len(toClient) : i \in DOMAIN toClient' /\ toClient'[i] = toClient[i]
      /\ Len(toClient) + 1 \in DOMAIN toClient' /\ toClient'[Len(toClient) + 1] = one
      /\ \A i \in DOMAIN toClient' :
           \/ i \in 1..(Len(toClient) + 1)
           \/ i = Len(toClient) + 2 /\ more /\ toClient'[i] = two
  <2>1. CASE ~more
    <3>1. toClient' = toClient \o <<one>>
      BY <1>2, <1>5, <2>1 DEF one
    <3> QED
      BY <1>5, <3>1
  <2>2. CASE more
    <3> DEFINE first == toClient \o <<one>>
    <3>1. toClient' = first \o <<two>>
      BY <1>2, <1>5, <2>2 DEF one, two
    <3>2. first \in Seq(Replies) /\ DOMAIN first = 1..(Len(toClient) + 1)
      BY <1>5
    <3>3. Len(first) = Len(toClient) + 1
      BY <1>5, <3>2
    <3> HIDE DEF first
    <3>4. /\ toClient' \in Seq(Replies)
          /\ DOMAIN toClient' = 1..(Len(toClient) + 2)
          /\ \A i \in 1..(Len(toClient) + 1) : toClient'[i] = first[i]
          /\ toClient'[Len(toClient) + 2] = two
      BY <1>3, <1>5, <3>1, <3>2, <3>3
    <3> QED
      BY <1>5, <2>2, <3>4 DEF first
  <2> QED
    BY <2>1, <2>2
<1>7. ClientTypeOK'
  BY <1>1, <1>2, <1>4, <1>6 DEF ClientTypeOK
<1>8. AtRest' /\ OneStep' /\ OwnReplies'
  BY <1>1 DEF ClientInv, AtRest, OneStep, OwnReplies
<1>9. InOrder'
  <2>1. (Orderly /\ Live => Paired(pending, toClient, toServer))'
    <3> SUFFICES ASSUME Orderly', Live' PROVE Paired(pending', toClient', toServer')
      OBVIOUS
    <3>1. Paired(pending, toClient, toServer)
      BY <1>1 DEF ClientInv, InOrder, Orderly, Live
    <3>2. cmd.op # "subscribe"
      BY <1>1, <1>4 DEF ClientInv, InOrder, Orderly
    <3>3. toClient' = toClient \o <<one>>
      BY <1>2, <1>5, <3>2 DEF one
    <3>4. cmd = Head(toServer)
      BY DEF cmd
    <3> QED
      BY <1>1, <1>2, <1>3, <3>1, <3>3, <3>4, PairedAnswer DEF ClientTypeOK
  <2>2. (Live /\ ~carried => half # "old")'
    BY <1>1 DEF ClientInv, InOrder, Live
  <2>3. (~subscribed => ~listening /\ \A i \in DOMAIN toServer : toServer[i].op # "subscribe")'
    BY <1>1, <1>2, <1>4 DEF ClientInv, InOrder
  <2> QED
    BY <2>1, <2>2, <2>3 DEF InOrder
<1>10. /\ Selects(one) <=> selects /\ ok
       /\ more => ~Selects(two)
       /\ Selects(one) => serverDb' = one.cmd.db
       /\ ~Selects(one) => serverDb' = serverDb
  BY <1>2, <1>3 DEF Selects
<1>11. Len(toClient) \in Nat /\ DOMAIN toClient = 1..Len(toClient)
  BY <1>1 DEF ClientTypeOK
<1>12. LastSelect'
  <2> SUFFICES ASSUME NEW i \in DOMAIN toClient', Selects(toClient'[i]),
                      \A j \in DOMAIN toClient' : j > i => ~Selects(toClient'[j])
               PROVE  serverDb' = toClient'[i].cmd.db
    BY DEF LastSelect, Selects
  <2>1. CASE Selects(one)
    <3>1. i \in 1..(Len(toClient) + 1)
      BY <1>6, <1>10
    <3>2. ~(Len(toClient) + 1 > i)
      BY <1>6, <2>1
    <3>3. i = Len(toClient) + 1
      BY <1>11, <3>1, <3>2
    <3> QED
      BY <1>6, <1>10, <2>1, <3>3
  <2>2. CASE ~Selects(one)
    <3>1. i \in DOMAIN toClient
      BY <1>6, <1>10, <1>11, <2>2
    <3>2. \A j \in DOMAIN toClient : j \in DOMAIN toClient' /\ toClient'[j] = toClient[j]
      BY <1>6, <1>11
    <3>3. serverDb = toClient[i].cmd.db
      BY <3>1, <3>2 DEF ClientInv, LastSelect
    <3> QED
      BY <1>10, <2>2, <3>1, <3>2, <3>3
  <2> QED
    BY <2>1, <2>2
<1>13. Believes'
  <2>1. NoneReturning' => NoneReturning /\ ~Selects(one)
    BY <1>6, <1>11 DEF NoneReturning
  <2> QED
    BY <1>1, <1>10, <2>1 DEF ClientInv, Believes, Orderly, Live
<1> QED
  BY <1>7, <1>8, <1>9, <1>12, <1>13 DEF ClientInv

\* A push is nobody's answer, and only a client that subscribed is sent one.
LEMMA ServerPushesKeeps ==
  ASSUME ClientInv, ServerPushes
  PROVE  ClientInv'
<1> DEFINE push == Reply(Unasked, TRUE, TRUE)
<1>1. /\ UNCHANGED <<options, sock, phase, destroyed, timer, pending, currentDb, half,
                     toServer, serverDb, listening, outcome, subscribed, carried, trusted>>
      /\ ClientTypeOK /\ sock = "open" /\ listening /\ toClient' = Append(toClient, push)
  BY DEF ServerPushes, ClientInv
<1>2. push \in Replies /\ ~Selects(push)
  BY DEF Reply, Replies, Unasked, Command, Selects
<1>3. ~Orderly /\ subscribed
  BY <1>1 DEF ClientInv, InOrder, Orderly
<1> HIDE DEF push
<1>4. /\ toClient' \in Seq(Replies) /\ Len(toClient) \in Nat
      /\ DOMAIN toClient = 1..Len(toClient)
      /\ DOMAIN toClient' = 1..(Len(toClient) + 1)
      /\ \A i \in 1..Len(toClient) : toClient'[i] = toClient[i]
      /\ toClient'[Len(toClient) + 1] = push
  BY <1>1, <1>2 DEF ClientTypeOK
<1>5. ClientTypeOK'
  BY <1>1, <1>4 DEF ClientTypeOK
<1>6. AtRest' /\ OneStep' /\ OwnReplies' /\ Believes'
  BY <1>1, <1>3 DEF ClientInv, AtRest, OneStep, OwnReplies, Believes, Orderly
<1>7. InOrder'
  BY <1>1, <1>3 DEF ClientInv, InOrder, Orderly, Live
<1>8. LastSelect'
  <2> SUFFICES ASSUME NEW i \in DOMAIN toClient', Selects(toClient'[i]),
                      \A j \in DOMAIN toClient' : j > i => ~Selects(toClient'[j])
               PROVE  serverDb' = toClient'[i].cmd.db
    BY DEF LastSelect, Selects
  <2>1. i \in DOMAIN toClient
    BY <1>2, <1>4
  <2>2. \A j \in DOMAIN toClient : j \in DOMAIN toClient' /\ toClient'[j] = toClient[j]
    BY <1>4
  <2> QED
    BY <1>1, <2>1, <2>2 DEF ClientInv, LastSelect
<1> QED
  BY <1>5, <1>6, <1>7, <1>8 DEF ClientInv

\* The first bytes of a reply of this link spoil nothing.
LEMMA HalfArrivesKeeps ==
  ASSUME ClientInv, HalfArrives
  PROVE  ClientInv'
<1>1. /\ UNCHANGED <<options, sock, phase, destroyed, timer, pending, currentDb, toServer,
                     toClient, serverDb, listening, outcome, subscribed, carried, trusted>>
      /\ half' = "current"
  BY DEF HalfArrives, clientLink
<1> QED
  BY <1>1 DEF ClientInv, ClientTypeOK, AtRest, InOrder, OneStep, LastSelect, Believes, OwnReplies,
              Orderly, Live, NoneReturning

-----------------------------------------------------------------------------
(* Replies taken from the link.                                            *)

\* Taking the first reply leaves the last one.
LEMMA TakeSelect ==
  ASSUME ClientInv, toClient # <<>>, toClient' = Tail(toClient), serverDb' = serverDb
  PROVE  /\ toClient' \in Seq(Replies) /\ LastSelect'
         /\ \A i \in DOMAIN toClient' : i + 1 \in DOMAIN toClient /\ toClient'[i] = toClient[i + 1]
         /\ \A i \in DOMAIN toClient :
           i = 1 \/ (i - 1 \in DOMAIN toClient' /\ toClient'[i - 1] = toClient[i])
         /\ 1 \in DOMAIN toClient /\ Head(toClient) = toClient[1] /\ toClient[1] \in Replies
<1>1. toClient \in Seq(Replies) /\ Len(toClient) \in Nat /\ Len(toClient) >= 1
  BY DEF ClientInv, ClientTypeOK
<1>2. /\ toClient' \in Seq(Replies)
      /\ \A i \in DOMAIN toClient' : i + 1 \in DOMAIN toClient /\ toClient'[i] = toClient[i + 1]
      /\ \A i \in DOMAIN toClient :
           i = 1 \/ (i - 1 \in DOMAIN toClient' /\ toClient'[i - 1] = toClient[i])
      /\ 1 \in DOMAIN toClient /\ Head(toClient) = toClient[1] /\ toClient[1] \in Replies
  BY <1>1
<1>3. DOMAIN toClient \subseteq Nat /\ DOMAIN toClient' \subseteq Nat
  BY <1>1, <1>2
<1>4. LastSelect'
  <2> SUFFICES ASSUME NEW i \in DOMAIN toClient', Selects(toClient'[i]),
                      \A j \in DOMAIN toClient' : j > i => ~Selects(toClient'[j])
               PROVE  serverDb' = toClient'[i].cmd.db
    BY DEF LastSelect, Selects
  <2>1. i + 1 \in DOMAIN toClient /\ toClient'[i] = toClient[i + 1] /\ i \in Nat /\ i >= 1
    BY <1>2, <1>3
  <2>2. ASSUME NEW j \in DOMAIN toClient, j > i + 1
        PROVE  ~Selects(toClient[j])
    <3>1. j \in Nat /\ j # 1 /\ j - 1 > i
      BY <1>3, <2>1, <2>2
    <3> QED
      BY <1>2, <3>1
  <2> QED
    BY <2>1, <2>2 DEF ClientInv, LastSelect
<1> QED
  BY <1>2, <1>4

\* A value nobody waits for comes out of order only.
LEMMA EmitKeeps ==
  ASSUME ClientInv, sock = "open", toClient # <<>>, pending = <<>> \/ half = "old",
         toClient' = Tail(toClient), half' \in {"none", half},
         UNCHANGED <<options, sock, phase, destroyed, timer, pending, currentDb, toServer,
                     serverDb, listening, outcome, subscribed, carried, trusted>>
  PROVE  ClientInv'
<1>1. ~Orderly
  <2>1. CASE half = "old"
    BY <2>1 DEF ClientInv, InOrder, Live, Orderly
  <2>2. CASE pending = <<>>
    <3> SUFFICES ASSUME Orderly PROVE FALSE
      OBVIOUS
    <3>1. Paired(pending, toClient, toServer)
      BY DEF ClientInv, InOrder, Live
    <3> QED
      BY <2>2, <3>1, PairedTake DEF ClientInv, ClientTypeOK
  <2> QED
    BY <2>1, <2>2
<1>2. toClient' \in Seq(Replies) /\ LastSelect'
  BY TakeSelect
<1>3. ClientTypeOK'
  BY <1>2 DEF ClientInv, ClientTypeOK
<1>4. AtRest' /\ OneStep' /\ OwnReplies' /\ Believes' /\ InOrder'
  BY <1>1 DEF ClientInv, AtRest, OneStep, OwnReplies, Believes, InOrder, Orderly, Live
<1> QED
  BY <1>2, <1>3, <1>4 DEF ClientInv

\* What the queue and the wire are after a request was resolved.
LEMMA ResolveSends ==
  ASSUME ClientInv, NEW v \in Replies, pending # <<>>, Resolve(v)
  PROVE  \E sends \in Seq(Commands) :
           /\ pending' = Tail(pending) \o sends /\ toServer' = toServer \o sends
           /\ sends = <<>> \/ (Len(sends) = 1 /\ IsStep(sends[1]) /\ sends[1].op = phase')
           /\ IF IsStep(Head(pending))
              THEN /\ phase' \in {"auth", "select", "ready"}
                   /\ Head(pending).op # "select" /\ options.db > 0 => phase' # "ready"
              ELSE sends = <<>> /\ phase' = phase
<1>1. CASE IsStep(Head(pending))
  <2>1. Handshake(Head(pending).op) /\ Head(pending).op # "connect"
    BY <1>1 DEF Resolve, IsStep
  <2> QED
    BY <1>1, <2>1, HandshakeSends DEF ClientInv
<1>2. CASE ~IsStep(Head(pending))
  <2>1. pending' = Tail(pending) /\ phase' = phase /\ toServer' = toServer
    BY <1>2 DEF Resolve, IsStep
  <2>2. <<>> \in Seq(Commands)
    OBVIOUS
  <2>3. Tail(pending) \o <<>> = Tail(pending) /\ toServer \o <<>> = toServer
    BY DEF ClientInv, ClientTypeOK
  <2> QED
    BY <1>2, <2>1, <2>2, <2>3
<1> QED
  BY <1>1, <1>2

\* The oldest request is resolved: with its own answer, if all is in order.
LEMMA ResolveKeeps ==
  ASSUME ClientInv, NEW v \in Replies, sock = "open", toClient # <<>>, pending # <<>>,
         v = Head(toClient) \/ half = "old", ~Refused(v), Resolve(v),
         UNCHANGED <<options, subscribed, carried>>
  PROVE  ClientInv'
<1> DEFINE p == Head(pending)
<1>1. /\ toClient' = Tail(toClient) /\ half' = "none"
      /\ UNCHANGED <<sock, destroyed, timer, serverDb, listening>>
      /\ ClientTypeOK
  BY DEF Resolve, ClientInv
<1>2. PICK sends \in Seq(Commands) :
        /\ pending' = Tail(pending) \o sends /\ toServer' = toServer \o sends
        /\ sends = <<>> \/ (Len(sends) = 1 /\ IsStep(sends[1]) /\ sends[1].op = phase')
        /\ IF IsStep(p)
           THEN /\ phase' \in {"auth", "select", "ready"}
                /\ p.op # "select" /\ options.db > 0 => phase' # "ready"
           ELSE sends = <<>> /\ phase' = phase
  BY ResolveSends
<1>3. /\ Tail(pending) \in Seq(Commands) /\ p \in Commands /\ p = pending[1] /\ 1 \in DOMAIN pending
      /\ \A i \in DOMAIN Tail(pending) :
           /\ i + 1 \in DOMAIN pending /\ Tail(pending)[i] = pending[i + 1]
           /\ i \in Nat /\ i >= 1
  BY <1>1 DEF ClientTypeOK
<1>4. /\ toClient' \in Seq(Replies) /\ LastSelect'
      /\ \A i \in DOMAIN toClient :
           i = 1 \/ (i - 1 \in DOMAIN toClient' /\ toClient'[i - 1] = toClient[i])
      /\ 1 \in DOMAIN toClient /\ Head(toClient) = toClient[1]
      /\ \A i \in DOMAIN toClient' : i + 1 \in DOMAIN toClient /\ toClient'[i] = toClient[i + 1]
  BY <1>1, TakeSelect
<1>5. outcome' = [n \in Request |-> IF n # p.n THEN outcome[n]
                                   ELSE IF v.cmd = p /\ ~v.extra THEN "own" ELSE "other"]
  BY DEF Resolve
<1> HIDE DEF p
<1>6. ClientTypeOK'
  <2>1. phase' \in {"down", "auth", "select", "ready"}
    BY <1>1, <1>2 DEF ClientTypeOK
  <2>2. outcome' \in [Request -> {"unsent", "waiting", "own", "other", "failed"}]
    BY <1>1, <1>5 DEF ClientTypeOK
  <2>3. pending' \in Seq(Commands) /\ toServer' \in Seq(Commands)
    BY <1>1, <1>2, <1>3, ConcatProperties DEF ClientTypeOK
  <2> QED
    BY <1>1, <1>4, <2>1, <2>2, <2>3 DEF ClientTypeOK
<1>7. AtRest'
  BY <1>1, <1>2 DEF ClientInv, AtRest
<1>8. OneStep'
  <2>1. CASE IsStep(p)
    <3>1. \A i \in DOMAIN Tail(pending) : ~IsStep(Tail(pending)[i])
      <4> SUFFICES ASSUME NEW i \in DOMAIN Tail(pending), IsStep(Tail(pending)[i]) PROVE FALSE
        OBVIOUS
      <4>1. i + 1 = 1
        BY <1>3, <2>1 DEF ClientInv, OneStep
      <4> QED
        BY <1>3, <4>1
    <3> QED
      BY <1>2, <1>3, <3>1, OneStepSends DEF OneStep
  <2>2. CASE ~IsStep(p)
    <3>1. pending' = Tail(pending) /\ phase' = phase
      BY <1>2, <1>3, <2>2
    <3>2. ASSUME NEW i \in DOMAIN pending', NEW j \in DOMAIN pending',
                 IsStep(pending'[i]), IsStep(pending'[j])
          PROVE  i = j
      <4>1. i + 1 = j + 1
        BY <1>3, <3>1, <3>2 DEF ClientInv, OneStep
      <4> QED
        BY <1>3, <3>1, <4>1
    <3>3. \A i \in DOMAIN pending' : IsStep(pending'[i]) => pending'[i].op = phase'
      BY <1>3, <3>1 DEF ClientInv, OneStep
    <3> QED
      BY <3>2, <3>3 DEF OneStep
  <2> QED
    BY <2>1, <2>2
<1>9. Orderly' => /\ Orderly /\ v = Head(toClient) /\ v.cmd = p /\ ~v.extra
                  /\ Paired(Tail(pending), toClient', toServer)
  <2> SUFFICES ASSUME Orderly
               PROVE  /\ v = Head(toClient) /\ v.cmd = p /\ ~v.extra
                      /\ Paired(Tail(pending), toClient', toServer)
    BY DEF Orderly
  <2>1. Paired(pending, toClient, toServer) /\ half # "old"
    BY DEF ClientInv, InOrder, Live, Orderly
  <2> QED
    BY <1>1, <2>1, PairedTake DEF ClientTypeOK, p
<1>10. ASSUME NEW op \in {"subscribe", "console"}
       PROVE  /\ (\A i \in DOMAIN toServer : toServer[i].op # op)
                   => \A i \in DOMAIN toServer' : toServer'[i].op # op
              /\ (\A i \in DOMAIN pending : pending[i].op # op)
                   => \A i \in DOMAIN pending' : pending'[i].op # op
  <2>1. sends # <<>> => sends[1].op # op
    BY <1>2, <1>10 DEF IsStep
  <2>2. ASSUME NEW S \in Seq(Commands), \A i \in DOMAIN S : S[i].op # op
        PROVE  \A i \in DOMAIN (S \o sends) : (S \o sends)[i].op # op
    BY <1>2, <2>1, <2>2
  <2>3. (\A i \in DOMAIN pending : pending[i].op # op)
          => \A i \in DOMAIN Tail(pending) : Tail(pending)[i].op # op
    BY <1>3
  <2> QED
    BY <1>1, <1>2, <1>3, <2>2, <2>3 DEF ClientTypeOK
<1>11. InOrder'
  <2>1. (Orderly /\ Live => Paired(pending, toClient, toServer))'
    BY <1>1, <1>2, <1>3, <1>4, <1>9, PairedSend DEF ClientTypeOK
  <2>2. (Live /\ ~carried => half # "old")'
    BY <1>1
  <2>3. (~subscribed => ~listening /\ \A i \in DOMAIN toServer : toServer[i].op # "subscribe")'
    BY <1>1, <1>10 DEF ClientInv, InOrder
  <2> QED
    BY <2>1, <2>2, <2>3 DEF InOrder
<1>12. OwnReplies'
  BY <1>5, <1>9 DEF ClientInv, OwnReplies, Orderly
<1>13. Believes'
  <2> SUFFICES ASSUME trusted', Orderly'
               PROVE  /\ \A i \in DOMAIN pending' : pending'[i].op # "console"
                      /\ (Live /\ NoneReturning /\ (phase = "ready" \/ options.db = 0)
                            => currentDb = serverDb)'
    BY DEF Believes
  <2>1. CASE Selected(v, p)
    <3>1. currentDb' = p.db /\ \A i \in DOMAIN pending : pending[i].op # "console"
      BY <2>1 DEF Resolve, p
    <3>2. Selects(toClient[1]) /\ toClient[1].cmd.db = p.db
      BY <1>4, <1>9, <2>1 DEF Selected, Selects
    <3>3. NoneReturning' => serverDb = p.db
      <4> SUFFICES ASSUME NoneReturning' PROVE serverDb = p.db
        OBVIOUS
      <4>1. \A j \in DOMAIN toClient : j > 1 => ~Selects(toClient[j])
        BY <1>4 DEF NoneReturning
      <4> QED
        BY <1>4, <3>2, <4>1 DEF ClientInv, LastSelect
    <3> QED
      BY <1>1, <1>10, <3>1, <3>3
  <2>2. CASE ~Selected(v, p)
    <3>1. currentDb' = currentDb /\ trusted' = trusted
      BY <2>2 DEF Resolve, p
    <3>2. /\ \A i \in DOMAIN pending : pending[i].op # "console"
          /\ Live /\ NoneReturning /\ (phase = "ready" \/ options.db = 0) => currentDb = serverDb
      BY <1>9, <3>1 DEF ClientInv, Believes
    <3>3. ~Selects(toClient[1])
      BY <1>3, <1>4, <1>9, <2>2, <3>2 DEF Selected, Selects
    <3>4. NoneReturning' => NoneReturning
      BY <1>4, <3>3 DEF NoneReturning
    <3>5. phase' = "ready" \/ options'.db = 0 => phase = "ready" \/ options.db = 0
      <4>1. options.db \in {0, 1}
        BY <1>1, OptionsDb DEF ClientTypeOK
      <4>2. IsStep(p) => p.op = "auth"
        BY <2>2 DEF IsStep, Refused, Selected, p
      <4> QED
        BY <1>2, <4>1, <4>2
    <3> QED
      BY <1>1, <1>10, <3>1, <3>2, <3>4, <3>5 DEF Live
  <2> QED
    BY <2>1, <2>2
<1> QED
  BY <1>4, <1>6, <1>7, <1>8, <1>11, <1>12, <1>13 DEF ClientInv

\* Whatever the parser makes of the bytes that come in.
LEMMA TakeValueKeeps ==
  ASSUME ClientInv, NEW v \in Replies, sock = "open", toClient # <<>>,
         v = Head(toClient) \/ half = "old", TakeValue(v),
         UNCHANGED <<options, subscribed, carried>>
  PROVE  ClientInv'
<1>1. CASE pending = <<>>
  BY <1>1, EmitKeeps DEF TakeValue, Emit
<1>2. CASE pending # <<>> /\ Refused(v)
  BY <1>2, DestroyKeeps DEF TakeValue, GivesUp
<1>3. CASE pending # <<>> /\ ~Refused(v)
  BY <1>3, ResolveKeeps DEF TakeValue
<1> QED
  BY <1>1, <1>2, <1>3

\* What comes in behind half a reply of an older link is not in order any more.
LEMMA ArrivesKeeps ==
  ASSUME ClientInv, Arrives
  PROVE  ClientInv'
<1>1. sock = "open" /\ toClient # <<>> /\ UNCHANGED <<options, subscribed, carried>>
  BY DEF Arrives
<1>2. CASE half # "old"
  <2>1. Head(toClient) \in Replies
    BY <1>1 DEF ClientInv, ClientTypeOK
  <2> QED
    BY <1>1, <1>2, <2>1, TakeValueKeeps DEF Arrives
<1>3. CASE half = "old"
  <2>1. \A ok \in BOOLEAN : Reply(Unasked, ok, TRUE) \in Replies
    BY DEF Reply, Replies
  <2>2. CASE \E ok \in BOOLEAN : TakeValue(Reply(Unasked, ok, TRUE))
    BY <1>1, <1>3, <2>1, <2>2, TakeValueKeeps
  <2>3. CASE /\ toClient' = Tail(toClient)
             /\ UNCHANGED <<sock, phase, destroyed, timer, pending, currentDb, half, toServer,
                            serverDb, listening, outcome, trusted>>
    BY <1>1, <1>3, <2>3, EmitKeeps
  <2> QED
    BY <1>3, <2>2, <2>3 DEF Arrives
<1> QED
  BY <1>2, <1>3

-----------------------------------------------------------------------------
(* The client under its owners.                                            *)

\* A new client has nothing on its way.
LEMMA InitClientInv ==
  ASSUME ClientInit
  PROVE  ClientInv
<1>1. DOMAIN pending = {} /\ DOMAIN toServer = {} /\ DOMAIN toClient = {}
  BY DEF ClientInit
<1> QED
  BY <1>1 DEF ClientInit, ClientInv, ClientTypeOK, AtRest, InOrder, OneStep, LastSelect, Believes,
              OwnReplies, Live

\* Every step of the client's owners keeps what the client relies on.
LEMMA ManagerStepClientInv ==
  ASSUME ClientInv, [ManagerNext]_ownerVars
  PROVE  ClientInv'
<1>1. CASE ManagerConnect
  <2>1. options' \in Profiles \cup {PanelOptions}
    BY <1>1 DEF ManagerConnect
  <2> QED
    BY <1>1, <2>1, OpenKeeps DEF ManagerConnect
<1>2. CASE LinkUp
  BY <1>2, TcpConnectedKeeps DEF LinkUp
<1>3. CASE LinkDown
  BY <1>3, LinkBreaksKeeps DEF LinkDown
<1>4. CASE TimesOut \/ ConnectError
  <2>1. ConnectFails
    BY <1>4 DEF TimesOut, ConnectError
  <2>2. phase' = "down" /\ half' \in {"none", "current", "old"}
    BY <2>1 DEF ConnectFails, ClientInv, AtRest, ClientTypeOK
  <2> QED
    BY <2>1, <2>2, CloseKeeps DEF ConnectFails
<1>5. CASE Arrive
  BY <1>5, ArrivesKeeps DEF Arrive
<1>6. CASE UNCHANGED clientVars
  BY <1>6 DEF clientVars, ClientInv, ClientTypeOK, AtRest, InOrder, OneStep, LastSelect, Believes,
              OwnReplies, Orderly, Live, NoneReturning
<1>7. CASE LetGo
  BY <1>6, <1>7, DestroyKeeps DEF LetGo, Disconnect
<1>8. ASSUME NEW n \in Request, ExecuteCall(n)
      PROVE  ClientInv'
  BY <1>8, AskKeeps DEF ExecuteCall
<1>9. CASE Alone
  BY <1>9, TimerKeeps, ServerAnswersKeeps, ServerPushesKeeps, HalfArrivesKeeps DEF Alone
<1>10. CASE UNCHANGED ownerVars
  BY <1>6, <1>10 DEF ownerVars
<1> QED
  BY <1>1, <1>2, <1>3, <1>4, <1>5, <1>7, <1>8, <1>9, <1>10 DEF ManagerNext

\* The invariant of the client holds under its owners.
LEMMA ClientInvariant == ManagerSpec => []ClientInv
<1>1. ManagerInit => ClientInv
  BY InitClientInv DEF ManagerInit
<1>2. ClientInv /\ [ManagerNext]_ownerVars => ClientInv'
  BY ManagerStepClientInv
<1> QED
  BY <1>1, <1>2, PTL DEF ManagerSpec

\* What the manager shows follows from what it holds, and from when it tells.
LEMMA ManagerStepShown ==
  ASSUME ClientInv, ClientInv', ManagerHolds, ShownStatus, [ManagerNext]_ownerVars
  PROVE  ManagerHolds' /\ ShownStatus'
<1>1. /\ phase = "down" <=> sock # "open"
      /\ phase' = "down" <=> sock' # "open"
      /\ timer => sock = "closed"
      /\ sock \in {"none", "connecting", "open", "closed"}
      /\ sock' \in {"none", "connecting", "open", "closed"}
      /\ phase \in {"down", "auth", "select", "ready"}
      /\ phase' \in {"down", "auth", "select", "ready"}
  BY DEF ClientInv, AtRest, ClientTypeOK
<1> USE DEF ManagerHolds, ShownStatus, Connected, Live
<1>2. CASE ManagerConnect
  <2>1. Managed' <=> Managed
    <3>1. CASE Managed
      BY <1>2, <3>1 DEF ManagerConnect, Profiles, Managed
    <3>2. CASE ~Managed
      BY <1>2, <3>2 DEF ManagerConnect, PanelOptions, Managed
    <3> QED
      BY <3>1, <3>2
  <2>2. /\ held' /\ phase' = "down" /\ ~timer' /\ sock' = "connecting" /\ call' = "pending"
        /\ IF held THEN ~shown' ELSE shown' = shown /\ refused' = refused
    BY <1>2 DEF ManagerConnect, OpenSocket
  <2> QED
    BY <2>1, <2>2
<1>3. CASE LinkUp
  <2>1. /\ sock = "connecting" /\ sock' = "open" /\ options' = options /\ timer' = timer
        /\ shown'
    BY <1>3 DEF LinkUp, TcpConnected, Notify
  <2>2. /\ call' = (IF call # "pending" THEN call ELSE IF phase' = "ready" THEN "ok" ELSE "pending")
        /\ held' <=> held /\ ~(Managed /\ call' = "failed")
    BY <1>3, <2>1 DEF LinkUp, Settle
  <2> QED
    BY <1>1, <2>1, <2>2 DEF Managed
<1>4. CASE LinkDown
  <2>1. /\ sock = "open" /\ options' = options /\ sock' \in {"none", "closed"} /\ ~shown'
        /\ timer' => options.autoReconnect /\ phase = "ready"
    BY <1>1, <1>4 DEF LinkDown, LinkBreaks, Notify, Destroy, ClientInv, ClientTypeOK
  <2>2. /\ call' = (IF call # "pending" THEN call ELSE "failed")
        /\ held' <=> held /\ ~(Managed /\ call' = "failed")
    BY <1>1, <1>4, <2>1 DEF LinkDown, Settle
  <2> QED
    BY <1>1, <2>1, <2>2 DEF Managed
<1>5. CASE TimesOut \/ ConnectError
  <2>1. /\ sock = "connecting" /\ sock' = "closed" /\ options' = options
        /\ timer' = timer /\ shown' = shown /\ refused' = refused
    BY <1>5 DEF TimesOut, ConnectError, ConnectFails, Silent
  <2>2. Managed => /\ call' = (IF call # "pending" THEN call ELSE "failed")
                   /\ held' <=> held /\ ~(call' = "failed")
    BY <1>1, <1>5, <2>1 DEF TimesOut, ConnectError, Settle
  <2> QED
    BY <1>1, <2>1, <2>2 DEF Managed
<1>6. CASE Arrive
  <2>1. options' = options /\ sock = "open"
    BY <1>6 DEF Arrive, Arrives
  <2>2. /\ IF phase' = "ready" /\ phase # "ready" THEN shown'
           ELSE shown' = shown /\ (refused' <=> refused \/ (destroyed' /\ ~destroyed))
        /\ call' = (IF call # "pending" THEN call
                    ELSE IF phase' = "ready" THEN "ok"
                    ELSE IF sock' \in {"none", "closed"} THEN "failed" ELSE "pending")
        /\ held' <=> held /\ ~(Managed /\ call' = "failed")
    BY <1>6 DEF Arrive, Settle, Notify
  <2>3. \/ sock' = "open" /\ timer' = timer
        \/ sock' = "none" /\ ~timer' /\ destroyed'
    BY <1>6, <2>1 DEF Arrive, Arrives, TakeValue, Emit, GivesUp, Destroy, Resolve
  <2>4. ~destroyed
    BY <2>1 DEF ClientInv, AtRest
  <2>5. Managed' <=> Managed
    BY <2>1 DEF Managed
  <2>6. CASE sock' = "open" /\ timer' = timer
    <3>1. Managed => held /\ call # "failed"
      BY <2>1
    <3>2. phase' # "down" /\ ~timer
      BY <1>1, <2>1, <2>6
    <3>3. Managed => held' /\ call' # "failed" /\ (call' = "pending" => phase' # "ready")
      BY <2>2, <2>6, <3>1
    <3> QED
      BY <1>1, <2>1, <2>2, <2>5, <2>6, <3>1, <3>2, <3>3
  <2>7. CASE sock' = "none" /\ ~timer' /\ destroyed'
    <3>1. phase' = "down" /\ refused'
      BY <1>1, <2>2, <2>4, <2>7
    <3> QED
      BY <2>2, <2>5, <2>7, <3>1
  <2> QED
    BY <2>3, <2>6, <2>7
<1>7. CASE LetGo
  <2>1. options' = options /\ ~held' /\ ~shown' /\ call' = "none"
    BY <1>7 DEF LetGo, Disconnect, Notify, clientVars
  <2>2. sock' = "none" /\ ~timer'
    BY <1>1, <1>7 DEF LetGo, Disconnect, Destroy, clientVars
  <2> QED
    BY <1>1, <2>1, <2>2
<1>8. ASSUME NEW n \in Request, ExecuteCall(n)
      PROVE  ManagerHolds' /\ ShownStatus'
  <2>1. UNCHANGED <<options, sock, phase, timer, held, call, shown, refused>>
    BY <1>8 DEF ExecuteCall, Ask, SendRaw, managerVars
  <2> QED
    BY <2>1 DEF Managed
<1>9. CASE Alone
  <2>1. UNCHANGED <<options, phase, held, call, shown, refused>>
    BY <1>9 DEF Alone, TimerFires, ServerAnswers, ServerPushes, HalfArrives, managerVars
  <2>2. CASE TimerFires
    <3>1. timer /\ ~timer' /\ sock' = "connecting"
      BY <2>2 DEF TimerFires, OpenSocket
    <3> QED
      BY <2>1, <3>1 DEF Managed
  <2>3. CASE ServerAnswers \/ ServerPushes \/ HalfArrives
    <3>1. UNCHANGED <<sock, timer>>
      BY <2>3 DEF ServerAnswers, ServerPushes, HalfArrives
    <3> QED
      BY <2>1, <3>1 DEF Managed
  <2> QED
    BY <1>9, <2>2, <2>3 DEF Alone
<1>10. CASE UNCHANGED ownerVars
  BY <1>10 DEF ownerVars, clientVars, managerVars, Managed
<1> QED
  BY <1>2, <1>3, <1>4, <1>5, <1>6, <1>7, <1>8, <1>9, <1>10 DEF ManagerNext

-----------------------------------------------------------------------------
(* The theorems.                                                           *)

\* No request is resolved with the answer to another (_onData pairs by order).
THEOREM RepliesAreOwn == ManagerSpec => []OwnReplies
<1>1. ClientInv => OwnReplies
  BY DEF ClientInv
<1> QED
  BY <1>1, ClientInvariant, PTL

\* _currentDb is the database the connection is in, once no SELECT is under way.
THEOREM DatabaseIsBelieved == ManagerSpec => []BelievedDb
<1>1. ClientInv => BelievedDb
  <2> SUFFICES ASSUME ClientInv, trusted, ~subscribed, ~carried, phase = "ready",
                      \A i \in DOMAIN pending : pending[i].op # "selectDb"
               PROVE  currentDb = serverDb
    BY DEF BelievedDb
  <2>1. Live
    BY DEF ClientInv, AtRest, Live, ClientTypeOK
  <2>2. Paired(pending, toClient, toServer) /\ \A i \in DOMAIN pending : pending[i].op # "console"
    BY <2>1 DEF ClientInv, InOrder, Believes, Orderly
  <2>3. \A i \in DOMAIN pending : pending[i].op # "select"
    BY DEF ClientInv, OneStep, IsStep
  <2>4. \A i \in DOMAIN toClient : i \in DOMAIN pending /\ toClient[i].cmd = pending[i]
    BY <2>2 DEF ClientInv, ClientTypeOK, Paired
  <2>5. NoneReturning
    BY <2>2, <2>3, <2>4 DEF NoneReturning, Selects
  <2> QED
    BY <2>1, <2>5 DEF ClientInv, Believes, Orderly
<1> QED
  BY <1>1, ClientInvariant, PTL

\* disconnect() is final: nothing that was under way brings the client back.
THEOREM DisconnectIsFinal == ManagerSpec => []DestroyedIsFinal
<1>1. ClientInv => DestroyedIsFinal
  BY DEF ClientInv, AtRest, DestroyedIsFinal, Connected
<1> QED
  BY <1>1, ClientInvariant, PTL

\* The window shows a connection exactly when the manager has one, refused
\* handshakes aside (_notifyStatus).
THEOREM StatusIsShown == ManagerSpec => []ShownStatus
<1>1. ManagerInit => ManagerHolds /\ ShownStatus
  BY DEF ManagerInit, ClientInit, ManagerHolds, ShownStatus, Connected, Live
<1>2. ManagerHolds /\ ShownStatus /\ ClientInv /\ ClientInv' /\ [ManagerNext]_ownerVars
        => ManagerHolds' /\ ShownStatus'
  BY ManagerStepShown
<1> QED
  BY <1>1, <1>2, ClientInvariant, PTL DEF ManagerSpec

-----------------------------------------------------------------------------
(* WebConsole: what waits for an answer and what is under way.             *)

\* Sequences of whatever: messages are not typed here, for an answer's result is a
\* page of keys or 0.
IsSequence(q) == \E S : q \in Seq(S)

\* Its length is a number and its domain the places up to it.
LEMMA SequenceIs ==
  ASSUME NEW q, IsSequence(q)
  PROVE  Len(q) \in Nat /\ DOMAIN q = 1..Len(q)
BY DEF IsSequence

\* r is q with v in place i.
Put(r, q, i, v) ==
  /\ IsSequence(r) /\ Len(r) = Len(q) /\ r[i] = v
  /\ \A n \in 1..Len(q) : n # i => r[n] = q[n]

\* EXCEPT puts a value.
LEMMA SequencePut ==
  ASSUME NEW q, IsSequence(q), NEW i \in 1..Len(q), NEW v
  PROVE  Put([q EXCEPT ![i] = v], q, i, v)
<1>1. PICK S : q \in Seq(S)
  BY DEF IsSequence
<1>2. q \in Seq(S \cup {v})
  BY <1>1
<1> QED
  BY <1>2 DEF IsSequence, Put

\* Append adds one at the end.
LEMMA SequenceAppend ==
  ASSUME NEW q, IsSequence(q), NEW v
  PROVE  /\ IsSequence(Append(q, v)) /\ Len(Append(q, v)) = Len(q) + 1
         /\ \A n \in 1..(Len(q) + 1) : Append(q, v)[n] = IF n = Len(q) + 1 THEN v ELSE q[n]
<1>1. PICK S : q \in Seq(S)
  BY DEF IsSequence
<1>2. q \in Seq(S \cup {v}) /\ v \in S \cup {v}
  BY <1>1
<1> QED
  BY <1>2, AppendProperties DEF IsSequence

\* \o puts one sequence after the other.
LEMMA SequenceConcat ==
  ASSUME NEW q, IsSequence(q), NEW r, IsSequence(r)
  PROVE  /\ IsSequence(q \o r) /\ Len(q \o r) = Len(q) + Len(r)
         /\ \A n \in 1..(Len(q) + Len(r)) :
              (q \o r)[n] = IF n <= Len(q) THEN q[n] ELSE r[n - Len(q)]
<1>1. PICK S : q \in Seq(S)
  BY DEF IsSequence
<1>2. PICK T : r \in Seq(T)
  BY DEF IsSequence
<1>3. q \in Seq(S \cup T) /\ r \in Seq(S \cup T)
  BY <1>1, <1>2
<1> QED
  BY <1>3, ConcatProperties DEF IsSequence

\* Tail moves every value one place down.
LEMMA SequenceTail ==
  ASSUME NEW q, IsSequence(q), q # <<>>
  PROVE  /\ IsSequence(Tail(q)) /\ Len(Tail(q)) = Len(q) - 1 /\ Len(q) >= 1 /\ Head(q) = q[1]
         /\ \A n \in 1..(Len(q) - 1) : Tail(q)[n] = q[n + 1]
<1>1. PICK S : q \in Seq(S)
  BY DEF IsSequence
<1>2. Tail(q) \in Seq(S) /\ Len(Tail(q)) = Len(q) - 1 /\ Head(q) = q[1]
      /\ \A n \in 1..(Len(q) - 1) : Tail(q)[n] = q[n + 1]
  BY <1>1, HeadTailProperties
<1>3. Len(q) >= 1
  BY <1>1, EmptySeq
<1> QED
  BY <1>2, <1>3 DEF IsSequence

\* Messages under way have a number up to top of their own.
Numbered(w, top) ==
  /\ \A n \in 1..Len(w) : w[n].id \in 1..top
  /\ \A m, n \in 1..Len(w) : w[m].id = w[n].id => m = n

\* The messages w of an open socket s and the callbacks that wait on it are the same.
Served(w, s, calls) ==
  /\ \A n \in 1..Len(w) : w[n].op # "FLUSHDB" =>
       /\ w[n].id \in DOMAIN calls /\ calls[w[n].id].via = s
       /\ calls[w[n].id].op = w[n].op /\ calls[w[n].id].arg = w[n].arg
  /\ \A i \in DOMAIN calls : calls[i].via = s /\ calls[i].op # "FLUSHDB" =>
       \E n \in 1..Len(w) : w[n].id = i /\ w[n].op # "FLUSHDB"

\* A request for confirmation answers FLUSHDB, and a page of keys is finite.
Answer(e) ==
  /\ e.answer = "confirm" <=> e.op = "FLUSHDB"
  /\ e.op = "SCAN" /\ e.answer = "ok" => IsFiniteSet(e.result.keys)

Socket(b, s, calls, top) ==
  /\ b = [state |-> b.state, db |-> b.db, chose |-> b.chose, inbox |-> b.inbox, outbox |-> b.outbox]
  /\ IsSequence(b.inbox) /\ IsSequence(b.outbox)
  /\ \A n \in 1..Len(b.outbox) : Answer(b.outbox[n])
  /\ Numbered(b.outbox \o b.inbox, top)
  /\ b.state = "open" => Served(b.outbox \o b.inbox, s, calls)
  /\ b.state = "connecting" => b.outbox = <<>> /\ b.inbox = <<>>

\* A callback has a number that was given, waits on a socket that was open, and
\* collects finitely many keys.
Waits(callback, i, socks, top) ==
  /\ i \in 1..top
  /\ callback.via \in 1..Len(socks) /\ socks[callback.via].state # "connecting"
  /\ callback.then = "scanned" => IsFiniteSet(callback.info)

Routed(socks, calls, top) ==
  /\ top \in Nat /\ IsSequence(socks)
  /\ \A s \in 1..Len(socks) : Socket(socks[s], s, calls, top)
  /\ \A i \in DOMAIN calls : Waits(calls[i], i, socks, top)

\* The commands of one gesture or callback.
Asks(asks) ==
  /\ IsSequence(asks)
  /\ \A n \in 1..Len(asks) : asks[n].then = "scanned" => IsFiniteSet(asks[n].info)

-----------------------------------------------------------------------------
\* The same messages, all but the first of them, and others after them.
Alike(v, w) ==
  /\ Len(v) = Len(w)
  /\ \A n \in 1..Len(w) : v[n].id = w[n].id /\ v[n].op = w[n].op /\ v[n].arg = w[n].arg
Follows(v, w) ==
  /\ Len(w) \in Nat /\ Len(w) >= 1 /\ Len(v) = Len(w) - 1
  /\ \A n \in 1..(Len(w) - 1) : v[n] = w[n + 1]
Continues(v, w, q) ==
  /\ Len(w) \in Nat /\ Len(q) \in Nat /\ Len(v) = Len(w) + Len(q)
  /\ \A n \in 1..(Len(w) + Len(q)) : v[n] = IF n <= Len(w) THEN w[n] ELSE q[n - Len(w)]

\* What is under way depends on number, command and argument alone.
LEMMA SameWay ==
  ASSUME NEW w, NEW v, Alike(v, w), NEW s, NEW calls, NEW top
  PROVE  /\ Numbered(w, top) => Numbered(v, top)
         /\ Served(w, s, calls) => Served(v, s, calls)
<1>1. ASSUME Numbered(w, top) PROVE Numbered(v, top)
  BY <1>1 DEF Numbered, Alike
<1>2. ASSUME Served(w, s, calls) PROVE Served(v, s, calls)
  <2>1. \A n \in 1..Len(v) : v[n].op # "FLUSHDB" =>
          /\ v[n].id \in DOMAIN calls /\ calls[v[n].id].via = s
          /\ calls[v[n].id].op = v[n].op /\ calls[v[n].id].arg = v[n].arg
    BY <1>2 DEF Served, Alike
  <2>2. \A i \in DOMAIN calls : calls[i].via = s /\ calls[i].op # "FLUSHDB" =>
          \E n \in 1..Len(v) : v[n].id = i /\ v[n].op # "FLUSHDB"
    <3> TAKE i \in DOMAIN calls
    <3> HAVE calls[i].via = s /\ calls[i].op # "FLUSHDB"
    <3>1. PICK n \in 1..Len(w) : w[n].id = i /\ w[n].op # "FLUSHDB"
      BY <1>2 DEF Served
    <3>2. n \in 1..Len(v) /\ v[n].id = i /\ v[n].op # "FLUSHDB"
      BY <3>1 DEF Alike
    <3> QED BY <3>2
  <2> QED BY <2>1, <2>2 DEF Served
<1> QED BY <1>1, <1>2

\* A message that has come in is answered: what is under way stays.
LEMMA AnsweredWay ==
  ASSUME NEW o, IsSequence(o), NEW i, IsSequence(i), i # <<>>,
         NEW e, e.id = Head(i).id, e.op = Head(i).op, e.arg = Head(i).arg
  PROVE  Alike(Append(o, e) \o Tail(i), o \o i)
<1> DEFINE a == Append(o, e)
           r == Tail(i)
           v == a \o r
           w == o \o i
           O == Len(o)
           K == Len(i)
<1>0. O \in Nat /\ K \in Nat
  BY SequenceIs
<1>1. IsSequence(r) /\ Len(r) = K - 1 /\ K >= 1 /\ Head(i) = i[1] /\ \A n \in 1..(K - 1) : r[n] = i[n + 1]
  BY SequenceTail
<1>2. IsSequence(a) /\ Len(a) = O + 1 /\ \A n \in 1..(O + 1) : a[n] = IF n = O + 1 THEN e ELSE o[n]
  BY SequenceAppend
<1>3. Len(w) = O + K /\ \A n \in 1..(O + K) : w[n] = IF n <= O THEN o[n] ELSE i[n - O]
  BY SequenceConcat
<1> HIDE DEF a, r
<1>4. Len(v) = Len(a) + Len(r) /\ \A n \in 1..(Len(a) + Len(r)) : v[n] = IF n <= Len(a) THEN a[n] ELSE r[n - Len(a)]
  BY <1>1, <1>2, SequenceConcat
<1> HIDE DEF v, w, O, K
<1>5. (O + 1) + (K - 1) = O + K
  BY <1>0
<1>6. Len(v) = O + K /\ \A n \in 1..(O + K) : v[n] = IF n <= O + 1 THEN a[n] ELSE r[n - (O + 1)]
  BY <1>1, <1>2, <1>4, <1>5
<1>7. ASSUME NEW n \in 1..(O + K)
      PROVE  v[n].id = w[n].id /\ v[n].op = w[n].op /\ v[n].arg = w[n].arg
  <2>1. n \in Nat /\ n >= 1 /\ n <= O + K
    BY <1>0
  <2>2. CASE n <= O
    <3>1. n \in 1..(O + 1) /\ n # O + 1 /\ n <= O + 1
      BY <1>0, <2>1, <2>2
    <3> QED BY <1>2, <1>3, <1>6, <2>2, <3>1
  <2>3. CASE n = O + 1
    <3>1. ~(n <= O) /\ n - O = 1 /\ n <= O + 1 /\ n \in 1..(O + 1)
      BY <1>0, <2>1, <2>3
    <3>2. v[n] = e /\ w[n] = i[1]
      BY <1>2, <1>3, <1>6, <2>3, <3>1
    <3> QED BY <1>1, <3>2
  <2>4. CASE n > O + 1
    <3>1. ~(n <= O) /\ ~(n <= O + 1) /\ n - (O + 1) \in 1..(K - 1) /\ (n - (O + 1)) + 1 = n - O
      BY <1>0, <2>1, <2>4
    <3>2. v[n] = r[n - (O + 1)] /\ w[n] = i[n - O]
      BY <1>3, <1>6, <3>1
    <3>3. r[n - (O + 1)] = i[n - O]
      BY <1>1, <3>1
    <3> QED BY <3>2, <3>3
  <2> QED BY <1>0, <2>1, <2>2, <2>3, <2>4
<1>8. Len(v) = Len(w) /\ \A n \in 1..Len(w) : v[n].id = w[n].id /\ v[n].op = w[n].op /\ v[n].arg = w[n].arg
  BY <1>3, <1>6, <1>7
<1>9. Alike(v, w)
  BY <1>8 DEF Alike
<1> QED BY <1>9 DEF v, w, a, r

\* A message that is delivered was the first one under way.
LEMMA DeliveredWay ==
  ASSUME NEW o, IsSequence(o), NEW i, IsSequence(i), o # <<>>
  PROVE  Follows(Tail(o) \o i, o \o i) /\ (o \o i)[1] = Head(o)
<1> DEFINE r == Tail(o)
           v == r \o i
           w == o \o i
           O == Len(o)
           K == Len(i)
<1>0. O \in Nat /\ K \in Nat
  BY SequenceIs
<1>1. IsSequence(r) /\ Len(r) = O - 1 /\ O >= 1 /\ Head(o) = o[1] /\ \A n \in 1..(O - 1) : r[n] = o[n + 1]
  BY SequenceTail
<1>3. Len(w) = O + K /\ \A n \in 1..(O + K) : w[n] = IF n <= O THEN o[n] ELSE i[n - O]
  BY SequenceConcat
<1> HIDE DEF r
<1>4. Len(v) = Len(r) + K /\ \A n \in 1..(Len(r) + K) : v[n] = IF n <= Len(r) THEN r[n] ELSE i[n - Len(r)]
  BY <1>1, SequenceConcat
<1> HIDE DEF v, w, O, K
<1>5. (O - 1) + K = (O + K) - 1
  BY <1>0
<1>6. Len(v) = (O + K) - 1 /\ \A n \in 1..((O + K) - 1) : v[n] = IF n <= O - 1 THEN r[n] ELSE i[n - (O - 1)]
  BY <1>1, <1>4, <1>5
<1>7. ASSUME NEW n \in 1..((O + K) - 1)
      PROVE  v[n] = w[n + 1]
  <2>1. n \in Nat /\ n >= 1 /\ n + 1 \in 1..(O + K)
    BY <1>0
  <2>2. CASE n <= O - 1
    <3>1. n \in 1..(O - 1) /\ n + 1 <= O
      BY <1>0, <2>1, <2>2
    <3> QED BY <1>1, <1>3, <1>6, <2>1, <2>2, <3>1
  <2>3. CASE ~(n <= O - 1)
    <3>1. ~(n + 1 <= O) /\ (n + 1) - O = n - (O - 1)
      BY <1>0, <2>1, <2>3
    <3> QED BY <1>3, <1>6, <2>1, <2>3, <3>1
  <2> QED BY <2>2, <2>3
<1>8. O + K \in Nat /\ O + K >= 1 /\ 1 \in 1..(O + K) /\ 1 <= O
  BY <1>0, <1>1
<1>9. w[1] = o[1]
  BY <1>3, <1>8
<1>10. /\ Len(w) \in Nat /\ Len(w) >= 1 /\ w[1] = Head(o) /\ Len(v) = Len(w) - 1
       /\ \A n \in 1..(Len(w) - 1) : v[n] = w[n + 1]
  BY <1>1, <1>3, <1>6, <1>7, <1>8, <1>9
<1>11. Follows(v, w) /\ w[1] = Head(o)
  BY <1>10 DEF Follows
<1> QED BY <1>11 DEF v, w, r

\* The messages that stay keep their numbers.
LEMMA DeliveredNumbers ==
  ASSUME NEW w, NEW v, Follows(v, w), NEW top, Numbered(w, top)
  PROVE  Numbered(v, top)
<1> USE DEF Follows
<1>1. \A n \in 1..(Len(w) - 1) : n \in Int /\ n + 1 \in 1..Len(w)
  OBVIOUS
<1>2. ASSUME NEW n \in 1..Len(v) PROVE v[n].id \in 1..top
  BY <1>1 DEF Numbered
<1>3. ASSUME NEW m \in 1..Len(v), NEW n \in 1..Len(v), v[m].id = v[n].id PROVE m = n
  <2>1. m + 1 = n + 1
    BY <1>1, <1>3 DEF Numbered
  <2> QED BY <1>1, <2>1
<1> QED BY <1>2, <1>3 DEF Numbered

\* The callback of a delivered answer goes with it; a request for confirmation leaves
\* every callback in place.
LEMMA DeliveredServed ==
  ASSUME NEW w, NEW v, Follows(v, w), NEW top, Numbered(w, top),
         NEW s, NEW calls, Served(w, s, calls)
  PROVE  /\ w[1].op = "FLUSHDB" => Served(v, s, calls)
         /\ Served(v, s, [i \in DOMAIN calls \ {w[1].id} |-> calls[i]])
<1>1. \A n \in 1..(Len(w) - 1) : n \in Int /\ n + 1 \in 1..Len(w) /\ n + 1 # 1
  BY DEF Follows
<1>2. \A n \in 1..Len(w) : n = 1 \/ (n - 1 \in 1..(Len(w) - 1) /\ (n - 1) + 1 = n)
  BY DEF Follows
<1>3. 1 \in 1..Len(w)
  BY DEF Follows
<1>4. \A n \in 1..Len(v) : /\ v[n] = w[n + 1] /\ n + 1 \in 1..Len(w) /\ v[n].id # w[1].id
  BY <1>1, <1>3 DEF Numbered, Follows
<1>5. \A n \in 1..Len(w) : n # 1 => n - 1 \in 1..Len(v) /\ v[n - 1] = w[n]
  BY <1>2 DEF Follows
<1>6. \A n \in 1..Len(v) : v[n].op # "FLUSHDB" =>
        /\ v[n].id \in DOMAIN calls /\ calls[v[n].id].via = s
        /\ calls[v[n].id].op = v[n].op /\ calls[v[n].id].arg = v[n].arg
  <2> TAKE n \in 1..Len(v)
  <2>1. v[n] = w[n + 1] /\ n + 1 \in 1..Len(w)
    BY <1>4
  <2>2. w[n + 1].op # "FLUSHDB" =>
          /\ w[n + 1].id \in DOMAIN calls /\ calls[w[n + 1].id].via = s
          /\ calls[w[n + 1].id].op = w[n + 1].op /\ calls[w[n + 1].id].arg = w[n + 1].arg
    BY <2>1 DEF Served
  <2> QED BY <2>1, <2>2
<1>7. ASSUME w[1].op = "FLUSHDB" PROVE Served(v, s, calls)
  <2>2. \A i \in DOMAIN calls : calls[i].via = s /\ calls[i].op # "FLUSHDB" =>
          \E n \in 1..Len(v) : v[n].id = i /\ v[n].op # "FLUSHDB"
    <3> TAKE i \in DOMAIN calls
    <3> HAVE calls[i].via = s /\ calls[i].op # "FLUSHDB"
    <3>1. PICK n \in 1..Len(w) : w[n].id = i /\ w[n].op # "FLUSHDB"
      BY DEF Served
    <3>2. n # 1
      BY <1>7, <3>1
    <3> QED BY <1>5, <3>1, <3>2
  <2> QED BY <1>6, <2>2 DEF Served
<1>8. Served(v, s, [i \in DOMAIN calls \ {w[1].id} |-> calls[i]])
  <2> DEFINE rest == [i \in DOMAIN calls \ {w[1].id} |-> calls[i]]
  <2>0. DOMAIN rest = DOMAIN calls \ {w[1].id} /\ \A i \in DOMAIN rest : rest[i] = calls[i]
    OBVIOUS
  <2> HIDE DEF rest
  <2>1. \A n \in 1..Len(v) : v[n].op # "FLUSHDB" =>
          /\ v[n].id \in DOMAIN rest /\ rest[v[n].id].via = s
          /\ rest[v[n].id].op = v[n].op /\ rest[v[n].id].arg = v[n].arg
    BY <1>4, <1>6, <2>0
  <2>2. \A i \in DOMAIN rest : rest[i].via = s /\ rest[i].op # "FLUSHDB" =>
          \E n \in 1..Len(v) : v[n].id = i /\ v[n].op # "FLUSHDB"
    <3> TAKE i \in DOMAIN rest
    <3> HAVE rest[i].via = s /\ rest[i].op # "FLUSHDB"
    <3>1. i \in DOMAIN calls /\ i # w[1].id /\ calls[i].via = s /\ calls[i].op # "FLUSHDB"
      BY <2>0
    <3>2. PICK n \in 1..Len(w) : w[n].id = i /\ w[n].op # "FLUSHDB"
      BY <3>1 DEF Served
    <3>3. n # 1
      BY <3>1, <3>2
    <3> QED BY <1>5, <3>2, <3>3
  <2>3. Served(v, s, rest)
    BY <2>1, <2>2 DEF Served
  <2> QED BY <2>3 DEF rest
<1> QED BY <1>7, <1>8

\* It was another socket's affair.
LEMMA OtherServed ==
  ASSUME NEW w, NEW t, NEW calls, Served(w, t, calls), NEW j \in DOMAIN calls, calls[j].via # t
  PROVE  Served(w, t, [i \in DOMAIN calls \ {j} |-> calls[i]])
<1> DEFINE rest == [i \in DOMAIN calls \ {j} |-> calls[i]]
<1>0. DOMAIN rest = DOMAIN calls \ {j} /\ \A i \in DOMAIN rest : rest[i] = calls[i]
  OBVIOUS
<1> HIDE DEF rest
<1>1. \A n \in 1..Len(w) : w[n].op # "FLUSHDB" =>
        /\ w[n].id \in DOMAIN rest /\ rest[w[n].id].via = t
        /\ rest[w[n].id].op = w[n].op /\ rest[w[n].id].arg = w[n].arg
  BY <1>0 DEF Served
<1>2. \A i \in DOMAIN rest : rest[i].via = t /\ rest[i].op # "FLUSHDB" =>
        \E n \in 1..Len(w) : w[n].id = i /\ w[n].op # "FLUSHDB"
  BY <1>0 DEF Served
<1>3. Served(w, t, rest)
  BY <1>1, <1>2 DEF Served
<1> QED BY <1>3 DEF rest

\* What the commands of asks add to the callbacks and to what is under way.
Registered(calls, more, top, asks, s) ==
  /\ DOMAIN more = DOMAIN calls \cup {top + n : n \in 1..Len(asks)}
  /\ \A i \in DOMAIN calls : more[i] = calls[i]
  /\ \A n \in 1..Len(asks) :
       /\ more[top + n].op = asks[n].op /\ more[top + n].arg = asks[n].arg
       /\ more[top + n].then = asks[n].then /\ more[top + n].info = asks[n].info
       /\ more[top + n].via = s
Messages(top, asks) ==
  [n \in 1..Len(asks) |-> [id |-> top + n, op |-> asks[n].op, arg |-> asks[n].arg]]

\* The messages of asks, one for each of its commands.
LEMMA MessagesAre ==
  ASSUME NEW top, NEW asks, IsSequence(asks)
  PROVE  /\ IsSequence(Messages(top, asks)) /\ Len(Messages(top, asks)) = Len(asks)
         /\ \A n \in 1..Len(asks) : /\ Messages(top, asks)[n].id = top + n
                                    /\ Messages(top, asks)[n].op = asks[n].op
                                    /\ Messages(top, asks)[n].arg = asks[n].arg
<1> DEFINE q == Messages(top, asks)
           S == {q[n] : n \in 1..Len(asks)}
<1>1. Len(asks) \in Nat
  BY SequenceIs
<1>2. q \in [1..Len(asks) -> S]
  BY DEF Messages
<1>3. q \in Seq(S) /\ Len(q) = Len(asks)
  BY <1>1, <1>2
<1>4. \A n \in 1..Len(asks) : q[n].id = top + n /\ q[n].op = asks[n].op /\ q[n].arg = asks[n].arg
  BY DEF Messages
<1> HIDE DEF q
<1>5. IsSequence(q)
  BY <1>3 DEF IsSequence
<1> QED BY <1>3, <1>4, <1>5 DEF q

\* What is sent comes after all that is under way.
LEMMA SentWay ==
  ASSUME NEW o, IsSequence(o), NEW i, IsSequence(i), NEW q, IsSequence(q)
  PROVE  Continues(o \o (i \o q), o \o i, q)
<1>1. PICK R : o \in Seq(R)
  BY DEF IsSequence
<1>2. PICK S : i \in Seq(S)
  BY DEF IsSequence
<1>3. PICK T : q \in Seq(T)
  BY DEF IsSequence
<1>4. o \in Seq(R \cup S \cup T) /\ i \in Seq(R \cup S \cup T) /\ q \in Seq(R \cup S \cup T)
  BY <1>1, <1>2, <1>3
<1>5. o \o (i \o q) = (o \o i) \o q
  BY <1>4, ConcatAssociative
<1>6. IsSequence(o \o i)
  BY SequenceConcat
<1>7. Len(o \o i) \in Nat /\ Len(q) \in Nat
  BY <1>6, SequenceIs
<1> DEFINE w == o \o i
<1>8. IsSequence(w)
  BY <1>6
<1> HIDE DEF w
<1>9. /\ Len(w \o q) = Len(w) + Len(q)
      /\ \A n \in 1..(Len(w) + Len(q)) : (w \o q)[n] = IF n <= Len(w) THEN w[n] ELSE q[n - Len(w)]
  BY <1>8, SequenceConcat
<1>10. Continues(w \o q, w, q)
  BY <1>7, <1>9 DEF Continues, w
<1> QED BY <1>5, <1>10 DEF w

\* The new callbacks wait on the page's own socket and disturb no other.
LEMMA RegisteredOther ==
  ASSUME NEW calls, NEW more, NEW top \in Nat, NEW asks, NEW s, Registered(calls, more, top, asks, s),
         NEW w, NEW t, t # s, Served(w, t, calls)
  PROVE  Served(w, t, more)
<1>1. \A n \in 1..Len(w) : w[n].op # "FLUSHDB" =>
        /\ w[n].id \in DOMAIN more /\ more[w[n].id].via = t
        /\ more[w[n].id].op = w[n].op /\ more[w[n].id].arg = w[n].arg
  BY DEF Served, Registered
<1>2. ASSUME NEW i \in DOMAIN more, more[i].via = t, more[i].op # "FLUSHDB"
      PROVE  \E n \in 1..Len(w) : w[n].id = i /\ w[n].op # "FLUSHDB"
  <2>1. i \in DOMAIN calls
    <3> SUFFICES ASSUME i \notin DOMAIN calls PROVE FALSE
      OBVIOUS
    <3>1. PICK n \in 1..Len(asks) : i = top + n
      BY <1>2 DEF Registered
    <3>2. more[i].via = s
      BY <3>1 DEF Registered
    <3> QED BY <1>2, <3>2
  <2>2. more[i] = calls[i]
    BY <2>1 DEF Registered
  <2> QED BY <1>2, <2>1, <2>2 DEF Served
<1> QED BY <1>1, <1>2 DEF Served

\* New messages have new numbers.
LEMMA SentNumbers ==
  ASSUME NEW w, NEW v, NEW q, Continues(v, w, q),
         NEW top \in Nat, Numbered(w, top), \A n \in 1..Len(q) : q[n].id = top + n
  PROVE  Numbered(v, top + Len(q))
<1> DEFINE W == Len(w)
           Q == Len(q)
<1>0. W \in Nat /\ Q \in Nat
  BY DEF Continues
<1>1. \A n \in 1..W : w[n].id \in 1..top
  BY DEF Numbered
<1>2. \A m, n \in 1..W : w[m].id = w[n].id => m = n
  BY DEF Numbered
<1>3. Len(v) = W + Q /\ \A n \in 1..(W + Q) : v[n] = IF n <= W THEN w[n] ELSE q[n - W]
  BY DEF Continues
<1>4. \A n \in 1..Q : q[n].id = top + n
  OBVIOUS
<1> HIDE DEF W, Q
<1>5. ASSUME NEW n \in 1..(W + Q)
      PROVE  IF n <= W THEN n \in 1..W /\ v[n].id = w[n].id /\ v[n].id \in 1..top
             ELSE v[n].id = top + (n - W) /\ n - W \in 1..Q
  <2>1. CASE n <= W
    <3>1. n \in 1..W
      BY <1>0, <2>1
    <3> QED BY <1>1, <1>3, <2>1, <3>1
  <2>2. CASE ~(n <= W)
    <3>1. n - W \in 1..Q
      BY <1>0, <2>2
    <3> QED BY <1>3, <1>4, <2>2, <3>1
  <2> QED BY <2>1, <2>2
<1>6. ASSUME NEW n \in 1..(W + Q) PROVE v[n].id \in 1..(top + Q)
  <2>1. v[n].id \in 1..top => v[n].id \in 1..(top + Q)
    BY <1>0
  <2>2. n - W \in 1..Q => top + (n - W) \in 1..(top + Q)
    BY <1>0
  <2> QED BY <1>5, <2>1, <2>2
<1>7. ASSUME NEW m \in 1..(W + Q), NEW n \in 1..(W + Q), v[m].id = v[n].id PROVE m = n
  <2>0. /\ v[m].id \in 1..top => v[m].id <= top /\ v[m].id \in Int
        /\ v[n].id \in 1..top => v[n].id <= top /\ v[n].id \in Int
        /\ m - W \in 1..Q => top + (m - W) > top
        /\ n - W \in 1..Q => top + (n - W) > top
        /\ m \in Int /\ n \in Int
    BY <1>0
  <2>1. CASE m <= W /\ n <= W
    BY <1>2, <1>5, <1>7, <2>1
  <2>2. CASE m <= W /\ ~(n <= W)
    <3>1. v[m].id <= top /\ v[n].id > top /\ v[m].id \in Int
      BY <1>5, <2>0, <2>2
    <3> QED BY <1>7, <3>1
  <2>3. CASE ~(m <= W) /\ n <= W
    <3>1. v[n].id <= top /\ v[m].id > top /\ v[n].id \in Int
      BY <1>5, <2>0, <2>3
    <3> QED BY <1>7, <3>1
  <2>4. CASE ~(m <= W) /\ ~(n <= W)
    <3>1. top + (m - W) = top + (n - W)
      BY <1>5, <1>7, <2>4
    <3> QED BY <1>0, <2>0, <3>1
  <2> QED BY <2>1, <2>2, <2>3, <2>4
<1>8. Len(v) = W + Q
  BY <1>3
<1>9. Numbered(v, top + Q)
  BY <1>6, <1>7, <1>8 DEF Numbered
<1> QED BY <1>9 DEF Q

\* New messages and new callbacks are the same.
LEMMA SentServed ==
  ASSUME NEW w, NEW v, NEW q, Continues(v, w, q),
         NEW calls, NEW more, NEW top \in Nat, NEW asks, NEW s, Registered(calls, more, top, asks, s),
         Len(q) = Len(asks),
         \A n \in 1..Len(asks) : q[n].id = top + n /\ q[n].op = asks[n].op /\ q[n].arg = asks[n].arg,
         Served(w, s, calls)
  PROVE  Served(v, s, more)
<1> DEFINE W == Len(w)
           Q == Len(q)
<1>0. W \in Nat /\ Q \in Nat
  BY DEF Continues
<1>1. \A n \in 1..W : w[n].op # "FLUSHDB" =>
        /\ w[n].id \in DOMAIN calls /\ calls[w[n].id].via = s
        /\ calls[w[n].id].op = w[n].op /\ calls[w[n].id].arg = w[n].arg
  BY DEF Served
<1>2. \A i \in DOMAIN calls : calls[i].via = s /\ calls[i].op # "FLUSHDB" =>
        \E n \in 1..W : w[n].id = i /\ w[n].op # "FLUSHDB"
  BY DEF Served
<1>3. Len(v) = W + Q /\ \A n \in 1..(W + Q) : v[n] = IF n <= W THEN w[n] ELSE q[n - W]
  BY DEF Continues
<1>4. Len(asks) = Q /\ \A n \in 1..Q : q[n].id = top + n /\ q[n].op = asks[n].op /\ q[n].arg = asks[n].arg
  OBVIOUS
<1> HIDE DEF W, Q
<1>5. /\ DOMAIN more = DOMAIN calls \cup {top + n : n \in 1..Q}
      /\ \A i \in DOMAIN calls : more[i] = calls[i]
  BY <1>4 DEF Registered
<1>6. \A n \in 1..Q : /\ more[top + n].op = asks[n].op /\ more[top + n].arg = asks[n].arg
                      /\ more[top + n].via = s
  BY <1>4 DEF Registered
<1>7. \A n \in 1..(W + Q) : ~(n <= W) => n - W \in 1..Q
  BY <1>0
<1>8. \A n \in 1..(W + Q) : n <= W => n \in 1..W
  BY <1>0
<1>9. \A n \in 1..W : n \in 1..(W + Q) /\ n <= W
  BY <1>0
<1>10. \A n \in 1..Q : W + n \in 1..(W + Q) /\ ~(W + n <= W) /\ (W + n) - W = n
  BY <1>0
<1>11. ASSUME NEW n \in 1..(W + Q), v[n].op # "FLUSHDB"
       PROVE  /\ v[n].id \in DOMAIN more /\ more[v[n].id].via = s
              /\ more[v[n].id].op = v[n].op /\ more[v[n].id].arg = v[n].arg
  <2>1. CASE n <= W
    <3>1. n \in 1..W /\ v[n] = w[n]
      BY <1>3, <1>8, <2>1
    <3> QED BY <1>1, <1>5, <1>11, <3>1
  <2>2. CASE ~(n <= W)
    <3>1. n - W \in 1..Q /\ v[n] = q[n - W]
      BY <1>3, <1>7, <2>2
    <3> QED BY <1>4, <1>5, <1>6, <3>1
  <2> QED BY <2>1, <2>2
<1>12. ASSUME NEW i \in DOMAIN more, more[i].via = s, more[i].op # "FLUSHDB"
       PROVE  \E n \in 1..(W + Q) : v[n].id = i /\ v[n].op # "FLUSHDB"
  <2>1. CASE i \in DOMAIN calls
    <3>1. PICK n \in 1..W : w[n].id = i /\ w[n].op # "FLUSHDB"
      BY <1>2, <1>5, <1>12, <2>1
    <3>2. n \in 1..(W + Q) /\ v[n] = w[n]
      BY <1>3, <1>9
    <3> QED BY <3>1, <3>2
  <2>2. CASE i \notin DOMAIN calls
    <3>1. PICK n \in 1..Q : i = top + n
      BY <1>5, <2>2
    <3>2. W + n \in 1..(W + Q) /\ v[W + n] = q[n]
      BY <1>3, <1>10
    <3>3. q[n].id = i /\ q[n].op # "FLUSHDB"
      BY <1>4, <1>6, <1>12, <3>1
    <3> QED BY <3>2, <3>3
  <2> QED BY <2>1, <2>2
<1> QED BY <1>3, <1>11, <1>12 DEF Served

\* A socket that holds other messages.
Holding(b, in, out) ==
  [state |-> b.state, db |-> b.db, chose |-> b.chose, inbox |-> in, outbox |-> out]

\* So the page's socket stays well formed when commands are sent,
LEMMA SentSocket ==
  ASSUME NEW b, NEW s, NEW calls, NEW top \in Nat, Socket(b, s, calls, top), b.state = "open",
         NEW asks, IsSequence(asks), NEW more, Registered(calls, more, top, asks, s)
  PROVE  Socket(Holding(b, b.inbox \o Messages(top, asks), b.outbox), s, more, top + Len(asks))
<1> DEFINE q == Messages(top, asks)
           c == Holding(b, b.inbox \o q, b.outbox)
           o == b.outbox
           i == b.inbox
           w == o \o i
           v == o \o (i \o q)
<1>1. /\ IsSequence(i) /\ IsSequence(o) /\ (\A n \in 1..Len(o) : Answer(o[n]))
      /\ Numbered(w, top) /\ Served(w, s, calls)
  BY DEF Socket
<1>2. /\ IsSequence(q) /\ Len(q) = Len(asks)
      /\ \A n \in 1..Len(asks) : q[n].id = top + n /\ q[n].op = asks[n].op /\ q[n].arg = asks[n].arg
  BY MessagesAre
<1>3. /\ c.state = b.state /\ c.inbox = i \o q /\ c.outbox = o
      /\ c = [state |-> c.state, db |-> c.db, chose |-> c.chose, inbox |-> c.inbox, outbox |-> c.outbox]
  BY DEF Holding
<1> HIDE DEF q, i, o
<1>4. Continues(v, w, q)
  BY <1>1, <1>2, SentWay
<1>5. IsSequence(i \o q)
  BY <1>1, <1>2, SequenceConcat
<1> HIDE DEF w, v
<1>6. Numbered(v, top + Len(q))
  BY <1>1, <1>2, <1>4, SentNumbers
<1>7. Served(v, s, more)
  BY <1>1, <1>2, <1>4, SentServed
<1> HIDE DEF c
<1>8. v = c.outbox \o c.inbox
  BY <1>3 DEF v
<1>9. Socket(c, s, more, top + Len(q))
  BY <1>1, <1>3, <1>5, <1>6, <1>7, <1>8 DEF Socket
<1> QED BY <1>2, <1>9 DEF c, q, i, o

\* and so does every other.
LEMMA SentOther ==
  ASSUME NEW b, NEW t, NEW calls, NEW top \in Nat, Socket(b, t, calls, top), NEW s, t # s,
         NEW asks, IsSequence(asks), NEW more, Registered(calls, more, top, asks, s)
  PROVE  Socket(b, t, more, top + Len(asks))
<1> DEFINE w == b.outbox \o b.inbox
<1>1. Len(asks) \in Nat
  BY SequenceIs
<1>2. Numbered(w, top)
  BY DEF Socket
<1> HIDE DEF w
<1>3. \A j : j \in 1..top => j \in 1..(top + Len(asks))
  BY <1>1
<1>4. Numbered(w, top + Len(asks))
  BY <1>2, <1>3 DEF Numbered
<1>5. ASSUME Served(w, t, calls) PROVE Served(w, t, more)
  BY <1>5, RegisteredOther
<1> QED BY <1>4, <1>5 DEF Socket, w

\* EXCEPT on the inbox of a socket.
LEMMA InboxPut ==
  ASSUME NEW b, b = [state |-> b.state, db |-> b.db, chose |-> b.chose, inbox |-> b.inbox, outbox |-> b.outbox],
         NEW x
  PROVE  [b EXCEPT !.inbox = x] = Holding(b, x, b.outbox)
BY DEF Holding

\* sendCommand on an open socket: the messages come last in its inbox, their callbacks
\* are registered, and no other socket changes.
LEMMA SendPuts ==
  ASSUME NEW socks, NEW calls, Routed(socks, calls, msgId), ws \in 0..Len(socks),
         NEW asks, IsSequence(asks), Send(socks, calls, asks), Ready(socks)
  PROVE  /\ Put(sockets', socks, ws,
                Holding(socks[ws], socks[ws].inbox \o Messages(msgId, asks), socks[ws].outbox))
         /\ Registered(calls, pendingCallbacks', msgId, asks, ws)
         /\ msgId' = msgId + Len(asks) /\ ws \in 1..Len(socks) /\ socks[ws].state = "open"
<1>0. msgId \in Nat /\ IsSequence(socks) /\ Len(socks) \in Nat /\ Len(asks) \in Nat
  BY SequenceIs DEF Routed
<1> DEFINE q == Messages(msgId, asks)
           b == socks[ws]
           c == Holding(b, b.inbox \o q, b.outbox)
           more == pendingCallbacks'
           new == {Id(n) : n \in 1..Len(asks)}
           Asked(i) == asks[CHOOSE n \in 1..Len(asks) : Id(n) = i]
<1>1. ws \in 1..Len(socks) /\ b.state = "open"
  BY <1>0 DEF Ready
<1>2. Socket(b, ws, calls, msgId)
  BY <1>1 DEF Routed
<1>3. msgId' = msgId + Len(asks)
  BY DEF Send
<1>4. sockets' = [socks EXCEPT ![ws] = c]
  <2>1. q = [n \in 1..Len(asks) |-> [id |-> Id(n), op |-> asks[n].op, arg |-> asks[n].arg]]
    BY DEF Messages, Id
  <2>2. sockets' = [socks EXCEPT ![ws].inbox = @ \o q]
    BY <2>1 DEF Send
  <2> HIDE DEF q
  <2>3. b = [state |-> b.state, db |-> b.db, chose |-> b.chose, inbox |-> b.inbox, outbox |-> b.outbox]
    BY <1>2 DEF Socket
  <2>4. [b EXCEPT !.inbox = b.inbox \o q] = c
    BY ONLY <2>3, InboxPut, Zenon
  <2> QED BY <2>2, <2>4
<1>5. more = [i \in DOMAIN calls \cup new |->
                IF i \notin new THEN calls[i]
                ELSE [op |-> Asked(i).op, arg |-> Asked(i).arg, then |-> Asked(i).then,
                      info |-> Asked(i).info, via |-> ws]]
  BY DEF Send
<1>6. new = {msgId + n : n \in 1..Len(asks)}
  BY DEF Id
<1>7. \A i \in DOMAIN calls : Waits(calls[i], i, socks, msgId)
  BY DEF Routed
<1>8. \A i \in DOMAIN calls : i \notin new
  <2>1. \A i \in DOMAIN calls : i \in 1..msgId
    BY <1>7 DEF Waits
  <2>2. \A n \in 1..Len(asks) : msgId + n \notin 1..msgId
    BY <1>0
  <2> QED BY <1>6, <2>1, <2>2
<1>9. \A n \in 1..Len(asks) : Asked(msgId + n) = asks[n]
  <2> TAKE n \in 1..Len(asks)
  <2>1. \A m \in 1..Len(asks) : Id(m) = msgId + n <=> m = n
    BY <1>0 DEF Id
  <2>2. (CHOOSE m \in 1..Len(asks) : Id(m) = msgId + n) = n
    BY <2>1
  <2> QED BY <2>2
<1> HIDE DEF Asked, new, more
<1>10. Registered(calls, more, msgId, asks, ws)
  <2>1. DOMAIN more = DOMAIN calls \cup {msgId + n : n \in 1..Len(asks)}
    BY <1>5, <1>6
  <2>2. \A i \in DOMAIN calls : more[i] = calls[i]
    BY <1>5, <1>8
  <2>3. ASSUME NEW n \in 1..Len(asks)
        PROVE  /\ more[msgId + n].op = asks[n].op /\ more[msgId + n].arg = asks[n].arg
               /\ more[msgId + n].then = asks[n].then /\ more[msgId + n].info = asks[n].info
               /\ more[msgId + n].via = ws
    <3>1. msgId + n \in new
      BY <1>6
    <3>2. more[msgId + n] = [op |-> asks[n].op, arg |-> asks[n].arg, then |-> asks[n].then,
                             info |-> asks[n].info, via |-> ws]
      BY <1>5, <1>9, <3>1
    <3> QED BY <3>2
  <2> QED BY <2>1, <2>2, <2>3 DEF Registered
<1>13. c.state = "open"
  BY <1>1 DEF Holding
<1> HIDE DEF c
<1>14. Put(sockets', socks, ws, c)
  <2>1. Put([socks EXCEPT ![ws] = c], socks, ws, c)
    BY ONLY <1>0, <1>1, SequencePut, Zenon
  <2> QED BY <1>4, <2>1
<1> QED BY <1>1, <1>3, <1>10, <1>14 DEF c, q, b, more

\* sendCommand keeps the two sides in step.
LEMMA SendKeeps ==
  ASSUME NEW socks, NEW calls, Routed(socks, calls, msgId), ws \in 0..Len(socks),
         NEW asks, Asks(asks), Send(socks, calls, asks)
  PROVE  Routed(sockets', pendingCallbacks', msgId') /\ Len(sockets') = Len(socks)
<1>1. /\ msgId \in Nat /\ IsSequence(socks) /\ IsSequence(asks) /\ Len(socks) \in Nat
      /\ Len(asks) \in Nat
  BY SequenceIs DEF Routed, Asks
<1>2. CASE ~Ready(socks)
  <2>1. sockets' = socks /\ pendingCallbacks' = calls /\ msgId' = msgId
    BY <1>2 DEF Send
  <2> QED BY <2>1
<1>3. CASE Ready(socks)
  <2> DEFINE b == socks[ws]
             c == Holding(b, b.inbox \o Messages(msgId, asks), b.outbox)
             more == pendingCallbacks'
  <2>1. /\ Put(sockets', socks, ws, c) /\ Registered(calls, more, msgId, asks, ws)
        /\ msgId' = msgId + Len(asks) /\ ws \in 1..Len(socks) /\ b.state = "open"
    BY <1>1, <1>3, SendPuts
  <2>2. Socket(b, ws, calls, msgId)
    BY <2>1 DEF Routed
  <2>7. \A i \in DOMAIN calls : Waits(calls[i], i, socks, msgId)
    BY DEF Routed
  <2>13. c.state = "open"
    BY <2>1 DEF Holding
  <2>11. Socket(c, ws, more, msgId + Len(asks))
    BY <1>1, <2>1, <2>2, SentSocket
  <2> HIDE DEF c, b
  <2>12. ASSUME NEW t \in 1..Len(socks), t # ws PROVE Socket(socks[t], t, more, msgId + Len(asks))
    <3>1. Socket(socks[t], t, calls, msgId)
      BY DEF Routed
    <3> QED BY <1>1, <2>1, <2>12, <3>1, SentOther
  <2>15. \A s \in 1..Len(sockets') : Socket(sockets'[s], s, more, msgId')
    BY <2>1, <2>11, <2>12 DEF Put
  <2>16. ASSUME NEW i \in DOMAIN more PROVE Waits(more[i], i, sockets', msgId')
    <3>1. CASE i \in DOMAIN calls
      <4>1. Waits(calls[i], i, socks, msgId) /\ more[i] = calls[i]
        BY <2>7, <2>1, <3>1 DEF Registered
      <4>2. \A j : j \in 1..msgId => j \in 1..msgId'
        BY <1>1, <2>1
      <4>3. \A t \in 1..Len(socks) : socks[t].state # "connecting" => sockets'[t].state # "connecting"
        BY <2>13, <2>1 DEF Put
      <4> QED BY <2>1, <4>1, <4>2, <4>3 DEF Waits, Put
    <3>2. CASE i \notin DOMAIN calls
      <4>1. PICK n \in 1..Len(asks) : i = msgId + n
        BY <2>1, <3>2 DEF Registered
      <4>2. more[i].then = asks[n].then /\ more[i].info = asks[n].info /\ more[i].via = ws
        BY <2>1, <4>1 DEF Registered
      <4>3. i \in 1..msgId'
        BY <1>1, <2>1, <4>1
      <4>4. asks[n].then = "scanned" => IsFiniteSet(asks[n].info)
        BY DEF Asks
      <4> QED BY <2>1, <2>13, <4>2, <4>3, <4>4 DEF Waits, Put
    <3> QED BY <3>1, <3>2
  <2>17. msgId' \in Nat
    BY <1>1, <2>1
  <2> QED BY <2>1, <2>15, <2>16, <2>17 DEF Routed, more, Put
<1> QED BY <1>2, <1>3

IsSocket(b) ==
  b = [state |-> b.state, db |-> b.db, chose |-> b.chose, inbox |-> b.inbox, outbox |-> b.outbox]

\* One socket changes.
LEMMA PutSocket ==
  ASSUME NEW socks, NEW calls, NEW top, Routed(socks, calls, top),
         NEW s \in 1..Len(socks), NEW c, Socket(c, s, calls, top),
         c.state = "connecting" => socks[s].state = "connecting",
         NEW r, Put(r, socks, s, c)
  PROVE  Routed(r, calls, top) /\ Len(r) = Len(socks)
<1>1. \A n \in 1..Len(r) : Socket(r[n], n, calls, top)
  BY DEF Routed, Put
<1>2. ASSUME NEW i \in DOMAIN calls PROVE Waits(calls[i], i, r, top)
  <2>1. Waits(calls[i], i, socks, top)
    BY DEF Routed
  <2>2. Len(r) = Len(socks) /\ \A t \in 1..Len(socks) : socks[t].state # "connecting" => r[t].state # "connecting"
    BY DEF Put
  <2> QED BY <2>1, <2>2 DEF Waits
<1> QED BY <1>1, <1>2 DEF Routed, Put

\* The database of a socket, or its closing, is no matter of its messages.
LEMMA SocketFields ==
  ASSUME NEW b, NEW c, IsSocket(c), c.inbox = b.inbox, c.outbox = b.outbox,
         c.state \in {b.state, "closing"}, NEW s, NEW calls, NEW top, Socket(b, s, calls, top)
  PROVE  Socket(c, s, calls, top)
BY DEF Socket, IsSocket

\* EXCEPT on the state of a socket,
LEMMA StatePut ==
  ASSUME NEW socks, IsSequence(socks), NEW s \in 1..Len(socks), IsSocket(socks[s]), NEW x
  PROVE  LET c == [state |-> x, db |-> socks[s].db, chose |-> socks[s].chose,
                   inbox |-> socks[s].inbox, outbox |-> socks[s].outbox]
         IN  Put([socks EXCEPT ![s].state = x], socks, s, c)
<1> DEFINE c == [state |-> x, db |-> socks[s].db, chose |-> socks[s].chose,
                 inbox |-> socks[s].inbox, outbox |-> socks[s].outbox]
<1>1. [socks[s] EXCEPT !.state = x] = c
  BY DEF IsSocket
<1>2. [socks EXCEPT ![s].state = x] = [socks EXCEPT ![s] = c]
  BY <1>1
<1> HIDE DEF c
<1>3. Put([socks EXCEPT ![s] = c], socks, s, c)
  BY SequencePut, Zenon
<1> QED BY <1>2, <1>3 DEF c

\* on its outbox,
LEMMA OutboxPut ==
  ASSUME NEW socks, IsSequence(socks), NEW s \in 1..Len(socks), IsSocket(socks[s]), NEW x
  PROVE  Put([socks EXCEPT ![s].outbox = x], socks, s, Holding(socks[s], socks[s].inbox, x))
<1> DEFINE c == Holding(socks[s], socks[s].inbox, x)
<1>1. [socks[s] EXCEPT !.outbox = x] = c
  BY DEF IsSocket, Holding
<1>2. [socks EXCEPT ![s].outbox = x] = [socks EXCEPT ![s] = c]
  BY <1>1
<1> HIDE DEF c
<1>3. Put([socks EXCEPT ![s] = c], socks, s, c)
  BY SequencePut, Zenon
<1> QED BY <1>2, <1>3 DEF c

\* on both its queues,
LEMMA AnsweredPut ==
  ASSUME NEW socks, IsSequence(socks), NEW s \in 1..Len(socks), IsSocket(socks[s]), NEW x, NEW y
  PROVE  Put([socks EXCEPT ![s].inbox = x, ![s].outbox = y], socks, s, Holding(socks[s], x, y))
<1> DEFINE c == Holding(socks[s], x, y)
           d == Holding(socks[s], x, socks[s].outbox)
           p == [socks EXCEPT ![s] = d]
<1>1. [socks[s] EXCEPT !.inbox = x] = d
  BY DEF IsSocket, Holding
<1>2. [d EXCEPT !.outbox = y] = c
  BY DEF Holding
<1>3. [socks EXCEPT ![s].inbox = x] = p
  BY <1>1
<1>4. [socks EXCEPT ![s].inbox = x, ![s].outbox = y] = [p EXCEPT ![s].outbox = y]
  BY <1>3
<1> HIDE DEF c, d
<1>5. Put(p, socks, s, d)
  BY SequencePut, Zenon
<1>6. [p EXCEPT ![s].outbox = y] = [p EXCEPT ![s] = c]
  <2>1. p[s] = d
    BY <1>5 DEF Put
  <2> HIDE DEF p
  <2> QED BY <1>2, <2>1
<1> HIDE DEF p
<1>7. Put([p EXCEPT ![s] = c], p, s, c)
  <2>1. IsSequence(p) /\ s \in 1..Len(p)
    BY <1>5 DEF Put
  <2> QED BY <2>1, SequencePut, Zenon
<1>8. Put([p EXCEPT ![s] = c], socks, s, c)
  BY <1>5, <1>7 DEF Put
<1> QED BY <1>4, <1>6, <1>8 DEF c

\* and on its database.
LEMMA ChosenPut ==
  ASSUME NEW socks, IsSequence(socks), NEW s \in 1..Len(socks), IsSocket(socks[s]), NEW x, NEW y
  PROVE  LET c == [state |-> socks[s].state, db |-> x, chose |-> y,
                   inbox |-> socks[s].inbox, outbox |-> socks[s].outbox]
         IN  Put([socks EXCEPT ![s].db = x, ![s].chose = y], socks, s, c)
<1> DEFINE c == [state |-> socks[s].state, db |-> x, chose |-> y,
                 inbox |-> socks[s].inbox, outbox |-> socks[s].outbox]
           d == [state |-> socks[s].state, db |-> x, chose |-> socks[s].chose,
                 inbox |-> socks[s].inbox, outbox |-> socks[s].outbox]
           p == [socks EXCEPT ![s] = d]
<1>1. [socks[s] EXCEPT !.db = x] = d
  BY DEF IsSocket
<1>2. [d EXCEPT !.chose = y] = c
  OBVIOUS
<1>3. [socks EXCEPT ![s].db = x] = p
  BY <1>1
<1>4. [socks EXCEPT ![s].db = x, ![s].chose = y] = [p EXCEPT ![s].chose = y]
  BY <1>3
<1> HIDE DEF c, d
<1>5. Put(p, socks, s, d)
  BY SequencePut, Zenon
<1>6. [p EXCEPT ![s].chose = y] = [p EXCEPT ![s] = c]
  <2>1. p[s] = d
    BY <1>5 DEF Put
  <2> HIDE DEF p
  <2> QED BY <1>2, <2>1
<1> HIDE DEF p
<1>7. Put([p EXCEPT ![s] = c], p, s, c)
  <2>1. IsSequence(p) /\ s \in 1..Len(p)
    BY <1>5 DEF Put
  <2> QED BY <2>1, SequencePut, Zenon
<1>8. Put([p EXCEPT ![s] = c], socks, s, c)
  BY <1>5, <1>7 DEF Put
<1> QED BY <1>4, <1>6, <1>8 DEF c

\* The bridge answers a message: the socket stays well formed.
LEMMA AnsweredSocket ==
  ASSUME NEW b, NEW s, NEW calls, NEW top, Socket(b, s, calls, top), b.inbox # <<>>,
         NEW e, e.id = Head(b.inbox).id, e.op = Head(b.inbox).op, e.arg = Head(b.inbox).arg, Answer(e)
  PROVE  Socket(Holding(b, Tail(b.inbox), Append(b.outbox, e)), s, calls, top)
<1> DEFINE o == b.outbox
           i == b.inbox
           w == o \o i
           v == Append(o, e) \o Tail(i)
           c == Holding(b, Tail(i), Append(o, e))
<1>1. /\ IsSequence(i) /\ IsSequence(o) /\ (\A n \in 1..Len(o) : Answer(o[n])) /\ Numbered(w, top)
      /\ b.state = "open" => Served(w, s, calls)
      /\ b.state = "connecting" => i = <<>>
  BY DEF Socket
<1>2. /\ c.state = b.state /\ c.inbox = Tail(i) /\ c.outbox = Append(o, e)
      /\ c = [state |-> c.state, db |-> c.db, chose |-> c.chose, inbox |-> c.inbox, outbox |-> c.outbox]
  BY DEF Holding
<1>3. Alike(v, w)
  BY <1>1, AnsweredWay
<1>4. IsSequence(Tail(i))
  BY <1>1, SequenceTail
<1>5. /\ IsSequence(Append(o, e)) /\ Len(Append(o, e)) = Len(o) + 1
      /\ \A n \in 1..(Len(o) + 1) : Append(o, e)[n] = IF n = Len(o) + 1 THEN e ELSE o[n]
  BY <1>1, SequenceAppend
<1>6. Len(o) \in Nat
  BY <1>1, SequenceIs
<1>7. \A n \in 1..Len(Append(o, e)) : Answer(Append(o, e)[n])
  BY <1>1, <1>5, <1>6
<1> DEFINE a == Append(o, e)
           r == Tail(i)
<1>8. c.inbox = r /\ c.outbox = a /\ v = a \o r
  BY <1>2
<1>9. IsSequence(r) /\ IsSequence(a) /\ \A n \in 1..Len(a) : Answer(a[n])
  BY <1>4, <1>5, <1>7
<1> HIDE DEF o, i, w, v, c, a, r
<1>10. Numbered(v, top)
  BY <1>1, <1>3, SameWay
<1>11. b.state = "open" => Served(v, s, calls)
  BY <1>1, <1>3, SameWay
<1>12. c.state # "connecting"
  BY <1>1, <1>2 DEF i
<1>13. Socket(c, s, calls, top)
  BY <1>2, <1>8, <1>9, <1>10, <1>11, <1>12 DEF Socket
<1> QED BY <1>13 DEF c, i, o

\* A delivered answer takes its callback along; a request for confirmation does not.
LEMMA DeliveredKeeps ==
  ASSUME NEW socks, NEW calls, NEW top, Routed(socks, calls, top),
         NEW s \in 1..Len(socks), socks[s].state = "open", socks[s].outbox # <<>>,
         NEW r, Put(r, socks, s, Holding(socks[s], socks[s].inbox, Tail(socks[s].outbox))),
         NEW msg, msg = Head(socks[s].outbox)
  PROVE  /\ Len(r) = Len(socks) /\ Answer(msg) /\ msg.id \in 1..top
         /\ msg.op = "FLUSHDB" => Routed(r, calls, top)
         /\ msg.op # "FLUSHDB" =>
              /\ msg.id \in DOMAIN calls
              /\ Routed(r, [i \in DOMAIN calls \ {msg.id} |-> calls[i]], top)
<1> DEFINE b == socks[s]
           o == b.outbox
           i == b.inbox
           w == o \o i
           t == Tail(o)
           v == t \o i
           c == Holding(b, i, t)
           rest == [j \in DOMAIN calls \ {msg.id} |-> calls[j]]
<1>0. Socket(b, s, calls, top) /\ top \in Nat
  BY DEF Routed
<1>1. /\ IsSequence(i) /\ IsSequence(o) /\ (\A n \in 1..Len(o) : Answer(o[n])) /\ Numbered(w, top)
      /\ Served(w, s, calls)
  BY <1>0 DEF Socket
<1>2. /\ c.state = b.state /\ c.inbox = i /\ c.outbox = t
      /\ c = [state |-> c.state, db |-> c.db, chose |-> c.chose, inbox |-> c.inbox, outbox |-> c.outbox]
  BY DEF Holding
<1>3. msg = Head(o) /\ o # <<>> /\ Put(r, socks, s, c)
  OBVIOUS
<1>4. /\ IsSequence(t) /\ Len(t) = Len(o) - 1 /\ Len(o) >= 1 /\ msg = o[1] /\ Len(o) \in Nat
      /\ \A n \in 1..(Len(o) - 1) : t[n] = o[n + 1]
  BY <1>1, <1>3, SequenceTail, SequenceIs
<1>5. Follows(v, w) /\ w[1] = msg
  BY <1>1, <1>3, DeliveredWay
<1>6. \A j \in DOMAIN rest : j \in DOMAIN calls /\ rest[j] = calls[j]
  OBVIOUS
<1> HIDE DEF t
<1>7. Answer(msg) /\ \A n \in 1..Len(t) : Answer(t[n])
  <2>1. 1 \in 1..Len(o) /\ \A n \in 1..(Len(o) - 1) : n + 1 \in 1..Len(o)
    BY <1>4
  <2> QED BY <1>1, <1>4, <2>1
<1> HIDE DEF o, i, w, v, c, b, rest
<1>8. msg.id \in 1..top /\ (msg.op # "FLUSHDB" => msg.id \in DOMAIN calls /\ calls[msg.id].via = s)
  <2>1. 1 \in 1..Len(w)
    BY <1>5 DEF Follows
  <2> QED BY <1>1, <1>5, <2>1 DEF Numbered, Served
<1>9. Numbered(v, top)
  BY <1>1, <1>5, DeliveredNumbers
<1>10. msg.op = "FLUSHDB" => Served(v, s, calls)
  BY <1>1, <1>5, DeliveredServed
<1>11. Served(v, s, rest)
  <2>1. Served(v, s, [j \in DOMAIN calls \ {w[1].id} |-> calls[j]])
    BY <1>1, <1>5, DeliveredServed, Zenon
  <2> QED BY <1>5, <2>1 DEF rest
<1>12. b.state = "open" /\ c.state = "open"
  BY <1>2 DEF b
<1>13. ASSUME msg.op = "FLUSHDB" PROVE Routed(r, calls, top)
  <2>1. Socket(c, s, calls, top)
    BY <1>1, <1>2, <1>4, <1>7, <1>9, <1>10, <1>12, <1>13 DEF Socket, v
  <2> QED BY <1>3, <1>12, <2>1, PutSocket
<1>14. ASSUME msg.op # "FLUSHDB" PROVE Routed(r, rest, top)
  <2>1. Socket(c, s, rest, top)
    BY <1>1, <1>2, <1>4, <1>7, <1>9, <1>11, <1>12 DEF Socket, v
  <2>2. ASSUME NEW n \in 1..Len(socks), n # s PROVE Socket(socks[n], n, rest, top)
    <3>1. Socket(socks[n], n, calls, top)
      BY DEF Routed
    <3>2. ASSUME NEW u, Served(u, n, calls) PROVE Served(u, n, rest)
      <4>1. msg.id \in DOMAIN calls /\ calls[msg.id].via # n
        BY <1>8, <1>14, <2>2
      <4>2. Served(u, n, [j \in DOMAIN calls \ {msg.id} |-> calls[j]])
        BY <3>2, <4>1, OtherServed, Zenon
      <4> QED BY <4>2 DEF rest
    <3> QED BY <3>1, <3>2 DEF Socket
  <2>3. IsSequence(socks) /\ \A j \in DOMAIN rest : Waits(rest[j], j, socks, top)
    BY <1>6 DEF Routed
  <2>4. \A n \in 1..Len(r) : Socket(r[n], n, rest, top)
    BY <1>3, <2>1, <2>2 DEF Put
  <2>5. ASSUME NEW j \in DOMAIN rest PROVE Waits(rest[j], j, r, top)
    <3>1. Waits(rest[j], j, socks, top)
      BY <2>3
    <3>2. Len(r) = Len(socks) /\ \A n \in 1..Len(socks) : socks[n].state # "connecting" => r[n].state # "connecting"
      BY <1>3, <1>12 DEF Put
    <3> QED BY <3>1, <3>2 DEF Waits
  <2>6. IsSequence(r)
    BY <1>3 DEF Put
  <2> QED BY <1>0, <2>4, <2>5, <2>6 DEF Routed
<1>15. Len(r) = Len(socks)
  BY <1>3 DEF Put
<1> QED BY <1>7, <1>8, <1>13, <1>14, <1>15 DEF rest

\* The empty sequence.
LEMMA EmptyIs == IsSequence(<<>>) /\ Len(<<>>) = 0
<1>1. <<>> \in Seq({})
  OBVIOUS
<1> QED BY <1>1 DEF IsSequence

\* One command is a gesture,
LEMMA AsksOne ==
  ASSUME NEW c, c.then = "scanned" => IsFiniteSet(c.info)
  PROVE  Asks(<<c>>)
<1>1. <<c>> \in Seq({c}) /\ Len(<<c>>) = 1 /\ <<c>>[1] = c
  OBVIOUS
<1> DEFINE q == <<c>>
<1>2. q \in Seq({c}) /\ Len(q) = 1 /\ q[1] = c
  BY <1>1
<1> HIDE DEF q
<1>3. IsSequence(q) /\ \A n \in 1..Len(q) : q[n] = c
  BY <1>2 DEF IsSequence
<1>4. Asks(q)
  BY <1>3 DEF Asks
<1> QED BY <1>4 DEF q

\* and so are the commands of two gestures.
LEMMA AsksBoth ==
  ASSUME NEW p, Asks(p), NEW q, Asks(q)
  PROVE  Asks(p \o q)
<1>1. IsSequence(p) /\ IsSequence(q) /\ Len(p) \in Nat /\ Len(q) \in Nat
  BY SequenceIs DEF Asks
<1> DEFINE r == p \o q
<1>2. /\ IsSequence(r) /\ Len(r) = Len(p) + Len(q)
      /\ \A n \in 1..(Len(p) + Len(q)) : r[n] = IF n <= Len(p) THEN p[n] ELSE q[n - Len(p)]
  BY <1>1, SequenceConcat
<1> HIDE DEF r
<1>3. ASSUME NEW n \in 1..Len(r), r[n].then = "scanned" PROVE IsFiniteSet(r[n].info)
  <2>1. CASE n <= Len(p)
    <3>1. n \in 1..Len(p) /\ r[n] = p[n]
      BY <1>1, <1>2, <2>1
    <3> QED BY <1>3, <3>1 DEF Asks
  <2>2. CASE ~(n <= Len(p))
    <3>1. n - Len(p) \in 1..Len(q) /\ r[n] = q[n - Len(p)]
      BY <1>1, <1>2, <2>2
    <3> QED BY <1>3, <3>1 DEF Asks
  <2> QED BY <2>1, <2>2
<1>4. Asks(r)
  BY <1>2, <1>3 DEF Asks
<1> QED BY <1>4 DEF r

\* What the gestures and the callbacks send: one command,
LEMMA AsksCmd ==
  ASSUME NEW op, NEW arg, NEW then, NEW info, then = "scanned" => IsFiniteSet(info)
  PROVE  Asks(<<Cmd(op, arg, then, info)>>)
<1> DEFINE c == Cmd(op, arg, then, info)
<1>1. c.then = then /\ c.info = info
  BY DEF Cmd
<1> HIDE DEF c
<1>2. Asks(<<c>>)
  BY <1>1, AsksOne
<1> QED BY <1>2 DEF c

\* a SCAN,
LEMMA AsksScan ==
  ASSUME NEW cursor, NEW keys, IsFiniteSet(keys)
  PROVE  Asks(Scan(cursor, keys)) /\ Asks(refreshKeys)
<1>1. IsFiniteSet({})
  BY FS_EmptySet
<1> QED BY <1>1, AsksCmd DEF Scan, refreshKeys

\* the reads of a key,
LEMMA AsksInspect ==
  ASSUME NEW k
  PROVE  Asks(inspectKey(k)) /\ Asks(refreshKeys) /\ Asks(refreshKeys \o inspectKey(k))
<1> DEFINE c == Cmd("TTL", k, "shown", k)
           d == Cmd("GET", k, "shown", k)
<1>1. c.then # "scanned" /\ d.then # "scanned"
  BY DEF Cmd
<1> HIDE DEF c, d
<1> DEFINE q == <<c, d>>
<1>2. q \in Seq({c, d}) /\ \A n \in 1..Len(q) : q[n] \in {c, d}
  OBVIOUS
<1> HIDE DEF q
<1>3. IsSequence(q)
  BY <1>2 DEF IsSequence
<1>4. Asks(q)
  BY <1>1, <1>2, <1>3 DEF Asks
<1>5. inspectKey(k) = q
  BY DEF inspectKey, q, c, d
<1>6. Asks(refreshKeys)
  BY AsksScan, FS_EmptySet
<1> QED BY <1>4, <1>5, <1>6, AsksBoth

\* and the types of a page of keys, which is finite.
LEMMA AsksTypes ==
  ASSUME NEW keys, IsFiniteSet(keys)
  PROVE  Asks(Types(keys))
<1> DEFINE K == Cardinality(keys)
           q == Types(keys)
           T == {Cmd("TYPE", Ascending(keys)[n], "typed", 0) : n \in 1..K}
<1>1. K \in Nat
  BY FS_CardinalityType
<1>2. q = [n \in 1..K |-> Cmd("TYPE", Ascending(keys)[n], "typed", 0)]
  BY DEF Types
<1>3. ASSUME NEW t \in T PROVE t.then # "scanned"
  BY DEF Cmd
<1> DEFINE C(n) == Cmd("TYPE", Ascending(keys)[n], "typed", 0)
<1>4. q = [n \in 1..K |-> C(n)] /\ T = {C(n) : n \in 1..K}
  BY <1>2
<1> HIDE DEF C, T, q, K
<1>5. q \in [1..K -> T]
  BY <1>4
<1>6. q \in Seq(T)
  BY <1>1, <1>5
<1>7. \A n \in 1..Len(q) : q[n] \in T
  BY <1>6
<1>8. IsSequence(q)
  BY <1>6 DEF IsSequence
<1>9. Asks(q)
  BY <1>3, <1>7, <1>8 DEF Asks
<1> QED BY <1>9 DEF q

\* What a callback sends is well formed.
LEMMA EffectAsks ==
  ASSUME NEW callback, callback.then = "scanned" => IsFiniteSet(callback.info), NEW msg, Answer(msg)
  PROVE  Asks(Effect(callback, msg).sends)
<1> DEFINE sends == Effect(callback, msg).sends
           keys == IF msg.answer = "ok" /\ msg.op = "SCAN" THEN callback.info \cup msg.result.keys
                   ELSE callback.info
           k == callback.arg
<1>1. callback.then = "scanned" => IsFiniteSet(keys)
  <2>1. msg.op = "SCAN" /\ msg.answer = "ok" => IsFiniteSet(msg.result.keys)
    BY DEF Answer
  <2> QED BY <2>1, FS_Union
<1>2. Asks(<<>>)
  BY EmptyIs DEF Asks
<1>3. /\ callback.then = "scanned" => Asks(Scan(msg.result.next, keys)) /\ Asks(Types(keys))
      /\ Asks(refreshKeys) /\ Asks(inspectKey(k)) /\ Asks(refreshKeys \o inspectKey(k))
      /\ Asks(<<Cmd("EXPIRE", k, "expired", 0)>>)
  BY <1>1, AsksScan, AsksTypes, AsksInspect, AsksCmd
<1>4. \/ sends \in {<<>>, refreshKeys, inspectKey(k), refreshKeys \o inspectKey(k),
                    <<Cmd("EXPIRE", k, "expired", 0)>>}
      \/ callback.then = "scanned" /\ sends \in {Scan(msg.result.next, keys), Types(keys)}
  BY DEF Effect
<1> QED BY <1>2, <1>3, <1>4

\* The inductive invariant.
ConsoleInv == Routed(sockets, pendingCallbacks, msgId) /\ ws \in 0..Len(sockets)

\* What the steps use of it.
LEMMA InvMeans ==
  ASSUME ConsoleInv
  PROVE  /\ IsSequence(sockets) /\ Len(sockets) \in Nat /\ DOMAIN sockets = 1..Len(sockets)
         /\ msgId \in Nat /\ ws \in 0..Len(sockets)
         /\ \A s \in 1..Len(sockets) : Socket(sockets[s], s, pendingCallbacks, msgId) /\ IsSocket(sockets[s])
BY SequenceIs DEF ConsoleInv, Routed, Socket, IsSocket

\* It says what CallbacksRouted says.
LEMMA RoutedMeans == ConsoleInv => CallbacksRouted
<1> SUFFICES ASSUME ConsoleInv, NEW s \in 1..Len(sockets), sockets[s].state = "open"
             PROVE  LET calls == pendingCallbacks
                        owed == {i \in DOMAIN calls : calls[i].via = s /\ calls[i].op # "FLUSHDB"}
                        way == sockets[s].outbox \o sockets[s].inbox
                        mine == {n \in DOMAIN way : way[n].op # "FLUSHDB"}
                    IN  /\ {way[n].id : n \in mine} = owed
                        /\ \A m, n \in mine : way[m].id = way[n].id => m = n
                        /\ \A n \in mine :
                             way[n].op = calls[way[n].id].op /\ way[n].arg = calls[way[n].id].arg
  BY InvMeans DEF CallbacksRouted
<1> DEFINE way == sockets[s].outbox \o sockets[s].inbox
<1>1. Socket(sockets[s], s, pendingCallbacks, msgId)
  BY InvMeans
<1>2. Numbered(way, msgId) /\ Served(way, s, pendingCallbacks) /\ IsSequence(way)
  BY <1>1, SequenceConcat DEF Socket
<1> HIDE DEF way
<1>3. DOMAIN way = 1..Len(way)
  BY <1>2, SequenceIs
<1> DEFINE owed == {i \in DOMAIN pendingCallbacks : pendingCallbacks[i].via = s /\ pendingCallbacks[i].op # "FLUSHDB"}
           mine == {n \in DOMAIN way : way[n].op # "FLUSHDB"}
<1>4. \A n \in mine : /\ way[n].id \in owed /\ way[n].op = pendingCallbacks[way[n].id].op
                      /\ way[n].arg = pendingCallbacks[way[n].id].arg
  BY <1>2, <1>3 DEF Served
<1>5. \A i \in owed : \E n \in mine : way[n].id = i
  BY <1>2, <1>3 DEF Served
<1>6. \A m, n \in mine : way[m].id = way[n].id => m = n
  BY <1>2, <1>3 DEF Numbered
<1> HIDE DEF owed, mine
<1>7. {way[n].id : n \in mine} = owed
  BY <1>4, <1>5
<1> QED BY <1>4, <1>6, <1>7 DEF owed, mine, way

\* The page begins with no socket and no callback.
LEMMA InitRouted == ConsoleInit => ConsoleInv
<1> SUFFICES ASSUME ConsoleInit PROVE ConsoleInv
  OBVIOUS
<1>1. sockets = <<>> /\ pendingCallbacks = <<>> /\ msgId = 0 /\ ws = 0
  BY DEF ConsoleInit
<1>2. IsSequence(sockets) /\ Len(sockets) = 0
  BY <1>1, EmptyIs
<1>3. DOMAIN pendingCallbacks = {}
  BY <1>1
<1> QED BY <1>1, <1>2, <1>3 DEF ConsoleInv, Routed

\* One socket changes and nothing is sent.
LEMMA PutInv ==
  ASSUME ConsoleInv, NEW s \in 1..Len(sockets), NEW c, Socket(c, s, pendingCallbacks, msgId),
         c.state = "connecting" => sockets[s].state = "connecting",
         Put(sockets', sockets, s, c), UNCHANGED <<pendingCallbacks, msgId>>, ws' \in {ws, 0}
  PROVE  ConsoleInv'
<1>1. Routed(sockets', pendingCallbacks, msgId) /\ Len(sockets') = Len(sockets)
  BY PutSocket DEF ConsoleInv
<1> QED BY <1>1, InvMeans DEF ConsoleInv

\* Commands are sent and nothing else happens to the sockets.
LEMMA SendInv ==
  ASSUME ConsoleInv, NEW asks, Asks(asks), Send(sockets, pendingCallbacks, asks), UNCHANGED ws
  PROVE  ConsoleInv'
BY SendKeeps DEF ConsoleInv

\* A new socket has nothing under way.
LEMMA ConnectKeeps ==
  ASSUME ConsoleInv, doConnect
  PROVE  ConsoleInv'
<1> DEFINE c == [state |-> "connecting", db |-> 0, chose |-> FALSE, inbox |-> <<>>, outbox |-> <<>>]
           count == Len(sockets)
<1>1. sockets' = Append(sockets, c) /\ ws' = count + 1 /\ UNCHANGED <<pendingCallbacks, msgId>>
  BY DEF doConnect
<1>2. IsSequence(sockets) /\ count \in Nat /\ msgId \in Nat
  BY InvMeans
<1>3. /\ c.state = "connecting" /\ c.inbox = <<>> /\ c.outbox = <<>>
      /\ c = [state |-> c.state, db |-> c.db, chose |-> c.chose, inbox |-> c.inbox, outbox |-> c.outbox]
  OBVIOUS
<1> HIDE DEF c
<1>4. /\ IsSequence(sockets') /\ Len(sockets') = count + 1
      /\ \A n \in 1..(count + 1) : sockets'[n] = IF n = count + 1 THEN c ELSE sockets[n]
  BY <1>1, <1>2, SequenceAppend
<1>5. <<>> \o <<>> = <<>>
  OBVIOUS
<1>6. Len(<<>> \o <<>>) = 0
  BY <1>5, EmptyIs
<1>7. Numbered(c.outbox \o c.inbox, msgId)
  BY <1>3, <1>6 DEF Numbered
<1>8. \A s : Socket(c, s, pendingCallbacks, msgId)
  BY <1>3, <1>7, EmptyIs DEF Socket
<1>9. ASSUME NEW n \in 1..Len(sockets') PROVE Socket(sockets'[n], n, pendingCallbacks, msgId)
  <2>1. CASE n = count + 1
    BY <1>4, <1>8, <2>1
  <2>2. CASE n # count + 1
    <3>1. n \in 1..count /\ sockets'[n] = sockets[n]
      BY <1>2, <1>4, <2>2
    <3> QED BY <3>1, InvMeans
  <2> QED BY <2>1, <2>2
<1>10. ASSUME NEW i \in DOMAIN pendingCallbacks PROVE Waits(pendingCallbacks[i], i, sockets', msgId)
  <2>1. Waits(pendingCallbacks[i], i, sockets, msgId)
    BY DEF ConsoleInv, Routed
  <2>2. \A n \in 1..count : n \in 1..Len(sockets') /\ sockets'[n] = sockets[n]
    BY <1>2, <1>4
  <2> QED BY <2>1, <2>2 DEF Waits
<1>11. Routed(sockets', pendingCallbacks', msgId')
  BY <1>1, <1>2, <1>4, <1>9, <1>10 DEF Routed
<1>12. ws' \in 0..Len(sockets')
  BY <1>1, <1>2, <1>4
<1> QED BY <1>11, <1>12 DEF ConsoleInv

Opened(b) == [state |-> "open", db |-> b.db, chose |-> b.chose, inbox |-> b.inbox, outbox |-> b.outbox]

\* No callback waits on a socket before it opens.
LEMMA OpenedIs ==
  ASSUME ConsoleInv, NEW s \in DOMAIN sockets, sockets[s].state = "connecting",
         NEW socks, socks = [sockets EXCEPT ![s].state = "open"]
  PROVE  /\ Put(socks, sockets, s, Opened(sockets[s]))
         /\ sockets[s].outbox = <<>> /\ sockets[s].inbox = <<>>
         /\ Routed(socks, pendingCallbacks, msgId) /\ Len(socks) = Len(sockets)
<1> DEFINE b == sockets[s]
           c == [state |-> "open", db |-> b.db, chose |-> b.chose, inbox |-> b.inbox, outbox |-> b.outbox]
<1>2. /\ s \in 1..Len(sockets) /\ IsSequence(sockets) /\ IsSocket(b) /\ ws \in 0..Len(sockets)
      /\ Socket(b, s, pendingCallbacks, msgId)
  BY InvMeans
<1>3. Put(socks, sockets, s, c)
  <2>1. Put([sockets EXCEPT ![s].state = "open"], sockets, s, c)
    BY <1>2, StatePut, Zenon
  <2> HIDE DEF c
  <2> QED BY <2>1
<1>4. /\ c.state = "open" /\ c.inbox = b.inbox /\ c.outbox = b.outbox
      /\ c = [state |-> c.state, db |-> c.db, chose |-> c.chose, inbox |-> c.inbox, outbox |-> c.outbox]
  OBVIOUS
<1> HIDE DEF c
<1>5. b.outbox = <<>> /\ b.inbox = <<>>
  BY <1>2 DEF Socket
<1>6. Len(c.outbox \o c.inbox) = 0
  <2>1. <<>> \o <<>> = <<>>
    OBVIOUS
  <2> QED BY <1>4, <1>5, <2>1, EmptyIs
<1>7. Served(c.outbox \o c.inbox, s, pendingCallbacks)
  <2>1. ASSUME NEW i \in DOMAIN pendingCallbacks PROVE pendingCallbacks[i].via # s
    <3>1. Waits(pendingCallbacks[i], i, sockets, msgId)
      BY DEF ConsoleInv, Routed
    <3> QED BY <3>1 DEF Waits
  <2> QED BY <1>6, <2>1 DEF Served
<1>8. Socket(c, s, pendingCallbacks, msgId)
  BY <1>2, <1>4, <1>7 DEF Socket
<1>9. Routed(socks, pendingCallbacks, msgId) /\ Len(socks) = Len(sockets)
  BY <1>2, <1>3, <1>4, <1>8, PutSocket DEF ConsoleInv
<1> QED BY <1>3, <1>5, <1>9 DEF Opened, c

LEMMA OnopenKeeps ==
  ASSUME ConsoleInv, NEW s \in DOMAIN sockets, onopen(s)
  PROVE  ConsoleInv'
<1> DEFINE socks == [sockets EXCEPT ![s].state = "open"]
<1>1. /\ sockets[s].state = "connecting" /\ Send(socks, pendingCallbacks, refreshKeys) /\ UNCHANGED ws
  BY DEF onopen
<1>2. socks = [sockets EXCEPT ![s].state = "open"]
  OBVIOUS
<1> HIDE DEF socks
<1>3. Routed(socks, pendingCallbacks, msgId) /\ Len(socks) = Len(sockets)
  BY <1>1, <1>2, OpenedIs
<1>4. Asks(refreshKeys)
  BY AsksScan, FS_EmptySet
<1> QED BY <1>1, <1>3, <1>4, SendKeeps, InvMeans DEF ConsoleInv

\* A closing socket keeps its messages; it owes nothing any more.
LEMMA DisconnectKeeps ==
  ASSUME ConsoleInv, doDisconnect
  PROVE  ConsoleInv'
<1>1. /\ sockets' = IF ws = 0 \/ sockets[ws].state = "closed" THEN sockets
                    ELSE [sockets EXCEPT ![ws].state = "closing"]
      /\ UNCHANGED <<pendingCallbacks, msgId>> /\ ws' = 0
  BY DEF doDisconnect, setDisconnected
<1>2. CASE ws = 0 \/ sockets[ws].state = "closed"
  BY <1>1, <1>2, InvMeans DEF ConsoleInv
<1>3. CASE ~(ws = 0 \/ sockets[ws].state = "closed")
  <2> DEFINE b == sockets[ws]
             c == [state |-> "closing", db |-> b.db, chose |-> b.chose, inbox |-> b.inbox, outbox |-> b.outbox]
  <2>1. /\ ws \in 1..Len(sockets) /\ IsSequence(sockets) /\ IsSocket(b)
        /\ Socket(b, ws, pendingCallbacks, msgId)
    BY <1>3, InvMeans
  <2>2. Put([sockets EXCEPT ![ws].state = "closing"], sockets, ws, c)
    BY <2>1, StatePut, Zenon
  <2>3. /\ c.state = "closing" /\ c.inbox = b.inbox /\ c.outbox = b.outbox
        /\ IsSocket(c)
    BY DEF IsSocket
  <2> HIDE DEF c
  <2>4. Socket(c, ws, pendingCallbacks, msgId)
    BY <2>1, <2>3, SocketFields
  <2>5. Put(sockets', sockets, ws, c)
    BY <1>1, <1>3, <2>2
  <2> QED BY <1>1, <2>1, <2>3, <2>4, <2>5, PutInv
<1> QED BY <1>2, <1>3

\* A closed socket has no messages,
LEMMA OnclosePut ==
  ASSUME ConsoleInv, NEW s \in DOMAIN sockets,
         sockets' = [sockets EXCEPT ![s].state = "closed", ![s].inbox = <<>>, ![s].outbox = <<>>]
  PROVE  LET b == sockets[s]
         IN  Put(sockets', sockets, s, [state |-> "closed", db |-> b.db, chose |-> b.chose,
                                        inbox |-> <<>>, outbox |-> <<>>])
<1> DEFINE b == sockets[s]
           d == [state |-> "closed", db |-> b.db, chose |-> b.chose, inbox |-> b.inbox, outbox |-> b.outbox]
           c == Holding(d, <<>>, <<>>)
           p == [sockets EXCEPT ![s].state = "closed"]
<1>1. s \in 1..Len(sockets) /\ IsSequence(sockets) /\ IsSocket(b)
  BY InvMeans
<1>2. sockets' = [p EXCEPT ![s].inbox = <<>>, ![s].outbox = <<>>]
  OBVIOUS
<1>3. Put(p, sockets, s, d)
  BY <1>1, StatePut, Zenon
<1>4. IsSocket(d)
  BY DEF IsSocket
<1>5. c = [state |-> "closed", db |-> b.db, chose |-> b.chose, inbox |-> <<>>, outbox |-> <<>>]
  BY DEF Holding
<1> HIDE DEF p, d
<1>6. IsSequence(p) /\ s \in 1..Len(p) /\ p[s] = d
  BY <1>1, <1>3 DEF Put
<1>7. Put([p EXCEPT ![s].inbox = <<>>, ![s].outbox = <<>>], p, s, Holding(p[s], <<>>, <<>>))
  <2>1. IsSocket(p[s])
    BY <1>4, <1>6
  <2> QED BY <1>6, <2>1, AnsweredPut, Zenon
<1> HIDE DEF c
<1>8. Put(sockets', p, s, c)
  BY <1>2, <1>6, <1>7 DEF c
<1>9. Put(sockets', sockets, s, c)
  BY <1>3, <1>8 DEF Put
<1> QED BY <1>5, <1>9

\* and owes nothing.
LEMMA OncloseKeeps ==
  ASSUME ConsoleInv, NEW s \in DOMAIN sockets, onclose(s)
  PROVE  ConsoleInv'
<1> DEFINE b == sockets[s]
           c == [state |-> "closed", db |-> b.db, chose |-> b.chose, inbox |-> <<>>, outbox |-> <<>>]
<1>1. /\ sockets' = [sockets EXCEPT ![s].state = "closed", ![s].inbox = <<>>, ![s].outbox = <<>>]
      /\ UNCHANGED <<pendingCallbacks, msgId>> /\ ws' = 0
  BY DEF onclose, setDisconnected
<1>2. s \in 1..Len(sockets)
  BY InvMeans
<1>3. Put(sockets', sockets, s, c)
  BY <1>1, OnclosePut
<1>4. /\ c.state = "closed" /\ c.inbox = <<>> /\ c.outbox = <<>>
      /\ c = [state |-> c.state, db |-> c.db, chose |-> c.chose, inbox |-> c.inbox, outbox |-> c.outbox]
  OBVIOUS
<1> HIDE DEF c
<1>5. Numbered(c.outbox \o c.inbox, msgId)
  <2>1. <<>> \o <<>> = <<>>
    OBVIOUS
  <2>2. Len(c.outbox \o c.inbox) = 0
    BY <1>4, <2>1, EmptyIs
  <2> QED BY <2>2 DEF Numbered
<1>6. Socket(c, s, pendingCallbacks, msgId)
  BY <1>4, <1>5, EmptyIs DEF Socket
<1> QED BY <1>1, <1>2, <1>3, <1>4, <1>6, PutInv

ReplyTo(m, answer, result) ==
  [id |-> m.id, op |-> m.op, arg |-> m.arg, answer |-> answer, result |-> result]

\* An answer takes the place of its question.
LEMMA AnsweredIs ==
  ASSUME ConsoleInv, NEW s \in DOMAIN sockets, NEW m, NEW answer, NEW result,
         NEW r, r = Answered(s, m, answer, result)
  PROVE  Put(r, sockets, s, Holding(sockets[s], Tail(sockets[s].inbox),
                                    Append(sockets[s].outbox, ReplyTo(m, answer, result))))
<1> DEFINE e == ReplyTo(m, answer, result)
           in == Tail(sockets[s].inbox)
           out == Append(sockets[s].outbox, e)
<1>1. s \in 1..Len(sockets) /\ IsSequence(sockets) /\ IsSocket(sockets[s])
  BY InvMeans
<1>2. r = [sockets EXCEPT ![s].inbox = in, ![s].outbox = out]
  BY DEF Answered, ReplyTo
<1> HIDE DEF in, out
<1>3. Put([sockets EXCEPT ![s].inbox = in, ![s].outbox = out], sockets, s, Holding(sockets[s], in, out))
  BY <1>1, AnsweredPut, Zenon
<1>4. Put(r, sockets, s, Holding(sockets[s], in, out))
  BY <1>2, <1>3
<1> QED BY <1>4 DEF in, out

LEMMA AnsweredKeeps ==
  ASSUME ConsoleInv, NEW s \in DOMAIN sockets, sockets[s].inbox # <<>>,
         NEW m, m = Head(sockets[s].inbox), NEW answer, NEW result,
         answer = "confirm" <=> m.op = "FLUSHDB",
         m.op = "SCAN" /\ answer = "ok" => IsFiniteSet(result.keys)
  PROVE  Routed(Answered(s, m, answer, result), pendingCallbacks, msgId)
         /\ Len(Answered(s, m, answer, result)) = Len(sockets)
<1> DEFINE b == sockets[s]
           e == ReplyTo(m, answer, result)
           c == Holding(b, Tail(b.inbox), Append(b.outbox, e))
           r == Answered(s, m, answer, result)
<1>1. /\ s \in 1..Len(sockets) /\ IsSequence(sockets) /\ IsSocket(b)
      /\ Socket(b, s, pendingCallbacks, msgId)
  BY InvMeans
<1>2. e.id = m.id /\ e.op = m.op /\ e.arg = m.arg /\ Answer(e)
  BY DEF Answer, ReplyTo
<1>3. Put(r, sockets, s, c)
  BY AnsweredIs
<1> HIDE DEF e, r
<1>4. Socket(c, s, pendingCallbacks, msgId)
  BY <1>1, <1>2, AnsweredSocket
<1>5. c.state = b.state
  BY DEF Holding
<1> HIDE DEF c
<1>6. Routed(r, pendingCallbacks, msgId) /\ Len(r) = Len(sockets)
  BY <1>1, <1>3, <1>4, <1>5, PutSocket DEF ConsoleInv
<1> QED BY <1>6 DEF r

\* Every answer of _handleMessage is one.
LEMMA HandleKeeps ==
  ASSUME ConsoleInv, NEW s \in DOMAIN sockets, Handle(s)
  PROVE  ConsoleInv'
<1> DEFINE m == Head(sockets[s].inbox)
           db == sockets[s].db
           R(a, x) == Answered(s, m, a, x)
<1>0. sockets[s].inbox # <<>> /\ UNCHANGED <<ws, msgId, pendingCallbacks>>
  BY DEF Handle
<1>1. \/ m.op # "FLUSHDB" /\ sockets' = Answered(s, m, "error", 0)
      \/ m.op = "SCAN" /\ sockets' = Answered(s, m, "ok", Page(db, m.arg))
      \/ m.op \in {"TYPE", "TTL", "GET", "EXPIRE", "SET", "DEL"} /\ sockets' = Answered(s, m, "ok", 0)
      \/ m.op = "SELECT" /\ sockets' = [Answered(s, m, "ok", 0) EXCEPT ![s].db = m.arg, ![s].chose = TRUE]
      \/ m.op = "FLUSHDB" /\ sockets' = Answered(s, m, "confirm", 0)
  BY DEF Handle
<1>2. ASSUME NEW a, NEW x, a = "confirm" <=> m.op = "FLUSHDB", m.op = "SCAN" /\ a = "ok" => IsFiniteSet(x.keys),
             sockets' = Answered(s, m, a, x)
      PROVE  ConsoleInv'
  <2>1. Routed(Answered(s, m, a, x), pendingCallbacks, msgId) /\ Len(Answered(s, m, a, x)) = Len(sockets)
    BY <1>0, <1>2, AnsweredKeeps
  <2> QED BY <1>0, <1>2, <2>1 DEF ConsoleInv
<1>3. CASE m.op # "FLUSHDB" /\ sockets' = Answered(s, m, "error", 0)
  BY <1>2, <1>3
<1>4. CASE m.op = "SCAN" /\ sockets' = Answered(s, m, "ok", Page(db, m.arg))
  <2>1. IsFiniteSet(Page(db, m.arg).keys)
    <3>1. \A key : IsFiniteSet({key})
      BY FS_Singleton
    <3> QED BY <3>1, FS_EmptySet DEF Page
  <2> QED BY <1>2, <1>4, <2>1
<1>5. CASE m.op \in {"TYPE", "TTL", "GET", "EXPIRE", "SET", "DEL"} /\ sockets' = Answered(s, m, "ok", 0)
  BY <1>2, <1>5
<1>6. CASE m.op = "SELECT" /\ sockets' = [Answered(s, m, "ok", 0) EXCEPT ![s].db = m.arg, ![s].chose = TRUE]
  <2> DEFINE r == Answered(s, m, "ok", 0)
             y == m.arg
             c == [state |-> r[s].state, db |-> y, chose |-> TRUE, inbox |-> r[s].inbox, outbox |-> r[s].outbox]
  <2>1. Routed(r, pendingCallbacks, msgId) /\ Len(r) = Len(sockets)
    BY <1>0, <1>6, AnsweredKeeps
  <2>2. sockets' = [r EXCEPT ![s].db = y, ![s].chose = TRUE]
    BY <1>6
  <2> HIDE DEF r, y
  <2>3. /\ s \in 1..Len(r) /\ IsSequence(r) /\ IsSocket(r[s])
        /\ Socket(r[s], s, pendingCallbacks, msgId)
    BY <2>1, InvMeans DEF Routed, Socket, IsSocket
  <2>4. Put([r EXCEPT ![s].db = y, ![s].chose = TRUE], r, s, c)
    BY <2>3, ChosenPut, Zenon
  <2>5. c.state = r[s].state /\ c.inbox = r[s].inbox /\ c.outbox = r[s].outbox
    OBVIOUS
  <2>6. IsSocket(c)
    BY DEF IsSocket
  <2> HIDE DEF c
  <2>7. Socket(c, s, pendingCallbacks, msgId)
    BY <2>3, <2>5, <2>6, SocketFields
  <2>8. Routed(sockets', pendingCallbacks, msgId) /\ Len(sockets') = Len(r)
    BY <2>1, <2>2, <2>3, <2>4, <2>5, <2>7, PutSocket
  <2> QED BY <1>0, <2>1, <2>8 DEF ConsoleInv
<1>7. CASE m.op = "FLUSHDB" /\ sockets' = Answered(s, m, "confirm", 0)
  BY <1>2, <1>7
<1> QED BY <1>1, <1>3, <1>4, <1>5, <1>6, <1>7

\* The page takes an answer.
LEMMA DeliveredIs ==
  ASSUME ConsoleInv, NEW s \in DOMAIN sockets, sockets[s].state = "open", sockets[s].outbox # <<>>,
         NEW msg, msg = Head(sockets[s].outbox),
         NEW socks, socks = [sockets EXCEPT ![s].outbox = Tail(@)],
         NEW rest, rest = [i \in DOMAIN pendingCallbacks \ {msg.id} |-> pendingCallbacks[i]]
  PROVE  /\ Put(socks, sockets, s, Holding(sockets[s], sockets[s].inbox, Tail(sockets[s].outbox)))
         /\ Len(socks) = Len(sockets) /\ Answer(msg) /\ msg.id \in 1..msgId
         /\ msg.op = "FLUSHDB" => Routed(socks, pendingCallbacks, msgId)
         /\ msg.op # "FLUSHDB" => msg.id \in DOMAIN pendingCallbacks /\ Routed(socks, rest, msgId)
<1> DEFINE out == Tail(sockets[s].outbox)
<1>1. s \in 1..Len(sockets) /\ IsSequence(sockets) /\ IsSocket(sockets[s])
  BY InvMeans
<1>2. socks = [sockets EXCEPT ![s].outbox = out]
  OBVIOUS
<1> HIDE DEF out
<1>3. Put([sockets EXCEPT ![s].outbox = out], sockets, s, Holding(sockets[s], sockets[s].inbox, out))
  BY <1>1, OutboxPut, Zenon
<1>4. Put(socks, sockets, s, Holding(sockets[s], sockets[s].inbox, Tail(sockets[s].outbox)))
  BY <1>2, <1>3 DEF out
<1>5. /\ Len(socks) = Len(sockets) /\ Answer(msg) /\ msg.id \in 1..msgId
      /\ msg.op = "FLUSHDB" => Routed(socks, pendingCallbacks, msgId)
      /\ msg.op # "FLUSHDB" =>
            /\ msg.id \in DOMAIN pendingCallbacks
            /\ Routed(socks, [i \in DOMAIN pendingCallbacks \ {msg.id} |-> pendingCallbacks[i]], msgId)
  <2>1. /\ Routed(sockets, pendingCallbacks, msgId) /\ msg = Head(sockets[s].outbox)
        /\ s \in 1..Len(sockets) /\ sockets[s].state = "open" /\ sockets[s].outbox # <<>>
        /\ Put(socks, sockets, s, Holding(sockets[s], sockets[s].inbox, Tail(sockets[s].outbox)))
    BY <1>1, <1>4 DEF ConsoleInv
  <2>2. Routed(sockets, pendingCallbacks, msgId)
    BY <2>1
  <2>3. s \in 1..Len(sockets)
    BY <2>1
  <2>4. sockets[s].state = "open" /\ sockets[s].outbox # <<>> /\ msg = Head(sockets[s].outbox)
    BY <2>1
  <2>5. Put(socks, sockets, s, Holding(sockets[s], sockets[s].inbox, Tail(sockets[s].outbox)))
    BY <2>1
  <2> QED
    BY ONLY <2>2, <2>3, <2>4, <2>5, DeliveredKeeps, ZenonT(30)
<1> QED BY <1>4, <1>5

\* Its callback runs and sends more commands.
LEMMA MessageKeeps ==
  ASSUME ConsoleInv, NEW s \in DOMAIN sockets, onmessage(s)
  PROVE  ConsoleInv'
<1> DEFINE msg == Head(sockets[s].outbox)
           socks == [sockets EXCEPT ![s].outbox = Tail(@)]
           rest == [i \in DOMAIN pendingCallbacks \ {msg.id} |-> pendingCallbacks[i]]
           effect == Effect(pendingCallbacks[msg.id], msg)
<1>1. /\ sockets[s].state = "open" /\ sockets[s].outbox # <<>> /\ UNCHANGED ws
      /\ \/ /\ msg.answer = "confirm" /\ sockets' = socks /\ UNCHANGED <<msgId, pendingCallbacks>>
         \/ /\ msg.answer # "confirm" /\ msg.id # 0 /\ msg.id \in DOMAIN pendingCallbacks
            /\ Send(socks, rest, effect.sends)
         \/ /\ msg.answer # "confirm" /\ ~(msg.id # 0 /\ msg.id \in DOMAIN pendingCallbacks)
  BY DEF onmessage
<1>2. msgId \in Nat /\ ws \in 0..Len(sockets)
  BY InvMeans
<1>3. /\ msg = Head(sockets[s].outbox) /\ socks = [sockets EXCEPT ![s].outbox = Tail(@)]
      /\ rest = [i \in DOMAIN pendingCallbacks \ {msg.id} |-> pendingCallbacks[i]]
  OBVIOUS
<1> HIDE DEF socks, rest, effect, msg
<1>4. /\ Len(socks) = Len(sockets) /\ Answer(msg) /\ msg.id \in 1..msgId
      /\ msg.op = "FLUSHDB" => Routed(socks, pendingCallbacks, msgId)
      /\ msg.op # "FLUSHDB" => msg.id \in DOMAIN pendingCallbacks /\ Routed(socks, rest, msgId)
  BY <1>1, <1>3, DeliveredIs
<1>5. msg.answer = "confirm" <=> msg.op = "FLUSHDB"
  BY <1>4 DEF Answer
<1>6. CASE msg.answer = "confirm" /\ sockets' = socks /\ UNCHANGED <<msgId, pendingCallbacks>>
  BY <1>1, <1>2, <1>4, <1>5, <1>6 DEF ConsoleInv
<1>7. CASE msg.answer # "confirm" /\ msg.id \in DOMAIN pendingCallbacks /\ Send(socks, rest, effect.sends)
  <2>1. Waits(pendingCallbacks[msg.id], msg.id, sockets, msgId)
    BY <1>7 DEF ConsoleInv, Routed
  <2>2. Asks(effect.sends)
    BY <1>4, <2>1, EffectAsks DEF Waits, effect
  <2> QED BY <1>1, <1>2, <1>4, <1>5, <1>7, <2>2, SendKeeps DEF ConsoleInv
<1>8. CASE msg.answer # "confirm" /\ ~(msg.id # 0 /\ msg.id \in DOMAIN pendingCallbacks)
  <2>1. msg.id # 0
    BY <1>2, <1>4
  <2> QED BY <1>4, <1>5, <1>8, <2>1
<1> QED BY <1>1, <1>6, <1>7, <1>8

\* Every gesture of the user sends well formed commands, or none.
LEMMA GestureKeeps ==
  ASSUME ConsoleInv, NEW asks, Asks(asks), NEW apart, Gesture(asks, apart)
  PROVE  ConsoleInv'
BY SendInv DEF Gesture

LEMMA UserKeeps ==
  ASSUME ConsoleInv, NEW asks, Asks(asks), UserSends(asks)
  PROVE  ConsoleInv'
BY GestureKeeps DEF UserSends

\* What waits and what is under way stay the same through every step.
LEMMA ConsoleStep ==
  ASSUME ConsoleInv, [ConsoleNext]_consoleVars
  PROVE  ConsoleInv'
<1>1. CASE doConnect
  BY <1>1, ConnectKeeps
<1>2. CASE doDisconnect
  BY <1>2, DisconnectKeeps
<1>3. CASE onRefresh
  BY <1>3, UserKeeps, AsksScan, FS_EmptySet DEF onRefresh
<1>4. CASE onInspect
  BY <1>4, UserKeeps, AsksInspect DEF onInspect
<1>5. CASE onTerminalKey
  <2>1. PICK op, arg, then : then # "scanned" /\ UserSends(<<Cmd(op, arg, then, 0)>>)
    BY <1>5 DEF onTerminalKey
  <2>2. Asks(<<Cmd(op, arg, then, 0)>>)
    BY <2>1, AsksCmd
  <2> QED BY <2>1, <2>2, UserKeeps
<1>6. CASE handleDeleteCurrentKey
  <2>1. UserSends(<<Cmd("DEL", inspected, "deleted", 0)>>)
    BY <1>6 DEF handleDeleteCurrentKey
  <2>2. Asks(<<Cmd("DEL", inspected, "deleted", 0)>>)
    BY AsksCmd
  <2> QED BY <2>1, <2>2, UserKeeps
<1>7. CASE handleSaveEditKey
  <2>1. Gesture(<<Cmd("SET", inspected, "edited", 0)>>, Unlisted)
    BY <1>7 DEF handleSaveEditKey
  <2>2. Asks(<<Cmd("SET", inspected, "edited", 0)>>)
    BY AsksCmd
  <2> QED BY <2>1, <2>2, GestureKeeps
<1>8. CASE closeDangerModal
  BY <1>8 DEF closeDangerModal, ConsoleInv
<1>9. CASE \E db \in ConsoleDb : onDbChange(db)
  <2>1. PICK db \in ConsoleDb : UserSends(<<Cmd("SELECT", db, "refresh", 0)>>)
    BY <1>9 DEF onDbChange
  <2>2. Asks(<<Cmd("SELECT", db, "refresh", 0)>>)
    BY AsksCmd
  <2> QED BY <2>1, <2>2, UserKeeps
<1>10. CASE \E k \in ConsoleKey : handleCreateKey(k)
  <2>1. PICK k \in ConsoleKey, then \in {"created", "expires"} : UserSends(<<Cmd("SET", k, then, 0)>>)
    BY <1>10 DEF handleCreateKey
  <2>2. Asks(<<Cmd("SET", k, then, 0)>>)
    BY AsksCmd
  <2> QED BY <2>1, <2>2, UserKeeps
<1>11. CASE \E s \in DOMAIN sockets : onopen(s) \/ onclose(s) \/ Handle(s) \/ onmessage(s)
  BY <1>11, OnopenKeeps, OncloseKeeps, HandleKeeps, MessageKeeps
<1>12. CASE UNCHANGED consoleVars
  BY <1>12 DEF consoleVars, ConsoleInv
<1> QED BY <1>1, <1>2, <1>3, <1>4, <1>5, <1>6, <1>7, <1>8, <1>9, <1>10, <1>11, <1>12 DEF ConsoleNext

\* Every callback that waits on an open socket waits for exactly one message, which is
\* under way and answers the command it was registered with, through reconnections, late
\* closes and overlapping requests: sendCommand, ws.onmessage and ws.onclose of
\* frontend/app.js with _handleMessage of bridge.js. FLUSHDB is the exception.
THEOREM CallbacksAreRouted == ConsoleSpec => []CallbacksRouted
<1>1. ConsoleSpec => []ConsoleInv
  BY InitRouted, ConsoleStep, PTL DEF ConsoleSpec
<1> QED BY <1>1, RoutedMeans, PTL

-----------------------------------------------------------------------------
(* WebConsole: the keys in order, and the pages of a SCAN.                  *)

\* Sets of places are finite, and so is every set of keys.
LEMMA PlacesFinite ==
  ASSUME NEW n \in Nat
  PROVE  IsFiniteSet(0..(n - 1)) /\ Cardinality(0..(n - 1)) = n
<1>1. IsFiniteSet(0..(n - 1)) /\ Cardinality(0..(n - 1)) = IF 0 > n - 1 THEN 0 ELSE (n - 1) - 0 + 1
  <2>1. n - 1 \in Int /\ 0 \in Int
    OBVIOUS
  <2> DEFINE m == n - 1
  <2>2. m \in Int
    BY <2>1
  <2> HIDE DEF m
  <2>3. IsFiniteSet(0..m) /\ Cardinality(0..m) = IF 0 > m THEN 0 ELSE m - 0 + 1
    BY <2>2, FS_Interval
  <2> QED BY <2>3 DEF m
<1>2. (IF 0 > n - 1 THEN 0 ELSE (n - 1) - 0 + 1) = n
  OBVIOUS
<1> QED BY <1>1, <1>2

LEMMA KeysFinite ==
  ASSUME NEW keys \in SUBSET ConsoleKey
  PROVE  IsFiniteSet(keys) /\ Cardinality(keys) \in Nat /\ keys \subseteq Nat
<1>1. Bucket \in Nat
  BY ConsoleAssumption
<1>2. IsFiniteSet(ConsoleKey)
  BY <1>1, PlacesFinite DEF ConsoleKey
<1>3. IsFiniteSet(keys)
  BY <1>2, FS_Subset
<1> QED BY <1>3, <1>1, FS_CardinalityType DEF ConsoleKey

\* One element less makes a set smaller.
LEMMA FewerAre ==
  ASSUME NEW S, IsFiniteSet(S), NEW T \in SUBSET S, NEW x \in S, x \notin T
  PROVE  IsFiniteSet(T) /\ Cardinality(T) \in Nat /\ Cardinality(T) < Cardinality(S)
<1>1. IsFiniteSet(T) /\ Cardinality(T) <= Cardinality(S) /\ Cardinality(S) # Cardinality(T)
  BY FS_Subset
<1>2. Cardinality(T) \in Nat /\ Cardinality(S) \in Nat
  BY <1>1, FS_CardinalityType
<1> DEFINE a == Cardinality(S)
           b == Cardinality(T)
<1>3. b <= a /\ a # b /\ a \in Nat /\ b \in Nat
  BY <1>1, <1>2
<1> HIDE DEF a, b
<1>4. b < a
  BY <1>3
<1> QED BY <1>1, <1>2, <1>4 DEF a, b

\* The number of smaller keys orders the keys,
Smaller(keys, k) == {j \in keys : j < k}
Rank(keys, k) == Cardinality(Smaller(keys, k))

LEMMA RankGrows ==
  ASSUME NEW keys \in SUBSET ConsoleKey, NEW j \in keys, NEW k \in keys, j < k
  PROVE  Rank(keys, j) < Rank(keys, k)
<1>0. keys \subseteq Nat /\ IsFiniteSet(keys)
  BY KeysFinite
<1> DEFINE A == Smaller(keys, j)
           B == Smaller(keys, k)
<1>1. A \subseteq B /\ j \in B /\ j \notin A /\ B \subseteq keys
  <2>1. j \in Nat /\ k \in Nat /\ ~(j < j)
    BY <1>0
  <2>2. \A i \in keys : i < j => i < k
    BY <1>0, <2>1
  <2> QED BY <2>1, <2>2 DEF Smaller
<1> HIDE DEF A, B
<1>2. IsFiniteSet(B)
  BY <1>0, <1>1, FS_Subset
<1>3. Cardinality(A) < Cardinality(B)
  BY <1>1, <1>2, FewerAre
<1> QED BY <1>3 DEF Rank, A, B

LEMMA RankBelow ==
  ASSUME NEW keys \in SUBSET ConsoleKey, NEW k \in keys
  PROVE  Rank(keys, k) \in 0..(Cardinality(keys) - 1)
<1>0. keys \subseteq Nat /\ IsFiniteSet(keys) /\ Cardinality(keys) \in Nat
  BY KeysFinite
<1> DEFINE A == Smaller(keys, k)
<1>1. A \in SUBSET keys /\ k \notin A
  BY <1>0 DEF Smaller
<1> HIDE DEF A
<1>2. Cardinality(A) \in Nat /\ Cardinality(A) < Cardinality(keys)
  BY <1>0, <1>1, FewerAre
<1>3. Cardinality(A) \in 0..(Cardinality(keys) - 1)
  BY <1>0, <1>2
<1> QED BY <1>3 DEF Rank, A

\* and there is one of every rank, for ranks are distinct and there are as many of them.
LEMMA RankExists ==
  ASSUME NEW keys \in SUBSET ConsoleKey, NEW n \in 1..Cardinality(keys)
  PROVE  \E k \in keys : Rank(keys, k) = n - 1
<1>0. keys \subseteq Nat /\ IsFiniteSet(keys) /\ Cardinality(keys) \in Nat
  BY KeysFinite
<1> DEFINE K == Cardinality(keys)
           R == {Rank(keys, k) : k \in keys}
           f == [k \in keys |-> Rank(keys, k)]
<1>1. ASSUME NEW k \in keys PROVE Rank(keys, k) \in 0..(K - 1)
  BY RankBelow
<1>2. \A j, k \in keys : Rank(keys, j) = Rank(keys, k) => j = k
  <2> TAKE j \in keys, k \in keys
  <2> HAVE Rank(keys, j) = Rank(keys, k)
  <2>1. Rank(keys, j) \in Int /\ Rank(keys, k) \in Int
    BY <1>1
  <2>2. ~(j < k) /\ ~(k < j)
    BY <2>1, RankGrows
  <2> QED BY <1>0, <2>2
<1>3. f \in Bijection(keys, R)
  <2>1. f \in [keys -> R] /\ \A r \in R : \E k \in keys : f[k] = r
    OBVIOUS
  <2>2. \A j, k \in keys : f[j] = f[k] => j = k
    BY <1>2
  <2> QED BY <2>1, <2>2, Fun_IsBij
<1> HIDE DEF f, R
<1>4. IsFiniteSet(R) /\ Cardinality(R) = K
  BY <1>0, <1>3, FS_Bijection DEF ExistsBijection
<1>5. R \subseteq 0..(K - 1)
  BY <1>1 DEF R
<1>6. IsFiniteSet(0..(K - 1)) /\ Cardinality(0..(K - 1)) = K
  BY <1>0, PlacesFinite
<1>7. R = 0..(K - 1)
  BY <1>4, <1>5, <1>6, FS_Subset
<1>8. n - 1 \in 0..(K - 1)
  BY <1>0
<1>9. n - 1 \in R
  BY <1>7, <1>8
<1> QED BY <1>9 DEF R

\* So Ascending lists the keys, all of them, each once and in order.
LEMMA AscendingIs ==
  ASSUME NEW keys \in SUBSET ConsoleKey
  PROVE  /\ \A n \in 1..Cardinality(keys) : Ascending(keys)[n] \in keys
         /\ \A k \in keys : \E n \in 1..Cardinality(keys) : Ascending(keys)[n] = k
         /\ \A m, n \in 1..Cardinality(keys) : m < n => Ascending(keys)[m] < Ascending(keys)[n]
<1>0. keys \subseteq Nat /\ IsFiniteSet(keys) /\ Cardinality(keys) \in Nat
  BY KeysFinite
<1> DEFINE K == Cardinality(keys)
<1>1. ASSUME NEW n \in 1..K
      PROVE  Ascending(keys)[n] \in keys /\ Rank(keys, Ascending(keys)[n]) = n - 1
  <2>1. Ascending(keys)[n] = CHOOSE k \in keys : Rank(keys, k) = n - 1
    BY DEF Ascending, Rank, Smaller
  <2>2. \E k \in keys : Rank(keys, k) = n - 1
    BY RankExists
  <2> QED BY <2>1, <2>2
<1>2. ASSUME NEW k \in keys PROVE \E n \in 1..K : Ascending(keys)[n] = k
  <2>1. Rank(keys, k) \in 0..(K - 1)
    BY RankBelow
  <2> DEFINE n == Rank(keys, k) + 1
             a == Ascending(keys)[n]
  <2>2. n \in 1..K /\ n - 1 = Rank(keys, k)
    BY <1>0, <2>1
  <2>3. a \in keys /\ Rank(keys, a) = Rank(keys, k)
    BY <1>1, <2>2
  <2> HIDE DEF a
  <2>4. ~(a < k) /\ ~(k < a)
    BY <2>1, <2>3, RankGrows
  <2>5. a = k
    BY <1>0, <2>3, <2>4
  <2> QED BY <2>2, <2>5 DEF a
<1>3. ASSUME NEW m \in 1..K, NEW n \in 1..K, m < n PROVE Ascending(keys)[m] < Ascending(keys)[n]
  <2> DEFINE a == Ascending(keys)[m]
             b == Ascending(keys)[n]
  <2>1. a \in keys /\ b \in keys /\ Rank(keys, a) = m - 1 /\ Rank(keys, b) = n - 1
    BY <1>1
  <2> HIDE DEF a, b
  <2>2. m - 1 < n - 1 /\ m - 1 \in Int /\ n - 1 \in Int /\ ~(n - 1 < m - 1) /\ m - 1 # n - 1
    BY <1>0, <1>3
  <2>3. a # b /\ ~(b < a)
    BY <2>1, <2>2, RankGrows
  <2>4. a < b
    BY <1>0, <2>1, <2>3
  <2> QED BY <2>4 DEF a, b
<1> QED BY <1>1, <1>2, <1>3

\* What a SCAN answers: Page of the database's keys.
PageOf(keys, cursor) ==
  LET ahead == {k \in keys : k >= cursor}
      key == CHOOSE k \in ahead : \A j \in ahead : k <= j
  IN  IF ahead = {} THEN [next |-> 0, keys |-> {}]
      ELSE [next |-> IF key + 1 < Bucket THEN key + 1 ELSE 0, keys |-> {key}]

\* The keys below the cursor are collected. A page adds the next one, and the last page
\* leaves none out.
LEMMA PageAdds ==
  ASSUME NEW keys \in SUBSET ConsoleKey, NEW cursor \in Nat
  PROVE  LET page == PageOf(keys, cursor)
             all == Smaller(keys, cursor) \cup page.keys
         IN  /\ page.next \in Nat
             /\ page.next = 0 => all = keys
             /\ page.next # 0 => all = Smaller(keys, page.next)
<1>0. keys \subseteq Nat /\ Bucket \in Nat
  BY KeysFinite, ConsoleAssumption
<1> DEFINE ahead == {k \in keys : k >= cursor}
           key == CHOOSE k \in ahead : \A j \in ahead : k <= j
           page == PageOf(keys, cursor)
<1>1. CASE ahead = {}
  <2>1. page.next = 0 /\ page.keys = {}
    BY <1>1 DEF PageOf
  <2>2. Smaller(keys, cursor) = keys
    <3>1. \A k \in keys : k \in Nat /\ ~(k >= cursor)
      BY <1>0, <1>1
    <3>2. \A k \in keys : k < cursor
      BY <3>1
    <3> QED BY <3>2 DEF Smaller
  <2> QED BY <2>1, <2>2
<1>2. CASE ahead # {}
  <2>1. key \in ahead /\ \A j \in ahead : key <= j
    <3>1. ahead \in SUBSET ConsoleKey /\ ahead \subseteq Nat
      BY <1>0
    <3> HIDE DEF ahead
    <3>2. IsFiniteSet(ahead) /\ Cardinality(ahead) \in Nat
      BY <3>1, KeysFinite
    <3>3. Cardinality(ahead) # 0
      BY <1>2, <3>2, FS_EmptySet
    <3>4. 1 \in 1..Cardinality(ahead) /\ \A n \in 1..Cardinality(ahead) : n = 1 \/ 1 < n
      BY <3>2, <3>3
    <3> DEFINE a == Ascending(ahead)[1]
    <3>5. a \in ahead /\ \A j \in ahead : a <= j
      <4>1. a \in ahead
        BY <3>1, <3>4, AscendingIs
      <4>2. ASSUME NEW j \in ahead PROVE a <= j
        <5>1. PICK n \in 1..Cardinality(ahead) : Ascending(ahead)[n] = j
          BY <3>1, AscendingIs
        <5>2. n = 1 \/ a < j
          BY <3>1, <3>4, <5>1, AscendingIs
        <5> HIDE DEF a
        <5>3. a \in Nat /\ j \in Nat /\ (a = j \/ a < j)
          BY <3>1, <4>1, <5>1, <5>2 DEF a
        <5> QED BY <5>3
      <4> QED BY <4>1, <4>2
    <3> QED BY <3>5
  <2>2. page.next = (IF key + 1 < Bucket THEN key + 1 ELSE 0) /\ page.keys = {key}
    BY <1>2 DEF PageOf
  <2> HIDE DEF key, page
  <2>3. key \in keys /\ key >= cursor /\ key \in Nat /\ \A j \in keys : j < cursor \/ key <= j
    BY <1>0, <2>1
  <2>4. \A k \in keys : k < Bucket
    BY <1>0 DEF ConsoleKey
  <2>5. Smaller(keys, cursor) \cup {key} = {k \in keys : k < key + 1}
    <3>1. ASSUME NEW k \in keys PROVE (k < cursor \/ k = key) <=> k < key + 1
      <4>1. k \in Nat /\ (k < cursor \/ key <= k)
        BY <1>0, <2>3
      <4> QED BY <2>3, <4>1
    <3> QED BY <2>3, <3>1 DEF Smaller
  <2>6. ~(key + 1 < Bucket) => \A k \in keys : k < key + 1
    BY <1>0, <2>3, <2>4
  <2>7. key + 1 # 0 /\ key + 1 \in Nat
    BY <2>3
  <2>8. page.next # 0 => page.next = key + 1
    BY <2>2
  <2>9. page.next = 0 => ~(key + 1 < Bucket)
    BY <2>2, <2>7
  <2>10. page.next \in Nat
    BY <2>2, <2>7
  <2>11. page.next # 0 => Smaller(keys, cursor) \cup page.keys = Smaller(keys, page.next)
    BY <2>2, <2>5, <2>8 DEF Smaller
  <2>12. page.next = 0 => Smaller(keys, cursor) \cup page.keys = keys
    BY <2>2, <2>5, <2>6, <2>9
  <2> QED BY <2>10, <2>11, <2>12 DEF page
<1> QED BY <1>1, <1>2

-----------------------------------------------------------------------------
(* WebConsole: what is under way leads to the right list.                   *)

\* A message whose answer changes nothing the page shows,
Idle(m, calls) == m.op = "FLUSHDB" \/ (m.op \in {"TTL", "GET"} /\ calls[m.id].then = "shown")

\* and one whose answer adds k to the list.
Typing(m, calls, k) == m.op = "TYPE" /\ m.arg = k /\ calls[m.id].then = "typed"

\* The list shows the first keys, and the rest come last under way.
Prefix(keys, p) == [n \in 1..p |-> Ascending(keys)[n]]
Filling(w, calls, shows, keys) ==
  \E p \in 0..Cardinality(keys) :
    LET left == Cardinality(keys) - p
        idle == Len(w) - left
    IN  /\ idle >= 0 /\ shows = Prefix(keys, p)
        /\ \A n \in 1..idle : Idle(w[n], calls)
        /\ \A n \in 1..left : Typing(w[idle + n], calls, Ascending(keys)[p + n])

\* A command after whose answer the list will be read, with its callback: it selects a
\* database, writes, or collects the keys below its cursor. An edit needs no new list.
Turn(m, c, answered, db, chose, keys, shows, prompt) ==
  \/ /\ m.op = "SELECT" /\ m.arg \in ConsoleDb /\ c.then \in {"refresh", "selected"}
     /\ answered => db = m.arg
     /\ c.then = "refresh" => prompt = m.arg
  \/ /\ chose => prompt = db
     /\ \/ m.op = "DEL" /\ c.then \in {"refresh", "deleted"}
        \/ m.op = "SET" /\ m.arg \in ConsoleKey /\ c.then \in {"created", "expires"}
        \/ m.op = "SET" /\ m.arg \in keys /\ c.then = "edited" /\ shows = Ascending(keys)
        \/ m.op = "EXPIRE" /\ m.arg \in ConsoleKey /\ c.then = "expired"
        \/ /\ m.op = "SCAN" /\ m.arg \in Nat /\ c.then = "scanned"
           /\ c.info = Smaller(keys, m.arg)
           /\ answered => m.result = PageOf(keys, m.arg)

\* What is under way, w with its first o messages answered, leads to the right list: it
\* fills it, or one message will have it read.
Stage(w, o, calls, db, chose, keys, shows, prompt) ==
  \/ (chose => prompt = db) /\ Filling(w, calls, shows, keys)
  \/ \E j \in 1..Len(w) :
       /\ \A n \in 1..Len(w) : n # j => Idle(w[n], calls)
       /\ Turn(w[j], calls[w[j].id], j <= o, db, chose, keys, shows, prompt)

\* What the bridge is asked is sound, and a write or a SELECT is the one message that
\* is not idle.
LEMMA StageAsks ==
  ASSUME NEW w, Len(w) \in Nat, NEW o, NEW calls, NEW db, NEW chose, NEW keys \in SUBSET ConsoleKey,
         NEW shows, NEW prompt, Stage(w, o, calls, db, chose, keys, shows, prompt),
         NEW n \in 1..Len(w), w[n].op \in {"SELECT", "SET", "DEL", "SCAN", "EXPIRE"}
  PROVE  /\ w[n].op = "SELECT" => w[n].arg \in ConsoleDb
         /\ w[n].op = "SET" => w[n].arg \in ConsoleKey
         /\ \A m \in 1..Len(w) : m # n => Idle(w[m], calls)
         /\ Turn(w[n], calls[w[n].id], n <= o, db, chose, keys, shows, prompt)
<1>1. ~Filling(w, calls, shows, keys)
  <2>1. SUFFICES ASSUME NEW p \in 0..Cardinality(keys), Cardinality(keys) \in Nat,
                        Len(w) - (Cardinality(keys) - p) >= 0,
                        \A m \in 1..(Len(w) - (Cardinality(keys) - p)) : Idle(w[m], calls),
                        \A m \in 1..(Cardinality(keys) - p) :
                          Typing(w[(Len(w) - (Cardinality(keys) - p)) + m], calls, Ascending(keys)[p + m])
                 PROVE  FALSE
    BY KeysFinite DEF Filling
  <2> DEFINE left == Cardinality(keys) - p
             idle == Len(w) - left
  <2>2. left \in Nat /\ idle \in Nat /\ idle + left = Len(w)
    BY <2>1
  <2>3. \A m \in 1..idle : Idle(w[m], calls)
    BY <2>1
  <2>4. \A m \in 1..left : w[idle + m].op = "TYPE"
    BY <2>1 DEF Typing
  <2> HIDE DEF left, idle
  <2>5. n \in 1..idle \/ (n - idle \in 1..left /\ idle + (n - idle) = n)
    BY <2>2
  <2>6. w[n].op \in {"FLUSHDB", "TTL", "GET", "TYPE"}
    <3>1. CASE n \in 1..idle
      BY <2>3, <3>1 DEF Idle
    <3>2. CASE n - idle \in 1..left /\ idle + (n - idle) = n
      <4>1. w[idle + (n - idle)].op = "TYPE"
        BY <2>4, <3>2
      <4> QED BY <3>2, <4>1
    <3> QED BY <2>5, <3>1, <3>2
  <2> QED BY <2>6
<1>2. PICK j \in 1..Len(w) :
        /\ \A m \in 1..Len(w) : m # j => Idle(w[m], calls)
        /\ Turn(w[j], calls[w[j].id], j <= o, db, chose, keys, shows, prompt)
  BY <1>1 DEF Stage
<1>3. j = n
  BY <1>2 DEF Idle
<1>4. \A k \in keys : k \in ConsoleKey
  OBVIOUS
<1> QED BY <1>2, <1>3, <1>4 DEF Turn

\* The bridge answers the next message.
Answering(v, w, o) ==
  /\ Alike(v, w) /\ Len(w) \in Nat /\ o \in 0..(Len(w) - 1)
  /\ \A n \in 1..o : v[n] = w[n]

\* An answered read leaves the stage as it is,
LEMMA StageRead ==
  ASSUME NEW w, NEW v, NEW o, Answering(v, w, o),
         NEW calls, NEW db, NEW chose, NEW keys \in SUBSET ConsoleKey,
         NEW shows, NEW prompt, Stage(w, o, calls, db, chose, keys, shows, prompt),
         v[o + 1].op \notin {"SELECT", "SET", "DEL"},
         v[o + 1].op = "SCAN" => v[o + 1].result = PageOf(keys, v[o + 1].arg)
  PROVE  Stage(v, o + 1, calls, db, chose, keys, shows, prompt)
<1>1. /\ Len(v) = Len(w) /\ Len(w) \in Nat /\ o \in Nat
      /\ \A n \in 1..Len(w) : v[n].id = w[n].id /\ v[n].op = w[n].op /\ v[n].arg = w[n].arg
  BY DEF Answering, Alike
<1>2. \A n \in 1..Len(w) : Idle(w[n], calls) => Idle(v[n], calls)
  BY <1>1 DEF Idle
<1>3. CASE (chose => prompt = db) /\ Filling(w, calls, shows, keys)
  <2>1. PICK p \in 0..Cardinality(keys) :
          /\ Len(w) - (Cardinality(keys) - p) >= 0 /\ shows = Prefix(keys, p)
          /\ \A n \in 1..(Len(w) - (Cardinality(keys) - p)) : Idle(w[n], calls)
          /\ \A n \in 1..(Cardinality(keys) - p) :
               Typing(w[(Len(w) - (Cardinality(keys) - p)) + n], calls, Ascending(keys)[p + n])
    BY <1>3 DEF Filling
  <2> DEFINE left == Cardinality(keys) - p
             idle == Len(w) - left
  <2>2. Cardinality(keys) \in Nat
    BY KeysFinite
  <2>3. left \in Nat /\ idle \in Nat /\ idle + left = Len(w)
    <3> DEFINE K == Cardinality(keys)
               W == Len(w)
    <3>1. K \in Nat /\ W \in Nat /\ p \in 0..K /\ W - (K - p) >= 0
      BY <1>1, <2>1, <2>2
    <3> HIDE DEF K, W
    <3>2. K - p \in Nat /\ W - (K - p) \in Nat /\ (W - (K - p)) + (K - p) = W
      BY <3>1
    <3> QED BY <3>2 DEF K, W
  <2>4. /\ \A n \in 1..idle : Idle(w[n], calls)
        /\ \A n \in 1..left : Typing(w[idle + n], calls, Ascending(keys)[p + n])
    BY <2>1
  <2>5. idle = Len(v) - left /\ idle >= 0
    BY <1>1, <2>3
  <2> HIDE DEF idle
  <2>6. \A n \in 1..idle : n \in 1..Len(w)
    BY <2>3
  <2>7. \A n \in 1..left : idle + n \in 1..Len(w)
    BY <2>3
  <2>8. \A n \in 1..idle : Idle(v[n], calls)
    BY <1>2, <2>4, <2>6
  <2>9. \A n \in 1..left : Typing(v[idle + n], calls, Ascending(keys)[p + n])
    BY <1>1, <2>4, <2>7 DEF Typing
  <2>10. Filling(v, calls, shows, keys)
    BY <2>1, <2>5, <2>8, <2>9 DEF Filling
  <2> QED BY <1>3, <2>10 DEF Stage
<1>4. CASE \E j \in 1..Len(w) :
             /\ \A n \in 1..Len(w) : n # j => Idle(w[n], calls)
             /\ Turn(w[j], calls[w[j].id], j <= o, db, chose, keys, shows, prompt)
  <2>1. PICK j \in 1..Len(w) :
             /\ \A n \in 1..Len(w) : n # j => Idle(w[n], calls)
             /\ Turn(w[j], calls[w[j].id], j <= o, db, chose, keys, shows, prompt)
    BY <1>4
  <2>2. \A n \in 1..Len(v) : n # j => Idle(v[n], calls)
    BY <1>1, <1>2, <2>1
  <2>3. Turn(v[j], calls[v[j].id], j <= o + 1, db, chose, keys, shows, prompt)
    <3>1. CASE j <= o
      <4>1. v[j] = w[j] /\ (j <= o + 1 <=> j <= o)
        BY <1>1, <3>1 DEF Answering
      <4> QED BY <2>1, <4>1
    <3>2. CASE j = o + 1
      BY <1>1, <2>1, <3>2 DEF Turn
    <3>3. CASE j > o + 1
      <4>1. (j <= o + 1 <=> j <= o) /\ ~(j <= o)
        BY <1>1, <3>3
      <4>2. v[j].op = w[j].op /\ v[j].arg = w[j].arg /\ v[j].id = w[j].id
        BY <1>1
      <4> QED BY <2>1, <4>1, <4>2 DEF Turn
    <3> QED BY <1>1, <3>1, <3>2, <3>3
  <2> QED BY <1>1, <2>2, <2>3 DEF Stage
<1> QED BY <1>3, <1>4 DEF Stage

\* an answered SELECT leaves it that of the selected database, whatever that holds,
LEMMA StageSelected ==
  ASSUME NEW w, NEW v, NEW o, Answering(v, w, o),
         NEW calls, NEW db, NEW chose, NEW keys \in SUBSET ConsoleKey,
         NEW shows, NEW prompt, Stage(w, o, calls, db, chose, keys, shows, prompt),
         v[o + 1].op = "SELECT"
  PROVE  \A more : Stage(v, o + 1, calls, v[o + 1].arg, TRUE, more, shows, prompt)
<1>1. /\ Len(v) = Len(w) /\ Len(w) \in Nat /\ o \in Nat /\ o + 1 \in 1..Len(w)
      /\ \A n \in 1..Len(w) : v[n].id = w[n].id /\ v[n].op = w[n].op /\ v[n].arg = w[n].arg
  BY DEF Answering, Alike
<1>2. /\ \A n \in 1..Len(w) : n # o + 1 => Idle(w[n], calls)
      /\ Turn(w[o + 1], calls[w[o + 1].id], o + 1 <= o, db, chose, keys, shows, prompt)
  <2> DEFINE j == o + 1
  <2>1. j \in 1..Len(w) /\ w[j].op \in {"SELECT", "SET", "DEL", "SCAN", "EXPIRE"}
    BY <1>1
  <2> HIDE DEF j
  <2>2. /\ \A n \in 1..Len(w) : n # j => Idle(w[n], calls)
        /\ Turn(w[j], calls[w[j].id], j <= o, db, chose, keys, shows, prompt)
    BY ONLY <1>1, <2>1, StageAsks, keys \in SUBSET ConsoleKey,
            Stage(w, o, calls, db, chose, keys, shows, prompt), Zenon
  <2> QED BY <2>2 DEF j
<1>3. \A n \in 1..Len(v) : n # o + 1 => Idle(v[n], calls)
  BY <1>1, <1>2 DEF Idle
<1>4. \A more : Turn(v[o + 1], calls[v[o + 1].id], o + 1 <= o + 1, v[o + 1].arg, TRUE, more, shows, prompt)
  BY <1>1, <1>2 DEF Turn
<1> QED BY <1>1, <1>3, <1>4 DEF Stage

\* and an answered write leaves it that of the keys written.
LEMMA StageWritten ==
  ASSUME NEW w, NEW v, NEW o, Answering(v, w, o),
         NEW calls, NEW db, NEW chose, NEW keys \in SUBSET ConsoleKey,
         NEW shows, NEW prompt, Stage(w, o, calls, db, chose, keys, shows, prompt),
         NEW more, \/ v[o + 1].op = "SET" /\ more = keys \cup {v[o + 1].arg}
                   \/ v[o + 1].op = "DEL" /\ more = keys \ {v[o + 1].arg}
  PROVE  Stage(v, o + 1, calls, db, chose, more, shows, prompt)
<1>1. /\ Len(v) = Len(w) /\ Len(w) \in Nat /\ o \in Nat /\ o + 1 \in 1..Len(w)
      /\ \A n \in 1..Len(w) : v[n].id = w[n].id /\ v[n].op = w[n].op /\ v[n].arg = w[n].arg
  BY DEF Answering, Alike
<1>2. /\ \A n \in 1..Len(w) : n # o + 1 => Idle(w[n], calls)
      /\ Turn(w[o + 1], calls[w[o + 1].id], o + 1 <= o, db, chose, keys, shows, prompt)
  <2> DEFINE j == o + 1
  <2>1. j \in 1..Len(w) /\ w[j].op \in {"SELECT", "SET", "DEL", "SCAN", "EXPIRE"}
    BY <1>1
  <2> HIDE DEF j
  <2>2. /\ \A n \in 1..Len(w) : n # j => Idle(w[n], calls)
        /\ Turn(w[j], calls[w[j].id], j <= o, db, chose, keys, shows, prompt)
    BY ONLY <1>1, <2>1, StageAsks, keys \in SUBSET ConsoleKey,
            Stage(w, o, calls, db, chose, keys, shows, prompt), Zenon
  <2> QED BY <2>2 DEF j
<1>3. \A n \in 1..Len(v) : n # o + 1 => Idle(v[n], calls)
  BY <1>1, <1>2 DEF Idle
<1>4. v[o + 1].op = "SET" /\ v[o + 1].arg \in keys => more = keys
  OBVIOUS
<1>5. Turn(v[o + 1], calls[v[o + 1].id], o + 1 <= o + 1, db, chose, more, shows, prompt)
  <2>1. CASE v[o + 1].op = "SET" /\ v[o + 1].arg \in keys
    <3>1. more = keys
      BY <1>4, <2>1
    <3> QED BY <1>1, <1>2, <2>1, <3>1 DEF Turn
  <2>2. CASE ~(v[o + 1].op = "SET" /\ v[o + 1].arg \in keys)
    BY <1>1, <1>2, <2>2 DEF Turn
  <2> QED BY <2>1, <2>2
<1> QED BY <1>1, <1>3, <1>5 DEF Stage

\* The first keys and one more.
LEMMA PrefixGrows ==
  ASSUME NEW keys \in SUBSET ConsoleKey, NEW p \in 0..Cardinality(keys)
  PROVE  /\ p # Cardinality(keys) => Append(Prefix(keys, p), Ascending(keys)[p + 1]) = Prefix(keys, p + 1)
         /\ p = 0 => Prefix(keys, p) = <<>>
         /\ p = Cardinality(keys) => Prefix(keys, p) = Ascending(keys)
<1>0. Cardinality(keys) \in Nat
  BY KeysFinite
<1>1. ASSUME p # Cardinality(keys)
      PROVE  Append(Prefix(keys, p), Ascending(keys)[p + 1]) = Prefix(keys, p + 1)
  <2> DEFINE a == Prefix(keys, p)
             b == Prefix(keys, p + 1)
             k == Ascending(keys)[p + 1]
  <2>1. p \in Nat /\ p + 1 \in Nat /\ p + 1 \in 1..Cardinality(keys)
    BY <1>0, <1>1
  <2>2. \A n \in 1..(p + 1) : Ascending(keys)[n] \in keys
    BY <1>0, <2>1, AscendingIs
  <2>3. a \in [1..p -> keys] /\ b \in [1..(p + 1) -> keys] /\ k \in keys
    <3>1. \A n \in 1..p : n \in 1..(p + 1)
      BY <2>1
    <3> QED BY <2>1, <2>2, <3>1 DEF Prefix
  <2>4. \A n \in 1..p : a[n] = Ascending(keys)[n]
    BY DEF Prefix
  <2>5. \A n \in 1..(p + 1) : b[n] = Ascending(keys)[n]
    BY DEF Prefix
  <2>6. \A n \in 1..(p + 1) : n \in 1..p \/ n = p + 1
    BY <2>1
  <2> DEFINE c == Append(a, k)
  <2>7. a \in Seq(keys) /\ b \in Seq(keys) /\ Len(a) = p /\ Len(b) = p + 1
    BY <2>1, <2>3
  <2> HIDE DEF a, b
  <2>8. c \in Seq(keys) /\ Len(c) = p + 1 /\ (\A n \in 1..p : c[n] = a[n]) /\ c[p + 1] = k
    BY <2>1, <2>3, <2>7, AppendProperties
  <2> HIDE DEF c
  <2>9. \A n \in 1..(p + 1) : c[n] = b[n]
    BY <2>1, <2>4, <2>5, <2>6, <2>8
  <2>10. c = b
    BY <2>7, <2>8, <2>9, SeqEqual
  <2> QED BY <2>10 DEF c, a, b
<1>2. p = 0 => Prefix(keys, p) = <<>>
  <2> SUFFICES ASSUME p = 0 PROVE Prefix(keys, p) = <<>>
    OBVIOUS
  <2>1. Prefix(keys, p) \in [1..0 -> {}]
    BY DEF Prefix
  <2>2. Prefix(keys, p) \in Seq({}) /\ Len(Prefix(keys, p)) = 0
    BY <2>1
  <2> QED BY <2>2, EmptySeq
<1>3. p = Cardinality(keys) => Prefix(keys, p) = Ascending(keys)
  BY DEF Prefix, Ascending
<1> QED BY <1>1, <1>2, <1>3

\* A list that is complete, with nothing but idle messages under way,
LEMMA FilledIs ==
  ASSUME NEW w, Len(w) \in Nat, NEW calls, NEW keys \in SUBSET ConsoleKey,
         \A n \in 1..Len(w) : Idle(w[n], calls), NEW shows, shows = Ascending(keys)
  PROVE  Filling(w, calls, shows, keys)
<1> DEFINE p == Cardinality(keys)
<1>1. p \in 0..Cardinality(keys) /\ p \in Nat
  BY KeysFinite
<1>2. shows = Prefix(keys, p)
  BY <1>1, PrefixGrows
<1> HIDE DEF p
<1>3. Cardinality(keys) = p
  BY DEF p
<1>4. p - p = 0 /\ Len(w) - (p - p) = Len(w) /\ Len(w) >= 0
  BY <1>1
<1>5. \A n \in 1..0 : FALSE
  OBVIOUS
<1> QED BY <1>1, <1>2, <1>3, <1>4, <1>5 DEF Filling

\* and a complete list it is when nothing is under way.
LEMMA FilledMeans ==
  ASSUME NEW w, Len(w) = 0, NEW o, NEW calls, NEW db, NEW chose, NEW keys \in SUBSET ConsoleKey,
         NEW shows, NEW prompt, Stage(w, o, calls, db, chose, keys, shows, prompt)
  PROVE  shows = Ascending(keys) /\ (chose => prompt = db)
<1>1. (chose => prompt = db) /\ Filling(w, calls, shows, keys)
  BY DEF Stage
<1>2. PICK p \in 0..Cardinality(keys) : 0 - (Cardinality(keys) - p) >= 0 /\ shows = Prefix(keys, p)
  BY <1>1 DEF Filling
<1>3. p = Cardinality(keys)
  <2> DEFINE K == Cardinality(keys)
  <2>1. K \in Nat /\ p \in 0..K /\ 0 - (K - p) >= 0
    BY <1>2, KeysFinite
  <2> HIDE DEF K
  <2>2. p = K
    BY <2>1
  <2> QED BY <2>2 DEF K
<1> QED BY <1>1, <1>2, <1>3, PrefixGrows

\* Callbacks that stay.
Kept(v, more, calls) == \A n \in 1..Len(v) : v[n].op # "FLUSHDB" => more[v[n].id] = calls[v[n].id]

LEMMA KeptIdle ==
  ASSUME NEW v, NEW more, NEW calls, Kept(v, more, calls), NEW n \in 1..Len(v), Idle(v[n], calls)
  PROVE  Idle(v[n], more)
BY DEF Kept, Idle

\* The stage depends on the callbacks under way alone.
LEMMA KeptStage ==
  ASSUME NEW v, Len(v) \in Nat, NEW o, NEW more, NEW calls, Kept(v, more, calls),
         NEW db, NEW chose, NEW keys \in SUBSET ConsoleKey, NEW shows, NEW prompt,
         Stage(v, o, calls, db, chose, keys, shows, prompt)
  PROVE  Stage(v, o, more, db, chose, keys, shows, prompt)
<1>1. CASE (chose => prompt = db) /\ Filling(v, calls, shows, keys)
  <2>1. PICK p \in 0..Cardinality(keys) :
          /\ Len(v) - (Cardinality(keys) - p) >= 0 /\ shows = Prefix(keys, p)
          /\ \A n \in 1..(Len(v) - (Cardinality(keys) - p)) : Idle(v[n], calls)
          /\ \A n \in 1..(Cardinality(keys) - p) :
               Typing(v[(Len(v) - (Cardinality(keys) - p)) + n], calls, Ascending(keys)[p + n])
    BY <1>1 DEF Filling
  <2> DEFINE left == Cardinality(keys) - p
             idle == Len(v) - left
  <2>3. left \in Nat /\ idle \in Nat /\ idle + left = Len(v)
    <3> DEFINE K == Cardinality(keys)
               W == Len(v)
    <3>1. K \in Nat /\ W \in Nat /\ p \in 0..K /\ W - (K - p) >= 0
      BY <2>1, KeysFinite
    <3> HIDE DEF K, W
    <3>2. K - p \in Nat /\ W - (K - p) \in Nat /\ (W - (K - p)) + (K - p) = W
      BY <3>1
    <3> QED BY <3>2 DEF K, W
  <2>4. /\ \A n \in 1..idle : Idle(v[n], calls)
        /\ \A n \in 1..left : Typing(v[idle + n], calls, Ascending(keys)[p + n])
    BY <2>1
  <2>5. idle = Len(v) - left /\ idle >= 0
    BY <2>3
  <2> HIDE DEF idle
  <2>6. \A n \in 1..idle : n \in 1..Len(v)
    BY <2>3
  <2>7. \A n \in 1..left : idle + n \in 1..Len(v)
    BY <2>3
  <2>8. \A n \in 1..idle : Idle(v[n], more)
    BY <2>4, <2>6, KeptIdle
  <2>9. \A n \in 1..left : Typing(v[idle + n], more, Ascending(keys)[p + n])
    BY <2>4, <2>7 DEF Typing, Kept
  <2>10. Filling(v, more, shows, keys)
    BY <2>1, <2>5, <2>8, <2>9 DEF Filling
  <2> QED BY <1>1, <2>10 DEF Stage
<1>2. CASE \E j \in 1..Len(v) :
             /\ \A n \in 1..Len(v) : n # j => Idle(v[n], calls)
             /\ Turn(v[j], calls[v[j].id], j <= o, db, chose, keys, shows, prompt)
  <2>1. PICK j \in 1..Len(v) :
             /\ \A n \in 1..Len(v) : n # j => Idle(v[n], calls)
             /\ Turn(v[j], calls[v[j].id], j <= o, db, chose, keys, shows, prompt)
    BY <1>2
  <2>2. v[j].op # "FLUSHDB"
    BY <2>1 DEF Turn
  <2>3. calls[v[j].id] = more[v[j].id]
    BY <2>2 DEF Kept
  <2>4. \A n \in 1..Len(v) : n # j => Idle(v[n], more)
    BY <2>1, KeptIdle
  <2> QED BY <2>1, <2>3, <2>4 DEF Stage
<1> QED BY <1>1, <1>2 DEF Stage

\* The page takes the first message: an idle one, one that adds to the list, or the
\* message that will have it read.
LEMMA StageDelivered ==
  ASSUME NEW w, NEW v, Follows(v, w), NEW o \in 1..Len(w), NEW calls, NEW db, NEW chose,
         NEW keys \in SUBSET ConsoleKey, NEW shows, NEW prompt,
         Stage(w, o, calls, db, chose, keys, shows, prompt)
  PROVE  \/ Idle(w[1], calls) /\ Stage(v, o - 1, calls, db, chose, keys, shows, prompt)
         \/ /\ w[1].op = "TYPE" /\ calls[w[1].id].then = "typed"
            /\ Stage(v, o - 1, calls, db, chose, keys, Append(shows, w[1].arg), prompt)
         \/ /\ Turn(w[1], calls[w[1].id], TRUE, db, chose, keys, shows, prompt)
            /\ \A n \in 1..Len(v) : Idle(v[n], calls)
<1>0. /\ Len(w) \in Nat /\ Len(w) >= 1 /\ Len(v) = Len(w) - 1 /\ Len(v) \in Nat /\ 1 \in 1..Len(w)
      /\ o \in Nat /\ o >= 1
  BY DEF Follows
<1>1. \A n \in 1..Len(v) : v[n] = w[n + 1] /\ n + 1 \in 1..Len(w) /\ n + 1 # 1
  BY <1>0 DEF Follows
<1>2. CASE (chose => prompt = db) /\ Filling(w, calls, shows, keys)
  <2>1. PICK p \in 0..Cardinality(keys) :
          /\ Len(w) - (Cardinality(keys) - p) >= 0 /\ shows = Prefix(keys, p)
          /\ \A n \in 1..(Len(w) - (Cardinality(keys) - p)) : Idle(w[n], calls)
          /\ \A n \in 1..(Cardinality(keys) - p) :
               Typing(w[(Len(w) - (Cardinality(keys) - p)) + n], calls, Ascending(keys)[p + n])
    BY <1>2 DEF Filling
  <2> DEFINE K == Cardinality(keys)
             left == K - p
             idle == Len(w) - left
             W == Len(w)
  <2>2. K \in Nat /\ p \in 0..K
    BY <2>1, KeysFinite
  <2>3. W - (K - p) >= 0 /\ W \in Nat /\ W >= 1 /\ Len(v) = W - 1
    BY <1>0, <2>1
  <2>4. /\ \A n \in 1..idle : Idle(w[n], calls)
        /\ \A n \in 1..left : Typing(w[idle + n], calls, Ascending(keys)[p + n])
    BY <2>1
  <2>5. idle = W - left
    OBVIOUS
  <2> HIDE DEF W, idle
  <2>6. CASE idle >= 1
    <3>1. /\ Len(v) - left = idle - 1 /\ idle - 1 >= 0 /\ 1 \in 1..idle
          /\ \A n \in 1..(idle - 1) : n + 1 \in 1..idle /\ n \in 1..Len(v)
          /\ \A n \in 1..left : (idle - 1) + n \in 1..Len(v) /\ ((idle - 1) + n) + 1 = idle + n
      <4> HIDE DEF K
      <4> QED BY <2>2, <2>3, <2>5, <2>6
    <3>2. \A n \in 1..(idle - 1) : Idle(v[n], calls)
      BY <1>1, <2>4, <3>1
    <3>3. \A n \in 1..left : Typing(v[(idle - 1) + n], calls, Ascending(keys)[p + n])
      BY <1>1, <2>4, <3>1
    <3>4. Filling(v, calls, shows, keys)
      BY <2>1, <3>1, <3>2, <3>3 DEF Filling
    <3> QED BY <1>2, <2>4, <3>1, <3>4 DEF Stage
  <2>7. CASE ~(idle >= 1)
    <3> DEFINE q == p + 1
    <3>1. /\ idle = 0 /\ left >= 1 /\ 1 \in 1..left /\ p # K /\ idle + 1 = 1
          /\ q \in 0..K /\ Len(v) - (K - q) = 0 /\ Len(v) = K - q
          /\ \A n \in 1..(K - q) : /\ n + 1 \in 1..left /\ n \in 1..Len(v) /\ idle + (n + 1) = n + 1
                                   /\ p + (n + 1) = q + n /\ 0 + n = n
      <4> HIDE DEF K
      <4> QED BY <2>2, <2>3, <2>5, <2>7
    <3>2. Typing(w[1], calls, Ascending(keys)[p + 1])
      BY <2>4, <3>1
    <3>3. \A n \in 1..(K - q) : Typing(v[n], calls, Ascending(keys)[q + n])
      <4> TAKE n \in 1..(K - q)
      <4>1. Typing(w[n + 1], calls, Ascending(keys)[p + (n + 1)])
        BY <2>4, <3>1
      <4>2. v[n] = w[n + 1] /\ p + (n + 1) = q + n
        BY <1>1, <3>1
      <4> QED BY <4>1, <4>2
    <3>4. Append(shows, w[1].arg) = Prefix(keys, q)
      BY <2>1, <3>1, <3>2, PrefixGrows DEF Typing
    <3> HIDE DEF q
    <3>5. \A n \in 1..(K - q) : Typing(v[0 + n], calls, Ascending(keys)[q + n])
      BY <3>1, <3>3
    <3>6. \A n \in 1..0 : FALSE
      OBVIOUS
    <3>7. Filling(v, calls, Append(shows, w[1].arg), keys)
      BY <3>1, <3>4, <3>5, <3>6 DEF Filling
    <3> QED BY <1>2, <3>2, <3>7 DEF Stage, Typing
  <2> QED BY <2>6, <2>7
<1>3. CASE \E j \in 1..Len(w) :
             /\ \A n \in 1..Len(w) : n # j => Idle(w[n], calls)
             /\ Turn(w[j], calls[w[j].id], j <= o, db, chose, keys, shows, prompt)
  <2>1. PICK j \in 1..Len(w) :
             /\ \A n \in 1..Len(w) : n # j => Idle(w[n], calls)
             /\ Turn(w[j], calls[w[j].id], j <= o, db, chose, keys, shows, prompt)
    BY <1>3
  <2>2. CASE j = 1
    <3>1. \A n \in 1..Len(v) : Idle(v[n], calls)
      BY <1>1, <2>1, <2>2
    <3>2. (j <= o) = TRUE
      BY <1>0, <2>2
    <3>3. Turn(w[1], calls[w[1].id], TRUE, db, chose, keys, shows, prompt)
      BY <2>1, <2>2, <3>2
    <3> QED BY <3>1, <3>3
  <2>3. CASE j # 1
    <3> DEFINE i == j - 1
    <3>1. i \in 1..Len(v) /\ i + 1 = j /\ (i <= o - 1) = (j <= o)
      BY <1>0, <2>3
    <3>2. \A n \in 1..Len(v) : n # i => n + 1 # j
      BY <1>0, <3>1
    <3> HIDE DEF i
    <3>3. \A n \in 1..Len(v) : n # i => Idle(v[n], calls)
      BY <1>1, <2>1, <3>2
    <3>4. Turn(v[i], calls[v[i].id], i <= o - 1, db, chose, keys, shows, prompt)
      <4>1. v[i] = w[j]
        BY <1>1, <3>1
      <4> QED BY <2>1, <3>1, <4>1
    <3>5. Idle(w[1], calls)
      BY <1>0, <2>1, <2>3
    <3> QED BY <3>1, <3>3, <3>4, <3>5 DEF Stage
  <2> QED BY <2>2, <2>3
<1> QED BY <1>2, <1>3 DEF Stage

\* u is v with the messages of asks after it; their callbacks are registered and those of v stay.
Sent(u, v, asks, more, calls) ==
  /\ Len(v) \in Nat /\ Len(asks) \in Nat /\ Len(u) = Len(v) + Len(asks)
  /\ \A n \in 1..Len(v) : u[n] = v[n]
  /\ Kept(v, more, calls)
  /\ \A n \in 1..Len(asks) :
       /\ u[Len(v) + n].op = asks[n].op /\ u[Len(v) + n].arg = asks[n].arg
       /\ more[u[Len(v) + n].id].then = asks[n].then /\ more[u[Len(v) + n].id].info = asks[n].info

LEMMA SentIs ==
  ASSUME NEW u, NEW v, NEW asks, IsSequence(asks), NEW top, Continues(u, v, Messages(top, asks)),
         NEW calls, NEW more, NEW s, Registered(calls, more, top, asks, s),
         \A n \in 1..Len(v) : v[n].op # "FLUSHDB" => v[n].id \in DOMAIN calls
  PROVE  Sent(u, v, asks, more, calls)
<1> DEFINE q == Messages(top, asks)
           V == Len(v)
           A == Len(asks)
<1>1. Len(q) = A /\ A \in Nat /\ V \in Nat
      /\ \A n \in 1..A : q[n].id = top + n /\ q[n].op = asks[n].op /\ q[n].arg = asks[n].arg
  BY MessagesAre, SequenceIs DEF Continues
<1>2. Len(u) = V + A /\ \A n \in 1..(V + A) : u[n] = IF n <= V THEN v[n] ELSE q[n - V]
  BY <1>1 DEF Continues
<1> HIDE DEF q
<1>3. /\ \A n \in 1..V : n \in 1..(V + A) /\ n <= V
      /\ \A n \in 1..A : V + n \in 1..(V + A) /\ ~(V + n <= V) /\ (V + n) - V = n
  <2> HIDE DEF V, A
  <2> QED BY <1>1
<1>4. (\A n \in 1..V : u[n] = v[n]) /\ (\A n \in 1..A : u[V + n] = q[n])
  BY <1>2, <1>3
<1>5. Kept(v, more, calls)
  BY DEF Kept, Registered
<1>6. \A n \in 1..A : /\ u[V + n].op = asks[n].op /\ u[V + n].arg = asks[n].arg
                      /\ more[u[V + n].id].then = asks[n].then /\ more[u[V + n].id].info = asks[n].info
  <2> TAKE n \in 1..A
  <2>1. u[V + n] = q[n] /\ q[n].id = top + n /\ q[n].op = asks[n].op /\ q[n].arg = asks[n].arg
    BY <1>1, <1>4
  <2>2. more[top + n].then = asks[n].then /\ more[top + n].info = asks[n].info
    BY DEF Registered
  <2> QED BY <2>1, <2>2
<1> QED BY <1>1, <1>2, <1>4, <1>5, <1>6 DEF Sent

\* Nothing is sent: the stage stays.
LEMMA SentNothing ==
  ASSUME NEW u, NEW v, NEW asks, NEW more, NEW calls, Sent(u, v, asks, more, calls), Len(asks) = 0,
         NEW o, NEW db, NEW chose, NEW keys \in SUBSET ConsoleKey, NEW shows, NEW prompt,
         Stage(v, o, calls, db, chose, keys, shows, prompt)
  PROVE  Stage(u, o, more, db, chose, keys, shows, prompt)
<1>1. Len(u) = Len(v) /\ Len(v) \in Nat /\ (\A n \in 1..Len(v) : u[n] = v[n]) /\ Kept(v, more, calls)
  BY DEF Sent
<1>2. Stage(v, o, more, db, chose, keys, shows, prompt)
  BY <1>1, KeptStage
<1>3. CASE (chose => prompt = db) /\ Filling(v, more, shows, keys)
  <2>1. PICK p \in 0..Cardinality(keys) :
          /\ Len(v) - (Cardinality(keys) - p) >= 0 /\ shows = Prefix(keys, p)
          /\ \A n \in 1..(Len(v) - (Cardinality(keys) - p)) : Idle(v[n], more)
          /\ \A n \in 1..(Cardinality(keys) - p) :
               Typing(v[(Len(v) - (Cardinality(keys) - p)) + n], more, Ascending(keys)[p + n])
    BY <1>3 DEF Filling
  <2> DEFINE left == Cardinality(keys) - p
             idle == Len(v) - left
  <2>3. left \in Nat /\ idle \in Nat /\ idle + left = Len(v)
    <3> DEFINE K == Cardinality(keys)
               W == Len(v)
    <3>1. K \in Nat /\ W \in Nat /\ p \in 0..K /\ W - (K - p) >= 0
      BY <1>1, <2>1, KeysFinite
    <3> HIDE DEF K, W
    <3>2. K - p \in Nat /\ W - (K - p) \in Nat /\ (W - (K - p)) + (K - p) = W
      BY <3>1
    <3> QED BY <3>2 DEF K, W
  <2>4. /\ \A n \in 1..idle : Idle(v[n], more)
        /\ \A n \in 1..left : Typing(v[idle + n], more, Ascending(keys)[p + n])
    BY <2>1
  <2>5. idle = Len(u) - left /\ idle >= 0
    BY <1>1, <2>3
  <2> HIDE DEF idle
  <2>6. /\ \A n \in 1..idle : n \in 1..Len(v)
        /\ \A n \in 1..left : idle + n \in 1..Len(v)
    BY <2>3
  <2>8. \A n \in 1..idle : Idle(u[n], more)
    BY <1>1, <2>4, <2>6
  <2>9. \A n \in 1..left : Typing(u[idle + n], more, Ascending(keys)[p + n])
    BY <1>1, <2>4, <2>6
  <2>10. Filling(u, more, shows, keys)
    BY <2>1, <2>5, <2>8, <2>9 DEF Filling
  <2> QED BY <1>3, <2>10 DEF Stage
<1>4. CASE \E j \in 1..Len(v) :
             /\ \A n \in 1..Len(v) : n # j => Idle(v[n], more)
             /\ Turn(v[j], more[v[j].id], j <= o, db, chose, keys, shows, prompt)
  <2>1. PICK j \in 1..Len(v) :
             /\ \A n \in 1..Len(v) : n # j => Idle(v[n], more)
             /\ Turn(v[j], more[v[j].id], j <= o, db, chose, keys, shows, prompt)
    BY <1>4
  <2>2. j \in 1..Len(u) /\ u[j] = v[j] /\ \A n \in 1..Len(u) : n # j => Idle(u[n], more)
    BY <1>1, <2>1
  <2>3. Turn(u[j], more[u[j].id], j <= o, db, chose, keys, shows, prompt)
    BY <2>1, <2>2
  <2> QED BY <2>2, <2>3 DEF Stage
<1> QED BY <1>2, <1>3, <1>4 DEF Stage

\* Commands that are idle, and commands that will have the list read.
IdleAsk(c) == c.op = "FLUSHDB" \/ (c.op \in {"TTL", "GET"} /\ c.then = "shown")
Opens(c, db, chose, keys, shows, prompt) == Turn(c, c, FALSE, db, chose, keys, shows, prompt)
Turns(asks, db, chose, keys, shows, prompt) ==
  /\ Len(asks) \in Nat /\ Len(asks) >= 1
  /\ Opens(asks[1], db, chose, keys, shows, prompt)
  /\ \A n \in 2..Len(asks) : IdleAsk(asks[n])

\* Idle messages are followed by commands that have the list read,
LEMMA SentTurn ==
  ASSUME NEW u, NEW v, NEW asks, NEW more, NEW calls, Sent(u, v, asks, more, calls),
         \A n \in 1..Len(v) : Idle(v[n], calls), NEW o \in 0..Len(v),
         NEW db, NEW chose, NEW keys, NEW shows, NEW prompt, Turns(asks, db, chose, keys, shows, prompt)
  PROVE  Stage(u, o, more, db, chose, keys, shows, prompt)
<1> DEFINE j == Len(v) + 1
<1>1. /\ Len(v) \in Nat /\ Len(asks) \in Nat /\ Len(asks) >= 1 /\ 1 \in 1..Len(asks)
      /\ Len(u) = Len(v) + Len(asks)
  BY DEF Sent, Turns
<1>2. j \in 1..Len(u) /\ ~(j <= o)
  BY <1>1
<1>3. \A n \in 1..Len(u) : n # j =>
        \/ n \in 1..Len(v)
        \/ /\ n - Len(v) \in 2..Len(asks) /\ n - Len(v) \in 1..Len(asks)
           /\ Len(v) + (n - Len(v)) = n
  BY <1>1
<1>4. ASSUME NEW n \in 1..Len(u), n # j PROVE Idle(u[n], more)
  <2>1. CASE n \in 1..Len(v)
    <3>1. u[n] = v[n] /\ Idle(v[n], more)
      BY <2>1, KeptIdle DEF Sent
    <3> QED BY <3>1
  <2>2. CASE n \notin 1..Len(v)
    <3> DEFINE i == n - Len(v)
    <3>1. i \in 2..Len(asks) /\ i \in 1..Len(asks) /\ Len(v) + i = n
      BY <1>3, <1>4, <2>2
    <3> HIDE DEF i, j
    <3>2. IdleAsk(asks[i])
      BY <3>1 DEF Turns
    <3>3. u[n].op = asks[i].op /\ more[u[n].id].then = asks[i].then
      BY <3>1 DEF Sent
    <3> QED BY <3>2, <3>3 DEF IdleAsk, Idle
  <2> QED BY <2>1, <2>2
<1>5. u[j].op = asks[1].op /\ u[j].arg = asks[1].arg /\ more[u[j].id].then = asks[1].then
      /\ more[u[j].id].info = asks[1].info
  BY <1>1 DEF Sent
<1>6. Opens(asks[1], db, chose, keys, shows, prompt)
  BY DEF Turns
<1> HIDE DEF j
<1>7. Turn(u[j], more[u[j].id], j <= o, db, chose, keys, shows, prompt)
  BY <1>2, <1>5, <1>6 DEF Turn, Opens
<1> QED BY <1>2, <1>4, <1>7 DEF Stage

\* by commands that are idle themselves, when the list is right,
LEMMA SentIdle ==
  ASSUME NEW u, NEW v, NEW asks, NEW more, NEW calls, Sent(u, v, asks, more, calls),
         \A n \in 1..Len(v) : Idle(v[n], calls), NEW o,
         \A n \in 1..Len(asks) : IdleAsk(asks[n]),
         NEW db, NEW chose, NEW keys \in SUBSET ConsoleKey, NEW shows, NEW prompt,
         shows = Ascending(keys), chose => prompt = db
  PROVE  Stage(u, o, more, db, chose, keys, shows, prompt)
<1>1. /\ Len(v) \in Nat /\ Len(asks) \in Nat /\ Len(u) = Len(v) + Len(asks) /\ Len(u) \in Nat
  BY DEF Sent
<1>2. \A n \in 1..Len(u) : n \in 1..Len(v) \/ (n - Len(v) \in 1..Len(asks) /\ Len(v) + (n - Len(v)) = n)
  BY <1>1
<1>3. ASSUME NEW n \in 1..Len(u) PROVE Idle(u[n], more)
  <2>1. CASE n \in 1..Len(v)
    <3>1. u[n] = v[n] /\ Idle(v[n], more)
      BY <2>1, KeptIdle DEF Sent
    <3> QED BY <3>1
  <2>2. CASE n \notin 1..Len(v)
    <3> DEFINE i == n - Len(v)
    <3>1. i \in 1..Len(asks) /\ Len(v) + i = n
      BY <1>2, <2>2
    <3> HIDE DEF i
    <3>2. u[n].op = asks[i].op /\ more[u[n].id].then = asks[i].then
      BY <3>1 DEF Sent
    <3> QED BY <3>1, <3>2 DEF IdleAsk, Idle
  <2> QED BY <2>1, <2>2
<1>4. Filling(u, more, shows, keys)
  BY <1>1, <1>3, FilledIs
<1> QED BY <1>4 DEF Stage

\* or by the questions for the types, one for every key, of an empty list.
LEMMA SentTypes ==
  ASSUME NEW u, NEW v, NEW keys \in SUBSET ConsoleKey, NEW asks, asks = Types(keys),
         NEW more, NEW calls, Sent(u, v, asks, more, calls),
         \A n \in 1..Len(v) : Idle(v[n], calls), NEW o,
         NEW db, NEW chose, NEW prompt, chose => prompt = db
  PROVE  Stage(u, o, more, db, chose, keys, <<>>, prompt)
<1> DEFINE K == Cardinality(keys)
<1>1. K \in Nat /\ IsFiniteSet(keys)
  BY KeysFinite
<1>2. Len(asks) = K /\ \A n \in 1..K : asks[n] = Cmd("TYPE", Ascending(keys)[n], "typed", 0)
  <2>1. asks = [n \in 1..K |-> Cmd("TYPE", Ascending(keys)[n], "typed", 0)]
    BY DEF Types
  <2>2. DOMAIN asks = 1..K
    BY <2>1
  <2>3. IsSequence(asks)
    BY <1>1, AsksTypes DEF Asks
  <2>4. DOMAIN asks = 1..Len(asks) /\ Len(asks) \in Nat
    BY <2>3, SequenceIs
  <2>5. Len(asks) = K
    <3> DEFINE A == Len(asks)
    <3>1. 1..A = 1..K /\ A \in Nat /\ K \in Nat
      BY <1>1, <2>2, <2>4
    <3> HIDE DEF A, K
    <3>2. A = K
      BY <3>1
    <3> QED BY <3>2 DEF A
  <2> QED BY <2>1, <2>5
<1>3. \A n \in 1..K : asks[n].op = "TYPE" /\ asks[n].arg = Ascending(keys)[n] /\ asks[n].then = "typed"
  BY <1>2 DEF Cmd
<1> DEFINE left == K - 0
           idle == Len(u) - left
<1>4. Len(v) \in Nat /\ Len(u) = Len(v) + K /\ left = K /\ idle = Len(v) /\ idle >= 0
  <2>1. Len(v) \in Nat /\ Len(u) = Len(v) + K
    BY <1>2 DEF Sent
  <2> HIDE DEF K
  <2> QED BY <1>1, <2>1
<1>5. ASSUME NEW n \in 1..Len(v) PROVE Idle(u[n], more)
  <2>1. u[n] = v[n] /\ Idle(v[n], more)
    BY KeptIdle DEF Sent
  <2> QED BY <2>1
<1>6. ASSUME NEW n \in 1..K PROVE Typing(u[Len(v) + n], more, Ascending(keys)[0 + n])
  <2>1. n \in 1..Len(asks) /\ 0 + n = n
    BY <1>1, <1>2
  <2>2. u[Len(v) + n].op = asks[n].op /\ u[Len(v) + n].arg = asks[n].arg
        /\ more[u[Len(v) + n].id].then = asks[n].then
    BY <2>1 DEF Sent
  <2> QED BY <1>3, <2>1, <2>2 DEF Typing
<1>7. 0 \in 0..K /\ Prefix(keys, 0) = <<>>
  BY <1>1, PrefixGrows
<1>8. Filling(u, more, <<>>, keys)
  <2> DEFINE z == 0
  <2>1. /\ z \in 0..Cardinality(keys) /\ Cardinality(keys) - z = left /\ Len(u) - left = idle /\ idle >= 0
        /\ Prefix(keys, z) = <<>> /\ \A n \in 1..idle : Idle(u[n], more)
    BY <1>4, <1>5, <1>7
  <2>2. \A n \in 1..left : Typing(u[idle + n], more, Ascending(keys)[z + n])
    BY <1>4, <1>6
  <2> HIDE DEF idle, left, z, K
  <2> QED BY <2>1, <2>2 DEF Filling
<1> QED BY <1>8 DEF Stage

\* Reading the list, alone or with a key,
LEMMA ReadsTurn ==
  ASSUME NEW keys \in SUBSET ConsoleKey, NEW db, NEW chose, NEW shows, NEW prompt, chose => prompt = db
  PROVE  /\ Turns(refreshKeys, db, chose, keys, shows, prompt)
         /\ \A k : Turns(refreshKeys \o inspectKey(k), db, chose, keys, shows, prompt)
         /\ \A k : \A n \in 1..Len(inspectKey(k)) : IdleAsk(inspectKey(k)[n])
<1> DEFINE c == Cmd("SCAN", 0, "scanned", {})
<1>1. Opens(c, db, chose, keys, shows, prompt)
  <2>1. \A k \in keys : ~(k < 0)
    BY KeysFinite
  <2>2. Smaller(keys, 0) = {}
    BY <2>1 DEF Smaller
  <2>3. c.op = "SCAN" /\ c.arg = 0 /\ c.then = "scanned" /\ c.info = {} /\ 0 \in Nat
    BY DEF Cmd
  <2> QED BY <2>2, <2>3 DEF Turn, Opens
<1>2. refreshKeys = <<c>>
  BY DEF refreshKeys, Scan
<1> HIDE DEF c
<1>3. Turns(refreshKeys, db, chose, keys, shows, prompt)
  <2> DEFINE q == <<c>>
  <2>1. q[1] = c /\ Len(q) = 1 /\ \A n \in 2..Len(q) : FALSE
    OBVIOUS
  <2> HIDE DEF q
  <2>2. Turns(q, db, chose, keys, shows, prompt)
    BY <1>1, <2>1 DEF Turns
  <2> QED BY <1>2, <2>2 DEF q
<1>4. ASSUME NEW k
      PROVE  /\ Turns(refreshKeys \o inspectKey(k), db, chose, keys, shows, prompt)
             /\ \A n \in 1..Len(inspectKey(k)) : IdleAsk(inspectKey(k)[n])
  <2> DEFINE d == Cmd("TTL", k, "shown", k)
             e == Cmd("GET", k, "shown", k)
  <2>1. IdleAsk(d) /\ IdleAsk(e)
    BY DEF Cmd, IdleAsk
  <2>2. inspectKey(k) = <<d, e>>
    BY DEF inspectKey
  <2> HIDE DEF d, e
  <2> DEFINE q == <<c>> \o <<d, e>>
             r == <<d, e>>
  <2>3. <<c>> \in Seq({c, d, e}) /\ r \in Seq({c, d, e}) /\ Len(<<c>>) = 1 /\ Len(r) = 2
        /\ <<c>>[1] = c /\ \A n \in 1..2 : r[n] \in {d, e}
    OBVIOUS
  <2>4. q[1] = c /\ Len(q) = 3 /\ \A n \in 2..Len(q) : q[n] \in {d, e}
    <3> DEFINE a == <<c>>
               S == {c, d, e}
    <3>1. a \in Seq(S) /\ r \in Seq(S) /\ Len(a) = 1 /\ Len(r) = 2 /\ a[1] = c
          /\ \A n \in 1..2 : r[n] \in {d, e}
      BY <2>3
    <3> HIDE DEF a, r, S
    <3>2. IsSequence(a) /\ IsSequence(r)
      BY <3>1 DEF IsSequence
    <3>3. /\ Len(a \o r) = Len(a) + Len(r)
          /\ \A n \in 1..(Len(a) + Len(r)) : (a \o r)[n] = IF n <= Len(a) THEN a[n] ELSE r[n - Len(a)]
      BY <3>2, SequenceConcat
    <3>4. Len(a) + Len(r) = 3
      BY <3>1
    <3>5. Len(a \o r) = 3 /\ \A n \in 1..3 : (a \o r)[n] = IF n <= 1 THEN a[n] ELSE r[n - 1]
      BY <3>1, <3>3, <3>4
    <3>6. /\ 1 \in 1..3 /\ 1 <= 1
          /\ \A n \in 2..3 : n \in 1..3 /\ ~(n <= 1) /\ n - 1 \in 1..2
      OBVIOUS
    <3>7. (a \o r)[1] = c /\ \A n \in 2..3 : (a \o r)[n] \in {d, e}
      BY <3>1, <3>5, <3>6
    <3> QED BY <3>5, <3>7 DEF a, r
  <2>5. Len(r) = 2 /\ \A n \in 1..Len(r) : r[n] \in {d, e}
    OBVIOUS
  <2> HIDE DEF q, r
  <2>6. Turns(q, db, chose, keys, shows, prompt)
    BY <1>1, <2>1, <2>4 DEF Turns
  <2>7. \A n \in 1..Len(r) : IdleAsk(r[n])
    BY <2>1, <2>5
  <2> QED BY <1>2, <2>2, <2>6, <2>7 DEF q, r
<1> QED BY <1>3, <1>4

\* and a single command that will have it read.
LEMMA CommandTurns ==
  ASSUME NEW c, NEW db, NEW chose, NEW keys, NEW shows, NEW prompt,
         Opens(c, db, chose, keys, shows, prompt)
  PROVE  Turns(<<c>>, db, chose, keys, shows, prompt)
<1> DEFINE q == <<c>>
<1>1. q[1] = c /\ Len(q) = 1 /\ \A n \in 2..Len(q) : FALSE
  OBVIOUS
<1> HIDE DEF q
<1>2. Turns(q, db, chose, keys, shows, prompt)
  BY <1>1 DEF Turns
<1> QED BY <1>2 DEF q

-----------------------------------------------------------------------------
(* WebConsole: a user who waits sees what the server holds.                 *)

Way(b) == b.outbox \o b.inbox

\* The answers that came in: none was refused.
Fine(out) == \A n \in 1..Len(out) : out[n].op # "FLUSHDB" => out[n].answer = "ok"

\* What an open socket brings leads to the right list.
Led(b, calls, keys, shows, prompt) ==
  /\ Fine(b.outbox)
  /\ Stage(Way(b), Len(b.outbox), calls, b.db, b.chose, keys, shows, prompt)

\* Every socket but the last is closed, and nothing is under way on one that was given up.
Calm(socks) ==
  \A s \in 1..Len(socks) :
    /\ socks[s].db \in ConsoleDb
    /\ socks[s].state \in {"connecting", "open", "closing", "closed"}
    /\ s # Len(socks) => socks[s].state = "closed"
    /\ socks[s].state \in {"closing", "closed"} => socks[s].inbox = <<>> /\ socks[s].outbox = <<>>

\* The page's variables go with the last socket.
Off == ws = 0 /\ status = "Disconnected" /\ statsOn = FALSE /\ polls = 0
Opening(top) ==
  ws = top /\ status = "Disconnected" /\ statsOn = FALSE /\ polls = 0 /\ sockets[top].chose = FALSE
On(top) ==
  /\ ws = top /\ status = "Connected" /\ statsOn = TRUE /\ polls = 1
  /\ Led(sockets[top], pendingCallbacks, stored[sockets[top].db], list, shownDb)
Phase(top) ==
  \/ (top = 0 \/ sockets[top].state \in {"closing", "closed"}) /\ Off
  \/ top # 0 /\ sockets[top].state = "connecting" /\ Opening(top)
  \/ top # 0 /\ sockets[top].state = "open" /\ On(top)

\* The inductive invariant, for a user who was not disturbed.
PatientInv ==
  ~disturbed =>
    /\ stored \in [ConsoleDb -> SUBSET ConsoleKey] /\ inspected \in ConsoleKey \cup {NoKey}
    /\ Calm(sockets) /\ Phase(Len(sockets))

\* It says what PatientUserSeesServer says.
LEMMA PatientMeans == ConsoleInv /\ PatientInv => PatientUserSeesServer
<1> SUFFICES ASSUME ConsoleInv, PatientInv, ~disturbed, Quiet
             PROVE  /\ status = "Disconnected" => polls = 0
                    /\ status = "Connected" =>
                         /\ sockets[ws].state = "open" /\ polls = 1
                         /\ list = Ascending(stored[sockets[ws].db])
                         /\ sockets[ws].chose => shownDb = sockets[ws].db
  BY DEF PatientUserSeesServer
<1>1. /\ Phase(Len(sockets)) /\ Len(sockets) \in Nat /\ Calm(sockets)
      /\ stored \in [ConsoleDb -> SUBSET ConsoleKey]
  BY InvMeans DEF PatientInv
<1>2. CASE status # "Connected"
  BY <1>1, <1>2 DEF Phase, Off, Opening, On
<1>3. CASE status = "Connected"
  <2> DEFINE b == sockets[ws]
  <2>1. ws = Len(sockets) /\ ws # 0 /\ b.state = "open" /\ polls = 1
        /\ Led(b, pendingCallbacks, stored[b.db], list, shownDb)
    BY <1>1, <1>3 DEF Phase, Off, Opening, On
  <2>2. b.inbox = <<>> /\ b.outbox = <<>>
    BY <2>1 DEF Quiet
  <2>3. stored[b.db] \in SUBSET ConsoleKey
    BY <1>1, <2>1 DEF Calm
  <2> DEFINE w == Way(b)
             o == Len(b.outbox)
  <2>4. Len(w) = 0
    <3>1. <<>> \o <<>> = <<>>
      OBVIOUS
    <3> QED BY <2>2, <3>1, EmptyIs DEF Way
  <2>5. Stage(w, o, pendingCallbacks, b.db, b.chose, stored[b.db], list, shownDb)
    BY <2>1 DEF Led
  <2> HIDE DEF w, o
  <2>6. list = Ascending(stored[b.db]) /\ (b.chose => shownDb = b.db)
    BY <2>3, <2>4, <2>5, FilledMeans
  <2> QED BY <1>3, <2>1, <2>6
<1> QED BY <1>2, <1>3

\* The page begins with no socket.
LEMMA PatientInit == ConsoleInit => PatientInv
<1> SUFFICES ASSUME ConsoleInit PROVE PatientInv
  OBVIOUS
<1>1. sockets = <<>> /\ ws = 0 /\ status = "Disconnected" /\ statsOn = FALSE /\ polls = 0
      /\ inspected = NoKey /\ stored \in FirstKeys
  BY DEF ConsoleInit
<1>2. Len(sockets) = 0
  BY <1>1, EmptyIs
<1>3. stored \in [ConsoleDb -> SUBSET ConsoleKey]
  BY <1>1, ConsoleAssumption
<1>4. Calm(sockets)
  BY <1>2 DEF Calm
<1> QED BY <1>1, <1>2, <1>3, <1>4 DEF PatientInv, Phase, Off

\* sendCommand puts its messages after all that is under way on the page's socket.
LEMMA SendSent ==
  ASSUME NEW socks, NEW calls, Routed(socks, calls, msgId), ws \in 0..Len(socks),
         NEW asks, IsSequence(asks), Send(socks, calls, asks), Ready(socks)
  PROVE  /\ Sent(Way(sockets'[ws]), Way(socks[ws]), asks, pendingCallbacks', calls)
         /\ ws \in 1..Len(socks) /\ Len(sockets') = Len(socks)
         /\ \A n \in 1..Len(socks) : n # ws => sockets'[n] = socks[n]
         /\ sockets'[ws].state = "open" /\ sockets'[ws].db = socks[ws].db
         /\ sockets'[ws].chose = socks[ws].chose /\ sockets'[ws].outbox = socks[ws].outbox
<1> DEFINE b == socks[ws]
           q == Messages(msgId, asks)
           more == pendingCallbacks'
           d == sockets'[ws]
<1>1. /\ Put(sockets', socks, ws, Holding(b, b.inbox \o q, b.outbox))
      /\ Registered(calls, more, msgId, asks, ws)
      /\ ws \in 1..Len(socks) /\ b.state = "open"
  BY SendPuts
<1>2. d = Holding(b, b.inbox \o q, b.outbox) /\ Len(sockets') = Len(socks)
      /\ \A n \in 1..Len(socks) : n # ws => sockets'[n] = socks[n]
  BY <1>1 DEF Put
<1>3. d.state = "open" /\ d.db = b.db /\ d.chose = b.chose /\ d.outbox = b.outbox /\ d.inbox = b.inbox \o q
  BY <1>1, <1>2 DEF Holding
<1>4. Socket(b, ws, calls, msgId)
  BY <1>1 DEF Routed
<1>5. IsSequence(b.inbox) /\ IsSequence(b.outbox) /\ IsSequence(q) /\ Served(b.outbox \o b.inbox, ws, calls)
  BY <1>1, <1>4, MessagesAre DEF Socket
<1>6. Continues(b.outbox \o (b.inbox \o q), b.outbox \o b.inbox, q)
  BY <1>5, SentWay
<1> DEFINE u == Way(d)
           v == Way(b)
<1>7. u = b.outbox \o (b.inbox \o q) /\ v = b.outbox \o b.inbox
  BY <1>3 DEF Way
<1>8. Continues(u, v, q) /\ \A n \in 1..Len(v) : v[n].op # "FLUSHDB" => v[n].id \in DOMAIN calls
  <2>1. Served(v, ws, calls)
    BY <1>5, <1>7
  <2>2. Continues(u, v, q)
    BY <1>6, <1>7
  <2> QED BY <2>1, <2>2 DEF Served
<1> HIDE DEF u, v, more, d, b
<1>9. Sent(u, v, asks, more, calls)
  BY <1>1, <1>8, SentIs DEF q
<1> QED BY <1>1, <1>2, <1>3, <1>9 DEF u, v, more, d, b

\* What the steps use while the user was not disturbed and the page has an open socket.
LEMMA OpenMeans ==
  ASSUME ConsoleInv, PatientInv, ~disturbed, NEW s \in DOMAIN sockets, sockets[s].state = "open"
  PROVE  /\ s = Len(sockets) /\ ws = s /\ s # 0 /\ s \in 1..Len(sockets)
         /\ status = "Connected" /\ statsOn = TRUE /\ polls = 1 /\ Ready(sockets)
         /\ Led(sockets[s], pendingCallbacks, stored[sockets[s].db], list, shownDb)
         /\ stored[sockets[s].db] \in SUBSET ConsoleKey /\ sockets[s].db \in ConsoleDb
<1>1. s \in 1..Len(sockets) /\ Len(sockets) \in Nat
  BY InvMeans
<1>2. Calm(sockets) /\ Phase(Len(sockets)) /\ stored \in [ConsoleDb -> SUBSET ConsoleKey]
  BY DEF PatientInv
<1>3. s = Len(sockets) /\ s # 0 /\ sockets[s].db \in ConsoleDb
  BY <1>1, <1>2 DEF Calm
<1>4. On(s)
  BY <1>2, <1>3 DEF Phase
<1> QED BY <1>1, <1>2, <1>3, <1>4 DEF On, Ready

\* The page's socket stays open.
LEMMA StillOn ==
  ASSUME ConsoleInv, PatientInv, ~disturbed, NEW s \in DOMAIN sockets, sockets[s].state = "open",
         Len(sockets') = Len(sockets), \A n \in 1..Len(sockets) : n # s => sockets'[n] = sockets[n],
         sockets'[s].state = "open", sockets'[s].db \in ConsoleDb,
         UNCHANGED <<ws, status, statsOn, polls>>,
         stored' \in [ConsoleDb -> SUBSET ConsoleKey], inspected' \in ConsoleKey \cup {NoKey},
         Led(sockets'[s], pendingCallbacks', stored'[sockets'[s].db], list', shownDb')
  PROVE  PatientInv'
<1>1. /\ s = Len(sockets) /\ ws = s /\ s # 0 /\ s \in 1..Len(sockets)
      /\ status = "Connected" /\ statsOn = TRUE /\ polls = 1
  BY OpenMeans
<1>2. Calm(sockets)
  BY DEF PatientInv
<1>3. Calm(sockets')
  BY <1>1, <1>2 DEF Calm
<1>4. Phase(Len(sockets))'
  BY <1>1 DEF Phase, On
<1> QED BY <1>3, <1>4 DEF PatientInv

\* A user who waits begins with nothing under way and the right list.
LEMMA WaitingMeans ==
  ASSUME ConsoleInv, PatientInv, ~disturbed, status = "Connected", Quiet
  PROVE  /\ ws \in DOMAIN sockets /\ ws # 0 /\ sockets[ws].state = "open"
         /\ Len(Way(sockets[ws])) = 0 /\ sockets[ws].outbox = <<>>
         /\ list = Ascending(stored[sockets[ws].db])
         /\ sockets[ws].chose => shownDb = sockets[ws].db
<1>1. Phase(Len(sockets)) /\ DOMAIN sockets = 1..Len(sockets) /\ Len(sockets) \in Nat
  BY InvMeans DEF PatientInv
<1>2. ws = Len(sockets) /\ ws # 0 /\ sockets[ws].state = "open"
  BY <1>1 DEF Phase, Off, Opening, On
<1>3. sockets[ws].inbox = <<>> /\ sockets[ws].outbox = <<>>
  BY <1>2 DEF Quiet
<1>4. Len(Way(sockets[ws])) = 0
  <2>1. <<>> \o <<>> = <<>>
    OBVIOUS
  <2> QED BY <1>3, <2>1, EmptyIs DEF Way
<1>5. PatientUserSeesServer
  BY PatientMeans
<1> QED BY <1>1, <1>2, <1>3, <1>4, <1>5 DEF PatientUserSeesServer

\* A gesture of the user leads to the right list when its commands will have it read,
\* or change nothing that it shows.
LEMMA GestureLeads ==
  ASSUME ConsoleInv, PatientInv, ~disturbed', NEW asks, IsSequence(asks), NEW apart, Gesture(asks, apart),
         inspected' \in ConsoleKey \cup {NoKey},
         LET b == sockets[ws]
         IN  \/ Turns(asks, b.db, b.chose, stored[b.db], list, shownDb')
             \/ (\A n \in 1..Len(asks) : IdleAsk(asks[n])) /\ UNCHANGED shownDb
  PROVE  PatientInv'
<1>1. /\ status = "Connected" /\ ~disturbed /\ Quiet /\ Send(sockets, pendingCallbacks, asks)
      /\ UNCHANGED <<stored, ws, status, statsOn, polls, list>>
  BY DEF Gesture, Act
<1> DEFINE b == sockets[ws]
           d == sockets'[ws]
           v == Way(b)
           u == Way(d)
<1>2. /\ ws \in DOMAIN sockets /\ ws # 0 /\ b.state = "open" /\ Len(v) = 0 /\ b.outbox = <<>>
      /\ list = Ascending(stored[b.db]) /\ (b.chose => shownDb = b.db)
  BY <1>1, WaitingMeans
<1>3. /\ Routed(sockets, pendingCallbacks, msgId) /\ ws \in 0..Len(sockets) /\ Ready(sockets)
  BY <1>2 DEF ConsoleInv, Ready
<1>4. /\ Sent(u, v, asks, pendingCallbacks', pendingCallbacks) /\ Len(sockets') = Len(sockets)
      /\ \A n \in 1..Len(sockets) : n # ws => sockets'[n] = sockets[n]
      /\ d.state = "open" /\ d.db = b.db /\ d.chose = b.chose /\ d.outbox = b.outbox
  BY <1>1, <1>3, SendSent
<1>5. stored[b.db] \in SUBSET ConsoleKey /\ b.db \in ConsoleDb /\ stored \in [ConsoleDb -> SUBSET ConsoleKey]
  BY <1>1, <1>2, OpenMeans DEF PatientInv
<1>6. \/ Turns(asks, b.db, b.chose, stored[b.db], list, shownDb')
      \/ (\A n \in 1..Len(asks) : IdleAsk(asks[n])) /\ UNCHANGED shownDb
  OBVIOUS
<1>7. \A n \in 1..Len(v) : Idle(v[n], pendingCallbacks)
  BY <1>2
<1>8. Len(b.outbox) = 0 /\ 0 \in 0..Len(v)
  BY <1>2, EmptyIs
<1> DEFINE keys == stored[b.db]
           z == 0
           x == b.db
           y == b.chose
<1>9. keys \in SUBSET ConsoleKey /\ list = Ascending(keys) /\ z \in 0..Len(v)
      /\ (y => shownDb = x)
      /\ \/ Turns(asks, x, y, keys, list, shownDb')
         \/ (\A n \in 1..Len(asks) : IdleAsk(asks[n])) /\ UNCHANGED shownDb
  BY <1>2, <1>5, <1>6, <1>8
<1> HIDE DEF u, v, d, keys, z, x, y
<1>10. Stage(u, z, pendingCallbacks', x, y, keys, list, shownDb')
  <2>1. CASE Turns(asks, x, y, keys, list, shownDb')
    BY <1>4, <1>7, <1>9, <2>1, SentTurn
  <2>2. CASE (\A n \in 1..Len(asks) : IdleAsk(asks[n])) /\ UNCHANGED shownDb
    <3>1. y => shownDb' = x
      BY <1>9, <2>2
    <3> QED BY <1>4, <1>7, <1>9, <2>2, <3>1, SentIdle
  <2> QED BY <1>9, <2>1, <2>2
<1>11. Len(d.outbox) = z /\ Fine(d.outbox)
  BY <1>4, <1>8 DEF Fine, z
<1>12. Led(d, pendingCallbacks', stored'[d.db], list', shownDb')
  BY <1>1, <1>4, <1>10, <1>11 DEF Led, u, keys, x, y
<1>13. d.db \in ConsoleDb /\ stored' \in [ConsoleDb -> SUBSET ConsoleKey]
  BY <1>1, <1>4, <1>5
<1> QED BY <1>1, <1>2, <1>4, <1>12, <1>13, StillOn DEF d

\* What holds of a gesture before it.
LEMMA GestureMeans ==
  ASSUME ConsoleInv, PatientInv, ~disturbed', NEW asks, NEW apart, Gesture(asks, apart)
  PROVE  /\ ~disturbed /\ ~apart /\ ws \in DOMAIN sockets /\ sockets[ws].state = "open"
         /\ stored[sockets[ws].db] \in SUBSET ConsoleKey
         /\ list = Ascending(stored[sockets[ws].db])
         /\ sockets[ws].chose => shownDb = sockets[ws].db
         /\ inspected \in ConsoleKey \cup {NoKey}
<1>1. status = "Connected" /\ ~disturbed /\ Quiet /\ ~apart
  BY DEF Gesture, Act
<1>2. /\ ws \in DOMAIN sockets /\ sockets[ws].state = "open" /\ list = Ascending(stored[sockets[ws].db])
      /\ sockets[ws].chose => shownDb = sockets[ws].db
  BY <1>1, WaitingMeans
<1> QED BY <1>1, <1>2, OpenMeans DEF PatientInv

\* Commands with these callbacks have the list read.
LEMMA CmdTurns ==
  ASSUME NEW op, NEW arg, NEW then, NEW db, NEW chose, NEW keys, NEW shows, NEW prompt,
         \/ /\ op = "SELECT" /\ arg \in ConsoleDb
            /\ then = "selected" \/ (then = "refresh" /\ prompt = arg)
         \/ /\ chose => prompt = db
            /\ \/ op = "DEL" /\ then \in {"refresh", "deleted"}
               \/ op = "SET" /\ arg \in ConsoleKey /\ then \in {"created", "expires"}
               \/ op = "SET" /\ arg \in keys /\ then = "edited" /\ shows = Ascending(keys)
               \/ op = "EXPIRE" /\ arg \in ConsoleKey /\ then = "expired"
  PROVE  Turns(<<Cmd(op, arg, then, 0)>>, db, chose, keys, shows, prompt)
<1> DEFINE c == Cmd(op, arg, then, 0)
<1>1. c.op = op /\ c.arg = arg /\ c.then = then
  BY DEF Cmd
<1> HIDE DEF c
<1>2. Opens(c, db, chose, keys, shows, prompt)
  BY <1>1 DEF Opens, Turn
<1>3. Turns(<<c>>, db, chose, keys, shows, prompt)
  BY <1>2, CommandTurns
<1> QED BY <1>3 DEF c

\* So do all the gestures of the page. FLUSHDB is idle: it is never confirmed.
LEMMA GesturesLead ==
  ASSUME ConsoleInv, PatientInv, ~disturbed',
         \/ onRefresh \/ onInspect \/ onTerminalKey \/ handleDeleteCurrentKey \/ handleSaveEditKey
         \/ (\E db \in ConsoleDb : onDbChange(db)) \/ (\E k \in ConsoleKey : handleCreateKey(k))
  PROVE  PatientInv'
<1> DEFINE b == sockets[ws]
           keys == stored[b.db]
<1>0. ASSUME NEW op, NEW arg, NEW then, then # "scanned", NEW apart,
             Gesture(<<Cmd(op, arg, then, 0)>>, apart),
             inspected' \in ConsoleKey \cup {NoKey},
             Turns(<<Cmd(op, arg, then, 0)>>, b.db, b.chose, keys, list, shownDb')
      PROVE  PatientInv'
  <2>1. IsSequence(<<Cmd(op, arg, then, 0)>>)
    BY <1>0, AsksCmd DEF Asks
  <2> DEFINE asks == <<Cmd(op, arg, then, 0)>>
  <2>2. IsSequence(asks) /\ Gesture(asks, apart) /\ Turns(asks, b.db, b.chose, stored[b.db], list, shownDb')
    BY <1>0, <2>1
  <2> HIDE DEF asks
  <2> QED BY <1>0, <2>2, GestureLeads
<1>1. CASE onRefresh
  <2>1. Gesture(refreshKeys, FALSE) /\ UNCHANGED <<shownDb, inspected>>
    BY <1>1 DEF onRefresh, UserSends
  <2>2. /\ keys \in SUBSET ConsoleKey /\ inspected \in ConsoleKey \cup {NoKey}
        /\ b.chose => shownDb' = b.db
    BY <2>1, GestureMeans
  <2>3. IsSequence(refreshKeys)
    BY AsksInspect DEF Asks
  <2>4. Turns(refreshKeys, b.db, b.chose, keys, list, shownDb')
    BY <2>2, ReadsTurn
  <2> QED BY <2>1, <2>2, <2>3, <2>4, GestureLeads
<1>2. CASE onInspect
  <2>1. PICK n \in DOMAIN list : /\ Gesture(inspectKey(list[n]), FALSE) /\ inspected' = list[n]
                                 /\ UNCHANGED shownDb
    BY <1>2 DEF onInspect, UserSends
  <2>2. /\ keys \in SUBSET ConsoleKey /\ list = Ascending(keys) /\ (b.chose => shownDb = b.db)
    BY <2>1, GestureMeans
  <2>3. list[n] \in keys
    BY <2>2, AscendingIs DEF Ascending
  <2>4. /\ IsSequence(inspectKey(list[n]))
        /\ \A m \in 1..Len(inspectKey(list[n])) : IdleAsk(inspectKey(list[n])[m])
    BY <2>2, AsksInspect, ReadsTurn DEF Asks
  <2> QED BY <2>1, <2>2, <2>3, <2>4, GestureLeads
<1>3. CASE onTerminalKey
  <2>0. UNCHANGED <<shownDb, inspected>>
    BY <1>3 DEF onTerminalKey
  <2>1. CASE \E db \in ConsoleDb : UserSends(<<Cmd("SELECT", db, "selected", 0)>>)
    <3>1. PICK db \in ConsoleDb : Gesture(<<Cmd("SELECT", db, "selected", 0)>>, FALSE)
      BY <2>1 DEF UserSends
    <3>2. inspected' \in ConsoleKey \cup {NoKey}
      BY <2>0, <3>1, GestureMeans
    <3>3. Turns(<<Cmd("SELECT", db, "selected", 0)>>, b.db, b.chose, keys, list, shownDb')
      BY CmdTurns
    <3> QED BY <1>0, <3>1, <3>2, <3>3
  <2>2. CASE \E k \in ConsoleKey : UserSends(<<Cmd("DEL", k, "refresh", 0)>>)
    <3>1. PICK k \in ConsoleKey : Gesture(<<Cmd("DEL", k, "refresh", 0)>>, FALSE)
      BY <2>2 DEF UserSends
    <3>2. inspected' \in ConsoleKey \cup {NoKey} /\ (b.chose => shownDb' = b.db)
      BY <2>0, <3>1, GestureMeans
    <3>3. Turns(<<Cmd("DEL", k, "refresh", 0)>>, b.db, b.chose, keys, list, shownDb')
      BY <3>2, CmdTurns
    <3> QED BY <1>0, <3>1, <3>2, <3>3
  <2>3. CASE UserSends(<<Cmd("FLUSHDB", 0, "refresh", 0)>>)
    <3> DEFINE c == Cmd("FLUSHDB", 0, "refresh", 0)
    <3>1. Gesture(<<c>>, FALSE) /\ IsSequence(<<c>>) /\ c.op = "FLUSHDB"
      BY <2>3, AsksCmd DEF UserSends, Asks, Cmd
    <3>2. inspected' \in ConsoleKey \cup {NoKey}
      BY <2>0, <3>1, GestureMeans
    <3> HIDE DEF c
    <3> DEFINE asks == <<c>>
    <3>3. Len(asks) = 1 /\ asks[1] = c
      OBVIOUS
    <3>4. Gesture(asks, FALSE) /\ IsSequence(asks)
      BY <3>1
    <3> HIDE DEF asks
    <3>5. \A n \in 1..Len(asks) : IdleAsk(asks[n])
      BY <3>1, <3>3 DEF IdleAsk
    <3> QED BY <2>0, <3>2, <3>4, <3>5, GestureLeads
  <2> QED BY <1>3, <2>1, <2>2, <2>3 DEF onTerminalKey
<1>4. CASE handleDeleteCurrentKey
  <2>1. Gesture(<<Cmd("DEL", inspected, "deleted", 0)>>, FALSE) /\ UNCHANGED <<shownDb, inspected>>
    BY <1>4 DEF handleDeleteCurrentKey, UserSends
  <2>2. inspected' \in ConsoleKey \cup {NoKey} /\ (b.chose => shownDb' = b.db)
    BY <2>1, GestureMeans
  <2>3. Turns(<<Cmd("DEL", inspected, "deleted", 0)>>, b.db, b.chose, keys, list, shownDb')
    BY <2>2, CmdTurns
  <2> QED BY <1>0, <2>1, <2>2, <2>3
<1>5. CASE handleSaveEditKey
  <2>1. /\ Gesture(<<Cmd("SET", inspected, "edited", 0)>>, Unlisted) /\ UNCHANGED <<shownDb, inspected>>
    BY <1>5 DEF handleSaveEditKey
  <2>2. /\ inspected' \in ConsoleKey \cup {NoKey} /\ (b.chose => shownDb' = b.db) /\ ~Unlisted
        /\ keys \in SUBSET ConsoleKey /\ list = Ascending(keys)
    BY <2>1, GestureMeans
  <2>3. inspected \in keys
    <3>1. PICK n \in DOMAIN list : list[n] = inspected
      BY <2>2 DEF Unlisted
    <3> QED BY <2>2, <3>1, AscendingIs DEF Ascending
  <2>4. Turns(<<Cmd("SET", inspected, "edited", 0)>>, b.db, b.chose, keys, list, shownDb')
    BY <2>2, <2>3, CmdTurns
  <2> QED BY <1>0, <2>1, <2>2, <2>4
<1>6. CASE \E db \in ConsoleDb : onDbChange(db)
  <2>1. PICK db \in ConsoleDb : /\ Gesture(<<Cmd("SELECT", db, "refresh", 0)>>, FALSE)
                                /\ shownDb' = db /\ UNCHANGED inspected
    BY <1>6 DEF onDbChange, UserSends
  <2>2. inspected' \in ConsoleKey \cup {NoKey}
    BY <2>1, GestureMeans
  <2>3. Turns(<<Cmd("SELECT", db, "refresh", 0)>>, b.db, b.chose, keys, list, shownDb')
    BY <2>1, CmdTurns
  <2> QED BY <1>0, <2>1, <2>2, <2>3
<1>7. CASE \E k \in ConsoleKey : handleCreateKey(k)
  <2>1. PICK k \in ConsoleKey, then \in {"created", "expires"} :
          Gesture(<<Cmd("SET", k, then, 0)>>, FALSE) /\ UNCHANGED <<shownDb, inspected>>
    BY <1>7 DEF handleCreateKey, UserSends
  <2>2. inspected' \in ConsoleKey \cup {NoKey} /\ (b.chose => shownDb' = b.db)
    BY <2>1, GestureMeans
  <2>3. Turns(<<Cmd("SET", k, then, 0)>>, b.db, b.chose, keys, list, shownDb')
    BY <2>2, CmdTurns
  <2> QED BY <1>0, <2>1, <2>2, <2>3
<1> QED BY <1>1, <1>2, <1>3, <1>4, <1>5, <1>6, <1>7

\* A new socket, when every other is closed.
LEMMA ConnectLeads ==
  ASSUME ConsoleInv, PatientInv, ~disturbed', doConnect
  PROVE  PatientInv'
<1> DEFINE c == [state |-> "connecting", db |-> 0, chose |-> FALSE, inbox |-> <<>>, outbox |-> <<>>]
           top == Len(sockets)
<1>1. /\ sockets' = Append(sockets, c) /\ ws' = top + 1 /\ status = "Disconnected" /\ ~disturbed
      /\ (\A s \in DOMAIN sockets : sockets[s].state = "closed")
      /\ UNCHANGED <<stored, status, statsOn, polls, inspected>>
  BY DEF doConnect, Gone
<1>2. c.state = "connecting" /\ c.db = 0 /\ c.chose = FALSE
  OBVIOUS
<1> HIDE DEF c
<1>3. IsSequence(sockets) /\ top \in Nat /\ DOMAIN sockets = 1..top
  BY InvMeans
<1>4. /\ Len(sockets') = top + 1
      /\ \A n \in 1..(top + 1) : sockets'[n] = IF n = top + 1 THEN c ELSE sockets[n]
  BY <1>1, <1>3, SequenceAppend
<1>5. Calm(sockets) /\ Phase(top) /\ stored \in [ConsoleDb -> SUBSET ConsoleKey]
      /\ inspected \in ConsoleKey \cup {NoKey}
  BY <1>1 DEF PatientInv
<1>6. statsOn = FALSE /\ polls = 0
  BY <1>1, <1>5 DEF Phase, Off, Opening, On
<1> DEFINE last == top + 1
<1>7. last # 0 /\ last \in 1..last /\ \A n \in 1..last : n # last => n \in 1..top
  BY <1>3
<1>8. Calm(sockets')
  <2>1. ASSUME NEW n \in 1..last
        PROVE  /\ sockets'[n].db \in ConsoleDb
               /\ sockets'[n].state \in {"connecting", "open", "closing", "closed"}
               /\ n # last => sockets'[n].state = "closed"
               /\ sockets'[n].state \in {"closing", "closed"} =>
                    sockets'[n].inbox = <<>> /\ sockets'[n].outbox = <<>>
    <3>1. CASE n = last
      BY <1>2, <1>4, <3>1, ConsoleAssumption
    <3>2. CASE n # last
      <4>1. n \in 1..top /\ sockets'[n] = sockets[n]
        BY <1>4, <1>7, <3>2
      <4> HIDE DEF last
      <4> QED BY <1>1, <1>3, <1>5, <4>1 DEF Calm
    <3> QED BY <3>1, <3>2
  <2> QED BY <1>4, <2>1 DEF Calm
<1>9. sockets'[last] = c
  BY <1>4, <1>7
<1> HIDE DEF last
<1>10. Len(sockets') = last /\ ws' = last
  BY <1>1, <1>4 DEF last
<1>11. Phase(Len(sockets))'
  BY <1>1, <1>2, <1>6, <1>7, <1>9, <1>10 DEF Phase, Opening
<1> QED BY <1>1, <1>5, <1>8, <1>11 DEF PatientInv

\* It opens, and the list is read.
LEMMA OnopenLeads ==
  ASSUME ConsoleInv, PatientInv, ~disturbed', NEW s \in DOMAIN sockets, onopen(s)
  PROVE  PatientInv'
<1> DEFINE socks == [sockets EXCEPT ![s].state = "open"]
           b == sockets[s]
<1>1. /\ b.state = "connecting" /\ Send(socks, pendingCallbacks, refreshKeys)
      /\ status' = "Connected" /\ statsOn' = TRUE /\ polls' = polls + 1 /\ ~disturbed
      /\ UNCHANGED <<stored, ws, shownDb, list, inspected>>
  BY DEF onopen
<1>2. socks = [sockets EXCEPT ![s].state = "open"]
  OBVIOUS
<1> HIDE DEF socks
<1>3. /\ Put(socks, sockets, s, Opened(b)) /\ b.outbox = <<>> /\ b.inbox = <<>>
      /\ Routed(socks, pendingCallbacks, msgId) /\ Len(socks) = Len(sockets)
  BY <1>1, <1>2, OpenedIs
<1>4. /\ s \in 1..Len(sockets) /\ Len(sockets) \in Nat /\ Calm(sockets) /\ Phase(Len(sockets))
      /\ stored \in [ConsoleDb -> SUBSET ConsoleKey] /\ inspected \in ConsoleKey \cup {NoKey}
  BY <1>1, InvMeans DEF PatientInv
<1>5. s = Len(sockets) /\ s # 0 /\ ws = s /\ polls = 0 /\ b.chose = FALSE /\ b.db \in ConsoleDb
  <2>1. s = Len(sockets) /\ s # 0
    BY <1>1, <1>4 DEF Calm
  <2> QED BY <1>1, <1>4, <2>1 DEF Calm, Phase, Opening
<1> DEFINE c == socks[ws]
           d == sockets'[ws]
           u == Way(d)
           v == Way(c)
<1>6. /\ c.state = "open" /\ c.db = b.db /\ c.chose = FALSE /\ c.outbox = <<>> /\ c.inbox = <<>>
      /\ \A n \in 1..Len(sockets) : n # s => socks[n] = sockets[n]
  BY <1>3, <1>5 DEF Put, Opened
<1>7. Ready(socks) /\ ws \in 0..Len(socks) /\ IsSequence(refreshKeys)
  BY <1>3, <1>4, <1>5, <1>6, AsksInspect DEF Ready, Asks
<1>8. /\ Sent(u, v, refreshKeys, pendingCallbacks', pendingCallbacks) /\ Len(sockets') = Len(socks)
      /\ \A n \in 1..Len(socks) : n # ws => sockets'[n] = socks[n]
      /\ d.state = "open" /\ d.db = c.db /\ d.chose = c.chose /\ d.outbox = c.outbox
  BY <1>1, <1>3, <1>7, SendSent
<1>9. Len(v) = 0 /\ Len(d.outbox) = 0
  <2>1. <<>> \o <<>> = <<>>
    OBVIOUS
  <2> QED BY <1>6, <1>8, <2>1, EmptyIs DEF Way
<1> DEFINE keys == stored[b.db]
           z == 0
           x == b.db
           y == b.chose
<1>10. /\ keys \in SUBSET ConsoleKey /\ z \in 0..Len(v) /\ ~y
       /\ \A n \in 1..Len(v) : Idle(v[n], pendingCallbacks)
  BY <1>4, <1>5, <1>9
<1> HIDE DEF c, u, v, d, keys, z, x, y
<1>11. Stage(u, z, pendingCallbacks', x, y, keys, list, shownDb)
  <2>1. Turns(refreshKeys, x, y, keys, list, shownDb)
    BY <1>10, ReadsTurn
  <2> QED BY <1>8, <1>10, <2>1, SentTurn
<1>12. Led(d, pendingCallbacks', stored[d.db], list, shownDb)
  <2>1. Len(d.outbox) = z /\ Fine(d.outbox)
    BY <1>9 DEF Fine, z
  <2>2. d.db = x /\ stored[d.db] = keys
    BY <1>6, <1>8 DEF x, keys
  <2>3. d.chose = y
    BY <1>5, <1>6, <1>8, Zenon DEF y
  <2> QED BY <1>11, <2>1, <2>2, <2>3 DEF Led, u
<1>13. Len(sockets') = s /\ \A n \in 1..s : n # s => sockets'[n] = sockets[n]
  BY <1>3, <1>5, <1>6, <1>8
<1>14. Calm(sockets')
  BY <1>4, <1>5, <1>6, <1>8, <1>13 DEF Calm, d
<1>15. polls' = 1
  BY <1>1, <1>5
<1>16. Phase(Len(sockets))'
  BY <1>1, <1>5, <1>8, <1>12, <1>13, <1>15 DEF Phase, On, d
<1> QED BY <1>1, <1>4, <1>14, <1>16 DEF PatientInv

\* The page's socket is given up, or closed: the page has none.
LEMMA GivenUp ==
  ASSUME ConsoleInv, PatientInv, ~disturbed, NEW s \in DOMAIN sockets, s = Len(sockets),
         NEW c, Put(sockets', sockets, s, c), c.state \in {"closing", "closed"}, c.db = sockets[s].db,
         c.inbox = <<>>, c.outbox = <<>>, setDisconnected, UNCHANGED <<stored, inspected>>
  PROVE  PatientInv'
<1>1. /\ s \in 1..Len(sockets) /\ Calm(sockets) /\ Phase(Len(sockets))
      /\ stored \in [ConsoleDb -> SUBSET ConsoleKey] /\ inspected \in ConsoleKey \cup {NoKey}
  BY InvMeans DEF PatientInv
<1>2. Len(sockets') = s /\ sockets'[s] = c /\ \A n \in 1..s : n # s => sockets'[n] = sockets[n]
  BY DEF Put
<1>3. Calm(sockets')
  BY <1>1, <1>2 DEF Calm
<1>4. Off'
  <2>1. /\ ws' = 0 /\ status' = "Disconnected" /\ statsOn' = FALSE
        /\ polls' = IF statsOn THEN polls - 1 ELSE polls
    BY DEF setDisconnected
  <2>2. (statsOn = TRUE /\ polls = 1) \/ (statsOn = FALSE /\ polls = 0)
    BY <1>1 DEF Phase, Off, Opening, On
  <2>3. polls' = 0
    BY <2>1, <2>2
  <2> QED BY <2>1, <2>3 DEF Off
<1>5. Phase(Len(sockets))'
  BY <1>2, <1>4 DEF Phase
<1> QED BY <1>1, <1>3, <1>5 DEF PatientInv

LEMMA DisconnectLeads ==
  ASSUME ConsoleInv, PatientInv, ~disturbed', doDisconnect
  PROVE  PatientInv'
<1>1. /\ status = "Connected" /\ ~disturbed /\ Quiet
      /\ sockets' = IF ws = 0 \/ sockets[ws].state = "closed" THEN sockets
                    ELSE [sockets EXCEPT ![ws].state = "closing"]
      /\ setDisconnected /\ UNCHANGED <<stored, inspected>>
  BY DEF doDisconnect, Act
<1> DEFINE b == sockets[ws]
           c == [state |-> "closing", db |-> b.db, chose |-> b.chose, inbox |-> b.inbox, outbox |-> b.outbox]
<1>2. ws \in DOMAIN sockets /\ ws # 0 /\ b.state = "open"
  BY <1>1, WaitingMeans
<1>3. /\ ws \in 1..Len(sockets) /\ IsSequence(sockets) /\ IsSocket(b) /\ ws = Len(sockets)
  BY <1>1, <1>2, InvMeans, OpenMeans
<1>4. Put([sockets EXCEPT ![ws].state = "closing"], sockets, ws, c)
  BY <1>3, StatePut, Zenon
<1>5. c.state = "closing" /\ c.db = b.db /\ c.inbox = <<>> /\ c.outbox = <<>>
  BY <1>1, <1>2 DEF Quiet
<1> HIDE DEF c
<1>6. Put(sockets', sockets, ws, c)
  BY <1>1, <1>2, <1>4
<1> QED BY <1>1, <1>2, <1>3, <1>5, <1>6, GivenUp

LEMMA OncloseLeads ==
  ASSUME ConsoleInv, PatientInv, ~disturbed', NEW s \in DOMAIN sockets, onclose(s)
  PROVE  PatientInv'
<1> DEFINE b == sockets[s]
           c == [state |-> "closed", db |-> b.db, chose |-> b.chose, inbox |-> <<>>, outbox |-> <<>>]
<1>1. /\ b.state # "closed" /\ ~disturbed /\ setDisconnected /\ UNCHANGED <<stored, inspected>>
  BY DEF onclose, Gone
<1>2. Put(sockets', sockets, s, c)
  BY OnclosePut DEF onclose
<1>3. s = Len(sockets)
  BY <1>1, InvMeans DEF PatientInv, Calm
<1>4. c.state = "closed" /\ c.db = b.db /\ c.inbox = <<>> /\ c.outbox = <<>>
  OBVIOUS
<1> HIDE DEF c
<1> QED BY <1>1, <1>2, <1>3, <1>4, GivenUp

\* The answer takes the place of the question, after the answers that came in.
LEMMA AnsweringIs ==
  ASSUME NEW out, IsSequence(out), NEW in, IsSequence(in), in # <<>>,
         NEW e, e.id = Head(in).id, e.op = Head(in).op, e.arg = Head(in).arg
  PROVE  /\ Answering(Append(out, e) \o Tail(in), out \o in, Len(out))
         /\ (Append(out, e) \o Tail(in))[Len(out) + 1] = e /\ Len(Append(out, e)) = Len(out) + 1
         /\ Fine(out) /\ (e.op # "FLUSHDB" => e.answer = "ok") => Fine(Append(out, e))
<1> DEFINE a == Append(out, e)
           r == Tail(in)
           v == a \o r
           w == out \o in
           O == Len(out)
           K == Len(in)
<1>1. O \in Nat /\ K \in Nat /\ K >= 1 /\ IsSequence(r)
  BY SequenceIs, SequenceTail
<1>2. IsSequence(a) /\ Len(a) = O + 1 /\ \A n \in 1..(O + 1) : a[n] = IF n = O + 1 THEN e ELSE out[n]
  BY SequenceAppend
<1>3. Len(w) = O + K /\ \A n \in 1..(O + K) : w[n] = IF n <= O THEN out[n] ELSE in[n - O]
  BY SequenceConcat
<1>4. Alike(v, w)
  BY AnsweredWay
<1> HIDE DEF a, r
<1> DEFINE R == Len(r)
<1>5. /\ Len(v) = Len(a) + R
      /\ \A n \in 1..(Len(a) + R) : v[n] = IF n <= Len(a) THEN a[n] ELSE r[n - Len(a)]
  BY <1>1, <1>2, SequenceConcat
<1>6. R \in Nat
  BY <1>1, SequenceIs
<1> HIDE DEF v, w, O, K, R
<1>7. /\ \A n \in 1..O : /\ n \in 1..(O + 1) /\ n \in 1..(O + K) /\ n \in 1..((O + 1) + R)
                         /\ n <= O /\ n # O + 1 /\ n <= O + 1
      /\ O + 1 \in 1..(O + 1) /\ O + 1 <= O + 1 /\ O + 1 \in 1..((O + 1) + R)
      /\ O + K \in Nat /\ O \in 0..((O + K) - 1)
      /\ \A n \in 1..(O + 1) : n = O + 1 \/ n \in 1..O
  BY <1>1, <1>6
<1>8. \A n \in 1..O : v[n] = w[n] /\ a[n] = out[n]
  BY <1>2, <1>3, <1>5, <1>7
<1>9. v[O + 1] = e /\ a[O + 1] = e
  BY <1>2, <1>5, <1>7
<1>10. Answering(v, w, O)
  BY <1>3, <1>4, <1>7, <1>8 DEF Answering
<1>11. Fine(out) /\ (e.op # "FLUSHDB" => e.answer = "ok") => Fine(a)
  BY <1>2, <1>7, <1>8, <1>9 DEF Fine, O
<1> QED BY <1>2, <1>9, <1>10, <1>11 DEF v, w, a, r, O

\* The bridge answers, and what is under way still leads to the right list.
LEMMA HandleLeads ==
  ASSUME ConsoleInv, PatientInv, ~disturbed', NEW s \in DOMAIN sockets, Handle(s)
  PROVE  PatientInv'
<1> DEFINE b == sockets[s]
           m == Head(b.inbox)
           keys == stored[b.db]
           calls == pendingCallbacks
           w == Way(b)
           o == Len(b.outbox)
<1>1. /\ b.inbox # <<>> /\ ~disturbed
      /\ UNCHANGED <<ws, pendingCallbacks, shownDb, status, statsOn, polls, list, inspected>>
  BY DEF Handle
<1>2. Socket(b, s, calls, msgId) /\ IsSequence(sockets) /\ DOMAIN sockets = 1..Len(sockets)
  BY InvMeans
<1>3. b.state = "open"
  BY <1>1, <1>2 DEF PatientInv, Calm, Socket
<1>4. /\ Fine(b.outbox) /\ Stage(w, o, calls, b.db, b.chose, keys, list, shownDb)
      /\ keys \in SUBSET ConsoleKey /\ b.db \in ConsoleDb
      /\ stored \in [ConsoleDb -> SUBSET ConsoleKey] /\ inspected \in ConsoleKey \cup {NoKey}
  BY <1>1, <1>3, OpenMeans DEF Led, PatientInv
<1>5. IsSequence(b.outbox) /\ IsSequence(b.inbox)
  BY <1>2 DEF Socket
\* The answer, whatever it does to the database of the socket.
<1>6. ASSUME NEW e, e.id = m.id, e.op = m.op, e.arg = m.arg, e.op # "FLUSHDB" => e.answer = "ok",
             NEW d, sockets'[s] = d, d.state = "open", d.db \in ConsoleDb,
             d.outbox = Append(b.outbox, e), d.inbox = Tail(b.inbox),
             Len(sockets') = Len(sockets), \A n \in 1..Len(sockets) : n # s => sockets'[n] = sockets[n],
             stored' \in [ConsoleDb -> SUBSET ConsoleKey],
             \A v : Answering(v, w, o) /\ v[o + 1] = e =>
                      Stage(v, o + 1, calls, d.db, d.chose, stored'[d.db], list, shownDb)
      PROVE  PatientInv'
  <2> DEFINE v == Way(d)
  <2>1. v = Append(b.outbox, e) \o Tail(b.inbox)
    BY <1>6 DEF Way
  <2>2. /\ Answering(v, w, o) /\ v[o + 1] = e /\ Len(d.outbox) = o + 1 /\ Fine(d.outbox)
    BY <1>1, <1>4, <1>5, <1>6, <2>1, AnsweringIs DEF Way
  <2>3. Stage(v, o + 1, calls, d.db, d.chose, stored'[d.db], list, shownDb)
    BY <1>6, <2>2
  <2> HIDE DEF w, o, v
  <2>4. Led(d, calls, stored'[d.db], list, shownDb)
    BY <2>2, <2>3 DEF Led, v
  <2> QED BY <1>1, <1>3, <1>4, <1>6, <2>4, StillOn
<1>7. ASSUME NEW answer, NEW result, m.op # "FLUSHDB" => answer = "ok",
             sockets' = Answered(s, m, answer, result),
             stored' \in [ConsoleDb -> SUBSET ConsoleKey],
             \A v : Answering(v, w, o) /\ v[o + 1] = ReplyTo(m, answer, result) =>
                      Stage(v, o + 1, calls, b.db, b.chose, stored'[b.db], list, shownDb)
      PROVE  PatientInv'
  <2> DEFINE e == ReplyTo(m, answer, result)
             d == Holding(b, Tail(b.inbox), Append(b.outbox, e))
  <2>1. Put(sockets', sockets, s, d)
    BY <1>7, AnsweredIs
  <2>2. /\ d.state = b.state /\ d.db = b.db /\ d.chose = b.chose
        /\ d.outbox = Append(b.outbox, e) /\ d.inbox = Tail(b.inbox)
    BY DEF Holding
  <2>3. e.id = m.id /\ e.op = m.op /\ e.arg = m.arg /\ e.answer = answer
    BY DEF ReplyTo
  <2>4. \A v : Answering(v, w, o) /\ v[o + 1] = e =>
                 Stage(v, o + 1, calls, b.db, b.chose, stored'[b.db], list, shownDb)
    BY <1>7
  <2> HIDE DEF e, d, w, o
  <2>5. \A v : Answering(v, w, o) /\ v[o + 1] = e =>
                 Stage(v, o + 1, calls, d.db, d.chose, stored'[d.db], list, shownDb)
    BY <2>2, <2>4
  <2>6. /\ sockets'[s] = d /\ Len(sockets') = Len(sockets)
        /\ \A n \in 1..Len(sockets) : n # s => sockets'[n] = sockets[n]
    BY <2>1 DEF Put
  <2> QED BY <1>3, <1>4, <1>6, <1>7, <2>2, <2>3, <2>5, <2>6
<1>8. \A v : Answering(v, w, o) =>
        /\ v[o + 1].op = w[o + 1].op /\ v[o + 1].arg = w[o + 1].arg
        /\ o + 1 \in 1..Len(w) /\ Len(w) \in Nat
  <2> HIDE DEF w, o
  <2> QED BY DEF Answering, Alike
\* A read.
<1>9. ASSUME NEW answer, NEW result, m.op # "FLUSHDB" => answer = "ok",
             sockets' = Answered(s, m, answer, result),
             m.op \notin {"SELECT", "SET", "DEL"}, m.op = "SCAN" => result = PageOf(keys, m.arg),
             UNCHANGED stored
      PROVE  PatientInv'
  <2> DEFINE e == ReplyTo(m, answer, result)
  <2>1. e.op = m.op /\ e.arg = m.arg /\ e.result = result
    BY DEF ReplyTo
  <2> HIDE DEF e, w, o
  <2>2. \A v : Answering(v, w, o) /\ v[o + 1] = e =>
                 Stage(v, o + 1, calls, b.db, b.chose, keys, list, shownDb)
    BY <1>4, <1>9, <2>1, StageRead
  <2> QED BY <1>4, <1>7, <1>9, <2>2 DEF e
<1>10. CASE m.op = "SCAN" /\ sockets' = Answered(s, m, "ok", Page(b.db, m.arg)) /\ UNCHANGED stored
  <2>1. Page(b.db, m.arg) = PageOf(keys, m.arg)
    BY DEF Page, PageOf
  <2> QED BY <1>9, <1>10, <2>1
<1>11. CASE /\ m.op \in {"TYPE", "TTL", "GET", "EXPIRE"} /\ UNCHANGED stored
            /\ sockets' = Answered(s, m, "ok", 0)
  BY <1>9, <1>11
<1>12. CASE m.op = "FLUSHDB" /\ sockets' = Answered(s, m, "confirm", 0) /\ UNCHANGED stored
  BY <1>9, <1>12
\* A write.
<1>13. CASE /\ m.op \in {"SET", "DEL"} /\ sockets' = Answered(s, m, "ok", 0)
            /\ stored' = [stored EXCEPT ![b.db] = IF m.op = "SET" THEN @ \cup {m.arg} ELSE @ \ {m.arg}]
  <2> DEFINE more == IF m.op = "SET" THEN keys \cup {m.arg} ELSE keys \ {m.arg}
             e == ReplyTo(m, "ok", 0)
  <2>1. e.id = m.id /\ e.op = m.op /\ e.arg = m.arg
    BY DEF ReplyTo
  <2>2. more \in SUBSET ConsoleKey
    <3> DEFINE u == Append(b.outbox, e) \o Tail(b.inbox)
    <3>1. Answering(u, w, o) /\ u[o + 1] = e
      BY <1>1, <1>5, <2>1, AnsweringIs DEF Way
    <3> DEFINE j == o + 1
    <3>2. j \in 1..Len(w) /\ Len(w) \in Nat /\ w[j].op = m.op /\ w[j].arg = m.arg
      BY <1>8, <2>1, <3>1
    <3> HIDE DEF w, o, j, u, e
    <3>3. m.op = "SET" => m.arg \in ConsoleKey
      BY <1>4, <1>13, <3>2, StageAsks
    <3> QED BY <1>4, <3>3
  <2>3. stored'[b.db] = more /\ stored' \in [ConsoleDb -> SUBSET ConsoleKey]
    BY <1>4, <1>13, <2>2
  <2>4. \/ e.op = "SET" /\ more = keys \cup {e.arg}
        \/ e.op = "DEL" /\ more = keys \ {e.arg}
    BY <1>13, <2>1
  <2> HIDE DEF e, w, o, more
  <2>5. \A v : Answering(v, w, o) /\ v[o + 1] = e =>
                 Stage(v, o + 1, calls, b.db, b.chose, more, list, shownDb)
    BY <1>4, <2>4, StageWritten
  <2> QED BY <1>7, <1>13, <2>3, <2>5 DEF e
\* A SELECT.
<1>14. CASE /\ m.op = "SELECT" /\ UNCHANGED stored
            /\ sockets' = [Answered(s, m, "ok", 0) EXCEPT ![s].db = m.arg, ![s].chose = TRUE]
  <2> DEFINE e == ReplyTo(m, "ok", 0)
             c == Holding(b, Tail(b.inbox), Append(b.outbox, e))
             r == Answered(s, m, "ok", 0)
             y == m.arg
             d == [state |-> r[s].state, db |-> y, chose |-> TRUE, inbox |-> r[s].inbox, outbox |-> r[s].outbox]
  <2>1. e.id = m.id /\ e.op = m.op /\ e.arg = y /\ e.answer = "ok"
    BY DEF ReplyTo
  <2>2. Put(r, sockets, s, c)
    BY AnsweredIs
  <2>3. c.state = b.state /\ c.outbox = Append(b.outbox, e) /\ c.inbox = Tail(b.inbox) /\ IsSocket(c)
    BY DEF Holding, IsSocket
  <2>4. y \in ConsoleDb
    <3> DEFINE u == Append(b.outbox, e) \o Tail(b.inbox)
    <3>1. Answering(u, w, o) /\ u[o + 1] = e
      BY <1>1, <1>5, <2>1, AnsweringIs DEF Way
    <3> DEFINE j == o + 1
    <3>2. j \in 1..Len(w) /\ Len(w) \in Nat /\ w[j].op = m.op /\ w[j].arg = m.arg
      BY <1>8, <2>1, <3>1
    <3> HIDE DEF w, o, j, u, e, c, r, y, d
    <3>3. m.arg \in ConsoleDb
      BY <1>4, <1>14, <3>2, StageAsks
    <3> QED BY <3>3 DEF y
  <2>5. sockets' = [r EXCEPT ![s].db = y, ![s].chose = TRUE]
    BY <1>14
  <2> HIDE DEF r, c, e, y
  <2>6. r[s] = c /\ IsSequence(r) /\ s \in 1..Len(r) /\ Len(r) = Len(sockets)
        /\ \A n \in 1..Len(sockets) : n # s => r[n] = sockets[n]
    BY <1>2, <2>2 DEF Put
  <2>7. IsSocket(r[s])
    BY <2>3, <2>6
  <2>8. Put([r EXCEPT ![s].db = y, ![s].chose = TRUE], r, s, d)
    BY <2>6, <2>7, ChosenPut, Zenon
  <2>9. /\ d.state = "open" /\ d.db = y /\ d.chose = TRUE
        /\ d.outbox = Append(b.outbox, e) /\ d.inbox = Tail(b.inbox)
    BY <1>3, <2>3, <2>6
  <2> HIDE DEF d
  <2>10. /\ sockets'[s] = d /\ Len(sockets') = Len(sockets)
         /\ \A n \in 1..Len(sockets) : n # s => sockets'[n] = sockets[n]
    BY <2>5, <2>6, <2>8 DEF Put
  <2> HIDE DEF w, o
  <2>11. ASSUME NEW v, Answering(v, w, o), v[o + 1] = e
         PROVE  Stage(v, o + 1, calls, y, TRUE, stored'[d.db], list, shownDb)
    <3>1. v[o + 1].op = "SELECT" /\ v[o + 1].arg = y
      BY <1>14, <2>1, <2>11
    <3>2. \A more : Stage(v, o + 1, calls, v[o + 1].arg, TRUE, more, list, shownDb)
      BY ONLY <1>4, <2>11, <3>1, StageSelected, Zenon
    <3> QED BY <3>1, <3>2, Zenon
  <2>12. \A v : Answering(v, w, o) /\ v[o + 1] = e =>
                  Stage(v, o + 1, calls, d.db, d.chose, stored'[d.db], list, shownDb)
    BY <2>9, <2>11, Zenon
  <2>13. stored' \in [ConsoleDb -> SUBSET ConsoleKey] /\ d.db \in ConsoleDb
    BY <1>4, <1>14, <2>4, <2>9
  <2>14. e.id = m.id /\ e.op = m.op /\ e.arg = m.arg
    BY <2>1 DEF y
  <2> QED BY ONLY <1>6, <2>1, <2>9, <2>10, <2>12, <2>13, <2>14, Zenon
<1>15. \/ m.op = "SCAN" /\ sockets' = Answered(s, m, "ok", Page(b.db, m.arg)) /\ UNCHANGED stored
       \/ /\ m.op \in {"TYPE", "TTL", "GET", "EXPIRE"} /\ UNCHANGED stored
          /\ sockets' = Answered(s, m, "ok", 0)
       \/ /\ m.op = "SELECT" /\ UNCHANGED stored
          /\ sockets' = [Answered(s, m, "ok", 0) EXCEPT ![s].db = m.arg, ![s].chose = TRUE]
       \/ /\ m.op \in {"SET", "DEL"} /\ sockets' = Answered(s, m, "ok", 0)
          /\ stored' = [stored EXCEPT ![b.db] = IF m.op = "SET" THEN @ \cup {m.arg} ELSE @ \ {m.arg}]
       \/ m.op = "FLUSHDB" /\ sockets' = Answered(s, m, "confirm", 0) /\ UNCHANGED stored
  BY DEF Handle
<1> QED BY <1>10, <1>11, <1>12, <1>13, <1>14, <1>15

\* A page of a SCAN is followed by the question for the next one, or by those for the types.
LEMMA PageTurns ==
  ASSUME NEW keys \in SUBSET ConsoleKey, NEW cursor \in Nat, NEW page, page = PageOf(keys, cursor),
         NEW all, all = Smaller(keys, cursor) \cup page.keys,
         NEW db, NEW chose, NEW shows, NEW prompt, chose => prompt = db
  PROVE  IF page.next # 0 THEN Turns(Scan(page.next, all), db, chose, keys, shows, prompt)
         ELSE all = keys
<1>1. /\ page.next \in Nat /\ (page.next = 0 => all = keys)
      /\ page.next # 0 => all = Smaller(keys, page.next)
  BY PageAdds
<1>2. ASSUME page.next # 0 PROVE Turns(Scan(page.next, all), db, chose, keys, shows, prompt)
  <2> DEFINE c == Cmd("SCAN", page.next, "scanned", all)
  <2>1. c.op = "SCAN" /\ c.arg = page.next /\ c.then = "scanned" /\ c.info = all
    BY DEF Cmd
  <2> HIDE DEF c
  <2>2. Opens(c, db, chose, keys, shows, prompt)
    BY <1>1, <1>2, <2>1 DEF Opens, Turn
  <2>3. Turns(<<c>>, db, chose, keys, shows, prompt)
    BY <2>2, CommandTurns
  <2> QED BY <2>3 DEF c, Scan
<1> QED BY <1>1, <1>2

\* Commands after which the list shows the keys, or shows them once their types are in.
Leads(asks, db, chose, keys, shows, prompt) ==
  \/ Turns(asks, db, chose, keys, shows, prompt)
  \/ /\ chose => prompt = db
     /\ \/ (\A n \in 1..Len(asks) : IdleAsk(asks[n])) /\ shows = Ascending(keys)
        \/ asks = Types(keys) /\ shows = <<>>

\* The callback of the command that was to have the list read has it read, or asks for
\* the types of all its keys; an edit changes nothing that the list shows.
LEMMA EffectLeads ==
  ASSUME NEW c, NEW m, m.answer = "ok", c.arg = m.arg, NEW db, NEW chose, NEW keys \in SUBSET ConsoleKey,
         Turn(m, c, TRUE, db, chose, keys, list, shownDb), inspected \in ConsoleKey \cup {NoKey},
         NEW e, e = Effect(c, m)
  PROVE  Leads(e.sends, db, chose, keys, e.list, e.db) /\ e.key \in ConsoleKey \cup {NoKey}
<1> DEFINE k == c.arg
<1>1. CASE m.op = "SELECT" /\ m.arg \in ConsoleDb /\ c.then \in {"refresh", "selected"}
           /\ db = m.arg /\ (c.then = "refresh" => shownDb = m.arg)
  <2>1. e.sends = refreshKeys /\ e.list = list /\ e.key = inspected /\ e.db = db
    BY <1>1 DEF Effect
  <2>2. Turns(e.sends, db, chose, keys, e.list, e.db)
    BY <2>1, ReadsTurn
  <2> QED BY <2>1, <2>2 DEF Leads
<1>2. CASE (chose => shownDb = db) /\ m.op = "DEL" /\ c.then \in {"refresh", "deleted"}
  <2>1. e.sends = refreshKeys /\ e.list = list /\ e.key \in {inspected, NoKey} /\ e.db = shownDb
    BY <1>2 DEF Effect
  <2>2. Turns(e.sends, db, chose, keys, e.list, e.db)
    BY <1>2, <2>1, ReadsTurn
  <2> QED BY <2>1, <2>2 DEF Leads
<1>3. CASE /\ chose => shownDb = db
           /\ \/ m.op = "SET" /\ m.arg \in ConsoleKey /\ c.then = "created"
              \/ m.op = "EXPIRE" /\ m.arg \in ConsoleKey /\ c.then = "expired"
  <2>1. e.sends = refreshKeys \o inspectKey(k) /\ e.list = list /\ e.key = k /\ e.db = shownDb
    BY <1>3 DEF Effect
  <2>2. Turns(refreshKeys \o inspectKey(k), db, chose, keys, list, shownDb)
    BY <1>3, ReadsTurn
  <2> QED BY <1>3, <2>1, <2>2 DEF Leads
<1>4. CASE (chose => shownDb = db) /\ m.op = "SET" /\ m.arg \in ConsoleKey /\ c.then = "expires"
  <2>1. /\ e.sends = <<Cmd("EXPIRE", k, "expired", 0)>>
        /\ e.list = list /\ e.key = inspected /\ e.db = shownDb
    BY <1>4 DEF Effect
  <2>2. Turns(<<Cmd("EXPIRE", k, "expired", 0)>>, db, chose, keys, list, shownDb)
    BY <1>4, CmdTurns
  <2> QED BY <2>1, <2>2 DEF Leads
<1>5. CASE /\ chose => shownDb = db
           /\ m.op = "SET" /\ m.arg \in keys /\ c.then = "edited" /\ list = Ascending(keys)
  <2>1. e.sends = inspectKey(k) /\ e.list = list /\ e.key = k /\ e.db = shownDb
    BY <1>5 DEF Effect
  <2>2. \A n \in 1..Len(e.sends) : IdleAsk(e.sends[n])
    BY <1>5, <2>1, ReadsTurn
  <2> QED BY <1>5, <2>1, <2>2 DEF Leads
<1>6. CASE /\ chose => shownDb = db
           /\ m.op = "SCAN" /\ m.arg \in Nat /\ c.then = "scanned"
           /\ c.info = Smaller(keys, m.arg) /\ m.result = PageOf(keys, m.arg)
  <2> DEFINE page == m.result
             all == Smaller(keys, m.arg) \cup page.keys
  <2>1. e.sends = (IF page.next # 0 THEN Scan(page.next, all) ELSE Types(all))
        /\ e.list = (IF page.next # 0 THEN list ELSE <<>>) /\ e.key = inspected /\ e.db = shownDb
    BY <1>6 DEF Effect, Rendered
  <2>2. IF page.next # 0 THEN Turns(Scan(page.next, all), db, chose, keys, list, shownDb)
        ELSE all = keys
    BY <1>6, PageTurns
  <2> HIDE DEF page, all
  <2> QED BY <1>6, <2>1, <2>2 DEF Leads
<1> QED BY <1>1, <1>2, <1>3, <1>4, <1>5, <1>6 DEF Turn

\* The page takes an answer, its callback runs, and what is then under way leads to the
\* right list.
LEMMA MessageLeads ==
  ASSUME ConsoleInv, PatientInv, ~disturbed', NEW s \in DOMAIN sockets, onmessage(s)
  PROVE  PatientInv'
<1> DEFINE b == sockets[s]
           msg == Head(b.outbox)
           socks == [sockets EXCEPT ![s].outbox = Tail(@)]
           calls == pendingCallbacks
           rest == [i \in DOMAIN calls \ {msg.id} |-> calls[i]]
           effect == Effect(calls[msg.id], msg)
           b2 == Holding(b, b.inbox, Tail(b.outbox))
           w == Way(b)
           v == Way(b2)
           o == Len(b.outbox)
           keys == stored[b.db]
<1>1. /\ b.state = "open" /\ b.outbox # <<>> /\ ~disturbed
      /\ UNCHANGED <<stored, ws, status, statsOn, polls>>
      /\ \/ /\ msg.answer = "confirm" /\ sockets' = socks
            /\ UNCHANGED <<msgId, pendingCallbacks, list, shownDb, inspected>>
         \/ /\ msg.answer # "confirm" /\ msg.id # 0 /\ msg.id \in DOMAIN calls
            /\ Send(socks, rest, effect.sends)
            /\ list' = effect.list /\ shownDb' = effect.db /\ inspected' = effect.key
         \/ /\ msg.answer # "confirm" /\ ~(msg.id # 0 /\ msg.id \in DOMAIN calls)
  BY DEF onmessage
<1>2. /\ msg = Head(b.outbox) /\ socks = [sockets EXCEPT ![s].outbox = Tail(@)]
      /\ rest = [i \in DOMAIN calls \ {msg.id} |-> calls[i]]
      /\ effect = Effect(calls[msg.id], msg)
  OBVIOUS
<1>3. /\ s = Len(sockets) /\ ws = s /\ s \in 1..Len(sockets) /\ Fine(b.outbox)
      /\ Stage(w, o, calls, b.db, b.chose, keys, list, shownDb)
      /\ keys \in SUBSET ConsoleKey /\ b.db \in ConsoleDb
      /\ stored \in [ConsoleDb -> SUBSET ConsoleKey] /\ inspected \in ConsoleKey \cup {NoKey}
  BY <1>1, OpenMeans DEF Led, PatientInv
<1>4. Socket(b, s, calls, msgId) /\ msgId \in Nat /\ Len(sockets) \in Nat
  BY <1>3, InvMeans
<1>5. IsSequence(b.outbox) /\ IsSequence(b.inbox) /\ Numbered(w, msgId) /\ Served(w, s, calls)
  BY <1>1, <1>4 DEF Socket, Way
<1> HIDE DEF socks, rest, effect, msg
<1>6. /\ Put(socks, sockets, s, b2) /\ Len(socks) = Len(sockets) /\ Answer(msg) /\ msg.id \in 1..msgId
      /\ msg.op = "FLUSHDB" => Routed(socks, calls, msgId)
      /\ msg.op # "FLUSHDB" => msg.id \in DOMAIN calls /\ Routed(socks, rest, msgId)
  BY <1>1, <1>2, DeliveredIs
<1>7. /\ b2.state = "open" /\ b2.db = b.db /\ b2.chose = b.chose
      /\ b2.inbox = b.inbox /\ b2.outbox = Tail(b.outbox)
  BY <1>1 DEF Holding
<1>8. Follows(v, w) /\ w[1] = msg
  BY <1>1, <1>2, <1>5, <1>7, DeliveredWay DEF Way
<1>9. o \in 1..Len(w) /\ Len(Tail(b.outbox)) = o - 1 /\ o - 1 \in 0..Len(v) /\ msg = b.outbox[1]
  <2> DEFINE K == Len(b.inbox)
  <2>1. /\ K \in Nat /\ o \in Nat /\ o >= 1 /\ Len(w) = o + K
        /\ Len(Tail(b.outbox)) = o - 1 /\ msg = b.outbox[1]
    <3>1. K \in Nat /\ o \in Nat
      BY <1>5, SequenceIs
    <3>2. Len(w) = o + K
      BY <1>5, SequenceConcat DEF Way
    <3>3. o >= 1 /\ Len(Tail(b.outbox)) = o - 1 /\ Head(b.outbox) = b.outbox[1]
      BY <1>1, <1>2, <1>5, SequenceTail
    <3> QED
      BY <1>1, <1>2, <3>1, <3>2, <3>3
  <2>2. Len(v) = Len(w) - 1
    BY <1>8 DEF Follows
  <2> HIDE DEF o, K, w, v
  <2> QED BY <2>1, <2>2
<1>10. Fine(Tail(b.outbox)) /\ (msg.op # "FLUSHDB" => msg.answer = "ok")
  <2> DEFINE r == Tail(b.outbox)
  <2>1. o \in Nat /\ o >= 1 /\ Len(r) = o - 1 /\ \A n \in 1..(o - 1) : r[n] = b.outbox[n + 1]
    BY <1>1, <1>5, SequenceTail, SequenceIs
  <2>2. 1 \in 1..o /\ \A n \in 1..(o - 1) : n + 1 \in 1..o
    <3> HIDE DEF o
    <3> QED BY <2>1
  <2> HIDE DEF r
  <2> QED BY <1>3, <1>9, <2>1, <2>2 DEF Fine, r
<1> HIDE DEF b2, w, v, o, keys
<1>11. \/ Idle(msg, calls) /\ Stage(v, o - 1, calls, b.db, b.chose, keys, list, shownDb)
       \/ /\ msg.op = "TYPE" /\ calls[msg.id].then = "typed"
          /\ Stage(v, o - 1, calls, b.db, b.chose, keys, Append(list, msg.arg), shownDb)
       \/ /\ Turn(msg, calls[msg.id], TRUE, b.db, b.chose, keys, list, shownDb)
          /\ \A n \in 1..Len(v) : Idle(v[n], calls)
  <2> DEFINE x == b.db
             y == b.chose
  <2>1. Stage(w, o, calls, x, y, keys, list, shownDb) /\ keys \in SUBSET ConsoleKey
    BY <1>3
  <2> HIDE DEF x, y, calls
  <2>2. \/ Idle(w[1], calls) /\ Stage(v, o - 1, calls, x, y, keys, list, shownDb)
        \/ /\ w[1].op = "TYPE" /\ calls[w[1].id].then = "typed"
           /\ Stage(v, o - 1, calls, x, y, keys, Append(list, w[1].arg), shownDb)
        \/ /\ Turn(w[1], calls[w[1].id], TRUE, x, y, keys, list, shownDb)
           /\ \A n \in 1..Len(v) : Idle(v[n], calls)
    BY ONLY <1>8, <1>9, <2>1, StageDelivered, Zenon
  <2> QED BY ONLY <1>8, <2>2, Zenon DEF x, y
<1>12. CASE msg.op = "FLUSHDB"
  <2>1. /\ sockets' = socks /\ UNCHANGED <<pendingCallbacks, list, shownDb, inspected>>
    BY <1>1, <1>6, <1>12 DEF Answer
  <2>2. Stage(v, o - 1, calls, b.db, b.chose, keys, list, shownDb)
    BY <1>11, <1>12 DEF Turn
  <2>3. /\ sockets'[s] = b2 /\ Len(sockets') = Len(sockets)
        /\ \A n \in 1..Len(sockets) : n # s => sockets'[n] = sockets[n]
    BY <1>6, <2>1 DEF Put
  <2>4. Led(b2, calls, keys, list, shownDb)
    BY <1>7, <1>9, <1>10, <2>2 DEF Led, v
  <2> QED BY <1>1, <1>3, <1>7, <2>1, <2>3, <2>4, StillOn DEF keys
<1>13. CASE msg.op # "FLUSHDB"
  <2>1. /\ Send(socks, rest, effect.sends)
        /\ list' = effect.list /\ shownDb' = effect.db /\ inspected' = effect.key
    <3>1. msg.answer # "confirm" /\ msg.id # 0 /\ msg.id \in DOMAIN calls
      BY <1>4, <1>6, <1>13 DEF Answer
    <3> QED BY <1>1, <3>1
  <2>2. calls[msg.id].op = msg.op /\ calls[msg.id].arg = msg.arg /\ msg.answer = "ok"
    <3>1. 1 \in 1..Len(w)
      BY <1>8 DEF Follows
    <3> QED BY <1>5, <1>8, <1>10, <1>13, <3>1 DEF Served
  <2>3. IsSequence(effect.sends)
    <3>1. Waits(calls[msg.id], msg.id, sockets, msgId)
      BY <1>6, <1>13 DEF ConsoleInv, Routed
    <3> QED BY <1>2, <1>6, <3>1, EffectAsks DEF Waits, Asks
  <2>4. socks[s] = b2 /\ Ready(socks) /\ ws \in 0..Len(socks)
    BY <1>3, <1>6, <1>7 DEF Put, Ready
  <2> DEFINE d == sockets'[s]
             u == Way(d)
             asks == effect.sends
  <2>5. /\ Sent(u, v, asks, pendingCallbacks', rest) /\ Len(sockets') = Len(socks)
        /\ \A n \in 1..Len(socks) : n # s => sockets'[n] = socks[n]
        /\ d.state = "open" /\ d.db = b.db /\ d.chose = b.chose /\ d.outbox = Tail(b.outbox)
    BY <1>3, <1>6, <1>7, <1>13, <2>1, <2>3, <2>4, SendSent DEF v
  <2>6. Kept(v, rest, calls)
    <3> SUFFICES ASSUME NEW n \in 1..Len(v), v[n].op # "FLUSHDB" PROVE rest[v[n].id] = calls[v[n].id]
      BY DEF Kept
    <3>1. v[n] = w[n + 1] /\ n + 1 \in 1..Len(w) /\ 1 \in 1..Len(w) /\ n + 1 # 1
      BY <1>8 DEF Follows
    <3>2. v[n].id \in DOMAIN calls /\ v[n].id # msg.id
      BY <1>5, <1>8, <3>1 DEF Served, Numbered
    <3> QED BY <1>2, <3>2
  <2>7. Len(v) \in Nat
    BY <1>8 DEF Follows
  <2> DEFINE x == b.db
             y == b.chose
             z == o - 1
  <2>8. Stage(u, z, pendingCallbacks', x, y, keys, list', shownDb')
    <3>1. CASE Idle(msg, calls) /\ Stage(v, z, calls, x, y, keys, list, shownDb)
      <4>1. calls[msg.id].then = "shown"
        BY <1>13, <3>1 DEF Idle
      <4>2. effect.sends = <<>> /\ effect.list = list /\ effect.db = shownDb
        BY <1>2, <4>1 DEF Effect
      <4>3. Stage(v, z, rest, x, y, keys, list, shownDb)
        <5> HIDE DEF x, y, z, calls
        <5> QED BY <1>3, <2>6, <2>7, <3>1, KeptStage
      <4>4. Len(asks) = 0 /\ list' = list /\ shownDb' = shownDb
        BY <2>1, <4>2, EmptyIs
      <4> HIDE DEF u, asks, x, y, z, calls
      <4>5. Stage(u, z, pendingCallbacks', x, y, keys, list, shownDb)
        BY <1>3, <2>5, <4>3, <4>4, SentNothing
      <4> QED BY <4>4, <4>5
    <3>2. CASE /\ msg.op = "TYPE" /\ calls[msg.id].then = "typed"
               /\ Stage(v, z, calls, x, y, keys, Append(list, msg.arg), shownDb)
      <4> DEFINE longer == Append(list, msg.arg)
      <4>1. effect.sends = <<>> /\ effect.list = longer /\ effect.db = shownDb
        BY <1>2, <2>2, <3>2 DEF Effect
      <4>2. Len(asks) = 0 /\ list' = longer /\ shownDb' = shownDb
        BY <2>1, <4>1, EmptyIs
      <4> HIDE DEF u, asks, x, y, z, calls, longer
      <4>3. Stage(v, z, rest, x, y, keys, longer, shownDb)
        BY <1>3, <2>6, <2>7, <3>2, KeptStage DEF longer
      <4>4. Stage(u, z, pendingCallbacks', x, y, keys, longer, shownDb)
        BY <1>3, <2>5, <4>2, <4>3, SentNothing
      <4> QED BY <4>2, <4>4
    <3>3. CASE /\ Turn(msg, calls[msg.id], TRUE, x, y, keys, list, shownDb)
               /\ \A n \in 1..Len(v) : Idle(v[n], calls)
      <4> DEFINE c == calls[msg.id]
      <4>1. Turn(msg, c, TRUE, x, y, keys, list, shownDb) /\ c.arg = msg.arg /\ effect = Effect(c, msg)
        BY <1>2, <2>2, <3>3
      <4> HIDE DEF u, asks, x, y, z, calls, c
      <4>2. Leads(effect.sends, x, y, keys, effect.list, effect.db)
        BY ONLY <1>3, <2>2, <4>1, EffectLeads, Zenon
      <4>3. Leads(asks, x, y, keys, list', shownDb')
        BY ONLY <2>1, <4>2, Zenon DEF asks
      <4>4. \A n \in 1..Len(v) : Idle(v[n], rest)
        BY <2>6, <3>3, KeptIdle
      <4>5. z \in 0..Len(v)
        BY <1>9 DEF z
      <4>6. CASE Turns(asks, x, y, keys, list', shownDb')
        BY ONLY <2>5, <4>4, <4>5, <4>6, SentTurn, Zenon
      <4>7. CASE /\ \A n \in 1..Len(asks) : IdleAsk(asks[n])
                 /\ list' = Ascending(keys) /\ (y => shownDb' = x)
        BY ONLY <1>3, <2>5, <4>4, <4>7, SentIdle, Zenon
      <4>8. CASE asks = Types(keys) /\ list' = <<>> /\ (y => shownDb' = x)
        <5>1. Stage(u, z, pendingCallbacks', x, y, keys, <<>>, shownDb')
          BY ONLY <1>3, <2>5, <4>4, <4>8, SentTypes, Zenon
        <5> QED BY <4>8, <5>1
      <4> QED BY <4>3, <4>6, <4>7, <4>8 DEF Leads
    <3> QED BY <1>11, <3>1, <3>2, <3>3
  <2>9. inspected' \in ConsoleKey \cup {NoKey}
    <3>1. CASE Turn(msg, calls[msg.id], TRUE, x, y, keys, list, shownDb)
      <4> DEFINE c == calls[msg.id]
      <4>1. Turn(msg, c, TRUE, x, y, keys, list, shownDb) /\ c.arg = msg.arg /\ effect = Effect(c, msg)
        BY <1>2, <2>2, <3>1
      <4> HIDE DEF x, y, calls, c
      <4>2. effect.key \in ConsoleKey \cup {NoKey}
        BY ONLY <1>3, <2>2, <4>1, EffectLeads, Zenon
      <4> QED BY <2>1, <4>2
    <3>2. CASE calls[msg.id].then \in {"shown", "typed"}
      BY <1>2, <1>3, <2>1, <3>2 DEF Effect
    <3> QED BY <1>11, <1>13, <3>1, <3>2 DEF Idle
  <2>10. Led(d, pendingCallbacks', keys, list', shownDb')
    <3>1. Len(d.outbox) = z /\ Fine(d.outbox) /\ d.db = x /\ d.chose = y
      BY <1>9, <1>10, <2>5
    <3> HIDE DEF d, x, y, z
    <3> QED BY <2>8, <3>1, Zenon DEF Led, u
  <2>11. \A n \in 1..Len(sockets) : n # s => sockets'[n] = sockets[n]
    BY <1>6, <2>5 DEF Put
  <2>12. keys = stored'[d.db] /\ d.db \in ConsoleDb /\ stored' \in [ConsoleDb -> SUBSET ConsoleKey]
         /\ Len(sockets') = Len(sockets)
    BY <1>1, <1>3, <1>6, <2>5 DEF keys
  <2> QED BY <1>1, <1>3, <2>5, <2>9, <2>10, <2>11, <2>12, StillOn
<1> QED BY <1>12, <1>13

\* A user who waited keeps waiting, or is disturbed.
LEMMA PatientStep ==
  ASSUME ConsoleInv, PatientInv, [ConsoleNext]_consoleVars
  PROVE  PatientInv'
<1> SUFFICES ASSUME ~disturbed' PROVE PatientInv'
  BY DEF PatientInv
<1>1. CASE doConnect
  BY <1>1, ConnectLeads
<1>2. CASE doDisconnect
  BY <1>2, DisconnectLeads
<1>3. CASE \/ onRefresh \/ onInspect \/ onTerminalKey \/ handleDeleteCurrentKey \/ handleSaveEditKey
           \/ (\E db \in ConsoleDb : onDbChange(db)) \/ (\E k \in ConsoleKey : handleCreateKey(k))
  BY <1>3, GesturesLead
<1>4. CASE \E s \in DOMAIN sockets : onopen(s) \/ onclose(s) \/ Handle(s) \/ onmessage(s)
  BY <1>4, OnopenLeads, OncloseLeads, HandleLeads, MessageLeads
<1>5. CASE closeDangerModal \/ UNCHANGED consoleVars
  <2>1. UNCHANGED <<stored, ws, sockets, pendingCallbacks, shownDb, status, statsOn, polls, list,
                    inspected, disturbed>>
    BY <1>5 DEF closeDangerModal, consoleVars
  <2> QED BY <2>1 DEF PatientInv, Phase, Off, Opening, On
<1> QED BY <1>1, <1>2, <1>3, <1>4, <1>5 DEF ConsoleNext

\* A user who waits for the answers, saves no key that the list does not show and is
\* refused nothing sees what the server holds, once nothing is under way: refreshKeys,
\* renderKeyList, onDbChange and the callbacks of the commands of frontend/app.js, through
\* reconnections, with the SCAN pages and the database per socket of bridge.js.
THEOREM PatientSeesServer == ConsoleSpec => []PatientUserSeesServer
<1>1. ConsoleSpec => []ConsoleInv
  BY InitRouted, ConsoleStep, PTL DEF ConsoleSpec
<1>2. ConsoleInit => PatientInv
  BY PatientInit
<1>3. ConsoleInv /\ PatientInv /\ [ConsoleNext]_consoleVars => PatientInv'
  BY PatientStep
<1>4. ConsoleSpec => []PatientInv
  BY <1>1, <1>2, <1>3, PTL DEF ConsoleSpec
<1> QED BY <1>1, <1>4, PatientMeans, PTL
=============================================================================
