------------------------------ MODULE MCServices ------------------------------
(***************************************************************************)
(* The components that share no state with each other, checked in one run: *)
(* part names the one whose steps a behaviour takes, and the others keep   *)
(* their initial state. The reachable states are the sum of those of the   *)
(* components, not their product.                                          *)
(***************************************************************************)
EXTENDS PubSub, ConnectionManager, ExpiryTimers, ListDeque, SortedSet, Gateway, WebConsole,
        RespParser, TLC

VARIABLE part

brokerSide == <<brokerVars, ownerVars>>
heapSide == <<timerVars, dequeVars, zsetVars>>
frontSide == <<gatewayVars, consoleVars, parserVars>>
serviceVars == <<part, brokerSide, heapSide, frontSide>>

Stranger == [authenticated |-> FALSE, role |-> "none", known |-> FALSE, workspace |-> "none"]

ServicesInit ==
  /\ part \in {"broker", "client", "timers", "deque", "zset", "gateway", "console", "parser"}
  /\ BrokerInit /\ ManagerInit /\ TimersInit /\ DequeInit /\ ZsetInit /\ GatewayInit
  /\ ConsoleInit /\ ParserInit
  /\ part # "client" => options = PanelOptions
  /\ part # "gateway" => requirepass /\ since = 0 /\ sessions \in [GatewayClient -> {Stranger}]
  /\ part # "parser" => messages = <<<<"null", 0>>>>

ServicesNext ==
  \/ part = "broker" /\ BrokerNext /\ UNCHANGED <<part, ownerVars, heapSide, frontSide>>
  \/ part = "client" /\ ManagerNext /\ UNCHANGED <<part, brokerVars, heapSide, frontSide>>
  \/ part = "timers" /\ TimersNext /\ UNCHANGED <<part, brokerSide, dequeVars, zsetVars, frontSide>>
  \/ part = "deque" /\ DequeNext /\ UNCHANGED <<part, brokerSide, timerVars, zsetVars, frontSide>>
  \/ part = "zset" /\ ZsetNext /\ UNCHANGED <<part, brokerSide, timerVars, dequeVars, frontSide>>
  \/ /\ part = "gateway" /\ GatewayNext
     /\ UNCHANGED <<part, brokerSide, heapSide, consoleVars, parserVars>>
  \/ /\ part = "console" /\ ConsoleNext
     /\ UNCHANGED <<part, brokerSide, heapSide, gatewayVars, parserVars>>
  \/ /\ part = "parser" /\ ParserNext
     /\ UNCHANGED <<part, brokerSide, heapSide, gatewayVars, consoleVars>>

Services == ServicesInit /\ [][ServicesNext]_serviceVars /\ ManagerFairness

-----------------------------------------------------------------------------
\* globMatch of the pattern, for the channels of this instance.
MCMatches == {<<"p*", "p1">>}

\* Sessions: none known, a developer, a stranger, and a viewer of a closed workspace.
MCSession == {
  Stranger,
  [authenticated |-> TRUE, role |-> "developer", known |-> TRUE, workspace |-> "none"],
  [authenticated |-> FALSE, role |-> "none", known |-> TRUE, workspace |-> "none"],
  [authenticated |-> FALSE, role |-> "viewer", known |-> TRUE, workspace |-> "denied"]}

MCFirstKeys == {[d \in ConsoleDb |-> IF d = 0 THEN {0, 1} ELSE {1}]}

\* Every length has a digit of its own: one byte stands for it.
MCDigits == [n \in -1..MaxCount |-> ToString(n)]
MCByte == Marks \cup {"CR", "LF", "x"} \cup {ToString(n) : n \in -1..MaxCount}

\* Payloads that look like the protocol, nesting, and three messages that are refused: a
\* count that is no number, a bulk string that goes on, and one level too many.
MCMessage == {
  <<"simple", <<"x">>>>, <<"error", <<"CR">>>>, <<"integer", "1">>, <<"null", 0>>,
  <<"bulk", <<>>>>, <<"bulk", <<"CR", "LF">>>>, <<"bulk", <<"$", "x">>>>, <<"array", <<>>>>,
  <<"array", <<<<"bulk", <<"*">>>>, <<"null", 0>>>>>>,
  <<"array", <<<<"array", <<<<"integer", "2">>>>>>, <<"bulk", <<"x">>>>>>>>,
  <<"line", <<"x", "x">>>>, <<"number", <<"*", <<"x">>>>>>,
  <<"endless", <<<<"x">>, <<"x", "LF">>>>>>,
  <<"array", <<<<"array", <<<<"array", <<>>>>>>>>>>>>}
===============================================================================
