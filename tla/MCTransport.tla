---------------------------- MODULE MCTransport -----------------------------
(***************************************************************************)
(* The connections to the outside: the websocket client of the OneBot       *)
(* adapters (WsClient), their servers (OneBotServer), the configuration they*)
(* follow (OneBotConfig), the requests that come in over them (OneBotApi),  *)
(* the remote objects (Rpc) and the terminals of the WebUI (Terminal). They *)
(* share no state and are taken one at a time.                              *)
(***************************************************************************)
EXTENDS WsClient, OneBotServer, OneBotApi, OneBotConfig, Rpc, Terminal,
  Integers, Sequences, FiniteSets, TLC

CONSTANTS c1, c2, r1, r2, t1, t2, v1, v2

VARIABLE part   \* which of them this behaviour is about

(* Every part but the chosen one keeps one initial state.                  *)
Init ==
  /\ part \in {"client", "server", "config", "api", "rpc", "terminal"}
  /\ WsClientInit /\ (part # "client" => config = CHOOSE c \in Config : c.enable)
  /\ OneBotServerInit /\ (part # "server" => kind = "http" /\ serverConfig = CHOOSE c \in ServerConfig : TRUE)
  /\ OneBotConfigInit /\ (part # "config" => configData = [k \in Class |-> [n \in {"n1"} |-> NoEntry]])
  /\ ApiInit
  /\ RpcInit
  /\ TerminalInit

Next ==
  \/ part = "client" /\ WsClientNext /\ UNCHANGED part
     /\ UNCHANGED <<osvars, ocvars, apivars, rpcvars, terminalvars>>
  \/ part = "server" /\ OneBotServerNext /\ UNCHANGED part
     /\ UNCHANGED <<wcvars, ocvars, apivars, rpcvars, terminalvars>>
  \/ part = "config" /\ OneBotConfigNext /\ UNCHANGED part
     /\ UNCHANGED <<wcvars, osvars, apivars, rpcvars, terminalvars>>
  \/ part = "api" /\ ApiNext /\ UNCHANGED part
     /\ UNCHANGED <<wcvars, osvars, ocvars, rpcvars, terminalvars>>
  \/ part = "rpc" /\ RpcNext /\ UNCHANGED part
     /\ UNCHANGED <<wcvars, osvars, ocvars, apivars, terminalvars>>
  \/ part = "terminal" /\ TerminalNext /\ UNCHANGED part
     /\ UNCHANGED <<wcvars, osvars, ocvars, apivars, rpcvars>>

vars == <<part, wcvars, osvars, ocvars, apivars, rpcvars, terminalvars>>
Spec == Init /\ [][Next]_vars

(* An enabled client comes to be connected again, every request and every   *)
(* call gets its answer, and a terminal nobody looks at any more goes away. *)
ConnectionsServe ==
  /\ part = "client" /\ WsClientFair => ComesBackOnline
  /\ part = "api" /\ ApiFair => EveryoneIsAnswered
  /\ part = "rpc" /\ RpcFair => CallsSettle
  /\ part = "terminal" /\ TerminalFair => UnwatchedEnds
=============================================================================
