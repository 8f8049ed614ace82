---------------------------- MODULE OneBotServer ----------------------------
(***************************************************************************)
(* The servers of the OneBot side: OB11WebSocketServerAdapter,             *)
(* OB11HttpServerAdapter with its WebSocket part, and the SSE server that  *)
(* extends it (napcat-onebot/network/websocket-server.ts, http-server.ts,  *)
(* http-server-sse.ts): who is connected, who receives events, when the    *)
(* heartbeat runs, and what is left of a server when its configuration     *)
(* changes.                                                                *)
(***************************************************************************)
EXTENDS Integers, FiniteSets

CONSTANTS
  Kind,       \* the classes, of "ws", "http", "sse"
  Client,     \* connections made to the server
  HeartInterval,   \* heartInterval of the ws server, 0 for none
  Port, Host,
  HttpBeat,   \* the fixed interval of the http server
  MaxChange   \* bound: changes of the configuration

ASSUME OneBotServerAssumption ==
  /\ Kind \subseteq {"ws", "http", "sse"} /\ HeartInterval \subseteq Nat
  /\ HttpBeat \in Nat \ {0} /\ MaxChange \in Nat

VARIABLES
  kind,        \* the class of this adapter
  serverEnabled, serverConfig,
  listening,   \* addresses with a server on them, and whether it takes WebSockets
  beat,        \* heartbeatIntervalId, by its pace; 0 for null
  state,       \* readyState of each client
  path,        \* what it asked for: "event", "api", "sse"
  wsClients, wsClientWithEvent, sseClients,
  changes

osvars == <<kind, serverEnabled, serverConfig, listening, beat, state, path, wsClients, wsClientWithEvent, sseClients, changes>>
lists == <<wsClients, wsClientWithEvent, sseClients>>

ServerConfig == [port : Port, host : Host, heart : HeartInterval, websocket : BOOLEAN]
Open == {c \in Client : state[c] = "open"}

(* Shapes; the server has one address at most, and every client it lists is*)
(* open.                                                                   *)
OneBotServerTypeOK ==
  /\ kind \in Kind /\ serverEnabled \in BOOLEAN /\ serverConfig \in ServerConfig
  /\ listening \subseteq Port \X Host \X BOOLEAN /\ Cardinality(listening) <= 1
  /\ beat \in HeartInterval \cup {0, HttpBeat}
  /\ state \in [Client -> {"new", "open", "closing", "closed"}]
  /\ path \in [Client -> {"none", "event", "api", "sse"}]
  /\ wsClientWithEvent \subseteq wsClients /\ wsClients \subseteq Open
  /\ sseClients \subseteq {c \in Open : path[c] = "sse"}
  /\ changes \in 0..MaxChange

(* The constructor of the ws server listens before open; the http servers  *)
(* are made by open.                                                       *)
OneBotServerInit ==
  /\ kind \in Kind /\ serverConfig \in ServerConfig
  /\ serverEnabled = FALSE
  /\ listening = IF kind = "ws" THEN {<<serverConfig.port, serverConfig.host, TRUE>>} ELSE {}
  /\ beat = 0
  /\ state = [c \in Client |-> "new"] /\ path = [c \in Client |-> "none"]
  /\ wsClients = {} /\ wsClientWithEvent = {} /\ sseClients = {}
  /\ changes = 0

----------------------------------------------------------------------------
Pace == IF kind = "ws" THEN serverConfig.heart ELSE HttpBeat
StartHeartbeat == IF beat = 0 THEN Pace ELSE beat
BeatWith(clients) == IF clients # {} THEN StartHeartbeat ELSE beat
BeatKept(clients) == beat                    \* defect: the interval outlives its clients
BeatWithout(clients) == IF clients = {} THEN 0 ELSE beat

openServer ==
  /\ ~serverEnabled /\ changes = 0 /\ serverEnabled' = TRUE
  /\ listening' = IF kind = "ws" THEN listening ELSE {<<serverConfig.port, serverConfig.host, serverConfig.websocket>>}
  /\ UNCHANGED <<kind, serverConfig, beat, state, path, lists, changes>>

(* 'connection': refused while not enabled or without the token, both by   *)
(* close(); otherwise entered in the lists, /api without events.           *)
TakesWebSockets == \E l \in listening : l[3]

ClientConnects(c) ==
  \E p \in {"event", "api"}, authorized \in BOOLEAN :
    /\ state[c] = "new" /\ TakesWebSockets
    /\ IF serverEnabled /\ authorized
       THEN /\ state' = [state EXCEPT ![c] = "open"] /\ path' = [path EXCEPT ![c] = p]
            /\ wsClients' = wsClients \cup {c}
            /\ wsClientWithEvent' = IF p = "event" THEN wsClientWithEvent \cup {c} ELSE wsClientWithEvent
            /\ beat' = BeatWith(wsClientWithEvent')
       ELSE /\ state' = [state EXCEPT ![c] = "closing"]
            /\ UNCHANGED <<path, wsClients, wsClientWithEvent, beat>>
    /\ UNCHANGED <<kind, serverEnabled, serverConfig, listening, sseClients, changes>>

(* /_events of the SSE server.                                             *)
Subscribe(c) ==
  /\ kind = "sse" /\ state[c] = "new" /\ listening # {}
  /\ state' = [state EXCEPT ![c] = "open"] /\ path' = [path EXCEPT ![c] = "sse"]
  /\ sseClients' = sseClients \cup {c}
  /\ UNCHANGED <<kind, serverEnabled, serverConfig, listening, beat, wsClients, wsClientWithEvent, changes>>

(* 'close' of a client, hung up on or gone by itself, whichever server     *)
(* it came in by; one that was refused has no handler.                     *)
OnClientClose(c) ==
  /\ state[c] \in {"open", "closing"}
  /\ state' = [state EXCEPT ![c] = "closed"]
  /\ wsClients' = wsClients \ {c}
  /\ wsClientWithEvent' = wsClientWithEvent \ {c}
  /\ sseClients' = sseClients \ {c}
  /\ beat' = IF path[c] \in {"sse", "none"} THEN beat ELSE BeatWithout(wsClientWithEvent')
  /\ UNCHANGED <<kind, serverEnabled, serverConfig, listening, path, changes>>

----------------------------------------------------------------------------
(* close: everyone in wsClients is hung up on and the lists are emptied;   *)
(* subscribers of the SSE server keep their response.                      *)
HungUp == [c \in Client |-> IF c \in wsClients THEN "closing" ELSE state[c]]

(* The ws server makes its next server in reload itself, and open finds it.*)
Reopened(new) == IF kind = "ws" THEN {<<new.port, new.host, TRUE>>} ELSE {<<new.port, new.host, new.websocket>>}

Disable ==
  /\ serverEnabled /\ changes < MaxChange
  /\ serverEnabled' = FALSE /\ listening' = {} /\ beat' = 0
  /\ state' = HungUp /\ wsClients' = {} /\ wsClientWithEvent' = {}
  /\ changes' = changes + 1
  /\ UNCHANGED <<kind, serverConfig, path, sseClients>>

(* A change the class does not look at only takes the new configuration:   *)
(* the http servers do not look at the host.                               *)
Rebinds(new) ==
  \/ new.port # serverConfig.port
  \/ IF kind = "ws" THEN new.host # serverConfig.host ELSE new.websocket # serverConfig.websocket
Repaced(new) == IF wsClientWithEvent # {} THEN new.heart ELSE 0
Paced(new) == IF kind = "ws" /\ new.heart # serverConfig.heart THEN Repaced(new) ELSE beat

ForgetfulRebind(new) ==                      \* defect: the old clients are dropped, not hung up on
  /\ listening' = Reopened(new) /\ beat' = 0
  /\ wsClients' = {} /\ wsClientWithEvent' = {} /\ UNCHANGED state
Rebind(new) ==
  /\ listening' = Reopened(new) /\ beat' = 0
  /\ state' = HungUp /\ wsClients' = {} /\ wsClientWithEvent' = {}

reloadServer ==
  \E new \in ServerConfig :
    /\ serverEnabled /\ changes < MaxChange /\ new # serverConfig
    /\ serverConfig' = new /\ changes' = changes + 1
    /\ IF Rebinds(new) THEN Rebind(new)
       ELSE beat' = Paced(new) /\ UNCHANGED <<listening, state, wsClients, wsClientWithEvent>>
    /\ UNCHANGED <<kind, serverEnabled, path, sseClients>>

OneBotServerNext ==
  \/ openServer \/ Disable \/ reloadServer
  \/ \E c \in Client : ClientConnects(c) \/ Subscribe(c) \/ OnClientClose(c)

OneBotServerSpec == OneBotServerInit /\ [][OneBotServerNext]_osvars

----------------------------------------------------------------------------
(* The heartbeat runs exactly while an enabled server has clients that     *)
(* take events, and at the pace configured now: no order of connections,   *)
(* late 'close' events and changes leaves one running or stops one early.  *)
HeartbeatIffListeners ==
  beat = IF serverEnabled /\ wsClientWithEvent # {} THEN Pace ELSE 0

(* Every WebSocket that is still open is one the server knows: after a     *)
(* change of port or a close none is left that nobody would close.         *)
NoUnknownClient == \A c \in Open : path[c] # "sse" => c \in wsClients

(* An enabled server listens where its configuration says; what host it    *)
(* says only the ws server follows.                                        *)
ListensWhereConfigured ==
  serverEnabled => \E l \in listening :
    /\ l[1] = serverConfig.port
    /\ kind = "ws" => l[2] = serverConfig.host
    /\ kind # "ws" => l[3] = serverConfig.websocket

(* The heartbeat runs exactly for the clients that take events, every open *)
(* WebSocket is in the lists, and an enabled server listens where it is    *)
(* configured, through late close events and changes.                      *)
OneBotServerSafe ==
  /\ OneBotServerTypeOK
  /\ HeartbeatIffListeners
  /\ NoUnknownClient
  /\ ListensWhereConfigured
============================================================================
