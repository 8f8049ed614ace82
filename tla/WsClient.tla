------------------------------ MODULE WsClient ------------------------------
(***************************************************************************)
(* A reverse WebSocket of NapCat: OB11WebSocketClientAdapter               *)
(* (napcat-onebot/network/websocket-client.ts), from open to close, with   *)
(* the reconnects and with the configuration changed while it runs.        *)
(*                                                                         *)
(* A socket outlives the field that holds it: its 'close' and 'error'      *)
(* events arrive later and act on whatever this.connection is by then.     *)
(***************************************************************************)
EXTENDS Integers, FiniteSets

CONSTANTS
  Url, BadUrl,   \* the configured urls; those the constructor throws on
  Interval,      \* values of heartInterval, 0 for none
  MaxSocket,     \* bound: sockets created, more than the losses and reloads can lead to
  MaxLoss,       \* bound: sockets the peer or the network ends
  MaxReload      \* bound: changes of the configuration

ASSUME WsClientAssumption ==
  BadUrl \subseteq Url /\ Interval \subseteq Nat
  /\ MaxLoss \in Nat /\ MaxReload \in Nat
  /\ MaxSocket \in Nat /\ MaxSocket > 2 * MaxReload + MaxLoss

VARIABLES
  isEnable, config, connection, heartbeatRef,   \* fields; 0 for null
  retries,    \* pending setTimeout(tryConnect)
  sockets,    \* readyState of each socket created
  errored,    \* sockets whose isClosedByError is set
  ended,      \* history: sockets close() was called on
  losses, reloads

wcvars == <<isEnable, config, connection, heartbeatRef, retries, sockets, errored, ended, losses, reloads>>

Socket == 1..MaxSocket
Created == {s \in Socket : sockets[s] # "none"}
Live == {s \in Socket : sockets[s] \in {"connecting", "open"}}
Config == [enable : BOOLEAN, url : Url, heart : Interval]

(* The shapes; the connection is one that was created and has not ended.   *)
WsClientTypeOK ==
  /\ isEnable \in BOOLEAN /\ config \in Config
  /\ connection \in Socket \cup {0} /\ (connection # 0 => connection \in Live)
  /\ heartbeatRef \in Interval \cup {0}
  /\ retries \in 0..MaxSocket
  /\ sockets \in [Socket -> {"none", "connecting", "open", "closing", "closed"}]
  /\ errored \subseteq Created /\ ended \subseteq Created
  /\ losses \in 0..MaxLoss /\ reloads \in 0..MaxReload

WsClientInit ==
  /\ isEnable = FALSE
  /\ config \in {c \in Config : c.enable}
  /\ connection = 0 /\ heartbeatRef = 0 /\ retries = 0
  /\ sockets = [s \in Socket |-> "none"]
  /\ errored = {} /\ ended = {} /\ losses = 0 /\ reloads = 0

----------------------------------------------------------------------------
(* tryConnect on given values of the fields: one socket more, unless there *)
(* is a connection or the constructor throws.                              *)
NextSocket == CHOOSE s \in Socket : sockets[s] = "none"
Connects(conn, enable, url) == conn = 0 /\ enable /\ url \notin BadUrl

tryConnect(conn, enable, url, socks) ==
  /\ connection' = IF Connects(conn, enable, url) THEN NextSocket ELSE conn
  /\ sockets' = IF Connects(conn, enable, url) THEN [socks EXCEPT ![NextSocket] = "connecting"] ELSE socks

(* WebSocket.close() on the connection, and the field is cleared.          *)
Hung == IF connection = 0 THEN sockets ELSE [sockets EXCEPT ![connection] = "closing"]

(* open: an interval if configured, then the first try.  The adapter is    *)
(* registered and opened once; reload opens it again after its close.      *)
OpenFrom(new, conn, socks) ==
  /\ heartbeatRef' = new.heart
  /\ isEnable' = TRUE
  /\ tryConnect(conn, TRUE, new.url, socks)

open ==
  /\ ~isEnable /\ reloads = 0 /\ Created = {} /\ connection = 0
  /\ OpenFrom(config, connection, sockets)
  /\ UNCHANGED <<config, retries, errored, ended, losses, reloads>>

(* reload with the enable flag off: close, and the manager drops the       *)
(* adapter (NetWorkClose).                                                 *)
close ==
  /\ isEnable /\ reloads < MaxReload
  /\ isEnable' = FALSE
  /\ config' = [config EXCEPT !.enable = FALSE]
  /\ sockets' = Hung /\ ended' = ended \cup ({connection} \ {0})
  /\ connection' = 0 /\ heartbeatRef' = 0
  /\ reloads' = reloads + 1
  /\ UNCHANGED <<retries, errored, losses>>

(* reload of an enabled adapter that stays enabled.                        *)
ReloadUrl(new) ==
  /\ new.url # config.url
  /\ OpenFrom(new, 0, Hung)
  /\ ended' = ended \cup ({connection} \ {0})

HeartKept(new) == heartbeatRef             \* defect: the interval runs on at its old pace
HeartOf(new) == new.heart

ReloadHeart(new) ==
  /\ new.url = config.url
  /\ heartbeatRef' = HeartOf(new)
  /\ UNCHANGED <<isEnable, connection, sockets, ended>>

reload ==
  \E new \in {c \in Config : c.enable} :
    /\ isEnable /\ reloads < MaxReload /\ new # config
    /\ ReloadUrl(new) \/ ReloadHeart(new)
    /\ config' = new
    /\ reloads' = reloads + 1
    /\ UNCHANGED <<retries, errored, losses>>

----------------------------------------------------------------------------
(* What both handlers do while the adapter is enabled: the field is        *)
(* cleared, whichever socket it holds by now, and a retry is scheduled.    *)
Retries(s) == isEnable

RetryUnlessHung(s) ==   \* defect: the flag of an earlier close() keeps the later sockets from retrying
  /\ connection' = IF Retries(s) THEN 0 ELSE connection
  /\ retries' = IF Retries(s) /\ ended = {} THEN retries + 1 ELSE retries
Retry(s) ==
  /\ connection' = IF Retries(s) THEN 0 ELSE connection
  /\ retries' = IF Retries(s) THEN retries + 1 ELSE retries

(* 'close' of a socket that was hung up on or that the peer ends.          *)
OnClose(s) ==
  /\ sockets[s] \in {"open", "closing"}
  /\ IF sockets[s] = "open" THEN losses < MaxLoss /\ losses' = losses + 1 ELSE UNCHANGED losses
  /\ sockets' = [sockets EXCEPT ![s] = "closed"]
  /\ IF s \in errored THEN UNCHANGED <<connection, retries>> ELSE Retry(s)
  /\ UNCHANGED <<isEnable, config, heartbeatRef, errored, ended, reloads>>

(* 'error': a handshake that fails, a broken connection, or close() before *)
(* the handshake is done; the 'close' that follows finds isClosedByError.  *)
OnError(s) ==
  /\ sockets[s] \in {"connecting", "open", "closing"} /\ s \notin errored
  /\ IF sockets[s] # "closing" THEN losses < MaxLoss /\ losses' = losses + 1 ELSE UNCHANGED losses
  /\ errored' = errored \cup {s}
  /\ sockets' = [sockets EXCEPT ![s] = "closing"]
  /\ Retry(s)
  /\ UNCHANGED <<isEnable, config, heartbeatRef, ended, reloads>>

OnOpen(s) ==
  /\ sockets[s] = "connecting"
  /\ sockets' = [sockets EXCEPT ![s] = "open"]
  /\ UNCHANGED <<isEnable, config, connection, heartbeatRef, retries, errored, ended, losses, reloads>>

RetryTimer ==
  /\ retries > 0 /\ retries' = retries - 1
  /\ tryConnect(connection, isEnable, config.url, sockets)
  /\ UNCHANGED <<isEnable, config, heartbeatRef, errored, ended, losses, reloads>>

WsClientNext ==
  \/ open \/ close \/ reload \/ RetryTimer
  \/ \E s \in Socket : OnClose(s) \/ OnError(s) \/ OnOpen(s)

(* A handshake succeeds or fails within handshakeTimeout, a closing socket *)
(* ends, and timers fire.                                                  *)
WsClientFair ==
  /\ WF_wcvars(RetryTimer) /\ WF_wcvars(open)
  /\ \A s \in Socket : WF_wcvars(OnOpen(s) \/ OnError(s))
                       /\ WF_wcvars(sockets[s] = "closing" /\ OnClose(s))

WsClientSpec == WsClientInit /\ [][WsClientNext]_wcvars
WsClientFairSpec == WsClientSpec /\ WsClientFair

----------------------------------------------------------------------------
Usable == isEnable /\ config.url \notin BadUrl

(* An enabled adapter with a usable url is never left without a connection *)
(* and without a timer that will make one.                                 *)
NeverStranded == Usable => connection # 0 \/ retries > 0

(* Heartbeats go out at the configured pace while the adapter is enabled,  *)
(* through every order of changes, closes and errors.                      *)
HeartbeatFollowsConfig == heartbeatRef = IF isEnable THEN config.heart ELSE 0

(* An adapter that stays enabled comes to have an open connection again.   *)
ComesBackOnline == Usable ~> (connection # 0 /\ sockets[connection] = "open") \/ ~Usable

(* An enabled adapter with a usable url always has a connection or a timer *)
(* that will make one, and its heartbeat is the configured one, in well-   *)
(* formed states.                                                          *)
WsClientSafe == WsClientTypeOK /\ NeverStranded /\ HeartbeatFollowsConfig
============================================================================
