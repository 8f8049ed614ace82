-------------------------- MODULE TransportProofs --------------------------
(***************************************************************************)
(* The safety properties of the OneBot connections in both directions, of  *)
(* the requests that come in, of the configuration of the adapters, of the *)
(* remote objects and of the terminals of the WebUI hold of every behaviour*)
(* of their specifications, for every value of the constants.              *)
(***************************************************************************)
EXTENDS WsClient, OneBotServer, OneBotApi, OneBotConfig, Rpc, Terminal,
  FiniteSetTheorems, SequenceTheorems, WellFoundedInduction, TLAPS

----------------------------------------------------------------------------
(* A reverse WebSocket is never left without a connection and without a    *)
(* timer, for any number of sockets, losses and changes of configuration.  *)

Ready == {"none", "connecting", "open", "closing", "closed"}
CreatedIn(socks) == {s \in Socket : socks[s] # "none"}
HangingIn(socks) == {s \in Socket : socks[s] = "closing" /\ s \notin errored}

(* Sockets whose 'close' or 'error' is still to come and will be heard.    *)
Hanging == {s \in Socket : sockets[s] = "closing" /\ s \notin errored}

(* Why a socket can always be made: each one there is, each timer and each *)
(* socket being closed goes back to the opening, to a loss or to one half  *)
(* of a change of configuration.                                           *)
Budget == Cardinality(Created) + retries + Cardinality(Hanging) <= 1 + 2 * reloads + losses

(* An errored socket is on its way out, an adapter that is off holds none, *)
(* and timers come from sockets.                                           *)
ErroredEnds == \A s \in errored : sockets[s] \in {"closing", "closed"}
OffHoldsNone == ~isEnable => connection = 0
TimersFromSockets == Created = {} => retries = 0

WsClientInv == WsClientSafe /\ Budget /\ ErroredEnds /\ OffHoldsNone /\ TimersFromSockets

----------------------------------------------------------------------------
(* How large sets of sockets are.                                          *)
LEMMA SocketsFinite ==
  /\ IsFiniteSet(Socket) /\ Cardinality(Socket) = MaxSocket
  /\ \A S \in SUBSET Socket : IsFiniteSet(S) /\ Cardinality(S) \in Nat /\ Cardinality(S) <= MaxSocket
                              /\ (Cardinality(S) < MaxSocket => \E s \in Socket : s \notin S)
  <1>1. MaxSocket \in Nat /\ 1 \in Int /\ MaxSocket \in Int
    BY WsClientAssumption
  <1>2. IsFiniteSet(Socket) /\ Cardinality(Socket) = MaxSocket
    BY <1>1, FS_Interval DEF Socket
  <1>3. ASSUME NEW S \in SUBSET Socket
        PROVE  IsFiniteSet(S) /\ Cardinality(S) \in Nat /\ Cardinality(S) <= MaxSocket
               /\ (Cardinality(S) < MaxSocket => \E s \in Socket : s \notin S)
    <2>1. IsFiniteSet(S) /\ Cardinality(S) <= Cardinality(Socket)
      BY <1>2, FS_Subset
    <2>2. Cardinality(S) \in Nat
      BY <2>1, FS_CardinalityType
    <2>3. ASSUME ~\E s \in Socket : s \notin S PROVE ~(Cardinality(S) < MaxSocket)
      <3>1. S = Socket
        BY <2>3
      <3>2. QED
        BY <3>1, <1>2, <1>1
    <2>4. QED
      BY <1>2, <2>1, <2>2, <2>3
  <1>4. QED
    BY <1>2, <1>3

(* A socket more in a finite set of them.                                  *)
LEMMA OneMore ==
  ASSUME NEW S \in SUBSET Socket, NEW s \in Socket
  PROVE  Cardinality(S \cup {s}) <= Cardinality(S) + 1 /\ Cardinality(S) <= Cardinality(S \cup {s})
  <1>1. IsFiniteSet(S) /\ Cardinality(S) \in Nat
    BY SocketsFinite
  <1>2. Cardinality(S \cup {s}) = IF s \in S THEN Cardinality(S) ELSE Cardinality(S) + 1
    BY <1>1, FS_AddElement
  <1>3. QED
    BY <1>1, <1>2

(* A socket less.                                                          *)
LEMMA OneLess ==
  ASSUME NEW S \in SUBSET Socket, NEW s \in S
  PROVE  Cardinality(S \ {s}) = Cardinality(S) - 1
  <1>1. IsFiniteSet(S) /\ Cardinality(S) \in Nat
    BY SocketsFinite
  <1>2. QED
    BY <1>1, FS_RemoveElement

(* The numbers of the invariant.                                           *)
LEMMA Numbers ==
  ASSUME WsClientInv
  PROVE  /\ retries \in Nat /\ reloads \in Nat /\ losses \in Nat
         /\ reloads <= MaxReload /\ losses <= MaxLoss
         /\ Cardinality(Created) \in Nat /\ Cardinality(Hanging) \in Nat
         /\ Created \in SUBSET Socket /\ Hanging \in SUBSET Socket
         /\ MaxSocket \in Nat /\ MaxReload \in Nat /\ MaxLoss \in Nat /\ MaxSocket > 2 * MaxReload + MaxLoss
  BY SocketsFinite, WsClientAssumption DEF WsClientInv, WsClientSafe, WsClientTypeOK, Created, Hanging

(* Within the budget there is a timer left to set.                         *)
LEMMA BudgetBounds ==
  ASSUME NEW c \in Nat, NEW t \in Nat, NEW h \in Nat, NEW r \in 0..MaxReload, NEW l \in 0..MaxLoss,
         c + t + h <= 1 + 2 * r + l
  PROVE  t \in 0..MaxSocket
  BY WsClientAssumption

(* tryConnect makes a socket that was not there before, or changes nothing.*)
LEMMA TryMakesOne ==
  ASSUME WsClientInv, errored' = errored,
         NEW socks \in [Socket -> Ready], CreatedIn(socks) = Created,
         NEW conn \in Socket \cup {0}, NEW enable \in BOOLEAN, NEW url \in Url,
         Cardinality(Created) < MaxSocket, tryConnect(conn, enable, url, socks)
  PROVE  /\ sockets' \in [Socket -> Ready] /\ Created \subseteq Created' /\ Created' \in SUBSET Socket
         /\ Cardinality(Created') <= Cardinality(Created) + 1
         /\ Hanging' = HangingIn(socks)
         /\ \A s \in errored : sockets'[s] = socks[s]
         /\ Connects(conn, enable, url) =>
              connection' \in Socket /\ sockets'[connection'] = "connecting" /\ Created' # {}
         /\ ~Connects(conn, enable, url) => connection' = conn /\ sockets' = socks /\ Created' = Created
  <1>1. CASE Connects(conn, enable, url)
    <2> DEFINE n == NextSocket
    <2>1. \E s \in Socket : s \notin Created
      BY SocketsFinite DEF Created
    <2>2. n \in Socket /\ sockets[n] = "none"
      BY <2>1 DEF NextSocket, Created
    <2>3. connection' = n /\ sockets' = [socks EXCEPT ![n] = "connecting"]
      BY <1>1 DEF tryConnect
    <2>4. socks[n] = "none" /\ n \notin errored
      BY <2>2 DEF CreatedIn, Created, WsClientInv, WsClientSafe, WsClientTypeOK
    <2> HIDE DEF n
    <2>5. /\ sockets' \in [Socket -> Ready] /\ sockets'[n] = "connecting"
          /\ \A s \in Socket : s # n => sockets'[s] = socks[s]
      BY <2>2, <2>3 DEF Ready
    <2>6. Created' = CreatedIn(socks) \cup {n}
      BY <2>2, <2>5 DEF Created, CreatedIn
    <2>7. Hanging' = HangingIn(socks)
      BY <2>4, <2>5 DEF Hanging, HangingIn
    <2>8. Created \in SUBSET Socket
      BY DEF Created
    <2>9. Cardinality(Created') <= Cardinality(Created) + 1 /\ Created' \in SUBSET Socket
      BY <2>2, <2>6, <2>8, OneMore
    <2>10. \A s \in errored : s \in Socket
      BY DEF WsClientInv, WsClientSafe, WsClientTypeOK, Created
    <2>11. QED
      BY <1>1, <2>2, <2>3, <2>4, <2>5, <2>6, <2>7, <2>9, <2>10
  <1>2. CASE ~Connects(conn, enable, url)
    <2>1. connection' = conn /\ sockets' = socks
      BY <1>2 DEF tryConnect
    <2>2. Created' = Created /\ Hanging' = HangingIn(socks) /\ Created \in SUBSET Socket
      BY <2>1 DEF Created, CreatedIn, Hanging, HangingIn
    <2>3. Cardinality(Created) \in Nat
      BY Numbers
    <2>4. QED
      BY <1>2, <2>1, <2>2, <2>3
  <1>3. QED
    BY <1>1, <1>2

(* Hanging up adds the connection to the sockets being closed.             *)
LEMMA HungSockets ==
  ASSUME WsClientInv
  PROVE  /\ Hung \in [Socket -> Ready] /\ CreatedIn(Hung) = Created
         /\ HangingIn(Hung) \in SUBSET Socket /\ Cardinality(HangingIn(Hung)) <= Cardinality(Hanging) + 1
         /\ \A s \in errored : Hung[s] \in {"closing", "closed"}
  <1>1. /\ sockets \in [Socket -> Ready] /\ connection \in Socket \cup {0} /\ errored \subseteq Socket
        /\ connection # 0 => sockets[connection] \in {"connecting", "open"}
        /\ \A s \in errored : sockets[s] \in {"closing", "closed"}
    BY DEF WsClientInv, WsClientSafe, WsClientTypeOK, Ready, Created, Live, ErroredEnds
  <1>2. CASE connection = 0
    BY <1>1, <1>2, Numbers DEF Hung, CreatedIn, Created, HangingIn, Hanging
  <1>3. CASE connection # 0
    <2>1. connection \in Socket /\ Hung = [sockets EXCEPT ![connection] = "closing"]
      BY <1>1, <1>3 DEF Hung
    <2>2. /\ Hung \in [Socket -> Ready] /\ Hung[connection] = "closing"
          /\ \A s \in Socket : s # connection => Hung[s] = sockets[s]
      BY <1>1, <2>1 DEF Ready
    <2>3. CreatedIn(Hung) = Created
      BY <1>1, <1>3, <2>2 DEF CreatedIn, Created
    <2>4. HangingIn(Hung) = Hanging \cup {connection}
      BY <1>1, <1>3, <2>1, <2>2 DEF HangingIn, Hanging
    <2>5. QED
      BY <1>1, <2>1, <2>2, <2>3, <2>4, OneMore, Numbers
  <1>4. QED
    BY <1>2, <1>3

----------------------------------------------------------------------------
(* Nothing is open before the adapter is.                                  *)
LEMMA ClientStarts == WsClientInit => WsClientInv
  <1> SUFFICES ASSUME WsClientInit PROVE WsClientInv
    OBVIOUS
  <1>1. Created = {} /\ Hanging = {} /\ Cardinality({}) = 0
    BY FS_EmptySet DEF WsClientInit, Created, Hanging
  <1>2. 0 \in 0..MaxSocket /\ 0 \in 0..MaxLoss /\ 0 \in 0..MaxReload
    BY WsClientAssumption
  <1>3. WsClientTypeOK
    BY <1>1, <1>2 DEF WsClientInit, WsClientTypeOK
  <1>4. NeverStranded /\ HeartbeatFollowsConfig
    BY DEF WsClientInit, NeverStranded, HeartbeatFollowsConfig, Usable
  <1>5. QED
    BY <1>1, <1>3, <1>4 DEF WsClientInit, WsClientInv, WsClientSafe, Budget, ErroredEnds, OffHoldsNone, TimersFromSockets

(* The opening makes the first socket.                                     *)
LEMMA OpenKeeps ==
  ASSUME WsClientInv, open
  PROVE  WsClientInv'
  <1>1. /\ Created = {} /\ connection = 0 /\ reloads = 0 /\ retries = 0
        /\ heartbeatRef' = config.heart /\ isEnable' = TRUE
        /\ tryConnect(0, TRUE, config.url, sockets)
        /\ UNCHANGED <<config, retries, errored, ended, losses, reloads>>
    BY DEF open, OpenFrom, WsClientInv, TimersFromSockets
  <1>2. /\ sockets \in [Socket -> Ready] /\ CreatedIn(sockets) = Created /\ HangingIn(sockets) = {}
        /\ config \in Config /\ config.url \in Url /\ config.heart \in Interval /\ errored = {} /\ ended = {}
        /\ losses \in 0..MaxLoss /\ reloads \in 0..MaxReload
    BY <1>1 DEF WsClientInv, WsClientSafe, WsClientTypeOK, Ready, CreatedIn, HangingIn, Created, Config
  <1>3. Cardinality({}) = 0 /\ 0 < MaxSocket
    BY FS_EmptySet, WsClientAssumption
  <1>4. /\ sockets' \in [Socket -> Ready] /\ Created' \in SUBSET Socket
        /\ Cardinality(Created') <= Cardinality(Created) + 1 /\ Hanging' = {}
        /\ config.url \notin BadUrl => connection' \in Socket /\ sockets'[connection'] = "connecting"
        /\ ~(config.url \notin BadUrl) => connection' = 0
    BY <1>1, <1>2, <1>3, TryMakesOne DEF Connects
  <1>5. Budget'
    BY <1>1, <1>2, <1>3, <1>4, SocketsFinite, Numbers DEF Budget
  <1>6. 0 \in 0..MaxSocket
    BY <1>3, WsClientAssumption
  <1>7. WsClientTypeOK'
    BY <1>1, <1>2, <1>4, <1>6 DEF WsClientTypeOK, Ready, Live, Created
  <1>8. NeverStranded' /\ HeartbeatFollowsConfig'
    BY <1>1, <1>4 DEF NeverStranded, Usable, HeartbeatFollowsConfig, Socket
  <1>9. QED
    BY <1>1, <1>2, <1>5, <1>7, <1>8 DEF WsClientInv, WsClientSafe, ErroredEnds, OffHoldsNone, TimersFromSockets

(* Switching off hangs up; the timers that run find it off.                *)
LEMMA CloseKeeps ==
  ASSUME WsClientInv, close
  PROVE  WsClientInv'
  <1>1. /\ isEnable' = FALSE /\ config' = [config EXCEPT !.enable = FALSE] /\ sockets' = Hung
        /\ ended' = ended \cup ({connection} \ {0}) /\ connection' = 0 /\ heartbeatRef' = 0
        /\ reloads < MaxReload /\ reloads' = reloads + 1 /\ UNCHANGED <<retries, errored, losses>>
    BY DEF close
  <1>2. /\ sockets' \in [Socket -> Ready] /\ Created' = Created /\ Hanging' = HangingIn(Hung)
        /\ HangingIn(Hung) \in SUBSET Socket /\ Cardinality(HangingIn(Hung)) <= Cardinality(Hanging) + 1
        /\ \A s \in errored : sockets'[s] \in {"closing", "closed"}
    BY <1>1, HungSockets DEF Created, CreatedIn, Hanging, HangingIn
  <1>3. Cardinality(HangingIn(Hung)) \in Nat
    BY <1>2, SocketsFinite
  <1>4. Budget'
    BY <1>1, <1>2, <1>3, Numbers DEF Budget, WsClientInv
  <1>5. /\ config \in Config /\ errored \subseteq Created /\ ended \subseteq Created /\ retries \in 0..MaxSocket
        /\ losses \in 0..MaxLoss /\ reloads \in 0..MaxReload
        /\ connection # 0 => connection \in Created
    BY DEF WsClientInv, WsClientSafe, WsClientTypeOK, Live, Created
  <1>6. config' \in Config /\ reloads' \in 0..MaxReload
    <2>1. config' \in Config
      BY <1>1, <1>5 DEF Config
    <2>2. reloads' \in 0..MaxReload
      BY <1>1, <1>5, WsClientAssumption
    <2>3. QED
      BY <2>1, <2>2
  <1>7. ended' \subseteq Created'
    BY <1>1, <1>2, <1>5
  <1>8. WsClientTypeOK'
    BY <1>1, <1>2, <1>5, <1>6, <1>7 DEF WsClientTypeOK, Ready
  <1>9. NeverStranded' /\ HeartbeatFollowsConfig'
    BY <1>1 DEF NeverStranded, Usable, HeartbeatFollowsConfig
  <1>10. QED
    BY <1>1, <1>2, <1>4, <1>8, <1>9 DEF WsClientInv, WsClientSafe, ErroredEnds, OffHoldsNone, TimersFromSockets

(* Another url: the old socket is hung up on and a new one is made.        *)
LEMMA UrlKeeps ==
  ASSUME WsClientInv, NEW new \in Config, isEnable, reloads < MaxReload, ReloadUrl(new),
         config' = new, reloads' = reloads + 1, UNCHANGED <<retries, errored, losses>>
  PROVE  WsClientInv'
  <1>1. /\ heartbeatRef' = new.heart /\ isEnable' = TRUE /\ tryConnect(0, TRUE, new.url, Hung)
        /\ ended' = ended \cup ({connection} \ {0})
    BY DEF ReloadUrl, OpenFrom
  <1>2. /\ new.url \in Url /\ new.heart \in Interval
        /\ errored \subseteq Created /\ ended \subseteq Created /\ retries \in 0..MaxSocket
        /\ losses \in 0..MaxLoss /\ reloads \in 0..MaxReload
        /\ connection # 0 => connection \in Created
    BY DEF WsClientInv, WsClientSafe, WsClientTypeOK, Live, Created, Config
  <1>3. Cardinality(Created) < MaxSocket
    BY Numbers DEF WsClientInv, Budget
  <1>4. /\ Hung \in [Socket -> Ready] /\ CreatedIn(Hung) = Created
        /\ HangingIn(Hung) \in SUBSET Socket /\ Cardinality(HangingIn(Hung)) <= Cardinality(Hanging) + 1
        /\ \A s \in errored : Hung[s] \in {"closing", "closed"}
    BY HungSockets
  <1>5. /\ sockets' \in [Socket -> Ready] /\ Created \subseteq Created' /\ Created' \in SUBSET Socket
        /\ Cardinality(Created') <= Cardinality(Created) + 1 /\ Hanging' = HangingIn(Hung)
        /\ \A s \in errored : sockets'[s] = Hung[s]
        /\ new.url \notin BadUrl => connection' \in Socket /\ sockets'[connection'] = "connecting" /\ Created' # {}
        /\ ~(new.url \notin BadUrl) => connection' = 0 /\ Created' = Created
    BY <1>1, <1>2, <1>3, <1>4, TryMakesOne DEF Connects
  <1>6. Cardinality(Hanging') \in Nat /\ Cardinality(Created') \in Nat
    BY <1>4, <1>5, SocketsFinite
  <1>7. Budget'
    BY <1>4, <1>5, <1>6, Numbers DEF Budget, WsClientInv
  <1>8. reloads' \in 0..MaxReload /\ ended' \subseteq Created'
    BY <1>1, <1>2, <1>5, WsClientAssumption
  <1>9. WsClientTypeOK'
    BY <1>1, <1>2, <1>5, <1>8 DEF WsClientTypeOK, Ready, Live
  <1>10. NeverStranded' /\ HeartbeatFollowsConfig'
    BY <1>1, <1>5 DEF NeverStranded, Usable, HeartbeatFollowsConfig, Socket
  <1>11. QED
    BY <1>1, <1>2, <1>4, <1>5, <1>7, <1>9, <1>10
       DEF WsClientInv, WsClientSafe, ErroredEnds, OffHoldsNone, TimersFromSockets

(* Another interval only.                                                  *)
LEMMA HeartKeeps ==
  ASSUME WsClientInv, NEW new \in Config, isEnable, reloads < MaxReload, ReloadHeart(new),
         config' = new, reloads' = reloads + 1, UNCHANGED <<retries, errored, losses>>
  PROVE  WsClientInv'
  <1>1. /\ new.url = config.url /\ heartbeatRef' = new.heart /\ UNCHANGED <<isEnable, connection, sockets, ended>>
    BY DEF ReloadHeart, HeartOf
  <1>2. Created' = Created /\ Hanging' = Hanging /\ Live' = Live
    BY <1>1 DEF Created, Hanging, Live
  <1>3. new.heart \in Interval /\ reloads' \in 0..MaxReload
    BY WsClientAssumption DEF Config, WsClientInv, WsClientSafe, WsClientTypeOK
  <1>4. WsClientTypeOK'
    BY <1>1, <1>2, <1>3 DEF WsClientInv, WsClientSafe, WsClientTypeOK
  <1>5. Budget'
    BY <1>2, Numbers DEF Budget, WsClientInv
  <1>6. NeverStranded' /\ HeartbeatFollowsConfig'
    BY <1>1 DEF NeverStranded, Usable, HeartbeatFollowsConfig, WsClientInv, WsClientSafe
  <1>7. QED
    BY <1>1, <1>2, <1>4, <1>5, <1>6 DEF WsClientInv, WsClientSafe, ErroredEnds, OffHoldsNone, TimersFromSockets

(* The end of a socket, whichever handler hears of it: a timer is set      *)
(* while the adapter is on, paid for by the loss or by the hanging up.     *)
LEMMA EndKeeps ==
  ASSUME WsClientInv, NEW s \in Created, NEW st \in {"closing", "closed"},
         sockets' = [sockets EXCEPT ![s] = st], errored' = errored \/ (errored' = errored \cup {s} /\ s \notin errored),
         s \notin errored => st = "closed" \/ s \in errored',
         s \notin errored /\ sockets[s] # "closing" => losses < MaxLoss /\ losses' = losses + 1,
         s \in errored \/ sockets[s] = "closing" => losses' = losses,
         s \in errored => UNCHANGED <<connection, retries>>,
         s \notin errored => Retry(s),
         s \notin errored => sockets[s] \in {"connecting", "open", "closing"},
         UNCHANGED <<isEnable, config, heartbeatRef, ended, reloads>>
  PROVE  WsClientInv'
  <1>1. /\ sockets \in [Socket -> Ready] /\ s \in Socket /\ errored \subseteq Created /\ ended \subseteq Created
        /\ isEnable \in BOOLEAN /\ connection \in Socket \cup {0}
        /\ connection # 0 => connection \in Socket /\ sockets[connection] \in {"connecting", "open"}
        /\ \A e \in errored : sockets[e] \in {"closing", "closed"}
        /\ ~isEnable => connection = 0
        /\ retries \in 0..MaxSocket /\ losses \in 0..MaxLoss /\ reloads \in 0..MaxReload
    BY DEF WsClientInv, WsClientSafe, WsClientTypeOK, Ready, Created, Live, ErroredEnds, OffHoldsNone
  <1>2. /\ sockets' \in [Socket -> Ready] /\ sockets'[s] = st
        /\ \A q \in Socket : q # s => sockets'[q] = sockets[q]
    BY <1>1 DEF Ready
  <1>3. Created' = Created
    BY <1>1, <1>2 DEF Created
  <1>4. errored' \subseteq Created' /\ ErroredEnds'
    BY <1>1, <1>2, <1>3 DEF ErroredEnds, Created
  <1>5. Hanging' = Hanging \ {s}
    BY <1>1, <1>2, <1>4 DEF Hanging, ErroredEnds
  <1>6. /\ connection' \in Socket \cup {0} /\ (connection' # 0 => connection' \in Live')
        /\ ~isEnable' => connection' = 0
        /\ isEnable' /\ connection' = 0 /\ retries' = 0 => connection = 0 /\ retries = 0
    BY <1>1, <1>2, WsClientAssumption DEF Retry, Retries, Live
  <1>7. /\ losses' \in 0..MaxLoss /\ retries' \in Nat
        /\ Cardinality(Created) + retries' + Cardinality(Hanging') <= 1 + 2 * reloads + losses'
    <2>0. /\ Cardinality(Created) + retries + Cardinality(Hanging) <= 1 + 2 * reloads + losses
      BY DEF WsClientInv, Budget
    <2>1. CASE s \in Hanging
      <3>1. s \notin errored /\ sockets[s] = "closing" /\ losses' = losses /\ (retries' = retries \/ retries' = retries + 1)
        BY <2>1 DEF Hanging, Retry
      <3>2. Cardinality(Hanging') = Cardinality(Hanging) - 1
        BY <1>5, <2>1, OneLess, Numbers
      <3>3. QED
        BY <1>1, <2>0, <3>1, <3>2, Numbers
    <2>2. CASE s \notin Hanging
      <3>1. Hanging' = Hanging
        BY <1>5, <2>2
      <3>2. CASE s \in errored
        BY <1>1, <2>0, <3>1, <3>2, Numbers
      <3>3. CASE s \notin errored
        <4>1. losses < MaxLoss /\ losses' = losses + 1 /\ (retries' = retries \/ retries' = retries + 1)
          BY <1>1, <2>2, <3>3 DEF Hanging, Retry
        <4>2. QED
          BY <1>1, <2>0, <3>1, <4>1, Numbers, WsClientAssumption
      <3>4. QED
        BY <3>2, <3>3
    <2>3. QED
      BY <2>1, <2>2
  <1>8. Budget'
    BY <1>3, <1>7 DEF Budget
  <1>9. retries' \in 0..MaxSocket
    <2>1. Cardinality(Created) \in Nat /\ Cardinality(Hanging') \in Nat
      BY <1>5, SocketsFinite, Numbers
    <2>2. QED
      BY <1>1, <1>7, <2>1, BudgetBounds
  <1>10. WsClientTypeOK'
    BY <1>1, <1>2, <1>3, <1>4, <1>6, <1>7, <1>9 DEF WsClientInv, WsClientSafe, WsClientTypeOK, Ready
  <1>11. NeverStranded' /\ HeartbeatFollowsConfig'
    BY <1>1, <1>6, <1>7, WsClientAssumption DEF NeverStranded, Usable, HeartbeatFollowsConfig, WsClientInv, WsClientSafe
  <1>12. QED
    BY <1>3, <1>4, <1>6, <1>8, <1>10, <1>11 DEF WsClientInv, WsClientSafe, OffHoldsNone, TimersFromSockets

(* A timer becomes a socket, or finds a connection or nothing to connect.  *)
LEMMA TimerKeeps ==
  ASSUME WsClientInv, RetryTimer
  PROVE  WsClientInv'
  <1>1. /\ retries > 0 /\ retries' = retries - 1 /\ tryConnect(connection, isEnable, config.url, sockets)
        /\ UNCHANGED <<isEnable, config, heartbeatRef, errored, ended, losses, reloads>>
    BY DEF RetryTimer
  <1>2. /\ sockets \in [Socket -> Ready] /\ CreatedIn(sockets) = Created /\ HangingIn(sockets) = Hanging
        /\ connection \in Socket \cup {0} /\ isEnable \in BOOLEAN /\ config \in Config /\ config.url \in Url
        /\ errored \subseteq Created /\ ended \subseteq Created /\ retries \in 0..MaxSocket
        /\ connection # 0 => connection \in Socket /\ sockets[connection] \in {"connecting", "open"}
    BY DEF WsClientInv, WsClientSafe, WsClientTypeOK, Ready, Live, Created, CreatedIn, HangingIn, Hanging, Config
  <1>3. Cardinality(Created) < MaxSocket
    BY <1>1, Numbers DEF WsClientInv, Budget
  <1>4. /\ sockets' \in [Socket -> Ready] /\ Created \subseteq Created' /\ Created' \in SUBSET Socket
        /\ Cardinality(Created') <= Cardinality(Created) + 1 /\ Hanging' = Hanging
        /\ \A s \in errored : sockets'[s] = sockets[s]
        /\ Connects(connection, isEnable, config.url) =>
             connection' \in Socket /\ sockets'[connection'] = "connecting" /\ Created' # {}
        /\ ~Connects(connection, isEnable, config.url) =>
             connection' = connection /\ sockets' = sockets /\ Created' = Created
    BY <1>1, <1>2, <1>3, TryMakesOne
  <1>5. Cardinality(Created') \in Nat
    BY <1>4, SocketsFinite
  <1>6. Budget'
    BY <1>1, <1>4, <1>5, Numbers DEF Budget, WsClientInv
  <1>7. retries' \in 0..MaxSocket
    BY <1>1, <1>2, WsClientAssumption
  <1>8. connection' \in Socket \cup {0} /\ (connection' # 0 => connection' \in Live')
    BY <1>2, <1>4 DEF Live
  <1>9. WsClientTypeOK'
    BY <1>1, <1>2, <1>4, <1>7, <1>8 DEF WsClientInv, WsClientSafe, WsClientTypeOK, Ready
  <1>10. NeverStranded' /\ HeartbeatFollowsConfig'
    BY <1>1, <1>4 DEF NeverStranded, Usable, Connects, HeartbeatFollowsConfig, WsClientInv, WsClientSafe, Socket
  <1>11. ErroredEnds' /\ OffHoldsNone'
    BY <1>1, <1>4 DEF WsClientInv, ErroredEnds, OffHoldsNone, Connects
  <1>12. TimersFromSockets'
    BY <1>1, <1>2, <1>4, Numbers DEF WsClientInv, TimersFromSockets
  <1>13. QED
    BY <1>6, <1>9, <1>10, <1>11, <1>12 DEF WsClientInv, WsClientSafe

(* Every step keeps the invariant.                                         *)
LEMMA ClientSteps == WsClientInv /\ [WsClientNext]_wcvars => WsClientInv'
  <1> SUFFICES ASSUME WsClientInv, [WsClientNext]_wcvars PROVE WsClientInv'
    OBVIOUS
  <1>1. CASE open
    BY <1>1, OpenKeeps
  <1>2. CASE close
    BY <1>2, CloseKeeps
  <1>3. CASE reload
    <2>1. PICK new \in Config : /\ isEnable /\ reloads < MaxReload /\ (ReloadUrl(new) \/ ReloadHeart(new))
                                /\ config' = new /\ reloads' = reloads + 1 /\ UNCHANGED <<retries, errored, losses>>
      BY <1>3 DEF reload
    <2>2. QED
      BY <2>1, UrlKeeps, HeartKeeps
  <1>4. CASE RetryTimer
    BY <1>4, TimerKeeps
  <1>5. ASSUME NEW s \in Socket, OnClose(s) PROVE WsClientInv'
    <2>1. s \in Created
      BY <1>5 DEF OnClose, Created
    <2>2. s \in errored => sockets[s] # "open"
      BY DEF WsClientInv, ErroredEnds
    <2>3. QED
      BY <1>5, <2>1, <2>2, EndKeeps DEF OnClose
  <1>6. ASSUME NEW s \in Socket, OnError(s) PROVE WsClientInv'
    <2>1. s \in Created
      BY <1>6 DEF OnError, Created
    <2>2. QED
      BY <1>6, <2>1, EndKeeps DEF OnError
  <1>7. ASSUME NEW s \in Socket, OnOpen(s) PROVE WsClientInv'
    <2>1. /\ sockets[s] = "connecting" /\ sockets' = [sockets EXCEPT ![s] = "open"]
          /\ UNCHANGED <<isEnable, config, connection, heartbeatRef, retries, errored, ended, losses, reloads>>
      BY <1>7 DEF OnOpen
    <2>2. sockets \in [Socket -> Ready]
      BY DEF WsClientInv, WsClientSafe, WsClientTypeOK, Ready
    <2>3. /\ sockets' \in [Socket -> Ready] /\ sockets'[s] = "open"
          /\ \A q \in Socket : q # s => sockets'[q] = sockets[q]
      BY <2>1, <2>2 DEF Ready
    <2>4. Created' = Created /\ Hanging' = Hanging /\ Live' = Live
      BY <2>1, <2>3 DEF Created, Hanging, Live
    <2>5. s \notin errored /\ errored \subseteq Socket
      BY <2>1 DEF WsClientInv, WsClientSafe, WsClientTypeOK, ErroredEnds, Created
    <2>6. WsClientTypeOK'
      BY <2>1, <2>3, <2>4 DEF WsClientInv, WsClientSafe, WsClientTypeOK, Ready
    <2>7. Budget' /\ ErroredEnds'
      BY <2>1, <2>3, <2>4, <2>5 DEF WsClientInv, Budget, ErroredEnds
    <2>8. NeverStranded' /\ HeartbeatFollowsConfig'
      BY <2>1 DEF NeverStranded, Usable, HeartbeatFollowsConfig, WsClientInv, WsClientSafe
    <2>9. QED
      BY <2>1, <2>4, <2>6, <2>7, <2>8 DEF WsClientInv, WsClientSafe, OffHoldsNone, TimersFromSockets
  <1>8. CASE UNCHANGED wcvars
    BY <1>8 DEF wcvars, WsClientInv, WsClientSafe, WsClientTypeOK, NeverStranded, HeartbeatFollowsConfig, Usable,
       Budget, ErroredEnds, OffHoldsNone, TimersFromSockets, Created, Hanging, Live
  <1>9. QED
    BY <1>1, <1>2, <1>3, <1>4, <1>5, <1>6, <1>7, <1>8 DEF WsClientNext

(* However losses, failed handshakes, timers and changes of configuration  *)
(* interleave, an enabled adapter with a usable url has a connection or a  *)
(* timer that will make one, and its heartbeat is the configured one       *)
(* (websocket-client.ts: open, close, reload, tryConnect).                 *)
THEOREM NeverLeftStranded == WsClientSpec => []WsClientSafe
  <1>1. WsClientInv => WsClientSafe
    BY DEF WsClientInv
  <1>2. QED
    BY <1>1, ClientStarts, ClientSteps, PTL DEF WsClientSpec

----------------------------------------------------------------------------
(* The heartbeat of a server, its lists of clients and its address follow  *)
(* its clients and its configuration, for any number of clients and        *)
(* changes.                                                                *)

Address == Port \X Host \X BOOLEAN

\* An address the configuration asks for.
Configured(l) ==
  /\ l \in Address /\ l[1] = serverConfig.port
  /\ kind = "ws" => l[2] = serverConfig.host
  /\ kind # "ws" => l[3] = serverConfig.websocket

ClientsListed ==
  /\ state \in [Client -> {"new", "open", "closing", "closed"}]
  /\ path \in [Client -> {"none", "event", "api", "sse"}]
  /\ wsClients \subseteq Client /\ sseClients \subseteq Client /\ wsClientWithEvent \subseteq wsClients
  /\ \A c \in Client : c \in wsClients <=> state[c] = "open" /\ path[c] # "sse"
  /\ \A c \in Client : c \in wsClients => path[c] # "none"
  /\ \A c \in sseClients : state[c] = "open" /\ path[c] = "sse"

(* The WebSockets that are open are exactly the ones in the list; a server *)
(* that is off has no listeners, and one made anew already listens.        *)
OneBotServerInv ==
  /\ kind \in Kind /\ serverEnabled \in BOOLEAN /\ serverConfig \in ServerConfig
  /\ changes \in 0..MaxChange
  /\ beat \in HeartInterval \cup {0, HttpBeat}
  /\ ClientsListed
  /\ serverEnabled => \E l \in Address : listening = {l} /\ Configured(l)
  /\ ~serverEnabled => wsClientWithEvent = {}
  /\ ~serverEnabled => listening = {} \/ \E l \in Address : listening = {l}
  /\ ~serverEnabled /\ changes = 0 /\ kind = "ws" => \E l \in Address : listening = {l} /\ Configured(l)
  /\ HeartbeatIffListeners

\* A server that is made has no clients yet.
LEMMA ServerInitOK == OneBotServerInit => OneBotServerInv
<1> SUFFICES ASSUME OneBotServerInit PROVE OneBotServerInv
  OBVIOUS
<1>1. ClientsListed  BY DEF OneBotServerInit, ClientsListed
<1>2. PICK l : l = <<serverConfig.port, serverConfig.host, TRUE>>  OBVIOUS
<1>3. l \in Address /\ (kind = "ws" => Configured(l))
  BY <1>2 DEF OneBotServerInit, ServerConfig, Address, Configured
<1>4. listening = IF kind = "ws" THEN {l} ELSE {}  BY <1>2 DEF OneBotServerInit
<1>5. HeartbeatIffListeners  BY DEF OneBotServerInit, HeartbeatIffListeners
<1>6. changes \in 0..MaxChange  BY OneBotServerAssumption DEF OneBotServerInit
<1>7. /\ kind \in Kind /\ serverConfig \in ServerConfig /\ ~serverEnabled /\ serverEnabled \in BOOLEAN
      /\ beat \in HeartInterval \cup {0, HttpBeat} /\ wsClientWithEvent = {}
  BY DEF OneBotServerInit
<1> QED  BY <1>1, <1>3, <1>4, <1>5, <1>6, <1>7 DEF OneBotServerInv

\* The pace is one the heartbeat may have.
LEMMA PaceIsOne == OneBotServerInv => Pace \in HeartInterval \cup {0, HttpBeat}
BY DEF OneBotServerInv, ServerConfig, Pace

\* The heartbeat of an enabled server goes by its listeners and configuration.
LEMMA OpenOK ==
  ASSUME OneBotServerInv, openServer
  PROVE  OneBotServerInv'
<1>1. /\ ~serverEnabled /\ changes = 0 /\ serverEnabled'
      /\ UNCHANGED <<kind, serverConfig, beat, state, path, wsClients, wsClientWithEvent, sseClients, changes>>
  BY DEF openServer, lists
<1>2. \E l \in Address : listening' = {l} /\ Configured(l)
  <2>1. CASE kind = "ws"
    <3>1. listening' = listening  BY <2>1 DEF openServer
    <3> QED  BY <3>1, <1>1, <2>1 DEF OneBotServerInv
  <2>2. CASE kind # "ws"
    <3>1. PICK l : l = <<serverConfig.port, serverConfig.host, serverConfig.websocket>>  OBVIOUS
    <3>2. listening' = {l}  BY <2>2, <3>1 DEF openServer
    <3>3. l \in Address /\ Configured(l)
      BY <3>1, <2>2 DEF OneBotServerInv, ServerConfig, Address, Configured
    <3> QED  BY <3>2, <3>3
  <2> QED  BY <2>1, <2>2
<1>3. \E l \in Address : listening' = {l} /\ Configured(l)'  BY <1>1, <1>2 DEF Configured
<1>4. ClientsListed'  BY <1>1 DEF OneBotServerInv, ClientsListed
<1>5. HeartbeatIffListeners'
  <2>1. wsClientWithEvent = {} /\ beat = 0  BY <1>1 DEF OneBotServerInv, HeartbeatIffListeners
  <2> QED  BY <1>1, <2>1 DEF HeartbeatIffListeners
<1>6. serverEnabled' \in BOOLEAN  BY DEF openServer
<1> QED  BY <1>1, <1>3, <1>4, <1>5, <1>6 DEF OneBotServerInv

\* A client that is let in is entered; its events start the heartbeat.
LEMMA ConnectOK ==
  ASSUME OneBotServerInv, NEW c \in Client, ClientConnects(c)
  PROVE  OneBotServerInv'
<1>1. PICK p, w : /\ p \in {"event", "api"} /\ w \in BOOLEAN
                  /\ state[c] = "new"
                  /\ w => /\ serverEnabled /\ state' = [state EXCEPT ![c] = "open"]
                          /\ path' = [path EXCEPT ![c] = p] /\ wsClients' = wsClients \cup {c}
                          /\ wsClientWithEvent' = (IF p = "event" THEN wsClientWithEvent \cup {c} ELSE wsClientWithEvent)
                          /\ beat' = (IF wsClientWithEvent' # {} THEN StartHeartbeat ELSE beat)
                  /\ ~w => /\ state' = [state EXCEPT ![c] = "closing"]
                           /\ UNCHANGED <<path, wsClients, wsClientWithEvent, beat>>
                  /\ UNCHANGED <<kind, serverEnabled, serverConfig, listening, sseClients, changes>>
  BY DEF ClientConnects, BeatWith
<1>2. c \notin wsClients /\ c \notin sseClients  BY <1>1 DEF OneBotServerInv, ClientsListed
<1>3. (\A l : Configured(l)' <=> Configured(l)) /\ Pace' = Pace  BY <1>1 DEF Configured, Pace
<1>4. CASE ~w
  <2>1. ClientsListed'  BY <1>1, <1>2, <1>4 DEF OneBotServerInv, ClientsListed
  <2>2. HeartbeatIffListeners'  BY <1>1, <1>3, <1>4 DEF OneBotServerInv, HeartbeatIffListeners
  <2> QED  BY <1>1, <1>3, <1>4, <2>1, <2>2 DEF OneBotServerInv
<1>5. CASE w
  <2>1. ClientsListed'  BY <1>1, <1>2, <1>5 DEF OneBotServerInv, ClientsListed
  <2>2. beat' = IF wsClientWithEvent' # {} THEN Pace ELSE 0
    BY <1>1, <1>5 DEF OneBotServerInv, HeartbeatIffListeners, StartHeartbeat
  <2>3. HeartbeatIffListeners'  BY <1>1, <1>3, <1>5, <2>2 DEF HeartbeatIffListeners
  <2>4. beat' \in HeartInterval \cup {0, HttpBeat}  BY <2>2, PaceIsOne DEF OneBotServerInv
  <2> QED  BY <1>1, <1>3, <1>5, <2>1, <2>3, <2>4 DEF OneBotServerInv
<1> QED  BY <1>1, <1>4, <1>5

\* A subscriber of the SSE server is in a list of its own.
LEMMA SubscribeOK ==
  ASSUME OneBotServerInv, NEW c \in Client, Subscribe(c)
  PROVE  OneBotServerInv'
<1>1. /\ state[c] = "new" /\ state' = [state EXCEPT ![c] = "open"] /\ path' = [path EXCEPT ![c] = "sse"]
      /\ sseClients' = sseClients \cup {c}
      /\ UNCHANGED <<kind, serverEnabled, serverConfig, listening, beat, wsClients, wsClientWithEvent, changes>>
  BY DEF Subscribe
<1>2. ClientsListed'  BY <1>1 DEF OneBotServerInv, ClientsListed
<1>3. (\A l : Configured(l)' <=> Configured(l)) /\ Pace' = Pace  BY <1>1 DEF Configured, Pace
<1>4. HeartbeatIffListeners'  BY <1>1, <1>3 DEF OneBotServerInv, HeartbeatIffListeners
<1> QED  BY <1>1, <1>2, <1>3, <1>4 DEF OneBotServerInv

\* A late 'close' takes a client out of every list; the last listener stops the heartbeat.
LEMMA CloseOK ==
  ASSUME OneBotServerInv, NEW c \in Client, OnClientClose(c)
  PROVE  OneBotServerInv'
<1>1. /\ state' = [state EXCEPT ![c] = "closed"]
      /\ wsClients' = wsClients \ {c} /\ wsClientWithEvent' = wsClientWithEvent \ {c} /\ sseClients' = sseClients \ {c}
      /\ beat' = (IF path[c] \in {"sse", "none"} \/ wsClientWithEvent' # {} THEN beat ELSE 0)
      /\ UNCHANGED <<kind, serverEnabled, serverConfig, listening, path, changes>>
  BY DEF OnClientClose, BeatWithout
<1>2. ClientsListed'  BY <1>1 DEF OneBotServerInv, ClientsListed
<1>3. (\A l : Configured(l)' <=> Configured(l)) /\ Pace' = Pace  BY <1>1 DEF Configured, Pace
<1>4. beat' = IF serverEnabled /\ wsClientWithEvent' # {} THEN Pace ELSE 0
  <2>1. CASE path[c] \in {"sse", "none"}
    <3>1. c \notin wsClientWithEvent  BY <2>1 DEF OneBotServerInv, ClientsListed
    <3>2. wsClientWithEvent' = wsClientWithEvent /\ beat' = beat  BY <1>1, <2>1, <3>1
    <3> QED  BY <3>2 DEF OneBotServerInv, HeartbeatIffListeners
  <2>2. CASE path[c] \notin {"sse", "none"} /\ wsClientWithEvent' # {}
    BY <1>1, <2>2 DEF OneBotServerInv, HeartbeatIffListeners
  <2>3. CASE path[c] \notin {"sse", "none"} /\ wsClientWithEvent' = {}
    BY <1>1, <2>3
  <2> QED  BY <2>1, <2>2, <2>3
<1>5. HeartbeatIffListeners'  BY <1>1, <1>3, <1>4 DEF HeartbeatIffListeners
<1>6. beat' \in HeartInterval \cup {0, HttpBeat} /\ (~serverEnabled => wsClientWithEvent' = {})
  BY <1>1, <1>4, PaceIsOne DEF OneBotServerInv
<1> QED  BY <1>1, <1>2, <1>3, <1>5, <1>6 DEF OneBotServerInv

\* Everyone in the list is hung up on: nobody who is still open is left unknown.
LEMMA AllHungUp ==
  ASSUME OneBotServerInv, state' = HungUp, wsClients' = {}, wsClientWithEvent' = {},
         path' = path, sseClients' = sseClients
  PROVE  ClientsListed'
<1>1. \A c \in Client : state'[c] = IF c \in wsClients THEN "closing" ELSE state[c]  BY DEF HungUp
<1>2. state' \in [Client -> {"new", "open", "closing", "closed"}]
  BY DEF HungUp, OneBotServerInv, ClientsListed
<1>3. \A c \in Client : state'[c] = "open" => path'[c] = "sse"
  BY <1>1 DEF OneBotServerInv, ClientsListed
<1>4. \A c \in sseClients : c \in Client /\ c \notin wsClients /\ state[c] = "open" /\ path[c] = "sse"
  BY DEF OneBotServerInv, ClientsListed
<1>5. \A c \in sseClients' : state'[c] = "open" /\ path'[c] = "sse"  BY <1>1, <1>4
<1>6. path' \in [Client -> {"none", "event", "api", "sse"}] /\ sseClients' \subseteq Client
  BY DEF OneBotServerInv, ClientsListed
<1> QED  BY <1>2, <1>3, <1>5, <1>6 DEF ClientsListed

\* A server that is turned off has nobody left.
LEMMA DisableOK ==
  ASSUME OneBotServerInv, Disable
  PROVE  OneBotServerInv'
<1>1. /\ serverEnabled' = FALSE /\ listening' = {} /\ beat' = 0 /\ state' = HungUp
      /\ wsClients' = {} /\ wsClientWithEvent' = {} /\ changes < MaxChange /\ changes' = changes + 1
      /\ UNCHANGED <<kind, serverConfig, path, sseClients>>
  BY DEF Disable
<1>2. ClientsListed'  BY <1>1, AllHungUp
<1>3. changes' \in 0..MaxChange /\ changes' # 0  BY <1>1, OneBotServerAssumption DEF OneBotServerInv
<1>4. HeartbeatIffListeners'  BY <1>1 DEF HeartbeatIffListeners
<1> QED  BY <1>1, <1>2, <1>3, <1>4 DEF OneBotServerInv

\* After a change of the configuration the server listens where it now says,
\* and its heartbeat has the new pace.
LEMMA ReloadOK ==
  ASSUME OneBotServerInv, reloadServer
  PROVE  OneBotServerInv'
<1>1. PICK new : /\ new \in ServerConfig /\ serverEnabled /\ changes < MaxChange
                 /\ serverConfig' = new /\ changes' = changes + 1
                 /\ UNCHANGED <<kind, serverEnabled, path, sseClients>>
                 /\ IF Rebinds(new) THEN Rebind(new)
                    ELSE beat' = Paced(new) /\ UNCHANGED <<listening, state, wsClients, wsClientWithEvent>>
  BY DEF reloadServer
<1>2. changes' \in 0..MaxChange /\ serverConfig' \in ServerConfig /\ serverEnabled' /\ serverEnabled' \in BOOLEAN
      /\ kind' \in Kind
  BY <1>1, OneBotServerAssumption DEF OneBotServerInv
<1>3. CASE Rebinds(new)
  <2>1. /\ listening' = Reopened(new) /\ beat' = 0 /\ state' = HungUp /\ wsClients' = {} /\ wsClientWithEvent' = {}
    BY <1>1, <1>3 DEF Rebind
  <2>2. ClientsListed'  BY <1>1, <2>1, AllHungUp
  <2>3. PICK l : l = <<new.port, new.host, IF kind = "ws" THEN TRUE ELSE new.websocket>>  OBVIOUS
  <2>4. listening' = {l}  BY <2>1, <2>3 DEF Reopened
  <2>5. l \in Address  BY <1>1, <2>3 DEF ServerConfig, Address
  <2>6. l[1] = new.port /\ (kind = "ws" => l[2] = new.host) /\ (kind # "ws" => l[3] = new.websocket)
    BY <2>3
  <2>7. Configured(l)'  BY <1>1, <2>5, <2>6 DEF Configured
  <2>8. HeartbeatIffListeners'  BY <2>1 DEF HeartbeatIffListeners
  <2> QED  BY <1>2, <2>1, <2>2, <2>4, <2>5, <2>7, <2>8 DEF OneBotServerInv
<1>4. CASE ~Rebinds(new)
  <2>1. beat' = Paced(new) /\ UNCHANGED <<listening, state, wsClients, wsClientWithEvent>>  BY <1>1, <1>4
  <2>2. ClientsListed'  BY <1>1, <2>1 DEF OneBotServerInv, ClientsListed
  <2>3. \A l : Configured(l)' <=> Configured(l)  BY <1>1, <1>4 DEF Configured, Rebinds
  <2>4. Pace' = IF kind = "ws" THEN new.heart ELSE HttpBeat  BY <1>1 DEF Pace
  <2>5. beat = IF wsClientWithEvent # {} THEN Pace ELSE 0
    BY <1>1 DEF OneBotServerInv, HeartbeatIffListeners
  <2>6. beat' = IF wsClientWithEvent # {} THEN Pace' ELSE 0
    BY <2>1, <2>4, <2>5 DEF Paced, Repaced, Pace
  <2>7. HeartbeatIffListeners'  BY <1>2, <2>1, <2>6 DEF HeartbeatIffListeners
  <2>8. beat' \in HeartInterval \cup {0, HttpBeat}  BY <1>1, <2>4, <2>6 DEF ServerConfig
  <2> QED  BY <1>1, <1>2, <2>1, <2>2, <2>3, <2>7, <2>8 DEF OneBotServerInv
<1> QED  BY <1>3, <1>4

\* Every step keeps the lists, the heartbeat and the address in step.
LEMMA ServerStepOK == OneBotServerInv /\ [OneBotServerNext]_osvars => OneBotServerInv'
<1> SUFFICES ASSUME OneBotServerInv, [OneBotServerNext]_osvars PROVE OneBotServerInv'
  OBVIOUS
<1>1. CASE openServer  BY <1>1, OpenOK
<1>2. CASE Disable  BY <1>2, DisableOK
<1>3. CASE reloadServer  BY <1>3, ReloadOK
<1>4. ASSUME NEW c \in Client, ClientConnects(c) PROVE OneBotServerInv'  BY <1>4, ConnectOK
<1>5. ASSUME NEW c \in Client, Subscribe(c) PROVE OneBotServerInv'  BY <1>5, SubscribeOK
<1>6. ASSUME NEW c \in Client, OnClientClose(c) PROVE OneBotServerInv'  BY <1>6, CloseOK
<1>7. CASE UNCHANGED osvars
  <2>1. ClientsListed'  BY <1>7 DEF osvars, lists, OneBotServerInv, ClientsListed
  <2>2. (\A l : Configured(l)' <=> Configured(l)) /\ Pace' = Pace  BY <1>7 DEF osvars, Configured, Pace
  <2>3. HeartbeatIffListeners'  BY <1>7, <2>2 DEF osvars, OneBotServerInv, HeartbeatIffListeners
  <2> QED  BY <1>7, <2>1, <2>2, <2>3 DEF osvars, OneBotServerInv
<1> QED  BY <1>1, <1>2, <1>3, <1>4, <1>5, <1>6, <1>7 DEF OneBotServerNext

(***************************************************************************)
(* The heartbeat runs exactly for the clients that take events, every open *)
(* WebSocket is in the lists, and an enabled server listens where it is    *)
(* configured, through late close events and changes                       *)
(* (napcat-onebot/network/websocket-server.ts, http-server.ts and          *)
(* http-server-sse.ts).                                                    *)
(***************************************************************************)
THEOREM ServersFollowTheirClients == OneBotServerSpec => []OneBotServerSafe
<1>1. OneBotServerInv => OneBotServerSafe
  <2> SUFFICES ASSUME OneBotServerInv PROVE OneBotServerSafe
    OBVIOUS
  <2>1. listening \subseteq Address /\ (listening = {} \/ \E l : listening = {l})
    BY DEF OneBotServerInv
  <2>2. Cardinality(listening) <= 1
    <3>1. CASE listening = {}  BY <3>1, FS_EmptySet
    <3>2. CASE \E l : listening = {l}  BY <3>2, FS_Singleton
    <3> QED  BY <2>1, <3>1, <3>2
  <2>3. wsClients \subseteq Open /\ sseClients \subseteq {c \in Open : path[c] = "sse"}
    BY DEF OneBotServerInv, ClientsListed, Open
  <2>4. OneBotServerTypeOK
    BY <2>1, <2>2, <2>3 DEF OneBotServerInv, ClientsListed, OneBotServerTypeOK, Address
  <2>5. NoUnknownClient  BY DEF OneBotServerInv, ClientsListed, NoUnknownClient, Open
  <2>6. ListensWhereConfigured  BY DEF OneBotServerInv, ListensWhereConfigured, Configured
  <2> QED  BY <2>4, <2>5, <2>6 DEF OneBotServerInv, OneBotServerSafe
<1> QED  BY <1>1, ServerInitOK, ServerStepOK, PTL DEF OneBotServerSpec

----------------------------------------------------------------------------
(* Every OneBot request gets one final answer and nothing after it, and a  *)
(* stream that ends well at its asker is whole and in order, for any       *)
(* requests, sockets, chunks and connections.                              *)

Asked == [st : {"unasked", "running", "done"}, via : Via, from : Asker \cup 0..MaxReconnect,
          kind : Rejected \cup {"plain", "stream"}]
Delivery == Packet \cup Final

WholeStream(q, g) ==
  g # <<>> /\ q.kind = "stream" /\ g[Len(g)].what = "ok" /\ g[Len(g)].at = "home"
    /\ (\A k \in 1..Len(g) : g[k].at # "elsewhere")
  => /\ Len(g) = g[Len(g)].n + 2
     /\ \A k \in 1..(Len(g) - 1) : g[k].n = k - 1

(* What is so of a request q, what its action has sent (s), what reached   *)
(* somebody (g), and whether its asker left: until it ends only packets go *)
(* out, and while the asker is there each one reaches somebody.            *)
InGoodOrder(q, s, g, left) ==
  /\ q.st = "unasked" => g = <<>> /\ s = 0 /\ ~left
  /\ q.st # "done" => \A k \in 1..Len(g) : ~IsFinal(g[k])
  /\ \A k \in 1..Len(g) : IsFinal(g[k]) => k = Len(g)
  /\ s > 0 => q.kind = "stream"
  /\ q.st = "running" /\ ~left => Len(g) = s /\ \A k \in 1..Len(g) : g[k].n = k - 1
  /\ WholeStream(q, g)

ApiInv ==
  /\ askers \subseteq Asker /\ link \in [number : 0..MaxReconnect, up : BOOLEAN] /\ gone \subseteq Request
  /\ request \in [Request -> Asked] /\ sent \in [Request -> 0..(Chunks + 1)]
  /\ got \in [Request -> Seq(Delivery)]
  /\ \A r \in Request : InGoodOrder(request[r], sent[r], got[r], r \in gone)

-----------------------------------------------------------------------------
(* Deliveries                                                              *)

\* One more delivery leaves the ones before it where they are.
LEMMA OneMoreDelivery ==
  ASSUME NEW g \in Seq(Delivery), NEW p \in Delivery
  PROVE  /\ Append(g, p) \in Seq(Delivery) /\ Len(g) \in Nat /\ Len(Append(g, p)) = Len(g) + 1
         /\ Append(g, p)[Len(g) + 1] = p
         /\ \A k \in 1..Len(g) : Append(g, p)[k] = g[k] /\ g[k] \in Delivery
         /\ \A k \in 1..Len(Append(g, p)) : k \in 1..Len(g) \/ k = Len(g) + 1
         /\ Append(g, p) # <<>>
<1>1. Len(g) \in Nat /\ \A k \in 1..Len(g) : g[k] \in Delivery  BY LenProperties, ElementOfSeq
<1>2. /\ Append(g, p) \in Seq(Delivery) /\ Len(Append(g, p)) = Len(g) + 1
      /\ Append(g, p)[Len(g) + 1] = p /\ \A k \in 1..Len(g) : Append(g, p)[k] = g[k]
  BY AppendProperties
<1>3. Append(g, p) # <<>>  BY <1>1, <1>2, EmptySeq
<1> QED  BY <1>1, <1>2, <1>3

\* A packet keeps a running stream in order.
LEMMA PacketKeepsOrder ==
  ASSUME NEW q \in Asked, NEW s \in 0..Chunks, NEW g \in Seq(Delivery), NEW left \in BOOLEAN,
         NEW p \in Packet, q.st = "running", q.kind = "stream", InGoodOrder(q, s, g, left), p.n = s
  PROVE  /\ InGoodOrder(q, s + 1, Append(g, p), left)
         /\ left => InGoodOrder(q, s + 1, g, left)
<1>1. PICK h : h = Append(g, p)  OBVIOUS
<1>2. p \in Delivery /\ p.what = "packet"  BY DEF Delivery, Packet
<1>3. /\ h \in Seq(Delivery) /\ Len(g) \in Nat /\ Len(h) = Len(g) + 1 /\ h[Len(g) + 1] = p
      /\ \A k \in 1..Len(g) : h[k] = g[k]
      /\ \A k \in 1..Len(h) : k \in 1..Len(g) \/ k = Len(g) + 1
  BY <1>1, <1>2, OneMoreDelivery
<1>4. \A k \in 1..Len(h) : ~IsFinal(h[k])
  BY <1>2, <1>3 DEF InGoodOrder, IsFinal
<1>5. ~left => Len(h) = s + 1 /\ \A k \in 1..Len(h) : h[k].n = k - 1
  BY <1>3 DEF InGoodOrder
<1>6. h[Len(h)].what = "packet"  BY <1>2, <1>3
<1>7. InGoodOrder(q, s + 1, h, left)
  BY <1>4, <1>5, <1>6 DEF InGoodOrder, WholeStream, Asked
<1>8. left => InGoodOrder(q, s + 1, g, left)  BY DEF InGoodOrder
<1> QED  BY <1>1, <1>7, <1>8

\* The final answer ends the request; an asker that left is told nothing.
LEMMA FinalKeepsOrder ==
  ASSUME NEW q \in Asked, NEW d \in Asked, NEW s \in 0..(Chunks + 1), NEW g \in Seq(Delivery),
         NEW left \in BOOLEAN, NEW p \in Final,
         q.st = "running", InGoodOrder(q, s, g, left), d.st = "done", d.kind = q.kind,
         p.what = "ok" => p.n = s - 1
  PROVE  /\ InGoodOrder(d, s, g, left)
         /\ ~left => InGoodOrder(d, s, Append(g, p), left)
<1>1. PICK h : h = Append(g, p)  OBVIOUS
<1>2. p \in Delivery  BY DEF Delivery
<1>3. /\ h \in Seq(Delivery) /\ Len(g) \in Nat /\ Len(h) = Len(g) + 1 /\ h[Len(g) + 1] = p
      /\ \A k \in 1..Len(g) : h[k] = g[k] /\ g[k] \in Delivery
      /\ \A k \in 1..Len(h) : k \in 1..Len(g) \/ k = Len(g) + 1
  BY <1>1, <1>2, OneMoreDelivery
<1>4. g # <<>> => Len(g) \in 1..Len(g)  BY <1>3, EmptySeq
<1>5. WholeStream(d, g)
  BY <1>4 DEF InGoodOrder, WholeStream, IsFinal
<1>6. InGoodOrder(d, s, g, left)
  BY <1>5 DEF InGoodOrder
<1>7. ASSUME ~left PROVE InGoodOrder(d, s, h, left)
  <2>1. \A k \in 1..Len(h) : IsFinal(h[k]) => k = Len(h)
    BY <1>3 DEF InGoodOrder
  <2>2. Len(g) = s /\ \A k \in 1..Len(g) : g[k].n = k - 1  BY <1>7 DEF InGoodOrder
  <2>3. ASSUME h[Len(h)].what = "ok"
        PROVE  Len(h) = h[Len(h)].n + 2 /\ \A k \in 1..(Len(h) - 1) : h[k].n = k - 1
    <3>1. p.n = s - 1 /\ h[Len(h)] = p  BY <1>3, <2>3
    <3>2. Len(h) = p.n + 2  BY <3>1, <1>3, <2>2
    <3>3. \A k \in 1..(Len(h) - 1) : k \in 1..Len(g)  BY <1>3
    <3> QED  BY <3>1, <3>2, <3>3, <1>3, <2>2
  <2>4. WholeStream(d, h)  BY <2>3 DEF WholeStream
  <2> QED  BY <2>1, <2>4 DEF InGoodOrder
<1> QED  BY <1>1, <1>6, <1>7

-----------------------------------------------------------------------------
(* Steps                                                                   *)

\* Nothing is asked or answered at the start.
LEMMA ApiInitOK == ApiInit => ApiInv
<1> SUFFICES ASSUME ApiInit PROVE ApiInv
  OBVIOUS
<1>1. <<>> \in Seq(Delivery) /\ Len(<<>>) = 0  BY EmptySeq
<1>2. Unasked \in Asked /\ Unasked.st = "unasked"  BY ApiAssumption DEF Unasked, Asked, Via, Rejected
<1>3. \A k \in 1..Len(<<>>) : FALSE  BY <1>1
<1>4. InGoodOrder(Unasked, 0, <<>>, FALSE)
  BY <1>2, <1>3 DEF InGoodOrder, WholeStream
<1>5. \A r \in Request : request[r] = Unasked /\ sent[r] = 0 /\ got[r] = <<>> /\ ~(r \in gone)
  BY DEF ApiInit
<1>6. \A r \in Request : InGoodOrder(request[r], sent[r], got[r], r \in gone)
  <2> SUFFICES ASSUME NEW r \in Request PROVE InGoodOrder(request[r], sent[r], got[r], r \in gone)
    OBVIOUS
  <2>1. (r \in gone) = FALSE  BY <1>5
  <2> QED  BY <1>4, <1>5, <2>1
<1>7. request \in [Request -> Asked] /\ sent \in [Request -> 0..(Chunks + 1)] /\ got \in [Request -> Seq(Delivery)]
  BY <1>1, <1>2, ApiAssumption DEF ApiInit
<1> QED  BY <1>6, <1>7, ApiAssumption DEF ApiInit, ApiInv

\* A step about one request changes nothing of the others.
LEMMA OneRequest ==
  ASSUME ApiInv, NEW r \in Request, NEW q \in Asked, NEW s \in 0..(Chunks + 1), NEW g \in Seq(Delivery),
         request' = [request EXCEPT ![r] = q], sent' = [sent EXCEPT ![r] = s],
         got' = [got EXCEPT ![r] = g], UNCHANGED <<askers, link, gone>>,
         InGoodOrder(q, s, g, r \in gone)
  PROVE  ApiInv'
<1>1. \A o \in Request : /\ request'[o] = IF o = r THEN q ELSE request[o]
                         /\ sent'[o] = IF o = r THEN s ELSE sent[o]
                         /\ got'[o] = IF o = r THEN g ELSE got[o]
  BY DEF ApiInv
<1>2. /\ request' \in [Request -> Asked] /\ sent' \in [Request -> 0..(Chunks + 1)]
      /\ got' \in [Request -> Seq(Delivery)]
  BY DEF ApiInv
<1>3. ASSUME NEW o \in Request PROVE InGoodOrder(request'[o], sent'[o], got'[o], o \in gone')
  <2>1. CASE o = r  BY <1>1, <2>1
  <2>2. CASE o # r  BY <1>1, <2>2 DEF ApiInv
  <2> QED  BY <2>1, <2>2
<1> QED  BY <1>2, <1>3 DEF ApiInv

\* What a request says, an action that ends it, and what it has sent.
LEMMA Records ==
  ASSUME ApiInv, NEW r \in Request
  PROVE  /\ request[r] \in Asked /\ sent[r] \in 0..(Chunks + 1) /\ got[r] \in Seq(Delivery)
         /\ InGoodOrder(request[r], sent[r], got[r], r \in gone)
         /\ \E d \in Asked : /\ d = [request[r] EXCEPT !.st = "done"]
                             /\ d.st = "done" /\ d.kind = request[r].kind
         /\ \A q : [request EXCEPT ![r].st = q] = [request EXCEPT ![r] = [request[r] EXCEPT !.st = q]]
         /\ request = [request EXCEPT ![r] = request[r]] /\ got = [got EXCEPT ![r] = got[r]]
         /\ sent = [sent EXCEPT ![r] = sent[r]]
<1>1. request[r] \in Asked /\ sent[r] \in 0..(Chunks + 1) /\ got[r] \in Seq(Delivery)
  BY DEF ApiInv
<1>2. PICK q : q = request[r] /\ q \in Asked  BY <1>1
<1>3. PICK d : d = [q EXCEPT !.st = "done"]  OBVIOUS
<1>4. d \in Asked /\ d.st = "done" /\ d.kind = q.kind  BY <1>2, <1>3 DEF Asked
<1> QED  BY <1>1, <1>2, <1>3, <1>4 DEF ApiInv

\* A request is turned down at once, or its action begins.
LEMMA AskOK ==
  ASSUME ApiInv, NEW r \in Request, Ask(r)
  PROVE  ApiInv'
<1>1. request[r] = Unasked /\ InGoodOrder(Unasked, sent[r], got[r], r \in gone)
  BY Records DEF Ask
<1>2. got[r] = <<>> /\ sent[r] = 0 /\ r \notin gone
  BY <1>1 DEF InGoodOrder, Unasked
<1>3. PICK via, sort, from :
        /\ via \in Via /\ sort \in Rejected \cup {"plain", "stream"}
        /\ from \in (CASE via = "server" -> askers
                       [] via = "client" -> IF link.up THEN {link.number} ELSE {}
                       [] OTHER -> {0})
        /\ request' = [request EXCEPT ![r] =
             [st |-> IF sort \in Rejected THEN "done" ELSE "running", via |-> via, from |-> from, kind |-> sort]]
        /\ got' = IF sort \in Rejected
                  THEN [got EXCEPT ![r] = <<[what |-> "failed", n |-> -1, at |-> "home"]>>] ELSE got
        /\ UNCHANGED <<askers, link, sent, gone>>
  BY DEF Ask
<1>4. from \in Asker \cup 0..MaxReconnect
  BY <1>3, ApiAssumption DEF ApiInv, Via
<1>5. PICK q : q = [st |-> IF sort \in Rejected THEN "done" ELSE "running", via |-> via, from |-> from, kind |-> sort]
  OBVIOUS
<1>6. q \in Asked /\ q.kind = sort /\ q.st = IF sort \in Rejected THEN "done" ELSE "running"
  BY <1>3, <1>4, <1>5 DEF Asked
<1>7. PICK f : f = [what |-> "failed", n |-> -1, at |-> "home"]  OBVIOUS
<1>8. f \in Final /\ f.what = "failed"  BY <1>7, ApiAssumption DEF Final
<1>9. PICK g : g = IF sort \in Rejected THEN <<f>> ELSE <<>>  OBVIOUS
<1>10. g \in Seq(Delivery) /\ InGoodOrder(q, 0, g, FALSE)
  <2>1. /\ <<f>> \in Seq(Delivery) /\ Len(<<f>>) = 1 /\ <<f>>[1] = f
        /\ <<>> \in Seq(Delivery) /\ Len(<<>>) = 0
    BY <1>8, EmptySeq DEF Delivery
  <2>2. \A k \in 1..0 : FALSE  OBVIOUS
  <2>3. CASE sort \in Rejected
    <3>1. g = <<f>> /\ q.st = "done" /\ q.kind # "stream"  BY <2>3, <1>6, <1>9 DEF Rejected
    <3>2. \A k \in 1..Len(g) : k = Len(g)  BY <2>1, <3>1
    <3> QED  BY <2>1, <3>1, <3>2 DEF InGoodOrder, WholeStream
  <2>4. CASE sort \notin Rejected
    <3>1. g = <<>> /\ q.st = "running"  BY <2>4, <1>6, <1>9
    <3> QED  BY <2>1, <2>2, <3>1 DEF InGoodOrder, WholeStream
  <2> QED  BY <2>3, <2>4
<1>11. request' = [request EXCEPT ![r] = q] /\ got' = [got EXCEPT ![r] = g] /\ sent' = [sent EXCEPT ![r] = 0]
  BY <1>2, <1>3, <1>5, <1>7, <1>9, Records
<1>12. InGoodOrder(q, 0, g, r \in gone) /\ 0 \in 0..(Chunks + 1)
  <2>1. InGoodOrder(q, 0, g, r \in gone)  BY <1>2, <1>10 DEF InGoodOrder
  <2> QED  BY <2>1, ApiAssumption
<1> QED  BY <1>3, <1>6, <1>10, <1>11, <1>12, OneRequest

\* A packet is the next of its stream, or the stream breaks off.
LEMMA SendPacketOK ==
  ASSUME ApiInv, NEW r \in Request, SendPacket(r)
  PROVE  ApiInv'
<1> DEFINE q == request[r]  s == sent[r]  g == got[r]  left == r \in gone
<1>1. /\ q \in Asked /\ s \in 0..Chunks /\ g \in Seq(Delivery) /\ InGoodOrder(q, s, g, left)
      /\ q.st = "running" /\ q.kind = "stream" /\ left \in BOOLEAN /\ s + 1 \in 0..(Chunks + 1)
  BY Records, ApiAssumption DEF SendPacket
<1>2. UNCHANGED <<askers, link, gone>>  BY DEF SendPacket
<1>3. CASE Reachable(r)
  <2>1. PICK p, x : /\ p \in Packet /\ p.n = s
                    /\ x = Append(g, p) \/ (left /\ x = g)
                    /\ got' = [got EXCEPT ![r] = x]
    <3>1. CASE q.via = "sse"
      <4>1. PICK p : p = [what |-> "packet", n |-> s, at |-> "events"]  OBVIOUS
      <4>2. p \in Packet /\ p.n = s  BY <1>1, <4>1, ApiAssumption DEF Packet
      <4>3. got' = [got EXCEPT ![r] = Append(g, p)]  BY <4>1, <3>1, <1>3 DEF SendPacket, Index
      <4> QED  BY <4>2, <4>3
    <3>2. CASE q.via # "sse"
      <4>1. Home(r) \in {"home", "elsewhere"}  BY DEF Home
      <4>2. PICK p : p = [what |-> "packet", n |-> s, at |-> Home(r)]  OBVIOUS
      <4>3. p \in Packet /\ p.n = s  BY <1>1, <4>1, <4>2, ApiAssumption DEF Packet
      <4>4. got' = [got EXCEPT ![r] = IF left THEN g ELSE Append(g, p)]
        BY <4>2, <3>2, <1>3 DEF SendPacket, Index, Told
      <4> QED  BY <4>3, <4>4
    <3> QED  BY <3>1, <3>2
  <2>2. sent' = [sent EXCEPT ![r] = s + 1] /\ request' = [request EXCEPT ![r] = q]
    BY <1>3, Records DEF SendPacket
  <2>3. x \in Seq(Delivery) /\ InGoodOrder(q, s + 1, x, left)
    <3>1. p \in Delivery  BY <2>1 DEF Delivery
    <3> HIDE DEF q, s, g, left
    <3>2. InGoodOrder(q, s + 1, Append(g, p), left) /\ (left => InGoodOrder(q, s + 1, g, left))
      BY <1>1, <2>1, PacketKeepsOrder
    <3>3. Append(g, p) \in Seq(Delivery)  BY <1>1, <3>1, OneMoreDelivery
    <3> QED  BY <1>1, <2>1, <3>2, <3>3
  <2> QED  BY <1>1, <1>2, <2>1, <2>2, <2>3, OneRequest
<1>4. CASE ~Reachable(r)
  <2>1. PICK d \in Asked : d = [q EXCEPT !.st = "done"] /\ d.st = "done" /\ d.kind = q.kind
    BY Records
  <2>2. /\ request' = [request EXCEPT ![r] = d] /\ sent' = [sent EXCEPT ![r] = s]
        /\ got' = [got EXCEPT ![r] = g]
    BY <1>4, <2>1, Records DEF SendPacket
  <2>3. InGoodOrder(d, s, g, left) /\ s \in 0..(Chunks + 1)
    <3>1. PICK p : p = [what |-> "failed", n |-> -1, at |-> "home"]  OBVIOUS
    <3>2. p \in Final /\ p.what # "ok"  BY <3>1, ApiAssumption DEF Final
    <3>3. s \in 0..(Chunks + 1)  BY <1>1, ApiAssumption
    <3> HIDE DEF q, s, g, left
    <3>4. \A e \in Asked : e.st = "done" /\ e.kind = q.kind => InGoodOrder(e, s, g, left)
      BY <1>1, <3>2, <3>3, FinalKeepsOrder
    <3> QED  BY <2>1, <3>3, <3>4
  <2> QED  BY <1>1, <1>2, <2>1, <2>2, <2>3, OneRequest
<1> QED  BY <1>3, <1>4

\* The action ends, and its asker is told unless he cannot be reached.
LEMMA EndOK ==
  ASSUME ApiInv, NEW r \in Request, Answer(r) \/ Fail(r)
  PROVE  ApiInv'
<1> DEFINE q == request[r]  s == sent[r]  g == got[r]  left == r \in gone
<1>1. /\ q \in Asked /\ s \in 0..(Chunks + 1) /\ g \in Seq(Delivery) /\ InGoodOrder(q, s, g, left)
      /\ q.st = "running" /\ left \in BOOLEAN
  BY Records DEF Answer, Fail
<1>2. UNCHANGED <<askers, link, gone, sent>>  BY DEF Answer, Fail
<1>3. Home(r) \in {"home", "elsewhere"}  BY DEF Home
<1>4. PICK p, x : /\ p \in Final /\ (p.what = "ok" => p.n = s - 1)
                  /\ x = g \/ (~left /\ x = Append(g, p))
                  /\ got' = [got EXCEPT ![r] = x]
  <2>1. CASE Answer(r)
    <3>1. PICK p : p = [what |-> "ok", n |-> s - 1, at |-> Home(r)]  OBVIOUS
    <3>2. p \in Final /\ p.n = s - 1  BY <3>1, <1>1, <1>3, ApiAssumption DEF Final
    <3>3. got' = [got EXCEPT ![r] = IF Reachable(r) /\ ~left THEN Append(g, p) ELSE g]
      BY <2>1, <3>1, Records DEF Answer, Told
    <3> QED  BY <3>2, <3>3
  <2>2. CASE Fail(r)
    <3>1. PICK p : p = [what |-> "failed", n |-> -1, at |-> Home(r)]  OBVIOUS
    <3>2. p \in Final /\ p.what = "failed"  BY <3>1, <1>3, ApiAssumption DEF Final
    <3>3. got' = [got EXCEPT ![r] = IF Reachable(r) /\ ~left THEN Append(g, p) ELSE g]
      BY <2>2, <3>1, Records DEF Fail, AnswersFailure, Told
    <3> QED  BY <3>2, <3>3
  <2> QED  BY <2>1, <2>2
<1>5. PICK d \in Asked : d = [q EXCEPT !.st = "done"] /\ d.st = "done" /\ d.kind = q.kind
  BY Records
<1>6. request' = [request EXCEPT ![r] = d] /\ sent' = [sent EXCEPT ![r] = s]
  BY <1>2, <1>5, Records DEF Answer, Fail, Ended
<1>7. x \in Seq(Delivery) /\ InGoodOrder(d, s, x, left)
  <2>1. p \in Delivery  BY <1>4 DEF Delivery
  <2> HIDE DEF q, s, g, left
  <2>2. InGoodOrder(d, s, g, left) /\ (~left => InGoodOrder(d, s, Append(g, p), left))
    <3>1. \A e \in Asked : e.st = "done" /\ e.kind = q.kind =>
            InGoodOrder(e, s, g, left) /\ (~left => InGoodOrder(e, s, Append(g, p), left))
      BY <1>1, <1>4, FinalKeepsOrder
    <3> QED  BY <1>5, <3>1
  <2>3. Append(g, p) \in Seq(Delivery)  BY <1>1, <2>1, OneMoreDelivery
  <2> QED  BY <1>1, <1>4, <2>2, <2>3
<1> QED  BY <1>1, <1>2, <1>4, <1>5, <1>6, <1>7, OneRequest

\* Every step keeps the requests in good order.
LEMMA ApiStepOK == ApiInv /\ [ApiNext]_apivars => ApiInv'
<1> SUFFICES ASSUME ApiInv, [ApiNext]_apivars PROVE ApiInv'
  OBVIOUS
<1>1. ASSUME NEW r \in Request, Ask(r) PROVE ApiInv'  BY <1>1, AskOK
<1>2. ASSUME NEW r \in Request, SendPacket(r) PROVE ApiInv'  BY <1>2, SendPacketOK
<1>3. ASSUME NEW r \in Request, Answer(r) \/ Fail(r) PROVE ApiInv'  BY <1>3, EndOK
<1>4. ASSUME NEW r \in Request, Leave(r) PROVE ApiInv'
  <2>1. /\ UNCHANGED <<askers, link, request, sent, got>> /\ gone' = gone \cup {r}
        /\ request[r].st = "running"
    BY <1>4 DEF Leave
  <2>2. ASSUME NEW o \in Request PROVE InGoodOrder(request[o], sent[o], got[o], o \in gone')
    <3>1. InGoodOrder(request[o], sent[o], got[o], o \in gone)  BY DEF ApiInv
    <3>2. CASE o # r
      <4>1. (o \in gone') = (o \in gone)  BY <2>1, <3>2
      <4> QED  BY <3>1, <4>1
    <3>3. CASE o = r
      <4>1. (o \in gone') = TRUE  BY <2>1, <3>3
      <4>2. InGoodOrder(request[o], sent[o], got[o], TRUE)  BY <3>1, <3>3, <2>1 DEF InGoodOrder
      <4> QED  BY <4>1, <4>2
    <3> QED  BY <3>2, <3>3
  <2> QED  BY <2>1, <2>2 DEF ApiInv
<1>5. CASE (\E c \in Asker : CloseSocket(c)) \/ LoseLink \/ Reconnect
  <2>1. UNCHANGED <<request, sent, gone, got>>  BY <1>5 DEF CloseSocket, LoseLink, Reconnect
  <2>2. askers' \subseteq Asker  BY <1>5 DEF CloseSocket, LoseLink, Reconnect, ApiInv
  <2>3. link' \in [number : 0..MaxReconnect, up : BOOLEAN]
    <3>1. PICK k, n : /\ k = link /\ n = link.number /\ n \in 0..MaxReconnect
                      /\ k \in [number : 0..MaxReconnect, up : BOOLEAN]
      BY DEF ApiInv
    <3>2. CASE \E c \in Asker : CloseSocket(c)  BY <3>1, <3>2 DEF CloseSocket
    <3>3. CASE LoseLink
      <4>1. link' = [k EXCEPT !.up = FALSE]  BY <3>1, <3>3 DEF LoseLink
      <4> QED  BY <3>1, <4>1
    <3>4. CASE Reconnect
      <4>1. link' = [number |-> n + 1, up |-> TRUE] /\ n < MaxReconnect  BY <3>1, <3>4 DEF Reconnect
      <4> QED  BY <3>1, <4>1, ApiAssumption
    <3> QED  BY <1>5, <3>2, <3>3, <3>4
  <2> QED  BY <2>1, <2>2, <2>3 DEF ApiInv
<1>6. CASE UNCHANGED apivars  BY <1>6 DEF apivars, ApiInv
<1> QED  BY <1>1, <1>2, <1>3, <1>4, <1>5, <1>6 DEF ApiNext

\* Requests in good order are what was promised.
LEMMA GoodOrderIsSafe == ApiInv => ApiSafe
<1> SUFFICES ASSUME ApiInv PROVE ApiSafe
  OBVIOUS
<1>1. ASSUME NEW r \in Request
      PROVE  /\ \A k \in 1..Len(got[r]) : got[r][k] \in Delivery
             /\ request[r].st \in {"unasked", "running", "done"}
             /\ \A k \in 1..Len(got[r]) : IsFinal(got[r][k]) => k = Len(got[r]) /\ request[r].st = "done"
             /\ sent[r] > 0 => request[r].kind = "stream"
             /\ WholeStream(request[r], got[r])
  BY Records, ElementOfSeq DEF InGoodOrder, Asked
<1>2. ApiTypeOK  BY <1>1 DEF ApiInv, ApiTypeOK, Asked, Delivery
<1>3. FinalIsLast  BY <1>1 DEF FinalIsLast
<1>4. StreamIsWhole  BY <1>1 DEF StreamIsWhole, WholeStream
<1> QED  BY <1>2, <1>3, <1>4 DEF ApiSafe

(***************************************************************************)
(* The final answer to a request is sent once and last, and a stream that  *)
(* ends well at its asker is whole and in order, over sockets that close   *)
(* and connections made anew (OneBotAction.ts, action/stream, and the      *)
(* websocket and http adapters).                                           *)
(***************************************************************************)
THEOREM AnswersEndRequests == ApiSpec => []ApiSafe
<1> QED  BY ApiInitOK, ApiStepOK, GoodOrderIsSafe, PTL DEF ApiSpec

----------------------------------------------------------------------------
(* After every change of the configuration exactly the enabled entries of  *)
(* the names that are not tangled run, for any names, settings and number  *)
(* of classes.                                                             *)

\* What reloadNetwork makes of an adapter (a), class after class, for the
\* first m classes.
Reload(f, a, prev, now, n, m) ==
  f = [k \in 0..m |-> IF k = 0 THEN a ELSE Applied(now, k, n, Recycled(prev, now, k, n, f[k - 1]))]

(* What runs once the first m classes had their turn: the new entry if its *)
(* class had, and until then the old one unless its class had.             *)
Reached(x, a, prev, now, n, m) ==
  /\ \A k \in ClassesOf(now, n) : k <= m =>
       x = IF now[k][n].enable THEN [class |-> k, config |-> now[k][n]] ELSE NoAdapter
  /\ (\A k \in ClassesOf(now, n) : k > m) =>
       x = IF \E j \in ClassesOf(prev, n) : j <= m THEN NoAdapter ELSE a

AtMostOne(conf, n) == \A j, k \in ClassesOf(conf, n) : j = k

\* What runs is as configured, and a name that is not tangled is in one class.
OneBotConfigInv ==
  /\ OneBotConfigSafe
  /\ \A n \in Name \ tangled : AtMostOne(configData, n)

-----------------------------------------------------------------------------
(* Names and classes                                                       *)

\* A set of natural numbers that is not empty has a least element.
LEMMA Least ==
  ASSUME NEW T, T \subseteq Nat, T # {}
  PROVE  \E x \in T : \A y \in T : x <= y
<1>1. PICK R : IsWellFoundedOn(R, Nat) /\ \A x, y \in Nat : <<y, x>> \in R <=> y < x
  <2>1. IsWellFoundedOn(OpToRel(<, Nat), Nat)  BY NatLessThanWellFounded
  <2>2. \A x, y \in Nat : <<y, x>> \in OpToRel(<, Nat) <=> y < x  BY DEF OpToRel
  <2> QED  BY <2>1, <2>2
<1>2. PICK x \in T : \A y \in T : <<y, x>> \notin R
  BY <1>1, WFMin
<1>3. ASSUME NEW y \in T PROVE x <= y
  <2>1. x \in Nat /\ y \in Nat  OBVIOUS
  <2>2. ~(y < x)  BY <2>1, <1>1, <1>2
  <2> QED  BY <2>1, <2>2
<1> QED  BY <1>3

\* A name is in finitely many classes.
LEMMA ClassesFinite ==
  ASSUME NEW conf, NEW n
  PROVE  IsFiniteSet(ClassesOf(conf, n)) /\ Cardinality(ClassesOf(conf, n)) \in Nat
<1>1. IsFiniteSet(Class) /\ ClassesOf(conf, n) \subseteq Class
  BY OneBotConfigAssumption, FS_Interval DEF Class, ClassesOf
<1> QED  BY <1>1, FS_Subset, FS_CardinalityType

\* A name that is in no more than one class has one class at most.
LEMMA OneClass ==
  ASSUME NEW conf, NEW n, Cardinality(ClassesOf(conf, n)) <= 1
  PROVE  AtMostOne(conf, n)
<1> DEFINE C == ClassesOf(conf, n)
<1>2. IsFiniteSet(C)  BY ClassesFinite
<1>3. ASSUME NEW j \in C, NEW k \in C, j # k PROVE FALSE
  <2>1. IsFiniteSet({}) /\ Cardinality({}) = 0  BY FS_EmptySet
  <2>2. IsFiniteSet({j}) /\ Cardinality({j}) = 1  BY FS_Singleton
  <2>3. Cardinality({j} \cup {k}) = 2  BY <2>2, <1>3, FS_AddElement
  <2>4. Cardinality({j} \cup {k}) <= Cardinality(C)  BY <1>2, FS_Subset
  <2>5. Cardinality(C) \in Nat  BY <1>2, FS_CardinalityType
  <2> QED  BY <2>3, <2>4, <2>5
<1> QED  BY <1>3 DEF AtMostOne

\* Who is registered for a name that is in one class at most.
LEMMA RegisteredIs ==
  ASSUME NEW conf \in Configuration, NEW n \in Name, AtMostOne(conf, n)
  PROVE  /\ \A k \in ClassesOf(conf, n) :
              Registered(conf, n) = IF conf[k][n].enable THEN [class |-> k, config |-> conf[k][n]] ELSE NoAdapter
         /\ ClassesOf(conf, n) = {} => Registered(conf, n) = NoAdapter
<1>1. LastEnabled(conf, n) \subseteq ClassesOf(conf, n)  BY DEF LastEnabled
<1>2. ASSUME NEW k \in ClassesOf(conf, n)
      PROVE  Registered(conf, n) = IF conf[k][n].enable THEN [class |-> k, config |-> conf[k][n]] ELSE NoAdapter
  <2>1. k \in Nat /\ \A j \in ClassesOf(conf, n) : j = k
    BY OneBotConfigAssumption DEF ClassesOf, Class, AtMostOne
  <2>2. CASE conf[k][n].enable
    <3>1. LastEnabled(conf, n) = {k}
      <4>1. k <= k  BY <2>1
      <4>2. k \in LastEnabled(conf, n)  BY <2>1, <2>2, <4>1 DEF LastEnabled
      <4>3. \A j \in LastEnabled(conf, n) : j = k  BY <1>1, <2>1
      <4> QED  BY <4>2, <4>3
    <3>2. (CHOOSE j \in {k} : TRUE) = k  OBVIOUS
    <3> QED  BY <2>2, <3>1, <3>2 DEF Registered
  <2>3. CASE ~conf[k][n].enable
    <3>1. LastEnabled(conf, n) = {}  BY <2>1, <2>3 DEF LastEnabled
    <3> QED  BY <2>3, <3>1 DEF Registered
  <2> QED  BY <2>2, <2>3
<1>3. ClassesOf(conf, n) = {} => Registered(conf, n) = NoAdapter  BY <1>1 DEF Registered
<1> QED  BY <1>2, <1>3

\* An entry of a class is one that says something.
LEMMA EntryOf ==
  ASSUME NEW conf \in Configuration, NEW n \in Name, NEW k \in ClassesOf(conf, n)
  PROVE  k \in Class /\ conf[k][n] \in Entry
  BY DEF Configuration, ClassesOf, Has

\* A registered adapter is that of a class, with its entry, which is enabled.
LEMMA RegisteredType ==
  ASSUME NEW conf \in Configuration, NEW n \in Name
  PROVE  /\ Registered(conf, n) \in Adapter \cup {NoAdapter}
         /\ Registered(conf, n) # NoAdapter => Registered(conf, n).config.enable
<1>1. CASE LastEnabled(conf, n) = {}  BY <1>1 DEF Registered
<1>2. CASE LastEnabled(conf, n) # {}
  <2>1. PICK k : k \in LastEnabled(conf, n) /\ Registered(conf, n) = [class |-> k, config |-> conf[k][n]]
    <3>1. PICK k : k = CHOOSE j \in LastEnabled(conf, n) : TRUE  OBVIOUS
    <3>2. k \in LastEnabled(conf, n)  BY <1>2, <3>1
    <3> QED  BY <1>2, <3>1, <3>2 DEF Registered
  <2>2. k \in Class /\ conf[k][n] \in Entry /\ conf[k][n].enable  BY <2>1, EntryOf DEF LastEnabled
  <2> QED  BY <2>1, <2>2 DEF Adapter
<1> QED  BY <1>1, <1>2

-----------------------------------------------------------------------------
(* A change, class after class                                             *)

\* The recursion of reloadNetwork defines a function.
LEMMA ReloadExists ==
  ASSUME NEW a, NEW prev, NEW now, NEW n, NEW c \in Nat
  PROVE  \E f : Reload(f, a, prev, now, n, c)
<1>1. PICK T : T = {m \in Nat : ~\E f : Reload(f, a, prev, now, n, m)}  OBVIOUS
<1>2. ASSUME T # {} PROVE FALSE
  <2>1. PICK m \in T : \A y \in T : m <= y  BY <1>1, <1>2, Least
  <2>2. m \in Nat /\ ~\E f : Reload(f, a, prev, now, n, m)  BY <1>1
  <2>3. CASE m = 0
    <3>1. Reload([k \in 0..0 |-> a], a, prev, now, n, 0)  BY DEF Reload
    <3> QED  BY <3>1, <2>2, <2>3
  <2>4. CASE m > 0
    <3>1. m - 1 \in Nat /\ m - 1 \notin T  BY <2>1, <2>2, <2>4
    <3>2. PICK f : Reload(f, a, prev, now, n, m - 1)  BY <3>1, <1>1
    <3>3. PICK g : g = [k \in 0..m |-> IF k = m THEN Applied(now, m, n, Recycled(prev, now, m, n, f[m - 1]))
                                       ELSE f[k]]
      OBVIOUS
    <3>4. ASSUME NEW k \in 0..m
          PROVE  g[k] = IF k = 0 THEN a ELSE Applied(now, k, n, Recycled(prev, now, k, n, g[k - 1]))
      <4>1. CASE k = 0
        <5>1. g[0] = f[0] /\ f[0] = a  BY <2>2, <2>4, <3>2, <3>3 DEF Reload
        <5> QED  BY <5>1, <4>1
      <4>2. CASE k = m
        <5>1. g[m - 1] = f[m - 1]  BY <2>2, <2>4, <3>3
        <5> QED  BY <5>1, <4>2, <2>2, <2>4, <3>3
      <4>3. CASE k # 0 /\ k # m
        <5>1. k \in 0..(m - 1) /\ k - 1 \in 0..(m - 1) /\ k - 1 # m /\ k - 1 \in 0..m  BY <4>3, <2>2
        <5>2. g[k] = f[k] /\ g[k - 1] = f[k - 1]  BY <5>1, <4>3, <3>3
        <5>3. f[k] = Applied(now, k, n, Recycled(prev, now, k, n, f[k - 1]))  BY <5>1, <4>3, <3>2 DEF Reload
        <5> QED  BY <5>2, <5>3, <4>3
      <4> QED  BY <4>1, <4>2, <4>3
    <3>5. Reload(g, a, prev, now, n, m)  BY <3>3, <3>4 DEF Reload
    <3> QED  BY <3>5, <2>2
  <2> QED  BY <2>2, <2>3, <2>4
<1> QED  BY <1>1, <1>2

\* After all classes had their turn, the new entry runs if it is enabled.
LEMMA AfterIs ==
  ASSUME NEW prev \in Configuration, NEW now \in Configuration, NEW n \in Name,
         AtMostOne(prev, n), AtMostOne(now, n), adapters[n] = Registered(prev, n),
         \A j \in ClassesOf(now, n), k \in ClassesOf(prev, n) : j >= k
  PROVE  After(prev, now, n) = Registered(now, n)
<1>1. Classes \in Nat /\ Classes \in 0..Classes  BY OneBotConfigAssumption
<1>2. PICK a : a = adapters[n]  OBVIOUS
<1>3. PICK f : Reload(f, a, prev, now, n, Classes) /\ After(prev, now, n) = f[Classes]
  <2> DEFINE g == CHOOSE g : Reload(g, a, prev, now, n, Classes)
  <2>1. \E f : Reload(f, a, prev, now, n, Classes)  BY <1>1, ReloadExists
  <2>2. Reload(g, a, prev, now, n, Classes)  BY <2>1
  <2>3. After(prev, now, n) = g[Classes]  BY <1>2 DEF After, Reload
  <2> QED  BY <2>2, <2>3
<1>4. /\ \A k \in ClassesOf(prev, n) : a = IF prev[k][n].enable THEN [class |-> k, config |-> prev[k][n]] ELSE NoAdapter
      /\ ClassesOf(prev, n) = {} => a = NoAdapter
  BY <1>2, RegisteredIs
<1>5. PICK T : T = {m \in 0..Classes : ~Reached(f[m], a, prev, now, n, m)}  OBVIOUS
<1>6. ASSUME T # {} PROVE FALSE
  <2>1. PICK m \in T : \A y \in T : m <= y
    <3>1. T \subseteq Nat  BY <1>1, <1>5
    <3> QED  BY <3>1, <1>6, Least
  <2>2. m \in 0..Classes /\ m \in Nat /\ ~Reached(f[m], a, prev, now, n, m)  BY <1>1, <1>5
  <2>3. f[m] = IF m = 0 THEN a ELSE Applied(now, m, n, Recycled(prev, now, m, n, f[m - 1]))
    BY <2>2, <1>3 DEF Reload
  <2>4. /\ \A k \in ClassesOf(now, n) : k \in Nat \ {0} /\ now[k][n] \in Entry
        /\ \A k \in ClassesOf(prev, n) : k \in Nat \ {0} /\ prev[k][n] \in Entry
    BY <1>1, EntryOf DEF Class
  <2>5. CASE m = 0
    <3>1. f[m] = a /\ (\A k \in ClassesOf(now, n) \cup ClassesOf(prev, n) : ~(k <= m))  BY <2>3, <2>4, <2>5
    <3> QED  BY <3>1, <2>2 DEF Reached
  <2>6. CASE m > 0
    <3>1. m - 1 \in 0..Classes /\ m - 1 \notin T /\ m \in Class  BY <2>1, <2>2, <2>6, <1>1 DEF Class
    <3>2. PICK x : x = f[m - 1] /\ Reached(x, a, prev, now, n, m - 1)  BY <3>1, <1>5
    <3>3. f[m] = Applied(now, m, n, Recycled(prev, now, m, n, x))  BY <2>3, <2>6, <3>2
    <3>4. /\ m \in ClassesOf(now, n) <=> Has(now, m, n)
          /\ m \in ClassesOf(prev, n) <=> Has(prev, m, n)
      BY <3>1 DEF ClassesOf
    <3>5. CASE Has(now, m, n)
      <4>1. \A k \in ClassesOf(now, n) : k = m  BY <3>4, <3>5 DEF AtMostOne
      <4>2. x = IF \E j \in ClassesOf(prev, n) : j <= m - 1 THEN NoAdapter ELSE a
        BY <4>1, <2>2, <3>2 DEF Reached
      <4>3. f[m] = IF x # NoAdapter THEN Reloaded(x, now[m][n])
                   ELSE IF now[m][n].enable THEN [class |-> m, config |-> now[m][n]] ELSE NoAdapter
        BY <3>3, <3>5 DEF Applied, Recycled
      <4>4. x # NoAdapter => \E c : x = [class |-> m, config |-> c]
        <5>1. SUFFICES ASSUME x # NoAdapter PROVE \E c : x = [class |-> m, config |-> c]
          OBVIOUS
        <5>2. x = a /\ ~\E j \in ClassesOf(prev, n) : j <= m - 1  BY <5>1, <4>2
        <5>3. PICK j : j \in ClassesOf(prev, n)  BY <5>1, <5>2, <1>4
        <5>4. j \in Nat /\ m >= j /\ ~(j <= m - 1)  BY <5>2, <5>3, <2>4, <3>4, <3>5
        <5>5. j = m  BY <5>4, <2>2
        <5>6. a = [class |-> m, config |-> prev[m][n]]  BY <5>1, <5>2, <5>3, <5>5, <1>4
        <5> QED  BY <5>2, <5>6
      <4>5. x # NoAdapter => Reloaded(x, now[m][n]) = IF now[m][n].enable THEN [class |-> m, config |-> now[m][n]] ELSE NoAdapter
        BY <4>4 DEF Reloaded
      <4>6. f[m] = IF now[m][n].enable THEN [class |-> m, config |-> now[m][n]] ELSE NoAdapter
        BY <4>3, <4>5
      <4> QED  BY <4>1, <4>6, <2>2, <3>4, <3>5 DEF Reached
    <3>6. CASE ~Has(now, m, n)
      <4>1. f[m] = IF Has(prev, m, n) THEN NoAdapter ELSE x  BY <3>3, <3>6 DEF Applied, Recycled
      <4>2. \A k \in ClassesOf(now, n) : k # m  BY <3>4, <3>6
      <4>3. CASE \E k \in ClassesOf(now, n) : k <= m
        <5>1. PICK k \in ClassesOf(now, n) : k <= m /\ \A j \in ClassesOf(now, n) : j = k
          BY <4>3 DEF AtMostOne
        <5>2. k \in Nat /\ k <= m - 1 /\ k < m  BY <5>1, <4>2, <2>2, <2>4
        <5>3. ~Has(prev, m, n)
          <6>1. m \in ClassesOf(prev, n) => k >= m  BY <5>1
          <6> QED  BY <6>1, <5>2, <3>4, <2>2
        <5>4. f[m] = IF now[k][n].enable THEN [class |-> k, config |-> now[k][n]] ELSE NoAdapter
          BY <4>1, <5>1, <5>2, <5>3, <3>2 DEF Reached
        <5>5. ~(k > m)  BY <5>2, <2>2
        <5> QED  BY <5>1, <5>4, <5>5, <2>2 DEF Reached
      <4>4. CASE \A k \in ClassesOf(now, n) : ~(k <= m)
        <5>1. \A k \in ClassesOf(now, n) : k > m - 1 /\ k > m  BY <4>4, <2>2, <2>4
        <5>2. x = IF \E j \in ClassesOf(prev, n) : j <= m - 1 THEN NoAdapter ELSE a  BY <5>1, <3>2 DEF Reached
        <5>3. (\E j \in ClassesOf(prev, n) : j <= m) <=> (Has(prev, m, n) \/ \E j \in ClassesOf(prev, n) : j <= m - 1)
          <6>1. ASSUME NEW j \in ClassesOf(prev, n) PROVE j <= m <=> (j = m \/ j <= m - 1)  BY <2>2, <2>4
          <6> QED  BY <6>1, <3>4
        <5>4. f[m] = IF \E j \in ClassesOf(prev, n) : j <= m THEN NoAdapter ELSE a  BY <4>1, <5>2, <5>3
        <5> QED  BY <5>4, <4>4, <2>2 DEF Reached
      <4> QED  BY <4>3, <4>4
    <3> QED  BY <3>5, <3>6
  <2> QED  BY <2>2, <2>5, <2>6
<1>7. Reached(f[Classes], a, prev, now, n, Classes)  BY <1>1, <1>5, <1>6
<1>8. \A k \in ClassesOf(now, n) \cup ClassesOf(prev, n) : k <= Classes /\ ~(k > Classes)
  BY <1>1 DEF ClassesOf, Class
<1>9. CASE ClassesOf(now, n) = {}
  <2>1. f[Classes] = IF \E j \in ClassesOf(prev, n) : j <= Classes THEN NoAdapter ELSE a
    BY <1>7, <1>9 DEF Reached
  <2>2. f[Classes] = NoAdapter  BY <2>1, <1>4, <1>8
  <2> QED  BY <2>2, <1>3, <1>9, RegisteredIs
<1>10. CASE ClassesOf(now, n) # {}
  <2>1. PICK k : k \in ClassesOf(now, n)  BY <1>10
  <2>2. f[Classes] = IF now[k][n].enable THEN [class |-> k, config |-> now[k][n]] ELSE NoAdapter
    BY <1>7, <1>8, <2>1 DEF Reached
  <2> QED  BY <2>1, <2>2, <1>3, RegisteredIs
<1> QED  BY <1>9, <1>10

\* What runs has an entry that is enabled.
Runs(x) == x \in Adapter \cup {NoAdapter} /\ (x # NoAdapter => x.config.enable)

\* So it is after a change, whatever the lists say.
LEMMA AfterRuns ==
  ASSUME NEW prev \in Configuration, NEW now \in Configuration, NEW n \in Name, Runs(adapters[n])
  PROVE  Runs(After(prev, now, n))
<1>1. Classes \in Nat /\ Classes \in 0..Classes  BY OneBotConfigAssumption
<1>2. PICK a : a = adapters[n]  OBVIOUS
<1>3. PICK f : Reload(f, a, prev, now, n, Classes) /\ After(prev, now, n) = f[Classes]
  <2> DEFINE g == CHOOSE g : Reload(g, a, prev, now, n, Classes)
  <2>1. \E f : Reload(f, a, prev, now, n, Classes)  BY <1>1, ReloadExists
  <2>2. Reload(g, a, prev, now, n, Classes)  BY <2>1
  <2>3. After(prev, now, n) = g[Classes]  BY <1>2 DEF After, Reload
  <2> QED  BY <2>2, <2>3
<1>4. PICK T : T = {m \in 0..Classes : ~Runs(f[m])}  OBVIOUS
<1>5. ASSUME T # {} PROVE FALSE
  <2>1. PICK m \in T : \A y \in T : m <= y
    <3>1. T \subseteq Nat  BY <1>1, <1>4
    <3> QED  BY <3>1, <1>5, Least
  <2>2. m \in 0..Classes /\ m \in Nat /\ ~Runs(f[m])  BY <1>1, <1>4
  <2>3. f[m] = IF m = 0 THEN a ELSE Applied(now, m, n, Recycled(prev, now, m, n, f[m - 1]))
    BY <2>2, <1>3 DEF Reload
  <2>4. CASE m = 0  BY <2>2, <2>3, <2>4, <1>2
  <2>5. CASE m > 0
    <3>1. m - 1 \in 0..Classes /\ m - 1 \notin T /\ m \in Class  BY <2>1, <2>2, <2>5, <1>1 DEF Class
    <3>2. PICK x : x = Recycled(prev, now, m, n, f[m - 1])  OBVIOUS
    <3>3. Runs(x)
      <4>1. Runs(f[m - 1]) /\ Runs(NoAdapter)  BY <3>1, <1>4 DEF Runs
      <4> QED  BY <3>2, <4>1 DEF Recycled
    <3>4. f[m] = Applied(now, m, n, x)  BY <2>3, <2>5, <3>2
    <3>5. ASSUME Has(now, m, n), now[m][n].enable
          PROVE  /\ Runs([class |-> m, config |-> now[m][n]])
                 /\ x # NoAdapter => Runs(Reloaded(x, now[m][n]))
      <4>1. now[m][n] \in Entry  BY <3>1, <3>5 DEF Configuration, Has
      <4>2. PICK e : e = now[m][n] /\ e \in Entry /\ e.enable  BY <4>1, <3>5
      <4>3. Runs([class |-> m, config |-> e])  BY <3>1, <4>2 DEF Runs, Adapter
      <4>4. ASSUME x # NoAdapter PROVE Runs(Reloaded(x, e))
        <5>1. x \in Adapter  BY <3>3, <4>4 DEF Runs
        <5>2. Reloaded(x, e) = [x EXCEPT !.config = e]  BY <4>2 DEF Reloaded
        <5> QED  BY <5>1, <5>2, <4>2 DEF Runs, Adapter
      <4> QED  BY <4>2, <4>3, <4>4
    <3>6. Runs(NoAdapter)  BY DEF Runs
    <3>7. Runs(Applied(now, m, n, x))
      <4>1. CASE ~Has(now, m, n)  BY <3>3, <4>1 DEF Applied
      <4>2. CASE Has(now, m, n) /\ now[m][n].enable  BY <3>5, <4>2 DEF Applied
      <4>3. CASE Has(now, m, n) /\ ~now[m][n].enable  BY <3>6, <4>3 DEF Applied, Reloaded
      <4> QED  BY <4>1, <4>2, <4>3
    <3> QED  BY <2>2, <3>4, <3>7
  <2> QED  BY <2>2, <2>4, <2>5
<1> QED  BY <1>1, <1>3, <1>4, <1>5

-----------------------------------------------------------------------------
(* Steps *)

\* InitOneBot registers what is enabled.
LEMMA OneBotConfigInitOK == OneBotConfigInit => OneBotConfigInv
<1> SUFFICES ASSUME OneBotConfigInit PROVE OneBotConfigInv
  OBVIOUS
<1>1. configData \in Configuration /\ tangled \subseteq Name
      /\ \A n \in Name : adapters[n] = Registered(configData, n)
  BY DEF OneBotConfigInit
<1>2. adapters \in [Name -> Adapter \cup {NoAdapter}] /\ \A n \in Name : Runs(adapters[n])
  BY <1>1, RegisteredType DEF OneBotConfigInit, Runs
<1>3. ASSUME NEW n \in Name \ tangled PROVE AtMostOne(configData, n)
  <2>1. ~(Cardinality(ClassesOf(configData, n)) > 1)  BY DEF OneBotConfigInit
  <2>2. Cardinality(ClassesOf(configData, n)) \in Nat  BY ClassesFinite
  <2> QED  BY <2>1, <2>2, OneClass
<1> QED  BY <1>1, <1>2, <1>3 DEF OneBotConfigInv, OneBotConfigSafe, OneBotConfigTypeOK, RunningIsConfigured, Runs

\* A change leaves the names that are not tangled as configured.
LEMMA ConfigChangedOK ==
  ASSUME OneBotConfigInv, ConfigChanged
  PROVE  OneBotConfigInv'
<1>1. PICK now \in Configuration :
        /\ configData' = now /\ adapters' = [n \in Name |-> After(configData, now, n)]
        /\ tangled' = tangled \cup {n \in Name : Tangles(configData, now, n)}
  BY DEF ConfigChanged
<1>2. configData \in Configuration /\ tangled \subseteq Name /\ (\A n \in Name : Runs(adapters[n]))
  BY DEF OneBotConfigInv, OneBotConfigSafe, OneBotConfigTypeOK, Runs
<1>3. \A n \in Name : Runs(After(configData, now, n))  BY <1>2, AfterRuns
<1>4. adapters' \in [Name -> Adapter \cup {NoAdapter}] /\ \A n \in Name : Runs(adapters'[n])
  BY <1>1, <1>3 DEF Runs
<1>5. ASSUME NEW n \in Name, n \notin tangled'
      PROVE  AtMostOne(now, n) /\ adapters'[n] = Registered(now, n)
  <2>1. n \notin tangled /\ ~Tangles(configData, now, n)  BY <1>1, <1>5
  <2>2. Cardinality(ClassesOf(now, n)) \in Nat  BY ClassesFinite
  <2>3. AtMostOne(now, n)  BY <2>1, <2>2, OneClass DEF Tangles
  <2>4. \A j \in ClassesOf(now, n), k \in ClassesOf(configData, n) : j >= k
    <3>1. \A j \in ClassesOf(now, n), k \in ClassesOf(configData, n) : ~(j < k)  BY <2>1 DEF Tangles
    <3>2. \A j \in ClassesOf(now, n) \cup ClassesOf(configData, n) : j \in Nat
      BY OneBotConfigAssumption DEF ClassesOf, Class
    <3> QED  BY <3>1, <3>2
  <2>5. AtMostOne(configData, n) /\ adapters[n] = Registered(configData, n)
    BY <2>1 DEF OneBotConfigInv, OneBotConfigSafe, RunningIsConfigured
  <2>6. After(configData, now, n) = Registered(now, n)  BY <1>2, <2>3, <2>4, <2>5, AfterIs
  <2> QED  BY <1>1, <2>3, <2>6
<1>6. OneBotConfigTypeOK'  BY <1>1, <1>2, <1>4 DEF OneBotConfigTypeOK, Runs
<1>7. RunningIsConfigured' /\ \A n \in Name \ tangled' : AtMostOne(configData', n)
  BY <1>1, <1>5 DEF RunningIsConfigured
<1> QED  BY <1>6, <1>7 DEF OneBotConfigInv, OneBotConfigSafe

(***************************************************************************)
(* After every change exactly the enabled entries run, each in its class   *)
(* and with its newest settings, for the names that did not move to an     *)
(* earlier class (reloadNetwork and handleConfigChange, napcat-onebot/     *)
(* index.ts).                                                              *)
(***************************************************************************)
THEOREM RunsWhatIsConfigured == OneBotConfigSpec => []OneBotConfigSafe
<1>1. OneBotConfigInv /\ [OneBotConfigNext]_ocvars => OneBotConfigInv'
  <2> SUFFICES ASSUME OneBotConfigInv, [OneBotConfigNext]_ocvars PROVE OneBotConfigInv'
    OBVIOUS
  <2>1. CASE ConfigChanged  BY <2>1, ConfigChangedOK
  <2>2. CASE UNCHANGED ocvars
    BY <2>2 DEF ocvars, OneBotConfigInv, OneBotConfigSafe, OneBotConfigTypeOK, RunningIsConfigured
  <2> QED  BY <2>1, <2>2 DEF OneBotConfigNext
<1>2. OneBotConfigInv => OneBotConfigSafe  BY DEF OneBotConfigInv
<1> QED  BY <1>1, <1>2, OneBotConfigInitOK, PTL DEF OneBotConfigSpec

----------------------------------------------------------------------------
(* A call of a remote object is carried out once, sees the assignments     *)
(* made before it and gets the answer computed for it, and a reference     *)
(* never leads to another object, for any number of calls and assignments. *)

-----------------------------------------------------------------------------
(* The references the client holds *)

HoldsIn(K) == {c \in Call : K[c].st = "done" /\ K[c].op \in {"make", "self"}}
KnownIn(K) == {0} \cup {K[c].val : c \in HoldsIn(K)}
ObjIn(K, G, r) == IF r = 0 THEN 1 ELSE G[CHOOSE c \in HoldsIn(K) : K[c].val = r].obj

\* The messages.
ServerMsg ==
  [type : {"request"}, id : Call, op : Op, on : {0} \cup Ref] \cup [type : {"release"}, on : Ref]
  \cup [type : {"set"}, on : {0} \cup Ref, val : Value]
  \cup [type : {"callback_response"}, id : Call, how : {"value", "error", "silent"}, val : Value]
ClientMsg ==
  [type : {"response"}, id : Call, ok : BOOLEAN, val : {0} \cup Ref \cup Value]
  \cup [type : {"callback"}, id : Call, val : Value]
CallRec ==
  {Unmade} \cup [st : {"lazy", "sent", "done", "failed", "hung"}, op : Op, on : {0} \cup Ref, val : {0} \cup Ref \cup Value]

ClientTyped ==
  /\ calls \in [Call -> CallRec] /\ chained \subseteq Call /\ closed \in BOOLEAN /\ released \subseteq Call
  /\ running \subseteq Call \X Value /\ silent \subseteq Call /\ writes \in Value /\ floor \in [Call -> Value]
ServerTyped ==
  /\ objectRefs \in [Ref -> {0} \cup Obj] /\ lastRef \in {0} \cup Ref /\ objects \in Obj /\ heap \in [Obj -> Value]
  /\ pendingCallbacks \subseteq Call /\ given \in [Call -> [obj : {0} \cup Obj, prop : Value]]
  /\ executed \in [Call -> {0, 1}] /\ computed \in [Call -> {0} \cup Ref \cup Value]
QueuesTyped == toServer \in Seq(ServerMsg) /\ toClient \in Seq(ClientMsg)

Stored(G) == {c \in Call : G[c].obj # 0}

\* Every object handed out took a reference, and a call at most one.
Counted(G, L, N) == L = Cardinality(Stored(G)) /\ N <= L + 1

\* What the server has done for a call.
Served(K, X, P, V, G, L) ==
  \A c \in Call :
    /\ X[c] = 0 => G[c].obj = 0 /\ c \notin P
    /\ X[c] = 1 => K[c].st \notin {"none", "lazy"}
    /\ c \in P => K[c].op = "via"
    /\ G[c].obj # 0 => K[c].op \in {"make", "self"} /\ V[c] \in 1..L

\* A reference is that of one call, and leads to its object until released.
Homes(V, G, O, R, L) ==
  /\ \A c \in Stored(G) : O[V[c]] = G[c].obj \/ (O[V[c]] = 0 /\ c \in R)
  /\ \A c, d \in Stored(G) : V[c] = V[d] => c = d

\* What a call was answered, or will be.
Answers(c, v, X, P, V) == X[c] = 1 /\ c \notin P /\ v = V[c]
Good(c, v, K, G, F) == (K[c].op \in {"make", "self"} => G[c].obj # 0) /\ (K[c].op \in {"read", "via"} => v >= F[c])

Settles(K, X, P, V, G, F, R) ==
  /\ \A c \in Call : K[c].st = "done" => Answers(c, K[c].val, X, P, V) /\ Good(c, K[c].val, K, G, F)
  /\ R \subseteq HoldsIn(K)
  /\ \A c \in Call : K[c].st # "none" => K[c].on \in KnownIn(K)

\* A request in the queue has not been carried out, and is the only one of its call.
Requests(S, K, X) ==
  /\ \A k \in 1..Len(S) : S[k].type = "request" =>
       /\ S[k].id \in Call /\ X[S[k].id] = 0 /\ K[S[k].id].st \notin {"none", "lazy"}
       /\ S[k].op = K[S[k].id].op /\ S[k].on = K[S[k].id].on
  /\ \A j, k \in 1..Len(S) : S[j].type = "request" /\ S[k].type = "request" /\ S[j].id = S[k].id => j = k

\* Assignments and releases in the queue go to references the client holds.
Targets(S, K, R) ==
  \A k \in 1..Len(S) :
    /\ S[k].type = "set" => S[k].on \in KnownIn(K)
    /\ S[k].type = "release" => \E c \in R : K[c].val = S[k].on

\* Assignments come in their order, and nothing is newer than those in the queue.
Ordered(S, H, W) ==
  /\ \A j, k \in 1..Len(S) : j < k /\ S[j].type = "set" /\ S[k].type = "set" => S[j].val < S[k].val
  /\ \A k \in 1..Len(S) : S[k].type = "set" => S[k].val <= W /\ \A o \in Obj : H[o] <= S[k].val
  /\ \A o \in Obj : H[o] <= W

\* Before a request that reads is carried out its object has what it is to see.
Ahead(S, j, K, G, O, o, f) ==
  /\ S[j].type = "set" /\ ObjIn(K, G, S[j].on) = o /\ S[j].val >= f /\ (S[j].on # 0 => O[S[j].on] # 0)
  /\ \A i \in 1..(j - 1) : ~(S[i].type = "release" /\ S[i].on = S[j].on)
Floors(S, K, G, O, H, F) ==
  \A k \in 1..Len(S) : S[k].type = "request" =>
    LET o == ObjIn(K, G, S[k].on) IN
    H[o] >= F[S[k].id] \/ \E j \in 1..(k - 1) : Ahead(S, j, K, G, O, o, F[S[k].id])

\* A callback is on its way, runs, or its answer is on its way: one of them.
Callbacks(S, C, U, P, F) ==
  /\ \A k \in 1..Len(C) : C[k].type = "callback" =>
       /\ C[k].id \in P /\ C[k].val >= F[C[k].id]
       /\ \A u \in U : u[1] # C[k].id
       /\ \A j \in 1..Len(C) : C[j].type = "callback" /\ C[j].id = C[k].id => j = k
       /\ \A j \in 1..Len(S) : ~(S[j].type = "callback_response" /\ S[j].id = C[k].id)
  /\ \A u \in U : /\ u[1] \in P /\ u[2] >= F[u[1]] /\ \A w \in U : w[1] = u[1] => w = u
                  /\ \A j \in 1..Len(S) : ~(S[j].type = "callback_response" /\ S[j].id = u[1])
  /\ \A k \in 1..Len(S) : S[k].type = "callback_response" =>
       /\ S[k].id \in P /\ S[k].val >= F[S[k].id]
       /\ \A j \in 1..Len(S) : S[j].type = "callback_response" /\ S[j].id = S[k].id => j = k

Responses(C, K, X, P, V, G, F) ==
  \A k \in 1..Len(C) : C[k].type = "response" =>
    C[k].id \in Call /\ Answers(C[k].id, C[k].val, X, P, V) /\ (C[k].ok => Good(C[k].id, C[k].val, K, G, F))

RpcInv ==
  /\ ClientTyped /\ ServerTyped /\ QueuesTyped
  /\ Counted(given, lastRef, objects) /\ Served(calls, executed, pendingCallbacks, computed, given, lastRef)
  /\ Homes(computed, given, objectRefs, released, lastRef)
  /\ Settles(calls, executed, pendingCallbacks, computed, given, floor, released)
  /\ Requests(toServer, calls, executed) /\ Targets(toServer, calls, released) /\ Ordered(toServer, heap, writes)
  /\ Floors(toServer, calls, given, objectRefs, heap, floor)
  /\ Callbacks(toServer, toClient, running, pendingCallbacks, floor)
  /\ Responses(toClient, calls, executed, pendingCallbacks, computed, given, floor)

-----------------------------------------------------------------------------
(* Sequences and references *)

\* A sequence and one that is longer or shorter by a message.
Longer(T, S, e) == Len(S) \in Nat /\ Len(T) = Len(S) + 1 /\ T[Len(S) + 1] = e /\ \A k \in 1..Len(S) : T[k] = S[k]
Shorter(T, S) == Len(S) \in Nat /\ Len(S) > 0 /\ Len(T) = Len(S) - 1 /\ \A k \in 1..Len(T) : T[k] = S[k + 1]

\* A message is added at the end of a queue.
LEMMA AppendIs ==
  ASSUME NEW M, NEW S \in Seq(M), NEW e \in M, NEW T, T = Append(S, e)
  PROVE  T \in Seq(M) /\ Longer(T, S, e)
BY DEF Longer

\* The first message of a queue is taken.
LEMMA TailIs ==
  ASSUME NEW M, NEW S \in Seq(M), S # <<>>, NEW T, T = Tail(S)
  PROVE  T \in Seq(M) /\ Shorter(T, S) /\ S[1] \in M /\ Head(S) = S[1]
<1>1. Len(S) \in Nat /\ Len(S) > 0  BY EmptySeq
<1>2. T \in Seq(M) /\ Len(T) = Len(S) - 1 /\ \A k \in 1..Len(T) : T[k] = S[k + 1]  BY <1>1
<1>3. S[1] \in M /\ Head(S) = S[1]  BY <1>1
<1> QED  BY <1>1, <1>2, <1>3 DEF Shorter

\* Numbers of calls.
LEMMA NumbersAre ==
  /\ Cardinality(Call) \in Nat /\ MaxWrite \in Nat
  /\ Ref \subseteq Nat \ {0} /\ Obj \subseteq Nat \ {0} /\ Value \subseteq Nat /\ 1 \in Obj /\ 0 \in Value
<1>1. Cardinality(Call) \in Nat /\ MaxWrite \in Nat  BY RpcAssumption, FS_CardinalityType
<1> QED  BY <1>1 DEF Ref, Obj, Value

\* Two calls the client holds have different references.
Apart(K) == /\ \A c \in HoldsIn(K) : K[c].val # 0
            /\ \A c, d \in HoldsIn(K) : K[c].val = K[d].val => c = d

\* The calls whose references the client holds have references of their own.
LEMMA HeldIs ==
  ASSUME NEW K, NEW X, NEW P, NEW V, NEW G, NEW F, NEW R, NEW L \in Nat, NEW O, Settles(K, X, P, V, G, F, R),
         Served(K, X, P, V, G, L), Homes(V, G, O, R, L)
  PROVE  /\ Apart(K)
         /\ \A c \in HoldsIn(K) : c \in Stored(G) /\ K[c].val = V[c] /\ V[c] \in 1..L
<1>1. ASSUME NEW c \in HoldsIn(K) PROVE c \in Stored(G) /\ K[c].val = V[c] /\ V[c] \in 1..L
  <2>1. c \in Call /\ K[c].st = "done" /\ K[c].op \in {"make", "self"}  BY DEF HoldsIn
  <2>2. Answers(c, K[c].val, X, P, V) /\ Good(c, K[c].val, K, G, F)  BY <2>1 DEF Settles
  <2>3. c \in Stored(G) /\ K[c].val = V[c]  BY <2>1, <2>2 DEF Answers, Good, Stored
  <2>4. V[c] \in 1..L  BY <2>1, <2>3 DEF Served, Stored
  <2> QED  BY <2>3, <2>4
<1>2. \A c \in HoldsIn(K) : K[c].val # 0  BY <1>1
<1>3. ASSUME NEW c \in HoldsIn(K), NEW d \in HoldsIn(K), K[c].val = K[d].val PROVE c = d
  <2>1. c \in Stored(G) /\ d \in Stored(G) /\ V[c] = V[d]  BY <1>1, <1>3
  <2> QED  BY <2>1 DEF Homes
<1> QED  BY <1>1, <1>2, <1>3 DEF Apart

\* The object of a reference the client holds.
LEMMA ObjIs ==
  ASSUME NEW K, NEW G, Apart(K), NEW c \in HoldsIn(K)
  PROVE  ObjIn(K, G, K[c].val) = G[c].obj
<1>1. K[c].val # 0  BY DEF Apart
<1>2. PICK d : d = CHOOSE x \in HoldsIn(K) : K[x].val = K[c].val  OBVIOUS
<1>3. d \in HoldsIn(K) /\ K[d].val = K[c].val  BY <1>2
<1>4. d = c  BY <1>3 DEF Apart
<1> QED  BY <1>1, <1>2, <1>4 DEF ObjIn

\* References stay what they are while the client holds more.
HoldsMore(K, G, N, D) == \A c \in HoldsIn(K) : c \in HoldsIn(N) /\ N[c].val = K[c].val /\ D[c] = G[c]

\* A reference the client held leads to the same object when it holds more.
LEMMA ObjStays ==
  ASSUME NEW K, NEW G, Apart(K), NEW N, NEW D, Apart(N), HoldsMore(K, G, N, D)
  PROVE  \A r \in KnownIn(K) : r \in KnownIn(N) /\ ObjIn(N, D, r) = ObjIn(K, G, r)
<1> SUFFICES ASSUME NEW r \in KnownIn(K) PROVE r \in KnownIn(N) /\ ObjIn(N, D, r) = ObjIn(K, G, r)
  OBVIOUS
<1>1. CASE r = 0  BY <1>1 DEF KnownIn, ObjIn
<1>2. CASE r # 0
  <2>1. PICK c \in HoldsIn(K) : r = K[c].val  BY <1>2 DEF KnownIn
  <2>2. c \in HoldsIn(N) /\ N[c].val = r /\ D[c] = G[c]  BY <2>1 DEF HoldsMore
  <2>3. ObjIn(K, G, r) = G[c].obj  BY <2>1, ObjIs
  <2>4. ObjIn(N, D, r) = D[c].obj
    <3>1. ObjIn(N, D, N[c].val) = D[c].obj  BY <2>2, ObjIs
    <3> QED  BY <3>1, <2>2
  <2> QED  BY <2>2, <2>3, <2>4 DEF KnownIn
<1> QED  BY <1>1, <1>2

-----------------------------------------------------------------------------
(* Calls go on *)

\* A call that was answered stays as it is, and what was sent stays sent.
Later(K, F, N, E) ==
  \A c \in Call :
    /\ K[c].st = "done" => N[c] = K[c]
    /\ K[c].st # "none" => N[c].st # "none" /\ N[c].op = K[c].op /\ N[c].on = K[c].on
    /\ K[c].st \notin {"none", "lazy"} => N[c].st \notin {"none", "lazy"} /\ E[c] = F[c]

\* What the server has done for the calls stays.
LEMMA ServedLater ==
  ASSUME NEW K, NEW F, NEW N, NEW E, Later(K, F, N, E), NEW X \in [Call -> {0, 1}], NEW P, NEW V, NEW G, NEW L,
         Served(K, X, P, V, G, L)
  PROVE  Served(N, X, P, V, G, L)
<1> SUFFICES ASSUME NEW c \in Call
             PROVE  /\ X[c] = 0 => G[c].obj = 0 /\ c \notin P
                    /\ X[c] = 1 => N[c].st \notin {"none", "lazy"}
                    /\ c \in P => N[c].op = "via"
                    /\ G[c].obj # 0 => N[c].op \in {"make", "self"} /\ V[c] \in 1..L
  BY DEF Served
<1>1. /\ X[c] = 0 => G[c].obj = 0 /\ c \notin P
      /\ X[c] = 1 => K[c].st \notin {"none", "lazy"}
      /\ c \in P => K[c].op = "via"
      /\ G[c].obj # 0 => K[c].op \in {"make", "self"} /\ V[c] \in 1..L
  BY DEF Served
<1>2. X[c] \in {0, 1}  OBVIOUS
<1>3. X[c] = 1 => N[c].st \notin {"none", "lazy"} /\ N[c].op = K[c].op  BY <1>1 DEF Later
<1> QED  BY <1>1, <1>2, <1>3

\* What the calls were answered stays, once those answered now are answered well.
LEMMA SettlesLater ==
  ASSUME NEW K, NEW F, NEW N, NEW E, Later(K, F, N, E), NEW X, NEW P, NEW V, NEW G, NEW R,
         Settles(K, X, P, V, G, F, R),
         \A c \in Call : N[c].st = "done" => K[c].st = "done" \/ (Answers(c, N[c].val, X, P, V) /\ Good(c, N[c].val, N, G, E)),
         \A c \in Call : K[c].st = "none" /\ N[c].st # "none" => N[c].on \in KnownIn(K)
  PROVE  Settles(N, X, P, V, G, E, R)
<1>1. \A c \in HoldsIn(K) : c \in HoldsIn(N) /\ N[c].val = K[c].val  BY DEF HoldsIn, Later
<1>2. KnownIn(K) \subseteq KnownIn(N)  BY <1>1 DEF KnownIn
<1>3. R \subseteq HoldsIn(N)  BY <1>1 DEF Settles
<1>4. ASSUME NEW c \in Call, N[c].st = "done" PROVE Answers(c, N[c].val, X, P, V) /\ Good(c, N[c].val, N, G, E)
  <2>1. CASE K[c].st = "done"
    <3>1. Answers(c, K[c].val, X, P, V) /\ Good(c, K[c].val, K, G, F)  BY <2>1 DEF Settles
    <3>2. N[c] = K[c]  BY <2>1 DEF Later
    <3>3. E[c] = F[c]
      <4>1. K[c].st \notin {"none", "lazy"}  BY <2>1
      <4> QED  BY <4>1 DEF Later
    <3> QED  BY <3>1, <3>2, <3>3 DEF Good
  <2>2. CASE K[c].st # "done"  BY <1>4, <2>2
  <2> QED  BY <2>1, <2>2
<1>5. ASSUME NEW c \in Call, N[c].st # "none" PROVE N[c].on \in KnownIn(N)
  <2>1. CASE K[c].st = "none"  BY <1>2, <1>5, <2>1
  <2>2. CASE K[c].st # "none"
    <3>1. N[c].on = K[c].on /\ K[c].on \in KnownIn(K)  BY <2>2 DEF Later, Settles
    <3> QED  BY <3>1, <1>2
  <2> QED  BY <2>1, <2>2
<1> QED  BY <1>3, <1>4, <1>5 DEF Settles

\* The requests on their way stay those of their calls.
LEMMA RequestsLater ==
  ASSUME NEW K, NEW F, NEW N, NEW E, Later(K, F, N, E), NEW S, NEW X, Requests(S, K, X)
  PROVE  Requests(S, N, X)
<1>1. ASSUME NEW k \in 1..Len(S), S[k].type = "request"
      PROVE  /\ S[k].id \in Call /\ X[S[k].id] = 0 /\ N[S[k].id].st \notin {"none", "lazy"}
             /\ S[k].op = N[S[k].id].op /\ S[k].on = N[S[k].id].on
  <2>1. /\ S[k].id \in Call /\ X[S[k].id] = 0 /\ K[S[k].id].st \notin {"none", "lazy"}
        /\ S[k].op = K[S[k].id].op /\ S[k].on = K[S[k].id].on
    BY <1>1 DEF Requests
  <2>2. K[S[k].id].st # "none"  BY <2>1
  <2> QED  BY <2>1, <2>2 DEF Later
<1>2. \A j, k \in 1..Len(S) : S[j].type = "request" /\ S[k].type = "request" /\ S[j].id = S[k].id => j = k
  BY DEF Requests
<1> QED  BY <1>1, <1>2 DEF Requests

\* Assignments and releases stay such that go to references the client holds.
LEMMA TargetsLater ==
  ASSUME NEW K, NEW F, NEW N, NEW E, Later(K, F, N, E), NEW S, NEW R, R \subseteq HoldsIn(K), Targets(S, K, R)
  PROVE  Targets(S, N, R)
<1>1. \A c \in HoldsIn(K) : c \in HoldsIn(N) /\ N[c].val = K[c].val  BY DEF HoldsIn, Later
<1>2. KnownIn(K) \subseteq KnownIn(N)  BY <1>1 DEF KnownIn
<1>3. ASSUME NEW k \in 1..Len(S), S[k].type = "set" PROVE S[k].on \in KnownIn(N)
  BY <1>2, <1>3 DEF Targets
<1>4. ASSUME NEW k \in 1..Len(S), S[k].type = "release" PROVE \E c \in R : N[c].val = S[k].on
  <2>1. PICK c \in R : K[c].val = S[k].on  BY <1>4 DEF Targets
  <2> QED  BY <2>1, <1>1
<1> QED  BY <1>3, <1>4 DEF Targets

\* The floor of a request stays, wherever the messages are looked at from.
LEMMA FloorsStay ==
  ASSUME NEW K, NEW F, NEW N, NEW E, NEW G, NEW D, NEW S, NEW R, NEW O, NEW H, NEW X,
         \A r \in KnownIn(K) : ObjIn(N, D, r) = ObjIn(K, G, r),
         \A k \in 1..Len(S) : S[k].type = "request" => E[S[k].id] = F[S[k].id] /\ S[k].on \in KnownIn(K),
         Targets(S, K, R), Floors(S, K, G, O, H, F), Len(S) \in Nat
  PROVE  Floors(S, N, D, O, H, E)
<1> SUFFICES ASSUME NEW k \in 1..Len(S), S[k].type = "request", NEW o, o = ObjIn(N, D, S[k].on),
                    ~(H[o] >= E[S[k].id])
             PROVE  \E j \in 1..(k - 1) : Ahead(S, j, N, D, O, o, E[S[k].id])
  BY DEF Floors
<1>1. E[S[k].id] = F[S[k].id] /\ S[k].on \in KnownIn(K) /\ o = ObjIn(K, G, S[k].on)  OBVIOUS
<1>2. PICK j \in 1..(k - 1) : Ahead(S, j, K, G, O, o, F[S[k].id])  BY <1>1 DEF Floors
<1>3. j \in 1..Len(S) /\ S[j].type = "set" /\ ObjIn(K, G, S[j].on) = o  BY <1>2 DEF Ahead
<1>4. S[j].on \in KnownIn(K)  BY <1>3 DEF Targets
<1>5. ObjIn(N, D, S[j].on) = o  BY <1>3, <1>4
<1>6. Ahead(S, j, N, D, O, o, E[S[k].id])  BY <1>1, <1>2, <1>5 DEF Ahead
<1> QED  BY <1>6

\* The floors of the requests on their way stay.
LEMMA FloorsLater ==
  ASSUME NEW K, NEW F, NEW N, NEW E, Later(K, F, N, E), NEW G, Apart(K), Apart(N), NEW S, NEW R, NEW O, NEW H, NEW X,
         Len(S) \in Nat, \A c \in Call : K[c].st # "none" => K[c].on \in KnownIn(K),
         Requests(S, K, X), Targets(S, K, R), Floors(S, K, G, O, H, F)
  PROVE  Floors(S, N, G, O, H, E)
<1>1. HoldsMore(K, G, N, G)  BY DEF HoldsIn, Later, HoldsMore
<1>2. \A r \in KnownIn(K) : ObjIn(N, G, r) = ObjIn(K, G, r)  BY <1>1, ObjStays
<1>3. ASSUME NEW k \in 1..Len(S), S[k].type = "request" PROVE E[S[k].id] = F[S[k].id] /\ S[k].on \in KnownIn(K)
  <2>1. S[k].id \in Call /\ K[S[k].id].st \notin {"none", "lazy"} /\ S[k].on = K[S[k].id].on  BY <1>3 DEF Requests
  <2>2. K[S[k].id].on \in KnownIn(K)  BY <2>1
  <2> QED  BY <2>1, <2>2 DEF Later
<1> QED  BY <1>2, <1>3, FloorsStay

\* The answers on their way stay good.
LEMMA ResponsesLater ==
  ASSUME NEW K, NEW F, NEW N, NEW E, Later(K, F, N, E), NEW C, NEW X, NEW P, NEW V, NEW G, NEW L,
         Served(K, X, P, V, G, L), Responses(C, K, X, P, V, G, F)
  PROVE  Responses(C, N, X, P, V, G, E)
<1> SUFFICES ASSUME NEW k \in 1..Len(C), C[k].type = "response"
             PROVE  C[k].id \in Call /\ Answers(C[k].id, C[k].val, X, P, V) /\ (C[k].ok => Good(C[k].id, C[k].val, N, G, E))
  BY DEF Responses
<1>1. C[k].id \in Call /\ Answers(C[k].id, C[k].val, X, P, V) /\ (C[k].ok => Good(C[k].id, C[k].val, K, G, F))
  BY DEF Responses
<1>2. K[C[k].id].st \notin {"none", "lazy"}  BY <1>1 DEF Answers, Served
<1>3. N[C[k].id].op = K[C[k].id].op /\ E[C[k].id] = F[C[k].id]  BY <1>1, <1>2 DEF Later
<1> QED  BY <1>1, <1>3 DEF Good

\* The callbacks stay where they are.
LEMMA CallbacksLater ==
  ASSUME NEW K, NEW F, NEW N, NEW E, Later(K, F, N, E), NEW S, NEW C, NEW U, NEW P, NEW X \in [Call -> {0, 1}],
         NEW V, NEW G, NEW L, P \subseteq Call, Served(K, X, P, V, G, L), Callbacks(S, C, U, P, F)
  PROVE  Callbacks(S, C, U, P, E)
<1>1. \A c \in P : E[c] = F[c]
  <2> SUFFICES ASSUME NEW c \in P PROVE E[c] = F[c]
    OBVIOUS
  <2>1. c \in Call /\ X[c] \in {0, 1}  OBVIOUS
  <2>2. X[c] = 1  BY <2>1 DEF Served
  <2>3. K[c].st \notin {"none", "lazy"}  BY <2>1, <2>2 DEF Served
  <2> QED  BY <2>1, <2>3 DEF Later
<1>2. \A k \in 1..Len(C) : C[k].type = "callback" =>
        /\ C[k].id \in P /\ C[k].val >= E[C[k].id]
        /\ \A u \in U : u[1] # C[k].id
        /\ \A j \in 1..Len(C) : C[j].type = "callback" /\ C[j].id = C[k].id => j = k
        /\ \A j \in 1..Len(S) : ~(S[j].type = "callback_response" /\ S[j].id = C[k].id)
  BY <1>1 DEF Callbacks
<1>3. \A u \in U : /\ u[1] \in P /\ u[2] >= E[u[1]] /\ \A w \in U : w[1] = u[1] => w = u
                   /\ \A j \in 1..Len(S) : ~(S[j].type = "callback_response" /\ S[j].id = u[1])
  BY <1>1 DEF Callbacks
<1>4. \A k \in 1..Len(S) : S[k].type = "callback_response" =>
        /\ S[k].id \in P /\ S[k].val >= E[S[k].id]
        /\ \A j \in 1..Len(S) : S[j].type = "callback_response" /\ S[j].id = S[k].id => j = k
  BY <1>1 DEF Callbacks
<1> QED  BY <1>2, <1>3, <1>4 DEF Callbacks

-----------------------------------------------------------------------------
(* Steps of the client *)

\* The parts of the invariant.
LEMMA RpcInvIs ==
  ASSUME RpcInv
  PROVE  /\ ClientTyped /\ ServerTyped /\ QueuesTyped
         /\ Counted(given, lastRef, objects) /\ Served(calls, executed, pendingCallbacks, computed, given, lastRef)
         /\ Homes(computed, given, objectRefs, released, lastRef)
         /\ Settles(calls, executed, pendingCallbacks, computed, given, floor, released)
         /\ Requests(toServer, calls, executed) /\ Targets(toServer, calls, released) /\ Ordered(toServer, heap, writes)
         /\ Floors(toServer, calls, given, objectRefs, heap, floor)
         /\ Callbacks(toServer, toClient, running, pendingCallbacks, floor)
         /\ Responses(toClient, calls, executed, pendingCallbacks, computed, given, floor)
         /\ Apart(calls)
<1>1. Served(calls, executed, pendingCallbacks, computed, given, lastRef) /\ Homes(computed, given, objectRefs, released, lastRef)
      /\ Settles(calls, executed, pendingCallbacks, computed, given, floor, released)
  BY DEF RpcInv
<1>2. lastRef \in Nat  BY NumbersAre DEF RpcInv, ServerTyped
<1>3. Apart(calls)  BY <1>1, <1>2, HeldIs
<1> QED  BY <1>3 DEF RpcInv

\* The calls of the client go on.
LEMMA CallsGoOn ==
  ASSUME RpcInv, NEW N, NEW E, Later(calls, floor, N, E),
         \A c \in Call : N[c].st = "done" =>
           \/ calls[c].st = "done"
           \/ /\ Answers(c, N[c].val, executed, pendingCallbacks, computed)
              /\ Good(c, N[c].val, N, given, E),
         \A c \in Call : calls[c].st = "none" /\ N[c].st # "none" => N[c].on \in KnownIn(calls)
  PROVE  /\ Served(N, executed, pendingCallbacks, computed, given, lastRef)
         /\ Settles(N, executed, pendingCallbacks, computed, given, E, released)
         /\ Requests(toServer, N, executed) /\ Targets(toServer, N, released)
         /\ Floors(toServer, N, given, objectRefs, heap, E)
         /\ Callbacks(toServer, toClient, running, pendingCallbacks, E)
         /\ Responses(toClient, N, executed, pendingCallbacks, computed, given, E)
<1>1. executed \in [Call -> {0, 1}] /\ pendingCallbacks \subseteq Call  BY RpcInvIs DEF ServerTyped
<1>2. Served(calls, executed, pendingCallbacks, computed, given, lastRef)  BY RpcInvIs
<1>3. Served(N, executed, pendingCallbacks, computed, given, lastRef)  BY <1>1, <1>2, ServedLater
<1>4. Settles(calls, executed, pendingCallbacks, computed, given, floor, released)  BY RpcInvIs
<1>5. Settles(N, executed, pendingCallbacks, computed, given, E, released)  BY <1>4, SettlesLater
<1>6. Homes(computed, given, objectRefs, released, lastRef) /\ lastRef \in Nat
  <2>1. lastRef \in Nat  BY NumbersAre, RpcInvIs DEF ServerTyped
  <2> QED  BY <2>1, RpcInvIs
<1>7. Apart(calls) /\ Apart(N)
  <2>1. Apart(N)  BY <1>3, <1>5, <1>6, HeldIs
  <2> QED  BY <2>1, RpcInvIs
<1>8. Requests(toServer, N, executed)
  <2>1. Requests(toServer, calls, executed)  BY RpcInvIs
  <2> QED  BY <2>1, RequestsLater
<1>9. released \subseteq HoldsIn(calls) /\ \A c \in Call : calls[c].st # "none" => calls[c].on \in KnownIn(calls)
  BY <1>4 DEF Settles
<1>10. Targets(toServer, N, released)
  <2>1. Targets(toServer, calls, released)  BY RpcInvIs
  <2> QED  BY <2>1, <1>9, TargetsLater
<1>11. Floors(toServer, N, given, objectRefs, heap, E)
  <2>1. /\ Requests(toServer, calls, executed) /\ Targets(toServer, calls, released)
        /\ Floors(toServer, calls, given, objectRefs, heap, floor)
    BY RpcInvIs
  <2>2. Len(toServer) \in Nat  BY RpcInvIs DEF QueuesTyped
  <2> QED  BY <2>1, <2>2, <1>7, <1>9, FloorsLater
<1>12. Callbacks(toServer, toClient, running, pendingCallbacks, E)
  <2>1. Callbacks(toServer, toClient, running, pendingCallbacks, floor)  BY RpcInvIs
  <2> QED  BY <2>1, <1>1, <1>2, CallbacksLater
<1>13. Responses(toClient, N, executed, pendingCallbacks, computed, given, E)
  <2>1. Responses(toClient, calls, executed, pendingCallbacks, computed, given, floor)  BY RpcInvIs
  <2> QED  BY <2>1, <1>2, ResponsesLater
<1> QED  BY <1>3, <1>5, <1>8, <1>10, <1>11, <1>12, <1>13

\* A message is sent to the server.
LEMMA RequestsAppend ==
  ASSUME NEW S, NEW T, NEW e, Longer(T, S, e), NEW K, NEW X, Requests(S, K, X),
         e.type = "request" => /\ e.id \in Call /\ X[e.id] = 0 /\ K[e.id].st \notin {"none", "lazy"}
                               /\ e.op = K[e.id].op /\ e.on = K[e.id].on
                               /\ \A k \in 1..Len(S) : ~(S[k].type = "request" /\ S[k].id = e.id)
  PROVE  Requests(T, K, X)
<1>1. Len(S) \in Nat /\ Len(T) = Len(S) + 1 /\ T[Len(S) + 1] = e /\ \A k \in 1..Len(S) : T[k] = S[k]  BY DEF Longer
<1>2. \A k \in 1..Len(T) : k \in 1..Len(S) \/ k = Len(S) + 1  BY <1>1
<1>3. ASSUME NEW k \in 1..Len(T), T[k].type = "request"
      PROVE  /\ T[k].id \in Call /\ X[T[k].id] = 0 /\ K[T[k].id].st \notin {"none", "lazy"}
             /\ T[k].op = K[T[k].id].op /\ T[k].on = K[T[k].id].on
  <2>1. CASE k \in 1..Len(S)
    <3>1. T[k] = S[k]  BY <2>1, <1>1
    <3> QED  BY <3>1, <2>1, <1>3 DEF Requests
  <2>2. CASE k = Len(S) + 1
    <3>1. T[k] = e  BY <2>2, <1>1
    <3> QED  BY <3>1, <1>3
  <2> QED  BY <2>1, <2>2, <1>2
<1>4. ASSUME NEW j \in 1..Len(T), NEW k \in 1..Len(T), T[j].type = "request", T[k].type = "request", T[j].id = T[k].id PROVE j = k
  <2>1. CASE j \in 1..Len(S) /\ k \in 1..Len(S)
    <3>1. T[j] = S[j] /\ T[k] = S[k]  BY <2>1, <1>1
    <3> QED  BY <3>1, <2>1, <1>4 DEF Requests
  <2>2. CASE j \in 1..Len(S) /\ k = Len(S) + 1
    <3>1. T[j] = S[j] /\ T[k] = e  BY <2>2, <1>1
    <3> QED  BY <3>1, <2>2, <1>4
  <2>3. CASE k \in 1..Len(S) /\ j = Len(S) + 1
    <3>1. T[k] = S[k] /\ T[j] = e  BY <2>3, <1>1
    <3> QED  BY <3>1, <2>3, <1>4
  <2> QED  BY <2>1, <2>2, <2>3, <1>2
<1> QED  BY <1>3, <1>4 DEF Requests

\* An assignment, a release or another message is sent: where it goes.
LEMMA TargetsAppend ==
  ASSUME NEW S, NEW T, NEW e, Longer(T, S, e), NEW K, NEW R, NEW Q, R \subseteq Q, Targets(S, K, R),
         e.type = "set" => e.on \in KnownIn(K), e.type = "release" => \E c \in Q : K[c].val = e.on
  PROVE  Targets(T, K, Q)
<1>1. Len(S) \in Nat /\ Len(T) = Len(S) + 1 /\ T[Len(S) + 1] = e /\ \A k \in 1..Len(S) : T[k] = S[k]  BY DEF Longer
<1>2. \A k \in 1..Len(T) : k \in 1..Len(S) \/ k = Len(S) + 1  BY <1>1
<1> SUFFICES ASSUME NEW k \in 1..Len(T)
             PROVE  /\ T[k].type = "set" => T[k].on \in KnownIn(K)
                    /\ T[k].type = "release" => \E c \in Q : K[c].val = T[k].on
  BY DEF Targets
<1>3. CASE k \in 1..Len(S)
  <2>1. T[k] = S[k]  BY <1>1, <1>3
  <2>2. /\ S[k].type = "set" => S[k].on \in KnownIn(K)
        /\ S[k].type = "release" => \E c \in R : K[c].val = S[k].on
    BY <1>3 DEF Targets
  <2> QED  BY <2>1, <2>2
<1>4. CASE k = Len(S) + 1
  <2>1. T[k] = e  BY <1>1, <1>4
  <2> QED  BY <2>1
<1> QED  BY <1>2, <1>3, <1>4

\* An assignment newer than all others is sent, or another message.
LEMMA OrderedAppend ==
  ASSUME NEW S, NEW T, NEW e, Longer(T, S, e), NEW H, NEW W \in Nat, NEW Z \in Nat, Ordered(S, H, W),
         \A k \in 1..Len(S) : S[k].type = "set" => S[k].val \in Nat, H \in [Obj -> Nat],
         Z = W \/ Z = W + 1, e.type = "set" => Z = W + 1 /\ e.val = Z
  PROVE  Ordered(T, H, Z)
<1>1. Len(S) \in Nat /\ Len(T) = Len(S) + 1 /\ T[Len(S) + 1] = e /\ \A k \in 1..Len(S) : T[k] = S[k]  BY DEF Longer
<1>2. \A k \in 1..Len(T) : k \in 1..Len(S) \/ k = Len(S) + 1  BY <1>1
<1>3. \A k \in 1..Len(S) : S[k].type = "set" => S[k].val <= W /\ S[k].val \in Nat /\ \A o \in Obj : H[o] <= S[k].val
  BY DEF Ordered
<1>4. \A o \in Obj : H[o] <= W /\ H[o] \in Nat /\ H[o] <= Z
  <2>1. \A o \in Obj : H[o] <= W /\ H[o] \in Nat  BY DEF Ordered
  <2> QED  BY <2>1
<1>5. ASSUME NEW k \in 1..Len(T), T[k].type = "set" PROVE T[k].val <= Z /\ \A o \in Obj : H[o] <= T[k].val
  <2>1. CASE k \in 1..Len(S)
    <3>1. T[k] = S[k]  BY <1>1, <2>1
    <3> QED  BY <3>1, <2>1, <1>3, <1>5
  <2>2. CASE k = Len(S) + 1
    <3>1. T[k] = e  BY <1>1, <2>2
    <3> QED  BY <3>1, <1>4, <1>5
  <2> QED  BY <2>1, <2>2, <1>2
<1>6. ASSUME NEW j \in 1..Len(T), NEW k \in 1..Len(T), j < k, T[j].type = "set", T[k].type = "set" PROVE T[j].val < T[k].val
  <2>1. j \in 1..Len(S)  BY <1>1, <1>6
  <2>2. T[j] = S[j]  BY <2>1, <1>1
  <2>3. CASE k \in 1..Len(S)
    <3>1. T[k] = S[k]  BY <2>3, <1>1
    <3> QED  BY <3>1, <2>1, <2>2, <2>3, <1>6 DEF Ordered
  <2>4. CASE k = Len(S) + 1
    <3>1. T[k] = e  BY <1>1, <2>4
    <3>2. T[j].val <= W /\ T[j].val \in Nat  BY <2>1, <2>2, <1>3, <1>6
    <3> QED  BY <3>1, <3>2, <1>6
  <2> QED  BY <2>3, <2>4, <1>2
<1> QED  BY <1>4, <1>5, <1>6 DEF Ordered

\* A message is sent after the others: the floors stay, and a request has its own.
LEMMA FloorsAppend ==
  ASSUME NEW S, NEW T, NEW e, Longer(T, S, e), NEW K, NEW G, NEW O, NEW H, NEW F, Floors(S, K, G, O, H, F),
         e.type = "request" =>
           LET o == ObjIn(K, G, e.on) IN
           H[o] >= F[e.id] \/ \E j \in 1..Len(S) : Ahead(S, j, K, G, O, o, F[e.id])
  PROVE  Floors(T, K, G, O, H, F)
<1>1. Len(S) \in Nat /\ Len(T) = Len(S) + 1 /\ T[Len(S) + 1] = e /\ \A k \in 1..Len(S) : T[k] = S[k]  BY DEF Longer
<1>2. \A k \in 1..Len(T) : k \in 1..Len(S) \/ k = Len(S) + 1  BY <1>1
<1>3. ASSUME NEW j \in 1..Len(S), NEW o, NEW f, Ahead(S, j, K, G, O, o, f) PROVE Ahead(T, j, K, G, O, o, f)
  <2>1. T[j] = S[j] /\ \A i \in 1..(j - 1) : T[i] = S[i]  BY <1>1
  <2> QED  BY <2>1, <1>3 DEF Ahead
<1> SUFFICES ASSUME NEW k \in 1..Len(T), T[k].type = "request", NEW o, o = ObjIn(K, G, T[k].on),
                    ~(H[o] >= F[T[k].id])
             PROVE  \E j \in 1..(k - 1) : Ahead(T, j, K, G, O, o, F[T[k].id])
  BY DEF Floors
<1>4. CASE k \in 1..Len(S)
  <2>1. T[k] = S[k]  BY <1>1, <1>4
  <2>2. PICK j \in 1..(k - 1) : Ahead(S, j, K, G, O, o, F[S[k].id])  BY <2>1, <1>4 DEF Floors
  <2>3. j \in 1..Len(S)  BY <1>1, <1>4
  <2> QED  BY <2>1, <2>2, <2>3, <1>3
<1>5. CASE k = Len(S) + 1
  <2>1. T[k] = e  BY <1>1, <1>5
  <2>2. PICK j \in 1..Len(S) : Ahead(S, j, K, G, O, o, F[e.id])  BY <2>1
  <2>3. j \in 1..(k - 1)  BY <1>1, <1>5
  <2> QED  BY <2>1, <2>2, <2>3, <1>3
<1> QED  BY <1>2, <1>4, <1>5

\* The answer of a callback that is over is sent, or another message.
LEMMA CallbacksAppend ==
  ASSUME NEW S, NEW T, NEW e, Longer(T, S, e), NEW C, NEW U, NEW P, NEW F, Callbacks(S, C, U, P, F),
         e.type = "callback_response" =>
           /\ e.id \in P /\ e.val >= F[e.id] /\ \A u \in U : u[1] # e.id
           /\ \A k \in 1..Len(C) : ~(C[k].type = "callback" /\ C[k].id = e.id)
           /\ \A k \in 1..Len(S) : ~(S[k].type = "callback_response" /\ S[k].id = e.id)
  PROVE  Callbacks(T, C, U, P, F)
<1>1. Len(S) \in Nat /\ Len(T) = Len(S) + 1 /\ T[Len(S) + 1] = e /\ \A k \in 1..Len(S) : T[k] = S[k]  BY DEF Longer
<1>2. \A k \in 1..Len(T) : k \in 1..Len(S) \/ k = Len(S) + 1  BY <1>1
<1>3. ASSUME NEW i, NEW j \in 1..Len(T), T[j].type = "callback_response", T[j].id = i
      PROVE  (\E k \in 1..Len(S) : j = k /\ S[k].type = "callback_response" /\ S[k].id = i)
             \/ (j = Len(S) + 1 /\ i = e.id /\ e.type = "callback_response")
  <2>1. CASE j \in 1..Len(S)
    <3>1. T[j] = S[j]  BY <1>1, <2>1
    <3> QED  BY <3>1, <2>1, <1>3
  <2>2. CASE j = Len(S) + 1
    <3>1. T[j] = e  BY <1>1, <2>2
    <3> QED  BY <3>1, <2>2, <1>3
  <2> QED  BY <2>1, <2>2, <1>2
<1>4. ASSUME NEW k \in 1..Len(C), C[k].type = "callback"
      PROVE  /\ C[k].id \in P /\ C[k].val >= F[C[k].id]
             /\ \A u \in U : u[1] # C[k].id
             /\ \A j \in 1..Len(C) : C[j].type = "callback" /\ C[j].id = C[k].id => j = k
             /\ \A j \in 1..Len(T) : ~(T[j].type = "callback_response" /\ T[j].id = C[k].id)
  <2>1. /\ C[k].id \in P /\ C[k].val >= F[C[k].id]
        /\ \A u \in U : u[1] # C[k].id
        /\ \A j \in 1..Len(C) : C[j].type = "callback" /\ C[j].id = C[k].id => j = k
        /\ \A j \in 1..Len(S) : ~(S[j].type = "callback_response" /\ S[j].id = C[k].id)
    BY <1>4 DEF Callbacks
  <2> QED  BY <2>1, <1>3, <1>4
<1>5. ASSUME NEW u \in U
      PROVE  /\ u[1] \in P /\ u[2] >= F[u[1]] /\ \A w \in U : w[1] = u[1] => w = u
             /\ \A j \in 1..Len(T) : ~(T[j].type = "callback_response" /\ T[j].id = u[1])
  <2>1. /\ u[1] \in P /\ u[2] >= F[u[1]] /\ \A w \in U : w[1] = u[1] => w = u
        /\ \A j \in 1..Len(S) : ~(S[j].type = "callback_response" /\ S[j].id = u[1])
    BY DEF Callbacks
  <2> QED  BY <2>1, <1>3
<1>6. ASSUME NEW k \in 1..Len(T), T[k].type = "callback_response"
      PROVE  /\ T[k].id \in P /\ T[k].val >= F[T[k].id]
             /\ \A j \in 1..Len(T) : T[j].type = "callback_response" /\ T[j].id = T[k].id => j = k
  <2>1. CASE k \in 1..Len(S)
    <3>1. T[k] = S[k]  BY <1>1, <2>1
    <3>2. /\ S[k].id \in P /\ S[k].val >= F[S[k].id]
          /\ \A j \in 1..Len(S) : S[j].type = "callback_response" /\ S[j].id = S[k].id => j = k
      BY <3>1, <2>1, <1>6 DEF Callbacks
    <3>3. ~(e.type = "callback_response" /\ e.id = S[k].id)  BY <3>1, <2>1, <1>6
    <3> QED  BY <3>1, <3>2, <3>3, <1>3
  <2>2. CASE k = Len(S) + 1
    <3>1. T[k] = e  BY <1>1, <2>2
    <3> QED  BY <3>1, <2>2, <1>3, <1>6
  <2> QED  BY <2>1, <2>2, <1>2
<1> QED  BY <1>4, <1>5, <1>6 DEF Callbacks

\* The server takes the first message.
LEMMA RequestsTail ==
  ASSUME NEW S, NEW T, Shorter(T, S), NEW K, NEW X, Requests(S, K, X)
  PROVE  /\ Requests(T, K, X)
         /\ S[1].type = "request" => \A k \in 1..Len(T) : ~(T[k].type = "request" /\ T[k].id = S[1].id)
<1>1. Len(S) \in Nat /\ Len(T) = Len(S) - 1 /\ \A k \in 1..Len(T) : T[k] = S[k + 1]  BY DEF Shorter
<1>2. \A k \in 1..Len(T) : k + 1 \in 1..Len(S) /\ k + 1 # 1 /\ T[k] = S[k + 1]  BY <1>1
<1>3. ASSUME NEW k \in 1..Len(T), T[k].type = "request"
      PROVE  /\ T[k].id \in Call /\ X[T[k].id] = 0 /\ K[T[k].id].st \notin {"none", "lazy"}
             /\ T[k].op = K[T[k].id].op /\ T[k].on = K[T[k].id].on
  BY <1>2, <1>3 DEF Requests
<1>4. ASSUME NEW j \in 1..Len(T), NEW k \in 1..Len(T), T[j].type = "request", T[k].type = "request", T[j].id = T[k].id PROVE j = k
  <2>1. j + 1 = k + 1  BY <1>2, <1>4 DEF Requests
  <2> QED  BY <2>1
<1>5. ASSUME S[1].type = "request", NEW k \in 1..Len(T), T[k].type = "request", T[k].id = S[1].id PROVE FALSE
  <2>1. 1 \in 1..Len(S)  BY <1>1
  <2>2. k + 1 \in 1..Len(S) /\ k + 1 # 1 /\ S[k + 1].type = "request" /\ S[k + 1].id = S[1].id  BY <1>2, <1>5
  <2> QED  BY <2>1, <2>2, <1>5 DEF Requests
<1> QED  BY <1>3, <1>4, <1>5 DEF Requests

\* Where the other messages go, when the first is taken.
LEMMA TargetsTail ==
  ASSUME NEW S, NEW T, Shorter(T, S), NEW K, NEW R, Targets(S, K, R)
  PROVE  Targets(T, K, R)
<1>1. Len(S) \in Nat /\ Len(T) = Len(S) - 1 /\ \A k \in 1..Len(T) : T[k] = S[k + 1]  BY DEF Shorter
<1>2. \A k \in 1..Len(T) : k + 1 \in 1..Len(S) /\ T[k] = S[k + 1]  BY <1>1
<1> QED  BY <1>2 DEF Targets

\* The order of the other assignments, when the first message is taken.
LEMMA OrderedTail ==
  ASSUME NEW S, NEW T, Shorter(T, S), NEW H, NEW W, Ordered(S, H, W)
  PROVE  Ordered(T, H, W)
<1>1. Len(S) \in Nat /\ Len(T) = Len(S) - 1 /\ \A k \in 1..Len(T) : T[k] = S[k + 1]  BY DEF Shorter
<1>2. \A k \in 1..Len(T) : k + 1 \in 1..Len(S) /\ T[k] = S[k + 1]  BY <1>1
<1>3. \A j, k \in 1..Len(T) : j < k => j + 1 < k + 1  OBVIOUS
<1>4. \A j, k \in 1..Len(T) : j < k /\ T[j].type = "set" /\ T[k].type = "set" => T[j].val < T[k].val
  BY <1>2, <1>3 DEF Ordered
<1>5. \A k \in 1..Len(T) : T[k].type = "set" => T[k].val <= W /\ \A o \in Obj : H[o] <= T[k].val
  BY <1>2 DEF Ordered
<1> QED  BY <1>4, <1>5 DEF Ordered

\* The callbacks, when the server takes a message.
LEMMA CallbacksTail ==
  ASSUME NEW S, NEW T, Shorter(T, S), NEW C, NEW U, NEW P, NEW F, Callbacks(S, C, U, P, F)
  PROVE  Callbacks(T, C, U, P, F)
<1>1. Len(S) \in Nat /\ Len(T) = Len(S) - 1 /\ \A k \in 1..Len(T) : T[k] = S[k + 1]  BY DEF Shorter
<1>2. \A k \in 1..Len(T) : k + 1 \in 1..Len(S) /\ T[k] = S[k + 1]  BY <1>1
<1>3. ASSUME NEW k \in 1..Len(C), C[k].type = "callback"
      PROVE  /\ C[k].id \in P /\ C[k].val >= F[C[k].id]
             /\ \A u \in U : u[1] # C[k].id
             /\ \A j \in 1..Len(C) : C[j].type = "callback" /\ C[j].id = C[k].id => j = k
             /\ \A j \in 1..Len(T) : ~(T[j].type = "callback_response" /\ T[j].id = C[k].id)
  BY SMTT(60), <1>2, <1>3 DEF Callbacks
<1>4. ASSUME NEW u \in U
      PROVE  /\ u[1] \in P /\ u[2] >= F[u[1]] /\ \A w \in U : w[1] = u[1] => w = u
             /\ \A j \in 1..Len(T) : ~(T[j].type = "callback_response" /\ T[j].id = u[1])
  BY <1>2 DEF Callbacks
<1>5. ASSUME NEW k \in 1..Len(T), T[k].type = "callback_response"
      PROVE  /\ T[k].id \in P /\ T[k].val >= F[T[k].id]
             /\ \A j \in 1..Len(T) : T[j].type = "callback_response" /\ T[j].id = T[k].id => j = k
  <2>1. T[k].id \in P /\ T[k].val >= F[T[k].id]  BY <1>2, <1>5 DEF Callbacks
  <2>2. ASSUME NEW j \in 1..Len(T), T[j].type = "callback_response", T[j].id = T[k].id PROVE j = k
    <3>1. j + 1 = k + 1  BY <1>2, <1>5, <2>2 DEF Callbacks
    <3> QED  BY <3>1
  <2> QED  BY <2>1, <2>2
<1> QED  BY <1>3, <1>4, <1>5 DEF Callbacks

\* The client takes a message, or one is sent to it.
LEMMA ResponsesTail ==
  ASSUME NEW C, NEW D, Shorter(D, C), NEW K, NEW X, NEW P, NEW V, NEW G, NEW F, Responses(C, K, X, P, V, G, F)
  PROVE  Responses(D, K, X, P, V, G, F)
<1>1. Len(C) \in Nat /\ Len(D) = Len(C) - 1 /\ \A k \in 1..Len(D) : D[k] = C[k + 1]  BY DEF Shorter
<1>2. \A k \in 1..Len(D) : k + 1 \in 1..Len(C) /\ D[k] = C[k + 1]  BY <1>1
<1> QED  BY <1>2 DEF Responses

\* A good answer is sent.
LEMMA ResponsesAppend ==
  ASSUME NEW C, NEW D, NEW e, Longer(D, C, e), NEW K, NEW X, NEW P, NEW V, NEW G, NEW F, Responses(C, K, X, P, V, G, F),
         e.type = "response" =>
           e.id \in Call /\ Answers(e.id, e.val, X, P, V) /\ (e.ok => Good(e.id, e.val, K, G, F))
  PROVE  Responses(D, K, X, P, V, G, F)
<1>1. Len(C) \in Nat /\ Len(D) = Len(C) + 1 /\ D[Len(C) + 1] = e /\ \A k \in 1..Len(C) : D[k] = C[k]  BY DEF Longer
<1>2. \A k \in 1..Len(D) : k \in 1..Len(C) \/ k = Len(C) + 1  BY <1>1
<1> SUFFICES ASSUME NEW k \in 1..Len(D), D[k].type = "response"
             PROVE  D[k].id \in Call /\ Answers(D[k].id, D[k].val, X, P, V) /\ (D[k].ok => Good(D[k].id, D[k].val, K, G, F))
  BY DEF Responses
<1>3. CASE k \in 1..Len(C)
  <2>1. D[k] = C[k]  BY <1>1, <1>3
  <2>2. C[k].id \in Call /\ Answers(C[k].id, C[k].val, X, P, V) /\ (C[k].ok => Good(C[k].id, C[k].val, K, G, F))
    BY <2>1, <1>3 DEF Responses
  <2> QED  BY <2>1, <2>2
<1>4. CASE k = Len(C) + 1
  <2>1. D[k] = e  BY <1>1, <1>4
  <2> QED  BY <2>1
<1> QED  BY <1>2, <1>3, <1>4

\* The callbacks, when the client takes a message.
LEMMA CallbacksTaken ==
  ASSUME NEW C, NEW D, Shorter(D, C), NEW S, NEW U, NEW P, NEW F, Callbacks(S, C, U, P, F)
  PROVE  /\ Callbacks(S, D, U, P, F)
         /\ C[1].type = "callback" =>
              /\ C[1].id \in P /\ C[1].val >= F[C[1].id] /\ \A u \in U : u[1] # C[1].id
              /\ \A k \in 1..Len(D) : ~(D[k].type = "callback" /\ D[k].id = C[1].id)
              /\ \A k \in 1..Len(S) : ~(S[k].type = "callback_response" /\ S[k].id = C[1].id)
<1>1. Len(C) \in Nat /\ Len(C) > 0 /\ Len(D) = Len(C) - 1 /\ \A k \in 1..Len(D) : D[k] = C[k + 1]  BY DEF Shorter
<1>2. \A k \in 1..Len(D) : k + 1 \in 1..Len(C) /\ k + 1 # 1 /\ D[k] = C[k + 1]  BY <1>1
<1>3. ASSUME NEW k \in 1..Len(D), D[k].type = "callback"
      PROVE  /\ D[k].id \in P /\ D[k].val >= F[D[k].id]
             /\ \A u \in U : u[1] # D[k].id
             /\ \A j \in 1..Len(D) : D[j].type = "callback" /\ D[j].id = D[k].id => j = k
             /\ \A j \in 1..Len(S) : ~(S[j].type = "callback_response" /\ S[j].id = D[k].id)
  <2>1. /\ D[k].id \in P /\ D[k].val >= F[D[k].id]
        /\ \A u \in U : u[1] # D[k].id
        /\ \A j \in 1..Len(S) : ~(S[j].type = "callback_response" /\ S[j].id = D[k].id)
    BY <1>2, <1>3 DEF Callbacks
  <2>2. ASSUME NEW j \in 1..Len(D), D[j].type = "callback", D[j].id = D[k].id PROVE j = k
    <3>1. j + 1 = k + 1  BY <1>2, <1>3, <2>2 DEF Callbacks
    <3> QED  BY <3>1
  <2> QED  BY <2>1, <2>2
<1>4. \A u \in U : /\ u[1] \in P /\ u[2] >= F[u[1]] /\ \A w \in U : w[1] = u[1] => w = u
                   /\ \A j \in 1..Len(S) : ~(S[j].type = "callback_response" /\ S[j].id = u[1])
  BY DEF Callbacks
<1>5. \A k \in 1..Len(S) : S[k].type = "callback_response" =>
        /\ S[k].id \in P /\ S[k].val >= F[S[k].id]
        /\ \A j \in 1..Len(S) : S[j].type = "callback_response" /\ S[j].id = S[k].id => j = k
  BY DEF Callbacks
<1>6. ASSUME C[1].type = "callback"
      PROVE  /\ C[1].id \in P /\ C[1].val >= F[C[1].id] /\ \A u \in U : u[1] # C[1].id
             /\ \A k \in 1..Len(D) : ~(D[k].type = "callback" /\ D[k].id = C[1].id)
             /\ \A k \in 1..Len(S) : ~(S[k].type = "callback_response" /\ S[k].id = C[1].id)
  <2>1. 1 \in 1..Len(C)  BY <1>1
  <2>2. /\ C[1].id \in P /\ C[1].val >= F[C[1].id] /\ \A u \in U : u[1] # C[1].id
        /\ \A j \in 1..Len(C) : C[j].type = "callback" /\ C[j].id = C[1].id => j = 1
        /\ \A k \in 1..Len(S) : ~(S[k].type = "callback_response" /\ S[k].id = C[1].id)
    BY <2>1, <1>6 DEF Callbacks
  <2>3. \A k \in 1..Len(D) : ~(D[k].type = "callback" /\ D[k].id = C[1].id)  BY <1>2, <2>2
  <2> QED  BY <2>2, <2>3
<1>7. Callbacks(S, D, U, P, F)  BY <1>3, <1>4, <1>5 DEF Callbacks
<1> QED  BY <1>6, <1>7

\* The callbacks, when the server sends an answer or another callback.
LEMMA CallbacksSent ==
  ASSUME NEW C, NEW D, NEW e, Longer(D, C, e), NEW S, NEW U, NEW P, NEW F, Callbacks(S, C, U, P, F),
         e.type = "callback" =>
           /\ e.id \in P /\ e.val >= F[e.id] /\ \A u \in U : u[1] # e.id
           /\ \A k \in 1..Len(C) : ~(C[k].type = "callback" /\ C[k].id = e.id)
           /\ \A k \in 1..Len(S) : ~(S[k].type = "callback_response" /\ S[k].id = e.id)
  PROVE  Callbacks(S, D, U, P, F)
<1>1. Len(C) \in Nat /\ Len(D) = Len(C) + 1 /\ D[Len(C) + 1] = e /\ \A k \in 1..Len(C) : D[k] = C[k]  BY DEF Longer
<1>2. \A k \in 1..Len(D) : k \in 1..Len(C) \/ k = Len(C) + 1  BY <1>1
<1>3. ASSUME NEW i, NEW j \in 1..Len(D), D[j].type = "callback", D[j].id = i
      PROVE  \/ j \in 1..Len(C) /\ C[j].type = "callback" /\ C[j].id = i /\ D[j] = C[j]
             \/ j = Len(C) + 1 /\ i = e.id /\ e.type = "callback" /\ D[j] = e
  <2>1. CASE j \in 1..Len(C)
    <3>1. D[j] = C[j]  BY <1>1, <2>1
    <3> QED  BY <3>1, <2>1, <1>3
  <2>2. CASE j = Len(C) + 1
    <3>1. D[j] = e  BY <1>1, <2>2
    <3> QED  BY <3>1, <2>2, <1>3
  <2> QED  BY <2>1, <2>2, <1>2
<1>4. ASSUME NEW k \in 1..Len(D), D[k].type = "callback"
      PROVE  /\ D[k].id \in P /\ D[k].val >= F[D[k].id]
             /\ \A u \in U : u[1] # D[k].id
             /\ \A j \in 1..Len(D) : D[j].type = "callback" /\ D[j].id = D[k].id => j = k
             /\ \A j \in 1..Len(S) : ~(S[j].type = "callback_response" /\ S[j].id = D[k].id)
  <2>1. CASE k \in 1..Len(C) /\ D[k] = C[k] /\ C[k].type = "callback"
    <3>1. /\ C[k].id \in P /\ C[k].val >= F[C[k].id]
          /\ \A u \in U : u[1] # C[k].id
          /\ \A j \in 1..Len(C) : C[j].type = "callback" /\ C[j].id = C[k].id => j = k
          /\ \A j \in 1..Len(S) : ~(S[j].type = "callback_response" /\ S[j].id = C[k].id)
      BY <2>1 DEF Callbacks
    <3>2. ~(e.type = "callback" /\ e.id = C[k].id)  BY <2>1
    <3> QED  BY <3>1, <3>2, <2>1, <1>3
  <2>2. CASE k = Len(C) + 1 /\ D[k] = e /\ e.type = "callback"
    <3>1. \A j \in 1..Len(D) : D[j].type = "callback" /\ D[j].id = D[k].id => j = k  BY <2>2, <1>3
    <3> QED  BY <3>1, <2>2
  <2> QED  BY <2>1, <2>2, <1>3, <1>4
<1>5. \A u \in U : /\ u[1] \in P /\ u[2] >= F[u[1]] /\ \A w \in U : w[1] = u[1] => w = u
                   /\ \A j \in 1..Len(S) : ~(S[j].type = "callback_response" /\ S[j].id = u[1])
  BY DEF Callbacks
<1>6. \A k \in 1..Len(S) : S[k].type = "callback_response" =>
        /\ S[k].id \in P /\ S[k].val >= F[S[k].id]
        /\ \A j \in 1..Len(S) : S[j].type = "callback_response" /\ S[j].id = S[k].id => j = k
  BY DEF Callbacks
<1> QED  BY <1>4, <1>5, <1>6 DEF Callbacks

\* A callback begins to run, or ends.
LEMMA CallbackBegins ==
  ASSUME NEW S, NEW C, NEW U, NEW P, NEW F, Callbacks(S, C, U, P, F), NEW r, NEW Q, Q = U \cup {r},
         r[1] \in P, r[2] >= F[r[1]], \A u \in U : u[1] # r[1],
         \A k \in 1..Len(C) : ~(C[k].type = "callback" /\ C[k].id = r[1]),
         \A k \in 1..Len(S) : ~(S[k].type = "callback_response" /\ S[k].id = r[1])
  PROVE  Callbacks(S, C, Q, P, F)
<1>1. \A u \in Q : u \in U \/ u = r  OBVIOUS
<1>2. \A k \in 1..Len(C) : C[k].type = "callback" =>
       /\ C[k].id \in P /\ C[k].val >= F[C[k].id]
       /\ \A u \in U : u[1] # C[k].id
       /\ \A j \in 1..Len(C) : C[j].type = "callback" /\ C[j].id = C[k].id => j = k
       /\ \A j \in 1..Len(S) : ~(S[j].type = "callback_response" /\ S[j].id = C[k].id)
  BY DEF Callbacks
<1>3. \A k \in 1..Len(C) : C[k].type = "callback" => \A u \in Q : u[1] # C[k].id
  BY <1>1, <1>2
<1>4. ASSUME NEW u \in Q
      PROVE  /\ u[1] \in P /\ u[2] >= F[u[1]] /\ \A w \in Q : w[1] = u[1] => w = u
             /\ \A j \in 1..Len(S) : ~(S[j].type = "callback_response" /\ S[j].id = u[1])
  <2>1. CASE u \in U
    <3>1. /\ u[1] \in P /\ u[2] >= F[u[1]] /\ \A w \in U : w[1] = u[1] => w = u
          /\ \A j \in 1..Len(S) : ~(S[j].type = "callback_response" /\ S[j].id = u[1])
      BY <2>1 DEF Callbacks
    <3>2. r[1] # u[1]  BY <2>1
    <3> QED  BY <3>1, <3>2, <1>1
  <2>2. CASE u = r
    <3>1. \A w \in Q : w[1] = r[1] => w = r  BY <1>1
    <3> QED  BY <3>1, <2>2
  <2> QED  BY <2>1, <2>2, <1>1
<1>5. \A k \in 1..Len(S) : S[k].type = "callback_response" =>
       /\ S[k].id \in P /\ S[k].val >= F[S[k].id]
       /\ \A j \in 1..Len(S) : S[j].type = "callback_response" /\ S[j].id = S[k].id => j = k
  BY DEF Callbacks
<1> QED  BY <1>2, <1>3, <1>4, <1>5 DEF Callbacks

\* A callback that runs is over.
LEMMA CallbackIsOver ==
  ASSUME NEW S, NEW C, NEW U, NEW P, NEW F, Callbacks(S, C, U, P, F), NEW r \in U, NEW Q, Q = U \ {r}
  PROVE  /\ Callbacks(S, C, Q, P, F)
         /\ r[1] \in P /\ r[2] >= F[r[1]] /\ \A u \in Q : u[1] # r[1]
         /\ \A k \in 1..Len(C) : ~(C[k].type = "callback" /\ C[k].id = r[1])
         /\ \A k \in 1..Len(S) : ~(S[k].type = "callback_response" /\ S[k].id = r[1])
<1>1. Q \subseteq U /\ \A u \in Q : u # r  OBVIOUS
<1>2. /\ r[1] \in P /\ r[2] >= F[r[1]] /\ \A w \in U : w[1] = r[1] => w = r
      /\ \A j \in 1..Len(S) : ~(S[j].type = "callback_response" /\ S[j].id = r[1])
  BY DEF Callbacks
<1>3. \A k \in 1..Len(C) : ~(C[k].type = "callback" /\ C[k].id = r[1])  BY DEF Callbacks
<1>4. Callbacks(S, C, Q, P, F)  BY <1>1 DEF Callbacks
<1> QED  BY <1>1, <1>2, <1>3, <1>4

-----------------------------------------------------------------------------
(* Each step of the client *)

\* What a message holds.
LEMMA ServerMsgIs ==
  ASSUME NEW m \in ServerMsg
  PROVE  /\ m.type = "set" => m.val \in Value /\ m.on \in {0} \cup Ref
         /\ m.type = "request" => m.id \in Call /\ m.op \in Op /\ m.on \in {0} \cup Ref
         /\ m.type = "release" => m.on \in Ref
         /\ m.type = "callback_response" => m.id \in Call /\ m.how \in {"value", "error", "silent"} /\ m.val \in Value
         /\ m.type \in {"set", "request", "release", "callback_response"}
BY DEF ServerMsg

\* The fields of the messages to the client.
LEMMA ClientMsgIs ==
  ASSUME NEW m \in ClientMsg
  PROVE  /\ m.type = "response" => m.id \in Call /\ m.ok \in BOOLEAN /\ m.val \in {0} \cup Ref \cup Value
         /\ m.type = "callback" => m.id \in Call /\ m.val \in Value
         /\ m.type \in {"response", "callback"}
BY DEF ClientMsg

\* The references the client holds, and their objects.
LEMMA HeldAre ==
  ASSUME RpcInv
  PROVE  /\ \A c \in HoldsIn(calls) : /\ c \in Stored(given) /\ calls[c].val = computed[c] /\ computed[c] \in 1..lastRef
                                      /\ calls[c].val \in Ref
         /\ \A r \in KnownIn(calls) : r \in {0} \cup Ref /\ ObjIn(calls, given, r) \in Obj
<1>1. lastRef \in {0} \cup Ref /\ given \in [Call -> [obj : {0} \cup Obj, prop : Value]]
  BY RpcInvIs DEF ServerTyped
<1>2. lastRef \in Nat /\ Cardinality(Call) \in Nat /\ lastRef <= Cardinality(Call)  BY <1>1, NumbersAre DEF Ref
<1>3. /\ Served(calls, executed, pendingCallbacks, computed, given, lastRef)
      /\ Homes(computed, given, objectRefs, released, lastRef)
      /\ Settles(calls, executed, pendingCallbacks, computed, given, floor, released) /\ Apart(calls)
  BY RpcInvIs
<1>4. \A c \in HoldsIn(calls) : c \in Stored(given) /\ calls[c].val = computed[c] /\ computed[c] \in 1..lastRef
  BY <1>2, <1>3, HeldIs
<1>5. \A c \in HoldsIn(calls) : calls[c].val \in Ref  BY <1>2, <1>4 DEF Ref
<1>6. ASSUME NEW r \in KnownIn(calls) PROVE r \in {0} \cup Ref /\ ObjIn(calls, given, r) \in Obj
  <2>1. CASE r = 0  BY <2>1, NumbersAre DEF ObjIn
  <2>2. CASE r # 0
    <3>1. PICK c \in HoldsIn(calls) : r = calls[c].val  BY <2>2 DEF KnownIn
    <3>2. ObjIn(calls, given, calls[c].val) = given[c].obj  BY <1>3, ObjIs
    <3>3. c \in Call /\ given[c].obj # 0  BY <1>4 DEF Stored, HoldsIn
    <3>4. given[c] \in [obj : {0} \cup Obj, prop : Value]  BY <3>3, <1>1
    <3>5. given[c].obj \in Obj  BY <3>3, <3>4
    <3> QED  BY <3>1, <3>2, <3>5, <1>5
  <2> QED  BY <2>1, <2>2
<1> QED  BY <1>4, <1>5, <1>6

\* The client's request is made.
LEMMA ApplyKeeps ==
  ASSUME RpcInv, NEW c \in Call, Apply(c)
  PROVE  RpcInv'
<1>1. /\ calls[c] = Unmade
      /\ UNCHANGED <<chained, closed, released, running, writes, floor, silent, server, toServer, toClient>>
  BY DEF Apply
<1>2. UNCHANGED <<objectRefs, lastRef, objects, heap, pendingCallbacks, given, executed, computed>>  BY <1>1 DEF server
<1>3. PICK op \in Op, r \in Known : calls' = [calls EXCEPT ![c] = [st |-> "lazy", op |-> op, on |-> r, val |-> 0]]
  BY DEF Apply
<1>4. r \in KnownIn(calls)  BY <1>3 DEF Known, KnownIn, Holds, HoldsIn
<1>5. r \in {0} \cup Ref  BY <1>4, HeldAre
<1>6. calls \in [Call -> CallRec]  BY RpcInvIs DEF ClientTyped
<1> DEFINE y == [st |-> "lazy", op |-> op, on |-> r, val |-> 0]
<1>7. y \in CallRec  BY <1>5 DEF CallRec
<1>8. calls' \in [Call -> CallRec]  BY <1>3, <1>6, <1>7
<1>9. calls'[c] = y /\ \A d \in Call : d # c => calls'[d] = calls[d]  BY <1>3, <1>6
<1>10. calls[c].st = "none"  BY <1>1 DEF Unmade
<1>11. y.st = "lazy" /\ y.on = r  OBVIOUS
<1> HIDE DEF y
<1>12. Later(calls, floor, calls', floor)  BY <1>9, <1>10 DEF Later
<1>13. \A d \in Call : calls'[d].st = "done" => calls[d].st = "done"  BY <1>9, <1>11
<1>14. \A d \in Call : calls[d].st = "none" /\ calls'[d].st # "none" => calls'[d].on \in KnownIn(calls)
  BY <1>9, <1>11, <1>4
<1>15. PICK N : N = calls'  OBVIOUS
<1>16. /\ Served(N, executed, pendingCallbacks, computed, given, lastRef)
       /\ Settles(N, executed, pendingCallbacks, computed, given, floor, released)
       /\ Requests(toServer, N, executed) /\ Targets(toServer, N, released)
       /\ Floors(toServer, N, given, objectRefs, heap, floor)
       /\ Callbacks(toServer, toClient, running, pendingCallbacks, floor)
       /\ Responses(toClient, N, executed, pendingCallbacks, computed, given, floor)
  BY <1>12, <1>13, <1>14, <1>15, CallsGoOn
<1>17. ClientTyped'  BY <1>1, <1>8, RpcInvIs DEF ClientTyped
<1>18. ServerTyped' /\ QueuesTyped'  BY <1>1, <1>2, RpcInvIs DEF ServerTyped, QueuesTyped
<1>19. /\ Counted(given, lastRef, objects) /\ Homes(computed, given, objectRefs, released, lastRef)
       /\ Ordered(toServer, heap, writes)
  BY RpcInvIs
<1> QED  BY <1>1, <1>2, <1>15, <1>16, <1>17, <1>18, <1>19 DEF RpcInv


\* A bounded set of naturals has a greatest element.
LEMMA Greatest ==
  ASSUME NEW b \in Nat, NEW T, T \subseteq 1..b, T # {}
  PROVE  \E x \in T : \A y \in T : y <= x
<1> DEFINE B == {n \in Nat : \A y \in T : y <= n}
<1>1. b \in B  OBVIOUS
<1>2. B # {} /\ B \subseteq Nat  BY <1>1
<1>3. PICK x \in B : \A n \in B : x <= n  BY <1>2, Least
<1>4. ASSUME x \notin T PROVE FALSE
  <2>1. \A y \in T : y <= x /\ y # x /\ y \in Nat /\ y > 0  BY <1>3, <1>4
  <2>2. x > 0
    <3>1. PICK y \in T : TRUE  OBVIOUS
    <3>2. y <= x /\ y > 0 /\ y \in Nat /\ x \in Nat  BY <2>1, <1>3
    <3> QED  BY <3>2
  <2>3. x - 1 \in Nat /\ \A y \in T : y <= x - 1  BY <2>1, <2>2, <1>3
  <2>4. x - 1 \in B  BY <2>3
  <2> QED  BY <2>4, <1>3
<1> QED  BY <1>3, <1>4

\* Numbers of the assignments, and their order in a longer queue.
LEMMA ValuesAre ==
  ASSUME RpcInv
  PROVE  /\ writes \in Nat /\ heap \in [Obj -> Nat]
         /\ \A k \in 1..Len(toServer) : toServer[k] \in ServerMsg
         /\ \A k \in 1..Len(toServer) : toServer[k].type = "set" => toServer[k].val \in Nat
<1>1. writes \in Value /\ heap \in [Obj -> Value]  BY RpcInvIs DEF ClientTyped, ServerTyped
<1>2. writes \in Nat /\ heap \in [Obj -> Nat]  BY <1>1, NumbersAre
<1>3. \A k \in 1..Len(toServer) : toServer[k] \in ServerMsg  BY RpcInvIs, ElementOfSeq DEF QueuesTyped
<1>4. \A k \in 1..Len(toServer) : toServer[k].type = "set" => toServer[k].val \in Nat
  BY <1>3, ServerMsgIs, NumbersAre
<1> QED  BY <1>2, <1>3, <1>4

\* The order of the assignments when another message is sent.
LEMMA OrderedStill ==
  ASSUME RpcInv, NEW T, NEW e, Longer(T, toServer, e), e.type # "set"
  PROVE  Ordered(T, heap, writes)
<1>1. Ordered(toServer, heap, writes)  BY RpcInvIs
<1> QED  BY <1>1, ValuesAre, OrderedAppend

\* The last assignment that was sent to an object: it is carried out already,
\* or still ahead.
LEMMA LatestIs ==
  ASSUME RpcInv, NEW o \in Obj, NEW v, v = LatestSent(o)
  PROVE  /\ v \in Value
         /\ heap[o] >= v \/ \E j \in 1..Len(toServer) : Ahead(toServer, j, calls, given, objectRefs, o, v)
<1>1. heap \in [Obj -> Value] /\ toServer \in Seq(ServerMsg)  BY RpcInvIs DEF ServerTyped, QueuesTyped
<1>2. Value \subseteq Nat  BY NumbersAre
<1>3. CASE Writes(o) = {}
  <2>1. v = heap[o]  BY <1>3 DEF LatestSent
  <2>2. heap[o] \in Value /\ heap[o] \in Nat  BY <1>1, <1>2
  <2>3. v \in Value /\ heap[o] >= v  BY <2>1, <2>2
  <2> QED  BY <2>3
<1>4. CASE Writes(o) # {}
  <2>1. Len(toServer) \in Nat  BY <1>1
  <2>2. Writes(o) \subseteq 1..Len(toServer)  BY DEF Writes
  <2>3. \E x \in Writes(o) : \A y \in Writes(o) : y <= x  BY <2>1, <2>2, <1>4, Greatest
  <2>4. PICK j : j = CHOOSE k \in Writes(o) : \A i \in Writes(o) : i <= k  OBVIOUS
  <2>5. j \in Writes(o)  BY <2>3, <2>4
  <2>6. v = toServer[j].val  BY <1>4, <2>4 DEF LatestSent
  <2>7. /\ j \in 1..Len(toServer) /\ toServer[j].type = "set" /\ ObjOf(toServer[j].on) = o /\ toServer[j].on \notin Dead
    BY <2>5 DEF Writes
  <2>8. ObjIn(calls, given, toServer[j].on) = o  BY <2>7 DEF ObjIn, ObjOf, Holds, HoldsIn
  <2>9. toServer[j] \in ServerMsg  BY <2>7, <1>1, ElementOfSeq
  <2>10. v \in Value  BY <2>6, <2>7, <2>9, ServerMsgIs
  <2>11. Targets(toServer, calls, released)  BY RpcInvIs
  <2>12. toServer[j].on \in KnownIn(calls)  BY <2>7, <2>11 DEF Targets
  <2>13. ASSUME toServer[j].on # 0 PROVE objectRefs[toServer[j].on] # 0
    <3>1. PICK c \in HoldsIn(calls) : toServer[j].on = calls[c].val  BY <2>12, <2>13 DEF KnownIn
    <3>2. c \in Stored(given) /\ calls[c].val = computed[c]  BY <3>1, HeldAre
    <3>3. c \notin released  BY <3>1, <2>7 DEF Dead
    <3>4. Homes(computed, given, objectRefs, released, lastRef)  BY RpcInvIs
    <3>5. objectRefs[computed[c]] = given[c].obj  BY <3>2, <3>3, <3>4 DEF Homes
    <3>6. given[c].obj # 0  BY <3>2 DEF Stored
    <3> QED  BY <3>1, <3>2, <3>5, <3>6
  <2>14. ASSUME NEW i \in 1..(j - 1), toServer[i].type = "release", toServer[i].on = toServer[j].on PROVE FALSE
    <3>1. i \in 1..Len(toServer)  BY <2>1, <2>7
    <3>2. PICK c \in released : calls[c].val = toServer[i].on  BY <3>1, <2>11, <2>14 DEF Targets
    <3> QED  BY <3>2, <2>7, <2>14 DEF Dead
  <2>15. v >= v  BY <2>10, <1>2
  <2>16. Ahead(toServer, j, calls, given, objectRefs, o, v)  BY <2>6, <2>7, <2>8, <2>13, <2>14, <2>15 DEF Ahead
  <2> QED  BY <2>7, <2>10, <2>16
<1> QED  BY <1>3, <1>4

\* The client's request is sent.
LEMMA AwaitKeeps ==
  ASSUME RpcInv, NEW c \in Call, Await(c)
  PROVE  RpcInv'
<1>1. /\ calls[c].st = "lazy" /\ calls' = [calls EXCEPT ![c].st = "sent"]
      /\ toServer' = Append(toServer, [type |-> "request", id |-> c, op |-> calls[c].op, on |-> calls[c].on])
      /\ floor' = [floor EXCEPT ![c] = LatestSent(ObjOf(calls[c].on))]
      /\ chained' \in {chained, chained \cup {c}}
      /\ UNCHANGED <<closed, released, running, writes, silent, server, toClient>>
  BY DEF Await, NotYetSent
<1>2. UNCHANGED <<objectRefs, lastRef, objects, heap, pendingCallbacks, given, executed, computed>>  BY <1>1 DEF server
<1>3. calls \in [Call -> CallRec] /\ chained \subseteq Call /\ floor \in [Call -> Value]  BY RpcInvIs DEF ClientTyped
<1>4. /\ Settles(calls, executed, pendingCallbacks, computed, given, floor, released)
      /\ Served(calls, executed, pendingCallbacks, computed, given, lastRef)
      /\ Apart(calls) /\ Requests(toServer, calls, executed)
  BY RpcInvIs
<1>5. PICK x \in CallRec : x = calls[c]  BY <1>3
<1>6. x \in [st : {"lazy", "sent", "done", "failed", "hung"}, op : Op, on : {0} \cup Ref, val : {0} \cup Ref \cup Value]
  BY <1>1, <1>5 DEF CallRec, Unmade
<1>7. PICK y : y = [x EXCEPT !.st = "sent"]  OBVIOUS
<1>8. y \in CallRec /\ y.st = "sent" /\ y.op = x.op /\ y.on = x.on /\ x.op \in Op /\ x.on \in {0} \cup Ref
  BY <1>6, <1>7 DEF CallRec
<1>9. calls' = [calls EXCEPT ![c] = y]  BY <1>1, <1>5, <1>7
<1>10. calls' \in [Call -> CallRec] /\ calls'[c] = y /\ \A d \in Call : d # c => calls'[d] = calls[d]
  BY <1>3, <1>8, <1>9
<1>11. x.on \in KnownIn(calls)  BY <1>1, <1>4, <1>5 DEF Settles
<1>12. PICK o \in Obj : o = ObjIn(calls, given, x.on)  BY <1>11, HeldAre
<1>13. ObjOf(calls[c].on) = o  BY <1>5, <1>12 DEF ObjOf, ObjIn, Holds, HoldsIn
<1>14. PICK v : v = LatestSent(o)  OBVIOUS
<1>15. v \in Value /\ (heap[o] >= v \/ \E j \in 1..Len(toServer) : Ahead(toServer, j, calls, given, objectRefs, o, v))
  BY <1>14, LatestIs
<1>16. floor' = [floor EXCEPT ![c] = v]  BY <1>1, <1>13, <1>14
<1>17. floor' \in [Call -> Value] /\ floor'[c] = v /\ \A d \in Call : d # c => floor'[d] = floor[d]
  BY <1>3, <1>15, <1>16
<1>18. PICK N, E : N = calls' /\ E = floor'  OBVIOUS
<1>19. Later(calls, floor, N, E)  BY <1>1, <1>5, <1>8, <1>10, <1>17, <1>18 DEF Later
<1>20. \A d \in Call : N[d].st = "done" => calls[d].st = "done"  BY <1>8, <1>10, <1>18
<1>21. \A d \in Call : ~(calls[d].st = "none" /\ N[d].st # "none")  BY <1>1, <1>10, <1>18
<1>22. /\ Served(N, executed, pendingCallbacks, computed, given, lastRef)
       /\ Settles(N, executed, pendingCallbacks, computed, given, E, released)
       /\ Requests(toServer, N, executed) /\ Targets(toServer, N, released)
       /\ Floors(toServer, N, given, objectRefs, heap, E)
       /\ Callbacks(toServer, toClient, running, pendingCallbacks, E)
       /\ Responses(toClient, N, executed, pendingCallbacks, computed, given, E)
  BY <1>19, <1>20, <1>21, CallsGoOn
<1>23. PICK e : e = [type |-> "request", id |-> c, op |-> x.op, on |-> x.on]  OBVIOUS
<1>24. e.type = "request" /\ e.id = c /\ e.op = x.op /\ e.on = x.on /\ e \in ServerMsg  BY <1>23, <1>8 DEF ServerMsg
<1>25. PICK T : T = toServer'  OBVIOUS
<1>26. T \in Seq(ServerMsg) /\ Longer(T, toServer, e)
  <2>1. toServer \in Seq(ServerMsg)  BY RpcInvIs DEF QueuesTyped
  <2>2. T = Append(toServer, e)  BY <1>1, <1>5, <1>23, <1>25
  <2> QED  BY <2>1, <2>2, <1>24, AppendIs
<1>27. executed[c] = 0
  <2>1. executed[c] \in {0, 1}  BY RpcInvIs DEF ServerTyped
  <2> QED  BY <2>1, <1>1, <1>4 DEF Served
<1>28. \A k \in 1..Len(toServer) : ~(toServer[k].type = "request" /\ toServer[k].id = c)
  BY <1>1, <1>4 DEF Requests
<1>29. Requests(T, N, executed)
  <2>1. N[c].st = "sent" /\ e.op = N[c].op /\ e.on = N[c].on  BY <1>8, <1>10, <1>18, <1>24
  <2> QED  BY ZenonT(60), <2>1, <1>22, <1>24, <1>26, <1>27, <1>28, RequestsAppend
<1>30. Targets(T, N, released)  BY <1>22, <1>24, <1>26, TargetsAppend
<1>31. Ordered(T, heap, writes)
  <2>1. e.type # "set"  BY <1>24
  <2> QED  BY <2>1, <1>26, OrderedStill
<1>32. Floors(T, N, given, objectRefs, heap, E)
  <2>1. HoldsMore(calls, given, N, given)
    <3>1. \A d \in HoldsIn(calls) : N[d] = calls[d]  BY <1>19 DEF Later, HoldsIn
    <3> QED  BY <3>1 DEF HoldsMore, HoldsIn
  <2>2. Apart(N)
    <3>1. Homes(computed, given, objectRefs, released, lastRef) /\ lastRef \in Nat
      <4>1. lastRef \in Nat  BY NumbersAre, RpcInvIs DEF ServerTyped
      <4> QED  BY <4>1, RpcInvIs
    <3> QED  BY <3>1, <1>22, HeldIs
  <2>3. \A r \in KnownIn(calls) : ObjIn(N, given, r) = ObjIn(calls, given, r)  BY <1>4, <2>1, <2>2, ObjStays
  <2>4. ObjIn(N, given, e.on) = o  BY <2>3, <1>11, <1>12, <1>24
  <2>5. ASSUME NEW j \in 1..Len(toServer), Ahead(toServer, j, calls, given, objectRefs, o, v)
        PROVE  Ahead(toServer, j, N, given, objectRefs, o, v)
    <3>1. Targets(toServer, calls, released)  BY RpcInvIs
    <3>2. toServer[j].on \in KnownIn(calls)  BY <3>1, <2>5 DEF Targets, Ahead
    <3>3. ObjIn(N, given, toServer[j].on) = ObjIn(calls, given, toServer[j].on)  BY <3>2, <2>3
    <3> QED  BY <3>3, <2>5 DEF Ahead
  <2>6. E[e.id] = v  BY <1>17, <1>18, <1>24
  <2>7. heap[o] >= E[e.id] \/ \E j \in 1..Len(toServer) : Ahead(toServer, j, N, given, objectRefs, o, E[e.id])
    BY <1>15, <2>5, <2>6
  <2> QED  BY <2>4, <2>7, <1>22, <1>26, FloorsAppend
<1>33. Callbacks(T, toClient, running, pendingCallbacks, E)  BY <1>22, <1>24, <1>26, CallbacksAppend
<1>34. ClientTyped'
  <2>1. chained' \subseteq Call  BY <1>1, <1>3
  <2> QED  BY <2>1, <1>1, <1>10, <1>17, RpcInvIs DEF ClientTyped
<1>35. ServerTyped' /\ QueuesTyped'  BY <1>1, <1>2, <1>25, <1>26, RpcInvIs DEF ServerTyped, QueuesTyped
<1>36. Counted(given, lastRef, objects) /\ Homes(computed, given, objectRefs, released, lastRef)
  BY RpcInvIs
<1> QED  BY <1>1, <1>2, <1>18, <1>25, <1>22, <1>29, <1>30, <1>31, <1>32, <1>33, <1>34, <1>35, <1>36 DEF RpcInv

\* A reference is released.
LEMMA ReleaseKeeps ==
  ASSUME RpcInv, NEW c \in Call, Release(c)
  PROVE  RpcInv'
<1>1. /\ c \in Holds /\ released' = released \cup {c}
      /\ toServer' = Append(toServer, [type |-> "release", on |-> calls[c].val])
      /\ UNCHANGED <<calls, chained, closed, running, writes, floor, silent, server, toClient>>
  BY DEF Release
<1>2. UNCHANGED <<objectRefs, lastRef, objects, heap, pendingCallbacks, given, executed, computed>>  BY <1>1 DEF server
<1>3. c \in HoldsIn(calls)  BY <1>1 DEF Holds, HoldsIn
<1>4. PICK e : e = [type |-> "release", on |-> calls[c].val]  OBVIOUS
<1>5. e.type = "release" /\ e.on = calls[c].val /\ e \in ServerMsg
  <2>1. calls[c].val \in Ref  BY <1>3, HeldAre
  <2> QED  BY <2>1, <1>4 DEF ServerMsg
<1>6. PICK T, R : T = toServer' /\ R = released'  OBVIOUS
<1>7. T \in Seq(ServerMsg) /\ Longer(T, toServer, e)
  <2>1. toServer \in Seq(ServerMsg)  BY RpcInvIs DEF QueuesTyped
  <2>2. T = Append(toServer, e)  BY <1>1, <1>4, <1>6
  <2> QED  BY <2>1, <2>2, <1>5, AppendIs
<1>8. released \subseteq R /\ c \in R /\ R = released \cup {c}  BY <1>1, <1>6
<1>9. Homes(computed, given, objectRefs, R, lastRef)
  <2>1. Homes(computed, given, objectRefs, released, lastRef)  BY RpcInvIs
  <2> QED  BY <2>1, <1>8 DEF Homes
<1>10. Settles(calls, executed, pendingCallbacks, computed, given, floor, R)
  <2>1. Settles(calls, executed, pendingCallbacks, computed, given, floor, released)  BY RpcInvIs
  <2>2. R \subseteq HoldsIn(calls)  BY <2>1, <1>3, <1>8 DEF Settles
  <2> QED  BY <2>1, <2>2 DEF Settles
<1>11. Requests(T, calls, executed)
  <2>1. Requests(toServer, calls, executed)  BY RpcInvIs
  <2> QED  BY <2>1, <1>5, <1>7, RequestsAppend
<1>12. Targets(T, calls, R)
  <2>1. Targets(toServer, calls, released)  BY RpcInvIs
  <2>2. \E d \in R : calls[d].val = e.on  BY <1>5, <1>8
  <2> QED  BY <2>1, <2>2, <1>5, <1>7, <1>8, TargetsAppend
<1>13. Ordered(T, heap, writes)
  <2>1. e.type # "set"  BY <1>5
  <2> QED  BY <2>1, <1>7, OrderedStill
<1>14. Floors(T, calls, given, objectRefs, heap, floor)
  <2>1. Floors(toServer, calls, given, objectRefs, heap, floor)  BY RpcInvIs
  <2> QED  BY <2>1, <1>5, <1>7, FloorsAppend
<1>15. Callbacks(T, toClient, running, pendingCallbacks, floor)
  <2>1. Callbacks(toServer, toClient, running, pendingCallbacks, floor)  BY RpcInvIs
  <2> QED  BY <2>1, <1>5, <1>7, CallbacksAppend
<1>16. ClientTyped'
  <2>1. released' \subseteq Call  BY <1>6, <1>10 DEF Settles, HoldsIn
  <2> QED  BY <2>1, <1>1, RpcInvIs DEF ClientTyped
<1>17. ServerTyped' /\ QueuesTyped'  BY <1>1, <1>2, <1>6, <1>7, RpcInvIs DEF ServerTyped, QueuesTyped
<1>18. /\ Counted(given, lastRef, objects) /\ Served(calls, executed, pendingCallbacks, computed, given, lastRef)
       /\ Responses(toClient, calls, executed, pendingCallbacks, computed, given, floor)
  BY RpcInvIs
<1> QED
  BY <1>1, <1>2, <1>6, <1>9, <1>10, <1>11, <1>12, <1>13, <1>14, <1>15, <1>16, <1>17, <1>18 DEF RpcInv

\* An assignment is sent.
LEMMA AssignKeeps ==
  ASSUME RpcInv, Assign
  PROVE  RpcInv'
<1>1. /\ writes < MaxWrite /\ writes' = writes + 1
      /\ UNCHANGED <<calls, chained, closed, released, running, floor, silent, server, toClient>>
  BY DEF Assign
<1>2. UNCHANGED <<objectRefs, lastRef, objects, heap, pendingCallbacks, given, executed, computed>>  BY <1>1 DEF server
<1>3. PICK r \in Known : toServer' = Append(toServer, [type |-> "set", on |-> r, val |-> writes + 1])
  BY DEF Assign
<1>4. r \in KnownIn(calls)  BY <1>3 DEF Known, KnownIn, Holds, HoldsIn
<1>5. r \in {0} \cup Ref  BY <1>4, HeldAre
<1>6. writes \in Nat /\ writes + 1 \in Value /\ writes' \in Nat
  <2>1. writes \in Nat /\ MaxWrite \in Nat  BY ValuesAre, NumbersAre
  <2> QED  BY <2>1, <1>1 DEF Value
<1>7. PICK e : e = [type |-> "set", on |-> r, val |-> writes + 1]  OBVIOUS
<1>8. e.type = "set" /\ e.on = r /\ e.val = writes + 1 /\ e \in ServerMsg
  BY <1>5, <1>6, <1>7 DEF ServerMsg
<1>9. PICK T, W : T = toServer' /\ W = writes'  OBVIOUS
<1>10. T \in Seq(ServerMsg) /\ Longer(T, toServer, e)
  <2>1. toServer \in Seq(ServerMsg)  BY RpcInvIs DEF QueuesTyped
  <2>2. T = Append(toServer, e)  BY <1>3, <1>7, <1>9
  <2> QED  BY <2>1, <2>2, <1>8, AppendIs
<1>11. Requests(T, calls, executed)
  <2>1. Requests(toServer, calls, executed)  BY RpcInvIs
  <2> QED  BY <2>1, <1>8, <1>10, RequestsAppend
<1>12. Targets(T, calls, released)
  <2>1. Targets(toServer, calls, released)  BY RpcInvIs
  <2> QED  BY <2>1, <1>4, <1>8, <1>10, TargetsAppend
<1>13. Ordered(T, heap, W)
  <2>1. Ordered(toServer, heap, writes)  BY RpcInvIs
  <2>2. W = writes + 1 /\ W \in Nat  BY <1>1, <1>6, <1>9
  <2> QED  BY <2>1, <2>2, <1>6, <1>8, <1>10, ValuesAre, OrderedAppend
<1>14. Floors(T, calls, given, objectRefs, heap, floor)
  <2>1. Floors(toServer, calls, given, objectRefs, heap, floor)  BY RpcInvIs
  <2> QED  BY <2>1, <1>8, <1>10, FloorsAppend
<1>15. Callbacks(T, toClient, running, pendingCallbacks, floor)
  <2>1. Callbacks(toServer, toClient, running, pendingCallbacks, floor)  BY RpcInvIs
  <2> QED  BY <2>1, <1>8, <1>10, CallbacksAppend
<1>16. ClientTyped'  BY <1>1, <1>6, RpcInvIs DEF ClientTyped
<1>17. ServerTyped' /\ QueuesTyped'  BY <1>1, <1>2, <1>9, <1>10, RpcInvIs DEF ServerTyped, QueuesTyped
<1>18. /\ Counted(given, lastRef, objects) /\ Served(calls, executed, pendingCallbacks, computed, given, lastRef)
       /\ Homes(computed, given, objectRefs, released, lastRef)
       /\ Settles(calls, executed, pendingCallbacks, computed, given, floor, released)
       /\ Responses(toClient, calls, executed, pendingCallbacks, computed, given, floor)
  BY RpcInvIs
<1> QED  BY <1>1, <1>2, <1>9, <1>11, <1>12, <1>13, <1>14, <1>15, <1>16, <1>17, <1>18 DEF RpcInv

\* Everything that waits is rejected.
LEMMA RejectKeeps ==
  ASSUME RpcInv, Close
  PROVE  RpcInv'
<1>1. /\ closed' = TRUE
      /\ calls' = [c \in Call |-> IF Pending(c) THEN [calls[c] EXCEPT !.st = "failed"] ELSE calls[c]]
      /\ UNCHANGED <<chained, released, running, writes, floor, silent, server, toServer, toClient>>
  BY DEF Close
<1>2. UNCHANGED <<objectRefs, lastRef, objects, heap, pendingCallbacks, given, executed, computed>>  BY <1>1 DEF server
<1>3. calls \in [Call -> CallRec]  BY RpcInvIs DEF ClientTyped
<1>4. ASSUME NEW c \in Call
      PROVE  /\ calls'[c] \in CallRec
             /\ \/ calls'[c] = calls[c]
                \/ /\ calls[c].st = "sent" /\ calls'[c].st = "failed"
                   /\ calls'[c].op = calls[c].op /\ calls'[c].on = calls[c].on
  <2>1. CASE Pending(c)
    <3>1. PICK x \in CallRec : x = calls[c]  BY <1>3
    <3>2. x.st = "sent"  BY <2>1, <3>1 DEF Pending
    <3>3. x \in [st : {"lazy", "sent", "done", "failed", "hung"}, op : Op, on : {0} \cup Ref, val : {0} \cup Ref \cup Value]
      BY <3>2 DEF CallRec, Unmade
    <3>4. PICK y : y = [x EXCEPT !.st = "failed"]  OBVIOUS
    <3>5. y \in CallRec /\ y.st = "failed" /\ y.op = x.op /\ y.on = x.on  BY <3>3, <3>4 DEF CallRec
    <3>6. calls'[c] = y  BY <1>1, <2>1, <3>1, <3>4
    <3> QED  BY <3>1, <3>2, <3>5, <3>6
  <2>2. CASE ~Pending(c)
    <3>1. calls'[c] = calls[c]  BY <1>1, <2>2
    <3> QED  BY <3>1, <1>3
  <2> QED  BY <2>1, <2>2
<1>5. PICK N : N = calls'  OBVIOUS
<1>6. Later(calls, floor, N, floor)  BY <1>4, <1>5 DEF Later
<1>7. \A c \in Call : N[c].st = "done" => calls[c].st = "done"  BY <1>4, <1>5
<1>8. \A c \in Call : ~(calls[c].st = "none" /\ N[c].st # "none")  BY <1>4, <1>5
<1>9. /\ Served(N, executed, pendingCallbacks, computed, given, lastRef)
      /\ Settles(N, executed, pendingCallbacks, computed, given, floor, released)
      /\ Requests(toServer, N, executed) /\ Targets(toServer, N, released)
      /\ Floors(toServer, N, given, objectRefs, heap, floor)
      /\ Callbacks(toServer, toClient, running, pendingCallbacks, floor)
      /\ Responses(toClient, N, executed, pendingCallbacks, computed, given, floor)
  BY <1>6, <1>7, <1>8, CallsGoOn
<1>10. ClientTyped'
  <2>1. calls' \in [Call -> CallRec]
    <3>1. calls' = [c \in Call |-> calls'[c]]  BY <1>1
    <3> QED  BY <3>1, <1>4
  <2> QED  BY <2>1, <1>1, RpcInvIs DEF ClientTyped
<1>11. ServerTyped' /\ QueuesTyped'  BY <1>1, <1>2, RpcInvIs DEF ServerTyped, QueuesTyped
<1>12. /\ Counted(given, lastRef, objects) /\ Homes(computed, given, objectRefs, released, lastRef)
       /\ Ordered(toServer, heap, writes)
  BY RpcInvIs
<1> QED  BY <1>1, <1>2, <1>5, <1>9, <1>10, <1>11, <1>12 DEF RpcInv

\* A response settles its call.
LEMMA ResponseKeeps ==
  ASSUME RpcInv, toClient # <<>>, toClient' = Tail(toClient), HandleResponse(Head(toClient)),
         UNCHANGED <<chained, closed, released, writes, floor, silent, server, toServer>>
  PROVE  RpcInv'
<1>1. UNCHANGED <<objectRefs, lastRef, objects, heap, pendingCallbacks, given, executed, computed>>  BY DEF server
<1>2. PICK D : D = toClient'  OBVIOUS
<1>3. D \in Seq(ClientMsg) /\ Shorter(D, toClient) /\ toClient[1] \in ClientMsg /\ Head(toClient) = toClient[1]
  <2>1. toClient \in Seq(ClientMsg) /\ D = Tail(toClient)  BY <1>2, RpcInvIs DEF QueuesTyped
  <2> QED  BY <2>1, TailIs
<1>4. PICK m \in ClientMsg : m = toClient[1]  BY <1>3
<1>5. /\ m.type = "response" /\ UNCHANGED running
      /\ \/ \E c \in Call : ById(m.id, c) /\ calls' = [calls EXCEPT ![c] = Settled(m, c)]
         \/ UNCHANGED calls
  BY <1>3, <1>4 DEF HandleResponse
<1>6. m.id \in Call /\ m.ok \in BOOLEAN /\ m.val \in {0} \cup Ref \cup Value  BY <1>5, ClientMsgIs
<1>7. Responses(toClient, calls, executed, pendingCallbacks, computed, given, floor)  BY RpcInvIs
<1>8. /\ Answers(m.id, m.val, executed, pendingCallbacks, computed)
      /\ m.ok => Good(m.id, m.val, calls, given, floor)
  <2>1. 1 \in 1..Len(toClient)  BY <1>3 DEF Shorter
  <2> QED  BY <2>1, <1>4, <1>5, <1>7 DEF Responses
<1>9. calls \in [Call -> CallRec]  BY RpcInvIs DEF ClientTyped
<1>10. PICK N : N = calls'  OBVIOUS
<1>11. /\ N \in [Call -> CallRec]
       /\ \A c \in Call : \/ N[c] = calls[c]
                          \/ /\ calls[c].st = "sent" /\ c = m.id /\ N[c].op = calls[c].op /\ N[c].on = calls[c].on
                             /\ N[c].st \in {"failed", "hung", "done"} /\ N[c].val = m.val
                             /\ N[c].st = "done" => m.ok
  <2>1. CASE \E c \in Call : ById(m.id, c) /\ calls' = [calls EXCEPT ![c] = Settled(m, c)]
    <3>1. PICK c \in Call : ById(m.id, c) /\ calls' = [calls EXCEPT ![c] = Settled(m, c)]  BY <2>1
    <3>2. c = m.id /\ calls[c].st = "sent"  BY <3>1 DEF ById, Pending
    <3>3. PICK x \in CallRec : x = calls[c]  BY <1>9
    <3>4. x \in [st : {"lazy", "sent", "done", "failed", "hung"}, op : Op, on : {0} \cup Ref, val : {0} \cup Ref \cup Value]
      BY <3>2, <3>3 DEF CallRec, Unmade
    <3>5. PICK s \in {"failed", "hung", "done"} :
            s = IF ~m.ok THEN "failed" ELSE IF calls[c].op = "void" /\ c \in chained THEN "hung" ELSE "done"
      OBVIOUS
    <3>6. s = "done" => m.ok  BY <3>5
    <3>7. PICK z : z = [x EXCEPT !.val = m.val]  OBVIOUS
    <3>8. /\ z \in [st : {"lazy", "sent", "done", "failed", "hung"}, op : Op, on : {0} \cup Ref, val : {0} \cup Ref \cup Value]
          /\ z.val = m.val /\ z.op = x.op /\ z.on = x.on
      BY <3>4, <3>7, <1>6
    <3>9. PICK y : y = [z EXCEPT !.st = s]  OBVIOUS
    <3>10. y \in CallRec /\ y.st = s /\ y.op = x.op /\ y.on = x.on /\ y.val = m.val
      BY <3>5, <3>8, <3>9 DEF CallRec
    <3>11. y = Settled(m, c)  BY <3>3, <3>5, <3>7, <3>9 DEF Settled
    <3>12. N = [calls EXCEPT ![c] = y]  BY <3>1, <3>11, <1>10
    <3>13. N \in [Call -> CallRec] /\ N[c] = y /\ \A d \in Call : d # c => N[d] = calls[d]  BY <3>10, <3>12, <1>9
    <3> QED  BY <3>2, <3>3, <3>5, <3>6, <3>10, <3>13
  <2>2. CASE UNCHANGED calls
    BY <2>2, <1>9, <1>10
  <2> QED  BY <2>1, <2>2, <1>5
<1>12. Later(calls, floor, N, floor)  BY <1>11 DEF Later
<1>13. ASSUME NEW c \in Call, N[c].st = "done"
       PROVE  \/ calls[c].st = "done"
              \/ /\ Answers(c, N[c].val, executed, pendingCallbacks, computed)
                 /\ Good(c, N[c].val, N, given, floor)
  <2>1. CASE N[c] = calls[c]  BY <2>1, <1>13
  <2>2. CASE c = m.id /\ N[c].val = m.val /\ N[c].op = calls[c].op /\ m.ok
    <3>1. Answers(c, N[c].val, executed, pendingCallbacks, computed) /\ Good(c, N[c].val, calls, given, floor)
      BY <2>2, <1>8
    <3> QED  BY <3>1, <2>2 DEF Good
  <2> QED  BY <2>1, <2>2, <1>11, <1>13
<1>14. \A c \in Call : ~(calls[c].st = "none" /\ N[c].st # "none")  BY <1>11
<1>15. /\ Served(N, executed, pendingCallbacks, computed, given, lastRef)
       /\ Settles(N, executed, pendingCallbacks, computed, given, floor, released)
       /\ Requests(toServer, N, executed) /\ Targets(toServer, N, released)
       /\ Floors(toServer, N, given, objectRefs, heap, floor)
       /\ Callbacks(toServer, toClient, running, pendingCallbacks, floor)
       /\ Responses(toClient, N, executed, pendingCallbacks, computed, given, floor)
  BY <1>12, <1>13, <1>14, CallsGoOn
<1>16. Callbacks(toServer, D, running, pendingCallbacks, floor)  BY <1>3, <1>15, CallbacksTaken
<1>17. Responses(D, N, executed, pendingCallbacks, computed, given, floor)  BY <1>3, <1>15, ResponsesTail
<1>18. ClientTyped'  BY <1>5, <1>10, <1>11, RpcInvIs DEF ClientTyped
<1>19. ServerTyped' /\ QueuesTyped'  BY <1>1, <1>2, <1>3, RpcInvIs DEF ServerTyped, QueuesTyped
<1>20. /\ Counted(given, lastRef, objects) /\ Homes(computed, given, objectRefs, released, lastRef)
       /\ Ordered(toServer, heap, writes)
  BY RpcInvIs
<1> QED  BY <1>1, <1>2, <1>5, <1>10, <1>15, <1>16, <1>17, <1>18, <1>19, <1>20 DEF RpcInv

\* A callback is started.
LEMMA StartKeeps ==
  ASSUME RpcInv, toClient # <<>>, toClient' = Tail(toClient), StartCallback(Head(toClient)),
         UNCHANGED <<chained, closed, released, writes, floor, silent, server, toServer>>
  PROVE  RpcInv'
<1>1. UNCHANGED <<objectRefs, lastRef, objects, heap, pendingCallbacks, given, executed, computed>>  BY DEF server
<1>2. PICK D, Q : D = toClient' /\ Q = running'  OBVIOUS
<1>3. D \in Seq(ClientMsg) /\ Shorter(D, toClient) /\ toClient[1] \in ClientMsg /\ Head(toClient) = toClient[1]
  <2>1. toClient \in Seq(ClientMsg) /\ D = Tail(toClient)  BY <1>2, RpcInvIs DEF QueuesTyped
  <2> QED  BY <2>1, TailIs
<1>4. PICK m \in ClientMsg : m = toClient[1]  BY <1>3
<1>5. m.type = "callback" /\ running' = running \cup {<<m.id, m.val>>} /\ UNCHANGED calls
  BY <1>3, <1>4 DEF StartCallback
<1>6. m.id \in Call /\ m.val \in Value  BY <1>5, ClientMsgIs
<1>7. PICK r : r = <<m.id, m.val>>  OBVIOUS
<1>8. r[1] = m.id /\ r[2] = m.val /\ r \in Call \X Value  BY <1>6, <1>7
<1>9. Callbacks(toServer, toClient, running, pendingCallbacks, floor)  BY RpcInvIs
<1>10. /\ Callbacks(toServer, D, running, pendingCallbacks, floor)
       /\ r[1] \in pendingCallbacks /\ r[2] >= floor[r[1]] /\ \A u \in running : u[1] # r[1]
       /\ \A k \in 1..Len(D) : ~(D[k].type = "callback" /\ D[k].id = r[1])
       /\ \A k \in 1..Len(toServer) : ~(toServer[k].type = "callback_response" /\ toServer[k].id = r[1])
  <2>1. /\ Callbacks(toServer, D, running, pendingCallbacks, floor)
        /\ toClient[1].type = "callback" =>
              /\ toClient[1].id \in pendingCallbacks /\ toClient[1].val >= floor[toClient[1].id]
              /\ \A u \in running : u[1] # toClient[1].id
              /\ \A k \in 1..Len(D) : ~(D[k].type = "callback" /\ D[k].id = toClient[1].id)
              /\ \A k \in 1..Len(toServer) : ~(toServer[k].type = "callback_response" /\ toServer[k].id = toClient[1].id)
    BY <1>3, <1>9, CallbacksTaken
  <2> QED  BY <2>1, <1>4, <1>5, <1>8
<1>11. Q = running \cup {r}  BY <1>2, <1>5, <1>7
<1>12. Callbacks(toServer, D, Q, pendingCallbacks, floor)  BY <1>10, <1>11, CallbackBegins
<1>13. Responses(D, calls, executed, pendingCallbacks, computed, given, floor)
  <2>1. Responses(toClient, calls, executed, pendingCallbacks, computed, given, floor)  BY RpcInvIs
  <2> QED  BY <2>1, <1>3, ResponsesTail
<1>14. ClientTyped'
  <2>1. running \subseteq Call \X Value  BY RpcInvIs DEF ClientTyped
  <2>2. running' \subseteq Call \X Value  BY <2>1, <1>2, <1>8, <1>11
  <2> QED  BY <2>2, <1>5, RpcInvIs DEF ClientTyped
<1>15. ServerTyped' /\ QueuesTyped'  BY <1>1, <1>2, <1>3, RpcInvIs DEF ServerTyped, QueuesTyped
<1>16. /\ Counted(given, lastRef, objects) /\ Served(calls, executed, pendingCallbacks, computed, given, lastRef)
       /\ Homes(computed, given, objectRefs, released, lastRef)
       /\ Settles(calls, executed, pendingCallbacks, computed, given, floor, released)
       /\ Requests(toServer, calls, executed) /\ Targets(toServer, calls, released) /\ Ordered(toServer, heap, writes)
       /\ Floors(toServer, calls, given, objectRefs, heap, floor)
  BY RpcInvIs
<1> QED  BY <1>1, <1>2, <1>5, <1>12, <1>13, <1>14, <1>15, <1>16 DEF RpcInv

\* A callback ends, and its answer is sent.
LEMMA CallbackEndsKeeps ==
  ASSUME RpcInv, NEW c \in Call, CallbackEnds(c)
  PROVE  RpcInv'
<1>1. PICK r \in running, how \in {"value", "error", "silent"} :
        /\ r[1] = c /\ running' = running \ {r}
        /\ toServer' = Append(toServer, [type |-> "callback_response", id |-> c, how |-> how, val |-> r[2]])
        /\ silent' = IF how = "silent" THEN silent \cup {c} ELSE silent
        /\ UNCHANGED <<calls, chained, closed, released, writes, floor, server, toClient>>
  BY DEF CallbackEnds
<1>2. UNCHANGED <<objectRefs, lastRef, objects, heap, pendingCallbacks, given, executed, computed>>  BY <1>1 DEF server
<1>3. r \in Call \X Value  BY <1>1, RpcInvIs DEF ClientTyped
<1>4. PICK e : e = [type |-> "callback_response", id |-> c, how |-> how, val |-> r[2]]  OBVIOUS
<1>5. e.type = "callback_response" /\ e.id = r[1] /\ e.val = r[2] /\ e \in ServerMsg
  <2>1. r[2] \in Value  BY <1>3
  <2> QED  BY <2>1, <1>1, <1>4 DEF ServerMsg
<1>6. PICK T, Q : T = toServer' /\ Q = running'  OBVIOUS
<1>7. T \in Seq(ServerMsg) /\ Longer(T, toServer, e)
  <2>1. toServer \in Seq(ServerMsg)  BY RpcInvIs DEF QueuesTyped
  <2>2. T = Append(toServer, e)  BY <1>1, <1>4, <1>6
  <2> QED  BY <2>1, <2>2, <1>5, AppendIs
<1>8. Q = running \ {r}  BY <1>1, <1>6
<1>9. Callbacks(T, toClient, Q, pendingCallbacks, floor)
  <2>1. Callbacks(toServer, toClient, running, pendingCallbacks, floor)  BY RpcInvIs
  <2>2. /\ Callbacks(toServer, toClient, Q, pendingCallbacks, floor)
        /\ r[1] \in pendingCallbacks /\ r[2] >= floor[r[1]] /\ \A u \in Q : u[1] # r[1]
        /\ \A k \in 1..Len(toClient) : ~(toClient[k].type = "callback" /\ toClient[k].id = r[1])
        /\ \A k \in 1..Len(toServer) : ~(toServer[k].type = "callback_response" /\ toServer[k].id = r[1])
    BY <2>1, <1>8, CallbackIsOver
  <2> QED  BY <2>2, <1>5, <1>7, CallbacksAppend
<1>10. Requests(T, calls, executed)
  <2>1. Requests(toServer, calls, executed)  BY RpcInvIs
  <2> QED  BY <2>1, <1>5, <1>7, RequestsAppend
<1>11. Targets(T, calls, released)
  <2>1. Targets(toServer, calls, released)  BY RpcInvIs
  <2> QED  BY <2>1, <1>5, <1>7, TargetsAppend
<1>12. Ordered(T, heap, writes)
  <2>1. e.type # "set"  BY <1>5
  <2> QED  BY <2>1, <1>7, OrderedStill
<1>13. Floors(T, calls, given, objectRefs, heap, floor)
  <2>1. Floors(toServer, calls, given, objectRefs, heap, floor)  BY RpcInvIs
  <2> QED  BY <2>1, <1>5, <1>7, FloorsAppend
<1>14. ClientTyped'
  <2>1. running \subseteq Call \X Value /\ silent \subseteq Call  BY RpcInvIs DEF ClientTyped
  <2>2. running' \subseteq Call \X Value /\ silent' \subseteq Call  BY <2>1, <1>1
  <2> QED  BY <2>2, <1>1, RpcInvIs DEF ClientTyped
<1>15. ServerTyped' /\ QueuesTyped'  BY <1>1, <1>2, <1>6, <1>7, RpcInvIs DEF ServerTyped, QueuesTyped
<1>16. /\ Counted(given, lastRef, objects) /\ Served(calls, executed, pendingCallbacks, computed, given, lastRef)
       /\ Homes(computed, given, objectRefs, released, lastRef)
       /\ Settles(calls, executed, pendingCallbacks, computed, given, floor, released)
       /\ Responses(toClient, calls, executed, pendingCallbacks, computed, given, floor)
  BY RpcInvIs
<1> QED  BY <1>1, <1>2, <1>6, <1>9, <1>10, <1>11, <1>12, <1>13, <1>14, <1>15, <1>16 DEF RpcInv

-----------------------------------------------------------------------------
(* Steps of the server *)

\* What stays true when the server takes its next message.
LEMMA ServerTakes ==
  ASSUME RpcInv, toServer # <<>>, NEW T, T = Tail(toServer)
  PROVE  /\ T \in Seq(ServerMsg) /\ Shorter(T, toServer) /\ toServer[1] \in ServerMsg /\ Head(toServer) = toServer[1]
         /\ 1 \in 1..Len(toServer)
         /\ Requests(T, calls, executed) /\ Targets(T, calls, released) /\ Ordered(T, heap, writes)
         /\ Callbacks(T, toClient, running, pendingCallbacks, floor)
         /\ toServer[1].type = "request" =>
              \A k \in 1..Len(T) : ~(T[k].type = "request" /\ T[k].id = toServer[1].id)
<1>1. T \in Seq(ServerMsg) /\ Shorter(T, toServer) /\ toServer[1] \in ServerMsg /\ Head(toServer) = toServer[1]
  <2>1. toServer \in Seq(ServerMsg)  BY RpcInvIs DEF QueuesTyped
  <2> QED  BY <2>1, TailIs
<1>2. 1 \in 1..Len(toServer)  BY <1>1 DEF Shorter
<1>3. /\ Requests(toServer, calls, executed) /\ Targets(toServer, calls, released) /\ Ordered(toServer, heap, writes)
      /\ Callbacks(toServer, toClient, running, pendingCallbacks, floor)
  BY RpcInvIs
<1>4. /\ Requests(T, calls, executed)
      /\ toServer[1].type = "request" =>
           \A k \in 1..Len(T) : ~(T[k].type = "request" /\ T[k].id = toServer[1].id)
  BY <1>1, <1>3, RequestsTail
<1>5. Targets(T, calls, released)  BY <1>1, <1>3, TargetsTail
<1>6. Ordered(T, heap, writes)  BY <1>1, <1>3, OrderedTail
<1>7. Callbacks(T, toClient, running, pendingCallbacks, floor)  BY <1>1, <1>3, CallbacksTail
<1> QED  BY <1>1, <1>2, <1>4, <1>5, <1>6, <1>7

\* The floors of the other requests, when the first message is taken and carried out.
LEMMA FloorsTail ==
  ASSUME NEW S, NEW T, Shorter(T, S), NEW K, NEW G, NEW O, NEW H, NEW F, Floors(S, K, G, O, H, F), NEW Y, NEW I,
         \A k \in 1..Len(S) : S[k].type = "request" /\ H[ObjIn(K, G, S[k].on)] >= F[S[k].id] =>
           I[ObjIn(K, G, S[k].on)] >= F[S[k].id],
         \A k \in 1..Len(S) : S[k].type = "request" /\ Ahead(S, 1, K, G, O, ObjIn(K, G, S[k].on), F[S[k].id]) =>
           I[ObjIn(K, G, S[k].on)] >= F[S[k].id],
         \A j \in 1..Len(S) : S[j].type = "set" /\ S[j].on # 0 /\ O[S[j].on] # 0
                              /\ ~(S[1].type = "release" /\ S[1].on = S[j].on) => Y[S[j].on] # 0
  PROVE  Floors(T, K, G, Y, I, F)
<1>1. Len(S) \in Nat /\ Len(T) = Len(S) - 1 /\ \A k \in 1..Len(T) : T[k] = S[k + 1]  BY DEF Shorter
<1>2. \A k \in 1..Len(T) : k + 1 \in 1..Len(S) /\ T[k] = S[k + 1]  BY <1>1
<1> SUFFICES ASSUME NEW k \in 1..Len(T), T[k].type = "request", NEW o, o = ObjIn(K, G, T[k].on),
                    ~(I[o] >= F[T[k].id])
             PROVE  \E j \in 1..(k - 1) : Ahead(T, j, K, G, Y, o, F[T[k].id])
  BY DEF Floors
<1>3. k + 1 \in 1..Len(S) /\ T[k] = S[k + 1] /\ k \in Nat /\ k < Len(S)  BY <1>1, <1>2
<1>4. PICK f : f = F[T[k].id]  OBVIOUS
<1>5. ~(H[o] >= f)  BY <1>3, <1>4
<1>6. PICK j \in 1..((k + 1) - 1) : Ahead(S, j, K, G, O, o, f)  BY <1>3, <1>4, <1>5 DEF Floors
<1>7. j # 1  BY <1>3, <1>4, <1>6
<1>8. PICK n \in 1..(k - 1) : j = n + 1  BY <1>3, <1>6, <1>7
<1>9. n \in 1..Len(T) /\ T[n] = S[j] /\ j \in 1..Len(S)  BY <1>1, <1>2, <1>3, <1>8
<1>10. S[j].type = "set" /\ ObjIn(K, G, S[j].on) = o /\ S[j].val >= f /\ (S[j].on # 0 => O[S[j].on] # 0)
       /\ \A i \in 1..(j - 1) : ~(S[i].type = "release" /\ S[i].on = S[j].on)
  BY <1>6 DEF Ahead
<1>11. 1 \in 1..(j - 1)  BY <1>8
<1>12. S[j].on # 0 => Y[S[j].on] # 0  BY <1>9, <1>10, <1>11
<1>13. ASSUME NEW i \in 1..(n - 1) PROVE T[i] = S[i + 1] /\ i + 1 \in 1..(j - 1)
  <2>1. n \in Nat /\ n < k /\ k \in Nat  BY SMTT(60), <1>3, <1>8
  <2>2. i \in Nat /\ i >= 1 /\ i < n  BY <2>1
  <2>3. i \in 1..Len(T)  BY <2>1, <2>2, <1>1
  <2>4. i + 1 \in 1..(j - 1)  BY <2>1, <2>2, <1>8
  <2> QED  BY <2>3, <2>4, <1>2
<1>14. \A i \in 1..(n - 1) : ~(T[i].type = "release" /\ T[i].on = T[n].on)  BY <1>9, <1>10, <1>13
<1>15. Ahead(T, n, K, G, Y, o, f)  BY <1>9, <1>10, <1>12, <1>14 DEF Ahead
<1> QED  BY <1>4, <1>15

\* When neither the references nor the objects change.
LEMMA FloorsTaken ==
  ASSUME RpcInv, NEW T, Shorter(T, toServer), toServer[1].type # "set"
  PROVE  Floors(T, calls, given, objectRefs, heap, floor)
<1>1. Floors(toServer, calls, given, objectRefs, heap, floor)  BY RpcInvIs
<1>2. \A o, f : ~Ahead(toServer, 1, calls, given, objectRefs, o, f)  BY DEF Ahead
<1> QED  BY <1>1, <1>2, FloorsTail

\* A reference that resolves leads to the object the client means.
LEMMA ResolvedIs ==
  ASSUME RpcInv, NEW r \in KnownIn(calls), Resolved(r) # 0
  PROVE  Resolved(r) = ObjIn(calls, given, r) /\ Resolved(r) \in Obj
<1>1. CASE r = 0  BY <1>1, NumbersAre DEF Resolved, ObjIn
<1>2. CASE r # 0
  <2>1. PICK c \in HoldsIn(calls) : r = calls[c].val  BY <1>2 DEF KnownIn
  <2>2. c \in Stored(given) /\ calls[c].val = computed[c]  BY <2>1, HeldAre
  <2>3. Homes(computed, given, objectRefs, released, lastRef) /\ Apart(calls)  BY RpcInvIs
  <2>4. objectRefs[computed[c]] = given[c].obj \/ objectRefs[computed[c]] = 0  BY <2>2, <2>3 DEF Homes
  <2>5. Resolved(r) = objectRefs[computed[c]]  BY <1>2, <2>1, <2>2 DEF Resolved
  <2>6. ObjIn(calls, given, calls[c].val) = given[c].obj  BY <2>3, ObjIs
  <2>7. ObjIn(calls, given, r) \in Obj  BY HeldAre
  <2> QED  BY <2>1, <2>4, <2>5, <2>6, <2>7
<1> QED  BY <1>1, <1>2

\* An assignment is carried out.
LEMMA SetKeeps ==
  ASSUME RpcInv, toServer # <<>>, toServer' = Tail(toServer), HandleSet(Head(toServer)), UNCHANGED client
  PROVE  RpcInv'
<1>1. UNCHANGED <<calls, chained, closed, released, running, writes, floor, silent>>  BY DEF client
<1>2. PICK T, H : T = toServer' /\ H = heap'  OBVIOUS
<1>3. /\ T \in Seq(ServerMsg) /\ Shorter(T, toServer) /\ toServer[1] \in ServerMsg /\ Head(toServer) = toServer[1]
      /\ 1 \in 1..Len(toServer)
      /\ Requests(T, calls, executed) /\ Targets(T, calls, released) /\ Ordered(T, heap, writes)
      /\ Callbacks(T, toClient, running, pendingCallbacks, floor)
  BY <1>2, ServerTakes
<1>4. PICK m \in ServerMsg : m = toServer[1]  BY <1>3
<1>5. /\ m.type = "set"
      /\ H = IF Resolved(m.on) = 0 THEN heap ELSE [heap EXCEPT ![Resolved(m.on)] = m.val]
      /\ UNCHANGED <<objectRefs, lastRef, given, toClient, objects, pendingCallbacks, executed, computed>>
  BY <1>2, <1>3, <1>4 DEF HandleSet, NoRef
<1>6. /\ Targets(toServer, calls, released) /\ Ordered(toServer, heap, writes)
      /\ Floors(toServer, calls, given, objectRefs, heap, floor)
  BY RpcInvIs
<1>7. m.on \in KnownIn(calls) /\ m.val \in Value
  <2>1. m.on \in KnownIn(calls)  BY <1>3, <1>4, <1>5, <1>6 DEF Targets
  <2> QED  BY <2>1, <1>5, ServerMsgIs
<1>8. PICK o : o = Resolved(m.on)  OBVIOUS
<1>9. o # 0 => o \in Obj /\ o = ObjIn(calls, given, m.on)  BY <1>7, <1>8, ResolvedIs
<1>10. heap \in [Obj -> Value] /\ writes \in Nat /\ Value \subseteq Nat  BY RpcInvIs, NumbersAre, ValuesAre DEF ServerTyped
<1>11. H \in [Obj -> Value]
  <2>1. CASE o = 0  BY <2>1, <1>5, <1>8, <1>10
  <2>2. CASE o # 0  BY <2>2, <1>5, <1>7, <1>8, <1>10
  <2> QED  BY <2>1, <2>2
<1>12. \A p \in Obj : H[p] = IF p = o /\ o # 0 THEN m.val ELSE heap[p]
  <2>1. CASE o = 0  BY <2>1, <1>5, <1>8
  <2>2. CASE o # 0  BY <2>2, <1>5, <1>8, <1>9, <1>10
  <2> QED  BY <2>1, <2>2
<1>13. m.val <= writes /\ \A p \in Obj : heap[p] <= m.val  BY <1>3, <1>4, <1>5, <1>6 DEF Ordered
<1>14. \A k \in 1..Len(T) : T[k].type = "set" => m.val < T[k].val
  <2> SUFFICES ASSUME NEW k \in 1..Len(T), T[k].type = "set" PROVE m.val < T[k].val
    OBVIOUS
  <2>1. k + 1 \in 1..Len(toServer) /\ 1 < k + 1 /\ T[k] = toServer[k + 1]  BY <1>3 DEF Shorter
  <2>2. toServer[1].type = "set" /\ toServer[k + 1].type = "set"  BY <2>1, <1>4, <1>5
  <2>3. toServer[1].val < toServer[k + 1].val  BY <2>1, <2>2, <1>3, <1>6 DEF Ordered
  <2> QED  BY <2>1, <2>3, <1>4
<1>15. Ordered(T, H, writes)
  <2>1. \A j, k \in 1..Len(T) : j < k /\ T[j].type = "set" /\ T[k].type = "set" => T[j].val < T[k].val
    BY <1>3 DEF Ordered
  <2>2. \A p \in Obj : H[p] <= writes  BY <1>3, <1>12, <1>13 DEF Ordered
  <2>3. ASSUME NEW k \in 1..Len(T), T[k].type = "set" PROVE T[k].val <= writes /\ \A p \in Obj : H[p] <= T[k].val
    <3>1. T[k].val <= writes /\ \A p \in Obj : heap[p] <= T[k].val  BY <1>3, <2>3 DEF Ordered
    <3>2. T[k] \in ServerMsg  BY <1>3, ElementOfSeq
    <3>3. T[k].val \in Nat /\ m.val \in Nat  BY <3>2, <2>3, <1>7, <1>10, ServerMsgIs
    <3>4. m.val <= T[k].val  BY <3>3, <2>3, <1>14
    <3> QED  BY <3>1, <3>4, <1>12
  <2> QED  BY <2>1, <2>2, <2>3 DEF Ordered
<1>16. Floors(T, calls, given, objectRefs, H, floor)
  <2> DEFINE at(k) == ObjIn(calls, given, toServer[k].on)
             f(k) == floor[toServer[k].id]
  <2>1. ASSUME NEW k \in 1..Len(toServer), toServer[k].type = "request"
        PROVE  at(k) \in Obj /\ f(k) \in Nat
    <3>1. Requests(toServer, calls, executed)  BY RpcInvIs
    <3>2. toServer[k].id \in Call /\ calls[toServer[k].id].st # "none" /\ toServer[k].on = calls[toServer[k].id].on
      BY <2>1, <3>1 DEF Requests
    <3>3. Settles(calls, executed, pendingCallbacks, computed, given, floor, released)  BY RpcInvIs
    <3>4. toServer[k].on \in KnownIn(calls)  BY <3>2, <3>3 DEF Settles
    <3>5. floor \in [Call -> Value]  BY RpcInvIs DEF ClientTyped
    <3>6. f(k) \in Value  BY <3>2, <3>5
    <3>7. at(k) \in Obj  BY <3>4, HeldAre
    <3> QED  BY <3>6, <3>7, <1>10
  <2>2. ASSUME NEW k \in 1..Len(toServer), toServer[k].type = "request", heap[at(k)] >= f(k) PROVE H[at(k)] >= f(k)
    <3>1. PICK p \in Obj, v \in Nat : p = at(k) /\ v = f(k)  BY <2>1, <2>2
    <3>2. heap[p] >= v /\ heap[p] \in Nat /\ heap[p] <= m.val /\ m.val \in Nat  BY <3>1, <2>2, <1>7, <1>10, <1>13
    <3>3. H[p] = m.val \/ H[p] = heap[p]  BY <1>12
    <3>4. H[p] >= v  BY <3>2, <3>3
    <3> QED  BY <3>1, <3>4
  <2>3. ASSUME NEW k \in 1..Len(toServer), toServer[k].type = "request",
               Ahead(toServer, 1, calls, given, objectRefs, at(k), f(k))
        PROVE  H[at(k)] >= f(k)
    <3>1. ObjIn(calls, given, m.on) = at(k) /\ m.val >= f(k) /\ (m.on # 0 => objectRefs[m.on] # 0)
      BY <2>3, <1>4 DEF Ahead
    <3>2. o # 0  BY <3>1, <1>8 DEF Resolved
    <3>3. at(k) = o  BY <3>1, <3>2, <1>9
    <3>4. H[o] = m.val  BY <3>2, <1>9, <1>12
    <3> QED  BY <3>1, <3>3, <3>4
  <2>4. \A j \in 1..Len(toServer) : objectRefs[toServer[j].on] # 0 => objectRefs[toServer[j].on] # 0  OBVIOUS
  <2> QED  BY <2>2, <2>3, <2>4, <1>3, <1>6, FloorsTail
<1>17. ClientTyped' /\ QueuesTyped'  BY <1>1, <1>2, <1>3, <1>5, RpcInvIs DEF ClientTyped, QueuesTyped
<1>18. ServerTyped'  BY <1>2, <1>5, <1>11, RpcInvIs DEF ServerTyped
<1>19. /\ Counted(given, lastRef, objects) /\ Served(calls, executed, pendingCallbacks, computed, given, lastRef)
       /\ Homes(computed, given, objectRefs, released, lastRef)
       /\ Settles(calls, executed, pendingCallbacks, computed, given, floor, released)
       /\ Responses(toClient, calls, executed, pendingCallbacks, computed, given, floor)
  BY RpcInvIs
<1> QED  BY <1>1, <1>2, <1>3, <1>5, <1>15, <1>16, <1>17, <1>18, <1>19 DEF RpcInv

\* A reference is released.
LEMMA ReleasedKeeps ==
  ASSUME RpcInv, toServer # <<>>, toServer' = Tail(toServer), HandleRelease(Head(toServer)), UNCHANGED client
  PROVE  RpcInv'
<1>1. UNCHANGED <<calls, chained, closed, released, running, writes, floor, silent>>  BY DEF client
<1>2. PICK T, O : T = toServer' /\ O = objectRefs'  OBVIOUS
<1>3. /\ T \in Seq(ServerMsg) /\ Shorter(T, toServer) /\ toServer[1] \in ServerMsg /\ Head(toServer) = toServer[1]
      /\ 1 \in 1..Len(toServer)
      /\ Requests(T, calls, executed) /\ Targets(T, calls, released) /\ Ordered(T, heap, writes)
      /\ Callbacks(T, toClient, running, pendingCallbacks, floor)
  BY <1>2, ServerTakes
<1>4. PICK m \in ServerMsg : m = toServer[1]  BY <1>3
<1>5. /\ m.type = "release" /\ O = [objectRefs EXCEPT ![m.on] = 0]
      /\ UNCHANGED <<toClient, lastRef, objects, heap, pendingCallbacks, given, executed, computed>>
  BY <1>2, <1>3, <1>4 DEF HandleRelease
<1>6. Targets(toServer, calls, released) /\ Floors(toServer, calls, given, objectRefs, heap, floor)
      /\ Homes(computed, given, objectRefs, released, lastRef)
      /\ Settles(calls, executed, pendingCallbacks, computed, given, floor, released)
  BY RpcInvIs
<1>7. m.on \in Ref  BY <1>5, ServerMsgIs
<1>8. objectRefs \in [Ref -> {0} \cup Obj] /\ lastRef \in {0} \cup Ref  BY RpcInvIs DEF ServerTyped
<1>9. O \in [Ref -> {0} \cup Obj] /\ O[m.on] = 0 /\ \A r \in Ref : r # m.on => O[r] = objectRefs[r]
  BY <1>5, <1>7, <1>8
<1>10. PICK d \in released : calls[d].val = m.on  BY <1>3, <1>4, <1>5, <1>6 DEF Targets
<1>11. d \in Stored(given) /\ computed[d] = m.on
  <2>1. d \in HoldsIn(calls)  BY <1>6, <1>10 DEF Settles
  <2> QED  BY <2>1, <1>10, HeldAre
<1>12. \A c \in Stored(given) : computed[c] \in Ref
  <2>1. Served(calls, executed, pendingCallbacks, computed, given, lastRef)  BY RpcInvIs
  <2>2. lastRef \in Nat /\ Cardinality(Call) \in Nat /\ lastRef <= Cardinality(Call)  BY <1>8, NumbersAre DEF Ref
  <2>3. \A c \in Stored(given) : computed[c] \in 1..lastRef  BY <2>1 DEF Served, Stored
  <2> QED  BY <2>2, <2>3 DEF Ref
<1>13. Homes(computed, given, O, released, lastRef)
  <2>1. ASSUME NEW c \in Stored(given)
        PROVE  O[computed[c]] = given[c].obj \/ (O[computed[c]] = 0 /\ c \in released)
    <3>1. CASE computed[c] = m.on
      <4>1. c = d  BY <3>1, <1>6, <1>11 DEF Homes
      <4> QED  BY <4>1, <3>1, <1>9, <1>10
    <3>2. CASE computed[c] # m.on
      <4>1. O[computed[c]] = objectRefs[computed[c]]  BY <3>2, <1>9, <1>12
      <4> QED  BY <4>1, <1>6 DEF Homes
    <3> QED  BY <3>1, <3>2
  <2>2. \A c, e \in Stored(given) : computed[c] = computed[e] => c = e  BY <1>6 DEF Homes
  <2> QED  BY <2>1, <2>2 DEF Homes
<1>14. Floors(T, calls, given, O, heap, floor)
  <2>1. \A o, f : ~Ahead(toServer, 1, calls, given, objectRefs, o, f)  BY <1>4, <1>5 DEF Ahead
  <2>2. ASSUME NEW j \in 1..Len(toServer), toServer[j].type = "set", toServer[j].on # 0, objectRefs[toServer[j].on] # 0,
               ~(toServer[1].type = "release" /\ toServer[1].on = toServer[j].on)
        PROVE  O[toServer[j].on] # 0
    <3>1. toServer[j] \in ServerMsg  BY ValuesAre
    <3>2. toServer[j].on \in Ref  BY <3>1, <2>2, ServerMsgIs
    <3>3. toServer[j].on # m.on  BY <2>2, <1>4, <1>5
    <3> QED  BY <3>2, <3>3, <2>2, <1>9
  <2> QED  BY <2>1, <2>2, <1>3, <1>6, FloorsTail
<1>15. ClientTyped' /\ QueuesTyped'  BY <1>1, <1>2, <1>3, <1>5, RpcInvIs DEF ClientTyped, QueuesTyped
<1>16. ServerTyped'  BY <1>2, <1>5, <1>9, RpcInvIs DEF ServerTyped
<1>17. /\ Counted(given, lastRef, objects) /\ Served(calls, executed, pendingCallbacks, computed, given, lastRef)
       /\ Responses(toClient, calls, executed, pendingCallbacks, computed, given, floor)
  BY RpcInvIs
<1> QED  BY <1>1, <1>2, <1>3, <1>5, <1>6, <1>13, <1>14, <1>15, <1>16, <1>17 DEF RpcInv

\* What is said of the other calls stays when the server deals with one that
\* was not answered.
NewsOf(i, X, P, V, G, Y, Q, W, D) ==
  /\ ~(X[i] = 1 /\ i \notin P)
  /\ \A c \in Call : c # i => Y[c] = X[c] /\ (c \in Q <=> c \in P) /\ W[c] = V[c] /\ D[c] = G[c]

\* The calls that were answered stay answered.
LEMMA SettlesOthers ==
  ASSUME NEW i, NEW X, NEW P, NEW V, NEW G, NEW Y, NEW Q, NEW W, NEW D, NewsOf(i, X, P, V, G, Y, Q, W, D),
         NEW K, NEW F, NEW R, Settles(K, X, P, V, G, F, R)
  PROVE  Settles(K, Y, Q, W, D, F, R) /\ HoldsMore(K, G, K, D)
<1>1. ASSUME NEW c \in Call, K[c].st = "done"
      PROVE  c # i /\ Answers(c, K[c].val, Y, Q, W) /\ Good(c, K[c].val, K, D, F)
  <2>1. Answers(c, K[c].val, X, P, V) /\ Good(c, K[c].val, K, G, F)  BY <1>1 DEF Settles
  <2>2. c # i  BY <2>1 DEF Answers, NewsOf
  <2>3. Y[c] = X[c] /\ (c \in Q <=> c \in P) /\ W[c] = V[c] /\ D[c] = G[c]  BY <2>2 DEF NewsOf
  <2> QED  BY <2>1, <2>2, <2>3 DEF Answers, Good
<1>2. Settles(K, Y, Q, W, D, F, R)  BY <1>1 DEF Settles
<1>3. \A c \in HoldsIn(K) : D[c] = G[c]  BY <1>1 DEF HoldsIn, NewsOf
<1> QED  BY <1>2, <1>3 DEF HoldsMore

\* The answers on their way stay good.
LEMMA ResponsesOthers ==
  ASSUME NEW i, NEW X, NEW P, NEW V, NEW G, NEW Y, NEW Q, NEW W, NEW D, NewsOf(i, X, P, V, G, Y, Q, W, D),
         NEW K, NEW F, NEW C, Responses(C, K, X, P, V, G, F)
  PROVE  Responses(C, K, Y, Q, W, D, F)
<1> SUFFICES ASSUME NEW k \in 1..Len(C), C[k].type = "response"
             PROVE  C[k].id \in Call /\ Answers(C[k].id, C[k].val, Y, Q, W) /\ (C[k].ok => Good(C[k].id, C[k].val, K, D, F))
  BY DEF Responses
<1>1. PICK c : c = C[k].id  OBVIOUS
<1>2. c \in Call /\ Answers(c, C[k].val, X, P, V) /\ (C[k].ok => Good(c, C[k].val, K, G, F))
  BY <1>1 DEF Responses
<1>3. c # i  BY <1>2 DEF Answers, NewsOf
<1>4. Y[c] = X[c] /\ (c \in Q <=> c \in P) /\ W[c] = V[c] /\ D[c] = G[c]  BY <1>2, <1>3 DEF NewsOf
<1>5. Answers(c, C[k].val, Y, Q, W) /\ (C[k].ok => Good(c, C[k].val, K, D, F))  BY <1>2, <1>4 DEF Answers, Good
<1> QED  BY <1>1, <1>2, <1>5

\* What was done for the other calls stays.
LEMMA ServedOthers ==
  ASSUME NEW i, NEW X, NEW P, NEW V, NEW G, NEW Y, NEW Q, NEW W, NEW D, NewsOf(i, X, P, V, G, Y, Q, W, D),
         NEW K, NEW L \in Nat, NEW M \in Nat, L <= M, Served(K, X, P, V, G, L),
         Y[i] = 1, K[i].st \notin {"none", "lazy"}, i \in Q => K[i].op = "via",
         D[i].obj # 0 => K[i].op \in {"make", "self"} /\ W[i] \in 1..M
  PROVE  Served(K, Y, Q, W, D, M)
<1> SUFFICES ASSUME NEW c \in Call
             PROVE  /\ Y[c] = 0 => D[c].obj = 0 /\ c \notin Q
                    /\ Y[c] = 1 => K[c].st \notin {"none", "lazy"}
                    /\ c \in Q => K[c].op = "via"
                    /\ D[c].obj # 0 => K[c].op \in {"make", "self"} /\ W[c] \in 1..M
  BY DEF Served
<1>1. CASE c = i  BY <1>1
<1>2. CASE c # i
  <2>1. Y[c] = X[c] /\ (c \in Q <=> c \in P) /\ W[c] = V[c] /\ D[c] = G[c]  BY <1>2 DEF NewsOf
  <2>2. /\ X[c] = 0 => G[c].obj = 0 /\ c \notin P
        /\ X[c] = 1 => K[c].st \notin {"none", "lazy"}
        /\ c \in P => K[c].op = "via"
        /\ G[c].obj # 0 => K[c].op \in {"make", "self"} /\ V[c] \in 1..L
    BY DEF Served
  <2>3. V[c] \in 1..L => V[c] \in 1..M  OBVIOUS
  <2> QED  BY <2>1, <2>2, <2>3
<1> QED  BY <1>1, <1>2

\* The callbacks on their way do not see one that is no longer, or not yet,
\* waited for.
LEMMA CallbacksWider ==
  ASSUME NEW S, NEW C, NEW U, NEW P, NEW F, Callbacks(S, C, U, P, F), NEW Q, P \subseteq Q
  PROVE  Callbacks(S, C, U, Q, F)
<1>1. \A x \in P : x \in Q  OBVIOUS
<1> QED  BY <1>1 DEF Callbacks

\* The callbacks, when the server waits for one less.
LEMMA CallbacksFewer ==
  ASSUME NEW S, NEW C, NEW U, NEW P, NEW F, Callbacks(S, C, U, P, F), NEW i,
         \A u \in U : u[1] # i,
         \A k \in 1..Len(C) : ~(C[k].type = "callback" /\ C[k].id = i),
         \A k \in 1..Len(S) : ~(S[k].type = "callback_response" /\ S[k].id = i)
  PROVE  Callbacks(S, C, U, P \ {i}, F)
<1>1. \A x \in P : x # i => x \in P \ {i}  OBVIOUS
<1>2. PICK Q : Q = P \ {i}  OBVIOUS
<1>3. \A k \in 1..Len(C) : C[k].type = "callback" => C[k].id \in Q  BY <1>1, <1>2 DEF Callbacks
<1>4. \A u \in U : u[1] \in Q  BY <1>1, <1>2 DEF Callbacks
<1>5. \A k \in 1..Len(S) : S[k].type = "callback_response" => S[k].id \in Q  BY <1>1, <1>2 DEF Callbacks
<1>6. Callbacks(S, C, U, Q, F)  BY <1>3, <1>4, <1>5 DEF Callbacks
<1> QED  BY <1>2, <1>6

\* The answer of a callback is the answer to its call.
LEMMA CallbackResponseKeeps ==
  ASSUME RpcInv, toServer # <<>>, toServer' = Tail(toServer), HandleCallbackResponse(Head(toServer)), UNCHANGED client
  PROVE  RpcInv'
<1>1. UNCHANGED <<calls, chained, closed, released, running, writes, floor, silent>>  BY DEF client
<1>2. PICK T, P, V, C : T = toServer' /\ P = pendingCallbacks' /\ V = computed' /\ C = toClient'  OBVIOUS
<1>3. /\ T \in Seq(ServerMsg) /\ Shorter(T, toServer) /\ toServer[1] \in ServerMsg /\ Head(toServer) = toServer[1]
      /\ 1 \in 1..Len(toServer)
      /\ Requests(T, calls, executed) /\ Targets(T, calls, released) /\ Ordered(T, heap, writes)
      /\ Callbacks(T, toClient, running, pendingCallbacks, floor)
  BY <1>2, ServerTakes
<1>4. PICK m \in ServerMsg : m = toServer[1]  BY <1>3
<1>5. /\ m.type = "callback_response" /\ P = pendingCallbacks \ {m.id}
      /\ \/ /\ m.how \in {"value", "error"}
            /\ C = Append(toClient, [type |-> "response", id |-> m.id, ok |-> m.how = "value", val |-> m.val])
            /\ V = [computed EXCEPT ![m.id] = m.val]
         \/ C = toClient /\ V = computed
      /\ UNCHANGED <<objectRefs, lastRef, given, objects, heap, executed>>
  BY <1>2, <1>3, <1>4 DEF HandleCallbackResponse, AnswerCall, NoRef, Reports
<1>6. PICK i \in Call, v \in Value : i = m.id /\ v = m.val  BY <1>5, ServerMsgIs
<1>7. Callbacks(toServer, toClient, running, pendingCallbacks, floor)  BY RpcInvIs
<1>8. /\ i \in pendingCallbacks /\ v >= floor[i]
      /\ \A j \in 1..Len(toServer) : toServer[j].type = "callback_response" /\ toServer[j].id = i => j = 1
  BY <1>3, <1>4, <1>5, <1>6, <1>7 DEF Callbacks
<1>9. /\ \A u \in running : u[1] # i
      /\ \A k \in 1..Len(toClient) : ~(toClient[k].type = "callback" /\ toClient[k].id = i)
  <2>1. ASSUME NEW u \in running PROVE u[1] # i
    BY <1>3, <1>4, <1>5, <1>6, <1>7 DEF Callbacks
  <2>2. ASSUME NEW k \in 1..Len(toClient), toClient[k].type = "callback", toClient[k].id = i PROVE FALSE
    BY <2>2, <1>3, <1>4, <1>5, <1>6, <1>7 DEF Callbacks
  <2> QED  BY <2>1, <2>2
<1>10. \A k \in 1..Len(T) : ~(T[k].type = "callback_response" /\ T[k].id = i)
  <2> SUFFICES ASSUME NEW k \in 1..Len(T), T[k].type = "callback_response", T[k].id = i PROVE FALSE
    OBVIOUS
  <2>1. k + 1 \in 1..Len(toServer) /\ k + 1 # 1 /\ T[k] = toServer[k + 1]  BY <1>3 DEF Shorter
  <2> QED  BY <2>1, <1>8
<1>11. computed \in [Call -> {0} \cup Ref \cup Value] /\ executed \in [Call -> {0, 1}] /\ pendingCallbacks \subseteq Call
       /\ lastRef \in Nat /\ toClient \in Seq(ClientMsg)
  <2>1. lastRef \in {0} \cup Ref  BY RpcInvIs DEF ServerTyped
  <2> QED  BY <2>1, NumbersAre, RpcInvIs DEF ServerTyped, QueuesTyped
<1>12. /\ Served(calls, executed, pendingCallbacks, computed, given, lastRef)
       /\ Settles(calls, executed, pendingCallbacks, computed, given, floor, released)
       /\ Responses(toClient, calls, executed, pendingCallbacks, computed, given, floor)
       /\ Homes(computed, given, objectRefs, released, lastRef)
  BY RpcInvIs
<1>13. executed[i] = 1 /\ calls[i].op = "via" /\ calls[i].st \notin {"none", "lazy"} /\ given[i].obj = 0
  <2>1. executed[i] \in {0, 1}  BY <1>11
  <2>2. executed[i] = 1 /\ calls[i].op = "via"  BY <2>1, <1>8, <1>12 DEF Served
  <2>3. ~(calls[i].op \in {"make", "self"})  BY <2>2
  <2> QED  BY <2>2, <2>3, <1>12 DEF Served
<1>14. /\ V \in [Call -> {0} \cup Ref \cup Value] /\ (\A c \in Call : c # i => V[c] = computed[c])
       /\ \/ C = toClient
          \/ /\ V[i] = v
             /\ \E ok \in BOOLEAN : C = Append(toClient, [type |-> "response", id |-> i, ok |-> ok, val |-> v])
  BY <1>5, <1>6, <1>11
<1>15. P \subseteq Call /\ i \notin P /\ \A c \in Call : c # i => (c \in P <=> c \in pendingCallbacks)
  BY <1>5, <1>6, <1>11
<1>16. NewsOf(i, executed, pendingCallbacks, computed, given, executed, P, V, given)
  BY <1>8, <1>14, <1>15 DEF NewsOf
<1>17. Served(calls, executed, P, V, given, lastRef)
  BY <1>11, <1>12, <1>13, <1>15, <1>16, ServedOthers
<1>18. Settles(calls, executed, P, V, given, floor, released)  BY <1>12, <1>16, SettlesOthers
<1>19. Responses(toClient, calls, executed, P, V, given, floor)  BY <1>12, <1>16, ResponsesOthers
<1>20. Callbacks(T, toClient, running, P, floor)
  <2>1. Callbacks(T, toClient, running, pendingCallbacks \ {i}, floor)  BY <1>3, <1>9, <1>10, CallbacksFewer
  <2> QED  BY <2>1, <1>5, <1>6
<1>21. Homes(V, given, objectRefs, released, lastRef)
  <2>1. \A c \in Stored(given) : V[c] = computed[c]  BY <1>13, <1>14 DEF Stored
  <2> QED  BY <2>1, <1>12 DEF Homes
<1>22. C \in Seq(ClientMsg) /\ Responses(C, calls, executed, P, V, given, floor) /\ Callbacks(T, C, running, P, floor)
  <2>1. CASE C = toClient  BY <2>1, <1>11, <1>19, <1>20
  <2>2. ASSUME V[i] = v, NEW ok \in BOOLEAN, C = Append(toClient, [type |-> "response", id |-> i, ok |-> ok, val |-> v])
        PROVE  C \in Seq(ClientMsg) /\ Responses(C, calls, executed, P, V, given, floor) /\ Callbacks(T, C, running, P, floor)
    <3>1. PICK e : e = [type |-> "response", id |-> i, ok |-> ok, val |-> v]  OBVIOUS
    <3>2. e.type = "response" /\ e.id = i /\ e.val = v /\ e \in ClientMsg  BY <3>1 DEF ClientMsg
    <3>3. C \in Seq(ClientMsg) /\ Longer(C, toClient, e)
      <4>1. C = Append(toClient, e)  BY <2>2, <3>1
      <4> QED  BY <4>1, <3>2, <1>11, AppendIs
    <3>4. Answers(i, v, executed, P, V) /\ Good(i, v, calls, given, floor)
      BY <2>2, <1>8, <1>13, <1>15 DEF Answers, Good
    <3>5. Responses(C, calls, executed, P, V, given, floor)  BY <3>2, <3>3, <3>4, <1>19, ResponsesAppend
    <3>6. Callbacks(T, C, running, P, floor)  BY <3>2, <3>3, <1>20, CallbacksSent
    <3> QED  BY <3>3, <3>5, <3>6
  <2> QED  BY <2>1, <2>2, <1>14
<1>23. Floors(T, calls, given, objectRefs, heap, floor)
  <2>1. toServer[1].type # "set"  BY <1>4, <1>5
  <2> QED  BY <2>1, <1>3, FloorsTaken
<1>24. ClientTyped' /\ QueuesTyped'  BY <1>1, <1>2, <1>3, <1>22, RpcInvIs DEF ClientTyped, QueuesTyped
<1>25. ServerTyped'  BY <1>2, <1>5, <1>14, <1>15, RpcInvIs DEF ServerTyped
<1>26. Counted(given, lastRef, objects)  BY RpcInvIs
<1> QED
  BY <1>1, <1>2, <1>3, <1>5, <1>17, <1>18, <1>21, <1>22, <1>23, <1>24, <1>25, <1>26 DEF RpcInv

\* A request is carried out: what is known of its call, and what stays.
LEMMA RequestIs ==
  ASSUME RpcInv, toServer # <<>>, NEW T, T = Tail(toServer), NEW i, toServer[1].type = "request", toServer[1].id = i
  PROVE  /\ i \in Call /\ executed[i] = 0 /\ i \notin pendingCallbacks /\ given[i].obj = 0
         /\ calls[i].st \notin {"none", "lazy"} /\ toServer[1].op = calls[i].op /\ toServer[1].on = calls[i].on
         /\ calls[i].on \in KnownIn(calls) /\ heap[ObjIn(calls, given, calls[i].on)] >= floor[i]
<1>1. 1 \in 1..Len(toServer)  BY ServerTakes
<1>2. /\ Requests(toServer, calls, executed) /\ Floors(toServer, calls, given, objectRefs, heap, floor)
      /\ Served(calls, executed, pendingCallbacks, computed, given, lastRef)
      /\ Settles(calls, executed, pendingCallbacks, computed, given, floor, released)
  BY RpcInvIs
<1>3. /\ i \in Call /\ executed[i] = 0 /\ calls[i].st \notin {"none", "lazy"}
      /\ toServer[1].op = calls[i].op /\ toServer[1].on = calls[i].on
  BY <1>1, <1>2 DEF Requests
<1>4. i \notin pendingCallbacks /\ given[i].obj = 0  BY <1>2, <1>3 DEF Served
<1>5. calls[i].on \in KnownIn(calls)
  <2>1. calls[i].st # "none"  BY <1>3
  <2> QED  BY <2>1, <1>2, <1>3 DEF Settles
<1>6. heap[ObjIn(calls, given, calls[i].on)] >= floor[i]
  <2>1. heap[ObjIn(calls, given, toServer[1].on)] >= floor[toServer[1].id] \/ \E j \in 1..(1 - 1) : TRUE
    BY <1>1, <1>2 DEF Floors
  <2>2. 1..(1 - 1) = {}  OBVIOUS
  <2> QED  BY <2>1, <2>2, <1>3
<1> QED  BY <1>3, <1>4, <1>5, <1>6

Executes(i, Y) == Y \in [Call -> {0, 1}] /\ Y[i] = 1 /\ \A c \in Call : c # i => Y[c] = executed[c]

\* A call that was not carried out is carried out once.
LEMMA ExecutedIs ==
  ASSUME RpcInv, NEW i \in Call, executed[i] = 0, NEW Y, Y = [executed EXCEPT ![i] = @ + 1]
  PROVE  Executes(i, Y)
<1>1. executed \in [Call -> {0, 1}]  BY RpcInvIs DEF ServerTyped
<1>2. PICK n : n = executed[i] + 1  OBVIOUS
<1>3. n = 1 /\ Y = [executed EXCEPT ![i] = n]  BY <1>2
<1>4. Y \in [Call -> {0, 1}]  BY <1>1, <1>3
<1>5. Y[i] = 1  BY <1>1, <1>3
<1>6. \A c \in Call : c # i => Y[c] = executed[c]  BY <1>1, <1>3
<1> QED  BY <1>4, <1>5, <1>6 DEF Executes

NoneFor(T, i) == \A k \in 1..Len(T) : ~(T[k].type = "request" /\ T[k].id = i)

\* The other requests were not carried out yet.
LEMMA RequestsDone ==
  ASSUME NEW T, NEW K, Requests(T, K, executed), NEW i, NEW Y, Executes(i, Y), NoneFor(T, i)
  PROVE  Requests(T, K, Y)
<1>1. ASSUME NEW k \in 1..Len(T), T[k].type = "request"
      PROVE  /\ T[k].id \in Call /\ Y[T[k].id] = 0 /\ K[T[k].id].st \notin {"none", "lazy"}
             /\ T[k].op = K[T[k].id].op /\ T[k].on = K[T[k].id].on
  <2>1. /\ T[k].id \in Call /\ executed[T[k].id] = 0 /\ K[T[k].id].st \notin {"none", "lazy"}
        /\ T[k].op = K[T[k].id].op /\ T[k].on = K[T[k].id].on
    BY <1>1 DEF Requests
  <2>2. T[k].id # i  BY <1>1 DEF NoneFor
  <2> QED  BY <2>1, <2>2 DEF Executes
<1>2. \A j, k \in 1..Len(T) : T[j].type = "request" /\ T[k].type = "request" /\ T[j].id = T[k].id => j = k
  BY DEF Requests
<1> QED  BY <1>1, <1>2 DEF Requests

\* It fails, reads, or returns nothing.
LEMMA AnsweredKeeps ==
  ASSUME RpcInv, toServer # <<>>, toServer' = Tail(toServer), UNCHANGED client, UNCHANGED heap,
         NEW i, toServer[1].type = "request", toServer[1].id = i,
         Executes(i, executed'), NEW ok \in BOOLEAN, NEW v \in {0} \cup Ref \cup Value,
         AnswerCall(i, ok, v), NoRef, UNCHANGED <<objects, pendingCallbacks>>,
         ok => Good(i, v, calls, given, floor)
  PROVE  RpcInv'
<1>1. UNCHANGED <<calls, chained, closed, released, running, writes, floor, silent, objectRefs, lastRef, given>>
  BY DEF client, NoRef
<1>2. PICK T, Y, W, C : T = toServer' /\ Y = executed' /\ W = computed' /\ C = toClient'  OBVIOUS
<1>3. /\ T \in Seq(ServerMsg) /\ Shorter(T, toServer)
      /\ Requests(T, calls, executed) /\ Targets(T, calls, released) /\ Ordered(T, heap, writes)
      /\ Callbacks(T, toClient, running, pendingCallbacks, floor)
      /\ \A k \in 1..Len(T) : ~(T[k].type = "request" /\ T[k].id = i)
  BY <1>2, ServerTakes
<1>4. /\ i \in Call /\ executed[i] = 0 /\ i \notin pendingCallbacks /\ given[i].obj = 0
      /\ calls[i].st \notin {"none", "lazy"}
  BY RequestIs
<1>5. Y \in [Call -> {0, 1}] /\ Y[i] = 1 /\ \A c \in Call : c # i => Y[c] = executed[c]  BY <1>2 DEF Executes
<1>6. PICK e : e = [type |-> "response", id |-> i, ok |-> ok, val |-> v]  OBVIOUS
<1>7. e.type = "response" /\ e.id = i /\ e.val = v /\ e.ok = ok /\ e \in ClientMsg  BY <1>4, <1>6 DEF ClientMsg
<1>8. C = Append(toClient, e) /\ W = [computed EXCEPT ![i] = v]  BY <1>2, <1>6 DEF AnswerCall
<1>9. computed \in [Call -> {0} \cup Ref \cup Value] /\ lastRef \in Nat /\ toClient \in Seq(ClientMsg)
  <2>1. lastRef \in {0} \cup Ref  BY RpcInvIs DEF ServerTyped
  <2> QED  BY <2>1, NumbersAre, RpcInvIs DEF ServerTyped, QueuesTyped
<1>10. W \in [Call -> {0} \cup Ref \cup Value] /\ W[i] = v /\ \A c \in Call : c # i => W[c] = computed[c]
  BY <1>4, <1>8, <1>9
<1>11. C \in Seq(ClientMsg) /\ Longer(C, toClient, e)  BY <1>7, <1>8, <1>9, AppendIs
<1>12. NewsOf(i, executed, pendingCallbacks, computed, given, Y, pendingCallbacks, W, given)
  BY <1>4, <1>5, <1>10 DEF NewsOf
<1>13. /\ Served(calls, executed, pendingCallbacks, computed, given, lastRef)
       /\ Settles(calls, executed, pendingCallbacks, computed, given, floor, released)
       /\ Responses(toClient, calls, executed, pendingCallbacks, computed, given, floor)
       /\ Homes(computed, given, objectRefs, released, lastRef)
  BY RpcInvIs
<1>14. Served(calls, Y, pendingCallbacks, W, given, lastRef)
  BY <1>4, <1>5, <1>9, <1>12, <1>13, ServedOthers
<1>15. Settles(calls, Y, pendingCallbacks, W, given, floor, released)  BY <1>12, <1>13, SettlesOthers
<1>16. Responses(C, calls, Y, pendingCallbacks, W, given, floor)
  <2>1. Responses(toClient, calls, Y, pendingCallbacks, W, given, floor)  BY <1>12, <1>13, ResponsesOthers
  <2>2. Answers(i, v, Y, pendingCallbacks, W)  BY <1>4, <1>5, <1>10 DEF Answers
  <2> QED  BY <2>1, <2>2, <1>4, <1>7, <1>11, ResponsesAppend
<1>17. Callbacks(T, C, running, pendingCallbacks, floor)  BY <1>3, <1>7, <1>11, CallbacksSent
<1>18. Homes(W, given, objectRefs, released, lastRef)
  <2>1. \A c \in Stored(given) : W[c] = computed[c]  BY <1>4, <1>10 DEF Stored
  <2> QED  BY <2>1, <1>13 DEF Homes
<1>19. Requests(T, calls, Y)
  <2>1. Requests(T, calls, executed)  BY <1>3
  <2>2. NoneFor(T, i)  BY <1>3 DEF NoneFor
  <2>3. Executes(i, Y)  BY <1>2
  <2> QED  BY <2>1, <2>2, <2>3, RequestsDone
<1>20. Floors(T, calls, given, objectRefs, heap, floor)  BY <1>3, FloorsTaken
<1>21. ClientTyped' /\ QueuesTyped'  BY <1>1, <1>2, <1>3, <1>11, RpcInvIs DEF ClientTyped, QueuesTyped
<1>22. ServerTyped'  BY <1>1, <1>2, <1>5, <1>10, RpcInvIs DEF ServerTyped
<1>23. Counted(given, lastRef, objects)  BY RpcInvIs
<1> QED
  BY <1>1, <1>2, <1>3, <1>14, <1>15, <1>16, <1>17, <1>18, <1>19, <1>20, <1>21, <1>22, <1>23 DEF RpcInv

\* It asks the client first.
LEMMA ViaKeeps ==
  ASSUME RpcInv, toServer # <<>>, toServer' = Tail(toServer), UNCHANGED client, UNCHANGED heap,
         NEW i, toServer[1].type = "request", toServer[1].id = i,
         Executes(i, executed'), calls[i].op = "via",
         NEW e \in ClientMsg, e.type = "callback", e.id = i, e.val >= floor[i],
         toClient' \in Seq(ClientMsg), Longer(toClient', toClient, e),
         pendingCallbacks' = pendingCallbacks \cup {i}, NoRef, UNCHANGED <<objects, computed>>
  PROVE  RpcInv'
<1>1. UNCHANGED <<calls, chained, closed, released, running, writes, floor, silent, objectRefs, lastRef, given>>
  BY DEF client, NoRef
<1>2. PICK T, Y, Q, C : T = toServer' /\ Y = executed' /\ Q = pendingCallbacks' /\ C = toClient'  OBVIOUS
<1>3. /\ T \in Seq(ServerMsg) /\ Shorter(T, toServer)
      /\ Requests(T, calls, executed) /\ Targets(T, calls, released) /\ Ordered(T, heap, writes)
      /\ Callbacks(T, toClient, running, pendingCallbacks, floor)
      /\ \A k \in 1..Len(T) : ~(T[k].type = "request" /\ T[k].id = i)
  BY <1>2, ServerTakes
<1>4. /\ i \in Call /\ executed[i] = 0 /\ i \notin pendingCallbacks /\ given[i].obj = 0
      /\ calls[i].st \notin {"none", "lazy"}
  BY RequestIs
<1>5. Y \in [Call -> {0, 1}] /\ Y[i] = 1 /\ \A c \in Call : c # i => Y[c] = executed[c]  BY <1>2 DEF Executes
<1>8. lastRef \in Nat /\ toClient \in Seq(ClientMsg) /\ pendingCallbacks \subseteq Call
  <2>1. lastRef \in {0} \cup Ref  BY RpcInvIs DEF ServerTyped
  <2> QED  BY <2>1, NumbersAre, RpcInvIs DEF ServerTyped, QueuesTyped
<1>9. C \in Seq(ClientMsg) /\ Longer(C, toClient, e)  BY <1>2
<1>10. Q = pendingCallbacks \cup {i} /\ Q \subseteq Call /\ i \in Q
       /\ \A c \in Call : c # i => (c \in Q <=> c \in pendingCallbacks)
  BY <1>2, <1>4, <1>8
<1>11. NewsOf(i, executed, pendingCallbacks, computed, given, Y, Q, computed, given)
  BY <1>4, <1>5, <1>10 DEF NewsOf
<1>12. /\ Served(calls, executed, pendingCallbacks, computed, given, lastRef)
       /\ Settles(calls, executed, pendingCallbacks, computed, given, floor, released)
       /\ Responses(toClient, calls, executed, pendingCallbacks, computed, given, floor)
       /\ Homes(computed, given, objectRefs, released, lastRef)
  BY RpcInvIs
<1>13. Served(calls, Y, Q, computed, given, lastRef)
  BY <1>4, <1>5, <1>8, <1>11, <1>12, ServedOthers
<1>14. Settles(calls, Y, Q, computed, given, floor, released)  BY <1>11, <1>12, SettlesOthers
<1>15. Responses(C, calls, Y, Q, computed, given, floor)
  <2>1. Responses(toClient, calls, Y, Q, computed, given, floor)  BY <1>11, <1>12, ResponsesOthers
  <2> QED  BY <2>1, <1>9, ResponsesAppend
<1>16. /\ \A u \in running : u[1] # i
       /\ \A k \in 1..Len(toClient) : ~(toClient[k].type = "callback" /\ toClient[k].id = i)
       /\ \A k \in 1..Len(T) : ~(T[k].type = "callback_response" /\ T[k].id = i)
  BY <1>3, <1>4 DEF Callbacks
<1>17. Callbacks(T, C, running, Q, floor)
  <2>1. Callbacks(T, toClient, running, pendingCallbacks, floor) /\ pendingCallbacks \subseteq Q  BY <1>3, <1>10
  <2>2. Callbacks(T, toClient, running, Q, floor)  BY <2>1, CallbacksWider
  <2>3. e.id \in Q /\ e.val >= floor[e.id]  BY <1>10
  <2> QED  BY <2>2, <2>3, <1>9, <1>16, CallbacksSent
<1>18. Requests(T, calls, Y)
  <2>1. Requests(T, calls, executed)  BY <1>3
  <2>2. NoneFor(T, i)  BY <1>3 DEF NoneFor
  <2>3. Executes(i, Y)  BY <1>2
  <2> QED  BY <2>1, <2>2, <2>3, RequestsDone
<1>19. Floors(T, calls, given, objectRefs, heap, floor)  BY <1>3, FloorsTaken
<1>20. ClientTyped' /\ QueuesTyped'  BY <1>1, <1>2, <1>3, <1>9, RpcInvIs DEF ClientTyped, QueuesTyped
<1>21. ServerTyped'  BY <1>1, <1>2, <1>5, <1>10, RpcInvIs DEF ServerTyped
<1>22. Counted(given, lastRef, objects)  BY RpcInvIs
<1> QED
  BY <1>1, <1>2, <1>3, <1>12, <1>13, <1>14, <1>15, <1>17, <1>18, <1>19, <1>20, <1>21, <1>22 DEF RpcInv

\* There is a reference, and an object, left for a call that has none yet.
LEMMA RoomIs ==
  ASSUME RpcInv, NEW i \in Call, given[i].obj = 0
  PROVE  lastRef \in Nat /\ lastRef + 1 \in Ref /\ objects + 1 \in Obj
         /\ Stored(given) \in SUBSET Call /\ IsFiniteSet(Stored(given))
<1>1. Counted(given, lastRef, objects) /\ lastRef \in {0} \cup Ref /\ objects \in Obj  BY RpcInvIs DEF ServerTyped
<1>2. Cardinality(Call) \in Nat /\ IsFiniteSet(Call)  BY RpcAssumption, NumbersAre
<1>3. Stored(given) \in SUBSET Call /\ IsFiniteSet(Stored(given))  BY <1>2, FS_Subset DEF Stored
<1>4. Stored(given) \subseteq Call \ {i}  BY DEF Stored
<1>5. Cardinality(Call \ {i}) = Cardinality(Call) - 1 /\ IsFiniteSet(Call \ {i})  BY <1>2, FS_RemoveElement
<1>6. Cardinality(Stored(given)) <= Cardinality(Call \ {i})  BY <1>4, <1>5, FS_Subset
<1>7. lastRef = Cardinality(Stored(given)) /\ objects <= lastRef + 1  BY <1>1 DEF Counted
<1>8. lastRef \in Nat /\ objects \in Nat /\ objects > 0
  <2>1. lastRef \in {0} \cup Ref /\ objects \in Obj  BY <1>1
  <2>2. Ref \subseteq Nat /\ Obj \subseteq Nat \ {0}  BY NumbersAre
  <2>3. lastRef \in Nat /\ objects \in Nat \ {0}  BY <2>1, <2>2
  <2> QED  BY <2>3
<1>9. lastRef <= Cardinality(Call) - 1  BY <1>5, <1>6, <1>7
<1>10. lastRef + 1 \in Ref  BY <1>2, <1>8, <1>9 DEF Ref
<1>11. objects + 1 \in Obj  BY <1>2, <1>7, <1>8, <1>9 DEF Obj
<1> QED  BY <1>3, <1>8, <1>10, <1>11

\* A reference of its own for one call more.
Stores(i, V, G, O, L, W, D, Y, M) ==
  /\ G[i].obj = 0 /\ \A c \in Call : c # i => W[c] = V[c] /\ D[c] = G[c]
  /\ \A c \in Stored(G) : V[c] \in 1..L /\ Y[V[c]] = O[V[c]]
  /\ M = L + 1 /\ W[i] = M /\ Y[M] = D[i].obj /\ D[i].obj # 0

\* Another reference is taken, for a call that had none.
LEMMA HomesMore ==
  ASSUME NEW V, NEW G, NEW O, NEW R, NEW L \in Nat, Homes(V, G, O, R, L),
         NEW i \in Call, NEW M, NEW W, NEW D, NEW Y, Stores(i, V, G, O, L, W, D, Y, M)
  PROVE  Homes(W, D, Y, R, M) /\ Stored(D) = Stored(G) \cup {i}
<1> USE DEF Stores
<1>1. i \notin Stored(G)  BY DEF Stored
<1>2. Stored(D) = Stored(G) \cup {i}
  <2>1. \A c \in Call : c # i => (c \in Stored(D) <=> c \in Stored(G))  BY DEF Stored
  <2>2. i \in Stored(D)  BY DEF Stored
  <2>3. Stored(D) \subseteq Call /\ Stored(G) \subseteq Call  BY DEF Stored
  <2> QED  BY <2>1, <2>2, <2>3
<1>3. \A c \in Stored(G) : c \in Call /\ c # i /\ W[c] = V[c] /\ D[c] = G[c] /\ W[c] # M
  BY <1>1 DEF Stored
<1>4. ASSUME NEW c \in Stored(D) PROVE Y[W[c]] = D[c].obj \/ (Y[W[c]] = 0 /\ c \in R)
  <2>1. CASE c = i  BY <2>1
  <2>2. CASE c # i
    <3>1. c \in Stored(G)  BY <1>2, <2>2
    <3>2. O[V[c]] = G[c].obj \/ (O[V[c]] = 0 /\ c \in R)  BY <3>1 DEF Homes
    <3> QED  BY <3>1, <3>2, <1>3
  <2> QED  BY <2>1, <2>2
<1>5. ASSUME NEW c \in Stored(D), NEW d \in Stored(D), W[c] = W[d] PROVE c = d
  <2>1. CASE c \in Stored(G) /\ d \in Stored(G)
    <3>1. V[c] = V[d]  BY <2>1, <1>3, <1>5
    <3> QED  BY <3>1, <2>1 DEF Homes
  <2>2. CASE c = i \/ d = i  BY <2>2, <1>2, <1>3, <1>5
  <2> QED  BY <2>1, <2>2, <1>2
<1> QED  BY <1>2, <1>4, <1>5 DEF Homes

Grows(n) == n \in {objects, objects + 1}
Shares(i) == calls[i].op \in {"make", "self"}

\* It makes an object, or answers the object itself: another reference.
LEMMA StoreKeeps ==
  ASSUME RpcInv, toServer # <<>>, toServer' = Tail(toServer), UNCHANGED client, UNCHANGED heap,
         NEW i, toServer[1].type = "request", toServer[1].id = i,
         Executes(i, executed'), Shares(i),
         NEW o \in Obj, StoreObjectRef(i, o), Grows(objects'), UNCHANGED pendingCallbacks
  PROVE  RpcInv'
<1>1. UNCHANGED <<calls, chained, closed, released, running, writes, floor, silent>>  BY DEF client
<1>2. PICK T, Y, W, C, O, D : /\ T = toServer' /\ Y = executed' /\ W = computed' /\ C = toClient'
                              /\ O = objectRefs' /\ D = given'
  OBVIOUS
<1>3. /\ T \in Seq(ServerMsg) /\ Shorter(T, toServer)
      /\ Requests(T, calls, executed) /\ Targets(T, calls, released) /\ Ordered(T, heap, writes)
      /\ Callbacks(T, toClient, running, pendingCallbacks, floor)
      /\ \A k \in 1..Len(T) : ~(T[k].type = "request" /\ T[k].id = i)
  BY <1>2, ServerTakes
<1>4. /\ i \in Call /\ executed[i] = 0 /\ i \notin pendingCallbacks /\ given[i].obj = 0
      /\ calls[i].st \notin {"none", "lazy"}
  BY RequestIs
<1>5. Y \in [Call -> {0, 1}] /\ Y[i] = 1 /\ \A c \in Call : c # i => Y[c] = executed[c]  BY <1>2 DEF Executes
<1>6. /\ lastRef \in Nat /\ lastRef + 1 \in Ref /\ objects + 1 \in Obj
      /\ Stored(given) \in SUBSET Call /\ IsFiniteSet(Stored(given))
  BY <1>4, RoomIs
<1>7. PICK M \in Ref : M = lastRef + 1  BY <1>6
<1>8. o \in Nat /\ o # 0  BY NumbersAre
<1>9. PICK e : e = [type |-> "response", id |-> i, ok |-> TRUE, val |-> M]  OBVIOUS
<1>10. e.type = "response" /\ e.id = i /\ e.val = M /\ e.ok = TRUE /\ e \in ClientMsg  BY <1>4, <1>9 DEF ClientMsg
<1>11. C = Append(toClient, e) /\ W = [computed EXCEPT ![i] = M]
  BY <1>2, <1>7, <1>9 DEF StoreObjectRef, AnswerCall, FreshRef
<1>12. PICK g : g = [obj |-> o, prop |-> heap[o]]  OBVIOUS
<1>13. O = [objectRefs EXCEPT ![M] = o] /\ D = [given EXCEPT ![i] = g] /\ lastRef' = M
  BY <1>2, <1>7, <1>12 DEF StoreObjectRef, FreshRef
<1>14. /\ computed \in [Call -> {0} \cup Ref \cup Value] /\ toClient \in Seq(ClientMsg)
       /\ objectRefs \in [Ref -> {0} \cup Obj] /\ given \in [Call -> [obj : {0} \cup Obj, prop : Value]]
       /\ heap \in [Obj -> Value] /\ lastRef \in {0} \cup Ref /\ objects \in Obj
  BY RpcInvIs DEF ServerTyped, QueuesTyped
<1>15. W \in [Call -> {0} \cup Ref \cup Value] /\ W[i] = M /\ \A c \in Call : c # i => W[c] = computed[c]
  BY <1>4, <1>11, <1>14
<1>16. O \in [Ref -> {0} \cup Obj] /\ O[M] = o /\ \A r \in Ref : r # M => O[r] = objectRefs[r]
  BY <1>13, <1>14
<1>17. g \in [obj : {0} \cup Obj, prop : Value] /\ g.obj = o
  <2>1. heap[o] \in Value  BY <1>14
  <2> QED  BY <2>1, <1>12
<1>18. D \in [Call -> [obj : {0} \cup Obj, prop : Value]] /\ D[i] = g /\ \A c \in Call : c # i => D[c] = given[c]
  BY <1>4, <1>13, <1>14, <1>17
<1>19. C \in Seq(ClientMsg) /\ Longer(C, toClient, e)  BY <1>10, <1>11, <1>14, AppendIs
<1>20. NewsOf(i, executed, pendingCallbacks, computed, given, Y, pendingCallbacks, W, D)
  BY <1>4, <1>5, <1>15, <1>18 DEF NewsOf
<1>21. /\ Served(calls, executed, pendingCallbacks, computed, given, lastRef)
       /\ Settles(calls, executed, pendingCallbacks, computed, given, floor, released)
       /\ Responses(toClient, calls, executed, pendingCallbacks, computed, given, floor)
       /\ Homes(computed, given, objectRefs, released, lastRef) /\ Apart(calls)
       /\ Counted(given, lastRef, objects)
       /\ Floors(toServer, calls, given, objectRefs, heap, floor)
  BY RpcInvIs
<1>22. M \in Nat /\ lastRef <= M /\ M \in 1..M  BY <1>6, <1>7
<1>36. calls[i].op \in {"make", "self"}  BY DEF Shares
<1>23. Served(calls, Y, pendingCallbacks, W, D, M)
  <2>1. W[i] \in 1..M  BY <1>15, <1>22
  <2> QED  BY <2>1, <1>4, <1>5, <1>6, <1>36, <1>20, <1>21, <1>22, ServedOthers
<1>24. Settles(calls, Y, pendingCallbacks, W, D, floor, released) /\ HoldsMore(calls, given, calls, D)
  BY <1>20, <1>21, SettlesOthers
<1>25. Good(i, M, calls, D, floor)  BY <1>8, <1>17, <1>18, <1>36 DEF Good
<1>26. Responses(C, calls, Y, pendingCallbacks, W, D, floor)
  <2>1. Responses(toClient, calls, Y, pendingCallbacks, W, D, floor)  BY <1>20, <1>21, ResponsesOthers
  <2>2. Answers(i, M, Y, pendingCallbacks, W)  BY <1>4, <1>5, <1>15 DEF Answers
  <2> QED  BY <2>1, <2>2, <1>4, <1>10, <1>19, <1>25, ResponsesAppend
<1>27. Callbacks(T, C, running, pendingCallbacks, floor)  BY <1>3, <1>10, <1>19, CallbacksSent
<1>28. \A c \in Stored(given) : computed[c] \in 1..lastRef /\ computed[c] \in Ref /\ computed[c] # M
  <2>1. \A c \in Stored(given) : computed[c] \in 1..lastRef  BY <1>21 DEF Served, Stored
  <2>2. 1..lastRef \subseteq Ref /\ M \notin 1..lastRef  BY <1>6, <1>7, NumbersAre DEF Ref
  <2> QED  BY <2>1, <2>2
<1>29. Homes(W, D, O, released, M) /\ Stored(D) = Stored(given) \cup {i}
  <2>1. \A c \in Stored(given) : computed[c] \in 1..lastRef /\ O[computed[c]] = objectRefs[computed[c]]
    BY <1>16, <1>28
  <2>2. \A c \in Call : c # i => W[c] = computed[c] /\ D[c] = given[c]  BY <1>15, <1>18
  <2>3. M = lastRef + 1 /\ W[i] = M /\ O[M] = D[i].obj /\ D[i].obj # 0  BY <1>7, <1>8, <1>15, <1>16, <1>17, <1>18
  <2>4. Stores(i, computed, given, objectRefs, lastRef, W, D, O, M)  BY <2>1, <2>2, <2>3, <1>4 DEF Stores
  <2>5. lastRef \in Nat /\ Homes(computed, given, objectRefs, released, lastRef) /\ i \in Call  BY <1>4, <1>6, <1>21
  <2> QED  BY <2>4, <2>5, HomesMore
<1>30. Counted(D, M, objects')
  <2>1. i \notin Stored(given)  BY <1>4 DEF Stored
  <2>2. Cardinality(Stored(given) \cup {i}) = Cardinality(Stored(given)) + 1  BY <2>1, <1>6, FS_AddElement
  <2>3. lastRef = Cardinality(Stored(given)) /\ objects <= lastRef + 1  BY <1>21 DEF Counted
  <2>4. M = Cardinality(Stored(D))  BY <2>2, <2>3, <1>7, <1>29
  <2>5. objects \in Nat  BY <1>14, NumbersAre
  <2>6. objects' <= M + 1  BY <2>3, <2>5, <1>6, <1>7 DEF Grows
  <2> QED  BY <2>4, <2>6 DEF Counted
<1>31. Requests(T, calls, Y)
  <2>1. Requests(T, calls, executed)  BY <1>3
  <2>2. NoneFor(T, i)  BY <1>3 DEF NoneFor
  <2>3. Executes(i, Y)  BY <1>2
  <2> QED  BY <2>1, <2>2, <2>3, RequestsDone
<1>32. Floors(T, calls, given, O, heap, floor)
  <2>1. \A n, f : ~Ahead(toServer, 1, calls, given, objectRefs, n, f)  BY DEF Ahead
  <2>2. ASSUME NEW j \in 1..Len(toServer), toServer[j].type = "set", toServer[j].on # 0, objectRefs[toServer[j].on] # 0
        PROVE  O[toServer[j].on] # 0
    <3>1. toServer[j] \in ServerMsg  BY ValuesAre
    <3>2. toServer[j].on \in Ref  BY <3>1, <2>2, ServerMsgIs
    <3> QED  BY <3>2, <2>2, <1>8, <1>16
  <2> QED  BY <2>1, <2>2, <1>3, <1>21, FloorsTail
<1>33. Floors(T, calls, D, O, heap, floor)
  <2>1. \A r \in KnownIn(calls) : ObjIn(calls, D, r) = ObjIn(calls, given, r)  BY <1>21, <1>24, ObjStays
  <2>2. ASSUME NEW k \in 1..Len(T), T[k].type = "request" PROVE T[k].on \in KnownIn(calls)
    <3>1. T[k].id \in Call /\ calls[T[k].id].st # "none" /\ T[k].on = calls[T[k].id].on  BY <2>2, <1>3 DEF Requests
    <3> QED  BY <3>1, <1>21 DEF Settles
  <2>3. Len(T) \in Nat  BY <1>3
  <2> QED  BY <2>1, <2>2, <2>3, <1>3, <1>32, FloorsStay
<1>34. ClientTyped' /\ QueuesTyped'  BY <1>1, <1>2, <1>3, <1>19, RpcInvIs DEF ClientTyped, QueuesTyped
<1>35. ServerTyped'
  <2>1. objects' \in Obj  BY <1>6, <1>14 DEF Grows
  <2> QED  BY <2>1, <1>2, <1>5, <1>13, <1>15, <1>16, <1>18, RpcInvIs DEF ServerTyped
<1> QED
  BY <1>1, <1>2, <1>3, <1>13, <1>23, <1>24, <1>26, <1>27, <1>29, <1>30, <1>31, <1>33, <1>34, <1>35 DEF RpcInv

\* A request is carried out.
LEMMA RequestKeeps ==
  ASSUME RpcInv, toServer # <<>>, toServer' = Tail(toServer), HandleRequest(Head(toServer)), UNCHANGED client
  PROVE  RpcInv'
<1>1. PICK T : T = toServer' /\ T = Tail(toServer)  OBVIOUS
<1>2. toServer[1] \in ServerMsg /\ Head(toServer) = toServer[1]  BY <1>1, ServerTakes
<1>3. PICK m \in ServerMsg : m = toServer[1]  BY <1>2
<1>4. HandleRequest(m)  BY <1>2, <1>3
<1>5. m.type = "request" /\ UNCHANGED heap  BY <1>4 DEF HandleRequest
<1>6. PICK i : i = m.id  OBVIOUS
<1>7. toServer[1].type = "request" /\ toServer[1].id = i  BY <1>3, <1>5, <1>6
<1>8. /\ i \in Call /\ executed[i] = 0 /\ m.op = calls[i].op /\ m.on = calls[i].on
      /\ m.on \in KnownIn(calls) /\ heap[ObjIn(calls, given, m.on)] >= floor[i] /\ given[i].obj = 0
  BY <1>1, <1>3, <1>7, RequestIs
<1>9. Executes(i, executed')
  <2>1. executed' = [executed EXCEPT ![i] = @ + 1]  BY <1>4, <1>6 DEF HandleRequest
  <2> QED  BY <2>1, <1>8, ExecutedIs
<1>10. heap \in [Obj -> Value] /\ toClient \in Seq(ClientMsg)  BY RpcInvIs DEF ServerTyped, QueuesTyped
<1>11. PICK o : o = Resolved(m.on)  OBVIOUS
<1>12. o # 0 => o \in Obj /\ heap[o] \in Value /\ heap[o] >= floor[i]
  <2>1. o # 0 => o = ObjIn(calls, given, m.on) /\ o \in Obj  BY <1>8, <1>11, ResolvedIs
  <2> QED  BY <2>1, <1>8, <1>10
<1>13. CASE o = 0
  <2>1. AnswerCall(i, FALSE, 0) /\ NoRef /\ UNCHANGED <<objects, pendingCallbacks>>
    BY <1>4, <1>6, <1>11, <1>13 DEF HandleRequest
  <2>2. 0 \in {0} \cup Ref \cup Value  OBVIOUS
  <2> QED  BY <2>1, <2>2, <1>5, <1>7, <1>9, AnsweredKeeps
<1>14. ASSUME o # 0, HandleConstruct(m) PROVE RpcInv'
  <2>1. /\ m.op = "make" /\ objects' = objects + 1 /\ StoreObjectRef(i, objects + 1) /\ UNCHANGED pendingCallbacks
    BY <1>6, <1>14 DEF HandleConstruct
  <2>2. objects + 1 \in Obj  BY <1>8, RoomIs
  <2>3. PICK n \in Obj : n = objects + 1  BY <2>2
  <2>4. StoreObjectRef(i, n)  BY <2>1, <2>3
  <2>5. Grows(objects')  BY <2>1 DEF Grows
  <2>6. Shares(i)  BY <2>1, <1>8 DEF Shares
  <2> QED  BY <2>1, <2>4, <2>5, <2>6, <1>5, <1>7, <1>9, StoreKeeps
<1>15. ASSUME o # 0, m.op = "self", StoreObjectRef(i, o), UNCHANGED <<objects, pendingCallbacks>> PROVE RpcInv'
  <2>1. Grows(objects')  BY <1>15 DEF Grows
  <2>2. Shares(i)  BY <1>15, <1>8 DEF Shares
  <2> QED  BY <2>1, <2>2, <1>5, <1>7, <1>9, <1>12, <1>15, StoreKeeps
<1>16. ASSUME o # 0, m.op = "read", AnswerCall(i, TRUE, heap[o]), NoRef, UNCHANGED <<objects, pendingCallbacks>>
       PROVE  RpcInv'
  <2>1. PICK v \in {0} \cup Ref \cup Value : v = heap[o]  BY <1>12, <1>16
  <2>2. Good(i, v, calls, given, floor)
    <3>1. calls[i].op = "read"  BY <1>8, <1>16
    <3>2. v >= floor[i]  BY <2>1, <1>12, <1>16
    <3> QED  BY <3>1, <3>2 DEF Good
  <2>3. AnswerCall(i, TRUE, v)  BY <2>1, <1>16
  <2> QED  BY <2>2, <2>3, <1>5, <1>7, <1>9, <1>16, AnsweredKeeps
<1>17. ASSUME o # 0, m.op = "void", AnswerCall(i, TRUE, 0), NoRef, UNCHANGED <<objects, pendingCallbacks>>
       PROVE  RpcInv'
  <2>1. PICK v \in {0} \cup Ref \cup Value : v = 0  OBVIOUS
  <2>2. Good(i, v, calls, given, floor)
    <3>1. calls[i].op = "void"  BY <1>8, <1>17
    <3> QED  BY <3>1 DEF Good
  <2>3. AnswerCall(i, TRUE, v)  BY <2>1, <1>17
  <2> QED  BY <2>2, <2>3, <1>5, <1>7, <1>9, <1>17, AnsweredKeeps
<1>18. ASSUME o # 0, m.op = "via", pendingCallbacks' = pendingCallbacks \cup {i},
              toClient' = Append(toClient, [type |-> "callback", id |-> i, val |-> heap[o]]),
              NoRef, UNCHANGED <<objects, computed>>
       PROVE  RpcInv'
  <2>1. PICK e : e = [type |-> "callback", id |-> i, val |-> heap[o]]  OBVIOUS
  <2>2. e.type = "callback" /\ e.id = i /\ e.val = heap[o]  BY <2>1
  <2>3. e \in ClientMsg  BY <2>1, <1>8, <1>12, <1>18 DEF ClientMsg
  <2>4. e.val >= floor[i]  BY <2>2, <1>12, <1>18
  <2>5. PICK C : C = toClient' /\ C = Append(toClient, e)  BY <2>1, <1>18
  <2>6. C \in Seq(ClientMsg) /\ Longer(C, toClient, e)  BY <2>3, <2>5, <1>10, AppendIs
  <2>7. toClient' \in Seq(ClientMsg) /\ Longer(toClient', toClient, e)  BY <2>5, <2>6
  <2>8. calls[i].op = "via"  BY <1>8, <1>18
  <2>9. pendingCallbacks' = pendingCallbacks \cup {i}  BY <1>18
  <2> QED  BY <2>2, <2>3, <2>4, <2>7, <2>8, <2>9, <1>5, <1>7, <1>9, <1>18, ViaKeeps
<1>19. CASE o # 0
  <2>1. HandleConstruct(m) \/ HandleApply(m)  BY <1>4, <1>11, <1>19 DEF HandleRequest
  <2>2. CASE HandleConstruct(m)  BY <2>2, <1>14, <1>19
  <2>3. CASE HandleApply(m)
    <3>1. CASE m.op = "self" /\ StoreObjectRef(m.id, Resolved(m.on)) /\ UNCHANGED <<objects, pendingCallbacks>>
      BY <3>1, <1>6, <1>11, <1>15, <1>19
    <3>2. CASE m.op = "read" /\ AnswerCall(m.id, TRUE, Read(m.on)) /\ NoRef /\ UNCHANGED <<objects, pendingCallbacks>>
      BY <3>2, <1>6, <1>11, <1>16, <1>19 DEF Read
    <3>3. CASE m.op = "void" /\ AnswerCall(m.id, TRUE, 0) /\ NoRef /\ UNCHANGED <<objects, pendingCallbacks>>
      BY <3>3, <1>6, <1>17, <1>19
    <3>4. CASE /\ m.op = "via" /\ pendingCallbacks' = CallbackKept(m.id)
               /\ toClient' = Append(toClient, [type |-> "callback", id |-> m.id, val |-> Read(m.on)])
               /\ NoRef /\ UNCHANGED <<objects, computed>>
      BY <3>4, <1>6, <1>11, <1>18, <1>19 DEF Read, CallbackKept
    <3> QED  BY <2>3, <3>1, <3>2, <3>3, <3>4 DEF HandleApply
  <2> QED  BY <2>1, <2>2, <2>3
<1> QED  BY <1>13, <1>19

\* A message is handled by the server.
LEMMA ServerKeeps ==
  ASSUME RpcInv, ServerReceives
  PROVE  RpcInv'
<1>1. toServer # <<>> /\ toServer' = Tail(toServer) /\ UNCHANGED client  BY DEF ServerReceives
<1>2. \/ HandleRequest(Head(toServer)) \/ HandleSet(Head(toServer)) \/ HandleRelease(Head(toServer))
      \/ HandleCallbackResponse(Head(toServer))
  BY DEF ServerReceives
<1>3. CASE HandleRequest(Head(toServer))  BY <1>1, <1>3, RequestKeeps
<1>4. CASE HandleSet(Head(toServer))  BY <1>1, <1>4, SetKeeps
<1>5. CASE HandleRelease(Head(toServer))  BY <1>1, <1>5, ReleasedKeeps
<1>6. CASE HandleCallbackResponse(Head(toServer))  BY <1>1, <1>6, CallbackResponseKeeps
<1> QED  BY <1>2, <1>3, <1>4, <1>5, <1>6

\* A message is handled by the client.
LEMMA ClientKeeps ==
  ASSUME RpcInv, ClientReceives
  PROVE  RpcInv'
<1>1. toClient # <<>> /\ toClient' = Tail(toClient)
      /\ UNCHANGED <<chained, closed, released, writes, floor, silent, server, toServer>>
  BY DEF ClientReceives
<1>2. HandleResponse(Head(toClient)) \/ StartCallback(Head(toClient))  BY DEF ClientReceives
<1>3. CASE HandleResponse(Head(toClient))  BY <1>1, <1>3, ResponseKeeps
<1>4. CASE StartCallback(Head(toClient))  BY <1>1, <1>4, StartKeeps
<1> QED  BY <1>2, <1>3, <1>4

\* The invariant holds at first.
LEMMA RpcStarts == RpcInit => RpcInv
<1> SUFFICES ASSUME RpcInit PROVE RpcInv
  OBVIOUS
<1>1. /\ calls = [c \in Call |-> Unmade] /\ chained = {} /\ closed = FALSE /\ released = {}
      /\ running = {} /\ writes = 0 /\ silent = {} /\ floor = [c \in Call |-> 0]
      /\ toServer = <<>> /\ toClient = <<>>
      /\ objectRefs = [r \in Ref |-> 0] /\ lastRef = 0
      /\ objects = 1 /\ heap = [o \in Obj |-> 0] /\ pendingCallbacks = {}
      /\ given = [c \in Call |-> [obj |-> 0, prop |-> 0]]
      /\ executed = [c \in Call |-> 0] /\ computed = [c \in Call |-> 0]
  BY DEF RpcInit
<1>2. 0 \in Value /\ 1 \in Obj  BY NumbersAre
<1>3. ClientTyped  BY <1>1, <1>2 DEF ClientTyped, CallRec
<1>4. ServerTyped
  <2>1. [obj |-> 0, prop |-> 0] \in [obj : {0} \cup Obj, prop : Value]  BY <1>2
  <2>2. given \in [Call -> [obj : {0} \cup Obj, prop : Value]]  BY <1>1, <2>1
  <2>3. objectRefs \in [Ref -> {0} \cup Obj] /\ heap \in [Obj -> Value]  BY <1>1, <1>2
  <2>4. executed \in [Call -> {0, 1}] /\ computed \in [Call -> {0} \cup Ref \cup Value]  BY <1>1
  <2>5. lastRef \in {0} \cup Ref /\ objects \in Obj /\ pendingCallbacks \subseteq Call  BY <1>1, <1>2
  <2> QED  BY <2>2, <2>3, <2>4, <2>5 DEF ServerTyped
<1>5. QueuesTyped /\ 1..Len(toServer) = {} /\ 1..Len(toClient) = {}  BY <1>1 DEF QueuesTyped
<1>6. \A c \in Call : given[c].obj = 0 /\ executed[c] = 0 /\ calls[c].st = "none" /\ c \notin pendingCallbacks
  BY <1>1 DEF Unmade
<1>7. Stored(given) = {}  BY <1>6 DEF Stored
<1>8. Counted(given, lastRef, objects)
  <2>1. Cardinality(Stored(given)) = 0  BY <1>7, FS_EmptySet
  <2> QED  BY <2>1, <1>1 DEF Counted
<1>9. Served(calls, executed, pendingCallbacks, computed, given, lastRef)  BY <1>6 DEF Served
<1>10. Homes(computed, given, objectRefs, released, lastRef)  BY <1>7 DEF Homes
<1>11. Settles(calls, executed, pendingCallbacks, computed, given, floor, released)  BY <1>1, <1>6 DEF Settles
<1>12. Requests(toServer, calls, executed) /\ Targets(toServer, calls, released)  BY <1>5 DEF Requests, Targets
<1>13. Ordered(toServer, heap, writes)
  <2>1. \A o \in Obj : heap[o] <= writes  BY <1>1
  <2> QED  BY <2>1, <1>5 DEF Ordered
<1>14. Floors(toServer, calls, given, objectRefs, heap, floor)  BY <1>5 DEF Floors
<1>15. Callbacks(toServer, toClient, running, pendingCallbacks, floor)  BY <1>1, <1>5 DEF Callbacks
<1>16. Responses(toClient, calls, executed, pendingCallbacks, computed, given, floor)  BY <1>5 DEF Responses
<1> QED  BY <1>3, <1>4, <1>5, <1>8, <1>9, <1>10, <1>11, <1>12, <1>13, <1>14, <1>15, <1>16 DEF RpcInv

\* Every step keeps the invariant.
LEMMA RpcSteps == RpcInv /\ [RpcNext]_rpcvars => RpcInv'
<1> SUFFICES ASSUME RpcInv, [RpcNext]_rpcvars PROVE RpcInv'
  OBVIOUS
<1>1. ASSUME NEW c \in Call, Apply(c) PROVE RpcInv'  BY <1>1, ApplyKeeps
<1>2. ASSUME NEW c \in Call, Await(c) PROVE RpcInv'  BY <1>2, AwaitKeeps
<1>3. ASSUME NEW c \in Call, Release(c) PROVE RpcInv'  BY <1>3, ReleaseKeeps
<1>4. ASSUME NEW c \in Call, CallbackEnds(c) PROVE RpcInv'  BY <1>4, CallbackEndsKeeps
<1>5. CASE Assign  BY <1>5, AssignKeeps
<1>6. CASE Close  BY <1>6, RejectKeeps
<1>7. CASE ClientReceives  BY <1>7, ClientKeeps
<1>8. CASE ServerReceives  BY <1>8, ServerKeeps
<1>9. CASE UNCHANGED rpcvars
  <2>1. UNCHANGED <<calls, chained, closed, released, running, writes, floor, silent, objectRefs, lastRef, objects, heap,
                    pendingCallbacks, given, executed, computed, toServer, toClient>>
    BY <1>9 DEF rpcvars, client, server
  <2>2. ClientTyped' /\ ServerTyped' /\ QueuesTyped'
    BY <2>1, RpcInvIs DEF ClientTyped, ServerTyped, QueuesTyped
  <2> QED  BY <2>1, <2>2 DEF RpcInv
<1> QED  BY <1>1, <1>2, <1>3, <1>4, <1>5, <1>6, <1>7, <1>8, <1>9 DEF RpcNext

\* The invariant says what was to be shown.
LEMMA RpcInvSays == RpcInv => RpcSafe
<1> SUFFICES ASSUME RpcInv PROVE RpcSafe
  OBVIOUS
<1>1. ClientTyped /\ ServerTyped  BY RpcInvIs
<1>2. /\ Served(calls, executed, pendingCallbacks, computed, given, lastRef)
      /\ Settles(calls, executed, pendingCallbacks, computed, given, floor, released)
      /\ Homes(computed, given, objectRefs, released, lastRef)
      /\ Callbacks(toServer, toClient, running, pendingCallbacks, floor)
  BY RpcInvIs
<1>3. executed \in [Call -> {0, 1}] /\ computed \in [Call -> {0} \cup Ref \cup Value] /\ pendingCallbacks \subseteq Call
  BY <1>1 DEF ServerTyped
<1>4. RpcTypeOK
  <2>1. executed \in [Call -> Nat]  BY <1>3
  <2>2. computed \in [Call -> Nat]
    <3>1. {0} \cup Ref \cup Value \subseteq Nat  BY NumbersAre
    <3> QED  BY <3>1, <1>3
  <2>3. pendingCallbacks \subseteq {c \in Call : executed[c] > 0}
    <3> SUFFICES ASSUME NEW c \in pendingCallbacks PROVE c \in Call /\ executed[c] > 0
      OBVIOUS
    <3>1. c \in Call /\ executed[c] \in {0, 1}  BY <1>3
    <3>2. executed[c] # 0  BY <3>1, <1>2 DEF Served
    <3> QED  BY <3>1, <3>2
  <2>4. \A run \in running : run[1] \in pendingCallbacks  BY <1>2 DEF Callbacks
  <2> QED  BY <2>1, <2>2, <2>3, <2>4, <1>1 DEF RpcTypeOK, ClientTyped, ServerTyped, CallRec
<1>5. AnswersMatch  BY <1>2 DEF AnswersMatch, Settles, Answers
<1>6. CarriedOutOnce
  <2> SUFFICES ASSUME NEW c \in Call PROVE executed[c] <= (IF calls[c].st \in {"none", "lazy"} THEN 0 ELSE 1)
    BY DEF CarriedOutOnce
  <2>1. executed[c] \in {0, 1}  BY <1>3
  <2>2. executed[c] = 1 => calls[c].st \notin {"none", "lazy"}  BY <1>2 DEF Served
  <2>3. CASE calls[c].st \in {"none", "lazy"}
    <3>1. executed[c] = 0  BY <2>1, <2>2, <2>3
    <3> QED  BY <3>1, <2>3
  <2>4. CASE calls[c].st \notin {"none", "lazy"}
    <3>1. executed[c] <= 1  BY <2>1
    <3> QED  BY <3>1, <2>4
  <2> QED  BY <2>3, <2>4
<1>7. ReadsOwnWrites  BY <1>2 DEF ReadsOwnWrites, Settles, Good
<1>8. RefsLeadHome
  <2> SUFFICES ASSUME NEW c \in HoldsIn(calls) PROVE objectRefs[calls[c].val] \in {0, given[c].obj}
    BY DEF RefsLeadHome, Holds, HoldsIn
  <2>1. c \in Stored(given) /\ calls[c].val = computed[c]  BY HeldAre
  <2> QED  BY <2>1, <1>2 DEF Homes
<1> QED  BY <1>4, <1>5, <1>6, <1>7, <1>8 DEF RpcSafe

\* A call of a remote object is carried out at most once, and not before it
\* is awaited; it is answered with what the server computed for it, whatever
\* the order of callbacks and answers; a read sees the assignments its client
\* made to the object before it; and a reference the client holds leads to
\* the object its call was answered, or nowhere once it is released: client.ts
\* and server.ts of napcat-rpc, whatever the number of calls and assignments.
THEOREM CallsCarriedOutOnce == RpcSpec => []RpcSafe
<1>1. RpcInit => RpcInv  BY RpcStarts
<1>2. RpcInv /\ [RpcNext]_rpcvars => RpcInv'  BY RpcSteps
<1>3. RpcInv => RpcSafe  BY RpcInvSays
<1> QED  BY <1>1, <1>2, <1>3, PTL DEF RpcSpec

----------------------------------------------------------------------------
(* Every viewer of a terminal shows what there was, and no shell is told   *)
(* to end twice, for any number of terminals and viewers, where the pty    *)
(* does not throw when it is told to end after its exit (not on Windows).  *)

(* Why it is inductive: kill() always comes with isClosing, which nothing  *)
(* ever takes back, and a viewer that came names a terminal.               *)
MarkedWhenKilled == \A t \in Term : kills[t] > 0 => term[t].isClosing
ViewersNameTerminals == \A v \in Viewer : viewer[v].phase # "away" => viewer[v].at \in Term
TerminalInv == TerminalSafe /\ MarkedWhenKilled /\ ViewersNameTerminals

Views == [at : Term \cup {None}, phase : {"away", "joining", "open", "closing"}, screen : 0..MaxOutput]
Entries == [listed : BOOLEAN, isClosing : BOOLEAN]

(* Nobody views and no shell runs at first.                                *)
LEMMA TerminalStarts == TerminalInit => TerminalInv
  BY TerminalAssumption DEF TerminalInit, TerminalInv, TerminalSafe, TerminalTypeOK, ScreensAgree, KilledOnce,
     MarkedWhenKilled, ViewersNameTerminals, Away

(* What the steps share about one viewer, read off the type.               *)
LEMMA OneViewer ==
  ASSUME TerminalInv, NEW v \in Viewer
  PROVE  /\ viewer[v] \in Views
         /\ viewer[v].phase = "open" => viewer[v].at \in Term /\ viewer[v].screen = buffer[viewer[v].at]
         /\ viewer[v].phase # "away" => viewer[v].at \in Term
  BY DEF TerminalInv, TerminalSafe, TerminalTypeOK, ScreensAgree, ViewersNameTerminals, Views

(* Output reaches the buffer and exactly the open viewers of the terminal, *)
(* so that both grow together.                                             *)
LEMMA OutputKeeps ==
  ASSUME TerminalInv, NEW t \in Term, onData(t)
  PROVE  TerminalInv'
  <1> DEFINE longer == buffer[t] + 1
  <1>1. /\ buffer \in [Term -> 0..MaxOutput] /\ buffer[t] < MaxOutput
        /\ buffer' = [buffer EXCEPT ![t] = longer]
        /\ viewer' = [v \in Viewer |-> IF Hears(v, t) THEN [viewer[v] EXCEPT !.screen = viewer[v].screen + 1] ELSE viewer[v]]
        /\ term' = term /\ shell' = shell /\ kills' = kills
    BY DEF onData, TerminalInv, TerminalSafe, TerminalTypeOK
  <1>2. longer \in 0..MaxOutput
    BY <1>1, TerminalAssumption
  <1>3. ASSUME NEW v \in Viewer
        PROVE  /\ viewer'[v] \in Views
               /\ viewer'[v].phase = viewer[v].phase /\ viewer'[v].at = viewer[v].at
               /\ viewer'[v].phase = "open" => viewer'[v].screen = buffer'[viewer'[v].at]
    <2>1. CASE Hears(v, t)
      <3>1. viewer[v].screen + 1 = longer /\ viewer'[v] = [viewer[v] EXCEPT !.screen = viewer[v].screen + 1]
        BY <2>1, <1>1, OneViewer DEF Hears
      <3>2. viewer'[v] = [viewer[v] EXCEPT !.screen = longer]
        BY <3>1
      <3> HIDE DEF longer
      <3>3. QED
        BY <3>2, <2>1, <1>1, <1>2, OneViewer DEF Views, Hears
    <2>2. CASE ~Hears(v, t)
      BY <2>2, <1>1, OneViewer DEF Hears, Views
    <2>3. QED
      BY <2>1, <2>2
  <1>4. viewer' \in [Viewer -> Views] /\ buffer' \in [Term -> 0..MaxOutput]
    BY <1>1, <1>2, <1>3
  <1>5. QED
    BY <1>1, <1>3, <1>4 DEF TerminalInv, TerminalSafe, TerminalTypeOK, ScreensAgree, KilledOnce, MarkedWhenKilled,
       ViewersNameTerminals, Views

(* A step that changes the viewers only, one by one, and leaves the output *)
(* alone: each of them is well formed and shows what there was.            *)
LEMMA ViewersKeep ==
  ASSUME TerminalInv, buffer' = buffer, viewer' \in [Viewer -> Views],
         \A v \in Viewer : viewer'[v].phase = "open" => viewer'[v].screen = buffer[viewer'[v].at],
         \A v \in Viewer : viewer'[v].phase # "away" => viewer'[v].at \in Term
  PROVE  ScreensAgree' /\ ViewersNameTerminals' /\ viewer' \in [Viewer -> Views]
  BY DEF ScreensAgree, ViewersNameTerminals

(* A new viewer is sent the whole buffer before it counts as open.         *)
LEMMA ViewerKeeps ==
  ASSUME TerminalInv, NEW v \in Viewer, OfViewer(v)
  PROVE  ScreensAgree' /\ ViewersNameTerminals' /\ viewer' \in [Viewer -> Views]
  <1> DEFINE away == [at |-> None, phase |-> "away", screen |-> 0]
  <1>1. PICK w \in Views :
          /\ viewer' = [viewer EXCEPT ![v] = w] /\ buffer' = buffer
          /\ w.phase = "open" => w.screen = buffer[w.at]
          /\ w.phase # "away" => w.at \in Term
    <2>1. away \in Views /\ away.phase = "away"
      BY TerminalAssumption DEF Views
    <2>2. CASE onConnection(v)
      <3> DEFINE shown == [at |-> viewer[v].at, phase |-> "open", screen |-> buffer[viewer[v].at]]
      <3>1. viewer[v].at \in Term
        BY <2>2, OneViewer DEF onConnection
      <3>2. shown \in Views /\ shown.screen = buffer[shown.at] /\ shown.at \in Term
        BY <3>1 DEF Views, TerminalInv, TerminalSafe, TerminalTypeOK
      <3>3. viewer' = [viewer EXCEPT ![v] = shown] \/ viewer' = [viewer EXCEPT ![v] = away]
        BY <2>2 DEF onConnection, Replayed, Away
      <3>4. QED
        BY <2>1, <2>2, <3>2, <3>3 DEF onConnection
    <2>3. CASE onClose(v)
      <3>1. viewer' = [viewer EXCEPT ![v] = away] /\ buffer' = buffer
        BY <2>3 DEF onClose, Away
      <3>2. QED
        BY <2>1, <3>1
    <2>4. ASSUME NEW t \in Term, Connect(v, t)
          PROVE  \E w \in Views : /\ viewer' = [viewer EXCEPT ![v] = w] /\ buffer' = buffer
                                  /\ w.phase = "open" => w.screen = buffer[w.at]
                                  /\ w.phase # "away" => w.at \in Term
      <3> DEFINE joining == [at |-> t, phase |-> "joining", screen |-> 0]
      <3>1. joining \in Views /\ joining.phase = "joining" /\ joining.at \in Term
        BY TerminalAssumption DEF Views
      <3>2. QED
        BY <2>4, <3>1 DEF Connect
    <2>5. QED
      BY <2>2, <2>3, <2>4 DEF OfViewer
  <1>2. viewer \in [Viewer -> Views]
    BY DEF TerminalInv, TerminalSafe, TerminalTypeOK, Views
  <1>3. viewer' \in [Viewer -> Views]
    BY <1>1, <1>2
  <1>4. \A u \in Viewer : viewer'[u] = IF u = v THEN w ELSE viewer[u]
    BY <1>1, <1>2
  <1>5. QED
    BY <1>1, <1>3, <1>4, OneViewer DEF ScreensAgree, ViewersNameTerminals

(* The closing of a terminal moves its viewers from open to closing.       *)
LEMMA ClosingKeeps ==
  ASSUME TerminalInv, NEW t \in Term, viewer' = Closing(t), buffer' = buffer
  PROVE  ScreensAgree' /\ ViewersNameTerminals' /\ viewer' \in [Viewer -> Views]
  <1>1. ASSUME NEW v \in Viewer
        PROVE  /\ viewer'[v] \in Views /\ viewer'[v].at = viewer[v].at /\ viewer'[v].screen = viewer[v].screen
               /\ viewer'[v].phase = viewer[v].phase \/ (viewer'[v].phase = "closing" /\ viewer[v].phase # "away")
    <2>1. CASE v \in Sockets(t)
      <3>1. viewer'[v] = [viewer[v] EXCEPT !.phase = "closing"] /\ viewer[v].phase # "away"
        BY <2>1 DEF Closing, Sockets
      <3>2. QED
        BY <3>1, OneViewer DEF Views
    <2>2. CASE v \notin Sockets(t)
      BY <2>2, OneViewer DEF Closing
    <2>3. QED
      BY <2>1, <2>2
  <1>2. viewer' = [v \in Viewer |-> viewer'[v]]
    BY DEF Closing
  <1>3. QED
    BY <1>1, <1>2, OneViewer DEF ScreensAgree, ViewersNameTerminals

(* kill() is called where isClosing was not set, and together with it.     *)
LEMMA MarkedKeeps ==
  ASSUME TerminalInv, NEW t \in Term, NEW entry \in Entries, entry.isClosing,
         term' = [term EXCEPT ![t] = entry],
         (NotYetClosing(t) /\ Kill(t)) \/ UNCHANGED <<shell, kills>>
  PROVE  /\ term' \in [Term -> Entries] /\ kills' \in [Term -> 0..2]
         /\ shell' \in [Term -> {"none", "alive", "killed", "exited", "over"}]
         /\ KilledOnce' /\ MarkedWhenKilled'
  <1>1. /\ term \in [Term -> Entries] /\ kills \in [Term -> 0..2]
        /\ shell \in [Term -> {"none", "alive", "killed", "exited", "over"}]
        /\ \A u \in Term : kills[u] <= 1 /\ (kills[u] > 0 => term[u].isClosing)
    BY DEF TerminalInv, TerminalSafe, TerminalTypeOK, KilledOnce, MarkedWhenKilled, Entries
  <1>2. \A u \in Term : term'[u] = IF u = t THEN entry ELSE term[u]
    BY <1>1
  <1>3. CASE NotYetClosing(t) /\ Kill(t)
    <2>1. kills[t] = 0
      BY <1>1, <1>3 DEF NotYetClosing
    <2>2. kills' = [kills EXCEPT ![t] = 1]
      BY <1>3, <2>1 DEF Kill
    <2>3. shell' \in [Term -> {"none", "alive", "killed", "exited", "over"}]
      BY <1>1, <1>3 DEF Kill
    <2>4. \A u \in Term : kills'[u] = IF u = t THEN 1 ELSE kills[u]
      BY <1>1, <2>2
    <2>5. kills' \in [Term -> 0..2] /\ term' \in [Term -> Entries]
      BY <1>1, <2>2
    <2>6. KilledOnce' /\ MarkedWhenKilled'
      BY <1>1, <1>2, <2>4 DEF KilledOnce, MarkedWhenKilled
    <2>7. QED
      BY <2>3, <2>5, <2>6
  <1>4. CASE UNCHANGED <<shell, kills>>
    BY <1>1, <1>2, <1>4 DEF KilledOnce, MarkedWhenKilled
  <1>5. QED
    BY <1>3, <1>4

(* Every step keeps the invariant.                                         *)
LEMMA TerminalSteps ==
  ASSUME ~Windows PROVE TerminalInv /\ [TerminalNext]_terminalvars => TerminalInv'
  <1> SUFFICES ASSUME TerminalInv, [TerminalNext]_terminalvars PROVE TerminalInv'
    OBVIOUS
  <1>0. /\ term \in [Term -> Entries] /\ kills \in [Term -> 0..2] /\ buffer \in [Term -> 0..MaxOutput]
        /\ viewer \in [Viewer -> Views]
        /\ shell \in [Term -> {"none", "alive", "killed", "exited", "over"}]
        /\ KilledOnce /\ MarkedWhenKilled /\ ScreensAgree /\ ViewersNameTerminals
    BY DEF TerminalInv, TerminalSafe, TerminalTypeOK, Entries, Views
  <1>1. ASSUME NEW t \in Term, createTerminal(t) PROVE TerminalInv'
    <2>1. term' = [term EXCEPT ![t] = [term[t] EXCEPT !.listed = TRUE]]
      BY <1>1 DEF createTerminal
    <2>2. term' \in [Term -> Entries] /\ \A u \in Term : term'[u].isClosing = term[u].isClosing
      BY <1>0, <2>1 DEF Entries
    <2>3. QED
      BY <1>0, <1>1, <2>2 DEF createTerminal, TerminalInv, TerminalSafe, TerminalTypeOK, ScreensAgree, KilledOnce,
         MarkedWhenKilled, ViewersNameTerminals, Entries, Views
  <1>2. ASSUME NEW t \in Term, onData(t) PROVE TerminalInv'
    BY <1>2, OutputKeeps
  <1>3. ASSUME NEW t \in Term, closeTerminal(t) PROVE TerminalInv'
    <2>1. [listed |-> FALSE, isClosing |-> TRUE] \in Entries
      BY DEF Entries
    <2>2. /\ term' \in [Term -> Entries] /\ kills' \in [Term -> 0..2]
          /\ shell' \in [Term -> {"none", "alive", "killed", "exited", "over"}]
          /\ KilledOnce' /\ MarkedWhenKilled'
      BY <1>3, <2>1, MarkedKeeps DEF closeTerminal, Dropped
    <2>3. ScreensAgree' /\ ViewersNameTerminals' /\ viewer' \in [Viewer -> Views] /\ buffer' = buffer
      BY <1>3, ClosingKeeps DEF closeTerminal
    <2>4. QED
      BY <1>0, <2>2, <2>3 DEF TerminalInv, TerminalSafe, TerminalTypeOK, Entries, Views
  <1>4. ASSUME NEW t \in Term, Exits(t) PROVE TerminalInv'
    BY <1>0, <1>4 DEF Exits, TerminalInv, TerminalSafe, TerminalTypeOK, ScreensAgree, KilledOnce, MarkedWhenKilled,
       ViewersNameTerminals, Entries, Views
  <1>5. ASSUME NEW t \in Term, onExit(t) PROVE TerminalInv'
    <2>1. shell' \in [Term -> {"none", "alive", "killed", "exited", "over"}] /\ buffer' = buffer /\ kills' = kills
      BY <1>0, <1>5 DEF onExit, Throws
    <2>2. [listed |-> FALSE, isClosing |-> TRUE] \in Entries
      BY DEF Entries
    <2>3. (viewer' = Closing(t) /\ term' = Dropped(t)) \/ UNCHANGED <<term, viewer>>
      BY <1>5 DEF onExit, Throws
    <2>4. term' \in [Term -> Entries] /\ KilledOnce' /\ MarkedWhenKilled'
      <3>1. CASE term' = Dropped(t)
        <4> DEFINE over == [listed |-> FALSE, isClosing |-> TRUE]
        <4>1. term' = [term EXCEPT ![t] = over] /\ over.isClosing
          BY <3>1 DEF Dropped
        <4> HIDE DEF over
        <4>2. term' \in [Term -> Entries] /\ \A u \in Term : term'[u] = IF u = t THEN over ELSE term[u]
          BY <1>0, <2>2, <4>1 DEF over
        <4>3. QED
          BY <1>0, <2>1, <4>1, <4>2 DEF KilledOnce, MarkedWhenKilled
      <3>2. CASE term' = term
        BY <1>0, <2>1, <3>2 DEF KilledOnce, MarkedWhenKilled
      <3>3. QED
        BY <2>3, <3>1, <3>2
    <2>5. ScreensAgree' /\ ViewersNameTerminals' /\ viewer' \in [Viewer -> Views]
      BY <1>0, <2>1, <2>3, ClosingKeeps DEF ScreensAgree, ViewersNameTerminals
    <2>6. QED
      BY <1>0, <2>1, <2>4, <2>5 DEF TerminalInv, TerminalSafe, TerminalTypeOK, Entries, Views
  <1>6. ASSUME NEW v \in Viewer, OfViewer(v) PROVE TerminalInv'
    <2>1. ScreensAgree' /\ ViewersNameTerminals' /\ viewer' \in [Viewer -> Views]
      BY <1>6, ViewerKeeps
    <2>2. buffer' = buffer
      BY <1>6 DEF OfViewer, onConnection, onClose, Connect
    <2>3. /\ term' \in [Term -> Entries] /\ kills' \in [Term -> 0..2]
          /\ shell' \in [Term -> {"none", "alive", "killed", "exited", "over"}]
          /\ KilledOnce' /\ MarkedWhenKilled'
      <3>1. CASE UNCHANGED <<term, shell, kills>>
        BY <1>0, <3>1 DEF KilledOnce, MarkedWhenKilled
      <3>2. CASE onClose(v) /\ ~UNCHANGED <<term, shell, kills>>
        <4> DEFINE t == viewer[v].at
                   entry == [term[t] EXCEPT !.isClosing = TRUE]
        <4>1. t \in Term
          BY <3>2, OneViewer DEF onClose
        <4>2. entry \in Entries /\ entry.isClosing
          BY <1>0, <4>1 DEF Entries
        <4>3. term' = [term EXCEPT ![t] = entry] /\ NotYetClosing(t) /\ Kill(t)
          BY <3>2 DEF onClose
        <4> HIDE DEF t, entry
        <4>4. QED
          BY <4>1, <4>2, <4>3, MarkedKeeps
      <3>3. QED
        BY <1>6, <3>1, <3>2 DEF OfViewer, onConnection, Connect
    <2>4. QED
      BY <1>0, <2>1, <2>2, <2>3 DEF TerminalInv, TerminalSafe, TerminalTypeOK, Entries, Views
  <1>7. CASE UNCHANGED terminalvars
    BY <1>0, <1>7 DEF terminalvars, TerminalInv, TerminalSafe, TerminalTypeOK, ScreensAgree, KilledOnce,
       MarkedWhenKilled, ViewersNameTerminals, Entries, Views
  <1>8. QED
    BY <1>1, <1>2, <1>3, <1>4, <1>5, <1>6, <1>7 DEF TerminalNext, OfTerm

(* Whoever leaves, closes or exits first, and however output and viewers   *)
(* come in between, every open viewer shows what there was and no shell is *)
(* told to end twice (onConnection, onClose, closeTerminal, pty.onExit).   *)
THEOREM TerminalsBehave == ASSUME ~Windows PROVE TerminalSpec => []TerminalSafe
  <1>1. TerminalInv => TerminalSafe
    BY DEF TerminalInv
  <1>2. QED
    BY <1>1, TerminalStarts, TerminalSteps, PTL DEF TerminalSpec
============================================================================
