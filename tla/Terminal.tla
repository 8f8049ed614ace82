------------------------------ MODULE Terminal ------------------------------
(***************************************************************************)
(* The terminals of the dashboard                                          *)
(* (napcat-webui-backend/src/terminal/terminal_manager.ts): a shell per    *)
(* terminal, any number of viewers, a buffer a new viewer is sent first.   *)
(* The shell, the viewers and the network are the environment.             *)
(***************************************************************************)
EXTENDS Naturals, FiniteSets

CONSTANTS
  Term,       \* the identifiers createTerminal may draw
  Viewer,     \* WebSocket connections
  None,
  Windows,    \* whether os.platform() is win32
  MaxOutput   \* bound on the output of a shell

ASSUME TerminalAssumption == Windows \in BOOLEAN /\ MaxOutput \in Nat

VARIABLES
  term,     \* per terminal: whether it is in the map, isClosing
  shell,    \* per terminal: "none", "alive", "killed" (told to end), "exited", "over" (onExit was handled)
  buffer,   \* per terminal: how much output there was
  viewer,   \* per connection: its terminal, how far it is, what it was sent
  kills     \* per terminal: how often its shell was told to end

terminalvars == <<term, shell, buffer, viewer, kills>>

Away == [at |-> None, phase |-> "away", screen |-> 0]
Sockets(t) == {v \in Viewer : viewer[v].at = t /\ viewer[v].phase \in {"open", "closing"}}

(* Shapes; nobody has seen more than there was, and no shell is told to end*)
(* a third time.                                                           *)
TerminalTypeOK ==
  /\ term \in [Term -> [listed : BOOLEAN, isClosing : BOOLEAN]]
  /\ shell \in [Term -> {"none", "alive", "killed", "exited", "over"}]
  /\ buffer \in [Term -> 0..MaxOutput]
  /\ viewer \in [Viewer -> [at : Term \cup {None}, phase : {"away", "joining", "open", "closing"}, screen : 0..MaxOutput]]
  /\ kills \in [Term -> 0..2]

TerminalInit ==
  /\ term = [t \in Term |-> [listed |-> FALSE, isClosing |-> FALSE]]
  /\ shell = [t \in Term |-> "none"] /\ buffer = [t \in Term |-> 0]
  /\ viewer = [v \in Viewer |-> Away] /\ kills = [t \in Term |-> 0]

createTerminal(t) ==
  /\ shell[t] = "none" /\ shell' = [shell EXCEPT ![t] = "alive"]
  /\ term' = [term EXCEPT ![t].listed = TRUE]
  /\ UNCHANGED <<buffer, viewer, kills>>

Hears(v, t) == viewer[v].at = t /\ viewer[v].phase = "open"

(* pty.onData: into the buffer and to every viewer whose socket is open.   *)
onData(t) ==
  /\ shell[t] \in {"alive", "killed"} /\ buffer[t] < MaxOutput
  /\ buffer' = [buffer EXCEPT ![t] = @ + 1]
  /\ viewer' = [v \in Viewer |-> IF Hears(v, t) THEN [viewer[v] EXCEPT !.screen = @ + 1] ELSE viewer[v]]
  /\ UNCHANGED <<term, shell, kills>>

(* A viewer names a terminal; its credential is checked asynchronously.    *)
Connect(v, t) ==
  /\ viewer[v].phase = "away" /\ shell[t] # "none" /\ viewer' = [viewer EXCEPT ![v] = [at |-> t, phase |-> "joining", screen |-> 0]]
  /\ UNCHANGED <<term, shell, buffer, kills>>

NothingSent(t) == 0                    \* defect: a new viewer starts with an empty screen
Replayed(t) == buffer[t]

(* The connection handler: a terminal that is gone closes the socket.      *)
onConnection(v) ==
  /\ viewer[v].phase = "joining"
  /\ viewer' = [viewer EXCEPT ![v] =
                  IF term[viewer[v].at].listed
                  THEN [at |-> viewer[v].at, phase |-> "open", screen |-> Replayed(viewer[v].at)] ELSE Away]
  /\ UNCHANGED <<term, shell, buffer, kills>>

Unmarked(t) == TRUE                    \* defect: isClosing is not looked at
NotYetClosing(t) == ~term[t].isClosing

Kill(t) ==
  /\ shell' = [shell EXCEPT ![t] = IF @ = "alive" THEN "killed" ELSE @]
  /\ kills' = [kills EXCEPT ![t] = IF @ < 2 THEN @ + 1 ELSE @]

IsLast(t, gone) == Sockets(t) \ {gone} = {}

(* ws.on('close'): the last viewer that leaves ends the shell.             *)
onClose(v) ==
  LET t == viewer[v].at IN
  /\ viewer[v].phase \in {"open", "closing"}
  /\ viewer' = [viewer EXCEPT ![v] = Away]
  /\ IF IsLast(t, v) /\ NotYetClosing(t)
     THEN term' = [term EXCEPT ![t].isClosing = TRUE] /\ Kill(t)
     ELSE UNCHANGED <<term, shell, kills>>
  /\ UNCHANGED buffer

Closing(t) == [v \in Viewer |-> IF v \in Sockets(t) THEN [viewer[v] EXCEPT !.phase = "closing"] ELSE viewer[v]]
Kept(t) == [term EXCEPT ![t].isClosing = TRUE]      \* defect: the entry stays in the map
Dropped(t) == [term EXCEPT ![t] = [listed |-> FALSE, isClosing |-> TRUE]]

(* closeTerminal, asked for through the dashboard's API.                   *)
closeTerminal(t) ==
  /\ term[t].listed
  /\ IF NotYetClosing(t) THEN Kill(t) ELSE UNCHANGED <<shell, kills>>
  /\ viewer' = Closing(t) /\ term' = Dropped(t)
  /\ UNCHANGED buffer

(* The shell ends, told to or by itself.                                   *)
Exits(t) ==
  /\ shell[t] \in {"alive", "killed"} /\ shell' = [shell EXCEPT ![t] = "exited"]
  /\ UNCHANGED <<term, buffer, viewer, kills>>

Throws(t) == Windows

(* pty.onExit calls closeTerminal, which ends a shell nobody told to end   *)
(* once more: node-pty swallows that error, process.kill throws it.        *)
onExit(t) ==
  /\ shell[t] = "exited"
  /\ IF term[t].listed
     THEN IF NotYetClosing(t) /\ Throws(t)
          THEN /\ term' = [term EXCEPT ![t].isClosing = TRUE] /\ kills' = [kills EXCEPT ![t] = 2]
               /\ UNCHANGED viewer
          ELSE /\ viewer' = Closing(t) /\ term' = Dropped(t)
               /\ kills' = kills
     ELSE UNCHANGED <<term, viewer, kills>>
  /\ shell' = [shell EXCEPT ![t] = "over"] /\ UNCHANGED buffer

OfTerm(t) == createTerminal(t) \/ onData(t) \/ closeTerminal(t) \/ Exits(t) \/ onExit(t)
OfViewer(v) == onConnection(v) \/ onClose(v) \/ \E t \in Term : Connect(v, t)
TerminalNext == (\E t \in Term : OfTerm(t)) \/ \E v \in Viewer : OfViewer(v)

(* A shell that is told to end does, its exit is handled, a socket that is *)
(* being closed closes.                                                    *)
TerminalFair ==
  /\ \A t \in Term : WF_terminalvars(shell[t] = "killed" /\ Exits(t)) /\ WF_terminalvars(onExit(t))
  /\ \A v \in Viewer : WF_terminalvars(viewer[v].phase = "closing" /\ onClose(v))
TerminalSpec == TerminalInit /\ [][TerminalNext]_terminalvars
TerminalFairSpec == TerminalSpec /\ TerminalFair

----------------------------------------------------------------------------
(* Every open viewer shows exactly the output there was, whenever it came. *)
ScreensAgree == \A v \in Viewer : viewer[v].phase = "open" => viewer[v].screen = buffer[viewer[v].at]

(* No shell is told to end twice, although its last viewer may leave, the  *)
(* dashboard may close it and it may exit in any order.                    *)
KilledOnce == \A t \in Term : kills[t] <= 1

(* A terminal that was viewed and whose viewers have all left goes away.   *)
UnwatchedEnds == \A t \in Term : term[t].isClosing ~> ~term[t].listed

(* Every open viewer shows exactly the output there was, and no shell is   *)
(* told to end twice, whoever leaves, closes or exits first.               *)
TerminalSafe == TerminalTypeOK /\ ScreensAgree /\ KilledOnce
============================================================================
