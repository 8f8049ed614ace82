---------------------------- MODULE OneBotEvents ----------------------------
(***************************************************************************)
(* What NapCat's OneBot side does with the messages of the QQ kernel       *)
(* (napcat-onebot/index.ts): batches of received ones and those the bot    *)
(* sends itself, turned into reports to the adapters.                      *)
(*                                                                         *)
(* Every callback is an asynchronous function of its own: their awaits     *)
(* interleave.  Parsing a message or a notice takes any time and may fail. *)
(***************************************************************************)
EXTENDS Integers, Sequences, FiniteSets

CONSTANTS
  KernelMsg,   \* messages of the kernel, each with its msgId
  Adapter,
  SelfWanted,  \* adapters with reportSelfMessage
  Callback,    \* invocations of onRecvMsg and onRecvOnlineFileMsg
  MaxSwitch    \* bound: adapters opened or closed

ASSUME EventsAssumption == SelfWanted \subseteq Adapter /\ MaxSwitch \in Nat

VARIABLES
  active,    \* adapters that are open
  switches,
  kind,      \* what each message is: "unseen" until the kernel shows it
  batch,     \* the messages a callback has not taken up
  current,   \* the message it awaits, if any
  todo,      \* which of the two handlers of a message still run
  shortIds,  \* messages with a short id
  updates,   \* for a message being sent: "none", "waiting", or how the wait ended
  heard,     \* how often each adapter was told of a message, and of its notice
  before     \* history: the messages before each in its batch

handlevars == <<active, switches, kind, batch, current, todo, shortIds, updates, heard, before>>

MessageKind == {"plain", "notice", "null", "old", "own"}
Parts == {"message", "event"}

Elems(s) == {s[k] : k \in 1..Len(s)}
Idle(f) == batch[f] = <<>> /\ current[f] = {}

(* Shapes; a callback awaits one message at most, and only messages with a *)
(* short id are being handled.                                             *)
EventsTypeOK ==
  /\ active \subseteq Adapter /\ switches \in 0..MaxSwitch
  /\ kind \in [KernelMsg -> MessageKind \cup {"unseen"}]
  /\ \A f \in Callback : Elems(batch[f]) \subseteq KernelMsg
  /\ \A f \in Callback : current[f] \subseteq shortIds /\ Cardinality(current[f]) <= 1
  /\ todo \in [KernelMsg -> SUBSET Parts] /\ \A m \in KernelMsg : todo[m] # {} => m \in shortIds
  /\ shortIds \subseteq KernelMsg /\ before \in [KernelMsg -> SUBSET KernelMsg]
  /\ updates \in [KernelMsg -> {"none", "waiting", "success", "other"}]
  /\ heard \in [Adapter -> [KernelMsg -> [Parts -> Nat]]]

EventsInit ==
  /\ active \in SUBSET Adapter /\ switches = 0
  /\ kind = [m \in KernelMsg |-> "unseen"]
  /\ batch = [f \in Callback |-> <<>>] /\ current = [f \in Callback |-> {}]
  /\ todo = [m \in KernelMsg |-> {}] /\ before = [m \in KernelMsg |-> {}]
  /\ shortIds = {} /\ updates = [m \in KernelMsg |-> "none"]
  /\ heard = [a \in Adapter |-> [m \in KernelMsg |-> [what \in Parts |-> 0]]]

Emit(to, what, m) ==
  heard' = [a \in Adapter |-> IF a \in to THEN [heard[a] EXCEPT ![m][what] = @ + 1] ELSE heard[a]]

----------------------------------------------------------------------------
(* An adapter is opened or closed.                                         *)
Switch(a) ==
  /\ switches < MaxSwitch /\ switches' = switches + 1
  /\ active' = IF a \in active THEN active \ {a} ELSE active \cup {a}
  /\ UNCHANGED <<kind, batch, current, todo, shortIds, updates, heard, before>>

(* onRecvMsg, onRecvOnlineFileMsg: a batch is dropped as a whole if nobody *)
(* is listening.                                                           *)
Unseen(s) == \A i \in 1..Len(s) : kind[s[i]] = "unseen" /\ \A j \in 1..(i - 1) : s[i] # s[j]
Before(m, s) == {s[j] : j \in {j \in 1..Len(s) : \E i \in 1..Len(s) : j < i /\ s[i] = m}}

OnRecvMsg(f) ==
  /\ Idle(f)
  /\ \E n \in 1..2 : \E s \in [1..n -> KernelMsg], ks \in [1..n -> MessageKind \ {"own"}] :
       /\ Unseen(s)
       /\ kind' = [m \in KernelMsg |-> IF m \in Elems(s) THEN ks[CHOOSE i \in 1..n : s[i] = m] ELSE kind[m]]
       /\ before' = [m \in KernelMsg |-> IF m \in Elems(s) THEN Before(m, s) ELSE before[m]]
       /\ batch' = IF active = {} THEN batch ELSE [batch EXCEPT ![f] = s]
  /\ UNCHANGED <<active, switches, current, todo, shortIds, updates, heard>>

NotAwaited(f) == TRUE                      \* defect: emitMsg is not awaited
Awaited(f) == \A m \in current[f] : todo[m] = {}

WithId(m) == shortIds \cup {m}

(* emitMsg: the message gets its short id and both its handlers start.     *)
EmitMsg(m) == shortIds' = WithId(m) /\ todo' = [todo EXCEPT ![m] = Parts]

(* The next message of a batch, once both handlers of the one before have  *)
(* settled, however they ended; one from before the start is passed over.  *)
Take(f) ==
  /\ batch[f] # <<>> /\ Awaited(f)
  /\ batch' = [batch EXCEPT ![f] = Tail(@)]
  /\ LET m == Head(batch[f]) IN
     \/ kind[m] # "old" /\ current' = [current EXCEPT ![f] = {m}] /\ EmitMsg(m)
     \/ kind[m] = "old" /\ current' = [current EXCEPT ![f] = {}] /\ UNCHANGED <<todo, shortIds>>
  /\ UNCHANGED <<active, switches, kind, updates, heard, before>>

Finish(f) ==
  /\ batch[f] = <<>> /\ current[f] # {} /\ Awaited(f)
  /\ current' = [current EXCEPT ![f] = {}]
  /\ UNCHANGED <<active, switches, kind, batch, todo, shortIds, updates, heard, before>>

HandlerEnds(m, part) == [todo EXCEPT ![m] = @ \ {part}]

(* handleMsg: the adapters are looked up after the parsing.                *)
Wants(m) == IF kind[m] = "own" THEN active \cap SelfWanted ELSE active

HandleMsg(m) ==
  /\ "message" \in todo[m] /\ todo' = HandlerEnds(m, "message")
  /\ \/ kind[m] # "null" /\ Emit(Wants(m), "message", m)
     \/ UNCHANGED heard                     \* nothing to tell, or the parsing failed
  /\ UNCHANGED <<active, switches, kind, batch, current, shortIds, updates, before>>

(* handleGroupEvent, handlePrivateMsgEvent: files, grey tips and changed   *)
(* name cards become notices, for every adapter.                           *)
HandleEvent(m) ==
  /\ "event" \in todo[m] /\ todo' = HandlerEnds(m, "event")
  /\ \/ kind[m] = "notice" /\ Emit(active, "event", m)
     \/ UNCHANGED heard
  /\ UNCHANGED <<active, switches, kind, batch, current, shortIds, updates, before>>

(* onAddSendMsg waits up to ten minutes for the message to leave the state *)
(* "sending"; only a success is reported, and that is not waited for.      *)
OnAddSendMsg(m) ==
  /\ kind[m] = "unseen" /\ kind' = [kind EXCEPT ![m] = "own"]
  /\ updates' = [updates EXCEPT ![m] = "waiting"]
  /\ UNCHANGED <<active, switches, batch, current, todo, shortIds, heard, before>>

WentOut(status) == status = "success"

SendEnds(m) ==
  /\ updates[m] = "waiting"
  /\ \E status \in {"success", "other"} :
       /\ updates' = [updates EXCEPT ![m] = status]
       /\ IF WentOut(status) THEN EmitMsg(m) ELSE UNCHANGED <<shortIds, todo>>
  /\ UNCHANGED <<active, switches, kind, batch, current, heard, before>>

EventsNext ==
  \/ \E a \in Adapter : Switch(a)
  \/ \E f \in Callback : OnRecvMsg(f) \/ Take(f) \/ Finish(f)
  \/ \E m \in KernelMsg : HandleMsg(m) \/ HandleEvent(m) \/ OnAddSendMsg(m) \/ SendEnds(m)

EventsFair ==
  /\ \A f \in Callback : WF_handlevars(Take(f)) /\ WF_handlevars(Finish(f))
  /\ \A m \in KernelMsg : WF_handlevars(HandleMsg(m)) /\ WF_handlevars(HandleEvent(m))
EventsSpec == EventsInit /\ [][EventsNext]_handlevars
EventsFairSpec == EventsSpec /\ EventsFair

----------------------------------------------------------------------------
(* Messages of one batch reach an adapter in the batch's order, each with  *)
(* its notice, although parsing them takes any time and the handlers of    *)
(* other batches and of sent messages run in between.                      *)
BatchInOrder ==
  \A a \in Adapter, m \in KernelMsg :
    (\E what \in Parts : heard[a][m][what] > 0) => \A n \in before[m] : todo[n] = {} /\ (kind[n] # "old" => n \in shortIds)

(* A message is told to an adapter once at most; one the bot sent itself   *)
(* only where that is wanted, and only after it went out.                  *)
ToldOnce ==
  \A a \in Adapter, m \in KernelMsg :
    /\ \A what \in Parts : heard[a][m][what] <= 1
    /\ kind[m] = "own" /\ heard[a][m]["message"] > 0 => a \in SelfWanted /\ updates[m] = "success"

(* Every message a callback took up is handled or passed over, however the *)
(* handlers of the others end: the callback gets to its last one.          *)
EveryBatchEnds == \A f \in Callback : ~Idle(f) ~> Idle(f)

(* The messages of a batch reach every adapter in order and once, own      *)
(* messages only where they are wanted and after they went out.            *)
EventsSafe == EventsTypeOK /\ BatchInOrder /\ ToldOnce
============================================================================
