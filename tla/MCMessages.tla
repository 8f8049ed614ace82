----------------------------- MODULE MCMessages -----------------------------
(***************************************************************************)
(* How events and messages pass through the core and the OneBot layer:      *)
(* waiting for an event (NTEvent), the short ids (MessageIds), received     *)
(* messages (MsgReceive, OneBotEvents), recalls (OneBotRecall), sending     *)
(* (MsgSend, MsgForward, ForwardUpload), the clean-up of their files        *)
(* (CleanTask), the members of a group (GroupCache) and the resources that  *)
(* may fail (Resource). They share no state and are taken one at a time.    *)
(***************************************************************************)
EXTENDS NTEvent, MsgReceive, OneBotEvents, OneBotRecall, MsgSend, MsgForward, CleanTask, Resource,
  ForwardUpload, GroupCache, MessageIds, Integers, Sequences, FiniteSets, TLC

CONSTANTS c1, c2, k1, l1, m1, m2, m3, p1, p2, a1, a2, f1, f2, r1, r2, r3, me

VARIABLE part   \* which of them this behaviour is about

(* Two messages share the short id 0, and the others have one each or 4.   *)
MessageHash == [m \in {m1, m2, m3} \X {p1, p2} |->
  CASE m \in {<<m1, p1>>, <<m2, p1>>} -> 0 [] m = <<m1, p2>> -> 1
    [] m = <<m2, p2>> -> 2 [] m = <<m3, p1>> -> 3 [] OTHER -> 4]

(* Lists of nodes up to one level deeper than is parsed.                   *)
Leaf == {[kind |-> "msg", sub |-> <<>>], [kind |-> "gone", sub |-> <<>>]}
Lists(S, n) == UNION {[1..k -> S] : k \in 1..n}
Nest(S) == {[kind |-> "nest", sub |-> s] : s \in S}
Level1 == Lists(Leaf, 1)
Level2 == Lists(Leaf \cup Nest(Level1), 2)
Level3 == Lists(Leaf \cup Nest(Level2), 1)
Level4 == Lists(Leaf \cup Nest(Level3), 1)
UploadLists == Lists(Leaf \cup Nest(Level2), 2) \cup Level4 \cup Lists(Nest(Level4), 1)

(* Every part but the chosen one keeps one initial state.                  *)
Init ==
  /\ part \in {"event", "ids", "receive", "handle", "recall", "send", "forward", "upload",
       "clean", "members", "resource"}
  /\ NTEventInit
  /\ MessageIdsInit
  /\ MsgReceiveInit /\ (part # "receive" => ~packetStatus /\ ~quick /\ element = <<New("text")>>)
  /\ EventsInit /\ (part # "handle" => active = {})
  /\ RecallInit /\ (part # "recall" => ids = {})
  /\ MsgSendInit /\ (part # "send" => mode = "Normal")
  /\ MsgForwardInit /\ (part # "forward" => nodes = <<"id">>)
  /\ ForwardUploadInit /\ (part # "upload" => messageNodes[0] = <<[kind |-> "msg", sub |-> <<>>]>>)
  /\ CleanTaskInit
  /\ GroupCacheInit /\ (part # "members" => cache = None)
  /\ ResourceInit

Next ==
  \/ part = "event" /\ NTEventNext /\ UNCHANGED part
     /\ UNCHANGED <<idvars, receivevars, handlevars, recallvars, sendvars, forwardvars,
        uploadvars, cleanvars, groupvars, resourcevars>>
  \/ part = "ids" /\ MessageIdsNext /\ UNCHANGED part
     /\ UNCHANGED <<eventvars, receivevars, handlevars, recallvars, sendvars, forwardvars,
        uploadvars, cleanvars, groupvars, resourcevars>>
  \/ part = "receive" /\ MsgReceiveNext /\ UNCHANGED part
     /\ UNCHANGED <<eventvars, idvars, handlevars, recallvars, sendvars, forwardvars,
        uploadvars, cleanvars, groupvars, resourcevars>>
  \/ part = "handle" /\ EventsNext /\ UNCHANGED part
     /\ UNCHANGED <<eventvars, idvars, receivevars, recallvars, sendvars, forwardvars,
        uploadvars, cleanvars, groupvars, resourcevars>>
  \/ part = "recall" /\ RecallNext /\ UNCHANGED part
     /\ UNCHANGED <<eventvars, idvars, receivevars, handlevars, sendvars, forwardvars,
        uploadvars, cleanvars, groupvars, resourcevars>>
  \/ part = "send" /\ MsgSendNext /\ UNCHANGED part
     /\ UNCHANGED <<eventvars, idvars, receivevars, handlevars, recallvars, forwardvars,
        uploadvars, cleanvars, groupvars, resourcevars>>
  \/ part = "forward" /\ MsgForwardNext /\ UNCHANGED part
     /\ UNCHANGED <<eventvars, idvars, receivevars, handlevars, recallvars, sendvars,
        uploadvars, cleanvars, groupvars, resourcevars>>
  \/ part = "upload" /\ ForwardUploadNext /\ UNCHANGED part
     /\ UNCHANGED <<eventvars, idvars, receivevars, handlevars, recallvars, sendvars,
        forwardvars, cleanvars, groupvars, resourcevars>>
  \/ part = "clean" /\ CleanTaskNext /\ UNCHANGED part
     /\ UNCHANGED <<eventvars, idvars, receivevars, handlevars, recallvars, sendvars,
        forwardvars, uploadvars, groupvars, resourcevars>>
  \/ part = "members" /\ GroupCacheNext /\ UNCHANGED part
     /\ UNCHANGED <<eventvars, idvars, receivevars, handlevars, recallvars, sendvars,
        forwardvars, uploadvars, cleanvars, resourcevars>>
  \/ part = "resource" /\ ResourceNext /\ UNCHANGED part
     /\ UNCHANGED <<eventvars, idvars, receivevars, handlevars, recallvars, sendvars,
        forwardvars, uploadvars, cleanvars, groupvars>>

vars == <<part, eventvars, idvars, receivevars, handlevars, recallvars, sendvars,
  forwardvars, uploadvars, cleanvars, groupvars, resourcevars>>
Spec == Init /\ [][Next]_vars

(* What each module says is fair.                                          *)
EventFair ==
  /\ WF_eventvars(TimePasses)
  /\ \A c \in {c1, c2} : WF_eventvars(TimeoutFires(c))
ReceiveFair ==
  /\ WF_receivevars(MsgReceiveNext)
HandleFair ==
  /\ \A f \in {f1, f2} : WF_handlevars(Take(f))
  /\ \A f \in {f1, f2} : WF_handlevars(Finish(f))
  /\ \A m \in {m1, m2} : WF_handlevars(HandleMsg(m))
  /\ \A m \in {m1, m2} : WF_handlevars(HandleEvent(m))
SendFair ==
  /\ \A i \in 1..2 : WF_sendvars(Converter(i))
  /\ WF_sendvars(Settle)
  /\ WF_sendvars(SendMsg)
  /\ WF_sendvars(KernelAnswers)
CleanFair ==
  /\ WF_cleanvars(ExecuteNextOperation)
  /\ \A r \in 1..3 : WF_cleanvars(TimerFires(r))

(* Every call to the kernel settles, every batch, message and recall is     *)
(* worked off, every message that is sent ends, and every temporary file is *)
(* removed or given up.                                                     *)
MessagesGoThrough ==
  /\ part = "event" /\ EventFair => EveryCallSettles
  /\ part = "receive" /\ ReceiveFair => ParsingEnds
  /\ part = "handle" /\ HandleFair => EveryBatchEnds
  /\ part = "recall" /\ RecallFair => CallbacksEnd
  /\ part = "send" /\ SendFair => SendingEnds
  /\ part = "clean" /\ CleanFair => FilesGo
=============================================================================
