----------------------------- MODULE MsgReceive -----------------------------
(***************************************************************************)
(* A received message becomes an OneBot message (napcat-onebot/api/msg.ts, *)
(* parseMessageV2): who sent it where is looked up first, then all its     *)
(* elements are converted at once, each with look-ups of its own that may  *)
(* find nothing or fail.                                                   *)
(***************************************************************************)
EXTENDS Naturals, Sequences, FiniteSets

CONSTANT MaxElements
ASSUME MsgReceiveAssumption == MaxElements \in Nat \ {0}

VARIABLES
  packetStatus,  \* whether the packet backend is there
  quick,         \* parsed for a quick reply
  parsePhase,    \* "peer", "header", "elements", "done", "dropped", "failed"
  element        \* each element: its kind, how far its converter is, what it tried

receivevars == <<packetStatus, quick, parsePhase, element>>

ElementKind == {"text", "at", "pic", "file", "face", "mface", "reply", "oldReply", "botReply", "video", "ptt", "forward", "ark", "grayTip"}
Media == {"file", "video", "ptt"}
ElementStage == {"new", "lookup", "packet", "segment", "null", "rejected"}
Over == {"segment", "null", "rejected"}
Elements == DOMAIN element

(* Shapes; converters run only once the sender is known, and a message is  *)
(* delivered when all have ended.                                          *)
MsgReceiveTypeOK ==
  /\ packetStatus \in BOOLEAN /\ quick \in BOOLEAN
  /\ parsePhase \in {"peer", "header", "elements", "done", "dropped", "failed"}
  /\ Len(element) <= MaxElements
  /\ \A i \in Elements :
       /\ element[i] \in [kind : ElementKind, st : ElementStage, url : BOOLEAN, tried : Seq({"1", "2", "3", "threw", "packet"})]
       /\ element[i].tried # <<>> => element[i].kind \in {"reply", "oldReply"}
       /\ element[i].url => element[i].kind \in Media \cup {"pic"}
  /\ parsePhase \in {"peer", "header"} => \A i \in Elements : element[i].st = "new"
  /\ parsePhase = "done" => \A i \in Elements : element[i].st \in Over

New(k) == [kind |-> k, st |-> "new", url |-> FALSE, tried |-> <<>>]
MsgReceiveInit ==
  /\ packetStatus \in BOOLEAN /\ quick \in BOOLEAN /\ parsePhase = "peer"
  /\ element \in {[i \in DOMAIN s |-> New(s[i])] : s \in UNION {[1..n -> ElementKind] : n \in 1..MaxElements}}

Keep == UNCHANGED <<packetStatus, quick>>

(* Sender and chat without a number are looked up; without either, or for  *)
(* a kind of chat that is not known, the message is dropped.               *)
FindPeer ==
  /\ parsePhase = "peer" /\ parsePhase' \in {"header", "dropped", "failed"}
  /\ Keep /\ UNCHANGED element

(* Group, private or temporary chat: the sender's name and role.  A look-up *)
(* that throws costs the message.                                          *)
FindSender ==
  /\ parsePhase = "header" /\ parsePhase' \in {"elements", "failed"}
  /\ Keep /\ UNCHANGED element

ElementTo(i, s) == element' = [element EXCEPT ![i].st = s]
ToUrl(i, u) == element' = [element EXCEPT ![i].st = "segment", ![i].url = u]
Starts(i, k) == parsePhase = "elements" /\ i \in Elements /\ element[i].st = "new" /\ element[i].kind = k
Rest == Keep /\ UNCHANGED parsePhase

TextElement(i) == Starts(i, "text") /\ ElementTo(i, "segment") /\ Rest
(* A mention of somebody whose number has to be looked up may fail.        *)
AtElement(i) == Starts(i, "at") /\ (\E s \in {"segment", "rejected"} : ElementTo(i, s)) /\ Rest
(* A picture whose address cannot be had is left out.                      *)
PicElement(i) == Starts(i, "pic") /\ (ElementTo(i, "null") \/ ToUrl(i, TRUE)) /\ Rest
FaceElement(i) == Starts(i, "face") /\ ElementTo(i, "segment") /\ Rest
MarketFaceElement(i) == Starts(i, "mface") /\ ElementTo(i, "segment") /\ Rest
ArkElement(i) == Starts(i, "ark") /\ ElementTo(i, "segment") /\ Rest
NoConverter(i) == Starts(i, "grayTip") /\ ElementTo(i, "null") /\ Rest

NotFoundUrl(i) == ToUrl(i, FALSE)

(* A file, a voice: with its address when the packet backend knows it.     *)
FileElement(i) ==
  /\ Starts(i, "file") /\ Rest
  /\ (packetStatus /\ ToUrl(i, TRUE)) \/ NotFoundUrl(i)
PttElement(i) ==
  /\ Starts(i, "ptt") /\ Rest
  /\ (packetStatus /\ ToUrl(i, TRUE)) \/ NotFoundUrl(i)
(* A video: the kernel's address first, then the packet backend's.         *)
VideoElement(i) ==
  /\ Starts(i, "video") /\ Rest
  /\ ToUrl(i, TRUE) \/ NotFoundUrl(i)

(* A merged message: from the kernel, else by the packet backend, else it  *)
(* is left out; its own messages are parsed likewise.                      *)
MultiForwardMsgElement(i) == Starts(i, "forward") /\ (\E s \in Over : ElementTo(i, s)) /\ Rest

(* A reply.  The records of two accounts of the service are taken as such. *)
KnownReply(i) == Starts(i, "botReply") /\ ElementTo(i, "segment") /\ Rest
StartReply(i) ==
  /\ Starts(i, "reply") \/ Starts(i, "oldReply")
  /\ ElementTo(i, "lookup") /\ Rest

(* The fourth parameter, which the converter takes for the quick reply, is *)
(* the context object every converter is called with: it is always true.   *)
QuickReply(i) == TRUE

(* tryFetchMethods: by sender, sequence, time and random number; by the    *)
(* sequence number; by sequence and sender.                                *)
Methods(i) ==
  IF element[i].kind = "oldReply" THEN <<"2">> ELSE IF QuickReply(i) THEN <<"1">> ELSE <<"1", "2", "3">>

GivenUp(i) == "null"                        \* defect: the packet backend is not asked
ThenPacket(i) == IF packetStatus THEN "packet" ELSE "null"

Tries(i, m, s) == element' = [element EXCEPT ![i].st = s, ![i].tried = Append(@, m)]

(* The next method: it finds the message, or not, or the query throws,     *)
(* which ends the methods.                                                 *)
TryMethod(i) ==
  /\ parsePhase = "elements" /\ i \in Elements /\ element[i].st = "lookup" /\ Rest
  /\ LET n == Len(element[i].tried) + 1
         m == Methods(i)[n] IN
       \/ Tries(i, m, "segment")
       \/ Tries(i, m, IF n < Len(Methods(i)) THEN "lookup" ELSE ThenPacket(i))
       \/ Tries(i, "threw", ThenPacket(i))

FetchByPacket(i) ==
  /\ parsePhase = "elements" /\ i \in Elements /\ element[i].st = "packet" /\ Rest
  /\ \E s \in {"segment", "null"} : Tries(i, "packet", s)

AnyRejected == \E i \in Elements : element[i].st = "rejected"
LikeAll == IF AnyRejected THEN "failed" ELSE "done"  \* defect: Promise.all, one failure costs the message
AllSettled == "done"

AllOver == \A i \in Elements : element[i].st \in Over

MessageParsed ==
  /\ parsePhase = "elements" /\ AllOver /\ parsePhase' = AllSettled
  /\ Keep /\ UNCHANGED element

Convert(i) ==
  \/ TextElement(i) \/ AtElement(i) \/ PicElement(i) \/ FaceElement(i) \/ MarketFaceElement(i) \/ ArkElement(i)
  \/ NoConverter(i) \/ FileElement(i) \/ PttElement(i) \/ VideoElement(i) \/ MultiForwardMsgElement(i)
  \/ KnownReply(i) \/ StartReply(i) \/ TryMethod(i) \/ FetchByPacket(i)

MsgReceiveNext == FindPeer \/ FindSender \/ MessageParsed \/ \E i \in 1..MaxElements : Convert(i)
MsgReceiveSpec ==
  MsgReceiveInit /\ [][MsgReceiveNext]_receivevars
  /\ WF_receivevars(FindPeer) /\ WF_receivevars(FindSender) /\ WF_receivevars(MessageParsed)
  /\ \A i \in 1..MaxElements : WF_receivevars(Convert(i))

----------------------------------------------------------------------------
(* Once the sender is known nothing an element does costs the message: it  *)
(* is delivered, with every text, face, card and known file in it.         *)
ElementsNeverCostTheMessage ==
  /\ parsePhase = "failed" => \A i \in Elements : element[i].st = "new"
  /\ parsePhase = "done" => \A i \in Elements :
       element[i].kind \in {"text", "face", "mface", "ark", "botReply"} \cup Media => element[i].st = "segment"

Tried(i) == {element[i].tried[n] : n \in 1..Len(element[i].tried)}

(* A reply is left out only after the packet backend, where there is one,  *)
(* has been asked as well.                                                 *)
PacketIsTheLastResort ==
  \A i \in Elements : element[i].kind \in {"reply", "oldReply"} /\ element[i].st = "null" /\ packetStatus
                         => "packet" \in Tried(i)

(* Every message is delivered, dropped or refused.                         *)
ParsingEnds == <>(parsePhase \in {"done", "dropped", "failed"})

(* No element that fails costs the message or the other elements, and a    *)
(* reply is left out only after the packet backend was asked as well.      *)
MsgReceiveSafe == MsgReceiveTypeOK /\ ElementsNeverCostTheMessage /\ PacketIsTheLastResort
============================================================================
