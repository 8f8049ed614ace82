------------------------------ MODULE MsgSend ------------------------------
(***************************************************************************)
(* Sending a message in NapCat: the action (napcat-onebot/action/msg/      *)
(* SendMsg.ts) finds the peer, createSendElements (napcat-onebot/api/      *)
(* msg.ts) starts the converters of all segments at once and waits for     *)
(* them together, and sendMsgWithOb11UniqueId sends what they made and     *)
(* gives the files they downloaded to the clean-up.  A segment is its      *)
(* position and what its converter does.                                   *)
(***************************************************************************)
EXTENDS Integers, FiniteSets, Sequences

CONSTANT MaxSegments
ASSUME MsgSendAssumption == MaxSegments \in Nat \ {0}

VARIABLES
  mode,       \* ContextMode of the action
  peer,       \* what createContext found: "group", "c2c", "temp"
  sendPhase,  \* "idle", "building", "built", "sending", "sent", "refused", "failed"
  segs,       \* each segment's converter: its kind, how far it is, when it ended
  elements,   \* positions of the segments whose elements are sent
  files,      \* positions whose file was downloaded
  scheduled   \* positions whose file the clean-up was given

sendvars == <<mode, peer, sendPhase, segs, elements, files, scheduled>>

SegmentKind == {"text", "face", "card", "node", "at", "reply", "file", "video", "music", "contact", "unknown"}
FileLike == {"file", "video"}
SegmentStage == {"waiting", "running", "fetched", "element", "nothing", "failed"}
Ended == {"element", "nothing", "failed"}
Segments == DOMAIN segs

(* Shapes; a converter that ended has its rank, only downloaded files are  *)
(* scheduled, and from "built" on every converter has ended.               *)
MsgSendTypeOK ==
  /\ mode \in {"Normal", "Group", "Private"} /\ peer \in {"none", "group", "c2c", "temp"}
  /\ sendPhase \in {"idle", "building", "built", "sending", "sent", "refused", "failed"}
  /\ Len(segs) <= MaxSegments
  /\ \A i \in Segments : segs[i] \in [kind : SegmentKind, st : SegmentStage, rank : 0..MaxSegments]
  /\ \A i \in Segments : segs[i].st \in Ended <=> segs[i].rank > 0
  /\ \A i \in 1..Len(elements) : elements[i] \in Segments
  /\ files \subseteq Segments /\ scheduled \subseteq files
  /\ sendPhase \in {"built", "sending", "sent", "refused"} => \A i \in Segments : segs[i].st \in Ended

MsgSendInit ==
  /\ mode \in {"Normal", "Group", "Private"} /\ peer = "none" /\ sendPhase = "idle"
  /\ segs = <<>> /\ elements = <<>> /\ files = {} /\ scheduled = {}

(* createContext: the peers a payload with or without a group and a user   *)
(* can lead to, by what the kernel knows of the user; none when it throws. *)
createContext(group, user) ==
  IF group /\ mode # "Private" THEN {"group"}
  ELSE IF user /\ mode # "Group" THEN {"c2c", "temp"} \cup (IF group THEN {"group"} ELSE {})
  ELSE {}

(* SendMsgBase.check: forward nodes do not mix with other segments.        *)
Valid(kinds) == (\E i \in 1..Len(kinds) : kinds[i] = "node") => \A i \in 1..Len(kinds) : kinds[i] = "node"

FirstUnknown(kinds) == {i \in 1..Len(kinds) : kinds[i] = "unknown" /\ \A j \in 1..(i - 1) : kinds[j] # "unknown"}

(* createSendElements starts the converters in turn; a type it does not    *)
(* know throws, with the converters before it on their way.                *)
Begin(kinds, group, user) ==
  /\ sendPhase = "idle" /\ Valid(kinds)
  /\ peer' \in createContext(group, user)
  /\ sendPhase' = IF FirstUnknown(kinds) = {} THEN "building" ELSE "failed"
  /\ segs' = [i \in 1..Len(kinds) |->
       [kind |-> kinds[i], rank |-> 0, st |-> IF \E u \in FirstUnknown(kinds) : i >= u THEN "waiting" ELSE "running"]]
  /\ UNCHANGED <<mode, elements, files, scheduled>>

Rank == 1 + Cardinality({i \in Segments : segs[i].st \in Ended})
SegmentTo(i, s) ==
  segs' = [segs EXCEPT ![i] = [kind |-> segs[i].kind, st |-> s, rank |-> IF s \in Ended THEN Rank ELSE 0]]
Running(i, k) == i \in Segments /\ segs[i].st = "running" /\ segs[i].kind = k
RestOfSend == UNCHANGED <<mode, peer, sendPhase, elements, scheduled>>

TextConverter(i) == Running(i, "text") /\ SegmentTo(i, "element") /\ RestOfSend /\ UNCHANGED files
(* face, mface: a face is looked up by its number.                         *)
FaceConverter(i) == Running(i, "face") /\ (\E s \in {"element", "nothing"} : SegmentTo(i, s)) /\ RestOfSend /\ UNCHANGED files
(* json, dice, rps, markdown.                                              *)
CardConverter(i) == Running(i, "card") /\ SegmentTo(i, "element") /\ RestOfSend /\ UNCHANGED files
(* node, xml, poke, miniapp, onlinefile, flashtransfer cannot be sent.     *)
NodeConverter(i) == Running(i, "node") /\ SegmentTo(i, "nothing") /\ RestOfSend /\ UNCHANGED files

(* at: nothing in a private chat; a member, or else a user, is looked up.  *)
AtConverter(i) ==
  /\ Running(i, "at")
  /\ IF peer = "c2c" THEN SegmentTo(i, "nothing") ELSE \E s \in {"element", "failed"} : SegmentTo(i, s)
  /\ RestOfSend /\ UNCHANGED files

(* reply: nothing when the message is unknown or no longer there.          *)
ReplyConverter(i) ==
  /\ Running(i, "reply") /\ \E s \in Ended : SegmentTo(i, s) /\ RestOfSend /\ UNCHANGED files

(* music: a card signed by a service, or nothing.                          *)
MusicConverter(i) == Running(i, "music") /\ (\E s \in {"element", "nothing"} : SegmentTo(i, s)) /\ RestOfSend /\ UNCHANGED files
(* contact: a card the kernel makes, nothing for another type, or an error. *)
ContactConverter(i) == Running(i, "contact") /\ (\E s \in Ended : SegmentTo(i, s)) /\ RestOfSend /\ UNCHANGED files

(* handleOb11FileLikeMessage: a remote file is downloaded and noted for    *)
(* deletion, a local one is used as it is.                                 *)
FetchFile(i) ==
  /\ \E k \in FileLike : Running(i, k)
  /\ \/ SegmentTo(i, "failed") /\ UNCHANGED files
     \/ SegmentTo(i, "fetched") /\ files' \in {files, files \cup {i}}
  /\ RestOfSend
(* image, file, voice: the element is made of the local file.              *)
FileConverter(i) ==
  /\ i \in Segments /\ segs[i].st = "fetched" /\ segs[i].kind = "file"
  /\ \E s \in {"element", "failed"} : SegmentTo(i, s)
  /\ RestOfSend /\ UNCHANGED files
(* video: its thumbnail may be downloaded, too, and is noted likewise.     *)
VideoConverter(i) ==
  /\ i \in Segments /\ segs[i].st = "fetched" /\ segs[i].kind = "video"
  /\ \E s \in {"element", "failed"} : SegmentTo(i, s)
  /\ RestOfSend /\ files' \in {files, files \cup {i}}

MadeElement(i) == segs[i].st = "element"
ByArrival(made) == CHOOSE s \in [1..Cardinality(made) -> made] :   \* defect: in the order the converters end
                     \A i, j \in 1..Cardinality(made) : i < j => segs[s[i]].rank < segs[s[j]].rank
InOrder(made) == CHOOSE s \in [1..Cardinality(made) -> made] : \A i, j \in 1..Cardinality(made) : i < j => s[i] < s[j]

NeverRejects == FALSE                       \* defect: the catch of createSendElements swallows an error
Rejects == \E i \in Segments : segs[i].st = "failed"

AllThrough == \A i \in Segments : segs[i].st \in Ended

(* Promise.all: over with the first rejection, or when all are through.    *)
Settle ==
  /\ sendPhase = "building"
  /\ IF Rejects THEN sendPhase' = "failed" /\ UNCHANGED elements
     ELSE /\ AllThrough
          /\ elements' = InOrder({i \in Segments : MadeElement(i)}) /\ sendPhase' = "built"
  /\ UNCHANGED <<mode, peer, segs, files, scheduled>>

NotEmpty == IF elements = <<>> THEN "failed" ELSE "sending"

(* sendMsgWithOb11UniqueId, up to the kernel and, in its finally, after.   *)
SendMsg == sendPhase = "built" /\ sendPhase' = NotEmpty /\ UNCHANGED <<mode, peer, segs, elements, files, scheduled>>

WhenSent(p) == IF p = "sent" THEN files ELSE {}   \* defect: not in a finally
WhenOver(p) == files

KernelAnswers ==
  /\ sendPhase = "sending" /\ sendPhase' \in {"sent", "refused"}
  /\ scheduled' = WhenOver(sendPhase')
  /\ UNCHANGED <<mode, peer, segs, elements, files>>

Converter(i) ==
  \/ TextConverter(i) \/ FaceConverter(i) \/ CardConverter(i) \/ NodeConverter(i) \/ AtConverter(i)
  \/ ReplyConverter(i) \/ MusicConverter(i) \/ ContactConverter(i)
  \/ FetchFile(i) \/ FileConverter(i) \/ VideoConverter(i)
Messages == UNION {[1..n -> SegmentKind] : n \in 1..MaxSegments}

MsgSendNext ==
  \/ \E kinds \in Messages, group, user \in BOOLEAN : Begin(kinds, group, user)
  \/ \E i \in 1..MaxSegments : Converter(i)
  \/ Settle \/ SendMsg \/ KernelAnswers

MsgSendFair ==
  /\ \A i \in 1..MaxSegments : WF_sendvars(Converter(i))
  /\ WF_sendvars(Settle) /\ WF_sendvars(SendMsg) /\ WF_sendvars(KernelAnswers)
MsgSendSpec == MsgSendInit /\ [][MsgSendNext]_sendvars
MsgSendFairSpec == MsgSendSpec /\ MsgSendFair

----------------------------------------------------------------------------
(* The parts of a message keep the order the caller gave them, whichever   *)
(* converter ends first, and none is taken twice.                          *)
PartsInOrder == \A i, j \in 1..Len(elements) : i < j => elements[i] < elements[j]

(* A message goes out whole: what it lacks are segments that cannot be     *)
(* sent at all, never one whose converter failed.                          *)
WholeOrNotAtAll ==
  sendPhase \in {"sending", "sent", "refused"} =>
    elements # <<>> /\ \A i \in Segments : segs[i].st = "nothing" \/ \E n \in 1..Len(elements) : elements[n] = i

(* Once the kernel has answered, for or against, every file downloaded for *)
(* the message is with the clean-up.                                       *)
FilesAreScheduled == sendPhase \in {"sent", "refused"} => files = scheduled

(* Every message that was begun is sent or refused.                        *)
SendingEnds == sendPhase = "building" ~> sendPhase \in {"sent", "refused", "failed"}

(* A message goes out with all its parts in their order or not at all, and *)
(* once the kernel answered every file fetched for it is with the clean-up.*)
MsgSendSafe == MsgSendTypeOK /\ PartsInOrder /\ WholeOrNotAtAll /\ FilesAreScheduled
============================================================================
