--------------------------- MODULE ForwardUpload ---------------------------
(***************************************************************************)
(* Merged forwarding in NapCat with the packet backend (napcat-onebot/     *)
(* action/msg/SendMsg.ts, uploadForwardedNodesPacket): nodes may hold      *)
(* nodes, a level of them is made by a call of its own, which uploads it   *)
(* when its nodes are made, with the contents of all levels below it, to   *)
(* which its cards refer.  A level is named by its path: the positions of  *)
(* the nodes that lead to it.  A message that carries a forward of its     *)
(* own, received earlier, is plain text here.                              *)
(***************************************************************************)
EXTENDS Integers, Sequences, FiniteSets

CONSTANTS
  NodeLists,   \* lists of nodes: [kind |-> "msg" or "gone"], or "nest" with nodes in sub
  MaxDepth    \* levels that are parsed

ASSUME ForwardUploadAssumption == MaxDepth \in Nat \ {0}

VARIABLES
  dp,            \* the level whose call runs; those above wait for it
  messageNodes,  \* by level, the nodes of its call,
  place,         \* the node it is at,
  packetMsg,     \* the messages made
  innerMsg,      \* and the contents of the levels below them
  uploads,       \* history: what was uploaded
  forwarded      \* "making", "uploaded", "sent", "failed"

uploadvars == <<dp, messageNodes, place, packetMsg, innerMsg, uploads, forwarded>>

Depth == 0..MaxDepth

(* A message of a level: text, a card that refers to a level, or nothing   *)
(* (the node's own nodes could not be made).                               *)
Text == <<"text">>
Card(p) == <<"card", p>>
Hollow == <<"hollow">>

PathOf(d) == [k \in 1..d |-> place[k - 1]]
OnlyItself(d) == {[of |-> PathOf(d), msgs |-> packetMsg[d]]}   \* defect: the levels below are forgotten
Carried(d) == {[of |-> PathOf(d), msgs |-> packetMsg[d]]} \cup innerMsg[d]

TooDeep(d) == d >= MaxDepth

(* Shapes; no level that is too deep has messages.                         *)
ForwardUploadTypeOK ==
  /\ dp \in Depth /\ place \in [Depth -> Nat \ {0}]
  /\ forwarded \in {"making", "uploaded", "sent", "failed"}
  /\ \A d \in 0..dp : TooDeep(d) => packetMsg[d] = <<>>

ForwardUploadInit ==
  /\ \E r \in NodeLists : messageNodes = [d \in Depth |-> IF d = 0 THEN r ELSE <<>>]
  /\ dp = 0 /\ place = [d \in Depth |-> 1] /\ packetMsg = [d \in Depth |-> <<>>]
  /\ innerMsg = [d \in Depth |-> {}] /\ uploads = <<>> /\ forwarded = "making"

AtNode(kind) ==
  /\ forwarded = "making" /\ ~TooDeep(dp) /\ place[dp] <= Len(messageNodes[dp])
  /\ messageNodes[dp][place[dp]].kind = kind
AtEnd == forwarded = "making" /\ (TooDeep(dp) \/ place[dp] > Len(messageNodes[dp]))

(* The loop goes on at level d with a message more and what it carries.    *)
Push(d, msg, inner) ==
  /\ packetMsg' = [packetMsg EXCEPT ![d] = Append(@, msg)]
  /\ innerMsg' = [innerMsg EXCEPT ![d] = @ \cup inner]
  /\ place' = [place EXCEPT ![d] = @ + 1]

(* Any error ends all calls.                                               *)
Throw == forwarded' = "failed" /\ UNCHANGED <<dp, messageNodes, place, packetMsg, innerMsg, uploads>>

MessageNode ==
  /\ AtNode("msg")
  /\ \/ Push(dp, Text, {}) /\ UNCHANGED <<dp, messageNodes, uploads, forwarded>>
     \/ Throw

MissingNode ==
  /\ AtNode("gone") /\ place' = [place EXCEPT ![dp] = @ + 1]
  /\ UNCHANGED <<dp, messageNodes, packetMsg, innerMsg, uploads, forwarded>>

(* A node that holds nodes: the function calls itself.                     *)
NestNode ==
  /\ AtNode("nest") /\ dp' = dp + 1
  /\ messageNodes' = [messageNodes EXCEPT ![dp + 1] = messageNodes[dp][place[dp]].sub]
  /\ place' = [place EXCEPT ![dp + 1] = 1] /\ packetMsg' = [packetMsg EXCEPT ![dp + 1] = <<>>]
  /\ innerMsg' = [innerMsg EXCEPT ![dp + 1] = {}]
  /\ UNCHANGED <<uploads, forwarded>>

(* Nothing could be made: null, an error at the outermost level.           *)
ReturnNull ==
  /\ AtEnd /\ packetMsg[dp] = <<>>
  /\ \/ dp = 0 /\ Throw
     \/ dp > 0 /\ dp' = dp - 1 /\ Push(dp - 1, Hollow, {}) /\ UNCHANGED <<messageNodes, uploads, forwarded>>

(* The level is uploaded and its card is the message of the node above.    *)
UploadForwardMsg ==
  /\ AtEnd /\ packetMsg[dp] # <<>>
  /\ \/ /\ uploads' = Append(uploads, [of |-> PathOf(dp), msgs |-> packetMsg[dp], entries |-> Carried(dp)])
        /\ \/ dp = 0 /\ forwarded' = "uploaded" /\ UNCHANGED <<dp, place, packetMsg, innerMsg>>
           \/ dp > 0 /\ dp' = dp - 1 /\ Push(dp - 1, Card(PathOf(dp)), Carried(dp)) /\ UNCHANGED forwarded
        /\ UNCHANGED messageNodes
     \/ Throw

(* handleForwardedNodesPacket: the card of the outermost level is sent.    *)
SendCard ==
  /\ forwarded = "uploaded" /\ forwarded' \in {"sent", "failed"}
  /\ UNCHANGED <<dp, messageNodes, place, packetMsg, innerMsg, uploads>>

ForwardUploadNext == MessageNode \/ MissingNode \/ NestNode \/ ReturnNull \/ UploadForwardMsg \/ SendCard
ForwardUploadSpec == ForwardUploadInit /\ [][ForwardUploadNext]_uploadvars

----------------------------------------------------------------------------
CardsOf(msgs) == {msgs[i][2] : i \in {j \in 1..Len(msgs) : msgs[j][1] = "card"}}

(* Whoever opens an uploaded level finds, in the same upload, the contents *)
(* of every card in it, however deep, and they are what was uploaded for   *)
(* that card.                                                              *)
UploadsAreClosed ==
  \A n \in 1..Len(uploads) : LET E == uploads[n].entries IN
    /\ \A e \in E : \A c \in CardsOf(e.msgs) : \E f \in E : f.of = c
    /\ \A e \in E : \E k \in 1..n : uploads[k].of = e.of /\ uploads[k].msgs = e.msgs

(* No level is deeper than the limit, every level is uploaded once, and    *)
(* before the ones that refer to it.                                       *)
InnerFirst ==
  \A n \in 1..Len(uploads) :
    /\ Len(uploads[n].of) < MaxDepth
    /\ \A k \in 1..(n - 1) : uploads[k].of # uploads[n].of
    /\ \A e \in uploads[n].entries : \A c \in CardsOf(e.msgs) : \E k \in 1..(n - 1) : uploads[k].of = c

(* The card that is sent is that of the outermost level, which carries all *)
(* that was uploaded.                                                      *)
AllIsCarried ==
  forwarded \in {"uploaded", "sent"} =>
    LET n == Len(uploads) IN
    /\ n > 0 /\ uploads[n].of = <<>>
    /\ \A k \in 1..n : [of |-> uploads[k].of, msgs |-> uploads[k].msgs] \in uploads[n].entries

(* Every uploaded level carries the contents of all cards below it, and is *)
(* uploaded once, before the card that refers to it.                       *)
ForwardUploadSafe == ForwardUploadTypeOK /\ UploadsAreClosed /\ InnerFirst /\ AllIsCarried
============================================================================
