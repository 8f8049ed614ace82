----------------------------- MODULE MsgForward -----------------------------
(***************************************************************************)
(* Merged forwarding in NapCat without the packet backend                  *)
(* (napcat-onebot/action/msg/SendMsg.ts, handleForwardedNodes): each node  *)
(* becomes messages - one that exists, or new ones the bot sends to        *)
(* itself - then those are fetched, brought together in one chat and       *)
(* forwarded.  A message is the node it stands for, its part of it and the *)
(* chat it lies in; every wait of the code is a step here.                 *)
(***************************************************************************)
EXTENDS Naturals, Sequences

CONSTANTS
  Chat,       \* chats other than the one of the bot with itself
  OwnChat,    \* the bot's own chat
  MaxNodes,   \* nodes of one message
  MaxParts    \* messages a node is split into

ASSUME MsgForwardAssumption ==
  OwnChat \notin Chat /\ "none" \notin Chat \cup {OwnChat} /\ MaxNodes \in Nat /\ MaxParts \in Nat \ {0}

VARIABLES
  nodes,        \* the kinds of the nodes
  stage,        \* "nodes", "fetch", "clone", "forward", "done", "failed"
  at,           \* the node or message the current loop is at
  nodeMsgIds,   \* messages collected from the nodes
  nodeMsgArray, \* those found again
  srcPeer,      \* the chat they are forwarded from
  needSendSelf,
  retMsgIds     \* what is forwarded

forwardvars == <<nodes, stage, at, nodeMsgIds, nodeMsgArray, srcPeer, needSendSelf, retMsgIds>>

Message == [node : 1..MaxNodes, part : 1..MaxParts, chat : Chat \cup {OwnChat}]
MessagesOf(s) == \A i \in 1..Len(s) : s[i] \in Message

(* Shapes; a source chat is known exactly when a message was found, and    *)
(* nothing empty is forwarded.                                             *)
MsgForwardTypeOK ==
  /\ Len(nodes) <= MaxNodes /\ \A i \in 1..Len(nodes) : nodes[i] \in {"id", "content", "nested"}
  /\ stage \in {"nodes", "fetch", "clone", "forward", "done", "failed"}
  /\ at \in 1..(MaxNodes * MaxParts + 1)
  /\ MessagesOf(nodeMsgIds) /\ MessagesOf(nodeMsgArray) /\ MessagesOf(retMsgIds)
  /\ srcPeer \in Chat \cup {OwnChat, "none"} /\ needSendSelf \in BOOLEAN
  /\ srcPeer = "none" <=> nodeMsgArray = <<>>
  /\ stage \in {"forward", "done"} => retMsgIds # <<>>

MsgForwardInit ==
  /\ nodes \in UNION {[1..n -> {"id", "content", "nested"}] : n \in 1..MaxNodes}
  /\ stage = "nodes" /\ at = 1
  /\ nodeMsgIds = <<>> /\ nodeMsgArray = <<>> /\ retMsgIds = <<>>
  /\ srcPeer = "none" /\ needSendSelf = FALSE

Part(n, p, c) == [node |-> n, part |-> p, chat |-> c]
NodeIs(k) == stage = "nodes" /\ at <= Len(nodes) /\ nodes[at] = k
Collected(s) ==
  /\ nodeMsgIds' = nodeMsgIds \o s /\ at' = at + 1
  /\ UNCHANGED <<nodes, stage, nodeMsgArray, srcPeer, needSendSelf, retMsgIds>>

(* A node with an id: a message of some chat, or none that is known.       *)
IdNode == NodeIs("id") /\ (Collected(<<>>) \/ \E c \in Chat \cup {OwnChat} : Collected(<<Part(at, 1, c)>>))

InAnyOrder(parts) == {s \in [1..Len(parts) -> {parts[i] : i \in 1..Len(parts)}] :   \* defect: as the sends end
                        \A i, j \in 1..Len(parts) : i # j => s[i] # s[j]}
InTheirOrder(parts) == {parts}

(* The parts that went out of a node split into p, in their order.         *)
PartsOf(p, sent) ==
  LET part[i \in 0..p] ==
        IF i = 0 THEN <<>>
        ELSE IF i \in sent THEN Append(part[i - 1], Part(at, i, OwnChat)) ELSE part[i - 1]
  IN  part[p]

(* A node with content: its text and pictures are one part, every file,    *)
(* video, card and voice one of its own; they are sent to oneself at once  *)
(* and those that came through are taken.  No part when it cannot be made. *)
ContentNode ==
  /\ NodeIs("content")
  /\ \E p \in 0..MaxParts : \E sent \in SUBSET (1..p) :
       \E order \in InTheirOrder(PartsOf(p, sent)) : Collected(order)

(* Nodes in a node: forwarded to oneself first; the card is the message.   *)
NestedNode == NodeIs("nested") /\ (Collected(<<>>) \/ Collected(<<Part(at, 1, OwnChat)>>))

NodesRead ==
  /\ stage = "nodes" /\ at > Len(nodes) /\ stage' = "fetch" /\ at' = 1
  /\ UNCHANGED <<nodes, nodeMsgIds, nodeMsgArray, srcPeer, needSendSelf, retMsgIds>>

Unnoticed(m) == FALSE                       \* defect: another chat is not noticed
OtherChat(m) == srcPeer # "none" /\ srcPeer # m.chat

(* getMsgsByMsgId: a message that is gone by now is left out.              *)
FetchMsg ==
  /\ stage = "fetch" /\ at <= Len(nodeMsgIds) /\ at' = at + 1
  /\ LET m == nodeMsgIds[at] IN
       \/ UNCHANGED <<nodeMsgArray, srcPeer, needSendSelf>>
       \/ /\ nodeMsgArray' = Append(nodeMsgArray, m)
          /\ srcPeer' = IF srcPeer = "none" THEN m.chat ELSE srcPeer
          /\ needSendSelf' = (needSendSelf \/ OtherChat(m))
  /\ UNCHANGED <<nodes, stage, nodeMsgIds, retMsgIds>>

WithSome(s) == IF s = <<>> THEN "failed" ELSE "forward"

Fetched ==
  /\ stage = "fetch" /\ at > Len(nodeMsgIds) /\ at' = 1
  /\ retMsgIds' = IF needSendSelf THEN <<>> ELSE nodeMsgArray
  /\ stage' = IF needSendSelf THEN "clone" ELSE WithSome(nodeMsgArray)
  /\ UNCHANGED <<nodes, nodeMsgIds, nodeMsgArray, srcPeer, needSendSelf>>

(* cloneMsg: sent to oneself once more, unless it lies there already.      *)
CloneMsg ==
  /\ stage = "clone" /\ at <= Len(nodeMsgArray) /\ at' = at + 1
  /\ LET m == nodeMsgArray[at] IN
       \/ retMsgIds' = Append(retMsgIds, Part(m.node, m.part, OwnChat))
       \/ m.chat # OwnChat /\ retMsgIds' = retMsgIds
  /\ UNCHANGED <<nodes, stage, nodeMsgIds, nodeMsgArray, srcPeer, needSendSelf>>

Cloned ==
  /\ stage = "clone" /\ at > Len(nodeMsgArray) /\ at' = 1
  /\ stage' = WithSome(retMsgIds)
  /\ UNCHANGED <<nodes, nodeMsgIds, nodeMsgArray, srcPeer, needSendSelf, retMsgIds>>

(* multiForwardMsg; without its message the action ends with an error.     *)
Forward ==
  /\ stage = "forward" /\ stage' \in {"done", "failed"}
  /\ UNCHANGED <<nodes, at, nodeMsgIds, nodeMsgArray, srcPeer, needSendSelf, retMsgIds>>

MsgForwardNext ==
  \/ IdNode \/ ContentNode \/ NestedNode \/ NodesRead
  \/ FetchMsg \/ Fetched \/ CloneMsg \/ Cloned \/ Forward
MsgForwardSpec == MsgForwardInit /\ [][MsgForwardNext]_forwardvars /\ WF_forwardvars(MsgForwardNext)

----------------------------------------------------------------------------
Precedes(a, b) == a.node < b.node \/ (a.node = b.node /\ a.part < b.part)

(* What is forwarded keeps the order of the nodes and, within a node, of   *)
(* its parts, and nothing is forwarded twice.                              *)
NodesInOrder == \A i, j \in 1..Len(retMsgIds) : i < j => Precedes(retMsgIds[i], retMsgIds[j])

(* All that is forwarded lies in one chat: the kernel forwards from one.   *)
FromOneChat == stage = "forward" => \A i, j \in 1..Len(retMsgIds) : retMsgIds[i].chat = retMsgIds[j].chat

(* What is forwarded keeps the order of the nodes and their parts, holds   *)
(* nothing twice and lies in one chat.                                     *)
MsgForwardSafe == MsgForwardTypeOK /\ NodesInOrder /\ FromOneChat
============================================================================
