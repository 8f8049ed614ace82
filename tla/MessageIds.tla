----------------------------- MODULE MessageIds -----------------------------
(***************************************************************************)
(* The 31-bit message ids of the OneBot side: LimitedHashTable and         *)
(* MessageUnique (napcat-common/src/message-unique.ts).  A message is a    *)
(* kernel id in a peer, its short id is a hash of both, and two tables of  *)
(* MaxSize entries lead from kernel id and from message to the short id    *)
(* and back.  The hash is a parameter: collisions happen.                  *)
(***************************************************************************)
EXTENDS Integers, Sequences, FiniteSets

CONSTANTS
  MsgId, Peer,   \* kernel message ids and the peers they occur in
  Short,         \* short ids
  Hash,          \* the hash of each message
  MaxSize,       \* maxMap
  MaxCreated     \* bound: calls of createUniqueMsgId

KernelMessage == MsgId \X Peer

ASSUME MessageIdsAssumption ==
  Hash \in [KernelMessage -> Short] /\ MaxSize \in Nat \ {0} /\ MaxCreated \in Nat

VARIABLES
  msgIdMap,    \* from kernel id to short id and back
  msgDataMap,  \* from message to short id and back
  created      \* history: the messages given an id, in order

idvars == <<msgIdMap, msgDataMap, created>>

----------------------------------------------------------------------------
(* A table: keyToValue and valueToKey, with the keys in insertion order.   *)
Empty == [keys |-> <<>>, value |-> <<>>, key |-> <<>>]
KeysOf(t) == DOMAIN t.value
Forget(f, x) == [y \in DOMAIN f \ {x} |-> f[y]]
With(f, x, v) == [y \in DOMAIN f \cup {x} |-> IF y = x THEN v ELSE f[y]]

Written(t, k, v) ==
  [keys |-> IF k \in KeysOf(t) THEN t.keys ELSE Append(t.keys, k),
   value |-> With(t.value, k, v), key |-> With(t.key, v, k)]

OldestHalfForgotten(t) ==   \* defect: its value still leads to it
  [keys |-> Tail(t.keys), value |-> Forget(t.value, Head(t.keys)), key |-> t.key]

(* One step of the eviction: the oldest key and what its value leads to.   *)
WithoutOldest(t) ==
  [keys |-> Tail(t.keys), value |-> Forget(t.value, Head(t.keys)),
   key |-> Forget(t.key, t.value[Head(t.keys)])]

Trimmed(t) == IF Len(t.keys) > MaxSize THEN WithoutOldest(t) ELSE t

(* set: if the two maps differ in size both are cleared, with everything   *)
(* in them, the entry just written included.                               *)
Repaired(t) ==
  IF Cardinality(DOMAIN t.value) # Cardinality(DOMAIN t.key) THEN Empty ELSE Trimmed(t)
Put(t, k, v) == Repaired(Written(t, k, v))

(* getMsgIdAndPeerByShortId, getShortIdByMsgId and getPeerByMsgId.         *)
Resolves(s) == s \in DOMAIN msgDataMap.key
MessageOf(s) == msgDataMap.key[s]
KnowsId(m) == m \in DOMAIN msgIdMap.value /\ Resolves(msgIdMap.value[m])
MessageOfId(m) == MessageOf(msgIdMap.value[m])

----------------------------------------------------------------------------
MessageIdsInit == msgIdMap = Empty /\ msgDataMap = Empty /\ created = <<>>

createKeepingFirst(m) ==   \* defect: a known kernel id keeps its old entry
  /\ Len(created) < MaxCreated
  /\ msgIdMap' = IF m[1] \in KeysOf(msgIdMap) THEN msgIdMap ELSE Put(msgIdMap, m[1], Hash[m])
  /\ msgDataMap' = Put(msgDataMap, m, Hash[m])
  /\ created' = Append(created, m)

createUniqueMsgId(m) ==
  /\ Len(created) < MaxCreated
  /\ msgIdMap' = Put(msgIdMap, m[1], Hash[m])
  /\ msgDataMap' = Put(msgDataMap, m, Hash[m])
  /\ created' = Append(created, m)

MessageIdsNext == \E m \in KernelMessage : createUniqueMsgId(m)
MessageIdsSpec == MessageIdsInit /\ [][MessageIdsNext]_idvars

----------------------------------------------------------------------------
IsTable(t, K) ==
  /\ t.keys \in Seq(K) /\ DOMAIN t.value = {t.keys[i] : i \in 1..Len(t.keys)}
  /\ t.value \in [KeysOf(t) -> Short] /\ DOMAIN t.key \subseteq Short /\ t.key \in [DOMAIN t.key -> K]

(* The tables are tables, and never longer than MaxSize.                   *)
MessageIdsTypeOK ==
  /\ IsTable(msgIdMap, MsgId) /\ Len(msgIdMap.keys) <= MaxSize
  /\ IsTable(msgDataMap, KernelMessage) /\ Len(msgDataMap.keys) <= MaxSize
  /\ created \in Seq(KernelMessage)

CreatedAt(m) == {i \in 1..Len(created) : created[i] = m}
NewerThan(i) == {created[j] : j \in i + 1..Len(created)}
Clashes(i) == \E j \in i..Len(created), k \in 1..Len(created) :
                created[j] # created[k] /\ Hash[created[j]] = Hash[created[k]]

(* A short id never leads to a message of another short id, and when two   *)
(* messages share one it is the one created last.                          *)
ShortIdsAreExact ==
  \A s \in DOMAIN msgDataMap.key :
    /\ MessageOf(s) \in DOMAIN msgDataMap.value /\ msgDataMap.value[MessageOf(s)] = s
    /\ \E i \in CreatedAt(MessageOf(s)) :
         \A j \in i + 1..Len(created) : Hash[created[j]] = s => created[j] = MessageOf(s)

(* A message is only forgotten when its id clashed since, or when MaxSize  *)
(* other messages were given an id after it was first seen.                *)
ForgottenOnlyByNewer ==
  \A m \in KernelMessage : CreatedAt(m) # {} /\ ~Clashes(1) /\ ~Resolves(Hash[m]) =>
    \A i \in CreatedAt(m) : (\A j \in CreatedAt(m) : i <= j) => Cardinality(NewerThan(i)) >= MaxSize

(* Without clashes a kernel id leads to a message of that kernel id, and   *)
(* to the last one when it occurred in several peers.                      *)
IdsLeadHome ==
  ~Clashes(1) => \A m \in MsgId : KnowsId(m) =>
    /\ MessageOfId(m)[1] = m
    /\ \E i \in CreatedAt(MessageOfId(m)) : \A j \in i + 1..Len(created) :
         created[j][1] = m => created[j] = MessageOfId(m)

(* A short id leads to the last message that was given it; a message is    *)
(* forgotten only by a clash or by MaxSize newer ones; without clashes a   *)
(* kernel id leads to its last message.                                    *)
MessageIdsSafe == MessageIdsTypeOK /\ ShortIdsAreExact /\ ForgottenOnlyByNewer /\ IdsLeadHome
============================================================================
