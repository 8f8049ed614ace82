--------------------------- MODULE ReceiveProofs ---------------------------
(***************************************************************************)
(* The safety properties of what NapCat receives, from the kernel's        *)
(* callbacks over the parser to the adapters, hold of every behaviour of   *)
(* their specifications, for every value of the constants.                 *)
(***************************************************************************)
EXTENDS OneBotEvents, MsgReceive, GroupCache, MessageIds, FiniteSetTheorems,
  SequenceTheorems, WellFoundedInduction, TLAPS

----------------------------------------------------------------------------
(* The messages of a batch reach every adapter in order and once, for any  *)
(* number of messages, batches and adapters.                               *)

(* A message the kernel handed over that is through: it was before the     *)
(* start, or it has its short id and neither of its handlers runs.         *)
Settled(n) ==
  /\ kind[n] \notin {"unseen", "own"} /\ todo[n] = {}
  /\ kind[n] # "old" => n \in shortIds

(* A message: an adapter hears of it only after its handler is through,    *)
(* and it has its short id only when those before it in its batch are      *)
(* settled.                                                                *)
MessageFine(m) ==
  /\ kind[m] \in {"unseen", "own"} => \A f \in Callback : m \notin current[f] /\ m \notin Elems(batch[f])
  /\ kind[m] \in {"unseen", "own"} => before[m] = {}
  /\ kind[m] # "own" => updates[m] = "none"
  /\ kind[m] = "own" /\ m \in shortIds => updates[m] = "success"
  /\ kind[m] \in {"unseen", "old"} => m \notin shortIds
  /\ todo[m] # {} => m \in shortIds
  /\ \A a \in Adapter, what \in Parts :
       /\ heard[a][m][what] \in {0, 1}
       /\ heard[a][m][what] > 0 => m \in shortIds /\ what \notin todo[m]
  /\ \A a \in Adapter : kind[m] = "own" /\ heard[a][m]["message"] > 0 => a \in SelfWanted
  /\ \A n \in before[m] : kind[n] \notin {"unseen", "own"}
  /\ m \in shortIds => \A n \in before[m] : Settled(n)

(* A callback: those before a message that still waits in its batch wait   *)
(* as well, or are awaited, or are settled.                                *)
CallbackFine(f) ==
  /\ batch[f] \in Seq(KernelMsg)
  /\ \A i, j \in 1..Len(batch[f]) : batch[f][i] = batch[f][j] => i = j
  /\ \A i \in 1..Len(batch[f]) : batch[f][i] \notin shortIds
  /\ current[f] \subseteq shortIds
  /\ \A x, y \in current[f] : x = y
  /\ \A i \in 1..Len(batch[f]) : \A n \in before[batch[f][i]] :
       (\E j \in 1..(i - 1) : batch[f][j] = n) \/ n \in current[f] \/ Settled(n)

(* No message is in two batches.                                           *)
BatchesApart == \A f, g \in Callback : f # g => Elems(batch[f]) \cap Elems(batch[g]) = {}

EventsShapes ==
  /\ active \subseteq Adapter /\ switches \in 0..MaxSwitch
  /\ kind \in [KernelMsg -> MessageKind \cup {"unseen"}]
  /\ batch \in [Callback -> Seq(KernelMsg)] /\ current \in [Callback -> SUBSET KernelMsg]
  /\ todo \in [KernelMsg -> SUBSET Parts]
  /\ shortIds \subseteq KernelMsg /\ before \in [KernelMsg -> SUBSET KernelMsg]
  /\ updates \in [KernelMsg -> {"none", "waiting", "success", "other"}]
  /\ heard \in [Adapter -> [KernelMsg -> [Parts -> Nat]]]

EventsInv ==
  /\ EventsShapes
  /\ \A m \in KernelMsg : MessageFine(m)
  /\ \A f \in Callback : CallbackFine(f)
  /\ BatchesApart

(* The invariant is enough for the three properties.                       *)
LEMMA EventsInvIsSafe == EventsInv => EventsSafe
<1> SUFFICES ASSUME EventsInv PROVE EventsSafe
  OBVIOUS
<1> USE DEF EventsInv, EventsShapes
<1>1. \A f \in Callback : Cardinality(current[f]) <= 1
  <2> SUFFICES ASSUME NEW f \in Callback PROVE Cardinality(current[f]) <= 1
    OBVIOUS
  <2>1. \A x, y \in current[f] : x = y  BY DEF CallbackFine
  <2>2. CASE current[f] = {}
    <3>1. current[f] = {} => Cardinality(current[f]) = 0  BY FS_EmptySet
    <3> QED  BY <2>2, <3>1
  <2>3. CASE current[f] # {}
    <3>1. PICK x \in current[f] : TRUE  BY <2>3
    <3> current[f] = {x}  BY <2>1, <3>1
    <3>2. Cardinality({x}) = 1  BY FS_Singleton
    <3> QED  BY <3>2
  <2> QED  BY <2>2, <2>3
<1>2. EventsTypeOK
  <2>1. \A f \in Callback : Elems(batch[f]) \subseteq KernelMsg
    <3> SUFFICES ASSUME NEW f \in Callback, NEW k \in 1..Len(batch[f]) PROVE batch[f][k] \in KernelMsg
      BY DEF Elems
    <3>1. batch[f] \in Seq(KernelMsg)  OBVIOUS
    <3> QED  BY <3>1, ElementOfSeq
  <2> QED  BY <1>1, <2>1 DEF EventsTypeOK, CallbackFine, MessageFine
<1>3. BatchInOrder  BY DEF BatchInOrder, MessageFine, Settled
<1>4. ToldOnce
  <2> SUFFICES ASSUME NEW a \in Adapter, NEW m \in KernelMsg
               PROVE  /\ \A what \in Parts : heard[a][m][what] <= 1
                      /\ kind[m] = "own" /\ heard[a][m]["message"] > 0
                           => a \in SelfWanted /\ updates[m] = "success"
    BY DEF ToldOnce
  <2>1. "message" \in Parts  BY DEF Parts
  <2>2. \A what \in Parts : heard[a][m][what] \in {0, 1} /\ (heard[a][m][what] > 0 => m \in shortIds)
    BY DEF MessageFine
  <2>3. kind[m] = "own" /\ m \in shortIds => updates[m] = "success"  BY DEF MessageFine
  <2>4. kind[m] = "own" /\ heard[a][m]["message"] > 0 => a \in SelfWanted  BY DEF MessageFine
  <2>5. \A what \in Parts : heard[a][m][what] <= 1
    <3> SUFFICES ASSUME NEW what \in Parts PROVE heard[a][m][what] <= 1
      OBVIOUS
    <3>1. heard[a][m][what] = 0 \/ heard[a][m][what] = 1  BY <2>2
    <3> QED  BY <3>1
  <2>6. kind[m] = "own" /\ heard[a][m]["message"] > 0 => m \in shortIds  BY <2>1, <2>2
  <2> QED  BY <2>3, <2>4, <2>5, <2>6
<1> QED  BY <1>2, <1>3, <1>4 DEF EventsSafe

(* At the start no message was seen and nothing was told.                  *)
LEMMA EventsStart == EventsInit => EventsInv
<1> SUFFICES ASSUME EventsInit PROVE EventsInv
  OBVIOUS
<1> USE DEF EventsInit
<1>1. EventsShapes
  <2>1. <<>> \in Seq(KernelMsg)  BY EmptySeq
  <2> QED  BY <2>1, EventsAssumption DEF EventsShapes, MessageKind
<1>2. \A f \in Callback : Elems(batch[f]) = {}  BY DEF Elems
<1>3. ASSUME NEW m \in KernelMsg PROVE MessageFine(m)  BY <1>2 DEF MessageFine
<1>4. ASSUME NEW f \in Callback PROVE CallbackFine(f)
  <2>1. <<>> \in Seq(KernelMsg)  BY EmptySeq
  <2> QED  BY <2>1 DEF CallbackFine
<1> QED  BY <1>1, <1>2, <1>3, <1>4 DEF EventsInv, BatchesApart

(* Only these adapters' counts of one part of one message go up.           *)
Counted(to, part, m) ==
  /\ heard' \in [Adapter -> [KernelMsg -> [Parts -> Nat]]]
  /\ \A a \in Adapter, k \in KernelMsg, what \in Parts :
       heard'[a][k][what] = IF a \in to /\ k = m /\ what = part
                            THEN heard[a][k][what] + 1 ELSE heard[a][k][what]

(* Telling the adapters of one part of one message does that.              *)
LEMMA Emitted ==
  ASSUME heard \in [Adapter -> [KernelMsg -> [Parts -> Nat]]],
         NEW to \in SUBSET Adapter, NEW m \in KernelMsg, NEW part \in Parts, Emit(to, part, m)
  PROVE  Counted(to, part, m)
  BY DEF Emit, Counted

(* A handler that is through with its part of a message.                   *)
LEMMA HandlerKeeps ==
  ASSUME EventsInv, NEW m \in KernelMsg, NEW part \in Parts, NEW to \in SUBSET active,
         part \in todo[m], todo' = HandlerEnds(m, part),
         Emit(to, part, m) \/ UNCHANGED heard,
         part = "message" /\ kind[m] = "own" => to \subseteq SelfWanted,
         UNCHANGED <<active, switches, kind, batch, current, shortIds, updates, before>>
  PROVE  EventsInv'
<1> USE DEF EventsInv
<1>1. /\ todo' \in [KernelMsg -> SUBSET Parts] /\ todo'[m] = todo[m] \ {part}
      /\ \A k \in KernelMsg : k # m => todo'[k] = todo[k]
  BY DEF HandlerEnds, EventsShapes
<1>2. /\ heard' \in [Adapter -> [KernelMsg -> [Parts -> Nat]]]
      /\ \A a \in Adapter, k \in KernelMsg, what \in Parts :
           \/ heard'[a][k][what] = heard[a][k][what]
           \/ a \in to /\ k = m /\ what = part /\ heard'[a][k][what] = heard[a][k][what] + 1
  <2>1. to \in SUBSET Adapter /\ heard \in [Adapter -> [KernelMsg -> [Parts -> Nat]]]  BY DEF EventsShapes
  <2>2. CASE Emit(to, part, m)
    <3>1. Counted(to, part, m)  BY <2>1, <2>2, Emitted
    <3> QED  BY <3>1 DEF Counted
  <2>3. CASE UNCHANGED heard  BY <2>1, <2>3
  <2> QED  BY <2>2, <2>3
<1>3. EventsShapes'  BY <1>1, <1>2 DEF EventsShapes
<1>4. \A n \in KernelMsg : Settled(n) => Settled(n)'  BY <1>1 DEF Settled
<1>5. \A k \in KernelMsg : before[k] \subseteq KernelMsg  BY DEF EventsShapes
<1>6. ASSUME NEW k \in KernelMsg PROVE MessageFine(k)'
  <2>1. MessageFine(k)  OBVIOUS
  <2>2. \A f \in Callback : batch'[f] = batch[f] /\ current'[f] = current[f]  OBVIOUS
  <2>3. \A a \in Adapter, what \in Parts :
          /\ heard'[a][k][what] \in {0, 1}
          /\ heard'[a][k][what] > 0 => k \in shortIds /\ what \notin todo'[k]
    <3> SUFFICES ASSUME NEW a \in Adapter, NEW what \in Parts
                 PROVE  /\ heard'[a][k][what] \in {0, 1}
                        /\ heard'[a][k][what] > 0 => k \in shortIds /\ what \notin todo'[k]
      OBVIOUS
    <3>1. /\ heard[a][k][what] \in {0, 1} /\ (todo[k] # {} => k \in shortIds)
          /\ heard[a][k][what] > 0 => k \in shortIds /\ what \notin todo[k]
      BY <2>1 DEF MessageFine
    <3> QED  BY <3>1, <1>1, <1>2
  <2>4. \A a \in Adapter : kind[k] = "own" /\ heard'[a][k]["message"] > 0 => a \in SelfWanted
    <3> SUFFICES ASSUME NEW a \in Adapter, kind[k] = "own", heard'[a][k]["message"] > 0 PROVE a \in SelfWanted
      OBVIOUS
    <3>1. heard[a][k]["message"] > 0 => a \in SelfWanted  BY <2>1 DEF MessageFine
    <3> QED  BY <3>1, <1>2 DEF Parts
  <2>5. \A n \in before[k] : Settled(n) => Settled(n)'  BY <1>4, <1>5
  <2> QED  BY <2>1, <2>3, <2>4, <2>5, <1>1 DEF MessageFine, Elems
<1>7. ASSUME NEW f \in Callback PROVE CallbackFine(f)'
  <2>1. CallbackFine(f)  OBVIOUS
  <2>2. \A i \in 1..Len(batch[f]) : batch[f][i] \in KernelMsg  BY ElementOfSeq DEF EventsShapes
  <2>3. \A i \in 1..Len(batch[f]) : \A n \in before[batch[f][i]] : Settled(n) => Settled(n)'  BY <1>4, <1>5, <2>2
  <2> QED  BY <2>1, <2>3 DEF CallbackFine
<1>8. BatchesApart'
  <2>1. batch' = batch /\ BatchesApart  OBVIOUS
  <2>2. PICK b : b = batch  OBVIOUS
  <2>3. \A f, g \in Callback : f # g => Elems(b[f]) \cap Elems(b[g]) = {}  BY <2>1, <2>2 DEF BatchesApart
  <2>4. batch' = b  BY <2>1, <2>2
  <2> QED  BY <2>3, <2>4 DEF BatchesApart
<1> QED  BY <1>3, <1>6, <1>7, <1>8

(* A message that gets its short id: nothing was told of it, its callback, *)
(* if it has one, has settled those before it, and it is in no batch any   *)
(* more.                                                                   *)
LEMMA EmitMsgKeeps ==
  ASSUME EventsInv, NEW m \in KernelMsg, EmitMsg(m),
         m \notin shortIds, kind[m] \notin {"unseen", "old"},
         kind[m] = "own" => updates'[m] = "success",
         \A k \in KernelMsg : k # m => updates'[k] = updates[k],
         kind[m] # "own" => updates' = updates,
         updates' \in [KernelMsg -> {"none", "waiting", "success", "other"}],
         \A n \in before[m] : Settled(n),
         UNCHANGED <<active, switches, kind, heard, before>>,
         EventsShapes',
         \A f \in Callback : CallbackFine(f)', BatchesApart',
         \A f \in Callback : Elems(batch'[f]) \subseteq Elems(batch[f]),
         \A f \in Callback : current'[f] \subseteq current[f] \cup {m},
         kind[m] = "own" => current' = current
  PROVE  EventsInv'
<1> USE DEF EventsInv
<1>1. /\ todo'[m] = Parts /\ \A k \in KernelMsg : k # m => todo'[k] = todo[k]
      /\ shortIds' = shortIds \cup {m}
  BY DEF EmitMsg, WithId, EventsShapes
<1>2. \A n \in KernelMsg : Settled(n) => n # m /\ Settled(n)'  BY <1>1 DEF Settled
<1>3. \A k \in KernelMsg : before[k] \subseteq KernelMsg  BY DEF EventsShapes
<1>4. ASSUME NEW k \in KernelMsg PROVE MessageFine(k)'
  <2>1. MessageFine(k) /\ MessageFine(m)  OBVIOUS
  <2>2. \A n \in before[k] : Settled(n) => Settled(n)'  BY <1>2, <1>3
  <2>3. k \in shortIds' => \A n \in before[k] : Settled(n)'
    <3>1. CASE k = m  BY <2>2, <3>1
    <3>2. CASE k # m  BY <2>1, <2>2, <1>1, <3>2 DEF MessageFine
    <3> QED  BY <3>1, <3>2
  <2>4. \A a \in Adapter, what \in Parts :
          /\ heard'[a][k][what] \in {0, 1}
          /\ heard'[a][k][what] > 0 => k \in shortIds' /\ what \notin todo'[k]
    <3>1. k = m => \A a \in Adapter, what \in Parts : heard[a][k][what] = 0
      <4>1. \A a \in Adapter, what \in Parts : heard[a][m][what] \in {0, 1} /\ ~(heard[a][m][what] > 0)
        BY <2>1 DEF MessageFine
      <4> QED  BY <4>1
    <3>2. \A a \in Adapter, what \in Parts :
            /\ heard[a][k][what] \in {0, 1}
            /\ heard[a][k][what] > 0 => k \in shortIds /\ what \notin todo[k]
      BY <2>1 DEF MessageFine
    <3> QED  BY <3>1, <3>2, <1>1
  <2>5. kind[k] \in {"unseen", "own"} => \A f \in Callback : k \notin current'[f] /\ k \notin Elems(batch'[f])
    BY <2>1 DEF MessageFine
  <2>6. /\ kind[k] # "own" => updates'[k] = "none"
        /\ kind[k] = "own" /\ k \in shortIds' => updates'[k] = "success"
    BY <2>1, <1>1 DEF MessageFine
  <2>7. todo'[k] # {} => k \in shortIds'  BY <2>1, <1>1 DEF MessageFine
  <2>8. kind[k] \in {"unseen", "old"} => k \notin shortIds'  BY <2>1, <1>1 DEF MessageFine
  <2>9. \A a \in Adapter : kind[k] = "own" /\ heard'[a][k]["message"] > 0 => a \in SelfWanted
    BY <2>1 DEF MessageFine
  <2>10. /\ kind[k] \in {"unseen", "own"} => before[k] = {}
         /\ \A n \in before[k] : kind[n] \notin {"unseen", "own"}
    BY <2>1 DEF MessageFine
  <2>11. Elems(batch'[m]) = Elems(batch[m])'  BY DEF Elems
  <2>12. \A f \in Callback : Elems(batch[f])' = Elems(batch'[f])  BY DEF Elems
  <2> QED  BY <2>3, <2>4, <2>5, <2>6, <2>7, <2>8, <2>9, <2>10, <2>12 DEF MessageFine
<1> QED  BY <1>4

(* The next message of a batch.                                            *)
LEMMA TakeKeeps ==
  ASSUME EventsInv, NEW f \in Callback, Take(f)
  PROVE  EventsInv'
<1> USE DEF EventsInv
<1>1. PICK b \in Seq(KernelMsg), L \in Nat : b = batch[f] /\ L = Len(b) /\ b # <<>>
  BY LenProperties DEF EventsShapes, Take
<1>2. PICK m, t : m = Head(b) /\ t = Tail(b)  OBVIOUS
<1>3. /\ m = b[1] /\ m \in KernelMsg /\ t \in Seq(KernelMsg) /\ L > 0 /\ Len(t) = L - 1
      /\ \A i \in 1..(L - 1) : t[i] = b[i + 1]
  BY <1>1, <1>2, HeadTailProperties, LenProperties, ElementOfSeq
<1>4. /\ batch' = [batch EXCEPT ![f] = t] /\ current'[f] \in {{m}, {}}
      /\ \A g \in Callback : g # f => batch'[g] = batch[g] /\ current'[g] = current[g]
      /\ batch'[f] = t /\ batch' \in [Callback -> Seq(KernelMsg)] /\ current' \in [Callback -> SUBSET KernelMsg]
  <2>1. batch' = [batch EXCEPT ![f] = t]  BY <1>1, <1>2 DEF Take
  <2>2. current' = [current EXCEPT ![f] = {m}] \/ current' = [current EXCEPT ![f] = {}]
    BY <1>1, <1>2 DEF Take
  <2>3. current \in [Callback -> SUBSET KernelMsg] /\ batch \in [Callback -> Seq(KernelMsg)]  BY DEF EventsShapes
  <2> QED  BY ZenonT(60), <2>1, <2>2, <2>3, <1>3
<1>5. Awaited(f) /\ UNCHANGED <<active, switches, kind, updates, heard, before>>  BY DEF Take
<1>6. CallbackFine(f) /\ MessageFine(m)  BY <1>3
<1>7. /\ m \notin shortIds /\ todo[m] = {} /\ kind[m] \notin {"unseen", "own"}
  <2>1. 1 \in 1..L /\ m \in Elems(batch[f])  BY <1>1, <1>3 DEF Elems
  <2> QED  BY <2>1, <1>1, <1>3, <1>6 DEF CallbackFine, MessageFine
<1>8. \A n \in current[f] : Settled(n)
  <2> SUFFICES ASSUME NEW n \in current[f] PROVE Settled(n)
    OBVIOUS
  <2>1. n \in KernelMsg /\ n \in shortIds /\ todo[n] = {}  BY <1>5, <1>6 DEF Awaited, CallbackFine, EventsShapes
  <2>2. kind[n] \notin {"unseen", "own"}  BY <2>1 DEF MessageFine
  <2> QED  BY <2>1, <2>2 DEF Settled
<1>9. \A n \in before[m] : Settled(n)
  <2>1. \A n \in before[b[1]] : (\E j \in 1..(1 - 1) : b[j] = n) \/ n \in current[f] \/ Settled(n)
    <3>1. 1 \in 1..Len(batch[f])  BY <1>1, <1>3
    <3> QED  BY <3>1, <1>1, <1>6 DEF CallbackFine
  <2> QED  BY <2>1, <1>3, <1>8
<1>10. BatchesApart' /\ \A g \in Callback : Elems(batch'[g]) \subseteq Elems(batch[g])
  <2>1. Elems(t) \subseteq Elems(b)
    <3> SUFFICES ASSUME NEW i \in 1..(L - 1) PROVE t[i] \in {b[k] : k \in 1..L}
      BY <1>1, <1>3 DEF Elems
    <3>1. t[i] = b[i + 1] /\ i + 1 \in 1..L  BY <1>3
    <3> QED  BY <3>1
  <2>2. \A g \in Callback : Elems(batch'[g]) \subseteq Elems(batch[g])  BY <2>1, <1>1, <1>4
  <2>3. \A g \in Callback : Elems(batch[g])' = Elems(batch'[g])  BY DEF Elems
  <2> QED  BY <2>2, <2>3 DEF BatchesApart
<1>11. ASSUME \A n \in KernelMsg : Settled(n) => Settled(n)',
              shortIds' \subseteq shortIds \cup {m}, shortIds \subseteq shortIds',
              current'[f] \subseteq shortIds', m \in current'[f] \/ Settled(m)'
       PROVE  \A g \in Callback : CallbackFine(g)'
  <2>1. \A k \in KernelMsg : before[k] \subseteq KernelMsg  BY DEF EventsShapes
  <2>2. ASSUME NEW g \in Callback, g # f PROVE CallbackFine(g)'
    <3>1. CallbackFine(g) /\ batch'[g] = batch[g] /\ current'[g] = current[g]  BY <1>4, <2>2
    <3>2. \A i \in 1..Len(batch[g]) : batch[g][i] \in KernelMsg  BY ElementOfSeq DEF EventsShapes
    <3>3. \A i \in 1..Len(batch[g]) : batch[g][i] # m
      <4>1. m \in Elems(batch[f])  BY <1>1, <1>3 DEF Elems
      <4>2. m \notin Elems(batch[g])  BY <4>1, <2>2 DEF BatchesApart
      <4> QED  BY <4>2 DEF Elems
    <3>4. \A i \in 1..Len(batch[g]) : \A n \in before[batch[g][i]] : Settled(n) => Settled(n)'
      BY <2>1, <3>2, <1>11
    <3> QED  BY <3>1, <3>3, <3>4, <1>5, <1>11 DEF CallbackFine
  <2>3. CallbackFine(f)'
    <3>1. batch'[f] = t /\ Len(t) = L - 1 /\ \A i \in 1..(L - 1) : t[i] = b[i + 1] /\ i + 1 \in 1..L
      BY <1>1, <1>3, <1>4
    <3>2. \A i, j \in 1..(L - 1) : t[i] = t[j] => i = j
      <4>1. \A i, j \in 1..L : b[i] = b[j] => i = j  BY <1>1, <1>6 DEF CallbackFine
      <4> SUFFICES ASSUME NEW i \in 1..(L - 1), NEW j \in 1..(L - 1), t[i] = t[j] PROVE i = j
        OBVIOUS
      <4>2. i + 1 = j + 1  BY <4>1, <3>1
      <4> QED  BY <4>2
    <3>3. \A i \in 1..(L - 1) : t[i] \notin shortIds'
      <4> SUFFICES ASSUME NEW i \in 1..(L - 1) PROVE t[i] \notin shortIds'
        OBVIOUS
      <4>1. t[i] = b[i + 1] /\ i + 1 \in 1..L /\ 1 \in 1..L /\ i + 1 # 1  BY <3>1
      <4>2. b[i + 1] \notin shortIds /\ b[i + 1] # b[1]  BY <4>1, <1>1, <1>6 DEF CallbackFine
      <4> QED  BY <4>1, <4>2, <1>3, <1>11
    <3>4. \A i \in 1..(L - 1) : \A n \in before[t[i]] :
            (\E j \in 1..(i - 1) : t[j] = n) \/ n \in current'[f] \/ Settled(n)'
      <4> SUFFICES ASSUME NEW i \in 1..(L - 1), NEW n \in before[t[i]]
                   PROVE  (\E j \in 1..(i - 1) : t[j] = n) \/ n \in current'[f] \/ Settled(n)'
        OBVIOUS
      <4>1. t[i] = b[i + 1] /\ i + 1 \in 1..L /\ (i + 1) - 1 = i  BY <3>1
      <4>2. (\E j \in 1..i : b[j] = n) \/ n \in current[f] \/ Settled(n)
        BY <4>1, <1>1, <1>6 DEF CallbackFine
      <4>3. n \in KernelMsg
        <5>1. b[i + 1] \in KernelMsg  BY <4>1, <1>1, ElementOfSeq
        <5> QED  BY <5>1, <4>1, <2>1
      <4>4. CASE n \in current[f] \/ Settled(n)  BY <4>3, <4>4, <1>8, <1>11
      <4>5. ASSUME NEW j \in 1..i, b[j] = n
            PROVE  (\E l \in 1..(i - 1) : t[l] = n) \/ n \in current'[f] \/ Settled(n)'
        <5>1. CASE j = 1  BY <5>1, <4>5, <1>3, <1>11
        <5>2. CASE j # 1
          <6>1. j - 1 \in 1..(i - 1) /\ j - 1 \in 1..(L - 1) /\ (j - 1) + 1 = j  BY <5>2
          <6>2. t[j - 1] = b[j]  BY <6>1, <3>1
          <6> QED  BY <6>1, <6>2, <4>5
        <5> QED  BY <5>1, <5>2
      <4> QED  BY <4>2, <4>4, <4>5
    <3>5. current'[f] \subseteq shortIds' /\ \A x, y \in current'[f] : x = y  BY <1>4, <1>11
    <3> QED  BY <3>1, <3>2, <3>3, <3>4, <3>5, <1>3, <1>5 DEF CallbackFine
  <2> QED  BY <2>2, <2>3
<1>12. CASE kind[m] # "old" /\ current' = [current EXCEPT ![f] = {m}] /\ EmitMsg(m)
  <2>1. /\ shortIds' = shortIds \cup {m} /\ todo' \in [KernelMsg -> SUBSET Parts] /\ current'[f] = {m}
        /\ \A k \in KernelMsg : k # m => todo'[k] = todo[k]
    BY <1>12 DEF EmitMsg, WithId, EventsShapes
  <2>2. \A n \in KernelMsg : Settled(n) => Settled(n)'  BY <2>1, <1>5, <1>7, <1>12 DEF Settled
  <2>3. \A g \in Callback : CallbackFine(g)'  BY <2>1, <2>2, <1>11
  <2>4. EventsShapes'  BY <2>1, <1>3, <1>4, <1>5 DEF EventsShapes
  <2>5. \A g \in Callback : current'[g] \subseteq current[g] \cup {m}  BY <1>4
  <2>6. updates' \in [KernelMsg -> {"none", "waiting", "success", "other"}]  BY <1>5 DEF EventsShapes
  <2> QED  BY <1>3, <1>5, <1>7, <1>9, <1>10, <1>12, <2>3, <2>4, <2>5, <2>6, EmitMsgKeeps
<1>13. CASE kind[m] = "old" /\ current' = [current EXCEPT ![f] = {}] /\ UNCHANGED <<todo, shortIds>>
  <2>1. \A n \in KernelMsg : Settled(n) <=> Settled(n)'  BY <1>5, <1>13 DEF Settled
  <2>2. Settled(m) /\ current'[f] = {}  BY <1>7, <1>13 DEF Settled, EventsShapes
  <2>3. \A g \in Callback : CallbackFine(g)'  BY <2>1, <2>2, <1>3, <1>11, <1>13
  <2>4. EventsShapes'  BY <1>4, <1>5, <1>13 DEF EventsShapes
  <2>5. ASSUME NEW k \in KernelMsg PROVE MessageFine(k)'
    <3>1. MessageFine(k) /\ before[k] \subseteq KernelMsg  BY DEF EventsShapes
    <3>2. \A g \in Callback : Elems(batch[g])' \subseteq Elems(batch[g]) /\ current'[g] \subseteq current[g]
      BY <1>4, <1>10, <2>2 DEF Elems
    <3>3. k \in shortIds => \A n \in before[k] : Settled(n)'  BY <3>1, <2>1 DEF MessageFine
    <3> QED  BY <3>1, <3>2, <3>3, <1>5, <1>13 DEF MessageFine
  <2> QED  BY <2>3, <2>4, <2>5, <1>10
<1> QED  BY <1>1, <1>2, <1>12, <1>13 DEF Take

(* A function on 1..n is a sequence of length n.                           *)
LEMMA ListIsSeq ==
  ASSUME NEW S, NEW n \in Nat, NEW f \in [1..n -> S]
  PROVE  f \in Seq(S) /\ Len(f) = n
<1>1. f \in Seq(S)  BY SeqDef
<1>2. PICK k \in Nat : k = Len(f) /\ DOMAIN f = 1..k  BY <1>1, LenProperties
<1>3. \A i \in Nat : i \in 1..n <=> i \in 1..k  BY <1>2
<1>4. k = n
  <2>1. n > 0 => n \in 1..n  OBVIOUS
  <2>2. k > 0 => k \in 1..k  OBVIOUS
  <2> QED  BY <2>1, <2>2, <1>3
<1> QED  BY <1>1, <1>2, <1>4

(* A new batch: none of its messages was seen before.                      *)
LEMMA OnRecvMsgKeeps ==
  ASSUME EventsInv, NEW f \in Callback, OnRecvMsg(f)
  PROVE  EventsInv'
<1> USE DEF EventsInv
<1>1. PICK n \in 1..2 : \E s \in [1..n -> KernelMsg], ks \in [1..n -> MessageKind \ {"own"}] :
       /\ Unseen(s)
       /\ kind' = [m \in KernelMsg |-> IF m \in Elems(s) THEN ks[CHOOSE i \in 1..n : s[i] = m] ELSE kind[m]]
       /\ before' = [m \in KernelMsg |-> IF m \in Elems(s) THEN Before(m, s) ELSE before[m]]
       /\ batch' = IF active = {} THEN batch ELSE [batch EXCEPT ![f] = s]
  BY DEF OnRecvMsg
<1>2. PICK s, ks :
       /\ s \in [1..n -> KernelMsg] /\ ks \in [1..n -> MessageKind \ {"own"}] /\ Unseen(s)
       /\ kind' = [m \in KernelMsg |-> IF m \in Elems(s) THEN ks[CHOOSE i \in 1..n : s[i] = m] ELSE kind[m]]
       /\ before' = [m \in KernelMsg |-> IF m \in Elems(s) THEN Before(m, s) ELSE before[m]]
       /\ batch' = IF active = {} THEN batch ELSE [batch EXCEPT ![f] = s]
  BY ZenonT(60), <1>1
<1>3. UNCHANGED <<active, switches, current, todo, shortIds, updates, heard>> /\ Idle(f)  BY DEF OnRecvMsg
<1>4. s \in Seq(KernelMsg) /\ Len(s) = n /\ n \in Nat
  <2>1. n \in Nat /\ s \in [1..n -> KernelMsg]  BY <1>2
  <2> QED  BY <2>1, ListIsSeq
<1>5. Elems(s) \subseteq KernelMsg /\ \A m \in KernelMsg : m \in Elems(s) <=> \E i \in 1..n : s[i] = m
  BY <1>2, <1>4 DEF Elems
<1>6. /\ \A m \in Elems(s) : kind[m] = "unseen"
      /\ \A i, j \in 1..n : s[i] = s[j] => i = j
  <2>1. \A i \in 1..n : kind[s[i]] = "unseen" /\ \A j \in 1..(i - 1) : s[i] # s[j]
    BY <1>2, <1>4 DEF Unseen
  <2>2. \A i, j \in 1..n : j < i => j \in 1..(i - 1)  OBVIOUS
  <2>3. \A i, j \in 1..n : i = j \/ i < j \/ j < i  OBVIOUS
  <2> QED  BY <2>1, <2>2, <2>3, <1>5
<1>7. /\ kind' \in [KernelMsg -> MessageKind \cup {"unseen"}]
      /\ \A m \in KernelMsg \ Elems(s) : kind'[m] = kind[m]
      /\ \A m \in Elems(s) : kind'[m] \in MessageKind \ {"own"}
  <2>1. \A m \in Elems(s) : ks[CHOOSE i \in 1..n : s[i] = m] \in MessageKind \ {"own"}
    <3> SUFFICES ASSUME NEW m \in Elems(s) PROVE ks[CHOOSE i \in 1..n : s[i] = m] \in MessageKind \ {"own"}
      OBVIOUS
    <3>1. (CHOOSE i \in 1..n : s[i] = m) \in 1..n  BY <1>5
    <3> QED  BY <3>1, <1>2
  <2> QED  BY <2>1, <1>2, <1>5 DEF EventsShapes
<1>8. "unseen" \notin MessageKind  BY DEF MessageKind
<1>9. \A i \in 1..n : \A m \in Before(s[i], s) : m \in Elems(s) /\ \E j \in 1..(i - 1) : s[j] = m
  <2> SUFFICES ASSUME NEW i \in 1..n, NEW j \in 1..n, NEW l \in 1..n, j < l, s[l] = s[i]
               PROVE  s[j] \in Elems(s) /\ \E k \in 1..(i - 1) : s[k] = s[j]
    BY <1>4 DEF Before
  <2>1. l = i /\ j \in 1..(i - 1)  BY <1>6
  <2> QED  BY <2>1, <1>4 DEF Elems
<1>10. /\ before' \in [KernelMsg -> SUBSET KernelMsg]
       /\ \A m \in KernelMsg \ Elems(s) : before'[m] = before[m]
       /\ \A m \in Elems(s) : before'[m] = Before(m, s) /\ before'[m] \subseteq Elems(s)
  <2>1. \A m \in Elems(s) : Before(m, s) \subseteq Elems(s)  BY <1>5, <1>9
  <2> QED  BY <2>1, <1>2, <1>5 DEF EventsShapes
<1>11. \A m \in KernelMsg : Settled(m) => m \notin Elems(s) /\ Settled(m)'
  BY <1>3, <1>6, <1>7 DEF Settled
<1>12. \A g \in Callback : batch'[g] = batch[g] \/ (g = f /\ batch'[g] = s)
  BY <1>2 DEF EventsShapes
<1>13. EventsShapes'
  BY <1>2, <1>3, <1>4, <1>7, <1>10 DEF EventsShapes
<1>14. \A m \in Elems(s) :
         /\ m \notin shortIds /\ todo[m] = {} /\ updates[m] = "none"
         /\ \A g \in Callback : m \notin current[g] /\ m \notin Elems(batch[g])
         /\ \A a \in Adapter, what \in Parts : heard[a][m][what] = 0
  <2> SUFFICES ASSUME NEW m \in Elems(s)
               PROVE  /\ m \notin shortIds /\ todo[m] = {} /\ updates[m] = "none"
                      /\ \A g \in Callback : m \notin current[g] /\ m \notin Elems(batch[g])
                      /\ \A a \in Adapter, what \in Parts : heard[a][m][what] = 0
    OBVIOUS
  <2>1. MessageFine(m) /\ kind[m] = "unseen"  BY <1>5, <1>6
  <2>2. m \notin shortIds /\ todo[m] = {} /\ updates[m] = "none"  BY <2>1 DEF MessageFine
  <2>3. \A a \in Adapter, what \in Parts : heard[a][m][what] \in {0, 1} /\ ~(heard[a][m][what] > 0)
    BY <2>1, <2>2 DEF MessageFine
  <2>4. \A a \in Adapter, what \in Parts : heard[a][m][what] = 0  BY <2>3
  <2> QED  BY <2>1, <2>2, <2>4 DEF MessageFine
<1>15. ASSUME NEW m \in KernelMsg PROVE MessageFine(m)'
  <2>1. MessageFine(m) /\ before[m] \subseteq KernelMsg  BY DEF EventsShapes
  <2>2. \A g \in Callback : Elems(batch[g])' = Elems(batch'[g])  BY DEF Elems
  <2>3. CASE m \in Elems(s)
    <3>1. kind'[m] \notin {"unseen", "own"} /\ m \notin shortIds' /\ todo'[m] = {} /\ updates'[m] = "none"
      BY <2>3, <1>3, <1>7, <1>8, <1>14
    <3>2. \A x \in before'[m] : kind'[x] \notin {"unseen", "own"}  BY <2>3, <1>7, <1>8, <1>10
    <3>3. \A a \in Adapter, what \in Parts : heard'[a][m][what] = 0  BY <2>3, <1>3, <1>14
    <3> QED  BY <3>1, <3>2, <3>3 DEF MessageFine, Parts
  <2>4. CASE m \notin Elems(s)
    <3>1. kind'[m] = kind[m] /\ before'[m] = before[m]  BY <2>4, <1>7, <1>10
    <3>2. kind[m] \in {"unseen", "own"} => \A g \in Callback : m \notin current'[g] /\ m \notin Elems(batch'[g])
      BY <2>1, <2>4, <1>3, <1>12 DEF MessageFine
    <3>3. \A x \in before[m] : kind[x] \notin {"unseen", "own"} /\ kind'[x] = kind[x]
      <4>1. \A x \in before[m] : kind[x] \notin {"unseen", "own"}  BY <2>1 DEF MessageFine
      <4>2. \A x \in before[m] : x \in KernelMsg /\ x \notin Elems(s)  BY <4>1, <2>1, <1>6
      <4> QED  BY <4>1, <4>2, <1>7
    <3>4. m \in shortIds => \A x \in before[m] : Settled(x)'  BY <2>1, <1>11 DEF MessageFine
    <3> QED  BY <2>1, <2>2, <3>1, <3>2, <3>3, <3>4, <1>3 DEF MessageFine
  <2> QED  BY <2>3, <2>4
<1>16. ASSUME NEW g \in Callback PROVE CallbackFine(g)'
  <2>1. CallbackFine(g)  OBVIOUS
  <2>2. CASE batch'[g] = batch[g]
    <3>1. \A i \in 1..Len(batch[g]) : batch[g][i] \in KernelMsg  BY ElementOfSeq DEF EventsShapes
    <3>2. \A i \in 1..Len(batch[g]) : batch[g][i] \notin Elems(s)
      <4>1. \A i \in 1..Len(batch[g]) : batch[g][i] \in Elems(batch[g])  BY DEF Elems
      <4> QED  BY <4>1, <1>14
    <3>3. \A i \in 1..Len(batch[g]) : before'[batch[g][i]] = before[batch[g][i]] /\ before[batch[g][i]] \subseteq KernelMsg
      BY <3>1, <3>2, <1>10 DEF EventsShapes
    <3> QED  BY <2>1, <2>2, <3>3, <1>3, <1>11 DEF CallbackFine
  <2>3. CASE g = f /\ batch'[g] = s
    <3>1. \A i \in 1..n : s[i] \notin shortIds'  BY <1>3, <1>4, <1>14 DEF Elems
    <3>2. \A i \in 1..n : \A x \in before'[s[i]] : \E j \in 1..(i - 1) : s[j] = x
      <4>1. \A i \in 1..n : s[i] \in Elems(s)  BY <1>4 DEF Elems
      <4> QED  BY <4>1, <1>9, <1>10
    <3> QED  BY <2>1, <2>3, <3>1, <3>2, <1>3, <1>4, <1>6 DEF CallbackFine
  <2> QED  BY <2>2, <2>3, <1>12
<1>17. BatchesApart'
  <2>1. \A g \in Callback : Elems(batch[g])' = Elems(batch'[g])  BY DEF Elems
  <2>2. \A g \in Callback : Elems(batch'[g]) = Elems(batch[g]) \/ (g = f /\ Elems(batch'[g]) = Elems(s))  BY <1>12
  <2>3. \A g \in Callback : Elems(batch[g]) \cap Elems(s) = {}  BY <1>14
  <2> QED  BY <2>1, <2>2, <2>3 DEF BatchesApart
<1> QED  BY <1>13, <1>15, <1>16, <1>17

(* A sent message: it is nobody's batch's.                                 *)
LEMMA OwnKeeps ==
  ASSUME EventsInv, NEW m \in KernelMsg, OnAddSendMsg(m) \/ SendEnds(m)
  PROVE  EventsInv'
<1> USE DEF EventsInv
<1>1. UNCHANGED <<active, switches, batch, current, heard, before>>  BY DEF OnAddSendMsg, SendEnds
<1>2. MessageFine(m)  OBVIOUS
<1>3. /\ updates' \in [KernelMsg -> {"none", "waiting", "success", "other"}]
      /\ \A k \in KernelMsg : k # m => updates'[k] = updates[k]
  BY DEF OnAddSendMsg, SendEnds, EventsShapes
<1>4. \A k \in KernelMsg : before[k] \subseteq KernelMsg  BY DEF EventsShapes
<1>5. \A g \in Callback : Elems(batch[g])' = Elems(batch[g])  BY <1>1 DEF Elems
<1>6. ASSUME \A n \in KernelMsg : Settled(n) => Settled(n)', shortIds' \subseteq shortIds \cup {m},
             shortIds \subseteq shortIds', kind[m] \in {"unseen", "own"}
      PROVE  BatchesApart' /\ \A g \in Callback : CallbackFine(g)'
  <2>1. ASSUME NEW g \in Callback PROVE CallbackFine(g)'
    <3>1. CallbackFine(g)  OBVIOUS
    <3>2. \A i \in 1..Len(batch[g]) : batch[g][i] \in KernelMsg /\ batch[g][i] # m
      <4>1. m \notin Elems(batch[g])  BY <1>2, <1>6 DEF MessageFine
      <4>2. \A i \in 1..Len(batch[g]) : batch[g][i] \in KernelMsg  BY ElementOfSeq DEF EventsShapes
      <4> QED  BY <4>1, <4>2 DEF Elems
    <3>3. \A i \in 1..Len(batch[g]) : \A n \in before[batch[g][i]] : Settled(n) => Settled(n)'
      BY <3>2, <1>4, <1>6
    <3> QED  BY <3>1, <3>2, <3>3, <1>1, <1>6 DEF CallbackFine
  <2> QED  BY <2>1, <1>1, <1>5 DEF BatchesApart
<1>7. CASE OnAddSendMsg(m)
  <2>1. /\ kind[m] = "unseen" /\ kind' = [kind EXCEPT ![m] = "own"] /\ updates'[m] = "waiting"
        /\ UNCHANGED <<todo, shortIds>> /\ kind'[m] = "own" /\ \A k \in KernelMsg : k # m => kind'[k] = kind[k]
    BY <1>7 DEF OnAddSendMsg, EventsShapes
  <2>2. \A n \in KernelMsg : Settled(n) => n # m /\ Settled(n)'  BY <2>1 DEF Settled
  <2>3. BatchesApart' /\ \A g \in Callback : CallbackFine(g)'  BY <2>1, <2>2, <1>6
  <2>4. EventsShapes'  BY <2>1, <1>1, <1>3 DEF EventsShapes, MessageKind
  <2>5. m \notin shortIds /\ before[m] = {}  BY <2>1, <1>2 DEF MessageFine
  <2>6. \A a \in Adapter : ~(heard[a][m]["message"] > 0)
    BY <2>5, <1>2 DEF MessageFine, Parts
  <2>7. ASSUME NEW k \in KernelMsg PROVE MessageFine(k)'
    <3>1. MessageFine(k)  OBVIOUS
    <3>2. CASE k = m
      BY <3>1, <3>2, <2>1, <2>5, <2>6, <1>1, <1>5 DEF MessageFine
    <3>3. CASE k # m
      <4>1. \A n \in before[k] : kind'[n] \notin {"unseen", "own"}
        <5>1. \A n \in before[k] : kind[n] \notin {"unseen", "own"} /\ n \in KernelMsg  BY <3>1, <1>4 DEF MessageFine
        <5> QED  BY <5>1, <2>1
      <4>2. k \in shortIds => \A n \in before[k] : Settled(n)'  BY <3>1, <2>2, <1>4 DEF MessageFine
      <4>3. kind'[k] = kind[k] /\ updates'[k] = updates[k]  BY <3>3, <2>1, <1>3
      <4> QED  BY <3>1, <4>1, <4>2, <4>3, <2>1, <1>1, <1>5 DEF MessageFine
    <3> QED  BY <3>2, <3>3
  <2> QED  BY <2>3, <2>4, <2>7
<1>8. CASE SendEnds(m)
  <2>1. PICK status \in {"success", "other"} :
          /\ updates[m] = "waiting" /\ updates' = [updates EXCEPT ![m] = status]
          /\ IF WentOut(status) THEN EmitMsg(m) ELSE UNCHANGED <<shortIds, todo>>
    BY <1>8 DEF SendEnds
  <2>2. kind' = kind  BY <1>8 DEF SendEnds
  <2>3. kind[m] = "own" /\ m \notin shortIds /\ before[m] = {}  BY <2>1, <1>2 DEF MessageFine
  <2>4. updates'[m] = status  BY <2>1 DEF EventsShapes
  <2>5. CASE status = "success"
    <3>1. EmitMsg(m)  BY <2>1, <2>5 DEF WentOut
    <3>2. /\ shortIds' = shortIds \cup {m} /\ todo' \in [KernelMsg -> SUBSET Parts]
          /\ \A k \in KernelMsg : k # m => todo'[k] = todo[k]
      BY <3>1 DEF EmitMsg, WithId, EventsShapes
    <3>3. \A n \in KernelMsg : Settled(n) => Settled(n)'  BY <3>2, <2>2, <2>3 DEF Settled
    <3>4. BatchesApart' /\ \A g \in Callback : CallbackFine(g)'  BY <3>2, <3>3, <2>3, <1>6
    <3>5. EventsShapes'  BY <3>2, <2>2, <1>1, <1>3 DEF EventsShapes
    <3>6. \A g \in Callback : Elems(batch'[g]) \subseteq Elems(batch[g]) /\ current'[g] \subseteq current[g] \cup {m}
      BY <1>1
    <3>7. UNCHANGED <<active, switches, kind, heard, before>> /\ current' = current  BY <1>1, <2>2
    <3> QED  BY <3>1, <3>4, <3>5, <3>6, <3>7, <2>3, <2>4, <2>5, <1>3, EmitMsgKeeps
  <2>6. CASE status = "other"
    <3>1. UNCHANGED <<shortIds, todo>>  BY <2>1, <2>6 DEF WentOut
    <3>2. \A n \in KernelMsg : Settled(n) <=> Settled(n)'  BY <3>1, <2>2 DEF Settled
    <3>3. BatchesApart' /\ \A g \in Callback : CallbackFine(g)'  BY <3>1, <3>2, <2>3, <1>6
    <3>4. EventsShapes'  BY <3>1, <2>2, <1>1, <1>3 DEF EventsShapes
    <3>5. ASSUME NEW k \in KernelMsg PROVE MessageFine(k)'
      <4>1. MessageFine(k)  OBVIOUS
      <4>2. k \in shortIds => \A n \in before[k] : Settled(n)'  BY <4>1, <3>2, <1>4 DEF MessageFine
      <4>3. /\ kind[k] # "own" => updates'[k] = "none"
            /\ kind[k] = "own" /\ k \in shortIds => updates'[k] = "success"
        BY <4>1, <2>3, <1>3 DEF MessageFine
      <4> QED  BY <4>1, <4>2, <4>3, <3>1, <2>2, <1>1, <1>5 DEF MessageFine
    <3> QED  BY <3>3, <3>4, <3>5
  <2> QED  BY <2>5, <2>6
<1> QED  BY <1>7, <1>8

(* Every step keeps the invariant.                                         *)
LEMMA EventsSteps == EventsInv /\ [EventsNext]_handlevars => EventsInv'
<1> SUFFICES ASSUME EventsInv, [EventsNext]_handlevars PROVE EventsInv'
  OBVIOUS
<1>1. ASSUME (\E a \in Adapter : Switch(a)) \/ (\E f \in Callback : Finish(f)) \/ UNCHANGED handlevars
      PROVE  EventsInv'
  <2>1. UNCHANGED <<kind, batch, todo, shortIds, updates, heard, before>>
    BY <1>1 DEF Switch, Finish, handlevars
  <2>2. /\ \A f \in Callback : current'[f] = current[f] \/ (current'[f] = {} /\ Awaited(f))
        /\ current' \in [Callback -> SUBSET KernelMsg]
        /\ active' \subseteq Adapter /\ switches' \in 0..MaxSwitch
    <3> USE DEF EventsInv, EventsShapes
    <3>1. CASE \E a \in Adapter : Switch(a)  BY <3>1, EventsAssumption DEF Switch
    <3>2. CASE \E f \in Callback : Finish(f)  BY <3>2 DEF Finish
    <3>3. CASE UNCHANGED handlevars  BY <3>3 DEF handlevars
    <3> QED  BY <1>1, <3>1, <3>2, <3>3
  <2>3. \A n \in KernelMsg : Settled(n) <=> Settled(n)'  BY <2>1 DEF Settled
  <2>4. \A k \in KernelMsg : before[k] \subseteq KernelMsg  BY DEF EventsInv, EventsShapes
  <2>5. \A f \in Callback : Elems(batch[f])' = Elems(batch[f])  BY <2>1 DEF Elems
  <2>6. ASSUME NEW m \in KernelMsg PROVE MessageFine(m)'
    <3>1. MessageFine(m)  BY DEF EventsInv
    <3>2. m \in shortIds => \A n \in before[m] : Settled(n)'  BY <3>1, <2>3, <2>4 DEF MessageFine
    <3> QED  BY <3>1, <3>2, <2>1, <2>2, <2>5 DEF MessageFine
  <2>7. ASSUME NEW f \in Callback PROVE CallbackFine(f)'
    <3>1. CallbackFine(f)  BY DEF EventsInv
    <3>2. \A i \in 1..Len(batch[f]) : batch[f][i] \in KernelMsg  BY ElementOfSeq DEF EventsInv, EventsShapes
    <3>3. \A i \in 1..Len(batch[f]) : \A n \in before[batch[f][i]] : Settled(n) => Settled(n)'
      BY <2>3, <2>4, <3>2
    <3>4. Awaited(f) => \A n \in current[f] : Settled(n)'
      <4> SUFFICES ASSUME Awaited(f), NEW n \in current[f] PROVE Settled(n)'
        OBVIOUS
      <4>1. n \in KernelMsg /\ n \in shortIds /\ todo[n] = {}
        BY <3>1 DEF Awaited, CallbackFine, EventsInv, EventsShapes
      <4>2. kind[n] \notin {"unseen", "own"}  BY <4>1 DEF EventsInv, MessageFine
      <4> QED  BY <4>1, <4>2, <2>3 DEF Settled
    <3> QED  BY <3>1, <3>3, <3>4, <2>1, <2>2 DEF CallbackFine
  <2> QED  BY <2>1, <2>2, <2>5, <2>6, <2>7 DEF EventsInv, EventsShapes, BatchesApart
<1>2. ASSUME NEW f \in Callback, OnRecvMsg(f) PROVE EventsInv'  BY <1>2, OnRecvMsgKeeps
<1>3. ASSUME NEW f \in Callback, Take(f) PROVE EventsInv'  BY <1>3, TakeKeeps
<1>4. ASSUME NEW m \in KernelMsg, OnAddSendMsg(m) \/ SendEnds(m) PROVE EventsInv'  BY <1>4, OwnKeeps
<1>5. ASSUME NEW m \in KernelMsg, HandleMsg(m) PROVE EventsInv'
  <2>1. PICK to : to = Wants(m) /\ to \in SUBSET active /\ (kind[m] = "own" => to \subseteq SelfWanted)
    <3>1. Wants(m) \in SUBSET active /\ (kind[m] = "own" => Wants(m) \subseteq SelfWanted)  BY DEF Wants
    <3> QED  BY <3>1
  <2>2. /\ "message" \in todo[m] /\ todo' = HandlerEnds(m, "message") /\ (Emit(to, "message", m) \/ UNCHANGED heard)
        /\ UNCHANGED <<active, switches, kind, batch, current, shortIds, updates, before>>
    BY <1>5, <2>1 DEF HandleMsg
  <2>3. "message" \in Parts  BY DEF Parts
  <2> QED  BY <2>1, <2>2, <2>3, HandlerKeeps
<1>6. ASSUME NEW m \in KernelMsg, HandleEvent(m) PROVE EventsInv'
  <2>1. /\ "event" \in todo[m] /\ todo' = HandlerEnds(m, "event") /\ (Emit(active, "event", m) \/ UNCHANGED heard)
        /\ UNCHANGED <<active, switches, kind, batch, current, shortIds, updates, before>>
    BY <1>6 DEF HandleEvent
  <2>2. "event" \in Parts /\ active \in SUBSET active  BY DEF Parts
  <2> QED  BY <2>1, <2>2, HandlerKeeps
<1> QED  BY <1>1, <1>2, <1>3, <1>4, <1>5, <1>6 DEF EventsNext

(* The messages of a batch, each with its notice, are told to the adapters *)
(* in the batch's order and once, however long parsing one takes and       *)
(* whatever else is handled meanwhile; one the bot sent itself only to the *)
(* adapters that want it and only after it went out (onRecvMsg, emitMsg    *)
(* and onAddSendMsg in napcat-onebot/index.ts).                            *)
THEOREM ReportsKeepOrder == EventsSpec => []EventsSafe
<1> QED  BY EventsStart, EventsSteps, EventsInvIsSafe, PTL DEF EventsSpec

----------------------------------------------------------------------------
(* No element that fails costs the message or the other elements, for any  *)
(* number of elements and of look-ups for a reply.                         *)

Replies == {"reply", "oldReply"}
Steady == {"text", "face", "mface", "ark", "botReply"} \cup Media
Attempt == {"1", "2", "3", "threw", "packet"}
ElementRecord == [kind : ElementKind, st : ElementStage, url : BOOLEAN, tried : Seq(Attempt)]

(* What is true of an element at every stage of its converter: only a      *)
(* reply is looked up, nothing was tried before its one method, and the    *)
(* kinds that cannot fail end as segments.                                 *)
ElementFine(e, packet) ==
  /\ e \in ElementRecord
  /\ e.tried # <<>> => e.kind \in Replies
  /\ e.url => e.kind \in Media \cup {"pic"}
  /\ e.st \in {"lookup", "packet"} => e.kind \in Replies
  /\ e.st \in {"new", "lookup"} => e.tried = <<>>
  /\ e.kind \in Steady => e.st \in {"new", "segment"}
  /\ e.kind \in Replies /\ e.st = "null" /\ packet => \E n \in 1..Len(e.tried) : e.tried[n] = "packet"

(* The elements keep to that, and only one whose sender is known is        *)
(* converted.                                                              *)
ReceiveInv ==
  /\ packetStatus \in BOOLEAN /\ quick \in BOOLEAN
  /\ parsePhase \in {"peer", "header", "elements", "done", "dropped", "failed"}
  /\ element \in Seq(ElementRecord) /\ Len(element) <= MaxElements
  /\ \A i \in Elements : ElementFine(element[i], packetStatus)
  /\ parsePhase \in {"peer", "header", "failed"} => \A i \in Elements : element[i].st = "new"
  /\ parsePhase = "done" => AllOver


(* The invariant is enough for the three properties.                       *)
LEMMA ReceiveInvIsSafe == ReceiveInv => MsgReceiveSafe
<1> SUFFICES ASSUME ReceiveInv PROVE MsgReceiveSafe
  OBVIOUS
<1> USE DEF ReceiveInv
<1>1. MsgReceiveTypeOK
  BY DEF MsgReceiveTypeOK, ElementFine, ElementRecord, Replies, Attempt, AllOver
<1>2. ElementsNeverCostTheMessage
  <2> SUFFICES ASSUME parsePhase = "done", NEW i \in Elements, element[i].kind \in Steady
               PROVE  element[i].st = "segment"
    BY DEF ElementsNeverCostTheMessage, Steady
  <2>1. ElementFine(element[i], packetStatus) /\ element[i].st \in Over  BY DEF AllOver
  <2> QED  BY <2>1 DEF ElementFine, Over
<1>3. PacketIsTheLastResort
  <2> SUFFICES ASSUME NEW i \in Elements, element[i].kind \in Replies, element[i].st = "null", packetStatus
               PROVE  "packet" \in Tried(i)
    BY DEF PacketIsTheLastResort, Replies
  <2>1. ElementFine(element[i], packetStatus)  OBVIOUS
  <2> QED  BY <2>1 DEF ElementFine, Tried
<1> QED  BY <1>1, <1>2, <1>3 DEF MsgReceiveSafe

(* No element of a message that comes in has been looked at.               *)
LEMMA ReceiveStarts == MsgReceiveInit => ReceiveInv
<1> SUFFICES ASSUME MsgReceiveInit PROVE ReceiveInv
  OBVIOUS
<1>1. PICK n \in 1..MaxElements : \E s \in [1..n -> ElementKind] : element = [i \in DOMAIN s |-> New(s[i])]
  BY DEF MsgReceiveInit
<1> PICK s \in [1..n -> ElementKind] : element = [i \in DOMAIN s |-> New(s[i])]
  BY <1>1
<1>2. n \in Nat /\ n <= MaxElements  BY MsgReceiveAssumption
<1>3. <<>> \in Seq(Attempt)  BY EmptySeq
<1>4. \A k \in ElementKind : New(k) \in ElementRecord /\ New(k).st = "new" /\ New(k).tried = <<>> /\ ~New(k).url
  BY <1>3 DEF New, ElementRecord, ElementStage
<1>5. element \in [1..n -> ElementRecord] /\ \A i \in 1..n : element[i] = New(s[i])  BY <1>1, <1>4
<1>6. element \in Seq(ElementRecord) /\ Len(element) = n  BY <1>2, <1>5, ListIsSeq
<1>7. \A i \in Elements : ElementFine(element[i], packetStatus) /\ element[i].st = "new"
  <2> SUFFICES ASSUME NEW i \in 1..n PROVE ElementFine(element[i], packetStatus) /\ element[i].st = "new"
    BY <1>5 DEF Elements
  <2>1. element[i] = New(s[i]) /\ s[i] \in ElementKind  BY <1>5
  <2>2. element[i] \in ElementRecord /\ element[i].st = "new" /\ element[i].tried = <<>> /\ ~element[i].url
    BY <1>4, <2>1
  <2> QED  BY <2>2 DEF ElementFine
<1> QED  BY <1>2, <1>6, <1>7 DEF MsgReceiveInit, ReceiveInv

(* The converter of element i leaves it at stage s, with or without an     *)
(* address, having tried t.                                                *)
Became(i, s, u, t) ==
  element' = [element EXCEPT ![i] = [kind |-> element[i].kind, st |-> s, url |-> u, tried |-> t]]

(* One converter's step, whatever it is, keeps the invariant if what it    *)
(* makes of its own element does.                                          *)
LEMMA ConverterStepKeeps ==
  ASSUME ReceiveInv, NEW i \in Elements, parsePhase = "elements", Rest,
         NEW s, NEW u, NEW t, Became(i, s, u, t),
         ElementFine([kind |-> element[i].kind, st |-> s, url |-> u, tried |-> t], packetStatus)
  PROVE  ReceiveInv'
<1> DEFINE e == [kind |-> element[i].kind, st |-> s, url |-> u, tried |-> t]
<1>1. element' = [element EXCEPT ![i] = e] /\ ElementFine(e, packetStatus) /\ e \in ElementRecord
  BY DEF Became, ElementFine
<1> HIDE DEF e
<1>2. element \in Seq(ElementRecord) /\ i \in 1..Len(element) /\ Elements = 1..Len(element)
  BY LenProperties DEF ReceiveInv, Elements
<1>3. element' \in Seq(ElementRecord) /\ Len(element') = Len(element)
  BY <1>1, <1>2, ExceptSeq
<1>4. Elements' = Elements /\ element'[i] = e /\ \A k \in Elements : k # i => element'[k] = element[k]
  BY <1>1, <1>2 DEF Elements
<1>5. UNCHANGED <<packetStatus, quick, parsePhase>>  BY DEF Rest, Keep
<1>6. \A k \in Elements : ElementFine(element'[k], packetStatus)  BY <1>1, <1>4 DEF ReceiveInv
<1>7. (\A k \in Elements : ElementFine(element[k], packetStatus))'  BY <1>4, <1>5, <1>6
<1> QED  BY <1>3, <1>5, <1>7 DEF ReceiveInv

(* Every step keeps the invariant.                                         *)
LEMMA ReceiveSteps == ReceiveInv /\ [MsgReceiveNext]_receivevars => ReceiveInv'
<1> SUFFICES ASSUME ReceiveInv, [MsgReceiveNext]_receivevars PROVE ReceiveInv'
  OBVIOUS
<1>1. ASSUME FindPeer \/ FindSender \/ MessageParsed \/ UNCHANGED receivevars PROVE ReceiveInv'
  <2>1. UNCHANGED <<packetStatus, quick, element>> /\ Elements' = Elements
    BY <1>1 DEF FindPeer, FindSender, MessageParsed, Keep, receivevars, Elements
  <2>2. AllOver' <=> AllOver  BY <2>1 DEF AllOver
  <2> QED
    BY <1>1, <2>1, <2>2 DEF FindPeer, FindSender, MessageParsed, AllSettled, receivevars, ReceiveInv
<1>2. ASSUME NEW i \in 1..MaxElements, Convert(i) PROVE ReceiveInv'
  <2>1. i \in Elements /\ parsePhase = "elements" /\ Rest /\ element[i].st \in {"new", "lookup", "packet"}
    BY <1>2 DEF Convert, Starts, TextElement, AtElement, PicElement, FaceElement, MarketFaceElement,
      ArkElement, NoConverter, FileElement, PttElement, VideoElement, MultiForwardMsgElement, KnownReply,
      StartReply, TryMethod, FetchByPacket
  <2>2. PICK e : e = element[i]  OBVIOUS
  <2>3. e \in ElementRecord /\ ElementFine(e, packetStatus)  BY <2>1, <2>2 DEF ReceiveInv, ElementFine
  <2>4. \A s : ElementTo(i, s) => Became(i, s, e.url, e.tried)
    BY <2>1, <2>2, <2>3 DEF ElementTo, Became, ReceiveInv, ElementRecord
  <2>5. \A u : ToUrl(i, u) => Became(i, "segment", u, e.tried)
    BY <2>1, <2>2, <2>3 DEF ToUrl, Became, ReceiveInv, ElementRecord
  <2>6. \A m, s : Tries(i, m, s) => Became(i, s, e.url, Append(e.tried, m))
    BY <2>1, <2>2, <2>3 DEF Tries, Became, ReceiveInv, ElementRecord
  <2>7. ASSUME NEW s, NEW u, NEW t, Became(i, s, u, t),
               ElementFine([kind |-> e.kind, st |-> s, url |-> u, tried |-> t], packetStatus)
        PROVE  ReceiveInv'
    BY <2>1, <2>2, <2>7, ConverterStepKeeps
  <2>8. ASSUME e.st = "new", NEW s \in ElementStage, ElementTo(i, s),
               \/ s = "segment" /\ e.kind \notin Replies
               \/ s \in Over /\ e.kind \in {"at", "pic", "grayTip", "forward"}
               \/ s = "lookup" /\ e.kind \in Replies /\ e.tried = <<>>
        PROVE  ReceiveInv'
    <3>1. ElementFine([kind |-> e.kind, st |-> s, url |-> e.url, tried |-> e.tried], packetStatus)
      BY <2>3, <2>8 DEF ElementFine, ElementRecord, Replies, Over, Steady, Media
    <3>2. Became(i, s, e.url, e.tried)  BY <2>4, <2>8
    <3> QED  BY <3>1, <3>2, <2>7
  <2>9. ASSUME e.st = "new", NEW u \in BOOLEAN, ToUrl(i, u), e.kind \in Media \cup {"pic"}
        PROVE  ReceiveInv'
    <3>1. ElementFine([kind |-> e.kind, st |-> "segment", url |-> u, tried |-> e.tried], packetStatus)
      BY <2>3, <2>9 DEF ElementFine, ElementRecord, ElementStage, Replies, Steady, Media
    <3>2. Became(i, "segment", u, e.tried)  BY <2>5, <2>9
    <3> QED  BY <3>1, <3>2, <2>7
  <2> USE DEF Starts, Over, Replies, Media, ElementStage
  <2>10. CASE TextElement(i) \/ FaceElement(i) \/ MarketFaceElement(i) \/ ArkElement(i) \/ KnownReply(i)
    <3>1. e.st = "new" /\ ElementTo(i, "segment") /\ e.kind \notin Replies
      BY <2>10, <2>2 DEF TextElement, FaceElement, MarketFaceElement, ArkElement, KnownReply
    <3> QED  BY <3>1, <2>8
  <2>11. CASE AtElement(i) \/ NoConverter(i) \/ MultiForwardMsgElement(i)
    <3>1. e.st = "new" /\ e.kind \in {"at", "pic", "grayTip", "forward"} /\ \E s \in Over : ElementTo(i, s)
      BY <2>11, <2>2 DEF AtElement, NoConverter, MultiForwardMsgElement
    <3> QED  BY <3>1, <2>8
  <2>12. CASE PicElement(i)
    <3>1. e.st = "new" /\ e.kind = "pic" /\ (ElementTo(i, "null") \/ ToUrl(i, TRUE))
      BY <2>12, <2>2 DEF PicElement
    <3> QED  BY <3>1, <2>8, <2>9
  <2>13. CASE FileElement(i) \/ PttElement(i) \/ VideoElement(i)
    <3>1. e.st = "new" /\ e.kind \in Media /\ \E u \in BOOLEAN : ToUrl(i, u)
      BY <2>13, <2>2 DEF FileElement, PttElement, VideoElement, NotFoundUrl
    <3> QED  BY <3>1, <2>9
  <2>14. CASE StartReply(i)
    <3>1. e.st = "new" /\ e.kind \in Replies /\ ElementTo(i, "lookup")
      BY <2>14, <2>2 DEF StartReply
    <3>2. e.tried = <<>>  BY <2>3, <3>1 DEF ElementFine
    <3> QED  BY <3>1, <3>2, <2>8
  <2>15. CASE TryMethod(i)
    <3>1. e.st = "lookup" /\ e.kind \in Replies /\ e.tried = <<>> /\ Len(e.tried) = 0
      BY <2>15, <2>2, <2>3 DEF TryMethod, ElementFine
    <3>2. Methods(i) \in {<<"1">>, <<"2">>}  BY <2>2 DEF Methods, QuickReply
    <3>3. PICK m \in {"1", "2"} : m = Methods(i)[1] /\ Len(Methods(i)) = 1  BY <3>2
    <3>4. PICK s, a : s \in {"segment", ThenPacket(i)} /\ a \in {m, "threw"} /\ Tries(i, a, s)
      BY <2>15, <2>2, <3>1, <3>3 DEF TryMethod
    <3>5. Append(e.tried, a) \in Seq(Attempt) /\ Append(e.tried, a) # <<>>
      BY <2>3, <3>3, <3>4, AppendProperties DEF ElementRecord, Attempt
    <3>6. s \in {"segment", "packet", "null"} /\ (packetStatus => s # "null")  BY <3>4 DEF ThenPacket
    <3>7. PICK t : t = Append(e.tried, a)  OBVIOUS
    <3>8. ElementFine([kind |-> e.kind, st |-> s, url |-> e.url, tried |-> t], packetStatus)
      BY <2>3, <3>1, <3>5, <3>6, <3>7 DEF ElementFine, ElementRecord, Steady
    <3> QED  BY <3>4, <3>7, <3>8, <2>6, <2>7
  <2>16. CASE FetchByPacket(i)
    <3>1. e.st = "packet" /\ e.kind \in Replies
      BY <2>16, <2>2, <2>3 DEF FetchByPacket, ElementFine
    <3>2. PICK s \in {"segment", "null"} : Tries(i, "packet", s)
      BY <2>16 DEF FetchByPacket
    <3>3. PICK t : t = Append(e.tried, "packet")  OBVIOUS
    <3>4. t \in Seq(Attempt) /\ t # <<>> /\ \E n \in 1..Len(t) : t[n] = "packet"
      <4>1. e.tried \in Seq(Attempt) /\ "packet" \in Attempt  BY <2>3 DEF ElementRecord, Attempt
      <4>2. Len(t) = Len(e.tried) + 1 /\ t[Len(e.tried) + 1] = "packet" /\ t \in Seq(Attempt) /\ Len(e.tried) \in Nat
        BY <4>1, <3>3, AppendProperties, LenProperties
      <4> QED  BY <4>2
    <3>5. ElementFine([kind |-> e.kind, st |-> s, url |-> e.url, tried |-> t], packetStatus)
      BY <2>3, <3>1, <3>4 DEF ElementFine, ElementRecord, Steady
    <3> QED  BY <3>2, <3>3, <3>5, <2>6, <2>7
  <2> QED  BY <1>2, <2>10, <2>11, <2>12, <2>13, <2>14, <2>15, <2>16 DEF Convert
<1> QED  BY <1>1, <1>2 DEF MsgReceiveNext

(* Once the sender is known no element that fails costs the message or the *)
(* other elements, and a reply is left out only after the packet backend,  *)
(* where there is one, was asked (parseMessageV2 and the converters in     *)
(* napcat-onebot/api/msg.ts).                                              *)
THEOREM ElementsAreIndependent == MsgReceiveSpec => []MsgReceiveSafe
<1> QED  BY ReceiveStarts, ReceiveSteps, ReceiveInvIsSafe, PTL DEF MsgReceiveSpec

----------------------------------------------------------------------------
(* Once everything is handled the cache of a group is the group as it is   *)
(* or empty, and nobody who was there all along is missed, for any         *)
(* members, tasks, changes and failures of the kernel.                     *)

\* What a task of the member cache is.
CacheTask ==
  [kind : {"idle", "increase", "tip", "decrease", "list", "find"}, who : Member \cup {None},
   seen : SUBSET Member, phase : {"idle", "asked", "returned", "answered", "missing", "failed"},
   list : SUBSET Member]
MemberList == [task : Task, members : SUBSET Member]
RefreshKind == {"increase", "tip", "decrease"}

\* The list that will be in the cache once all lists read have arrived.
Latest(a, c) == IF a = <<>> THEN c ELSE a[Len(a)].members
NotRead(a, t) == \A i \in 1..Len(a) : a[i].task # t

\* A list that was read belongs to one task that waits for it, and has
\* everybody that task has seen all along; a refresh waits until it is done.
ListsInv(tasks, a, group) ==
  /\ \A i \in 1..Len(a) : tasks[a[i].task].phase \in {"asked", "returned"}
  /\ \A i, j \in 1..Len(a) : a[i].task = a[j].task => i = j
  /\ \A i \in 1..Len(a) : tasks[a[i].task].kind \in Requests => tasks[a[i].task].seen \subseteq a[i].members
  /\ \A t \in Task : /\ tasks[t].kind = "idle" => tasks[t].phase = "idle"
                     /\ tasks[t].kind \in RefreshKind => tasks[t].phase = "asked"
                     /\ tasks[t].kind \in Requests => tasks[t].seen \subseteq group
                     /\ tasks[t].phase = "missing" => tasks[t].who \notin tasks[t].seen

\* Whatever the cache will be, it is the group as it is, or something is still
\* to come that puts it right; a notice that the account left is the last.
Covered ==
  \/ Latest(answers, cache) = None \/ Latest(answers, cache) = real
  \/ failures > 0 \/ ignored \/ timers > 0 \/ notices # <<>>
  \/ Self \in real /\ \E t \in Task : task[t].kind \in RefreshKind /\ NotRead(answers, t)
LastIsOwn ==
  Self \notin real /\ notices # <<>> => notices[Len(notices)] = [kind |-> "decrease", who |-> Self]

GroupInv ==
  /\ GroupCacheTypeOK /\ ListsInv(task, answers, real)
  /\ Len(notices) + timers <= changes /\ LastIsOwn /\ Covered

-----------------------------------------------------------------------------
\* A sequence with one element more.
LEMMA OneMore ==
  ASSUME NEW S, NEW s \in Seq(S), NEW e \in S, NEW u, u = Append(s, e)
  PROVE  /\ u \in Seq(S) /\ Len(u) = Len(s) + 1 /\ Len(s) \in Nat /\ u # <<>>
         /\ \A i \in 1..Len(s) : u[i] = s[i] /\ s[i] \in S
         /\ u[Len(s) + 1] = e
  BY AppendProperties, LenProperties, ElementOfSeq, EmptySeq

\* A sequence without its head.
LEMMA OneGone ==
  ASSUME NEW S, NEW s \in Seq(S), s # <<>>, NEW u, u = Tail(s)
  PROVE  /\ u \in Seq(S) /\ Len(u) = Len(s) - 1 /\ Len(s) \in Nat \ {0} /\ Head(s) = s[1] /\ s[1] \in S
         /\ \A i \in 1..Len(u) : u[i] = s[i + 1] /\ i + 1 \in 1..Len(s)
         /\ u # <<>> <=> Len(s) > 1
<1>1. Len(s) \in Nat \ {0}  BY LenProperties, EmptySeq
<1>2. u \in Seq(S) /\ Len(u) = Len(s) - 1 /\ Head(s) = s[1] /\ \A i \in 1..Len(u) : u[i] = s[i + 1]
  BY <1>1, HeadTailProperties
<1>3. s[1] \in S  BY <1>1, ElementOfSeq
<1>4. u # <<>> <=> Len(u) > 0  BY <1>2, EmptySeq, LenProperties
<1> QED  BY <1>1, <1>2, <1>3, <1>4

\* Lists of different tasks are no more than the tasks.
LEMMA ListsFit ==
  ASSUME NEW a \in Seq(MemberList), \A i, j \in 1..Len(a) : a[i].task = a[j].task => i = j
  PROVE  Len(a) <= Cardinality(Task)
<1>1. PICK n \in Nat : n = Len(a)  BY LenProperties
<1>2. \A i \in 1..n : a[i] \in MemberList  BY <1>1, ElementOfSeq
<1>3. PICK f : f = [i \in 1..n |-> a[i].task]  OBVIOUS
<1>4. f \in Injection(1..n, Task)  BY <1>1, <1>2, <1>3 DEF Injection, IsInjective, MemberList
<1>5. IsFiniteSet(Task)  BY GroupCacheAssumption
<1>6. Cardinality(1..n) <= Cardinality(Task)  BY <1>4, <1>5, FS_Injection
<1>7. Cardinality(1..n) = n
  <2>1. 1 \in Int /\ n \in Int  OBVIOUS
  <2>2. Cardinality(1..n) = IF 1 > n THEN 0 ELSE n - 1 + 1  BY <2>1, FS_Interval
  <2> QED  BY <2>2
<1> QED  BY <1>1, <1>6, <1>7

\* What the invariant says of the types.
LEMMA GroupTypes ==
  ASSUME GroupCacheTypeOK
  PROVE  /\ task \in [Task -> CacheTask] /\ answers \in Seq(MemberList) /\ notices \in Seq(Notices)
         /\ real \in SUBSET Member /\ cache \in Caches /\ timers \in Nat /\ changes \in Nat /\ failures \in Nat
         /\ Len(notices) \in Nat /\ Len(answers) \in Nat
  BY GroupCacheAssumption, LenProperties DEF GroupCacheTypeOK, CacheTask, MemberList

\* What a task may be while the group is g.
FitsGroup(r, g) ==
  /\ r.kind = "idle" => r.phase = "idle"
  /\ r.kind \in RefreshKind => r.phase = "asked"
  /\ r.kind \in Requests => r.seen \subseteq g
  /\ r.phase = "missing" => r.who \notin r.seen

\* A task changes: what its lists know does not, as long as it has none.
LEMMA OneTask ==
  ASSUME NEW T \in [Task -> CacheTask], NEW a \in Seq(MemberList), NEW g, ListsInv(T, a, g),
         NEW t \in Task, NEW r \in CacheTask, NotRead(a, t), FitsGroup(r, g),
         NEW T2, T2 = [T EXCEPT ![t] = r]
  PROVE  T2 \in [Task -> CacheTask] /\ ListsInv(T2, a, g)
         /\ T2[t] = r /\ \A x \in Task : x # t => T2[x] = T[x]
<1>1. T2 \in [Task -> CacheTask] /\ T2[t] = r /\ \A x \in Task : x # t => T2[x] = T[x]  OBVIOUS
<1>2. \A i \in 1..Len(a) : a[i].task \in Task /\ a[i].task # t
  <2>1. \A i \in 1..Len(a) : a[i] \in MemberList  BY ElementOfSeq
  <2> QED  BY <2>1 DEF NotRead, MemberList
<1> QED  BY <1>1, <1>2 DEF ListsInv, FitsGroup

\* The invariant holds at the start.
LEMMA GroupInit == GroupCacheInit => GroupInv
<1> SUFFICES ASSUME GroupCacheInit PROVE GroupInv  OBVIOUS
<1> USE DEF GroupCacheInit
<1>1. <<>> \in Seq(MemberList) /\ <<>> \in Seq(Notices) /\ Len(<<>>) = 0  OBVIOUS
<1>2. Cardinality(Task) \in Nat  BY GroupCacheAssumption, FS_CardinalityType
<1>3. FreeTask \in CacheTask  BY DEF FreeTask, CacheTask
<1>4. GroupCacheTypeOK
  <2>1. answers \in Seq([task : Task, members : SUBSET Member])  BY <1>1 DEF MemberList
  <2>2. task \in [Task -> CacheTask]  BY <1>3
  <2>3. Len(answers) <= Cardinality(Task)  BY <1>1, <1>2
  <2>4. real \in SUBSET Member /\ cache \in Caches  BY GroupCacheAssumption DEF Caches
  <2>5. notices \in Seq(Notices)  BY <1>1
  <2>6. /\ timers \in 0..MaxChange /\ changes \in 0..MaxChange /\ failures \in 0..MaxFailure
    BY GroupCacheAssumption
  <2>7. ignored \in BOOLEAN  OBVIOUS
  <2> QED  BY <2>1, <2>2, <2>3, <2>4, <2>5, <2>6, <2>7 DEF GroupCacheTypeOK, CacheTask
<1>5. ListsInv(task, answers, real)  BY <1>1 DEF ListsInv, FreeTask, Requests, RefreshKind
<1>6. Covered /\ LastIsOwn  BY DEF Covered, LastIsOwn, Latest
<1> QED  BY <1>1, <1>4, <1>5, <1>6 DEF GroupInv

-----------------------------------------------------------------------------
\* Somebody joins or leaves: a notice is on its way.
LEMMA ChangeKeeps ==
  ASSUME GroupInv, NEW next \in SUBSET Member, NEW n \in Notices, Change(next, n),
         Self \notin next => n = [kind |-> "decrease", who |-> Self]
  PROVE  GroupInv'
<1>1. PICK T, T2 : T = task /\ T2 = task'  OBVIOUS
<1>2. /\ T \in [Task -> CacheTask] /\ answers \in Seq(MemberList) /\ notices \in Seq(Notices)
      /\ real' = next /\ notices' = Append(notices, n) /\ changes' = changes + 1 /\ changes < MaxChange
      /\ T2 = [t \in Task |-> IF T[t].kind \in Requests THEN [T[t] EXCEPT !.seen = @ \cap next] ELSE T[t]]
      /\ UNCHANGED <<cache, answers, timers, failures, ignored>>
  BY <1>1, GroupTypes DEF GroupInv, Change
<1>3. /\ notices' \in Seq(Notices) /\ Len(notices') = Len(notices) + 1 /\ notices' # <<>>
      /\ notices'[Len(notices')] = n /\ Len(notices) \in Nat
  BY <1>2, OneMore
<1>4. \A t \in Task : /\ T2[t] \in CacheTask /\ T2[t].kind = T[t].kind /\ T2[t].phase = T[t].phase
                      /\ T2[t].who = T[t].who /\ T2[t].seen \subseteq T[t].seen
                      /\ T2[t].kind \in Requests => T2[t].seen \subseteq next
  <2> SUFFICES ASSUME NEW t \in Task, NEW r, r = T[t]
               PROVE  /\ T2[t] \in CacheTask /\ T2[t].kind = r.kind /\ T2[t].phase = r.phase
                      /\ T2[t].who = r.who /\ T2[t].seen \subseteq r.seen
                      /\ T2[t].kind \in Requests => T2[t].seen \subseteq next
    OBVIOUS
  <2>1. r \in CacheTask /\ T2[t] = IF r.kind \in Requests THEN [r EXCEPT !.seen = r.seen \cap next] ELSE r
    BY <1>2
  <2> QED  BY <2>1 DEF CacheTask
<1>5. ListsInv(T2, answers, next)
  <2>1. \A i \in 1..Len(answers) : answers[i].task \in Task
    <3>1. \A i \in 1..Len(answers) : answers[i] \in MemberList  BY <1>2, ElementOfSeq
    <3> QED  BY <3>1 DEF MemberList
  <2>2. ListsInv(T, answers, real)  BY <1>1 DEF GroupInv
  <2> QED  BY <1>4, <2>1, <2>2 DEF ListsInv
<1>6. T2 \in [Task -> CacheTask]  BY <1>2, <1>4
<1>7. GroupCacheTypeOK'
  <2>1. GroupCacheTypeOK  BY DEF GroupInv
  <2>2. changes' \in 0..MaxChange  BY <1>2, <2>1, GroupCacheAssumption DEF GroupCacheTypeOK
  <2> QED  BY <1>1, <1>2, <1>3, <1>6, <2>1, <2>2 DEF GroupCacheTypeOK, CacheTask
<1>8. Len(notices') + timers' <= changes'
  <2>1. Len(notices) + timers <= changes /\ timers \in Nat /\ changes \in Nat  BY GroupTypes DEF GroupInv
  <2> QED  BY <1>2, <1>3, <2>1
<1>9. LastIsOwn' /\ Covered'  BY <1>2, <1>3 DEF LastIsOwn, Covered
<1> QED  BY <1>1, <1>2, <1>5, <1>7, <1>8, <1>9 DEF GroupInv

\* Who leaves or joins keeps it.
LEMMA ChangesKeep ==
  ASSUME GroupInv, NEW m \in Member, JoinsGroup(m) \/ LeavesGroup(m)
  PROVE  GroupInv'
<1>1. real \in SUBSET Member  BY GroupTypes DEF GroupInv
<1>2. CASE JoinsGroup(m)
  <2>1. PICK k \in {"increase", "tip"} : Change(real \cup {m}, [kind |-> k, who |-> m])
    BY <1>2 DEF JoinsGroup
  <2>2. [kind |-> k, who |-> m] \in Notices /\ Self \in real \cup {m}  BY <1>2 DEF Notices, JoinsGroup
  <2>3. real \cup {m} \in SUBSET Member  BY <1>1
  <2> QED  BY <2>1, <2>2, <2>3, ChangeKeeps
<1>3. CASE LeavesGroup(m)
  <2>1. PICK n : n = [kind |-> "decrease", who |-> m]  OBVIOUS
  <2>2. Change(real \ {m}, n) /\ n \in Notices /\ (Self \notin real \ {m} => m = Self)
    BY <1>3, <2>1 DEF LeavesGroup, Notices
  <2>3. real \ {m} \in SUBSET Member  BY <1>1
  <2> QED  BY <2>1, <2>2, <2>3, ChangeKeeps
<1> QED  BY <1>2, <1>3

\* A notice is taken up: it starts a refresh or a timer, or is ignored.
LEMMA HandleKeeps ==
  ASSUME GroupInv, NEW t \in Task, Handle(t) PROVE GroupInv'
<1>1. PICK n : n = Head(notices)  OBVIOUS
<1>2. /\ task \in [Task -> CacheTask] /\ answers \in Seq(MemberList) /\ notices \in Seq(Notices)
      /\ timers \in Nat /\ changes \in Nat /\ Len(notices) + timers <= changes /\ changes <= MaxChange
  BY GroupTypes DEF GroupInv, GroupCacheTypeOK
<1>3. /\ notices # <<>> /\ notices' = Tail(notices) /\ task[t].kind = "idle"
      /\ ignored' = (ignored \/ (n.kind = "tip" /\ cache = None))
      /\ UNCHANGED <<real, cache, answers, changes, failures>>
  BY <1>1 DEF Handle
<1>4. /\ notices' \in Seq(Notices) /\ Len(notices') = Len(notices) - 1 /\ Len(notices) \in Nat \ {0}
      /\ n = notices[1] /\ n \in Notices
      /\ \A i \in 1..Len(notices') : notices'[i] = notices[i + 1]
      /\ notices' # <<>> <=> Len(notices) > 1
  <2>1. PICK s, u : s = notices /\ u = notices'  OBVIOUS
  <2>2. /\ u \in Seq(Notices) /\ Len(u) = Len(s) - 1 /\ Len(s) \in Nat \ {0} /\ Head(s) = s[1] /\ s[1] \in Notices
        /\ \A i \in 1..Len(u) : u[i] = s[i + 1] /\ i + 1 \in 1..Len(s)
        /\ u # <<>> <=> Len(s) > 1
    BY SMTT(60), <2>1, <1>2, <1>3, OneGone
  <2> QED  BY <2>1, <2>2, <1>1
<1>5. NotRead(answers, t)
  BY <1>3 DEF GroupInv, ListsInv, NotRead
<1>6. LastIsOwn'
  <2>1. CASE notices' # <<>>
    <3>1. Len(notices') \in 1..Len(notices') /\ notices'[Len(notices')] = notices[Len(notices)]
      BY <1>4, <2>1
    <3> QED  BY <3>1, <1>3 DEF GroupInv, LastIsOwn
  <2> QED  BY <2>1 DEF LastIsOwn
<1>7. CASE n.kind = "decrease" /\ n.who = Self /\ timers' = timers + 1 /\ UNCHANGED task
  <2>1. GroupCacheTypeOK'
    BY <1>2, <1>3, <1>4, <1>7, GroupCacheAssumption DEF GroupInv, GroupCacheTypeOK
  <2>2. Covered'  BY <1>2, <1>7 DEF Covered
  <2>3. ListsInv(task, answers, real)'  BY <1>3, <1>7 DEF GroupInv
  <2> QED  BY <2>1, <2>2, <2>3, <1>2, <1>3, <1>4, <1>6, <1>7 DEF GroupInv
<1>8. CASE n.kind \in RefreshKind /\ ~(n.kind = "decrease" /\ n.who = Self)
           /\ task' = Begins(t, n.kind, n.who) /\ UNCHANGED timers
  <2>1. PICK r : r = [kind |-> n.kind, who |-> n.who, seen |-> {}, phase |-> "asked", list |-> {}]  OBVIOUS
  <2>2. r \in CacheTask /\ r.kind \in RefreshKind /\ r.phase = "asked"
    BY <2>1, <1>4, <1>8 DEF CacheTask, Notices, RefreshKind
  <2>3. task' = [task EXCEPT ![t] = r]  BY <2>1, <1>8 DEF Begins, Requests, RefreshKind
  <2>4. task' \in [Task -> CacheTask] /\ ListsInv(task', answers, real) /\ task'[t] = r
    BY <2>2, <2>3, <1>2, <1>5, OneTask DEF GroupInv, FitsGroup, RefreshKind, Requests
  <2>5. GroupCacheTypeOK'
    <3>1. ignored' \in BOOLEAN  BY <1>3 DEF GroupInv, GroupCacheTypeOK
    <3> QED  BY <3>1, <2>4, <1>3, <1>4, <1>8 DEF GroupInv, GroupCacheTypeOK, CacheTask
  <2>6. Covered'
    <3>1. CASE Self \in real  BY <3>1, <2>2, <2>4, <1>3, <1>5 DEF Covered
    <3>2. CASE Self \notin real
      <4>1. notices[Len(notices)] = [kind |-> "decrease", who |-> Self]
        BY <3>2, <1>3 DEF GroupInv, LastIsOwn
      <4>2. Len(notices) > 1  BY <4>1, <1>4, <1>8
      <4> QED  BY <4>2, <1>4 DEF Covered
    <3> QED  BY <3>1, <3>2
  <2> QED  BY <2>4, <2>5, <2>6, <1>2, <1>3, <1>4, <1>6, <1>8 DEF GroupInv
<1>9. CASE n.kind = "tip" /\ cache = None /\ UNCHANGED <<task, timers>>
  <2>1. GroupCacheTypeOK'
    <3>1. ignored' \in BOOLEAN  BY <1>3 DEF GroupInv, GroupCacheTypeOK
    <3> QED  BY <3>1, <1>3, <1>4, <1>9 DEF GroupInv, GroupCacheTypeOK
  <2>2. Covered'  BY <1>3, <1>9 DEF Covered
  <2>3. ListsInv(task, answers, real)'  BY <1>3, <1>9 DEF GroupInv
  <2> QED  BY <2>1, <2>2, <2>3, <1>2, <1>3, <1>4, <1>6, <1>9 DEF GroupInv
<1> QED  BY <1>1, <1>7, <1>8, <1>9 DEF Handle, RefreshKind

\* A request begins, from the cache or from the kernel.
LEMMA AskKeeps ==
  ASSUME GroupInv, NEW t \in Task, getGroupMembers(t) \/ \E m \in Member : getGroupMember(t, m)
  PROVE  GroupInv'
<1>1. /\ task \in [Task -> CacheTask] /\ answers \in Seq(MemberList) /\ real \in SUBSET Member /\ cache \in Caches
  BY GroupTypes DEF GroupInv
<1>2. /\ task[t].kind = "idle" /\ UNCHANGED <<real, cache, answers, notices, timers, changes, failures, ignored>>
  BY DEF getGroupMembers, getGroupMember
<1>3. PICK r \in CacheTask : /\ task' = [task EXCEPT ![t] = r] /\ r.kind \in Requests /\ r.seen = real
                            /\ r.phase \in {"asked", "returned", "answered"}
  <2>1. CASE getGroupMembers(t)
    <3>1. PICK q : q = [kind |-> "list", who |-> None, seen |-> real, phase |-> "asked", list |-> {}]  OBVIOUS
    <3>2. Begins(t, "list", None) = [task EXCEPT ![t] = q]  BY <3>1 DEF Begins, Requests
    <3>3. CASE cache = None
      <4>1. task' = [task EXCEPT ![t] = q]  BY <2>1, <3>2, <3>3 DEF getGroupMembers
      <4>2. q \in CacheTask /\ q.kind \in Requests /\ q.seen = real /\ q.phase = "asked"
        BY <3>1, <1>1 DEF CacheTask, Requests
      <4> QED  BY <4>1, <4>2
    <3>4. CASE cache # None
      <4>1. PICK p : p = [kind |-> "list", who |-> None, seen |-> real, phase |-> "returned", list |-> cache]  OBVIOUS
      <4>2. PICK T : T = [task EXCEPT ![t] = q]  OBVIOUS
      <4>3. task' = [T EXCEPT ![t].phase = "returned", ![t].list = cache]
        BY <2>1, <3>2, <3>4, <4>2 DEF getGroupMembers
      <4>4. T[t] = q /\ T \in [Task -> CacheTask \cup {q}]  BY <4>2, <1>1
      <4>5. [[q EXCEPT !.phase = "returned"] EXCEPT !.list = cache] = p
        <5>1. [[kind |-> "list", who |-> None, seen |-> real, phase |-> "asked", list |-> {}] EXCEPT !.phase = "returned"]
                = [kind |-> "list", who |-> None, seen |-> real, phase |-> "returned", list |-> {}]
          OBVIOUS
        <5>2. [[kind |-> "list", who |-> None, seen |-> real, phase |-> "returned", list |-> {}] EXCEPT !.list = cache]
                = [kind |-> "list", who |-> None, seen |-> real, phase |-> "returned", list |-> cache]
          OBVIOUS
        <5>3. [q EXCEPT !.phase = "returned"] = [kind |-> "list", who |-> None, seen |-> real, phase |-> "returned", list |-> {}]
          BY <5>1, <3>1
        <5> QED  BY <5>2, <5>3, <4>1
      <4>6. task' = [task EXCEPT ![t] = p]  BY <4>2, <4>3, <4>4, <4>5, <1>1
      <4>7. p \in CacheTask /\ p.kind \in Requests /\ p.seen = real /\ p.phase = "returned"
        BY <3>4, <4>1, <1>1 DEF CacheTask, Requests, Caches
      <4> QED  BY <4>6, <4>7
    <3> QED  BY <3>3, <3>4
  <2>2. CASE \E m \in Member : getGroupMember(t, m)
    <3>1. PICK m \in Member : getGroupMember(t, m)  BY <2>2
    <3>2. PICK q, ph : /\ q = [kind |-> "find", who |-> m, seen |-> real, phase |-> "asked", list |-> {}]
                       /\ ph = IF Known(m) THEN "answered" ELSE "asked"
      OBVIOUS
    <3>3. PICK p : p = [kind |-> "find", who |-> m, seen |-> real, phase |-> ph, list |-> {}]  OBVIOUS
    <3>4. PICK T : T = [task EXCEPT ![t] = q]  OBVIOUS
    <3>5. task' = [T EXCEPT ![t].phase = ph]
      BY <3>1, <3>2, <3>4 DEF getGroupMember, Begins, Requests
    <3>6. T[t] = q /\ T \in [Task -> CacheTask]
      <4>1. q \in CacheTask  BY <3>2, <1>1 DEF CacheTask
      <4> QED  BY <4>1, <3>4, <1>1
    <3>9. [q EXCEPT !.phase = ph] = p
      <4>1. [[kind |-> "find", who |-> m, seen |-> real, phase |-> "asked", list |-> {}] EXCEPT !.phase = ph]
              = [kind |-> "find", who |-> m, seen |-> real, phase |-> ph, list |-> {}]
        OBVIOUS
      <4> QED  BY <4>1, <3>2, <3>3
    <3>7. task' = [task EXCEPT ![t] = p]  BY <3>4, <3>5, <3>6, <3>9, <1>1
    <3>8. p \in CacheTask /\ p.kind \in Requests /\ p.seen = real /\ p.phase \in {"asked", "answered"}
      BY <3>2, <3>3, <1>1 DEF CacheTask, Requests
    <3> QED  BY <3>7, <3>8
  <2> QED  BY <2>1, <2>2
<1>4. NotRead(answers, t)  BY <1>2 DEF GroupInv, ListsInv, NotRead
<1>5. task' \in [Task -> CacheTask] /\ ListsInv(task', answers, real) /\ \A x \in Task : x # t => task'[x] = task[x]
  BY ZenonT(60), <1>1, <1>3, <1>4, OneTask DEF GroupInv, FitsGroup, RefreshKind, Requests
<1>6. GroupCacheTypeOK'  BY <1>2, <1>5 DEF GroupInv, GroupCacheTypeOK, CacheTask
<1>7. LastIsOwn'  BY <1>2 DEF GroupInv, LastIsOwn
<1>8. Covered'
  <2>1. \A x \in Task : task[x].kind \in RefreshKind => task'[x] = task[x]
    BY <1>2, <1>5 DEF RefreshKind
  <2> QED  BY <2>1, <1>2 DEF GroupInv, Covered
<1> QED  BY <1>2, <1>5, <1>6, <1>7, <1>8 DEF GroupInv

\* The kernel reads its list for a task.
LEMMA ReadsKeeps ==
  ASSUME GroupInv, NEW t \in Task, KernelReads(t) PROVE GroupInv'
<1>1. PICK e, a : e = [task |-> t, members |-> real] /\ a = answers'  OBVIOUS
<1>2. /\ task \in [Task -> CacheTask] /\ answers \in Seq(MemberList) /\ real \in SUBSET Member
      /\ a = Append(answers, e) /\ e \in MemberList /\ e.task = t /\ e.members = real
      /\ task[t].phase \in {"asked", "returned"} /\ (\A i \in 1..Len(answers) : answers[i].task # t)
      /\ UNCHANGED <<real, cache, task, notices, timers, changes, failures, ignored>>
  <2>1. answers \in Seq(MemberList) /\ DOMAIN answers = 1..Len(answers)  BY GroupTypes, LenProperties DEF GroupInv
  <2> QED  BY <1>1, <2>1, GroupTypes DEF GroupInv, KernelReads, Outstanding, MemberList
<1>3. /\ a \in Seq(MemberList) /\ Len(a) = Len(answers) + 1 /\ Len(answers) \in Nat /\ a # <<>>
      /\ (\A i \in 1..Len(answers) : a[i] = answers[i]) /\ a[Len(answers) + 1] = e
  BY <1>2, OneMore
<1>4. \A i \in 1..Len(a) : i \in 1..Len(answers) \/ i = Len(answers) + 1  BY <1>3
<1>5. ListsInv(task, a, real)
  <2>1. ListsInv(task, answers, real)  BY DEF GroupInv
  <2>2. \A i \in 1..Len(a) : task[a[i].task].phase \in {"asked", "returned"}
    BY <2>1, <1>2, <1>3, <1>4 DEF ListsInv
  <2>3. \A i, j \in 1..Len(a) : a[i].task = a[j].task => i = j
    BY <2>1, <1>2, <1>3, <1>4 DEF ListsInv
  <2>4. \A i \in 1..Len(a) : task[a[i].task].kind \in Requests => task[a[i].task].seen \subseteq a[i].members
    BY <2>1, <1>2, <1>3, <1>4 DEF ListsInv
  <2> QED  BY <2>1, <2>2, <2>3, <2>4 DEF ListsInv
<1>6. Len(a) <= Cardinality(Task)  BY <1>3, <1>5, ListsFit DEF ListsInv
<1>7. GroupCacheTypeOK'
  BY <1>1, <1>2, <1>3, <1>6 DEF GroupInv, GroupCacheTypeOK, MemberList
<1>8. Covered'
  <2>1. Latest(a, cache) = real  BY <1>2, <1>3 DEF Latest
  <2> QED  BY <2>1, <1>1, <1>2 DEF Covered
<1>9. LastIsOwn'  BY <1>2 DEF GroupInv, LastIsOwn
<1> QED  BY <1>1, <1>2, <1>5, <1>7, <1>8, <1>9 DEF GroupInv

\* The kernel fails: counted while the account is in the group.
LEMMA FailsKeeps ==
  ASSUME GroupInv, NEW t \in Task, KernelFails(t) PROVE GroupInv'
<1>1. PICK x : x = task[t]  OBVIOUS
<1>2. /\ task \in [Task -> CacheTask] /\ answers \in Seq(MemberList) /\ x \in CacheTask /\ failures \in Nat
      /\ x.phase \in {"asked", "returned"}
      /\ failures' = (IF Self \in real THEN failures + 1 ELSE failures) /\ (Self \in real => failures < MaxFailure)
      /\ UNCHANGED <<real, cache, answers, notices, timers, changes, ignored>>
  BY <1>1, GroupTypes DEF GroupInv, KernelFails, Outstanding
<1>3. NotRead(answers, t)
  <2>1. answers \in Seq(MemberList) /\ DOMAIN answers = 1..Len(answers)  BY GroupTypes, LenProperties DEF GroupInv
  <2> QED  BY <2>1 DEF KernelFails, Outstanding, NotRead
<1>4. PICK r \in CacheTask : /\ task' = [task EXCEPT ![t] = r] /\ r.phase \in {"idle", "failed"}
                            /\ r.kind \in {"idle"} \cup Requests /\ (r.kind = "idle" => r.phase = "idle")
                            /\ r.seen \subseteq x.seen /\ (r.kind \in Requests => x.kind \in Requests)
  <2>1. CASE x.phase = "asked" /\ x.kind \in Requests
    <3>1. PICK r : r = [x EXCEPT !.phase = "failed"]  OBVIOUS
    <3>2. r \in CacheTask /\ r.phase = "failed" /\ r.kind = x.kind /\ r.seen = x.seen  BY <3>1, <1>2 DEF CacheTask
    <3>3. task' = [task EXCEPT ![t] = r]  BY <2>1, <3>1, <1>1 DEF KernelFails
    <3> QED  BY <3>2, <3>3, <2>1 DEF Requests
  <2>2. CASE ~(x.phase = "asked" /\ x.kind \in Requests)
    <3>1. task' = [task EXCEPT ![t] = FreeTask]  BY <2>2, <1>1 DEF KernelFails
    <3>2. FreeTask \in CacheTask /\ FreeTask.phase = "idle" /\ FreeTask.kind = "idle" /\ FreeTask.seen = {}
      BY DEF FreeTask, CacheTask
    <3> QED  BY <3>1, <3>2 DEF Requests
  <2> QED  BY <2>1, <2>2
<1>5. x.kind \in Requests => x.seen \subseteq real  BY <1>1 DEF GroupInv, ListsInv
<1>6. task' \in [Task -> CacheTask] /\ ListsInv(task', answers, real) /\ \A y \in Task : y # t => task'[y] = task[y]
  <2>1. FitsGroup(r, real)  BY <1>4, <1>5 DEF FitsGroup, RefreshKind, Requests
  <2> QED  BY <2>1, <1>2, <1>3, <1>4, OneTask DEF GroupInv
<1>7. GroupCacheTypeOK'
  <2>1. failures' \in 0..MaxFailure  BY <1>2, GroupCacheAssumption DEF GroupInv, GroupCacheTypeOK
  <2> QED  BY <2>1, <1>2, <1>6 DEF GroupInv, GroupCacheTypeOK, CacheTask
<1>8. Covered'
  <2>1. CASE Self \in real  BY <2>1, <1>2 DEF Covered
  <2>2. CASE Self \notin real  BY <2>2, <1>2 DEF GroupInv, Covered
  <2> QED  BY <2>1, <2>2
<1>9. LastIsOwn'  BY <1>2 DEF GroupInv, LastIsOwn
<1> QED  BY <1>2, <1>6, <1>7, <1>8, <1>9 DEF GroupInv

\* The oldest list arrives: it is the cache, and its task goes on with it.
LEMMA DeliveredKeeps ==
  ASSUME GroupInv, Delivered PROVE GroupInv'
<1>1. PICK e, a : e = Head(answers) /\ a = answers'  OBVIOUS
<1>2. /\ task \in [Task -> CacheTask] /\ answers \in Seq(MemberList) /\ answers # <<>>
      /\ a = Tail(answers) /\ cache' = e.members /\ task' = Finished(e.task, e.members)
      /\ UNCHANGED <<real, notices, timers, changes, failures, ignored>>
  BY <1>1, GroupTypes DEF GroupInv, Delivered, Stored
<1>3. /\ a \in Seq(MemberList) /\ Len(a) = Len(answers) - 1 /\ Len(answers) \in Nat \ {0} /\ e = answers[1]
      /\ e \in MemberList /\ (a # <<>> <=> Len(answers) > 1)
      /\ \A i \in 1..Len(a) : a[i] = answers[i + 1] /\ i + 1 \in 1..Len(answers)
  BY <1>1, <1>2, OneGone
<1>4. PICK t \in Task : t = e.task  BY <1>3 DEF MemberList
<1>5. PICK x \in CacheTask : x = task[t]  BY <1>2
<1>6. /\ x.phase \in {"asked", "returned"} /\ (x.kind \in Requests => x.seen \subseteq e.members)
      /\ (x.kind \in Requests => x.seen \subseteq real)
  BY <1>3, <1>4, <1>5 DEF GroupInv, ListsInv
<1>7. ListsInv(task, a, real) /\ NotRead(a, t)
  <2>1. ListsInv(task, answers, real)  BY DEF GroupInv
  <2>2. NotRead(a, t)
    <3> SUFFICES ASSUME NEW i \in 1..Len(a), a[i].task = t PROVE FALSE
      BY DEF NotRead
    <3>1. answers[i + 1].task = answers[1].task /\ i + 1 \in 1..Len(answers) /\ 1 \in 1..Len(answers) /\ i + 1 # 1
      BY <1>3, <1>4
    <3> QED  BY <3>1, <2>1 DEF ListsInv
  <2>3. \A i, j \in 1..Len(a) : i + 1 = j + 1 => i = j  BY <1>3
  <2>4. \A i \in 1..Len(a) : task[a[i].task].phase \in {"asked", "returned"}  BY <2>1, <1>3 DEF ListsInv
  <2>5. \A i, j \in 1..Len(a) : a[i].task = a[j].task => i = j  BY <2>1, <2>3, <1>3 DEF ListsInv
  <2>6. \A i \in 1..Len(a) : task[a[i].task].kind \in Requests => task[a[i].task].seen \subseteq a[i].members
    BY <2>1, <1>3 DEF ListsInv
  <2> QED  BY <2>1, <2>2, <2>4, <2>5, <2>6 DEF ListsInv
<1>8. PICK r \in CacheTask :
        /\ task' = [task EXCEPT ![t] = r] /\ r.kind \in {"idle"} \cup Requests /\ (r.kind = "idle" => r.phase = "idle")
        /\ (r.kind \in Requests => x.kind \in Requests /\ r.seen = x.seen)
        /\ (r.phase = "missing" => r.who \notin r.seen)
  <2>1. CASE x.kind = "find"
    <3>1. PICK ph : ph = IF x.who \in e.members THEN "answered" ELSE "missing"  OBVIOUS
    <3>2. PICK r : r = [x EXCEPT !.phase = ph]  OBVIOUS
    <3>3. r \in CacheTask /\ r.phase = ph /\ r.kind = x.kind /\ r.seen = x.seen /\ r.who = x.who
      BY <3>1, <3>2 DEF CacheTask
    <3>4. task' = [task EXCEPT ![t] = r]  BY <2>1, <3>1, <3>2, <1>2, <1>4, <1>5 DEF Finished, Found
    <3>5. ph = "missing" => x.who \notin x.seen  BY <2>1, <3>1, <1>6 DEF Requests
    <3> QED  BY <2>1, <3>3, <3>4, <3>5 DEF Requests
  <2>2. CASE x.kind = "list" /\ x.phase = "asked"
    <3>1. PICK q : q = [x EXCEPT !.phase = "answered"]  OBVIOUS
    <3>2. q \in CacheTask /\ q.phase = "answered" /\ q.kind = "list" /\ q.seen = x.seen  BY <3>1, <2>2 DEF CacheTask
    <3>3. PICK r : r = [q EXCEPT !.list = e.members]  OBVIOUS
    <3>4. r \in CacheTask /\ r.phase = "answered" /\ r.kind = "list" /\ r.seen = x.seen
      BY <3>2, <3>3, <1>3 DEF CacheTask, MemberList
    <3>5. r = [x EXCEPT !.phase = "answered", !.list = e.members]  BY <3>1, <3>3
    <3>6. task' = [task EXCEPT ![t] = r]  BY <2>2, <3>5, <1>2, <1>4, <1>5 DEF Finished
    <3> QED  BY <2>2, <3>4, <3>6 DEF Requests
  <2>3. CASE x.kind # "find" /\ ~(x.kind = "list" /\ x.phase = "asked")
    <3>1. task' = [task EXCEPT ![t] = FreeTask]  BY <2>3, <1>2, <1>4, <1>5 DEF Finished
    <3>2. FreeTask \in CacheTask /\ FreeTask.phase = "idle" /\ FreeTask.kind = "idle" /\ FreeTask.seen = {}
      BY DEF FreeTask, CacheTask
    <3> QED  BY <3>1, <3>2 DEF Requests
  <2> QED  BY <2>1, <2>2, <2>3
<1>9. task' \in [Task -> CacheTask] /\ ListsInv(task', a, real) /\ \A y \in Task : y # t => task'[y] = task[y]
  <2>1. FitsGroup(r, real)  BY <1>6, <1>8 DEF FitsGroup, RefreshKind, Requests
  <2>2. task' = [task EXCEPT ![t] = r] /\ r \in CacheTask  BY <1>8
  <2>4. task \in [Task -> CacheTask] /\ a \in Seq(MemberList)  BY <1>2, <1>3
  <2>5. PICK T : T = task'  OBVIOUS
  <2>6. T = [task EXCEPT ![t] = r]  BY <2>2, <2>5
  <2>7. T \in [Task -> CacheTask] /\ ListsInv(T, a, real)
    BY <2>1, <2>2, <2>4, <2>6, <1>7, OneTask
  <2>3. task' \in [Task -> CacheTask] /\ ListsInv(task', a, real)
    BY <2>5, <2>7
  <2> QED  BY <2>2, <2>3, <1>2
<1>10. GroupCacheTypeOK'
  <2>1. Len(a) <= Cardinality(Task)  BY <1>3, <1>9, ListsFit DEF ListsInv
  <2>2. cache' \in Caches  BY <1>2, <1>3 DEF Caches, MemberList
  <2> QED  BY <2>1, <2>2, <1>1, <1>2, <1>3, <1>9 DEF GroupInv, GroupCacheTypeOK, CacheTask, MemberList
<1>11. Covered'
  <2>1. Latest(a, cache') = Latest(answers, cache)
    <3>1. CASE a = <<>>
      <4>1. Len(answers) = 1  BY <3>1, <1>3
      <4> QED  BY <4>1, <3>1, <1>2, <1>3 DEF Latest
    <3>2. CASE a # <<>>
      <4>1. Len(a) \in 1..Len(a) /\ a[Len(a)] = answers[Len(answers)]  BY <3>2, <1>3
      <4> QED  BY <4>1, <3>2, <1>2 DEF Latest
    <3> QED  BY <3>1, <3>2
  <2>2. ASSUME NEW y \in Task, task[y].kind \in RefreshKind, NotRead(answers, y)
        PROVE  task'[y].kind \in RefreshKind /\ NotRead(a, y)
    <3>1. y # t  BY <2>2, <1>3, <1>4 DEF NotRead
    <3>2. NotRead(a, y)  BY <2>2, <1>3 DEF NotRead
    <3> QED  BY <3>1, <3>2, <2>2, <1>9
  <2> QED  BY <2>1, <2>2, <1>1, <1>2 DEF GroupInv, Covered
<1>12. LastIsOwn'  BY <1>2 DEF GroupInv, LastIsOwn
<1> QED  BY <1>1, <1>2, <1>9, <1>10, <1>11, <1>12 DEF GroupInv

\* The cache is dropped, or a task leaves with its answer.
LEMMA DropKeeps ==
  ASSUME GroupInv, DropCache \/ \E t \in Task : TaskEnds(t) PROVE GroupInv'
<1>1. CASE DropCache
  <2>1. timers \in Nat /\ timers' = timers - 1 /\ timers > 0  BY <1>1, GroupTypes DEF GroupInv, DropCache
  <2>2. GroupCacheTypeOK'
    <3>1. timers' \in 0..MaxChange /\ cache' \in Caches
      BY <2>1, <1>1, GroupCacheAssumption DEF GroupInv, GroupCacheTypeOK, DropCache, Caches
    <3>2. UNCHANGED <<real, task, answers, notices, changes, failures, ignored>>  BY <1>1 DEF DropCache
    <3> QED  BY <3>1, <3>2 DEF GroupInv, GroupCacheTypeOK
  <2>3. Covered'  BY <1>1 DEF Covered, Latest, DropCache
  <2>4. ListsInv(task, answers, real)' /\ LastIsOwn'  BY <1>1 DEF GroupInv, DropCache, LastIsOwn
  <2>5. Len(notices)' + timers' <= changes'
    <3>1. Len(notices) \in Nat /\ changes \in Nat /\ Len(notices) + timers <= changes /\ UNCHANGED <<notices, changes>>
      BY <1>1, GroupTypes DEF GroupInv, DropCache
    <3> QED  BY <3>1, <2>1
  <2> QED  BY <2>2, <2>3, <2>4, <2>5 DEF GroupInv
<1>2. CASE \E t \in Task : TaskEnds(t)
  <2>1. PICK t \in Task : TaskEnds(t)  BY <1>2
  <2>2. /\ task[t].phase \in {"answered", "missing", "failed"} /\ task' = [task EXCEPT ![t] = FreeTask]
        /\ UNCHANGED <<real, cache, answers, notices, timers, changes, failures, ignored>>
        /\ task \in [Task -> CacheTask] /\ answers \in Seq(MemberList)
    BY <2>1, GroupTypes DEF GroupInv, TaskEnds
  <2>3. FreeTask \in CacheTask /\ FreeTask.phase = "idle" /\ FreeTask.kind = "idle" /\ FreeTask.seen = {}
    BY DEF FreeTask, CacheTask
  <2>4. NotRead(answers, t)  BY <2>2 DEF GroupInv, ListsInv, NotRead
  <2>5. task' \in [Task -> CacheTask] /\ ListsInv(task', answers, real) /\ \A y \in Task : y # t => task'[y] = task[y]
    BY ZenonT(60), <2>2, <2>3, <2>4, OneTask DEF GroupInv, FitsGroup, RefreshKind, Requests
  <2>6. GroupCacheTypeOK'  BY <2>2, <2>5 DEF GroupInv, GroupCacheTypeOK, CacheTask
  <2>7. Covered'
    <3>1. \A y \in Task : task[y].kind \in RefreshKind => task'[y] = task[y]
      BY <2>2, <2>5 DEF GroupInv, ListsInv
    <3> QED  BY <3>1, <2>2 DEF GroupInv, Covered
  <2>8. LastIsOwn'  BY <2>2 DEF GroupInv, LastIsOwn
  <2> QED  BY <2>2, <2>5, <2>6, <2>7, <2>8 DEF GroupInv
<1> QED  BY <1>1, <1>2

\* Every step keeps the invariant.
LEMMA GroupKeeps == GroupInv /\ [GroupCacheNext]_groupvars => GroupInv'
<1>1. ASSUME GroupInv, UNCHANGED groupvars PROVE GroupInv'
  BY <1>1 DEF groupvars, GroupInv, GroupCacheTypeOK, Covered, LastIsOwn
<1> QED
  BY <1>1, ChangesKeep, HandleKeeps, AskKeeps, ReadsKeeps, FailsKeeps, DeliveredKeeps, DropKeeps DEF GroupCacheNext

\* Once nothing is under way the cache is the group or there is none, and who
\* was in the group all along is found, unless the kernel failed: however
\* joins, leaves, refreshes and requests interleave.
THEOREM CacheComesRight == GroupCacheSpec => []GroupCacheSafe
<1>1. GroupInv => GroupCacheSafe
  <2> SUFFICES ASSUME GroupInv PROVE GroupCacheSafe  OBVIOUS
  <2>1. MembersAreFound  BY DEF GroupInv, ListsInv, MembersAreFound
  <2>2. CacheSettles
    BY GroupTypes DEF GroupInv, CacheSettles, Covered, Latest, Refreshes, RefreshKind
  <2> QED  BY <2>1, <2>2 DEF GroupCacheSafe, GroupInv
<1> QED  BY <1>1, GroupInit, GroupKeeps, PTL DEF GroupCacheSpec

----------------------------------------------------------------------------
(* A short id leads to the last message that was given it, and a message   *)
(* is forgotten only by a clash or by MaxSize newer ones, for any hash,    *)
(* any size of the tables and any messages.                                *)

\* A table whose keys are listed once each.
Distinct(s) == \A i, j \in 1..Len(s) : s[i] = s[j] => i = j
TableInv(t, K) == IsTable(t, K) /\ Distinct(t.keys)

\* The empty table is one.
LEMMA EmptyTable ==
  ASSUME NEW K
  PROVE  TableInv(Empty, K) /\ Len(Empty.keys) = 0 /\ KeysOf(Empty) = {} /\ DOMAIN Empty.key = {}
<1>1. <<>> \in Seq(K) /\ Len(<<>>) = 0 /\ DOMAIN <<>> = {}  OBVIOUS
<1>2. <<>> \in [{} -> Short] /\ <<>> \in [{} -> K]  OBVIOUS
<1> QED  BY <1>1, <1>2 DEF TableInv, IsTable, Distinct, KeysOf, Empty

\* What makes a table.
LEMMA MakesTable ==
  ASSUME NEW K, NEW t, NEW s \in Seq(K), NEW S, NEW D \in SUBSET Short,
         t.keys = s, Distinct(s), S = {s[i] : i \in 1..Len(s)}, t.value \in [S -> Short], t.key \in [D -> K]
  PROVE  TableInv(t, K) /\ KeysOf(t) = S /\ DOMAIN t.key = D
<1>1. DOMAIN t.value = S /\ DOMAIN t.key = D  OBVIOUS
<1> QED  BY <1>1 DEF TableInv, IsTable, KeysOf

\* An entry is written.
LEMMA WrittenTable ==
  ASSUME NEW K, NEW t, TableInv(t, K), NEW k \in K, NEW v \in Short, NEW w, w = Written(t, k, v)
  PROVE  /\ TableInv(w, K) /\ KeysOf(w) = KeysOf(t) \cup {k} /\ w.value[k] = v
         /\ \A x \in KeysOf(t) : x # k => w.value[x] = t.value[x]
         /\ DOMAIN w.key = DOMAIN t.key \cup {v} /\ w.key[v] = k
         /\ \A s \in DOMAIN t.key : s # v => w.key[s] = t.key[s]
         /\ Len(t.keys) \in Nat /\ \A i \in 1..Len(t.keys) : w.keys[i] = t.keys[i] /\ t.keys[i] \in KeysOf(t)
         /\ k \in KeysOf(t) => w.keys = t.keys
         /\ k \notin KeysOf(t) => Len(w.keys) = Len(t.keys) + 1 /\ w.keys[Len(t.keys) + 1] = k
<1>1. PICK s : s = t.keys  OBVIOUS
<1>2. s \in Seq(K) /\ KeysOf(t) = {s[i] : i \in 1..Len(s)} /\ Len(s) \in Nat /\ Distinct(s)
  BY <1>1, LenProperties DEF TableInv, IsTable, KeysOf
<1>3. /\ w.keys = (IF k \in KeysOf(t) THEN s ELSE Append(s, k))
      /\ w.value = With(t.value, k, v) /\ w.key = With(t.key, v, k)
  BY <1>1 DEF Written
<1>4. /\ w.value \in [KeysOf(t) \cup {k} -> Short] /\ w.value[k] = v
      /\ \A x \in KeysOf(t) : x # k => w.value[x] = t.value[x]
  BY <1>3 DEF With, KeysOf, TableInv, IsTable
<1>5. /\ w.key \in [DOMAIN t.key \cup {v} -> K] /\ w.key[v] = k
      /\ \A x \in DOMAIN t.key : x # v => w.key[x] = t.key[x]
  BY <1>3 DEF With, TableInv, IsTable
<1>6. DOMAIN t.key \cup {v} \subseteq Short  BY DEF TableInv, IsTable
<1>7. CASE k \in KeysOf(t)
  <2>1. w.keys = s /\ KeysOf(t) \cup {k} = KeysOf(t)  BY <1>3, <1>7
  <2>3. w.value \in [KeysOf(t) -> Short]  BY <2>1, <1>4
  <2>4. PICK D : D = DOMAIN t.key \cup {v}  OBVIOUS
  <2>5. D \in SUBSET Short /\ w.key \in [D -> K]  BY <2>4, <1>5, <1>6
  <2>2. TableInv(w, K)  BY <2>1, <2>3, <2>5, <1>2, MakesTable
  <2> QED  BY <2>1, <2>2, <1>1, <1>2, <1>4, <1>5, <1>7 DEF KeysOf
<1>8. CASE k \notin KeysOf(t)
  <2>1. PICK u : u = Append(s, k)  OBVIOUS
  <2>2. /\ u \in Seq(K) /\ Len(u) = Len(s) + 1 /\ (\A i \in 1..Len(s) : u[i] = s[i]) /\ u[Len(s) + 1] = k
    BY <2>1, <1>2, AppendProperties
  <2>3. \A i \in 1..Len(u) : i \in 1..Len(s) \/ i = Len(s) + 1  BY <2>2, <1>2
  <2>4. \A i \in 1..Len(s) : i \in 1..Len(u) /\ Len(s) + 1 \in 1..Len(u)  BY <2>2, <1>2
  <2>5. Len(s) + 1 \in 1..Len(u)  BY <2>2, <1>2
  <2>6. {u[i] : i \in 1..Len(u)} = KeysOf(t) \cup {k}  BY <2>2, <2>3, <2>4, <2>5, <1>2
  <2>7. Distinct(u)  BY <2>2, <2>3, <1>2, <1>8 DEF Distinct
  <2>8. w.keys = u  BY <2>1, <1>3, <1>8
  <2>9. TableInv(w, K)  BY <2>2, <2>6, <2>7, <2>8, <1>4, <1>5, <1>6, MakesTable
  <2> QED  BY <2>2, <2>8, <2>9, <1>1, <1>2, <1>4, <1>5, <1>8 DEF KeysOf
<1> QED  BY <1>7, <1>8

\* The oldest entry goes: what the shorter table has of the longer.
Shorter(t, u, o) ==
  /\ o \in KeysOf(t) /\ KeysOf(u) = KeysOf(t) \ {o}
  /\ \A x \in KeysOf(u) : u.value[x] = t.value[x]
  /\ DOMAIN u.key = DOMAIN t.key \ {t.value[o]}
  /\ \A s \in DOMAIN u.key : u.key[s] = t.key[s]
  /\ Len(t.keys) \in Nat \ {0} /\ Len(u.keys) = Len(t.keys) - 1
  /\ \A i \in 1..Len(u.keys) : u.keys[i] = t.keys[i + 1] /\ i + 1 \in 1..Len(t.keys)

\* The oldest entry goes.
LEMMA ShorterTable ==
  ASSUME NEW K, NEW t, TableInv(t, K), t.keys # <<>>, NEW u, u = WithoutOldest(t), NEW o, o = t.keys[1]
  PROVE  TableInv(u, K) /\ Shorter(t, u, o)
<1>1. PICK s, z : s = t.keys /\ z = Tail(s)  OBVIOUS
<1>2. s \in Seq(K) /\ KeysOf(t) = {s[i] : i \in 1..Len(s)} /\ Distinct(s) /\ s # <<>>
  BY <1>1 DEF TableInv, IsTable, KeysOf
<1>3. /\ z \in Seq(K) /\ Len(z) = Len(s) - 1 /\ Len(s) \in Nat \ {0} /\ Head(s) = s[1]
      /\ \A i \in 1..Len(z) : z[i] = s[i + 1] /\ i + 1 \in 1..Len(s)
  BY <1>1, <1>2, OneGone
<1>4. 1 \in 1..Len(s) /\ o \in KeysOf(t) /\ o = Head(s)  BY <1>1, <1>2, <1>3
<1>5. u.keys = z /\ u.value = Forget(t.value, o) /\ u.key = Forget(t.key, t.value[o])
  BY <1>1, <1>4 DEF WithoutOldest
<1>6. u.value \in [KeysOf(t) \ {o} -> Short] /\ \A x \in KeysOf(t) \ {o} : u.value[x] = t.value[x]
  BY <1>5 DEF Forget, KeysOf, TableInv, IsTable
<1>7. u.key \in [DOMAIN t.key \ {t.value[o]} -> K] /\ \A x \in DOMAIN t.key \ {t.value[o]} : u.key[x] = t.key[x]
  BY <1>5 DEF Forget, TableInv, IsTable
<1>8. \A i \in 1..Len(s) : i = 1 \/ (i - 1 \in 1..Len(z) /\ z[i - 1] = s[i])
  <2> SUFFICES ASSUME NEW i \in 1..Len(s), i # 1 PROVE i - 1 \in 1..Len(z) /\ z[i - 1] = s[i]
    OBVIOUS
  <2>1. i - 1 \in 1..Len(z) /\ (i - 1) + 1 = i  BY <1>3
  <2> QED  BY <2>1, <1>3
<1>9. \A i \in 1..Len(z) : z[i] \in KeysOf(t) \ {o}
  <2>1. \A i \in 1..Len(z) : i + 1 # 1  BY <1>3
  <2> QED  BY <2>1, <1>1, <1>2, <1>3, <1>4 DEF Distinct
<1>10. {z[i] : i \in 1..Len(z)} = KeysOf(t) \ {o}
  <2>1. ASSUME NEW x \in KeysOf(t) \ {o} PROVE \E i \in 1..Len(z) : z[i] = x
    <3>1. PICK i \in 1..Len(s) : s[i] = x  BY <2>1, <1>2
    <3>2. i # 1  BY <3>1, <2>1, <1>1
    <3> QED  BY <3>1, <3>2, <1>8
  <2> QED  BY <2>1, <1>9
<1>11. Distinct(z)
  <2>1. \A i, j \in 1..Len(z) : i + 1 = j + 1 => i = j  BY <1>3
  <2> QED  BY <2>1, <1>2, <1>3 DEF Distinct
<1>12. DOMAIN t.key \ {t.value[o]} \subseteq Short  BY DEF TableInv, IsTable
<1>13. TableInv(u, K)
  BY ZenonT(60), <1>3, <1>5, <1>6, <1>7, <1>10, <1>11, <1>12, MakesTable
<1>14. KeysOf(u) = KeysOf(t) \ {o}  BY <1>5, <1>6 DEF KeysOf
<1> QED  BY <1>1, <1>3, <1>4, <1>5, <1>6, <1>7, <1>13, <1>14 DEF Shorter

\* What putting an entry makes of a table.
LEMMA PutCases ==
  ASSUME NEW K, NEW t, TableInv(t, K), Len(t.keys) <= MaxSize, NEW k \in K, NEW v \in Short,
         NEW w, w = Written(t, k, v), NEW u, u = Put(t, k, v)
  PROVE  /\ TableInv(u, K) /\ Len(u.keys) <= MaxSize
         /\ \/ u = Empty /\ Cardinality(DOMAIN w.value) # Cardinality(DOMAIN w.key)
            \/ u = w /\ Cardinality(DOMAIN w.value) = Cardinality(DOMAIN w.key)
            \/ /\ u = WithoutOldest(w) /\ Cardinality(DOMAIN w.value) = Cardinality(DOMAIN w.key)
               /\ Len(w.keys) > MaxSize /\ w.keys # <<>>
<1>1. TableInv(w, K) /\ Len(w.keys) \in Nat /\ Len(w.keys) <= MaxSize + 1
  <2>1. Len(t.keys) \in Nat /\ TableInv(w, K)  BY WrittenTable
  <2>2. k \in KeysOf(t) => w.keys = t.keys  BY WrittenTable
  <2>3. k \notin KeysOf(t) => Len(w.keys) = Len(t.keys) + 1  BY WrittenTable
  <2> QED  BY <2>1, <2>2, <2>3, MessageIdsAssumption
<1>2. CASE Cardinality(DOMAIN w.value) # Cardinality(DOMAIN w.key)
  <2>1. u = Empty  BY <1>2 DEF Put, Repaired
  <2>2. TableInv(Empty, K) /\ Len(Empty.keys) = 0  BY EmptyTable
  <2> QED  BY <2>1, <2>2, <1>2, MessageIdsAssumption
<1>3. CASE Cardinality(DOMAIN w.value) = Cardinality(DOMAIN w.key) /\ ~(Len(w.keys) > MaxSize)
  <2>1. u = w  BY <1>3 DEF Put, Repaired, Trimmed
  <2> QED  BY <2>1, <1>1, <1>3, MessageIdsAssumption
<1>4. CASE Cardinality(DOMAIN w.value) = Cardinality(DOMAIN w.key) /\ Len(w.keys) > MaxSize
  <2>1. u = WithoutOldest(w)  BY <1>4 DEF Put, Repaired, Trimmed
  <2>2. w.keys # <<>>  BY <1>4, MessageIdsAssumption
  <2>3. TableInv(u, K) /\ Len(u.keys) = Len(w.keys) - 1  BY SMTT(60), <2>1, <2>2, <1>1, ShorterTable DEF Shorter
  <2> QED  BY <2>1, <2>2, <2>3, <1>1, <1>4, MessageIdsAssumption
<1> QED  BY <1>2, <1>3, <1>4

-----------------------------------------------------------------------------
(* The two tables and the messages that were given an id *)

\* A kernel id has the short id of its last message.
IdsHome(t, c) ==
  \A k \in KeysOf(t) : \E i \in 1..Len(c) :
    c[i][1] = k /\ t.value[k] = Hash[c[i]] /\ \A j \in (i + 1)..Len(c) : c[j][1] # k

\* A message has its hash, and a hash leads to the last message that has it.
Hashes(t) ==
  /\ \A m \in KeysOf(t) : t.value[m] = Hash[m] /\ Hash[m] \in DOMAIN t.key
  /\ \A s \in DOMAIN t.key : t.key[s] \in KeysOf(t) /\ Hash[t.key[s]] = s
LeadsToLast(t, c) ==
  \A s \in DOMAIN t.key : \E i \in 1..Len(c) :
    c[i] = t.key[s] /\ \A j \in (i + 1)..Len(c) : Hash[c[j]] = s => c[j] = t.key[s]

\* The keys are in the order in which their messages were created.
InOrder(t, c) ==
  /\ \A p \in 1..Len(t.keys) : \E i \in 1..Len(c) : c[i] = t.keys[p]
  /\ \A p, q \in 1..Len(t.keys) : p < q =>
       \E i, j \in 1..Len(c) : i < j /\ c[i] = t.keys[p] /\ c[j] = t.keys[q]

\* Messages that have an id already; the first time one was given it.
NoClash(c) == \A i, j \in 1..Len(c) : Hash[c[i]] = Hash[c[j]] => c[i] = c[j]
FirstTime(i, c) == i \in 1..Len(c) /\ \A j \in 1..Len(c) : c[j] = c[i] => i <= j
After(i, c) == {c[j] : j \in (i + 1)..Len(c)}
GoneForNewer(t, c) ==
  NoClash(c) => \A i \in 1..Len(c) : FirstTime(i, c) /\ c[i] \notin KeysOf(t) => Cardinality(After(i, c)) >= MaxSize

IdsInv ==
  /\ TableInv(msgIdMap, MsgId) /\ Len(msgIdMap.keys) <= MaxSize
  /\ TableInv(msgDataMap, KernelMessage) /\ Len(msgDataMap.keys) <= MaxSize
  /\ created \in Seq(KernelMessage)
  /\ IdsHome(msgIdMap, created) /\ Hashes(msgDataMap) /\ LeadsToLast(msgDataMap, created)
  /\ InOrder(msgDataMap, created) /\ GoneForNewer(msgDataMap, created)

\* There are finitely many messages after one.
LEMMA AfterFinite ==
  ASSUME NEW c \in Seq(KernelMessage), NEW i \in 1..Len(c)
  PROVE  IsFiniteSet(After(i, c)) /\ Cardinality(After(i, c)) \in Nat
<1>1. PICK n \in Nat : n = Len(c)  BY LenProperties
<1>2. i + 1 \in Int /\ n \in Int  BY <1>1
<1>3. IsFiniteSet((i + 1)..n)  BY <1>2, FS_Interval
<1>4. PICK I, A : I = (i + 1)..n /\ A = {c[j] : j \in I}  OBVIOUS
<1>5. PICK h : h = [j \in I |-> c[j]]  OBVIOUS
<1>6. h \in Surjection(I, A)  BY <1>4, <1>5 DEF Surjection
<1>7. IsFiniteSet(A)  BY <1>3, <1>4, <1>6, FS_Surjection
<1> QED  BY <1>1, <1>4, <1>7, FS_CardinalityType DEF After

\* One message more.
LEMMA CreatedMore ==
  ASSUME NEW c \in Seq(KernelMessage), NEW m \in KernelMessage, NEW d, d = Append(c, m)
  PROVE  /\ d \in Seq(KernelMessage) /\ Len(d) = Len(c) + 1 /\ Len(c) \in Nat
         /\ \A i \in 1..Len(c) : d[i] = c[i] /\ c[i] \in KernelMessage /\ i \in 1..Len(d)
         /\ Len(d) \in 1..Len(d) /\ d[Len(d)] = m
         /\ \A i \in 1..Len(d) : i \in 1..Len(c) \/ i = Len(d)
         /\ \A i \in 1..Len(c) : \A j \in (i + 1)..Len(d) : j \in (i + 1)..Len(c) \/ j = Len(d)
         /\ \A i \in 1..Len(c) : \A j \in (i + 1)..Len(c) : j \in 1..Len(c)
<1>1. /\ d \in Seq(KernelMessage) /\ Len(d) = Len(c) + 1 /\ Len(c) \in Nat
      /\ (\A i \in 1..Len(c) : d[i] = c[i] /\ c[i] \in KernelMessage) /\ d[Len(c) + 1] = m
  BY OneMore
<1> QED  BY <1>1

\* A set of naturals that is not empty has a least element.
LEMMA Least ==
  ASSUME NEW T, T \subseteq Nat, T # {}
  PROVE  \E x \in T : \A y \in T : x <= y
<1>1. PICK R : IsWellFoundedOn(R, Nat) /\ \A x, y \in Nat : <<y, x>> \in R <=> y < x
  <2>1. IsWellFoundedOn(OpToRel(<, Nat), Nat)  BY NatLessThanWellFounded
  <2>2. \A x, y \in Nat : <<y, x>> \in OpToRel(<, Nat) <=> y < x  BY DEF OpToRel
  <2> QED  BY <2>1, <2>2
<1>2. PICK x \in T : \A y \in T : <<y, x>> \notin R
  BY <1>1, WFMin
<1>3. ASSUME NEW y \in T PROVE x <= y
  <2>1. x \in Nat /\ y \in Nat  OBVIOUS
  <2>2. ~(y < x)  BY <2>1, <1>1, <1>2
  <2> QED  BY <2>1, <2>2
<1> QED  BY <1>3

\* Every message has a first time.
LEMMA HasFirst ==
  ASSUME NEW c \in Seq(KernelMessage), NEW i \in 1..Len(c)
  PROVE  \E f \in 1..Len(c) : c[f] = c[i] /\ FirstTime(f, c) /\ f <= i
<1>1. PICK n \in Nat : n = Len(c)  BY LenProperties
<1>2. PICK T : T = {j \in 1..n : c[j] = c[i]}  OBVIOUS
<1>3. T \in SUBSET Nat /\ T # {} /\ i \in T  BY <1>1, <1>2
<1>4. PICK f \in T : \A y \in T : f <= y  BY <1>3, Least
<1> QED  BY <1>1, <1>2, <1>3, <1>4 DEF FirstTime

\* The kernel id of a message.
IdOf(m) == m[1]

\* An entry is put in the table of kernel ids.
LEMMA HomeKept ==
  ASSUME NEW c \in Seq(KernelMessage), NEW m \in KernelMessage, NEW d, d = Append(c, m),
         NEW t, TableInv(t, MsgId), Len(t.keys) <= MaxSize, IdsHome(t, c),
         NEW u, u = Put(t, IdOf(m), Hash[m])
  PROVE  TableInv(u, MsgId) /\ Len(u.keys) <= MaxSize /\ IdsHome(u, d)
<1>1. PICK k, v, w : k = IdOf(m) /\ k = m[1] /\ v = Hash[m] /\ w = Written(t, k, v)  BY DEF IdOf
<1>2. k \in MsgId /\ v \in Short  BY <1>1, MessageIdsAssumption DEF KernelMessage
<1>3. PICK n \in Nat : n = Len(c)  BY LenProperties
<1>4. /\ Len(d) = n + 1 /\ (\A i \in 1..n : d[i] = c[i]) /\ d[n + 1] = m
  BY <1>3, CreatedMore
<1>5. TableInv(w, MsgId) /\ KeysOf(w) = KeysOf(t) \cup {k} /\ w.value[k] = v
      /\ \A x \in KeysOf(t) : x # k => w.value[x] = t.value[x]
  BY <1>1, <1>2, WrittenTable
<1>6. IdsHome(w, d)
  <2> SUFFICES ASSUME NEW x \in KeysOf(w)
               PROVE  \E i \in 1..Len(d) : d[i][1] = x /\ w.value[x] = Hash[d[i]] /\ \A j \in (i + 1)..Len(d) : d[j][1] # x
    BY DEF IdsHome
  <2>1. CASE x = k
    <3>1. n + 1 \in 1..Len(d) /\ \A j \in ((n + 1) + 1)..Len(d) : FALSE  BY <1>4
    <3> QED  BY <3>1, <2>1, <1>1, <1>4, <1>5
  <2>2. CASE x # k
    <3>1. x \in KeysOf(t) /\ w.value[x] = t.value[x]  BY <2>2, <1>5
    <3>2. PICK i \in 1..n : c[i][1] = x /\ t.value[x] = Hash[c[i]] /\ \A j \in (i + 1)..n : c[j][1] # x
      BY <3>1, <1>3 DEF IdsHome
    <3>3. i \in 1..Len(d) /\ d[i] = c[i]  BY <1>4
    <3>4. ASSUME NEW j \in (i + 1)..Len(d) PROVE d[j][1] # x
      <4>1. CASE j = n + 1  BY <4>1, <2>2, <1>1, <1>4
      <4>2. CASE j # n + 1
        <5>1. j \in (i + 1)..n /\ j \in 1..n  BY <4>2, <1>4
        <5> QED  BY <5>1, <3>2, <1>4
      <4> QED  BY <4>1, <4>2
    <3> QED  BY <3>1, <3>2, <3>3, <3>4
  <2> QED  BY <2>1, <2>2
<1>7. TableInv(u, MsgId) /\ Len(u.keys) <= MaxSize /\ (u = Empty \/ u = w \/ (u = WithoutOldest(w) /\ w.keys # <<>>))
  BY <1>1, <1>2, PutCases
<1>8. IdsHome(u, d)
  <2>1. CASE u = Empty  BY <2>1, EmptyTable DEF IdsHome
  <2>2. CASE u = w  BY <2>2, <1>6
  <2>3. CASE u = WithoutOldest(w) /\ w.keys # <<>>
    <3>1. PICK o : o = w.keys[1]  OBVIOUS
    <3>2. Shorter(w, u, o)  BY <3>1, <2>3, <1>5, ShorterTable
    <3>3. \A x \in KeysOf(u) : x \in KeysOf(w) /\ u.value[x] = w.value[x]  BY <3>2 DEF Shorter
    <3> QED  BY <3>3, <1>6 DEF IdsHome
  <2> QED  BY <2>1, <2>2, <2>3, <1>7
<1> QED  BY <1>7, <1>8

\* An entry is written to the table of messages.
LEMMA DataWritten ==
  ASSUME NEW c \in Seq(KernelMessage), NEW m \in KernelMessage, NEW d, d = Append(c, m),
         NEW t, TableInv(t, KernelMessage), Hashes(t), LeadsToLast(t, c), InOrder(t, c),
         NEW w, w = Written(t, m, Hash[m])
  PROVE  Hashes(w) /\ LeadsToLast(w, d) /\ InOrder(w, d)
<1>1. PICK v \in Short : v = Hash[m]  BY MessageIdsAssumption
<1>2. PICK n \in Nat : n = Len(c)  BY LenProperties
<1>3. /\ Len(d) = n + 1 /\ (\A i \in 1..n : d[i] = c[i]) /\ d[n + 1] = m
  BY <1>2, CreatedMore
<1>4. /\ KeysOf(w) = KeysOf(t) \cup {m} /\ w.value[m] = v
      /\ \A x \in KeysOf(t) : x # m => w.value[x] = t.value[x]
      /\ DOMAIN w.key = DOMAIN t.key \cup {v} /\ w.key[v] = m
      /\ \A s \in DOMAIN t.key : s # v => w.key[s] = t.key[s]
  BY <1>1, WrittenTable
<1>5. Hashes(w)  BY <1>1, <1>4 DEF Hashes
<1>6. LeadsToLast(w, d)
  <2> SUFFICES ASSUME NEW s \in DOMAIN w.key
               PROVE  \E i \in 1..Len(d) : d[i] = w.key[s] /\ \A j \in (i + 1)..Len(d) : Hash[d[j]] = s => d[j] = w.key[s]
    BY DEF LeadsToLast
  <2>1. CASE s = v
    <3>1. n + 1 \in 1..Len(d) /\ \A j \in ((n + 1) + 1)..Len(d) : FALSE  BY <1>3
    <3> QED  BY <3>1, <2>1, <1>3, <1>4
  <2>2. CASE s # v
    <3>1. s \in DOMAIN t.key /\ w.key[s] = t.key[s]  BY <2>2, <1>4
    <3>2. PICK i \in 1..n : c[i] = t.key[s] /\ \A j \in (i + 1)..n : Hash[c[j]] = s => c[j] = t.key[s]
      BY <3>1, <1>2 DEF LeadsToLast
    <3>3. i \in 1..Len(d) /\ d[i] = c[i]  BY <1>3
    <3>4. ASSUME NEW j \in (i + 1)..Len(d), Hash[d[j]] = s PROVE d[j] = t.key[s]
      <4>1. j # n + 1  BY <3>4, <2>2, <1>1, <1>3
      <4>2. j \in (i + 1)..n /\ j \in 1..n  BY <4>1, <1>3
      <4> QED  BY <4>2, <3>2, <3>4, <1>3
    <3> QED  BY <3>1, <3>2, <3>3, <3>4
  <2> QED  BY <2>1, <2>2
<1>7. /\ Len(t.keys) \in Nat /\ (\A i \in 1..Len(t.keys) : w.keys[i] = t.keys[i])
      /\ Len(w.keys) \in {Len(t.keys), Len(t.keys) + 1}
      /\ Len(w.keys) = Len(t.keys) + 1 => w.keys[Len(t.keys) + 1] = m
  <2>1. Len(t.keys) \in Nat /\ (\A i \in 1..Len(t.keys) : w.keys[i] = t.keys[i])  BY <1>1, WrittenTable
  <2>2. m \in KeysOf(t) => w.keys = t.keys  BY <1>1, WrittenTable
  <2>3. m \notin KeysOf(t) => Len(w.keys) = Len(t.keys) + 1 /\ w.keys[Len(t.keys) + 1] = m
    BY <1>1, WrittenTable
  <2> QED  BY <2>1, <2>2, <2>3
<1>8. PICK l \in Nat : l = Len(t.keys)  BY <1>7
<1>9. \A p \in 1..l : \E i \in 1..n : d[i] = w.keys[p]
  BY <1>2, <1>3, <1>7, <1>8 DEF InOrder
<1>10. \A p \in 1..Len(w.keys) : \E i \in 1..Len(d) : d[i] = w.keys[p]
  <2> SUFFICES ASSUME NEW p \in 1..Len(w.keys) PROVE \E i \in 1..Len(d) : d[i] = w.keys[p]
    OBVIOUS
  <2>1. CASE p \in 1..l
    <3>1. PICK i \in 1..n : d[i] = w.keys[p]  BY <2>1, <1>9
    <3>2. i \in 1..Len(d)  BY <1>3
    <3> QED  BY <3>1, <3>2
  <2>2. CASE p \notin 1..l
    <3>1. p = l + 1 /\ Len(w.keys) = l + 1  BY <2>2, <1>7, <1>8
    <3>2. n + 1 \in 1..Len(d)  BY <1>3
    <3> QED  BY <3>1, <3>2, <1>3, <1>7, <1>8
  <2> QED  BY <2>1, <2>2
<1>11. ASSUME NEW p \in 1..Len(w.keys), NEW q \in 1..Len(w.keys), p < q
       PROVE  \E i, j \in 1..Len(d) : i < j /\ d[i] = w.keys[p] /\ d[j] = w.keys[q]
  <2>1. p \in 1..l  BY <1>7, <1>8, <1>11
  <2>2. CASE q \in 1..l
    <3>1. PICK i \in 1..n, j \in 1..n : i < j /\ c[i] = t.keys[p] /\ c[j] = t.keys[q]
      BY <2>1, <2>2, <1>2, <1>8, <1>11 DEF InOrder
    <3>2. i \in 1..Len(d) /\ j \in 1..Len(d)  BY <1>3
    <3>3. d[i] = w.keys[p] /\ d[j] = w.keys[q]  BY <3>1, <2>1, <2>2, <1>3, <1>7, <1>8
    <3> QED  BY <3>1, <3>2, <3>3
  <2>3. CASE q \notin 1..l
    <3>1. q = l + 1 /\ Len(w.keys) = l + 1  BY <2>3, <1>7, <1>8
    <3>2. PICK i \in 1..n : d[i] = w.keys[p]  BY <2>1, <1>9
    <3>3. i \in 1..Len(d) /\ n + 1 \in 1..Len(d) /\ i < n + 1  BY <1>3
    <3>4. d[n + 1] = w.keys[q]  BY <3>1, <1>3, <1>7, <1>8
    <3> QED  BY <3>2, <3>3, <3>4
  <2> QED  BY <2>2, <2>3
<1>12. InOrder(w, d)  BY <1>10, <1>11 DEF InOrder
<1> QED  BY <1>5, <1>6, <1>12

\* A table has as many keys as it lists.
LEMMA KeysCounted ==
  ASSUME NEW K, NEW t, TableInv(t, K)
  PROVE  IsFiniteSet(KeysOf(t)) /\ Cardinality(KeysOf(t)) = Len(t.keys) /\ Len(t.keys) \in Nat
<1>1. PICK s \in Seq(K) : s = t.keys  BY DEF TableInv, IsTable
<1>2. PICK l \in Nat : l = Len(s)  BY LenProperties
<1>3. KeysOf(t) = {s[i] : i \in 1..l} /\ \A i, j \in 1..l : s[i] = s[j] => i = j
  BY <1>1, <1>2 DEF TableInv, IsTable, KeysOf, Distinct
<1>4. PICK h : h = [i \in 1..l |-> s[i]]  OBVIOUS
<1>5. PICK k : k = KeysOf(t)  OBVIOUS
<1>6. h \in [1..l -> k]  BY <1>3, <1>4, <1>5
<1>9. \A x \in k : \E i \in 1..l : h[i] = x  BY <1>3, <1>4, <1>5
<1>10. \A i, j \in 1..l : h[i] = h[j] => i = j  BY <1>3, <1>4
<1>11. h \in Surjection(1..l, k)  BY <1>6, <1>9 DEF Surjection
<1>12. h \in Injection(1..l, k)  BY <1>6, <1>10 DEF Injection, IsInjective
<1>13. PICK I : I = 1..l  OBVIOUS
<1>14. IsFiniteSet(I) /\ Cardinality(I) = l
  <2>1. l \in Int /\ 1 \in Int /\ ~(1 > l) <=> l >= 1  BY <1>2
  <2>2. Cardinality(1..l) = IF 1 > l THEN 0 ELSE l - 1 + 1  BY <2>1, FS_Interval
  <2>3. IsFiniteSet(1..l)  BY <1>2, FS_Interval
  <2> QED  BY <2>2, <2>3, <1>2, <1>13
<1>8. IsFiniteSet(k) /\ Cardinality(k) = l
  BY <1>11, <1>12, <1>13, <1>14, FS_Surjection
<1> QED  BY <1>1, <1>2, <1>5, <1>8

\* The hash leads from the keys to everything the other map leads from.
LEMMA HashOnto ==
  ASSUME NEW t, TableInv(t, KernelMessage), Hashes(t), NEW h, h = [x \in KeysOf(t) |-> Hash[x]]
  PROVE  h \in Surjection(KeysOf(t), DOMAIN t.key)
<1>1. h \in [KeysOf(t) -> DOMAIN t.key]  BY DEF Hashes
<1>2. \A s \in DOMAIN t.key : \E x \in KeysOf(t) : h[x] = s  BY DEF Hashes
<1> QED  BY <1>1, <1>2 DEF Surjection

\* Where the two maps are of one size no two keys have one hash, and where
\* no two keys have one hash they are of one size.
LEMMA OneSizeNoClash ==
  ASSUME NEW t, TableInv(t, KernelMessage), Hashes(t)
  PROVE  Cardinality(DOMAIN t.value) = Cardinality(DOMAIN t.key) <=>
           \A x, y \in KeysOf(t) : Hash[x] = Hash[y] => x = y
<1>1. PICK h : h = [x \in KeysOf(t) |-> Hash[x]]  OBVIOUS
<1>2. h \in Surjection(KeysOf(t), DOMAIN t.key)  BY <1>1, HashOnto
<1>3. IsFiniteSet(KeysOf(t))  BY KeysCounted
<1>4. Cardinality(DOMAIN t.key) = Cardinality(KeysOf(t)) <=> h \in Injection(KeysOf(t), DOMAIN t.key)
  BY <1>2, <1>3, FS_Surjection
<1>5. h \in [KeysOf(t) -> DOMAIN t.key]  BY <1>2 DEF Surjection
<1>6. h \in Injection(KeysOf(t), DOMAIN t.key) <=> \A x, y \in KeysOf(t) : Hash[x] = Hash[y] => x = y
  <2>1. \A x, y \in KeysOf(t) : h[x] = Hash[x] /\ h[y] = Hash[y]  BY <1>1
  <2>2. h \in Injection(KeysOf(t), DOMAIN t.key) <=> \A x, y \in KeysOf(t) : h[x] = h[y] => x = y
    BY <1>5 DEF Injection, IsInjective
  <2> QED  BY <2>1, <2>2
<1> QED  BY <1>4, <1>6 DEF KeysOf

\* The oldest entry of the table of messages goes.
LEMMA DataShortened ==
  ASSUME NEW d, NEW w, TableInv(w, KernelMessage), Hashes(w), LeadsToLast(w, d), InOrder(w, d), w.keys # <<>>,
         Cardinality(DOMAIN w.value) = Cardinality(DOMAIN w.key), NEW u, u = WithoutOldest(w)
  PROVE  Hashes(u) /\ LeadsToLast(u, d) /\ InOrder(u, d)
<1>1. PICK o : o = w.keys[1]  OBVIOUS
<1>0. Shorter(w, u, o)  BY <1>1, ShorterTable
<1>2. /\ o \in KeysOf(w) /\ KeysOf(u) = KeysOf(w) \ {o}
      /\ \A x \in KeysOf(u) : u.value[x] = w.value[x]
      /\ DOMAIN u.key = DOMAIN w.key \ {w.value[o]}
      /\ \A s \in DOMAIN u.key : u.key[s] = w.key[s]
  BY <1>0 DEF Shorter
<1>3. /\ Len(w.keys) \in Nat \ {0} /\ Len(u.keys) = Len(w.keys) - 1
      /\ \A i \in 1..Len(u.keys) : u.keys[i] = w.keys[i + 1] /\ i + 1 \in 1..Len(w.keys)
  BY <1>0 DEF Shorter
<1>4. \A x, y \in KeysOf(w) : Hash[x] = Hash[y] => x = y  BY OneSizeNoClash
<1>5. w.value[o] = Hash[o]  BY <1>2 DEF Hashes
<1>6. Hashes(u)
  <2>1. ASSUME NEW x \in KeysOf(u) PROVE u.value[x] = Hash[x] /\ Hash[x] \in DOMAIN u.key
    <3>1. x \in KeysOf(w) /\ x # o /\ u.value[x] = w.value[x]  BY <1>2
    <3>2. w.value[x] = Hash[x] /\ Hash[x] \in DOMAIN w.key  BY <3>1 DEF Hashes
    <3>3. Hash[x] # Hash[o]  BY <3>1, <1>2, <1>4
    <3> QED  BY <3>1, <3>2, <3>3, <1>2, <1>5
  <2>2. ASSUME NEW s \in DOMAIN u.key PROVE u.key[s] \in KeysOf(u) /\ Hash[u.key[s]] = s
    <3>1. s \in DOMAIN w.key /\ s # Hash[o] /\ u.key[s] = w.key[s]  BY <1>2, <1>5
    <3>2. w.key[s] \in KeysOf(w) /\ Hash[w.key[s]] = s  BY <3>1 DEF Hashes
    <3> QED  BY <3>1, <3>2, <1>2
  <2> QED  BY <2>1, <2>2 DEF Hashes
<1>7. LeadsToLast(u, d)
  <2>1. \A s \in DOMAIN u.key : s \in DOMAIN w.key /\ u.key[s] = w.key[s]  BY <1>2
  <2> QED  BY <2>1 DEF LeadsToLast
<1>8. InOrder(u, d)
  <2>1. \A q \in 1..Len(u.keys) : \E i \in 1..Len(d) : d[i] = u.keys[q]  BY <1>3 DEF InOrder
  <2>2. ASSUME NEW q \in 1..Len(u.keys), NEW r \in 1..Len(u.keys), q < r
        PROVE  \E i, j \in 1..Len(d) : i < j /\ d[i] = u.keys[q] /\ d[j] = u.keys[r]
    <3>1. q + 1 \in 1..Len(w.keys) /\ r + 1 \in 1..Len(w.keys)  BY <1>3
    <3>2. q + 1 < r + 1  BY <2>2, <1>3
    <3>3. u.keys[q] = w.keys[q + 1] /\ u.keys[r] = w.keys[r + 1]  BY <1>3
    <3>4. \E i, j \in 1..Len(d) : i < j /\ d[i] = w.keys[q + 1] /\ d[j] = w.keys[r + 1]
      BY <3>1, <3>2 DEF InOrder
    <3> QED  BY <3>3, <3>4
  <2> QED  BY <2>1, <2>2 DEF InOrder
<1> QED  BY <1>6, <1>7, <1>8

\* An entry is put in the table of messages.
LEMMA DataKept ==
  ASSUME NEW c \in Seq(KernelMessage), NEW m \in KernelMessage, NEW d, d = Append(c, m),
         NEW t, TableInv(t, KernelMessage), Len(t.keys) <= MaxSize, Hashes(t), LeadsToLast(t, c), InOrder(t, c),
         NEW u, u = Put(t, m, Hash[m])
  PROVE  /\ TableInv(u, KernelMessage) /\ Len(u.keys) <= MaxSize
         /\ Hashes(u) /\ LeadsToLast(u, d) /\ InOrder(u, d)
<1>1. PICK v \in Short : v = Hash[m]  BY MessageIdsAssumption
<1>2. PICK w : w = Written(t, m, v)  OBVIOUS
<1>3. TableInv(w, KernelMessage)  BY <1>2, WrittenTable
<1>4. Hashes(w) /\ LeadsToLast(w, d) /\ InOrder(w, d)  BY <1>1, <1>2, DataWritten
<1>5. /\ TableInv(u, KernelMessage) /\ Len(u.keys) <= MaxSize
      /\ \/ u = Empty
         \/ u = w
         \/ u = WithoutOldest(w) /\ Cardinality(DOMAIN w.value) = Cardinality(DOMAIN w.key) /\ w.keys # <<>>
  BY <1>1, <1>2, PutCases
<1>6. CASE u = Empty
  <2>1. KeysOf(u) = {} /\ DOMAIN u.key = {} /\ Len(u.keys) = 0  BY <1>6, EmptyTable
  <2>2. Hashes(u) /\ LeadsToLast(u, d)  BY <2>1 DEF Hashes, LeadsToLast
  <2>3. InOrder(u, d)  BY <2>1 DEF InOrder
  <2> QED  BY <2>2, <2>3, <1>5
<1>7. CASE u = w  BY <1>7, <1>4, <1>5
<1>8. CASE u = WithoutOldest(w) /\ Cardinality(DOMAIN w.value) = Cardinality(DOMAIN w.key) /\ w.keys # <<>>
  <2>1. Hashes(u) /\ LeadsToLast(u, d) /\ InOrder(u, d)  BY <1>8, <1>3, <1>4, DataShortened
  <2> QED  BY <2>1, <1>5
<1> QED  BY <1>5, <1>6, <1>7, <1>8

\* Without clashes no two keys have one hash.
LEMMA KeysApart ==
  ASSUME NEW d \in Seq(KernelMessage), NEW t, TableInv(t, KernelMessage), InOrder(t, d), NoClash(d)
  PROVE  \A x, y \in KeysOf(t) : Hash[x] = Hash[y] => x = y
<1>1. KeysOf(t) = {t.keys[i] : i \in 1..Len(t.keys)}  BY DEF TableInv, IsTable, KeysOf
<1>2. ASSUME NEW x \in KeysOf(t) PROVE \E i \in 1..Len(d) : d[i] = x
  <2>1. PICK j \in 1..Len(t.keys) : t.keys[j] = x  BY <1>1
  <2>2. \E i \in 1..Len(d) : d[i] = t.keys[j]  BY DEF InOrder
  <2> QED  BY <2>1, <2>2
<1> QED  BY <1>2 DEF NoClash

\* What is gone stays gone for as many newer ones.
LEMMA StillGone ==
  ASSUME NEW c \in Seq(KernelMessage), NEW m \in KernelMessage, NEW d, d = Append(c, m),
         NEW t, GoneForNewer(t, c), NoClash(c),
         NEW i \in 1..Len(d), FirstTime(i, d), d[i] \notin KeysOf(t), d[i] # m
  PROVE  Cardinality(After(i, d)) >= MaxSize
<1>1. PICK n \in Nat : n = Len(c)  BY LenProperties
<1>2. /\ Len(d) = n + 1 /\ (\A j \in 1..n : d[j] = c[j]) /\ d[n + 1] = m /\ d \in Seq(KernelMessage)
  BY <1>1, CreatedMore
<1>3. i \in 1..n /\ d[i] = c[i]  BY <1>1, <1>2
<1>4. FirstTime(i, c)
  <2>1. \A j \in 1..n : j \in 1..Len(d) /\ d[j] = c[j]  BY <1>2
  <2>2. \A j \in 1..n : c[j] = c[i] => i <= j  BY <2>1, <1>3 DEF FirstTime
  <2> QED  BY <2>2, <1>1, <1>3 DEF FirstTime
<1>5. Cardinality(After(i, c)) >= MaxSize  BY <1>1, <1>3, <1>4 DEF GoneForNewer
<1>6. After(i, c) \subseteq After(i, d)
  <2>1. ASSUME NEW j \in (i + 1)..n PROVE j \in (i + 1)..Len(d) /\ d[j] = c[j]
    <3>1. j \in 1..n /\ j \in (i + 1)..Len(d)  BY <1>2, <1>3
    <3> QED  BY <3>1, <1>2
  <2> QED  BY <2>1, <1>1 DEF After
<1>7. IsFiniteSet(After(i, d)) /\ Cardinality(After(i, d)) \in Nat  BY <1>2, AfterFinite
<1>8. IsFiniteSet(After(i, c)) /\ Cardinality(After(i, c)) \in Nat  BY <1>1, <1>3, AfterFinite
<1>9. Cardinality(After(i, c)) <= Cardinality(After(i, d))  BY <1>6, <1>7, FS_Subset
<1> QED  BY <1>5, <1>7, <1>8, <1>9, MessageIdsAssumption

\* The oldest goes for all the others, which were created after it.
LEMMA OldestGone ==
  ASSUME NEW d \in Seq(KernelMessage), NEW w, TableInv(w, KernelMessage), InOrder(w, d), Len(w.keys) > MaxSize,
         NEW u, TableInv(u, KernelMessage), NEW o, o = w.keys[1], Shorter(w, u, o),
         NEW i \in 1..Len(d), FirstTime(i, d), d[i] = o
  PROVE  Cardinality(After(i, d)) >= MaxSize
<1>1. /\ Len(w.keys) \in Nat \ {0} /\ Len(u.keys) = Len(w.keys) - 1
      /\ \A j \in 1..Len(u.keys) : u.keys[j] = w.keys[j + 1] /\ j + 1 \in 1..Len(w.keys)
  BY DEF Shorter
<1>2. IsFiniteSet(KeysOf(u)) /\ Cardinality(KeysOf(u)) = Len(u.keys)  BY KeysCounted
<1>3. KeysOf(u) \subseteq After(i, d)
  <2> SUFFICES ASSUME NEW x \in KeysOf(u) PROVE x \in After(i, d)
    OBVIOUS
  <2>1. PICK j \in 1..Len(u.keys) : u.keys[j] = x  BY DEF TableInv, IsTable, KeysOf
  <2>2. w.keys[j + 1] = x /\ j + 1 \in 1..Len(w.keys) /\ 1 \in 1..Len(w.keys) /\ 1 < j + 1
    BY <2>1, <1>1
  <2>3. PICK a, b \in 1..Len(d) : a < b /\ d[a] = w.keys[1] /\ d[b] = w.keys[j + 1]
    BY <2>2 DEF InOrder
  <2>4. i <= a  BY <2>3 DEF FirstTime
  <2>5. Len(d) \in Nat  BY LenProperties
  <2>6. b \in (i + 1)..Len(d)  BY <2>3, <2>4, <2>5
  <2> QED  BY <2>2, <2>3, <2>6 DEF After
<1>4. IsFiniteSet(After(i, d)) /\ Cardinality(After(i, d)) \in Nat  BY AfterFinite
<1>5. Cardinality(KeysOf(u)) <= Cardinality(After(i, d))  BY <1>3, <1>4, FS_Subset
<1> QED  BY <1>1, <1>2, <1>4, <1>5, MessageIdsAssumption

\* Who goes, goes for newer ones.
LEMMA GoneKept ==
  ASSUME NEW c \in Seq(KernelMessage), NEW m \in KernelMessage, NEW d, d = Append(c, m),
         NEW t, TableInv(t, KernelMessage), Len(t.keys) <= MaxSize, Hashes(t), LeadsToLast(t, c), InOrder(t, c),
         GoneForNewer(t, c), NEW u, u = Put(t, m, Hash[m])
  PROVE  GoneForNewer(u, d)
<1> SUFFICES ASSUME NoClash(d), NEW i \in 1..Len(d), FirstTime(i, d), d[i] \notin KeysOf(u)
             PROVE  Cardinality(After(i, d)) >= MaxSize
  BY DEF GoneForNewer
<1>1. PICK v \in Short : v = Hash[m]  BY MessageIdsAssumption
<1>2. PICK w : w = Written(t, m, v)  OBVIOUS
<1>3. TableInv(w, KernelMessage) /\ KeysOf(w) = KeysOf(t) \cup {m}  BY <1>2, WrittenTable
<1>4. Hashes(w) /\ LeadsToLast(w, d) /\ InOrder(w, d)  BY <1>1, <1>2, DataWritten
<1>5. d \in Seq(KernelMessage) /\ \A j \in 1..Len(c) : d[j] = c[j] /\ j \in 1..Len(d)  BY CreatedMore
<1>6. NoClash(c)  BY <1>5 DEF NoClash
<1>7. Cardinality(DOMAIN w.value) = Cardinality(DOMAIN w.key)
  <2>1. \A x, y \in KeysOf(w) : Hash[x] = Hash[y] => x = y  BY <1>3, <1>4, <1>5, KeysApart
  <2> QED  BY <2>1, <1>3, <1>4, OneSizeNoClash
<1>8. TableInv(u, KernelMessage) /\ (u = w \/ (u = WithoutOldest(w) /\ Len(w.keys) > MaxSize /\ w.keys # <<>>))
  BY <1>1, <1>2, <1>7, PutCases
<1>9. CASE d[i] \notin KeysOf(w)
  <2>1. d[i] \notin KeysOf(t) /\ d[i] # m  BY <1>9, <1>3
  <2> QED  BY <2>1, <1>6, StillGone
<1>10. CASE d[i] \in KeysOf(w)
  <2>1. u = WithoutOldest(w) /\ Len(w.keys) > MaxSize /\ w.keys # <<>>  BY <1>8, <1>10
  <2>2. PICK o : o = w.keys[1]  OBVIOUS
  <2>3. Shorter(w, u, o)  BY <2>1, <2>2, <1>3, ShorterTable
  <2>4. d[i] = o  BY <2>3, <1>10 DEF Shorter
  <2> QED  BY <2>1, <2>2, <2>3, <2>4, <1>3, <1>4, <1>5, <1>8, OldestGone
<1> QED  BY <1>9, <1>10

-----------------------------------------------------------------------------
(* The invariant *)

\* The invariant holds at the start.
LEMMA IdsStart == MessageIdsInit => IdsInv
<1> SUFFICES ASSUME MessageIdsInit PROVE IdsInv
  OBVIOUS
<1>1. msgIdMap = Empty /\ msgDataMap = Empty /\ created = <<>>  BY DEF MessageIdsInit
<1>2. TableInv(Empty, MsgId) /\ Len(Empty.keys) = 0 /\ KeysOf(Empty) = {} /\ DOMAIN Empty.key = {}
  BY EmptyTable
<1>3. TableInv(Empty, KernelMessage)  BY EmptyTable
<1>4. 0 <= MaxSize /\ created \in Seq(KernelMessage) /\ Len(created) = 0
  BY <1>1, MessageIdsAssumption
<1>5. IdsHome(msgIdMap, created) /\ Hashes(msgDataMap) /\ LeadsToLast(msgDataMap, created)
  BY <1>1, <1>2 DEF IdsHome, Hashes, LeadsToLast
<1>6. InOrder(msgDataMap, created)  BY <1>1, <1>2 DEF InOrder
<1>7. GoneForNewer(msgDataMap, created)  BY <1>4 DEF GoneForNewer
<1> QED  BY <1>1, <1>2, <1>3, <1>4, <1>5, <1>6, <1>7 DEF IdsInv

\* Every step keeps it.
LEMMA IdsKeep == IdsInv /\ [MessageIdsNext]_idvars => IdsInv'
<1> SUFFICES ASSUME IdsInv, [MessageIdsNext]_idvars PROVE IdsInv'
  OBVIOUS
<1>1. CASE MessageIdsNext
  <2>1. PICK m \in KernelMessage : createUniqueMsgId(m)  BY <1>1 DEF MessageIdsNext
  <2>2. PICK a, t, c : a = msgIdMap /\ t = msgDataMap /\ c = created  OBVIOUS
  <2>3. PICK b, u, d : b = msgIdMap' /\ u = msgDataMap' /\ d = created'  OBVIOUS
  <2>4. b = Put(a, m[1], Hash[m]) /\ u = Put(t, m, Hash[m]) /\ d = Append(c, m)
    BY <2>1, <2>2, <2>3 DEF createUniqueMsgId
  <2>5. /\ TableInv(a, MsgId) /\ Len(a.keys) <= MaxSize
        /\ TableInv(t, KernelMessage) /\ Len(t.keys) <= MaxSize /\ c \in Seq(KernelMessage)
    BY <2>2 DEF IdsInv
  <2>6. IdsHome(a, c) /\ Hashes(t) /\ LeadsToLast(t, c) /\ InOrder(t, c) /\ GoneForNewer(t, c)
    BY <2>2 DEF IdsInv
  <2>7. TableInv(b, MsgId) /\ Len(b.keys) <= MaxSize /\ IdsHome(b, d)
    <3>1. b = Put(a, IdOf(m), Hash[m])  BY <2>4 DEF IdOf
    <3>2. d = Append(c, m) /\ m \in KernelMessage  BY <2>4
    <3>3. TableInv(a, MsgId) /\ Len(a.keys) <= MaxSize /\ c \in Seq(KernelMessage)  BY <2>5
    <3>4. IdsHome(a, c)  BY <2>6
    <3>5. TableInv(b, MsgId)  BY <3>1, <3>2, <3>3, <3>4, HomeKept
    <3>6. Len(b.keys) <= MaxSize  BY <3>1, <3>2, <3>3, <3>4, HomeKept
    <3>7. IdsHome(b, d)  BY <3>1, <3>2, <3>3, <3>4, HomeKept
    <3> QED  BY <3>5, <3>6, <3>7
  <2>8. /\ TableInv(u, KernelMessage) /\ Len(u.keys) <= MaxSize
        /\ Hashes(u) /\ LeadsToLast(u, d) /\ InOrder(u, d)
    BY <2>4, <2>5, <2>6, DataKept
  <2>9. GoneForNewer(u, d)  BY <2>4, <2>5, <2>6, GoneKept
  <2>10. d \in Seq(KernelMessage)  BY <2>4, <2>5, CreatedMore
  <2> QED  BY <2>3, <2>7, <2>8, <2>9, <2>10 DEF IdsInv
<1>2. CASE UNCHANGED idvars  BY <1>2 DEF IdsInv, idvars
<1> QED  BY <1>1, <1>2

-----------------------------------------------------------------------------
(* What follows from it *)

\* What a short id leads to has it, and was given it last.
LEMMA ExactIds == IdsInv => MessageIdsTypeOK /\ ShortIdsAreExact
<1> SUFFICES ASSUME IdsInv PROVE MessageIdsTypeOK /\ ShortIdsAreExact
  OBVIOUS
<1>1. MessageIdsTypeOK  BY DEF IdsInv, TableInv, MessageIdsTypeOK
<1>2. ASSUME NEW s \in DOMAIN msgDataMap.key
      PROVE  /\ MessageOf(s) \in DOMAIN msgDataMap.value /\ msgDataMap.value[MessageOf(s)] = s
             /\ \E i \in CreatedAt(MessageOf(s)) :
                  \A j \in i + 1..Len(created) : Hash[created[j]] = s => created[j] = MessageOf(s)
  <2>1. PICK x : x = msgDataMap.key[s]  OBVIOUS
  <2>2. MessageOf(s) = x  BY <2>1 DEF MessageOf
  <2>3. x \in KeysOf(msgDataMap) /\ Hash[x] = s /\ msgDataMap.value[x] = Hash[x]
    BY <2>1 DEF IdsInv, Hashes
  <2>4. PICK i \in 1..Len(created) :
          created[i] = x /\ \A j \in (i + 1)..Len(created) : Hash[created[j]] = s => created[j] = x
    BY <2>1 DEF IdsInv, LeadsToLast
  <2> QED  BY <2>2, <2>3, <2>4 DEF KeysOf, CreatedAt
<1> QED  BY <1>1, <1>2 DEF ShortIdsAreExact

\* Where no message clashes from the first on, none do.
LEMMA ClashFree == IdsInv /\ ~Clashes(1) => NoClash(created)
<1>1. SUFFICES ASSUME IdsInv, ~Clashes(1) PROVE NoClash(created)
  OBVIOUS
<1>2. PICK n : n = Len(created)  OBVIOUS
<1>3. \A j \in 1..n, g \in 1..n : ~(created[j] # created[g] /\ Hash[created[j]] = Hash[created[g]])
  BY <1>1, <1>2 DEF Clashes
<1> QED  BY <1>2, <1>3 DEF NoClash

\* Who is forgotten without a clash was forgotten for newer messages.
LEMMA ForgottenForNewer == IdsInv => ForgottenOnlyByNewer
<1> SUFFICES ASSUME IdsInv, NEW m \in KernelMessage, ~Clashes(1), ~Resolves(Hash[m]),
                    NEW i \in CreatedAt(m), \A j \in CreatedAt(m) : i <= j
             PROVE  Cardinality(NewerThan(i)) >= MaxSize
  BY DEF ForgottenOnlyByNewer
<1>1. i \in 1..Len(created) /\ created[i] = m  BY DEF CreatedAt
<1>2. FirstTime(i, created)  BY <1>1 DEF FirstTime, CreatedAt
<1>3. m \notin KeysOf(msgDataMap)  BY DEF IdsInv, Hashes, Resolves
<1>4. NoClash(created)  BY ClashFree
<1>5. NewerThan(i) = After(i, created)  BY DEF NewerThan, After
<1> QED  BY <1>1, <1>2, <1>3, <1>4, <1>5 DEF IdsInv, GoneForNewer

\* Without clashes a kernel id leads to its last message.
LEMMA HomeByIds == IdsInv => IdsLeadHome
<1> SUFFICES ASSUME IdsInv, ~Clashes(1), NEW k \in MsgId, KnowsId(k)
             PROVE  /\ MessageOfId(k)[1] = k
                    /\ \E i \in CreatedAt(MessageOfId(k)) : \A j \in i + 1..Len(created) :
                         created[j][1] = k => created[j] = MessageOfId(k)
  BY DEF IdsLeadHome
<1>1. PICK s : s = msgIdMap.value[k]  OBVIOUS
<1>2. k \in KeysOf(msgIdMap) /\ s \in DOMAIN msgDataMap.key  BY <1>1 DEF KnowsId, KeysOf, Resolves
<1>3. PICK i \in 1..Len(created) :
        created[i][1] = k /\ s = Hash[created[i]] /\ \A j \in (i + 1)..Len(created) : created[j][1] # k
  BY <1>1, <1>2 DEF IdsInv, IdsHome
<1>4. PICK x : x = msgDataMap.key[s]  OBVIOUS
<1>5. MessageOfId(k) = x  BY <1>1, <1>4 DEF MessageOfId, MessageOf
<1>6. PICK g \in 1..Len(created) : created[g] = x  BY <1>2, <1>4 DEF IdsInv, LeadsToLast
<1>7. Hash[x] = s  BY <1>2, <1>4 DEF IdsInv, Hashes
<1>8. NoClash(created)  BY ClashFree
<1>9. created[i] = x  BY <1>3, <1>6, <1>7, <1>8 DEF NoClash
<1> QED  BY <1>3, <1>5, <1>9 DEF CreatedAt

\* A short id leads to the last message that was given it, a message is
\* forgotten only by a clash or by MaxSize newer ones, and without clashes a
\* kernel id leads to its last message (createUniqueMsgId and its tables).
THEOREM ShortIdsLeadHome == MessageIdsSpec => []MessageIdsSafe
<1>1. IdsInv => MessageIdsSafe
  BY ExactIds, ForgottenForNewer, HomeByIds DEF MessageIdsSafe
<1> QED  BY <1>1, IdsStart, IdsKeep, PTL DEF MessageIdsSpec
============================================================================
