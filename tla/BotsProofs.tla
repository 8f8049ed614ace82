---------------------------- MODULE BotsProofs -----------------------------
(***************************************************************************)
(* The safety properties of the gateway session of the official bot and of *)
(* the lottery of the group bot hold of every behaviour of their           *)
(* specifications, for every value of the constants.                       *)
(***************************************************************************)
EXTENDS GatewaySession, Lottery, FiniteSetTheorems, SequenceTheorems, TLAPS

----------------------------------------------------------------------------
(* The gateway session resumes where it stopped and processes a message    *)
(* once while it is remembered, for any messages, sessions, losses and     *)
(* size of the cache.                                                      *)

NoRepeat(s) == \A i, j \in 1..Len(s) : s[i] = s[j] => i = j

-----------------------------------------------------------------------------
(* Sequences *)

\* The elements of a sequence are the values at its positions.
LEMMA Elements ==
  ASSUME NEW S, NEW s \in Seq(S)
  PROVE  /\ ToSet(s) = {s[i] : i \in 1..Len(s)}
         /\ Len(s) \in Nat /\ \A i \in 1..Len(s) : s[i] \in S
<1>1. DOMAIN s = 1..Len(s) /\ \A i \in 1..Len(s) : s[i] \in S
  BY LenProperties, ElementOfSeq
<1> QED  BY <1>1, LenProperties DEF ToSet

\* Appending leaves the earlier positions alone.
LEMMA Appended ==
  ASSUME NEW S, NEW s \in Seq(S), NEW e \in S
  PROVE  /\ Append(s, e) \in Seq(S) /\ Len(Append(s, e)) = Len(s) + 1
         /\ \A i \in 1..Len(s) : Append(s, e)[i] = s[i]
         /\ Append(s, e)[Len(s) + 1] = e
  BY AppendProperties

\* Without its first element a sequence is shorter by one, and shifted.
LEMMA Shifted ==
  ASSUME NEW S, NEW s \in Seq(S), Len(s) > 0
  PROVE  /\ Tail(s) \in Seq(S) /\ Len(Tail(s)) = Len(s) - 1
         /\ \A i \in 1..Len(s) - 1 : Tail(s)[i] = s[i + 1]
<1>1. s # <<>>  BY EmptySeq
<1> QED  BY <1>1, HeadTailProperties

\* What is left when an element is removed are elements of the sequence.
LEMMA Removed ==
  ASSUME NEW S, NEW s \in Seq(S), NEW i \in 1..Len(s)
  PROVE  RemoveAt(s, i) \in Seq(S)
<1>1. Len(s) \in Nat  BY LenProperties
<1>2. SubSeq(s, 1, i - 1) \in Seq(S) /\ SubSeq(s, i + 1, Len(s)) \in Seq(S)
  <2>1. \A k \in 1..(i - 1) : k \in 1..Len(s)  BY <1>1
  <2>2. \A k \in (i + 1)..Len(s) : k \in 1..Len(s)  BY <1>1
  <2>3. SubSeq(s, 1, i - 1) \in Seq(S)  BY <1>1, <2>1, SubSeqProperties
  <2>4. SubSeq(s, i + 1, Len(s)) \in Seq(S)  BY <1>1, <2>2, SubSeqProperties
  <2> QED  BY <2>3, <2>4
<1> QED  BY <1>2, ConcatProperties DEF RemoveAt

\* A sequence without repetition is no longer than the set of its elements.
LEMMA Pigeons ==
  ASSUME NEW S, IsFiniteSet(S), NEW s \in Seq(S), NoRepeat(s)
  PROVE  Len(s) <= Cardinality(S)
<1>1. Len(s) \in Nat /\ s \in [1..Len(s) -> S]  BY LenProperties
<1>2. s \in Injection(1..Len(s), S)  BY <1>1 DEF NoRepeat, Injection, IsInjective
<1>3. Cardinality(1..Len(s)) <= Cardinality(S)  BY <1>2, FS_Injection
<1>4. \A a, b \in Int : Cardinality(a..b) = IF a > b THEN 0 ELSE b - a + 1
  BY FS_Interval
<1>5. Cardinality(1..Len(s)) = IF 1 > Len(s) THEN 0 ELSE Len(s) - 1 + 1
  BY SMTT(60), <1>1, <1>4
<1> QED  BY <1>1, <1>3, <1>5

-----------------------------------------------------------------------------
(* The invariant *)

\* The bot knows the newest session or none, nobody else's can be resumed, and
\* what a connection reads next follows what the bot read last.
SessionInv ==
  /\ sid \in {0, session} /\ (sid = 0 => lastSeq = 0)
  /\ alive \subseteq {session} /\ (conn # "streaming" => alive \subseteq {sid})
  /\ conn = "resuming" => sid # 0
  /\ conn = "identifying" => sid = 0
  /\ conn = "streaming" => session # 0 /\ next = lastSeq + 1

\* A session begins with READY, and says nothing twice.
StreamInv ==
  /\ \A n \in 1..session : Len(stream[n]) > 0 /\ stream[n][1] = Ready
  /\ \A n \in 1..MaxSessions : NoRepeat(stream[n])

\* The cache holds the last messages that were processed.
CacheInv ==
  /\ Len(cache) = IF Len(processed) <= CacheMax THEN Len(processed) ELSE CacheMax
  /\ \A i \in 1..Len(cache) : cache[i] = processed[Len(processed) - Len(cache) + i]

GatewayInv == GatewaySafe /\ SessionInv /\ StreamInv /\ CacheInv

\* No session says more than READY and every message.
LEMMA SeqBounded ==
  ASSUME GatewayTypeOK, StreamInv, NEW n \in 1..MaxSessions
  PROVE  /\ Len(stream[n]) \in 0..MaxSeq
         /\ MaxSeq \in Nat
<1>1. IsFiniteSet(Msg \cup {Ready}) /\ Cardinality(Msg \cup {Ready}) = Cardinality(Msg) + 1
  BY GatewayAssumption, FS_AddElement
<1>2. stream[n] \in Seq(Msg \cup {Ready}) /\ NoRepeat(stream[n])
  BY DEF GatewayTypeOK, StreamInv
<1>3. Cardinality(Msg) \in Nat  BY GatewayAssumption, FS_CardinalityType
<1>4. Len(stream[n]) <= Cardinality(Msg \cup {Ready})  BY <1>1, <1>2, Pigeons
<1>5. Len(stream[n]) \in Nat  BY <1>2, LenProperties
<1> QED  BY <1>1, <1>3, <1>4, <1>5 DEF MaxSeq

-----------------------------------------------------------------------------
(* Steps *)

\* Nothing is connected, sent or remembered at the start.
LEMMA InitOK == GatewayInit => GatewayInv
<1> SUFFICES ASSUME GatewayInit PROVE GatewayInv
  OBVIOUS
<1>1. /\ Len(<<>>) = 0 /\ <<>> \in Seq([msg : Msg, pc : {"new", "notifying"}])
      /\ <<>> \in Seq(Msg) /\ <<>> \in Seq(Msg \cup {Ready})
  BY EmptySeq
<1>2. MaxSeq \in Nat  BY GatewayAssumption, FS_CardinalityType DEF MaxSeq
<1>3. GatewayTypeOK
  <2>1. stream \in [1..MaxSessions -> Seq(Msg \cup {Ready})]  BY <1>1 DEF GatewayInit
  <2>2. /\ tasks \in Seq([msg : Msg, pc : {"new", "notifying"}])
        /\ cache \in Seq(Msg) /\ Len(cache) <= CacheMax /\ processed \in Seq(Msg)
    BY <1>1, GatewayAssumption DEF GatewayInit
  <2>3. /\ sid \in Number /\ session \in Number /\ alive \subseteq 1..MaxSessions
        /\ losses \in 0..MaxLosses /\ webhooks \in 0..MaxWebhook
    BY GatewayAssumption DEF GatewayInit, Number
  <2>4. lastSeq \in 0..MaxSeq /\ next \in 1..MaxSeq + 1 /\ beats \in Nat
    BY <1>2 DEF GatewayInit
  <2>5. /\ conn \in {"down", "open", "identifying", "resuming", "streaming"}
        /\ notified \in BOOLEAN /\ dispatched \subseteq Msg
    BY DEF GatewayInit
  <2> QED  BY <2>1, <2>2, <2>3, <2>4, <2>5 DEF GatewayTypeOK
<1>4. ResumeSkipsNothing /\ OneHeartbeat /\ SessionInv
  BY DEF GatewayInit, ResumeSkipsNothing, OneHeartbeat, SessionInv
<1>5. ProcessedOnceInWindow /\ CacheInv
  BY <1>1, GatewayAssumption DEF GatewayInit, ProcessedOnceInWindow, CacheInv
<1>6. StreamInv
  <2>1. \A n \in 1..MaxSessions : stream[n] = <<>>  BY DEF GatewayInit
  <2>2. \A i, j \in 1..Len(<<>>) : FALSE  BY <1>1
  <2> QED  BY <2>1, <2>2, GatewayAssumption DEF GatewayInit, StreamInv, NoRepeat
<1> QED  BY <1>3, <1>4, <1>5, <1>6 DEF GatewayInv, GatewaySafe

\* What a step leaves alone keeps the parts of the invariant that are about it.
LEMMA CacheKept ==
  ASSUME ProcessedOnceInWindow /\ CacheInv, UNCHANGED <<cache, processed>>
  PROVE  (ProcessedOnceInWindow /\ CacheInv)'
  BY DEF ProcessedOnceInWindow, CacheInv

\* The streams, when no session speaks or opens.
LEMMA StreamsKept ==
  ASSUME StreamInv, UNCHANGED <<stream, session>>
  PROVE  StreamInv'
  BY DEF StreamInv

\* What is dispatched stays dispatched while the session and its stream stay.
LEMMA SkipsNothingKept ==
  ASSUME ResumeSkipsNothing, UNCHANGED <<sid, lastSeq, stream>>, dispatched \subseteq dispatched'
  PROVE  ResumeSkipsNothing'
  BY DEF ResumeSkipsNothing

\* A new message makes the newest stream longer by one.
LEMMA EmitOK ==
  ASSUME GatewayInv, NEW m \in Msg, Emit(m)
  PROVE  GatewayInv'
<1> USE DEF GatewayInv, GatewaySafe
<1>1. session \in 1..MaxSessions  BY DEF Emit, GatewayTypeOK
<1> DEFINE old == stream[session]
           new == Append(old, m)
<1>2. old \in Seq(Msg \cup {Ready}) /\ m \in Msg \cup {Ready}  BY <1>1 DEF GatewayTypeOK
<1>3. /\ new \in Seq(Msg \cup {Ready}) /\ Len(new) = Len(old) + 1 /\ Len(old) \in Nat
      /\ \A i \in 1..Len(old) : new[i] = old[i]
      /\ new[Len(old) + 1] = m
  BY <1>2, Appended, Elements
<1>4. \A i \in 1..Len(old) : old[i] # m
  <2>1. m \notin ToSet(old)  BY <1>1 DEF Emit, Emitted
  <2> QED  BY <2>1, <1>2, Elements
<1>5. /\ stream' = [stream EXCEPT ![session] = new]
      /\ stream \in [1..MaxSessions -> Seq(Msg \cup {Ready})]
  BY DEF Emit, GatewayTypeOK
<1> HIDE DEF old, new
<1>6. /\ stream' \in [1..MaxSessions -> Seq(Msg \cup {Ready})]
      /\ stream'[session] = new
      /\ \A n \in 1..MaxSessions : n # session => stream'[n] = stream[n]
  BY <1>1, <1>3, <1>5
<1>7. old = stream[session]  BY DEF old
<1>8. GatewayTypeOK'  BY <1>6 DEF Emit, GatewayTypeOK, bot, handlers
<1>9. NoRepeat(new)
  <2>1. NoRepeat(old)  BY <1>1, <1>7 DEF StreamInv
  <2> QED  BY <2>1, <1>3, <1>4 DEF NoRepeat
<1>10. StreamInv'
  <2>1. session' = session  BY DEF Emit
  <2>2. Len(old) > 0 /\ old[1] = Ready  BY <1>1, <1>7 DEF StreamInv
  <2>3. Len(new) > 0 /\ new[1] = Ready  BY <2>2, <1>3
  <2>4. 1..session \subseteq 1..MaxSessions  BY <1>1, GatewayAssumption
  <2> QED  BY <2>1, <2>3, <2>4, <1>6, <1>9 DEF StreamInv
<1>11. ResumeSkipsNothing'
  <2>1. sid' = sid /\ lastSeq' = lastSeq /\ dispatched' = dispatched  BY DEF Emit, bot
  <2>2. CASE sid = 0  BY <2>1, <2>2 DEF ResumeSkipsNothing
  <2>3. CASE sid # 0
    <3>1. sid = session  BY <2>3 DEF SessionInv
    <3>2. /\ lastSeq \in 1..Len(old)
          /\ \A k \in 1..lastSeq : old[k] # Ready => old[k] \in dispatched
      BY <3>1, <2>3, <1>7 DEF ResumeSkipsNothing
    <3>3. /\ lastSeq \in 1..Len(new)
          /\ \A k \in 1..lastSeq : new[k] # Ready => new[k] \in dispatched
      BY <3>2, <1>3
    <3> QED  BY <3>1, <3>3, <2>1, <1>6 DEF ResumeSkipsNothing
  <2> QED  BY <2>2, <2>3
<1>12. OneHeartbeat' /\ SessionInv'  BY DEF Emit, bot, OneHeartbeat, SessionInv
<1>13. (ProcessedOnceInWindow /\ CacheInv)'  BY CacheKept DEF Emit, handlers
<1> QED  BY <1>8, <1>10, <1>11, <1>12, <1>13

\* A new session is opened only when none can be resumed.
LEMMA OpenSessionOK ==
  ASSUME GatewayInv, OpenSession
  PROVE  GatewayInv'
<1> USE DEF GatewayInv, GatewaySafe
<1>1. session \in Nat /\ session + 1 \in 1..MaxSessions
  BY GatewayAssumption DEF OpenSession, GatewayTypeOK, Number
<1>2. sid = 0 /\ lastSeq = 0 /\ alive = {}
  BY DEF OpenSession, SessionInv, GatewayTypeOK
<1>3. /\ <<Ready>> \in Seq(Msg \cup {Ready}) /\ Len(<<Ready>>) = 1 /\ <<Ready>>[1] = Ready
  OBVIOUS
<1>4. /\ stream' \in [1..MaxSessions -> Seq(Msg \cup {Ready})]
      /\ stream'[session + 1] = <<Ready>>
      /\ \A n \in 1..MaxSessions : n # session + 1 => stream'[n] = stream[n]
  BY <1>1, <1>3 DEF OpenSession, GatewayTypeOK
<1>5. MaxSeq \in Nat  BY GatewayAssumption, FS_CardinalityType DEF MaxSeq
<1>6. GatewayTypeOK'
  BY <1>1, <1>2, <1>4, <1>5 DEF OpenSession, GatewayTypeOK, handlers, Number
<1>7. StreamInv'
  <2>1. NoRepeat(<<Ready>>)  BY <1>3 DEF NoRepeat
  <2>2. session' = session + 1  BY DEF OpenSession
  <2>3. \A n \in 1..session + 1 : n \in 1..MaxSessions /\ (n # session + 1 => n \in 1..session)
    BY <1>1, GatewayAssumption
  <2>4. ASSUME NEW n \in 1..session + 1
        PROVE  Len(stream'[n]) > 0 /\ stream'[n][1] = Ready
    <3>1. CASE n = session + 1  BY <3>1, <1>3, <1>4
    <3>2. CASE n # session + 1
      <4>1. n \in 1..session /\ n \in 1..MaxSessions  BY <3>2, <2>3
      <4>2. stream'[n] = stream[n]  BY <3>2, <4>1, <1>4
      <4> QED  BY <4>1, <4>2 DEF StreamInv
    <3> QED  BY <3>1, <3>2
  <2>5. ASSUME NEW n \in 1..MaxSessions PROVE NoRepeat(stream'[n])
    <3>1. CASE n = session + 1  BY <3>1, <2>1, <1>4
    <3>2. CASE n # session + 1  BY <3>2, <1>4 DEF StreamInv
    <3> QED  BY <3>1, <3>2
  <2> QED  BY <2>2, <2>4, <2>5 DEF StreamInv
<1>8. ResumeSkipsNothing' /\ OneHeartbeat'
  BY <1>2 DEF OpenSession, ResumeSkipsNothing, OneHeartbeat
<1>9. SessionInv'  BY <1>1, <1>2 DEF OpenSession, SessionInv
<1>10. (ProcessedOnceInWindow /\ CacheInv)'  BY CacheKept DEF OpenSession, handlers
<1> QED  BY <1>6, <1>7, <1>8, <1>9, <1>10

\* A resumed session goes on after what the bot read last.
LEMMA ResumeSessionOK ==
  ASSUME GatewayInv, ResumeSession
  PROVE  GatewayInv'
<1> USE DEF GatewayInv, GatewaySafe
<1>1. sid # 0 /\ sid = session /\ session \in 1..MaxSessions
  BY DEF ResumeSession, SessionInv, GatewayTypeOK
<1>2. lastSeq \in 1..Len(stream[sid]) /\ Len(stream[sid]) \in 0..MaxSeq /\ MaxSeq \in Nat
  BY <1>1, SeqBounded DEF ResumeSkipsNothing
<1>3. GatewayTypeOK'
  BY <1>2 DEF ResumeSession, ResumeSeq, GatewayTypeOK, handlers
<1>4. StreamInv'  BY StreamsKept DEF ResumeSession
<1>5. ResumeSkipsNothing'  BY SkipsNothingKept DEF ResumeSession
<1>6. OneHeartbeat' /\ SessionInv'
  BY <1>1, <1>2 DEF ResumeSession, ResumeSeq, OneHeartbeat, SessionInv
<1>7. (ProcessedOnceInWindow /\ CacheInv)'  BY CacheKept DEF ResumeSession, handlers
<1> QED  BY <1>3, <1>4, <1>5, <1>6, <1>7

\* Steps that only lose, connect or start over.
LEMMA LinkOK ==
  ASSUME GatewayInv, Expire \/ Connect \/ Hello \/ Lose \/ Invalid
  PROVE  GatewayInv'
<1> USE DEF GatewayInv, GatewaySafe
<1>1. UNCHANGED <<stream, session, dispatched, tasks, cache, notified, processed, next>>
  BY DEF Expire, Connect, Hello, Lose, Invalid, handlers, platform
<1>2. StreamInv'  BY <1>1, StreamsKept
<1>3. (ProcessedOnceInWindow /\ CacheInv)'  BY <1>1, CacheKept
<1>4. MaxSeq \in Nat  BY GatewayAssumption, FS_CardinalityType DEF MaxSeq
<1>5. GatewayTypeOK' /\ ResumeSkipsNothing' /\ OneHeartbeat' /\ SessionInv'
  <2> USE DEF GatewayTypeOK, ResumeSkipsNothing, OneHeartbeat, SessionInv
  <2>1. CASE Expire
    <3>1. /\ UNCHANGED <<conn, sid, lastSeq, beats, webhooks>>
          /\ conn = "down" /\ alive' = {} /\ losses' = losses + 1 /\ losses < MaxLosses
      BY <2>1 DEF Expire, bot
    <3>2. losses' \in 0..MaxLosses  BY <3>1, GatewayAssumption
    <3>3. GatewayTypeOK'  BY <3>1, <3>2, <1>1
    <3>4. ResumeSkipsNothing'  BY <3>1, <1>1, SkipsNothingKept
    <3>5. OneHeartbeat' /\ SessionInv'  BY <3>1, <1>1
    <3> QED  BY <3>3, <3>4, <3>5
  <2>2. CASE Connect
    <3>1. /\ UNCHANGED <<sid, lastSeq, alive, webhooks, losses, beats>>
          /\ conn = "down" /\ conn' = "open"
      BY <2>2 DEF Connect, platform
    <3>2. GatewayTypeOK'  BY <3>1, <1>1
    <3>3. ResumeSkipsNothing'  BY <3>1, <1>1, SkipsNothingKept
    <3>4. OneHeartbeat' /\ SessionInv'  BY <3>1, <1>1
    <3> QED  BY <3>2, <3>3, <3>4
  <2>3. CASE Hello
    <3>1. /\ UNCHANGED <<sid, lastSeq, alive, webhooks, losses>>
          /\ conn = "open" /\ conn' \in {"resuming", "identifying"}
          /\ beats = 0 /\ beats' = 1
          /\ conn' = "resuming" <=> sid # 0 /\ lastSeq # 0
      BY <2>3 DEF Hello, Resumable, platform
    <3>2. conn' = "identifying" => sid = 0  BY <3>1
    <3>3. GatewayTypeOK'  BY <3>1, <1>1
    <3>4. ResumeSkipsNothing'  BY <3>1, <1>1, SkipsNothingKept
    <3>5. OneHeartbeat' /\ SessionInv'  BY <3>1, <3>2, <1>1
    <3> QED  BY <3>3, <3>4, <3>5
  <2>4. CASE Lose
    <3>1. /\ sid' = sid /\ lastSeq' = lastSeq /\ alive' = alive \cap {sid} /\ conn' = "down"
          /\ webhooks' = webhooks /\ losses' \in 0..MaxLosses
      BY <2>4, GatewayAssumption DEF Lose
    <3>2. beats' = 0  BY <2>4 DEF Lose, BeatsAfter
    <3> QED  BY <3>1, <3>2, <1>1
  <2>5. CASE Invalid
    <3>1. sid' = 0 /\ lastSeq' = 0 /\ alive' = {} /\ conn' = "down"
      BY <2>5 DEF Invalid, AfterInvalid
    <3>2. beats = 1 /\ beats' = 0  BY <2>5 DEF Invalid, BeatsAfter
    <3>3. losses' \in 0..MaxLosses /\ webhooks' = webhooks
      BY <2>5, GatewayAssumption DEF Invalid
    <3> QED  BY <3>1, <3>2, <3>3, <1>1, <1>4, GatewayAssumption DEF Number
  <2> QED  BY <2>1, <2>2, <2>3, <2>4, <2>5
<1> QED  BY <1>2, <1>3, <1>5

\* A new task is for a message of some session.
LEMMA TaskAdded ==
  ASSUME GatewayTypeOK, NEW m \in Msg
  PROVE  Append(tasks, [msg |-> m, pc |-> "new"]) \in Seq([msg : Msg, pc : {"new", "notifying"}])
<1> DEFINE T == [msg : Msg, pc : {"new", "notifying"}]
<1>1. tasks \in Seq(T) /\ [msg |-> m, pc |-> "new"] \in T  BY DEF GatewayTypeOK
<1> HIDE DEF T
<1>2. Append(tasks, [msg |-> m, pc |-> "new"]) \in Seq(T)  BY <1>1, Appended
<1> QED  BY <1>2 DEF T

\* The next event is the one after the last that was read.
LEMMA DispatchOK ==
  ASSUME GatewayInv, Dispatch
  PROVE  GatewayInv'
<1> USE DEF GatewayInv, GatewaySafe
<1>1. /\ session \in 1..MaxSessions /\ next = lastSeq + 1
      /\ next \in Nat \ {0} /\ next <= Len(stream[session])
  BY GatewayAssumption DEF Dispatch, SessionInv, GatewayTypeOK, Number
<1>2. Len(stream[session]) \in 0..MaxSeq /\ MaxSeq \in Nat  BY <1>1, SeqBounded
<1>3. next \in 1..Len(stream[session])  BY <1>1, <1>2
<1>4. PICK e \in Msg \cup {Ready} : e = stream[session][next]
  <2>1. stream[session] \in Seq(Msg \cup {Ready})  BY <1>1 DEF GatewayTypeOK
  <2> QED  BY <2>1, <1>3, Elements
<1>5. /\ lastSeq' = next /\ next' = next + 1 /\ conn' = conn /\ beats' = beats
      /\ UNCHANGED <<cache, notified, processed, session, alive, stream, losses, webhooks>>
  BY DEF Dispatch
<1>6. StreamInv'  BY <1>5, StreamsKept
<1>7. (ProcessedOnceInWindow /\ CacheInv)'  BY <1>5, CacheKept
<1>8. CASE e = Ready
  <2>1. sid' = session /\ UNCHANGED <<tasks, dispatched>>  BY <1>4, <1>8 DEF Dispatch
  <2>2. GatewayTypeOK'  BY <2>1, <1>1, <1>2, <1>5 DEF GatewayTypeOK
  <2>3. OneHeartbeat'  BY <1>5 DEF OneHeartbeat
  <2>4. SessionInv'  BY <2>1, <1>1, <1>5 DEF Dispatch, SessionInv
  <2>5. \A k \in 1..next : stream[session][k] # Ready => stream[session][k] \in dispatched
    <3>1. CASE sid = 0
      <4>1. next = 1  BY <3>1, <1>1 DEF SessionInv
      <4>2. stream[session][1] = Ready  BY <4>1, <1>4, <1>8
      <4>3. \A k \in 1..1 : k = 1  OBVIOUS
      <4> QED  BY <4>1, <4>2, <4>3
    <3>2. CASE sid # 0
      <4>1. sid = session  BY <3>2 DEF SessionInv
      <4>2. \A k \in 1..lastSeq : stream[session][k] # Ready => stream[session][k] \in dispatched
        BY <3>2, <4>1 DEF ResumeSkipsNothing
      <4>3. \A k \in 1..next : k \in 1..lastSeq \/ k = next  BY <1>1 DEF GatewayTypeOK
      <4> QED  BY <4>2, <4>3, <1>4, <1>8
    <3> QED  BY <3>1, <3>2
  <2>6. ResumeSkipsNothing'  BY <2>1, <2>5, <1>3, <1>5 DEF ResumeSkipsNothing
  <2> QED  BY <2>2, <2>3, <2>4, <2>6, <1>6, <1>7
<1>9. CASE e # Ready
  <2>1. /\ sid' = sid /\ dispatched' = dispatched \cup {e}
        /\ tasks' = Append(tasks, [msg |-> e, pc |-> "new"])
    BY <1>4, <1>9 DEF Dispatch
  <2>2. e \in Msg  BY <1>4, <1>9
  <2>3. GatewayTypeOK'
    <3>1. tasks' \in Seq([msg : Msg, pc : {"new", "notifying"}])  BY <2>1, <2>2, TaskAdded
    <3> QED  BY SMTT(60), <3>1, <2>1, <2>2, <1>1, <1>2, <1>5 DEF GatewayTypeOK
  <2>4. OneHeartbeat'  BY <1>5 DEF OneHeartbeat
  <2>5. sid # 0
    <3>1. stream[session][1] = Ready  BY <1>1, GatewayAssumption DEF StreamInv
    <3> QED  BY <3>1, <1>1, <1>4, <1>9 DEF SessionInv
  <2>6. sid = session  BY <2>5 DEF SessionInv
  <2>7. SessionInv'  BY <2>1, <2>5, <2>6, <1>1, <1>5 DEF Dispatch, SessionInv
  <2>8. \A k \in 1..next : stream[sid][k] # Ready => stream[sid][k] \in dispatched'
    <3>1. \A k \in 1..lastSeq : stream[sid][k] # Ready => stream[sid][k] \in dispatched
      BY <2>5 DEF ResumeSkipsNothing
    <3>2. \A k \in 1..next : k \in 1..lastSeq \/ k = next  BY <1>1 DEF GatewayTypeOK
    <3> QED  BY <3>1, <3>2, <2>1, <2>6, <1>4
  <2>9. ResumeSkipsNothing'  BY <2>1, <2>6, <2>8, <1>3, <1>5 DEF ResumeSkipsNothing
  <2> QED  BY <2>3, <2>4, <2>7, <2>9, <1>6, <1>7
<1> QED  BY <1>8, <1>9

\* A webhook starts a task, and touches no session.
LEMMA WebhookOK ==
  ASSUME GatewayInv, NEW m \in Msg, Webhook(m)
  PROVE  GatewayInv'
<1> USE DEF GatewayInv, GatewaySafe
<1>1. UNCHANGED <<conn, sid, lastSeq, beats, cache, notified, processed, session, alive, stream,
                  next, losses>>
  BY DEF Webhook, bot, platform
<1>2. tasks' \in Seq([msg : Msg, pc : {"new", "notifying"}])  BY TaskAdded DEF Webhook
<1>3. dispatched' = dispatched \cup {m} /\ webhooks' \in 0..MaxWebhook
  BY GatewayAssumption DEF Webhook, GatewayTypeOK
<1>4. GatewayTypeOK'  BY <1>1, <1>2, <1>3 DEF GatewayTypeOK
<1>5. StreamInv'  BY <1>1, StreamsKept
<1>6. (ProcessedOnceInWindow /\ CacheInv)'  BY <1>1, CacheKept
<1>7. ResumeSkipsNothing'  BY <1>1, <1>3, SkipsNothingKept
<1>8. OneHeartbeat' /\ SessionInv'  BY <1>1 DEF OneHeartbeat, SessionInv
<1> QED  BY <1>4, <1>5, <1>6, <1>7, <1>8

-----------------------------------------------------------------------------
(* The cache *)

\* A message that is not in the cache was not among the last CacheMax.
LEMMA Deduplicated ==
  ASSUME GatewayTypeOK, ProcessedOnceInWindow, CacheInv, NEW m \in Msg, Deduplicate(m)
  PROVE  /\ (ProcessedOnceInWindow /\ CacheInv)'
         /\ cache' \in Seq(Msg) /\ Len(cache') <= CacheMax /\ processed' \in Seq(Msg)
<1>1. CASE Remembered(m)
  <2>1. UNCHANGED <<cache, processed>>  BY <1>1 DEF Deduplicate
  <2> QED  BY <2>1, CacheKept DEF GatewayTypeOK
<1>2. CASE ~Remembered(m)
  <2>1. cache \in Seq(Msg) /\ processed \in Seq(Msg) /\ CacheMax \in Nat \ {0}
    BY GatewayAssumption DEF GatewayTypeOK
  <2>2. PICK L \in Nat, N \in Nat : L = Len(cache) /\ N = Len(processed)
    BY <2>1, Elements
  <2>3. /\ L = IF N <= CacheMax THEN N ELSE CacheMax
        /\ \A i \in 1..L : cache[i] = processed[N - L + i]
    BY <2>2 DEF CacheInv
  <2>4. \A i \in 1..L : cache[i] # m
    BY <1>2, <2>1, <2>2, Elements DEF Remembered
  <2>5. PICK c, p : c = Append(cache, m) /\ p = Append(processed, m)
    OBVIOUS
  <2>6. /\ c \in Seq(Msg) /\ Len(c) = L + 1 /\ c[L + 1] = m
        /\ \A i \in 1..L : c[i] = cache[i]
    BY <2>1, <2>2, <2>5, Appended
  <2>7. /\ p \in Seq(Msg) /\ Len(p) = N + 1 /\ p[N + 1] = m
        /\ \A i \in 1..N : p[i] = processed[i]
    BY <2>1, <2>2, <2>5, Appended
  <2>8. cache' = Evict(c) /\ processed' = p  BY <1>2, <2>5 DEF Deduplicate
  <2>9. ProcessedOnceInWindow'
    <3>1. \A i, j \in 1..N : i < j /\ processed[i] = processed[j] => j - i > CacheMax
      BY <2>2 DEF ProcessedOnceInWindow
    <3>2. ASSUME NEW i \in 1..N, processed[i] = m
          PROVE  N + 1 - i > CacheMax
      <4>1. i <= N - L
        <5> SUFFICES ASSUME i > N - L PROVE FALSE
          BY <2>2
        <5>1. i - (N - L) \in 1..L  BY <2>2, <2>3
        <5>2. cache[i - (N - L)] = processed[N - L + (i - (N - L))]  BY <5>1, <2>3
        <5>3. N - L + (i - (N - L)) = i  BY <2>2
        <5> QED  BY <5>1, <5>2, <5>3, <2>4, <3>2
      <4> QED  BY <4>1, <2>1, <2>3
    <3>3. \A i, j \in 1..N + 1 : i < j /\ p[i] = p[j] => j - i > CacheMax
      <4> SUFFICES ASSUME NEW i \in 1..N + 1, NEW j \in 1..N + 1, i < j, p[i] = p[j]
                   PROVE  j - i > CacheMax
        OBVIOUS
      <4>1. i \in 1..N  BY <2>2
      <4>2. p[i] = processed[i]  BY <4>1, <2>7
      <4>3. CASE j = N + 1
        <5>1. processed[i] = m  BY <4>2, <4>3, <2>7
        <5> QED  BY <5>1, <4>1, <4>3, <3>2
      <4>4. CASE j # N + 1
        <5>1. j \in 1..N  BY <4>4, <2>2
        <5>2. p[j] = processed[j]  BY <5>1, <2>7
        <5> QED  BY <5>1, <5>2, <4>1, <4>2, <3>1
      <4> QED  BY <4>3, <4>4
    <3> QED  BY <3>3, <2>7, <2>8 DEF ProcessedOnceInWindow
  <2>10. CASE L + 1 <= CacheMax
    <3>1. cache' = c  BY <2>6, <2>8, <2>10, <2>1 DEF Evict
    <3>2. L = N  BY <2>3, <2>10, <2>1
    <3>3. \A i \in 1..L + 1 : c[i] = p[N + 1 - (L + 1) + i]
      <4> SUFFICES ASSUME NEW i \in 1..L + 1 PROVE c[i] = p[i]
        BY <3>2
      <4>1. CASE i = L + 1  BY <4>1, <3>2, <2>6, <2>7
      <4>2. CASE i # L + 1
        <5>1. i \in 1..L /\ N - L + i = i  BY <4>2, <3>2
        <5> QED  BY <5>1, <3>2, <2>3, <2>6, <2>7
      <4> QED  BY <4>1, <4>2
    <3>4. Len(cache') = L + 1 /\ Len(processed') = N + 1  BY <3>1, <2>6, <2>7, <2>8
    <3>5. CacheInv'
      <4>1. N + 1 <= CacheMax /\ L + 1 = N + 1  BY <3>2, <2>10
      <4>2. Len(cache') = IF Len(processed') <= CacheMax THEN Len(processed') ELSE CacheMax
        BY <4>1, <3>4
      <4>3. \A i \in 1..Len(cache') : cache'[i] = processed'[Len(processed') - Len(cache') + i]
        <5>1. \A i \in 1..L + 1 : cache'[i] = processed'[N + 1 - (L + 1) + i]
          BY <3>1, <3>3, <2>8
        <5> QED  BY <5>1, <3>4
      <4> QED  BY <4>2, <4>3 DEF CacheInv
    <3> QED  BY <3>1, <3>4, <3>5, <2>6, <2>7, <2>8, <2>9, <2>10
  <2>11. CASE L + 1 > CacheMax
    <3>1. cache' = Tail(c) /\ L = CacheMax  BY <2>1, <2>3, <2>6, <2>8, <2>11 DEF Evict
    <3>2. /\ Tail(c) \in Seq(Msg) /\ Len(Tail(c)) = L
          /\ \A i \in 1..L : Tail(c)[i] = c[i + 1]
      BY <2>6, Shifted
    <3>3. N >= L  BY <2>1, <2>3
    <3>4. \A i \in 1..L : Tail(c)[i] = p[N + 1 - L + i]
      <4> SUFFICES ASSUME NEW i \in 1..L PROVE c[i + 1] = p[N + 1 - L + i]
        BY <3>2
      <4>1. CASE i = L  BY <4>1, <2>6, <2>7
      <4>2. CASE i # L
        <5>1. i + 1 \in 1..L  BY <4>2
        <5>2. c[i + 1] = processed[N - L + (i + 1)]  BY <5>1, <2>3, <2>6
        <5>3. N - L + (i + 1) = N + 1 - L + i /\ N + 1 - L + i \in 1..N  BY <4>2, <3>3
        <5> QED  BY <5>2, <5>3, <2>7
      <4> QED  BY <4>1, <4>2
    <3>5. Len(cache') = L /\ Len(processed') = N + 1  BY <3>1, <3>2, <2>7, <2>8
    <3>6. CacheInv'
      <4>1. ~(N + 1 <= CacheMax)  BY <2>1, <3>1, <3>3
      <4>2. Len(cache') = IF Len(processed') <= CacheMax THEN Len(processed') ELSE CacheMax
        BY <4>1, <3>1, <3>5
      <4>3. \A i \in 1..Len(cache') : cache'[i] = processed'[Len(processed') - Len(cache') + i]
        <5>1. \A i \in 1..L : cache'[i] = processed'[N + 1 - L + i]
          BY <3>1, <3>4, <2>8
        <5> QED  BY <5>1, <3>5
      <4> QED  BY <4>2, <4>3 DEF CacheInv
    <3> QED  BY <3>1, <3>2, <3>5, <3>6, <2>7, <2>8, <2>9
  <2> QED  BY <2>10, <2>11, <2>1, <2>2
<1> QED  BY <1>1, <1>2

\* Handlers touch nothing but the cache and themselves.
LEMMA HandlersOK ==
  ASSUME GatewayInv, Handlers
  PROVE  GatewayInv'
<1> USE DEF GatewayInv, GatewaySafe
<1> DEFINE T == [msg : Msg, pc : {"new", "notifying"}]
<1>1. UNCHANGED <<conn, sid, lastSeq, beats, session, alive, stream, next, losses, webhooks, dispatched>>
  BY DEF Handlers, Start, Noticed, bot, platform
<1>2. tasks \in Seq(T)  BY DEF GatewayTypeOK
<1>3. PICK i \in 1..Len(tasks) :
        /\ tasks' = RemoveAt(tasks, i) \/ tasks' = [tasks EXCEPT ![i].pc = "notifying"]
        /\ Deduplicate(tasks[i].msg) \/ UNCHANGED <<cache, processed>>
        /\ notified' \in BOOLEAN
  BY DEF Handlers, Start, Noticed, GatewayTypeOK
<1>4. tasks[i] \in T  BY <1>2, Elements
<1>5. tasks' \in Seq(T)
  <2>1. RemoveAt(tasks, i) \in Seq(T)  BY <1>2, Removed
  <2>2. [tasks EXCEPT ![i].pc = "notifying"] \in Seq(T)  BY <1>2, <1>4
  <2> QED  BY <1>3, <2>1, <2>2
<1>6. /\ (ProcessedOnceInWindow /\ CacheInv)'
      /\ cache' \in Seq(Msg) /\ Len(cache') <= CacheMax /\ processed' \in Seq(Msg)
  <2>1. CASE Deduplicate(tasks[i].msg)  BY <2>1, <1>4, Deduplicated
  <2>2. CASE UNCHANGED <<cache, processed>>  BY <2>2, CacheKept DEF GatewayTypeOK
  <2> QED  BY <1>3, <2>1, <2>2
<1>7. GatewayTypeOK'  BY <1>1, <1>3, <1>5, <1>6 DEF GatewayTypeOK
<1>8. StreamInv'  BY <1>1, StreamsKept
<1>9. ResumeSkipsNothing'  BY <1>1, SkipsNothingKept
<1>10. OneHeartbeat' /\ SessionInv'  BY <1>1 DEF OneHeartbeat, SessionInv
<1> QED  BY <1>6, <1>7, <1>8, <1>9, <1>10

\* Every step of the gateway keeps the invariant.
LEMMA StepOK == GatewayInv /\ [GatewayNext]_gatewayvars => GatewayInv'
<1> SUFFICES ASSUME GatewayInv, [GatewayNext]_gatewayvars PROVE GatewayInv'
  OBVIOUS
<1>1. ASSUME NEW m \in Msg, Emit(m) PROVE GatewayInv'  BY <1>1, EmitOK
<1>2. ASSUME NEW m \in Msg, Webhook(m) PROVE GatewayInv'  BY <1>2, WebhookOK
<1>3. CASE Expire \/ Connect \/ Hello \/ Lose \/ Invalid  BY <1>3, LinkOK
<1>4. CASE OpenSession  BY <1>4, OpenSessionOK
<1>5. CASE ResumeSession  BY <1>5, ResumeSessionOK
<1>6. CASE Dispatch  BY <1>6, DispatchOK
<1>7. CASE Handlers  BY <1>7, HandlersOK
<1>8. CASE UNCHANGED gatewayvars
  BY <1>8 DEF gatewayvars, bot, handlers, platform, GatewayInv, GatewaySafe, GatewayTypeOK,
     ResumeSkipsNothing, ProcessedOnceInWindow, OneHeartbeat, SessionInv, StreamInv, CacheInv
<1> QED  BY <1>1, <1>2, <1>3, <1>4, <1>5, <1>6, <1>7, <1>8 DEF GatewayNext, Answers

(* Whatever the network, the platform and the webhook do, resuming skips   *)
(* no message, a message is processed again only after CacheMax others,    *)
(* and a connection has one heartbeat (run_websocket, _remember_inbound_   *)
(* message in official_qqbot/bot.py).                                      *)
THEOREM NothingSkippedOrRepeated == GatewaySpec => []GatewaySafe
<1>1. GatewayInv => GatewaySafe  BY DEF GatewayInv
<1> QED  BY <1>1, InitOK, StepOK, PTL DEF GatewaySpec

----------------------------------------------------------------------------
(* A reward goes out once and to somebody who may win it, for any number   *)
(* of groups, users, workers, lotteries and losses of the connection.      *)

\* A list without repeats, and one whose members a lottery lets in.
NoRepeats(s) == \A i, j \in 1..Len(s) : s[i] = s[j] => i = j
LetIn(limits, s) == limits = {} \/ \A i \in 1..Len(s) : s[i] \in limits

(* A lottery of the table has sent nothing yet, has no rewards or one for  *)
(* each prize, and only lets in whom it may.                               *)
Lives(l) ==
  /\ l.number \in 1..Len(made) /\ got[l.number] = <<>> /\ l.vault \in {0, l.count}
  /\ l.count = made[l.number].count /\ l.limits = made[l.number].limits
  /\ l.limits = {} \/ l.joined \subseteq l.limits

(* A draw has a reward for each winner left, and none of them got one.     *)
Draws(x) ==
  /\ x.number \in 1..Len(made) /\ Len(x.winners) > 0 /\ Len(x.winners) <= x.vault
  /\ NoRepeats(x.winners) /\ LetIn(made[x.number].limits, x.winners)
  /\ Len(got[x.number]) + Len(x.winners) <= made[x.number].count
  /\ \A i \in 1..Len(got[x.number]), j \in 1..Len(x.winners) : got[x.number][i] # x.winners[j]

(* What was sent of one lottery.                                           *)
SentFine(n) ==
  /\ NoRepeats(got[n])
  /\ n > Len(made) => got[n] = <<>>
  /\ n <= Len(made) => Len(got[n]) <= made[n].count /\ LetIn(made[n].limits, got[n])

Drawer == Worker \cup {Loop}
Books ==
  /\ \A n \in LotteryNumber : SentFine(n)
  /\ \A g \in QQGroup : active[g] # Nothing => Lives(active[g])
  /\ \A d \in Drawer : draw[d] # Nothing => Draws(draw[d])
  /\ \A g, h \in QQGroup : active[g] # Nothing /\ active[h] # Nothing /\ active[g].number = active[h].number => g = h
  /\ \A d, e \in Drawer : draw[d] # Nothing /\ draw[e] # Nothing /\ draw[d].number = draw[e].number => d = e
  /\ \A d \in Drawer, g \in QQGroup : draw[d] # Nothing /\ active[g] # Nothing => draw[d].number # active[g].number
Room == Len(made) + Cardinality(Open) <= MaxLotteries
LotteryInv == LotteryTypeOK /\ Books /\ Room

(* The bounds are numbers, and the dialogues that may be open are few.     *)
LEMMA LotteryNumbers ==
  /\ MaxLotteries \in Nat /\ MaxTime \in Nat /\ MaxDrops \in Nat
  /\ IsFiniteSet(Open) /\ Cardinality(Open) \in Nat
<1>1. IsFiniteSet(QQGroup \X User)  BY LotteryAssumption, FS_Product
<1>2. Open \subseteq QQGroup \X User  BY DEF Open
<1> QED  BY <1>1, <1>2, LotteryAssumption, FS_Subset, FS_CardinalityType

(* What the sequences of the model are.                                    *)
LEMMA LotterySequences ==
  ASSUME LotteryTypeOK
  PROVE  /\ Len(made) \in Nat /\ \A n \in 1..Len(made) : made[n] \in LotteryData /\ n \in LotteryNumber
         /\ \A n \in LotteryNumber : got[n] \in Seq(User) /\ Len(got[n]) \in Nat /\ n \in Nat
         /\ \A d \in Drawer : draw[d] # Nothing => draw[d] \in Draw /\ Len(draw[d].winners) \in Nat
<1> USE DEF LotteryTypeOK
<1>1. Len(made) \in Nat /\ \A n \in 1..Len(made) : made[n] \in LotteryData  BY LenProperties, ElementOfSeq
<1>2. \A n \in 1..Len(made) : n \in LotteryNumber  BY <1>1, LotteryNumbers DEF LotteryNumber
<1>3. \A n \in LotteryNumber : got[n] \in Seq(User) /\ Len(got[n]) \in Nat /\ n \in Nat
  BY LenProperties DEF LotteryNumber
<1>4. \A d \in Drawer : draw[d] # Nothing => draw[d] \in Draw  BY DEF Drawer
<1>5. \A x \in Draw : Len(x.winners) \in Nat  BY LenProperties DEF Draw
<1> QED  BY <1>1, <1>2, <1>3, <1>4, <1>5

(* A list without repeats has as many members as places.                   *)
LEMMA ListIsSeq ==
  ASSUME NEW S, NEW s \in Seq(S), NoRepeats(s)
  PROVE  Cardinality(ToSet(s)) = Len(s)
<1>1. PICK n \in Nat : n = Len(s) /\ DOMAIN s = 1..n  BY LenProperties
<1>2. 1 \in Int /\ n \in Int  OBVIOUS
<1>3. IsFiniteSet(1..n) /\ Cardinality(1..n) = IF 1 > n THEN 0 ELSE n - 1 + 1  BY <1>2, FS_Interval
<1>4. [i \in 1..n |-> s[i]] \in Bijection(1..n, ToSet(s))
  BY <1>1 DEF NoRepeats, ToSet, Bijection, Injection, Surjection, IsInjective
<1> QED  BY <1>1, <1>3, <1>4, FS_Bijection DEF ExistsBijection

(* The invariant is enough for the properties.                             *)
LEMMA LotteryInvIsSafe == LotteryInv => LotterySafe
<1> SUFFICES ASSUME LotteryInv PROVE LotterySafe
  OBVIOUS
<1>1. LotteryTypeOK /\ Books  BY DEF LotteryInv
<1>2. VaultSuffices  BY <1>1 DEF Books, Draws, VaultSuffices, Drawer
<1>3. ASSUME NEW n \in 1..Len(made)
      PROVE  /\ Cardinality(ToSet(got[n])) = Len(got[n]) /\ Len(got[n]) <= made[n].count
             /\ made[n].limits = {} \/ ToSet(got[n]) \subseteq made[n].limits
  <2>1. n \in LotteryNumber /\ n <= Len(made) /\ got[n] \in Seq(User)  BY <1>1, LotterySequences
  <2>2. SentFine(n)  BY <1>1, <2>1 DEF Books
  <2>3. DOMAIN got[n] = 1..Len(got[n])  BY <2>1, LenProperties
  <2>4. Cardinality(ToSet(got[n])) = Len(got[n])  BY <2>1, <2>2, ListIsSeq DEF SentFine
  <2> QED  BY <2>1, <2>2, <2>3, <2>4 DEF SentFine, LetIn, ToSet
<1>4. RewardsGoOutOnce  BY <1>3 DEF RewardsGoOutOnce
<1> QED  BY <1>1, <1>2, <1>4 DEF LotterySafe

(* Nothing is created yet.                                                 *)
LEMMA LotteryStarts == LotteryInit => LotteryInv
<1> SUFFICES ASSUME LotteryInit PROVE LotteryInv
  OBVIOUS
<1>1. \A S : <<>> \in Seq(S) /\ Len(<<>>) = 0  BY EmptySeq
<1>2. LotteryTypeOK
  <2>1. /\ dialog \in [QQGroup \X User -> {Nothing} \cup Dialog] /\ active \in [QQGroup -> {Nothing} \cup LotteryData]
        /\ deposit \in [User -> {Nothing} \cup QQGroup] /\ draw \in [Worker \cup {Loop} -> {Nothing} \cup Draw]
    BY DEF LotteryInit
  <2>2. got \in [LotteryNumber -> Seq(User)] /\ made \in Seq(LotteryData)  BY <1>1 DEF LotteryInit
  <2>3. now \in 0..MaxTime /\ drops \in 0..MaxDrops /\ Len(made) <= MaxLotteries
    BY <1>1, LotteryNumbers DEF LotteryInit
  <2> QED  BY <2>1, <2>2, <2>3 DEF LotteryInit, LotteryTypeOK
<1>3. Open = {}  BY DEF Open, LotteryInit
<1>4. Room  BY <1>1, <1>3, LotteryNumbers, FS_EmptySet DEF Room, LotteryInit
<1>5. \A n \in LotteryNumber : SentFine(n)
  BY <1>1, LotteryNumbers DEF SentFine, LotteryInit, NoRepeats, LotteryNumber
<1>6. Books  BY <1>5 DEF Books, LotteryInit, Drawer
<1> QED  BY <1>2, <1>4, <1>6 DEF LotteryInv

(* The books are the same as long as nothing is created, drawn or sent,    *)
(* whatever draws end.                                                     *)
LEMMA BooksStay ==
  ASSUME Books, UNCHANGED <<active, made, got>>, \A d \in Drawer : draw'[d] \in {draw[d], Nothing}
  PROVE  Books'
<1>1. \A n : SentFine(n)' <=> SentFine(n)  BY DEF SentFine, NoRepeats, LetIn
<1>2. \A n \in LotteryNumber : SentFine(n)'  BY <1>1 DEF Books
<1>3. \A g \in QQGroup : (active[g] # Nothing => Lives(active[g]))'  BY DEF Books, Lives
<1>4. \A d \in Drawer : draw'[d] # Nothing => draw'[d] = draw[d]  OBVIOUS
<1>5. ASSUME NEW d \in Drawer, draw'[d] # Nothing PROVE Draws(draw[d])'
  <2>1. draw'[d] = draw[d] /\ Draws(draw[d])  BY <1>4, <1>5 DEF Books
  <2> QED  BY ZenonT(60), <2>1 DEF Draws, NoRepeats, LetIn
<1>6. \A d, e \in Drawer : draw'[d] # Nothing /\ draw'[e] # Nothing /\ draw'[d].number = draw'[e].number => d = e
  BY <1>4 DEF Books
<1>7. \A d \in Drawer, g \in QQGroup : draw'[d] # Nothing /\ active'[g] # Nothing => draw'[d].number # active'[g].number
  BY <1>4 DEF Books
<1>8. \A g, h \in QQGroup : active'[g] # Nothing /\ active'[h] # Nothing /\ active'[g].number = active'[h].number => g = h
  BY DEF Books
<1> QED  BY <1>2, <1>3, <1>5, <1>6, <1>7, <1>8 DEF Books, LotteryNumber, Drawer

(* A dialogue goes on.                                                     *)
LEMMA DialogGoesOn ==
  ASSUME LotteryInv, NEW k \in QQGroup \X User, NEW answer \in {Nothing} \cup Dialog, Replies(k, answer),
         UNCHANGED made, dialog[k] # Nothing \/ Len(made) + Cardinality(Open) < MaxLotteries
  PROVE  dialog' \in [QQGroup \X User -> {Nothing} \cup Dialog] /\ Room'
<1>1. dialog' \in [QQGroup \X User -> {Nothing} \cup Dialog]  BY DEF Replies, LotteryInv, LotteryTypeOK
<1>2. PICK A, B : A = Open /\ B = Open'  OBVIOUS
<1>3. B \subseteq A \cup {k} /\ (k \in A <=> dialog[k] # Nothing)
  BY <1>2 DEF Open, Replies, LotteryInv, LotteryTypeOK
<1>4. IsFiniteSet(A) /\ Cardinality(A) \in Nat  BY <1>2, LotteryNumbers
<1>5. IsFiniteSet(A \cup {k}) /\ Cardinality(A \cup {k}) = IF k \in A THEN Cardinality(A) ELSE Cardinality(A) + 1
  BY <1>4, FS_AddElement
<1>6. IsFiniteSet(B) /\ Cardinality(B) <= Cardinality(A \cup {k})  BY <1>3, <1>5, FS_Subset
<1>7. Cardinality(B) \in Nat  BY <1>6, FS_CardinalityType
<1>8. Len(made) \in Nat /\ Len(made) + Cardinality(A) <= MaxLotteries
  BY <1>2, LotterySequences DEF LotteryInv, Room
<1>9. Len(made) + Cardinality(B) <= MaxLotteries
  BY <1>2, <1>3, <1>4, <1>5, <1>6, <1>7, <1>8, LotteryNumbers
<1> QED  BY <1>1, <1>2, <1>9 DEF Room

(* The steps that only talk.                                               *)
LEMMA TalkKeeps ==
  ASSUME LotteryInv, NEW g \in QQGroup, NEW u \in User,
         \/ Begin(g, u) \/ Cancel(g, u) \/ Forget(g, u) \/ \E n \in Counts \cup Minutes : Configure(g, u, n)
  PROVE  LotteryInv'
<1>1. PICK k \in QQGroup \X User : k = <<g, u>>  OBVIOUS
<1>2. UNCHANGED <<active, deposit, draw, due, connection, now, made, got>>
  BY DEF Begin, Cancel, Forget, Configure
<1>3. \E answer \in {Nothing} \cup Dialog : Replies(k, answer)
  <2>1. CASE Begin(g, u)
    <3>1. [step |-> "prize"] \in Dialog  BY DEF Dialog
    <3> QED  BY <3>1, <2>1, <1>1 DEF Begin
  <2>2. CASE Cancel(g, u) \/ Forget(g, u)  BY <2>2, <1>1 DEF Cancel, Forget
  <2>3. ASSUME NEW n \in Counts \cup Minutes, Configure(g, u, n)
        PROVE  \E answer \in {Nothing} \cup Dialog : Replies(k, answer)
    <3>1. dialog[k] \in Dialog  BY <2>3, <1>1 DEF Configure, Says, LotteryInv, LotteryTypeOK
    <3>2. n \in Nat /\ (Valid(n) => n \in Positive)  BY LotteryAssumption DEF Valid, Positive
    <3>3. CASE Replies(k, [step |-> "count"])
      <4>1. [step |-> "count"] \in Dialog  BY DEF Dialog
      <4> QED  BY <4>1, <3>3
    <3>4. CASE Valid(n) /\ Replies(k, [step |-> "time", count |-> n])
      <4>1. [step |-> "time", count |-> n] \in Dialog  BY <3>2, <3>4 DEF Dialog
      <4> QED  BY <4>1, <3>4
    <3>5. CASE dialog[k].step = "time" /\ Valid(n) /\ Replies(k, [step |-> "limit", count |-> dialog[k].count, minutes |-> n])
      <4>1. dialog[k].count \in Positive  BY <3>1, <3>5 DEF Dialog
      <4>2. [step |-> "limit", count |-> dialog[k].count, minutes |-> n] \in Dialog  BY <4>1, <3>2, <3>5 DEF Dialog
      <4> QED  BY <4>2, <3>5
    <3> QED  BY <2>3, <1>1, <3>3, <3>4, <3>5 DEF Configure
  <2> QED  BY <2>1, <2>2, <2>3
<1>4. dialog[k] # Nothing \/ Len(made) + Cardinality(Open) < MaxLotteries
  BY <1>1 DEF Begin, Cancel, Forget, Configure, Says
<1>5. dialog' \in [QQGroup \X User -> {Nothing} \cup Dialog] /\ Room'
  BY <1>1, <1>2, <1>3, <1>4, DialogGoesOn
<1>6. Books'  BY <1>2, BooksStay DEF LotteryInv
<1>7. LotteryTypeOK'  BY <1>2, <1>5 DEF LotteryInv, LotteryTypeOK, connection
<1> QED  BY <1>5, <1>6, <1>7 DEF LotteryInv

(* One lottery changes, and keeps its number.                              *)
LEMMA OneLotteryChanges ==
  ASSUME LotteryInv, NEW g \in QQGroup, active[g] # Nothing, NEW l \in LotteryData, Lives(l),
         l.number = active[g].number, active' = [active EXCEPT ![g] = l], UNCHANGED <<draw, made, got>>
  PROVE  Books' /\ active' \in [QQGroup -> {Nothing} \cup LotteryData]
<1> USE DEF LotteryInv
<1>1. active' \in [QQGroup -> {Nothing} \cup LotteryData]  BY DEF LotteryTypeOK
<1>2. active'[g] = l /\ \A h \in QQGroup \ {g} : active'[h] = active[h]  BY DEF LotteryTypeOK
<1>3. \A n \in LotteryNumber : SentFine(n)'
  <2>1. \A n : SentFine(n)' <=> SentFine(n)  BY DEF SentFine, NoRepeats, LetIn
  <2> QED  BY <2>1 DEF Books
<1>4. ASSUME NEW h \in QQGroup, active'[h] # Nothing PROVE Lives(active[h])'
  <2>1. Lives(active'[h])
    <3>1. CASE h = g  BY <3>1, <1>2
    <3>2. CASE h # g  BY <3>2, <1>2, <1>4 DEF Books
    <3> QED  BY <3>1, <3>2
  <2> QED  BY <2>1 DEF Lives
<1>5. ASSUME NEW d \in Drawer, draw'[d] # Nothing PROVE Draws(draw[d])'
  <2>1. Draws(draw[d])  BY <1>5 DEF Books
  <2> QED  BY <2>1 DEF Draws, NoRepeats, LetIn
<1>6. \A h \in QQGroup : active'[h] # Nothing => active[h] # Nothing /\ active'[h].number = active[h].number
  BY <1>2
<1>7. \A h, i \in QQGroup : active'[h] # Nothing /\ active'[i] # Nothing /\ active'[h].number = active'[i].number => h = i
  BY <1>6 DEF Books
<1>8. \A d, e \in Drawer : draw'[d] # Nothing /\ draw'[e] # Nothing /\ draw'[d].number = draw'[e].number => d = e
  BY DEF Books
<1>9. \A d \in Drawer, h \in QQGroup : draw'[d] # Nothing /\ active'[h] # Nothing => draw'[d].number # active'[h].number
  BY <1>6 DEF Books
<1> QED  BY <1>1, <1>3, <1>4, <1>5, <1>7, <1>8, <1>9 DEF Books, LotteryNumber, Drawer

(* Somebody joins.                                                         *)
LEMMA JoinKeeps ==
  ASSUME LotteryInv, NEW g \in QQGroup, NEW u \in User, Join(g, u)
  PROVE  LotteryInv'
<1>1. PICK l, m : l = active[g] /\ m = [l EXCEPT !.joined = l.joined \cup {u}]  OBVIOUS
<1>2. l \in LotteryData /\ Lives(l) /\ (l.limits = {} \/ u \in l.limits)
  BY <1>1 DEF Join, LotteryInv, LotteryTypeOK, Books
<1>3. /\ m \in LotteryData /\ m.number = l.number /\ m.vault = l.vault /\ m.count = l.count
      /\ m.limits = l.limits /\ m.joined = l.joined \cup {u}
  BY <1>1, <1>2 DEF LotteryData
<1>4. Lives(m)  BY <1>2, <1>3 DEF Lives
<1>5. active[g] # Nothing /\ active' = [active EXCEPT ![g] = m] /\ UNCHANGED <<sessions, draw, due, connection, now, made, got>>
  BY <1>1 DEF Join
<1>6. Books' /\ active' \in [QQGroup -> {Nothing} \cup LotteryData]
  BY <1>1, <1>3, <1>4, <1>5, OneLotteryChanges
<1>7. Room'
  <2>1. Open' = Open  BY <1>5 DEF Open, sessions
  <2> QED  BY <2>1, <1>5 DEF LotteryInv, Room
<1>8. LotteryTypeOK'  BY <1>5, <1>6 DEF LotteryInv, LotteryTypeOK, sessions, connection
<1> QED  BY <1>6, <1>7, <1>8 DEF LotteryInv

(* The creator opens a deposit, makes it or gives it up.                   *)
LEMMA DepositKeeps ==
  ASSUME LotteryInv, NEW u \in User, Creator(u)
  PROVE  LotteryInv'
<1>1. CASE (\E g \in QQGroup : OpenDeposit(u, g)) \/ EndDeposit(u)
  <2>1. PICK g \in {Nothing} \cup QQGroup : deposit' = [deposit EXCEPT ![u] = g]  BY <1>1 DEF OpenDeposit, EndDeposit
  <2>2. UNCHANGED <<dialog, active, draw, due, connection, now, made, got>>  BY <1>1 DEF OpenDeposit, EndDeposit
  <2>3. deposit' \in [User -> {Nothing} \cup QQGroup]  BY <2>1 DEF LotteryInv, LotteryTypeOK
  <2>4. Books'  BY <2>2, BooksStay DEF LotteryInv
  <2>5. Open' = Open  BY <2>2 DEF Open
  <2>6. LotteryTypeOK'  BY <2>2, <2>3 DEF LotteryInv, LotteryTypeOK, connection
  <2> QED  BY <2>2, <2>4, <2>5, <2>6 DEF LotteryInv, Room
<1>2. ASSUME NEW n \in Counts, Deposit(u, n) PROVE LotteryInv'
  <2>1. PICK g \in QQGroup : g = deposit[u]  BY <1>2 DEF Deposit, LotteryInv, LotteryTypeOK
  <2>2. PICK l, m : l = active[g] /\ m = [l EXCEPT !.vault = n]  OBVIOUS
  <2>3. /\ active[g] # Nothing /\ n = l.count /\ active' = [active EXCEPT ![g] = m]
        /\ deposit' = [deposit EXCEPT ![u] = Nothing] /\ UNCHANGED <<dialog, draw, due, connection, now, made, got>>
    BY <2>1, <2>2, <1>2 DEF Deposit, Fits
  <2>4. l \in LotteryData /\ Lives(l)  BY <2>2, <2>3 DEF LotteryInv, LotteryTypeOK, Books
  <2>5. n \in Nat  BY LotteryAssumption
  <2>6. /\ m \in LotteryData /\ m.number = l.number /\ m.vault = n /\ m.count = l.count
        /\ m.limits = l.limits /\ m.joined = l.joined
    BY <2>2, <2>4, <2>5 DEF LotteryData
  <2>7. Lives(m)  BY <2>3, <2>4, <2>6 DEF Lives
  <2>8. Books' /\ active' \in [QQGroup -> {Nothing} \cup LotteryData]
    BY <2>2, <2>3, <2>6, <2>7, OneLotteryChanges
  <2>9. Open' = Open  BY <2>3 DEF Open
  <2>10. deposit' \in [User -> {Nothing} \cup QQGroup]  BY <2>3 DEF LotteryInv, LotteryTypeOK
  <2>11. LotteryTypeOK'  BY <2>3, <2>8, <2>10 DEF LotteryInv, LotteryTypeOK, connection
  <2> QED  BY <2>3, <2>8, <2>9, <2>11 DEF LotteryInv, Room
<1> QED  BY <1>1, <1>2 DEF Creator

(* A lottery is created, and perhaps replaces one.                         *)
LEMMA CreateKeeps ==
  ASSUME LotteryInv, NEW g \in QQGroup, NEW u \in User, NEW limits \in Limits, Create(g, u, limits)
  PROVE  LotteryInv'
<1> USE DEF LotteryInv
<1>1. PICK k \in QQGroup \X User : k = <<g, u>>  OBVIOUS
<1>2. PICK n, l : /\ n = Len(made)
                  /\ l = [number |-> n + 1, creator |-> u, count |-> dialog[k].count, limits |-> limits,
                          end |-> now + dialog[k].minutes, joined |-> {}, vault |-> 0]
  OBVIOUS
<1>3. /\ dialog[k] # Nothing /\ dialog[k].step = "limit" /\ dialog' = [dialog EXCEPT ![k] = Nothing]
      /\ active' = [active EXCEPT ![g] = l] /\ made' = Append(made, l)
      /\ UNCHANGED <<deposit, draw, due, connection, now, got>>
  BY <1>1, <1>2 DEF Create, Says, Replies
<1>4. n \in Nat /\ made \in Seq(LotteryData)  BY <1>2, LotterySequences DEF LotteryTypeOK
<1>5. Cardinality(Open') = Cardinality(Open) - 1 /\ Cardinality(Open) \in Nat /\ Cardinality(Open) > 0
  <2>1. PICK A : A = Open /\ IsFiniteSet(A) /\ Cardinality(A) \in Nat  BY LotteryNumbers
  <2>2. k \in A  BY <2>1, <1>3 DEF Open
  <2>3. Open' = A \ {k}  BY <2>1, <1>3 DEF Open, LotteryTypeOK
  <2>4. IsFiniteSet(A \ {k}) /\ Cardinality(A \ {k}) = Cardinality(A) - 1  BY <2>1, <2>2, FS_RemoveElement
  <2>5. Cardinality(A \ {k}) \in Nat  BY <2>4, FS_CardinalityType
  <2> QED  BY <2>1, <2>3, <2>4, <2>5
<1>6. n + 1 \in LotteryNumber /\ n + 1 <= MaxLotteries
  BY <1>2, <1>4, <1>5, LotteryNumbers DEF Room, LotteryNumber
<1>7. l \in LotteryData
  <2>1. dialog[k] \in Dialog  BY <1>3 DEF LotteryTypeOK
  <2>2. dialog[k].count \in Positive /\ dialog[k].minutes \in Positive  BY <2>1, <1>3 DEF Dialog
  <2>3. now + dialog[k].minutes \in Nat  BY <2>2, LotteryNumbers DEF LotteryTypeOK, Positive
  <2> QED  BY <2>2, <2>3, <1>2, <1>6 DEF LotteryData
<1>8. /\ made' \in Seq(LotteryData) /\ Len(made') = n + 1 /\ made'[n + 1] = l
      /\ \A i \in 1..n : made'[i] = made[i]
  BY <1>2, <1>3, <1>4, <1>7, AppendProperties
<1>9. active'[g] = l /\ \A h \in QQGroup \ {g} : active'[h] = active[h]  BY <1>3 DEF LotteryTypeOK
<1>10. ASSUME NEW i \in LotteryNumber PROVE SentFine(i)'
  <2>1. i \in Nat /\ i > 0  BY LotteryNumbers DEF LotteryNumber
  <2>2. SentFine(i) /\ got' = got  BY <1>3 DEF Books
  <2>3. i <= n \/ i = n + 1 \/ i > n + 1  BY <2>1, <1>4
  <2>4. CASE i <= n
    <3>1. i \in 1..n  BY <2>1, <2>4, <1>4
    <3>2. i <= n + 1 /\ ~(i > n + 1) /\ made'[i] = made[i]  BY <3>1, <1>4, <1>8
    <3> QED  BY <3>1, <3>2, <2>2, <2>4, <1>2, <1>8 DEF SentFine, NoRepeats, LetIn
  <2>5. CASE i >= n + 1
    <3>1. i > n /\ got[i] = <<>> /\ Len(<<>>) = 0  BY <2>1, <2>2, <2>5, <1>2, <1>4, EmptySeq DEF SentFine
    <3>2. i <= n + 1 => made'[i] = l /\ l.count \in Nat /\ l.count >= 0
      BY <2>1, <2>5, <1>4, <1>7, <1>8 DEF LotteryData, Positive
    <3> QED  BY <3>1, <3>2, <2>2, <1>8 DEF SentFine, NoRepeats, LetIn
  <2> QED  BY <2>1, <2>3, <2>4, <2>5, <1>4
<1>11. ASSUME NEW h \in QQGroup, active'[h] # Nothing PROVE Lives(active[h])'
  <2>1. CASE h = g
    <3>1. got[n + 1] = <<>>
      <4>1. SentFine(n + 1)  BY <1>6 DEF Books
      <4> QED  BY <4>1, <1>2, <1>4 DEF SentFine
    <3>2. /\ l.number = n + 1 /\ l.vault = 0 /\ l.joined = {} /\ n + 1 \in 1..(n + 1)
      BY <1>2, <1>4
    <3> QED  BY <3>1, <3>2, <2>1, <1>3, <1>8, <1>9 DEF Lives
  <2>2. CASE h # g
    <3>1. active'[h] = active[h] /\ Lives(active[h])  BY <2>2, <1>9, <1>11 DEF Books
    <3>2. active[h].number \in 1..n /\ active[h].number \in 1..(n + 1)  BY <3>1, <1>2, <1>4 DEF Lives
    <3> QED  BY <3>1, <3>2, <1>3, <1>8 DEF Lives
  <2> QED  BY <2>1, <2>2
<1>12. ASSUME NEW d \in Drawer, draw'[d] # Nothing PROVE Draws(draw[d])' /\ draw[d].number \in 1..n
  <2>1. draw'[d] = draw[d] /\ Draws(draw[d])  BY <1>3, <1>12 DEF Books
  <2>2. draw[d].number \in 1..n /\ draw[d].number \in 1..(n + 1)  BY <2>1, <1>2, <1>4 DEF Draws
  <2> QED  BY <2>1, <2>2, <1>3, <1>8 DEF Draws, NoRepeats, LetIn
<1>13. \A h \in QQGroup : active'[h] # Nothing =>
         IF h = g THEN active'[h].number = n + 1 ELSE active[h] # Nothing /\ active'[h].number = active[h].number
  BY <1>2, <1>9
<1>14. \A h \in QQGroup : active[h] # Nothing => active[h].number \in 1..n  BY <1>2 DEF Books, Lives
<1>15. n + 1 \notin 1..n  BY <1>4
<1>16. \A h, i \in QQGroup : active'[h] # Nothing /\ active'[i] # Nothing /\ active'[h].number = active'[i].number => h = i
  BY <1>13, <1>14, <1>15 DEF Books
<1>17. \A d, e \in Drawer : draw'[d] # Nothing /\ draw'[e] # Nothing /\ draw'[d].number = draw'[e].number => d = e
  BY <1>3 DEF Books
<1>18. \A d \in Drawer, h \in QQGroup : draw'[d] # Nothing /\ active'[h] # Nothing => draw'[d].number # active'[h].number
  BY <1>3, <1>12, <1>13, <1>15 DEF Books
<1>19. Books'  BY <1>10, <1>11, <1>12, <1>16, <1>17, <1>18 DEF Books, LotteryNumber, Drawer
<1>20. Room'  BY <1>2, <1>4, <1>5, <1>8, LotteryNumbers DEF Room
<1>21. LotteryTypeOK'
  <2>1. active' \in [QQGroup -> {Nothing} \cup LotteryData]  BY <1>3, <1>7 DEF LotteryTypeOK
  <2>2. dialog' \in [QQGroup \X User -> {Nothing} \cup Dialog]  BY <1>3 DEF LotteryTypeOK
  <2> QED  BY <2>1, <2>2, <1>3, <1>6, <1>8 DEF LotteryTypeOK, connection
<1> QED  BY <1>19, <1>20, <1>21

(* A draw takes a lottery out of the table, with winners and rewards.      *)
LEMMA BeginsKeeps ==
  ASSUME LotteryInv, NEW d \in Drawer, NEW g \in QQGroup, draw[d] = Nothing, active[g] # Nothing, Begins(d, g),
         UNCHANGED <<made, got>>
  PROVE  /\ Books' /\ active' \in [QQGroup -> {Nothing} \cup LotteryData]
         /\ draw' \in [Worker \cup {Loop} -> {Nothing} \cup Draw]
<1> USE DEF LotteryInv
<1>1. PICK l : l = active[g] /\ l \in LotteryData /\ Lives(l)  BY SMTT(60) DEF LotteryTypeOK, Books
<1>2. PICK lineup, x :
        /\ lineup \in Lineups(l)
        /\ x = (IF l.vault = 0 \/ lineup = <<>> THEN Nothing
                ELSE [number |-> l.number, winners |-> lineup, vault |-> l.vault])
        /\ draw' = [draw EXCEPT ![d] = x]
  BY <1>1 DEF Begins
<1>3. active' = [active EXCEPT ![g] = Nothing]  BY SMTT(60) DEF Begins, Taken
<1>4. /\ lineup \in Seq(User) /\ Len(lineup) \in Nat /\ Len(lineup) <= l.count /\ NoRepeats(lineup)
      /\ LetIn(l.limits, lineup)
  <2>1. PICK c : c = Cardinality(l.joined) /\ c \in Nat
    <3>1. l.joined \subseteq User  BY <1>1 DEF LotteryData
    <3> QED  BY <3>1, LotteryAssumption, FS_Subset, FS_CardinalityType
  <2>2. l.count \in Nat /\ l.joined \subseteq User  BY <1>1 DEF LotteryData, Positive
  <2>3. PICK m : m = Min({l.count, c}) /\ m \in Nat /\ m <= l.count
    <3>1. \E m \in {l.count, c} : \A y \in {l.count, c} : m <= y  BY <2>1, <2>2
    <3>2. Min({l.count, c}) \in {l.count, c} /\ \A y \in {l.count, c} : Min({l.count, c}) <= y  BY <3>1 DEF Min
    <3> QED  BY <3>2, <2>1, <2>2
  <2>4. lineup \in [1..m -> l.joined]  BY <1>2, <2>1, <2>3 DEF Lineups
  <2>5. lineup \in Seq(User) /\ Len(lineup) = m /\ \A i \in 1..m : lineup[i] \in l.joined
    <3>1. lineup \in [1..m -> User]  BY <2>2, <2>4
    <3>2. lineup \in Seq(User)  BY <3>1, <2>3, SeqDef
    <3>3. Len(lineup) \in Nat /\ DOMAIN lineup = 1..Len(lineup)  BY <3>2, LenProperties
    <3>4. 1..Len(lineup) = 1..m  BY <3>1, <3>3
    <3>5. Len(lineup) = m
      <4>1. PICK q \in Nat : q = Len(lineup)  BY <3>3
      <4>2. q > 0 => q \in 1..m
        <5>1. q > 0 => q \in 1..q  BY <4>1
        <5> QED  BY <5>1, <4>1, <3>4
      <4>3. m > 0 => m \in 1..q
        <5>1. m > 0 => m \in 1..m  BY <2>3
        <5> QED  BY <5>1, <4>1, <3>4
      <4> QED  BY <4>1, <4>2, <4>3, <2>3
    <3> QED  BY <3>2, <3>5, <2>4
  <2>6. NoRepeats(lineup)
    <3>1. PICK S : lineup \in SetToSeqs(S)  BY <1>2 DEF Lineups, SetToAllKPermutations
    <3>2. \A i, j \in DOMAIN lineup : i # j => lineup[i] # lineup[j]  BY <3>1 DEF SetToSeqs
    <3> QED  BY <3>2, <2>4, <2>5 DEF NoRepeats
  <2> QED  BY <2>3, <2>5, <2>6, <1>1 DEF Lives, LetIn
<1>5. x # Nothing => x \in Draw /\ Draws(x) /\ x.number = l.number
  <2> SUFFICES ASSUME x # Nothing PROVE x \in Draw /\ Draws(x) /\ x.number = l.number
    OBVIOUS
  <2>1. x = [number |-> l.number, winners |-> lineup, vault |-> l.vault] /\ l.vault # 0 /\ lineup # <<>>
    BY <1>2
  <2>2. x \in Draw  BY <2>1, <1>1, <1>4 DEF Draw, LotteryData
  <2>3. Len(lineup) > 0
    <3>1. Len(lineup) # 0  BY <2>1, <1>4, EmptySeq
    <3> QED  BY <3>1, <1>4
  <2>4. Len(lineup) <= l.vault /\ Len(lineup) <= made[l.number].count  BY <2>1, <1>1, <1>4 DEF Lives
  <2>5. l.number \in 1..Len(made) /\ got[l.number] = <<>> /\ Len(<<>>) = 0 /\ made[l.number].limits = l.limits
    BY <1>1, EmptySeq DEF Lives
  <2>6. Len(got[l.number]) = 0 /\ 0 + Len(lineup) = Len(lineup)  BY <2>5, <1>4
  <2>7. \A i \in 1..0 : FALSE  OBVIOUS
  <2>8. Len(got[l.number]) + Len(lineup) <= made[l.number].count  BY <2>4, <2>6
  <2> QED  BY <2>1, <2>2, <2>3, <2>4, <2>5, <2>6, <2>7, <2>8, <1>4 DEF Draws
<1>6. active'[g] = Nothing /\ \A h \in QQGroup \ {g} : active'[h] = active[h]  BY <1>3 DEF LotteryTypeOK
<1>7. draw'[d] = x /\ \A e \in Drawer \ {d} : draw'[e] = draw[e]  BY <1>2 DEF LotteryTypeOK, Drawer
<1>8. \A n \in LotteryNumber : SentFine(n)'
  <2>1. \A n : SentFine(n)' <=> SentFine(n)  BY DEF SentFine, NoRepeats, LetIn
  <2> QED  BY <2>1 DEF Books
<1>9. ASSUME NEW h \in QQGroup, active'[h] # Nothing PROVE Lives(active[h])' /\ h # g /\ active'[h] = active[h]
  <2>1. h # g /\ active'[h] = active[h] /\ Lives(active[h])  BY <1>6, <1>9 DEF Books
  <2> QED  BY <2>1 DEF Lives
<1>10. ASSUME NEW e \in Drawer, draw'[e] # Nothing PROVE Draws(draw[e])'
  <2>1. Draws(draw'[e])
    <3>1. CASE e = d  BY <3>1, <1>5, <1>7, <1>10
    <3>2. CASE e # d  BY <3>2, <1>7, <1>10 DEF Books
    <3> QED  BY <3>1, <3>2
  <2> QED  BY <2>1 DEF Draws, NoRepeats, LetIn
<1>11. \A h, i \in QQGroup : active'[h] # Nothing /\ active'[i] # Nothing /\ active'[h].number = active'[i].number => h = i
  BY <1>9 DEF Books
<1>12. \A e \in Drawer : draw'[e] # Nothing =>
         IF e = d THEN draw'[e].number = active[g].number ELSE draw[e] # Nothing /\ draw'[e] = draw[e]
  BY <1>1, <1>5, <1>7
<1>13. \A e, f \in Drawer : draw'[e] # Nothing /\ draw'[f] # Nothing /\ draw'[e].number = draw'[f].number => e = f
  BY <1>12 DEF Books
<1>14. \A e \in Drawer, h \in QQGroup : draw'[e] # Nothing /\ active'[h] # Nothing => draw'[e].number # active'[h].number
  BY <1>9, <1>12 DEF Books
<1>15. Books'  BY <1>8, <1>9, <1>10, <1>11, <1>13, <1>14 DEF Books, LotteryNumber, Drawer
<1>16. active' \in [QQGroup -> {Nothing} \cup LotteryData]  BY <1>3 DEF LotteryTypeOK
<1>17. draw' \in [Worker \cup {Loop} -> {Nothing} \cup Draw]  BY <1>2, <1>5 DEF LotteryTypeOK
<1> QED  BY <1>15, <1>16, <1>17

(* The next winner gets a message.                                         *)
LEMMA SendKeeps ==
  ASSUME LotteryInv, NEW d \in Drawer, Send(d)
  PROVE  LotteryInv'
<1> USE DEF LotteryInv
<1>1. PICK x, n, s, t : x = draw[d] /\ n = x.number /\ s = got[n] /\ t = x.winners  OBVIOUS
<1>2. x # Nothing /\ x \in Draw /\ Draws(x) /\ n \in LotteryNumber /\ n \in 1..Len(made)
  <2>1. x # Nothing /\ Draws(x)  BY <1>1 DEF Send, Books
  <2> QED  BY <2>1, <1>1, LotterySequences DEF Draws
<1>3. PICK w, rest, y : /\ w = Head(t) /\ rest = Tail(t)
                        /\ y = (IF rest = <<>> THEN Nothing
                                ELSE [number |-> n, winners |-> rest, vault |-> x.vault - 1])
  OBVIOUS
<1>4. /\ draw' = [draw EXCEPT ![d] = y] /\ got' = [got EXCEPT ![n] = Append(s, w)]
      /\ UNCHANGED <<sessions, active, due, connection, now, made>>
  BY <1>1, <1>3 DEF Send
<1>5. PICK j, k \in Nat : j = Len(s) /\ k = Len(t) /\ k > 0 /\ s \in Seq(User) /\ t \in Seq(User)
  <2>1. Len(s) \in Nat /\ s \in Seq(User)  BY <1>1, <1>2, LotterySequences
  <2>2. Len(t) \in Nat /\ t \in Seq(User)  BY <1>1, <1>2, LotterySequences DEF Draw
  <2> QED  BY <2>1, <2>2, <1>1, <1>2 DEF Draws
<1>6. /\ rest \in Seq(User) /\ Len(rest) = k - 1 /\ w = t[1] /\ w \in User
      /\ \A i \in 1..(k - 1) : rest[i] = t[i + 1]
  <2>1. t # <<>>  BY <1>5, EmptySeq
  <2> QED  BY <2>1, <1>3, <1>5, HeadTailProperties
<1>7. /\ Append(s, w) \in Seq(User) /\ Len(Append(s, w)) = j + 1 /\ Append(s, w)[j + 1] = w
      /\ \A i \in 1..j : Append(s, w)[i] = s[i]
  BY <1>5, <1>6, AppendProperties
<1>8. got'[n] = Append(s, w) /\ \A i \in LotteryNumber \ {n} : got'[i] = got[i]  BY <1>2, <1>4 DEF LotteryTypeOK
<1>9. draw'[d] = y /\ \A e \in Drawer \ {d} : draw'[e] = draw[e]  BY <1>4 DEF LotteryTypeOK, Drawer
<1>10. \A i \in 1..(j + 1) : i = j + 1 \/ i \in 1..j  OBVIOUS
<1>11. \A i \in 1..(k - 1) : i + 1 \in 1..k /\ i + 1 # 1  OBVIOUS
<1>12. 1 \in 1..k  BY <1>5
<1>13. \A i \in 1..j, m \in 1..k : s[i] # t[m]  BY <1>1, <1>2, <1>5 DEF Draws
<1>14. \A i, m \in 1..k : t[i] = t[m] => i = m  BY <1>1, <1>2, <1>5 DEF Draws, NoRepeats
<1>15. PICK c, a \in Nat : c = made[n].count /\ a = x.vault /\ j + k <= c /\ k <= a
  <2>1. made[n].count \in Nat  BY <1>2, LotterySequences DEF LotteryData, Positive
  <2>2. x.vault \in Nat  BY <1>2 DEF Draw
  <2> QED  BY <2>1, <2>2, <1>1, <1>2, <1>5 DEF Draws
<1>16. ASSUME NEW i \in LotteryNumber PROVE SentFine(i)'
  <2>1. SentFine(i) /\ made' = made  BY <1>4 DEF Books
  <2>2. CASE i = n
    <3>1. SentFine(n)  BY <1>2 DEF Books
    <3>2. \A p, q \in 1..(j + 1) : Append(s, w)[p] = Append(s, w)[q] => p = q
      <4>1. \A p, q \in 1..j : s[p] = s[q] => p = q  BY <3>1, <1>1, <1>5 DEF SentFine, NoRepeats
      <4> QED  BY <4>1, <1>6, <1>7, <1>10, <1>12, <1>13
    <3>3. n <= Len(made) /\ ~(n > Len(made))
      <4>1. Len(made) \in Nat  BY LotterySequences
      <4> QED  BY <4>1, <1>2
    <3>4. j + 1 <= c  BY <1>5, <1>15
    <3>5. LetIn(made[n].limits, Append(s, w))
      <4>1. LetIn(made[n].limits, s) /\ LetIn(made[n].limits, t)  BY <3>1, <3>3, <1>1, <1>2 DEF SentFine, Draws
      <4> QED  BY <4>1, <1>5, <1>6, <1>7, <1>10, <1>12 DEF LetIn
    <3>6. Len(got'[n]) = j + 1 /\ got'[n] = Append(s, w) /\ made'[n] = made[n]  BY <2>1, <1>7, <1>8
    <3>7. NoRepeats(got[n])'  BY <3>2, <3>6 DEF NoRepeats
    <3>8. LetIn(made[n].limits, got[n])'  BY <3>5, <3>6 DEF LetIn
    <3>9. Len(got'[n]) <= made'[n].count  BY <3>4, <3>6, <1>15
    <3>10. ~(n > Len(made'))  BY <2>1, <3>3
    <3> QED  BY <2>2, <3>7, <3>8, <3>9, <3>10 DEF SentFine
  <2>3. CASE i # n
    <3>1. got'[i] = got[i]  BY <2>3, <1>8
    <3> QED  BY <2>1, <3>1 DEF SentFine, NoRepeats, LetIn
  <2> QED  BY <2>2, <2>3
<1>17. ASSUME NEW g \in QQGroup, active'[g] # Nothing PROVE Lives(active[g])'
  <2>1. active' = active /\ Lives(active[g]) /\ active[g].number # n  BY <1>1, <1>2, <1>4, <1>17 DEF Books
  <2>2. active[g].number \in LotteryNumber  BY <2>1, LotterySequences DEF Lives
  <2>3. got'[active[g].number] = got[active[g].number]  BY <2>1, <2>2, <1>8
  <2> QED  BY <2>1, <2>3, <1>4 DEF Lives
<1>18. y # Nothing => y \in Draw /\ y.number = n /\ Draws(y)'
  <2> SUFFICES ASSUME y # Nothing PROVE y \in Draw /\ y.number = n /\ Draws(y)'
    OBVIOUS
  <2>1. y = [number |-> n, winners |-> rest, vault |-> a - 1] /\ rest # <<>>  BY <1>3, <1>15
  <2>2. Len(rest) # 0  BY <2>1, <1>6, EmptySeq
  <2>3. k - 1 > 0 /\ a - 1 \in Nat /\ k - 1 <= a - 1 /\ (j + 1) + (k - 1) <= c  BY <2>2, <1>5, <1>6, <1>15
  <2>4. y \in Draw  BY <2>1, <2>3, <1>2, <1>6 DEF Draw
  <2>5. NoRepeats(rest)
    <3>1. ASSUME NEW i \in 1..(k - 1), NEW m \in 1..(k - 1), rest[i] = rest[m] PROVE i = m
      <4>1. i + 1 = m + 1  BY <3>1, <1>6, <1>11, <1>14
      <4> QED  BY <4>1
    <3> QED  BY <3>1, <1>6 DEF NoRepeats
  <2>6. LetIn(made[n].limits, rest)
    <3>1. LetIn(made[n].limits, t)  BY <1>1, <1>2 DEF Draws
    <3> QED  BY <3>1, <1>5, <1>6, <1>11 DEF LetIn
  <2>7. \A i \in 1..(j + 1), m \in 1..(k - 1) : Append(s, w)[i] # rest[m]
    <3>1. ASSUME NEW i \in 1..(j + 1), NEW m \in 1..(k - 1) PROVE Append(s, w)[i] # rest[m]
      <4>1. rest[m] = t[m + 1] /\ m + 1 \in 1..k /\ m + 1 # 1  BY <1>6, <1>11
      <4>2. CASE i = j + 1  BY <4>1, <4>2, <1>6, <1>7, <1>12, <1>14
      <4>3. CASE i \in 1..j  BY <4>1, <4>3, <1>7, <1>13
      <4> QED  BY <4>2, <4>3, <1>10
    <3> QED  BY <3>1
  <2>8. y.number = n /\ y.winners = rest /\ y.vault = a - 1  BY <2>1
  <2>9. got'[n] = Append(s, w) /\ made' = made /\ Len(got'[n]) = j + 1 /\ Len(rest) = k - 1  BY <1>4, <1>6, <1>7, <1>8
  <2>10. n \in 1..Len(made) /\ Len(rest) > 0 /\ Len(rest) <= a - 1 /\ Len(got'[n]) + Len(rest) <= made[n].count
    BY <2>3, <2>9, <1>2, <1>15
  <2>11. \A i \in 1..Len(got'[n]), m \in 1..Len(rest) : got'[n][i] # rest[m]  BY <2>7, <2>9
  <2> QED  BY <2>4, <2>5, <2>6, <2>8, <2>9, <2>10, <2>11 DEF Draws, NoRepeats, LetIn
<1>19. ASSUME NEW e \in Drawer, draw'[e] # Nothing PROVE Draws(draw[e])'
  <2>1. CASE e = d
    <3>1. Draws(y)' /\ draw'[e] = y  BY <2>1, <1>9, <1>18, <1>19
    <3> QED  BY <3>1 DEF Draws, NoRepeats, LetIn
  <2>2. CASE e # d
    <3>1. draw'[e] = draw[e] /\ Draws(draw[e]) /\ draw[e].number # n
      BY <2>2, <1>1, <1>2, <1>9, <1>19 DEF Books
    <3>2. draw[e].number \in LotteryNumber  BY <3>1, LotterySequences DEF Draws
    <3>3. got'[draw[e].number] = got[draw[e].number]  BY <3>1, <3>2, <1>8
    <3>4. PICK z : z = draw[e] /\ draw'[e] = z  BY <3>1
    <3>5. PICK p : p = got[z.number] /\ got'[z.number] = p  BY <3>3, <3>4
    <3>6. /\ z.number \in 1..Len(made) /\ Len(z.winners) > 0 /\ Len(z.winners) <= z.vault
          /\ NoRepeats(z.winners) /\ LetIn(made[z.number].limits, z.winners)
          /\ Len(p) + Len(z.winners) <= made[z.number].count
          /\ \A i \in 1..Len(p), m \in 1..Len(z.winners) : p[i] # z.winners[m]
      BY <3>1, <3>4, <3>5 DEF Draws
    <3>7. made' = made  BY <1>4
    <3>8. Draws(z)'  BY <3>5, <3>6, <3>7 DEF Draws, NoRepeats, LetIn
    <3> QED  BY <3>4, <3>8 DEF Draws, NoRepeats, LetIn
  <2> QED  BY <2>1, <2>2
<1>20. \A e \in Drawer : draw'[e] # Nothing => draw[e] # Nothing /\ draw'[e].number = draw[e].number
  BY <1>1, <1>2, <1>9, <1>18
<1>21. \A e, f \in Drawer : draw'[e] # Nothing /\ draw'[f] # Nothing /\ draw'[e].number = draw'[f].number => e = f
  BY <1>20 DEF Books
<1>22. \A e \in Drawer, g \in QQGroup : draw'[e] # Nothing /\ active'[g] # Nothing => draw'[e].number # active'[g].number
  BY <1>4, <1>20 DEF Books
<1>23. \A g, h \in QQGroup : active'[g] # Nothing /\ active'[h] # Nothing /\ active'[g].number = active'[h].number => g = h
  BY <1>4 DEF Books
<1>24. Books'  BY <1>16, <1>17, <1>19, <1>21, <1>22, <1>23 DEF Books, LotteryNumber, Drawer
<1>25. Room'
  <2>1. Open' = Open  BY <1>4 DEF Open, sessions
  <2> QED  BY <2>1, <1>4 DEF Room
<1>26. LotteryTypeOK'
  <2>1. got' \in [LotteryNumber -> Seq(User)]  BY <1>2, <1>4, <1>7 DEF LotteryTypeOK
  <2>2. draw' \in [Worker \cup {Loop} -> {Nothing} \cup Draw]  BY <1>4, <1>18 DEF LotteryTypeOK
  <2> QED  BY <2>1, <2>2, <1>4 DEF LotteryTypeOK, sessions, connection
<1> QED  BY <1>24, <1>25, <1>26

(* A draw of a worker or of the loop begins.                               *)
LEMMA DrawKeeps ==
  ASSUME LotteryInv, NEW g \in QQGroup, (\E w \in Worker : DrawEarly(w, g)) \/ Look(g) \/ DrawNext(g)
  PROVE  LotteryInv'
<1>1. PICK d \in Drawer : draw[d] = Nothing /\ active[g] # Nothing /\ Begins(d, g)
  BY DEF DrawEarly, Look, DrawNext, Waiting, Expired, Drawer
<1>2. UNCHANGED <<sessions, connection, now, made, got>> /\ due' \subseteq due \cup QQGroup
  BY DEF DrawEarly, Look, DrawNext, Expired
<1>3. /\ Books' /\ active' \in [QQGroup -> {Nothing} \cup LotteryData]
      /\ draw' \in [Worker \cup {Loop} -> {Nothing} \cup Draw]
  BY <1>1, <1>2, BeginsKeeps
<1>4. Open' = Open  BY <1>2 DEF Open, sessions
<1>5. LotteryTypeOK'  BY <1>2, <1>3 DEF LotteryInv, LotteryTypeOK, sessions, connection
<1> QED  BY <1>2, <1>3, <1>4, <1>5 DEF LotteryInv, Room

(* Draws end unfinished, the connection comes and goes, time passes.       *)
LEMMA QuietKeeps ==
  ASSUME LotteryInv,
         \/ (\E d \in Drawer : SendFails(d) \/ GiveUp(d)) \/ SkipRest
         \/ Reconnect \/ Close \/ Teardown \/ Tick \/ UNCHANGED lotteryvars
  PROVE  LotteryInv'
<1> USE DEF LotteryInv
<1>1. UNCHANGED <<sessions, active, made, got>> /\ due' \subseteq due
  BY DEF SendFails, GiveUp, SkipRest, Reconnect, Close, Teardown, Tick, lotteryvars, sessions
<1>2. draw' \in [Worker \cup {Loop} -> {Nothing} \cup Draw] /\ \A d \in Drawer : draw'[d] \in {draw[d], Nothing}
  <2>1. ASSUME NEW e \in Drawer, draw' = [draw EXCEPT ![e] = Nothing]
        PROVE  draw' \in [Worker \cup {Loop} -> {Nothing} \cup Draw] /\ \A d \in Drawer : draw'[d] \in {draw[d], Nothing}
    BY <2>1 DEF LotteryTypeOK, Drawer
  <2>2. CASE draw' = [d \in Worker \cup {Loop} |-> Nothing]  BY <2>2 DEF Drawer
  <2>3. CASE draw' = draw  BY <2>3 DEF LotteryTypeOK
  <2> QED  BY <2>1, <2>2, <2>3 DEF SendFails, GiveUp, SkipRest, Reconnect, Close, Teardown, Tick, lotteryvars
<1>3. Books'  BY <1>1, <1>2, BooksStay
<1>4. Open' = Open  BY <1>1 DEF Open, sessions
<1>5. ws' \in {"down", "up", "closed"} /\ looping' \in BOOLEAN
  BY DEF LotteryTypeOK, SendFails, GiveUp, SkipRest, Reconnect, LoopStarts, Close, Teardown, Tick, lotteryvars, connection
<1>6. drops' \in 0..MaxDrops
  BY LotteryNumbers DEF LotteryTypeOK, SendFails, GiveUp, SkipRest, Reconnect, Close, Teardown, Tick, lotteryvars, connection
<1>7. now' \in 0..MaxTime
  BY LotteryNumbers DEF LotteryTypeOK, SendFails, GiveUp, SkipRest, Reconnect, Close, Teardown, Tick, lotteryvars
<1>8. LotteryTypeOK'  BY <1>1, <1>2, <1>5, <1>6, <1>7 DEF LotteryTypeOK, sessions
<1> QED  BY <1>1, <1>3, <1>4, <1>8 DEF Room

(* Every step keeps the invariant.                                         *)
LEMMA LotterySteps == LotteryInv /\ [LotteryNext]_lotteryvars => LotteryInv'
<1> SUFFICES ASSUME LotteryInv, [LotteryNext]_lotteryvars PROVE LotteryInv'
  OBVIOUS
<1>1. ASSUME NEW g \in QQGroup, NEW u \in User, MemberStep(g, u) PROVE LotteryInv'
  <2>1. CASE Join(g, u)  BY <2>1, JoinKeeps
  <2>2. CASE \E limits \in Limits : Create(g, u, limits)  BY <2>2, CreateKeeps
  <2> QED  BY <1>1, <2>1, <2>2, TalkKeeps DEF MemberStep
<1>2. CASE \E u \in User : Creator(u)  BY <1>2, DepositKeeps
<1>3. CASE \E w \in Worker, g \in QQGroup : DrawEarly(w, g)  BY <1>3, DrawKeeps
<1>4. CASE \E d \in Drawer : Send(d)  BY <1>4, SendKeeps
<1>5. CASE \E g \in QQGroup : Look(g) \/ DrawNext(g)  BY <1>5, DrawKeeps
<1>6. CASE \/ (\E d \in Drawer : SendFails(d) \/ GiveUp(d)) \/ SkipRest
           \/ Reconnect \/ Close \/ Teardown \/ Tick \/ UNCHANGED lotteryvars
  BY <1>6, QuietKeeps
<1> QED  BY <1>1, <1>2, <1>3, <1>4, <1>5, <1>6 DEF LotteryNext, LoopStep, Drawing, Drawer

(* No reward goes out twice, nobody wins twice or without being let in, and*)
(* the vault never runs short, for any number of groups, users, workers,   *)
(* lotteries, replacements and losses of the connection.                   *)
THEOREM RewardsGoOut == LotterySpec => []LotterySafe
<1>1. LotteryInit => LotteryInv  BY LotteryStarts
<1>2. LotteryInv /\ [LotteryNext]_lotteryvars => LotteryInv'  BY LotterySteps
<1>3. LotteryInv => LotterySafe  BY LotteryInvIsSafe
<1> QED  BY <1>1, <1>2, <1>3, PTL DEF LotterySpec

-----------------------------------------------------------------------------
(* Winners are kept *)

\* The stage of a lottery, and its winners to tell, by the tables.
InTable(A, n) == \E g \in QQGroup : A[g] # Nothing /\ A[g].number = n
TellersIn(W, n) == {d \in Worker \cup {Loop} : W[d] # Nothing /\ W[d].number = n}
StageIn(M, A, W, n) ==
  IF n > Len(M) THEN "none" ELSE IF InTable(A, n) THEN "open"
  ELSE IF TellersIn(W, n) # {} THEN "drawing" ELSE "over"
ToTellIn(W, n) == IF TellersIn(W, n) = {} THEN <<>> ELSE W[CHOOSE d \in TellersIn(W, n) : TRUE].winners

\* A lottery lies in the table of one group, or is drawn by one task.
Apart(M, A, W) ==
  /\ \A g \in QQGroup : A[g] # Nothing => A[g].number \in 1..Len(M)
  /\ \A d \in Drawer : W[d] # Nothing => W[d].number \in 1..Len(M)
  /\ \A d, e \in Drawer : W[d] # Nothing /\ W[e] # Nothing /\ W[d].number = W[e].number => d = e
  /\ \A d \in Drawer, g \in QQGroup : W[d] # Nothing /\ A[g] # Nothing => W[d].number # A[g].number

\* The promise reads the tables, before a step and after.
LEMMA PromiseReads ==
  ASSUME NEW n \in LotteryNumber
  PROVE  /\ Stages[n] = StageIn(made, active, draw, n) /\ ToTell[n] = ToTellIn(draw, n)
         /\ Stages'[n] = StageIn(made', active', draw', n) /\ ToTell'[n] = ToTellIn(draw', n)
<1>1. Stages[n] = StageIn(made, active, draw, n)
  BY DEF Stages, StageIn, InTable, TellersIn, IsActive, DrawersOf
<1>2. ToTell[n] = ToTellIn(draw, n)  BY DEF ToTell, ToTellIn, TellersIn, DrawersOf
<1>3. Stages'[n] = StageIn(made', active', draw', n)
  BY DEF Stages, StageIn, InTable, TellersIn, IsActive, DrawersOf
<1>4. ToTell'[n] = ToTellIn(draw', n)  BY DEF ToTell, ToTellIn, TellersIn, DrawersOf
<1> QED  BY <1>1, <1>2, <1>3, <1>4

\* The tables are apart.
LEMMA TablesApart ==
  ASSUME LotteryInv, LotteryInv'
  PROVE  /\ Apart(made, active, draw) /\ Apart(made', active', draw')
         /\ Len(made) \in Nat /\ Len(made') \in Nat
<1>1. Apart(made, active, draw)  BY DEF LotteryInv, Books, Lives, Draws, Apart
<1>2. Apart(made', active', draw')  BY DEF LotteryInv, Books, Lives, Draws, Apart
<1>3. made \in Seq(LotteryData) /\ made' \in Seq(LotteryData)  BY DEF LotteryInv, LotteryTypeOK
<1>4. Len(made) \in Nat /\ Len(made') \in Nat  BY <1>3, LenProperties
<1> QED  BY <1>1, <1>2, <1>4

\* What the tables say of a lottery.
LEMMA StageIs ==
  ASSUME NEW M, NEW A, NEW W, Apart(M, A, W), Len(M) \in Nat, NEW n \in Nat
  PROVE  /\ InTable(A, n) => StageIn(M, A, W, n) = "open" /\ ToTellIn(W, n) = <<>>
         /\ \A d \in Drawer : W[d] # Nothing /\ W[d].number = n =>
              StageIn(M, A, W, n) = "drawing" /\ ToTellIn(W, n) = W[d].winners
         /\ TellersIn(W, n) = {} => ToTellIn(W, n) = <<>>
         /\ ~InTable(A, n) /\ TellersIn(W, n) = {} /\ n <= Len(M) => StageIn(M, A, W, n) = "over"
         /\ InTable(A, n) => n <= Len(M)
         /\ n > Len(M) => StageIn(M, A, W, n) = "none" /\ ToTellIn(W, n) = <<>>
<1>1. ASSUME NEW d \in Drawer, W[d] # Nothing, W[d].number = n
      PROVE  TellersIn(W, n) = {d} /\ n <= Len(M) /\ ~InTable(A, n)
  <2>1. n \in 1..Len(M)  BY <1>1 DEF Apart
  <2>2. \A e \in TellersIn(W, n) : e = d  BY <1>1 DEF Apart, TellersIn, Drawer
  <2>3. d \in TellersIn(W, n)  BY <1>1 DEF TellersIn, Drawer
  <2>4. ~InTable(A, n)  BY <1>1 DEF Apart, InTable
  <2> QED  BY <2>1, <2>2, <2>3, <2>4
<1>2. ASSUME InTable(A, n) PROVE n <= Len(M) /\ TellersIn(W, n) = {}
  <2>1. n \in 1..Len(M)  BY <1>2 DEF Apart, InTable
  <2>2. \A e \in Drawer : ~(W[e] # Nothing /\ W[e].number = n)  BY <1>1, <1>2
  <2> QED  BY <2>1, <2>2 DEF TellersIn, Drawer
<1>3. n > Len(M) => TellersIn(W, n) = {}
  <2>1. \A e \in TellersIn(W, n) : e \in Drawer /\ W[e] # Nothing /\ W[e].number = n  BY DEF TellersIn, Drawer
  <2>2. \A e \in TellersIn(W, n) : n <= Len(M)  BY <2>1, <1>1
  <2> QED  BY <2>2
<1>4. TellersIn(W, n) = {} => ToTellIn(W, n) = <<>>  BY DEF ToTellIn
<1>5. n > Len(M) => StageIn(M, A, W, n) = "none" /\ ToTellIn(W, n) = <<>>  BY <1>3, <1>4 DEF StageIn
<1>6. InTable(A, n) => StageIn(M, A, W, n) = "open" /\ ToTellIn(W, n) = <<>>
  <2>1. n <= Len(M) => ~(n > Len(M))  OBVIOUS
  <2> QED  BY <2>1, <1>2, <1>4 DEF StageIn
<1>7. ASSUME NEW d \in Drawer, W[d] # Nothing, W[d].number = n
      PROVE  StageIn(M, A, W, n) = "drawing" /\ ToTellIn(W, n) = W[d].winners
  <2>1. TellersIn(W, n) = {d} /\ n <= Len(M) /\ ~InTable(A, n)  BY <1>1, <1>7
  <2>2. (CHOOSE e \in {d} : TRUE) = d  OBVIOUS
  <2>3. TellersIn(W, n) # {} /\ ~(n > Len(M))  BY <2>1
  <2>4. StageIn(M, A, W, n) = "drawing"  BY <2>1, <2>3 DEF StageIn
  <2>5. ToTellIn(W, n) = W[d].winners  BY <2>1, <2>2, <2>3 DEF ToTellIn
  <2> QED  BY <2>4, <2>5
<1>8. ~InTable(A, n) /\ TellersIn(W, n) = {} /\ n <= Len(M) => StageIn(M, A, W, n) = "over"
  <2>1. n <= Len(M) => ~(n > Len(M))  OBVIOUS
  <2> QED  BY <2>1 DEF StageIn
<1> QED  BY <1>2, <1>4, <1>5, <1>6, <1>7, <1>8

\* The promise's functions, before a step and after.
LEMMA PromiseMaps ==
  /\ Stages = [n \in LotteryNumber |-> Stages[n]] /\ Stages' = [n \in LotteryNumber |-> Stages'[n]]
  /\ ToTell = [n \in LotteryNumber |-> ToTell[n]] /\ ToTell' = [n \in LotteryNumber |-> ToTell'[n]]
<1>1. Stages = [n \in LotteryNumber |-> Stages[n]]  BY DEF Stages
<1>2. Stages' = [n \in LotteryNumber |-> Stages'[n]]  BY DEF Stages
<1>3. ToTell = [n \in LotteryNumber |-> ToTell[n]]  BY DEF ToTell
<1>4. ToTell' = [n \in LotteryNumber |-> ToTell'[n]]  BY DEF ToTell
<1> QED  BY <1>1, <1>2, <1>3, <1>4

\* Steps that draw, tell and create nothing.
LEMMA PromiseStays ==
  ASSUME UNCHANGED <<made, draw, got>>, \A n : InTable(active', n) <=> InTable(active, n)
  PROVE  UNCHANGED Promised!vars
<1>1. ASSUME NEW n \in LotteryNumber PROVE Stages'[n] = Stages[n] /\ ToTell'[n] = ToTell[n]
  <2>1. StageIn(made', active', draw', n) = StageIn(made, active, draw, n)  BY DEF StageIn
  <2>2. ToTellIn(draw', n) = ToTellIn(draw, n)  OBVIOUS
  <2> QED  BY <2>1, <2>2, PromiseReads
<1>2. Stages' = Stages /\ ToTell' = ToTell  BY <1>1, PromiseMaps
<1> QED  BY <1>2 DEF Promised!vars

\* Draws end unfinished.
LEMMA PromiseEnds ==
  ASSUME LotteryInv, LotteryInv', UNCHANGED <<made, active, got>>, \A d \in Drawer : draw'[d] \in {draw[d], Nothing}
  PROVE  \E ended \in SUBSET LotteryNumber : Promised!End(ended)
<1>1. PICK ended : ended = {n \in LotteryNumber : \E d \in Drawer : draw[d] # Nothing /\ draw[d].number = n /\ draw'[d] = Nothing}
  OBVIOUS
<1>2. PICK W : W = draw'  OBVIOUS
<1>3. /\ Apart(made, active, draw) /\ Apart(made, active, W) /\ Len(made) \in Nat
      /\ \A d \in Drawer : W[d] # Nothing => W[d] = draw[d]
  BY <1>2, TablesApart
<1>4. \A n \in LotteryNumber : n \in Nat  BY DEF LotteryNumber
<1>5. ASSUME NEW n \in ended
      PROVE  Stages[n] = "drawing" /\ Stages'[n] = "over" /\ ToTell'[n] = <<>>
  <2>1. PICK d \in Drawer : draw[d] # Nothing /\ draw[d].number = n /\ W[d] = Nothing  BY <1>1, <1>2
  <2>2. n \in LotteryNumber /\ n \in Nat  BY <1>1, <1>4
  <2>3. StageIn(made, active, draw, n) = "drawing"  BY <2>1, <2>2, <1>3, StageIs
  <2>4. ~InTable(active, n)  BY <2>3, <2>2, <1>3, StageIs
  <2>5. TellersIn(W, n) = {}
    <3> SUFFICES ASSUME NEW e \in TellersIn(W, n) PROVE FALSE
      OBVIOUS
    <3>1. e \in Drawer /\ W[e] # Nothing /\ W[e].number = n  BY DEF TellersIn, Drawer
    <3>2. draw[e] # Nothing /\ draw[e].number = n  BY <3>1, <1>3
    <3>3. e = d  BY <3>1, <3>2, <2>1, <1>3 DEF Apart
    <3> QED  BY <3>1, <3>3, <2>1
  <2>6. n <= Len(made)
    <3>1. n \in 1..Len(made)  BY <2>1, <1>3 DEF Apart
    <3> QED  BY <3>1
  <2>7. StageIn(made, active, W, n) = "over" /\ ToTellIn(W, n) = <<>>  BY <2>2, <2>4, <2>5, <2>6, <1>3, StageIs
  <2> QED  BY <2>2, <2>3, <2>7, <1>2, PromiseReads
<1>6. ASSUME NEW n \in LotteryNumber, n \notin ended PROVE Stages'[n] = Stages[n] /\ ToTell'[n] = ToTell[n]
  <2>1. TellersIn(W, n) = TellersIn(draw, n)
    <3>1. ASSUME NEW e \in TellersIn(W, n) PROVE e \in TellersIn(draw, n)  BY <1>3 DEF TellersIn, Drawer
    <3>2. ASSUME NEW e \in TellersIn(draw, n) PROVE e \in TellersIn(W, n)
      <4>1. e \in Drawer /\ draw[e] # Nothing /\ draw[e].number = n  BY DEF TellersIn, Drawer
      <4>2. W[e] = draw[e]  BY <4>1, <1>1, <1>2, <1>6
      <4> QED  BY <4>1, <4>2 DEF TellersIn, Drawer
    <3> QED  BY <3>1, <3>2
  <2>2. StageIn(made, active, W, n) = StageIn(made, active, draw, n)  BY <2>1 DEF StageIn
  <2>3. ToTellIn(W, n) = ToTellIn(draw, n)
    <3>1. CASE TellersIn(draw, n) = {}  BY <3>1, <2>1 DEF ToTellIn
    <3>2. CASE TellersIn(draw, n) # {}
      <4>1. PICK e \in TellersIn(W, n) : TRUE  BY <3>2, <2>1
      <4>2. e \in Drawer /\ W[e] # Nothing /\ W[e].number = n  BY DEF TellersIn, Drawer
      <4>3. draw[e] # Nothing /\ draw[e].number = n /\ W[e] = draw[e]  BY <4>2, <1>3
      <4>4. ToTellIn(W, n) = W[e].winners  BY <4>2, <1>3, <1>4, StageIs
      <4>5. ToTellIn(draw, n) = draw[e].winners  BY <4>2, <4>3, <1>3, <1>4, StageIs
      <4> QED  BY <4>3, <4>4, <4>5
    <3> QED  BY <3>1, <3>2
  <2> QED  BY <2>2, <2>3, <1>2, PromiseReads
<1>7. ended \in SUBSET LotteryNumber  BY <1>1
<1>8. \A n \in LotteryNumber : Stages'[n] = IF n \in ended THEN "over" ELSE Stages[n]  BY <1>5, <1>6
<1>9. Stages' = [n \in LotteryNumber |-> IF n \in ended THEN "over" ELSE Stages[n]]  BY <1>8, PromiseMaps
<1>10. \A n \in LotteryNumber : ToTell'[n] = IF n \in ended THEN <<>> ELSE ToTell[n]  BY <1>5, <1>6
<1>11. ToTell' = [n \in LotteryNumber |-> IF n \in ended THEN <<>> ELSE ToTell[n]]  BY <1>10, PromiseMaps
<1>12. \A n \in ended : Stages[n] \in {"open", "drawing"}  BY <1>5
<1>13. Promised!End(ended)  BY <1>9, <1>11, <1>12 DEF Promised!End
<1> QED  BY <1>7, <1>13

\* A lottery is created, and may replace one.
LEMMA PromiseOpens ==
  ASSUME LotteryInv, LotteryInv', NEW g \in QQGroup, NEW u \in User, NEW limits \in Limits, Create(g, u, limits)
  PROVE  \E n \in LotteryNumber : \E old \in {{}} \cup {{k} : k \in LotteryNumber} : Promised!Open(n, old)
<1>1. PICK n, l : /\ n = Len(made) + 1
                  /\ l = [number |-> n, creator |-> u, count |-> dialog[<<g, u>>].count, limits |-> limits,
                          end |-> now + dialog[<<g, u>>].minutes, joined |-> {}, vault |-> 0]
  OBVIOUS
<1>2. active' = [active EXCEPT ![g] = l] /\ made' = Append(made, l) /\ UNCHANGED <<draw, got>>
  BY <1>1 DEF Create
<1>3. PICK M, A : M = made' /\ A = active'  OBVIOUS
<1>4. Apart(made, active, draw) /\ Apart(M, A, draw) /\ Len(made) \in Nat /\ Len(M) \in Nat  BY <1>2, <1>3, TablesApart
<1>5. /\ made \in Seq(LotteryData) /\ M \in Seq(LotteryData) /\ Len(M) <= MaxLotteries
      /\ active \in [QQGroup -> {Nothing} \cup LotteryData]
  BY <1>3 DEF LotteryInv, LotteryTypeOK
<1>6. /\ Len(M) = n /\ M[n] = l /\ \A k \in 1..Len(made) : M[k] = made[k]
  <2>1. PICK S : S = LotteryData \cup {l}  OBVIOUS
  <2>2. made \in Seq(S) /\ l \in S  BY <2>1, <1>5
  <2> QED  BY <2>2, <1>1, <1>2, <1>3, AppendProperties
<1>7. n \in Nat /\ n \in LotteryNumber /\ n \in 1..n  BY <1>1, <1>4, <1>5, <1>6, LotteryNumbers DEF LotteryNumber
<1>8. l \in LotteryData /\ l # Nothing
  <2>1. M[n] \in LotteryData  BY <1>5, <1>6, <1>7
  <2> QED  BY <2>1, <1>6, NothingAssumption
<1>9. A[g] = l /\ l.number = n /\ \A h \in QQGroup : h # g => A[h] = active[h]  BY <1>1, <1>2, <1>3, <1>5
<1>10. PICK old : old = IF active[g] = Nothing THEN {} ELSE {active[g].number}  OBVIOUS
<1>11. \A k \in LotteryNumber : k \in Nat  BY DEF LotteryNumber
<1>12. Stages[n] = "none"
  <2>1. n > Len(made)  BY <1>1, <1>4
  <2> QED  BY <2>1, <1>4, <1>7, StageIs, PromiseReads
<1>13. Stages'[n] = "open"
  <2>1. InTable(A, n)  BY <1>8, <1>9 DEF InTable
  <2>2. StageIn(M, A, draw, n) = "open"  BY <2>1, <1>4, <1>7, StageIs
  <2> QED  BY <2>2, <1>2, <1>3, <1>7, PromiseReads
<1>14. ASSUME NEW k \in LotteryNumber PROVE ToTell'[k] = ToTell[k]
  <2>1. ToTell'[k] = ToTellIn(draw', k)  BY PromiseReads
  <2>2. ToTell[k] = ToTellIn(draw, k)  BY PromiseReads
  <2> QED  BY <2>1, <2>2, <1>2
<1>15. ASSUME NEW k \in old PROVE k \in LotteryNumber /\ Stages[k] = "open" /\ Stages'[k] = "over" /\ k # n
  <2>1. active[g] # Nothing /\ k = active[g].number  BY <1>10
  <2>2. k \in 1..Len(made)  BY <2>1, <1>4 DEF Apart
  <2>3. k \in Nat /\ k \in LotteryNumber /\ k # n /\ k <= Len(M)
    BY <2>2, <1>1, <1>4, <1>5, <1>6, LotteryNumbers DEF LotteryNumber
  <2>4. InTable(active, k)  BY <2>1 DEF InTable
  <2>5. Stages[k] = "open"  BY <2>3, <2>4, <1>4, StageIs, PromiseReads
  <2>6. ~InTable(A, k)
    <3> SUFFICES ASSUME NEW h \in QQGroup, A[h] # Nothing, A[h].number = k PROVE FALSE
      BY DEF InTable
    <3>1. h # g  BY <2>3, <1>9
    <3>2. active[h] # Nothing /\ active[h].number = active[g].number  BY <3>1, <2>1, <1>9
    <3> QED  BY <3>1, <3>2, <2>1 DEF LotteryInv, Books
  <2>7. TellersIn(draw, k) = {}
    <3> SUFFICES ASSUME NEW e \in TellersIn(draw, k) PROVE FALSE
      OBVIOUS
    <3>1. e \in Drawer /\ draw[e] # Nothing /\ draw[e].number = k  BY DEF TellersIn, Drawer
    <3> QED  BY <3>1, <2>1, <1>4 DEF Apart
  <2>8. StageIn(M, A, draw, k) = "over"  BY <2>3, <2>6, <2>7, <1>4, StageIs
  <2> QED  BY <2>3, <2>5, <2>8, <1>2, <1>3, PromiseReads
<1>16. ASSUME NEW k \in LotteryNumber, k \notin old, k # n PROVE Stages'[k] = Stages[k]
  <2>1. k > Len(M) <=> k > Len(made)  BY <1>1, <1>4, <1>6, <1>11, <1>16
  <2>2. InTable(A, k) <=> InTable(active, k)
    <3>1. ASSUME NEW h \in QQGroup, A[h] # Nothing, A[h].number = k PROVE InTable(active, k)
      <4>1. h # g  BY <3>1, <1>9, <1>16
      <4> QED  BY <3>1, <4>1, <1>9 DEF InTable
    <3>2. ASSUME NEW h \in QQGroup, active[h] # Nothing, active[h].number = k PROVE InTable(A, k)
      <4>1. h # g  BY <3>2, <1>10, <1>16
      <4> QED  BY <3>2, <4>1, <1>9 DEF InTable
    <3> QED  BY <3>1, <3>2 DEF InTable
  <2>3. StageIn(M, A, draw, k) = StageIn(made, active, draw, k)  BY <2>1, <2>2 DEF StageIn
  <2> QED  BY <2>3, <1>2, <1>3, PromiseReads
<1>17. old \in {{}} \cup {{k} : k \in LotteryNumber}  BY <1>10, <1>15
<1>18. \A k \in old : Stages[k] = "open"  BY <1>15
<1>19. \A k \in LotteryNumber : Stages'[k] = IF k = n THEN "open" ELSE IF k \in old THEN "over" ELSE Stages[k]
  BY <1>13, <1>15, <1>16
<1>20. Stages' = [k \in LotteryNumber |-> IF k = n THEN "open" ELSE IF k \in old THEN "over" ELSE Stages[k]]
  BY <1>19, PromiseMaps
<1>21. UNCHANGED <<ToTell, got>>  BY <1>2, <1>14, PromiseMaps
<1>22. Len(made') = n /\ \A k \in 1..Len(made) : made'[k] = made[k]  BY <1>3, <1>6
<1>23. Promised!Open(n, old)  BY <1>1, <1>12, <1>18, <1>20, <1>21, <1>22 DEF Promised!Open
<1> QED  BY <1>7, <1>17, <1>23

\* A draw takes a lottery out of the table, with winners and rewards or not.
LEMMA PromiseDraws ==
  ASSUME LotteryInv, LotteryInv', NEW d \in Drawer, NEW g \in QQGroup, draw[d] = Nothing, active[g] # Nothing, Begins(d, g),
         UNCHANGED <<made, got>>
  PROVE  \E n \in LotteryNumber : Promised!Draw(n) \/ Promised!End({n})
<1>1. PICK l, x, n, A, W : l = active[g] /\ draw' = [draw EXCEPT ![d] = x] /\ n = l.number /\ A = active' /\ W = draw'
  BY DEF Begins
<1>2. active' = [active EXCEPT ![g] = Nothing]  BY DEF Begins, Taken
<1>3. /\ Apart(made, active, draw) /\ Apart(made, A, W) /\ Len(made) \in Nat
  BY <1>1, TablesApart
<1>4. active \in [QQGroup -> {Nothing} \cup LotteryData] /\ draw \in [Worker \cup {Loop} -> {Nothing} \cup Draw]
  BY DEF LotteryInv, LotteryTypeOK
<1>5. A[g] = Nothing /\ \A h \in QQGroup : h # g => A[h] = active[h]  BY <1>1, <1>2, <1>4
<1>6. W[d] = x /\ \A e \in Drawer : e # d => W[e] = draw[e]  BY <1>1, <1>4 DEF Drawer
<1>7. n \in 1..Len(made)  BY <1>1, <1>3 DEF Apart
<1>8. n \in Nat /\ n <= Len(made) /\ n \in LotteryNumber  BY <1>1, <1>3, <1>4, <1>7 DEF LotteryData
<1>9. \A k \in LotteryNumber : k \in Nat  BY DEF LotteryNumber
<1>10. Stages[n] = "open" /\ ToTell[n] = <<>>
  <2>1. InTable(active, n)  BY <1>1 DEF InTable
  <2> QED  BY <2>1, <1>3, <1>8, StageIs, PromiseReads
<1>11. ~InTable(A, n)
  <2> SUFFICES ASSUME NEW h \in QQGroup, A[h] # Nothing, A[h].number = n PROVE FALSE
    BY DEF InTable
  <2>1. h # g  BY <1>5
  <2>2. active[h] # Nothing /\ active[h].number = active[g].number  BY <2>1, <1>1, <1>5
  <2> QED  BY <2>1, <2>2 DEF LotteryInv, Books
<1>12. \A e \in Drawer : draw[e] # Nothing => draw[e].number # n  BY <1>1, <1>3 DEF Apart
<1>13. x # Nothing => x.number = n
  <2>1. PICK lineup : x = (IF l.vault = 0 \/ lineup = <<>> THEN Nothing
                           ELSE [number |-> l.number, winners |-> lineup, vault |-> l.vault])
    <3>1. \E lineup \in Lineups(l) :
            draw' = [draw EXCEPT ![d] = IF l.vault = 0 \/ lineup = <<>> THEN Nothing
                                        ELSE [number |-> l.number, winners |-> lineup, vault |-> l.vault]]
      BY <1>1 DEF Begins
    <3>2. PICK lineup, y : /\ y = (IF l.vault = 0 \/ lineup = <<>> THEN Nothing
                                   ELSE [number |-> l.number, winners |-> lineup, vault |-> l.vault])
                           /\ draw' = [draw EXCEPT ![d] = y]
      BY <3>1
    <3>3. W[d] = y  BY <3>2, <1>1, <1>4 DEF Drawer
    <3> QED  BY <3>2, <3>3, <1>6
  <2> QED  BY <2>1, <1>1
<1>14. ASSUME NEW k \in LotteryNumber, k # n PROVE Stages'[k] = Stages[k] /\ ToTell'[k] = ToTell[k]
  <2>1. InTable(A, k) <=> InTable(active, k)
    <3>1. ASSUME NEW h \in QQGroup, A[h] # Nothing, A[h].number = k PROVE InTable(active, k)
      BY <3>1, <1>5 DEF InTable
    <3>2. ASSUME NEW h \in QQGroup, active[h] # Nothing, active[h].number = k PROVE InTable(A, k)
      <4>1. h # g  BY <3>2, <1>1, <1>14
      <4> QED  BY <3>2, <4>1, <1>5 DEF InTable
    <3> QED  BY <3>1, <3>2 DEF InTable
  <2>2. \A e \in TellersIn(W, k) : e \in TellersIn(draw, k)
    <3> SUFFICES ASSUME NEW e \in TellersIn(W, k) PROVE e \in TellersIn(draw, k)
      OBVIOUS
    <3>1. e \in Drawer /\ W[e] # Nothing /\ W[e].number = k  BY DEF TellersIn, Drawer
    <3>2. e # d  BY <3>1, <1>6, <1>13, <1>14
    <3> QED  BY <3>1, <3>2, <1>6 DEF TellersIn, Drawer
  <2>3. \A e \in TellersIn(draw, k) : e \in TellersIn(W, k) /\ e \in Drawer /\ W[e] = draw[e] /\ W[e] # Nothing /\ W[e].number = k
    <3> SUFFICES ASSUME NEW e \in TellersIn(draw, k)
                 PROVE  e \in TellersIn(W, k) /\ e \in Drawer /\ W[e] = draw[e] /\ W[e] # Nothing /\ W[e].number = k
      OBVIOUS
    <3>1. e \in Drawer /\ draw[e] # Nothing /\ draw[e].number = k  BY DEF TellersIn, Drawer
    <3>2. e # d  BY <3>1
    <3>3. W[e] = draw[e]  BY <3>1, <3>2, <1>6
    <3> QED  BY <3>1, <3>3 DEF TellersIn, Drawer
  <2>4. TellersIn(W, k) = TellersIn(draw, k)  BY <2>2, <2>3
  <2>5. StageIn(made, A, W, k) = StageIn(made, active, draw, k)  BY <2>1, <2>4 DEF StageIn
  <2>6. ToTellIn(W, k) = ToTellIn(draw, k)
    <3>1. CASE TellersIn(draw, k) = {}  BY <3>1, <2>4 DEF ToTellIn
    <3>2. CASE TellersIn(draw, k) # {}
      <4>1. PICK e \in TellersIn(draw, k) : TRUE  BY <3>2
      <4>2. e \in Drawer /\ W[e] = draw[e] /\ W[e] # Nothing /\ W[e].number = k  BY <2>3
      <4>3. ToTellIn(W, k) = W[e].winners  BY <4>2, <1>3, <1>9, StageIs
      <4>4. ToTellIn(draw, k) = draw[e].winners
        <5>1. draw[e] # Nothing /\ draw[e].number = k  BY <4>2
        <5> QED  BY <5>1, <4>2, <1>3, <1>9, StageIs
      <4> QED  BY <4>2, <4>3, <4>4
    <3> QED  BY <3>1, <3>2
  <2> QED  BY <2>5, <2>6, <1>1, PromiseReads
<1>15. CASE x = Nothing
  <2>1. TellersIn(W, n) = {}
    <3> SUFFICES ASSUME NEW e \in TellersIn(W, n) PROVE FALSE
      OBVIOUS
    <3>1. e \in Drawer /\ W[e] # Nothing /\ W[e].number = n  BY DEF TellersIn, Drawer
    <3>2. e # d  BY <3>1, <1>6, <1>15
    <3> QED  BY <3>1, <3>2, <1>6, <1>12
  <2>2. StageIn(made, A, W, n) = "over" /\ ToTellIn(W, n) = <<>>  BY <2>1, <1>3, <1>8, <1>11, StageIs
  <2>3. Stages'[n] = "over" /\ ToTell'[n] = <<>>  BY <2>2, <1>1, <1>8, PromiseReads
  <2>4. \A k \in LotteryNumber : Stages'[k] = IF k \in {n} THEN "over" ELSE Stages[k]  BY <2>3, <1>14
  <2>5. \A k \in LotteryNumber : ToTell'[k] = IF k \in {n} THEN <<>> ELSE ToTell[k]  BY <2>3, <1>14
  <2>6. Stages' = [k \in LotteryNumber |-> IF k \in {n} THEN "over" ELSE Stages[k]]  BY <2>4, PromiseMaps
  <2>7. ToTell' = [k \in LotteryNumber |-> IF k \in {n} THEN <<>> ELSE ToTell[k]]  BY <2>5, PromiseMaps
  <2>8. \A k \in {n} : Stages[k] \in {"open", "drawing"}  BY <1>10
  <2>9. Promised!End({n})  BY <2>6, <2>7, <2>8 DEF Promised!End
  <2> QED  BY <2>9, <1>8
<1>16. CASE x # Nothing
  <2>1. W[d] # Nothing /\ W[d].number = n  BY <1>6, <1>13, <1>16
  <2>2. StageIn(made, A, W, n) = "drawing" /\ ToTellIn(W, n) = x.winners  BY <2>1, <1>3, <1>6, <1>8, StageIs
  <2>3. Stages'[n] = "drawing" /\ ToTell'[n] = x.winners  BY <2>2, <1>1, <1>8, PromiseReads
  <2>4. PICK y, t : y = ToTell'[n] /\ t = made[n]  OBVIOUS
  <2>5. /\ Len(y) <= t.count /\ NoRepeats(y) /\ LetIn(t.limits, y)
    <3>1. draw'[d] = x /\ draw'[d] # Nothing  BY <1>1, <1>6, <1>16
    <3>2. Draws(draw[d])'  BY <3>1 DEF LotteryInv, Books
    <3>3. /\ Len(got'[n]) + Len(x.winners) <= made'[n].count
          /\ NoRepeats(x.winners) /\ LetIn(made'[n].limits, x.winners)
      BY <3>1, <3>2, <1>13 DEF Draws, NoRepeats, LetIn
    <3>4. made'[n].count \in Nat /\ Len(got'[n]) \in Nat /\ Len(x.winners) \in Nat
      <4>1. made' \in Seq(LotteryData) /\ got' \in [LotteryNumber -> Seq(User)] /\ draw' \in [Worker \cup {Loop} -> {Nothing} \cup Draw]
        BY DEF LotteryInv, LotteryTypeOK
      <4>2. made'[n] \in LotteryData  BY <4>1, <1>7
      <4>3. x \in Draw  BY <4>1, <3>1 DEF Drawer
      <4>4. x.winners \in Seq(User) /\ got'[n] \in Seq(User)  BY <4>1, <4>3, <1>8 DEF Draw
      <4> QED  BY <4>2, <4>4, LenProperties DEF LotteryData, Positive
    <3>5. PICK a, b, c \in Nat : a = Len(got'[n]) /\ b = Len(x.winners) /\ c = made'[n].count  BY <3>4
    <3>6. a + b <= c  BY <3>3, <3>5
    <3>7. b <= c  BY <3>6
    <3>8. Len(x.winners) <= made'[n].count  BY <3>5, <3>7
    <3> QED  BY <3>3, <3>8, <2>3, <2>4
  <2>6. Promised!Fair(t, y)  BY <2>5 DEF Promised!Fair, Promised!Admits, NoRepeats, LetIn
  <2>7. \A k \in LotteryNumber : Stages'[k] = [Stages EXCEPT ![n] = "drawing"][k]  BY <2>3, <1>14, PromiseMaps
  <2>8. Stages' = [Stages EXCEPT ![n] = "drawing"]  BY <2>3, <1>14, PromiseMaps
  <2>9. ToTell' = [ToTell EXCEPT ![n] = ToTell'[n]]  BY <1>14, PromiseMaps
  <2>10. Promised!Draw(n)  BY <2>4, <2>6, <2>8, <2>9, <1>10 DEF Promised!Draw
  <2> QED  BY <2>10, <1>8
<1> QED  BY <1>15, <1>16

\* A winner is told.
LEMMA PromiseRewards ==
  ASSUME LotteryInv, LotteryInv', NEW d \in Drawer, Send(d)
  PROVE  \E n \in LotteryNumber : Promised!Reward(n)
<1>1. PICK x, n, s, t : x = draw[d] /\ n = x.number /\ s = got[n] /\ t = x.winners  OBVIOUS
<1>2. x # Nothing /\ Draws(x) /\ n \in 1..Len(made)
  <2>1. x # Nothing /\ Draws(x)  BY <1>1 DEF Send, LotteryInv, Books
  <2> QED  BY <2>1, <1>1 DEF Draws
<1>3. PICK w, rest, y : /\ w = Head(t) /\ rest = Tail(t)
                        /\ y = (IF rest = <<>> THEN Nothing
                                ELSE [number |-> n, winners |-> rest, vault |-> x.vault - 1])
  OBVIOUS
<1>4. /\ draw' = [draw EXCEPT ![d] = y] /\ got' = [got EXCEPT ![n] = Append(s, w)]
      /\ UNCHANGED <<active, made>>
  BY <1>1, <1>3 DEF Send
<1>5. PICK W : W = draw'  OBVIOUS
<1>6. /\ Apart(made, active, draw) /\ Apart(made, active, W) /\ Len(made) \in Nat
  BY <1>4, <1>5, TablesApart
<1>7. draw \in [Worker \cup {Loop} -> {Nothing} \cup Draw] /\ got \in [LotteryNumber -> Seq(User)]
  BY DEF LotteryInv, LotteryTypeOK
<1>8. W[d] = y /\ \A e \in Drawer : e # d => W[e] = draw[e]  BY <1>4, <1>5, <1>7 DEF Drawer
<1>9. n \in Nat /\ n \in LotteryNumber /\ n <= Len(made)
  <2>1. n \in LotteryNumber  BY <1>2, LotterySequences DEF LotteryInv
  <2> QED  BY <2>1, <1>2, <1>6 DEF LotteryNumber
<1>10. \A k \in LotteryNumber : k \in Nat  BY DEF LotteryNumber
<1>11. Stages[n] = "drawing" /\ ToTell[n] = t /\ ~InTable(active, n)
  <2>1. StageIn(made, active, draw, n) = "drawing" /\ ToTellIn(draw, n) = t  BY <1>1, <1>2, <1>6, <1>9, StageIs
  <2>2. ~InTable(active, n)  BY <2>1, <1>6, <1>9, StageIs
  <2> QED  BY <2>1, <2>2, <1>9, PromiseReads
<1>12. t # <<>>
  <2>1. Len(t) > 0  BY <1>1, <1>2 DEF Draws
  <2> QED  BY <2>1, EmptySeq
<1>13. \A e \in Drawer : e # d /\ draw[e] # Nothing => draw[e].number # n  BY <1>1, <1>2, <1>6 DEF Apart
<1>14. y # Nothing => y.number = n /\ y.winners = rest  BY <1>3
<1>15. Stages'[n] = (IF rest = <<>> THEN "over" ELSE "drawing") /\ ToTell'[n] = rest
  <2>1. CASE rest = <<>>
    <3>1. TellersIn(W, n) = {}
      <4> SUFFICES ASSUME NEW e \in TellersIn(W, n) PROVE FALSE
        OBVIOUS
      <4>1. e \in Drawer /\ W[e] # Nothing /\ W[e].number = n  BY DEF TellersIn, Drawer
      <4>2. e # d  BY <4>1, <2>1, <1>3, <1>8
      <4> QED  BY <4>1, <4>2, <1>8, <1>13
    <3>2. StageIn(made, active, W, n) = "over" /\ ToTellIn(W, n) = <<>>  BY <3>1, <1>6, <1>9, <1>11, StageIs
    <3> QED  BY <3>2, <2>1, <1>4, <1>5, <1>9, PromiseReads
  <2>2. CASE rest # <<>>
    <3>1. y = [number |-> n, winners |-> rest, vault |-> x.vault - 1]  BY <2>2, <1>3
    <3>2. W[d] # Nothing
      <4>1. W[d] \in {Nothing} \cup Draw  BY <1>5 DEF LotteryInv, LotteryTypeOK, Drawer
      <4>2. PICK a, b : a = x.vault - 1 /\ b = y /\ b = [number |-> n, winners |-> rest, vault |-> a]  BY <3>1
      <4>3. b \in Draw
        <5>1. x \in Draw  BY <1>1, <1>2, <1>7 DEF Drawer
        <5>2. t \in Seq(User) /\ x.vault \in Nat  BY <5>1, <1>1 DEF Draw
        <5>3. rest \in Seq(User)  BY <5>2, <1>3, <1>12, HeadTailProperties
        <5>4. Len(rest) \in Nat /\ Len(t) = Len(rest) + 1  BY <5>2, <5>3, <1>3, <1>12, HeadTailProperties, LenProperties
        <5>5. Len(t) <= x.vault  BY <1>1, <1>2 DEF Draws
        <5>6. PICK i, j \in Nat : i = Len(rest) /\ j = x.vault /\ i + 1 <= j  BY <5>2, <5>4, <5>5
        <5>7. j - 1 \in Nat  BY <5>6
        <5>8. a \in Nat  BY <5>6, <5>7, <4>2
        <5> QED  BY <5>3, <5>8, <4>2, <1>9 DEF Draw
      <4> QED  BY <4>2, <4>3, <1>8, NothingAssumption
    <3>3. W[d].number = n /\ W[d].winners = rest  BY <3>2, <1>8, <1>14
    <3>4. StageIn(made, active, W, n) = "drawing" /\ ToTellIn(W, n) = rest  BY <3>2, <3>3, <1>6, <1>9, StageIs
    <3> QED  BY <3>4, <2>2, <1>4, <1>5, <1>9, PromiseReads
  <2> QED  BY <2>1, <2>2
<1>16. ASSUME NEW k \in LotteryNumber, k # n PROVE Stages'[k] = Stages[k] /\ ToTell'[k] = ToTell[k]
  <2>1. \A e \in TellersIn(W, k) : e \in TellersIn(draw, k)
    <3> SUFFICES ASSUME NEW e \in TellersIn(W, k) PROVE e \in TellersIn(draw, k)
      OBVIOUS
    <3>1. e \in Drawer /\ W[e] # Nothing /\ W[e].number = k  BY DEF TellersIn, Drawer
    <3>2. e # d  BY <3>1, <1>8, <1>14, <1>16
    <3> QED  BY <3>1, <3>2, <1>8 DEF TellersIn, Drawer
  <2>2. \A e \in TellersIn(draw, k) : e \in TellersIn(W, k) /\ e \in Drawer /\ W[e] = draw[e] /\ W[e] # Nothing /\ W[e].number = k
    <3> SUFFICES ASSUME NEW e \in TellersIn(draw, k)
                 PROVE  e \in TellersIn(W, k) /\ e \in Drawer /\ W[e] = draw[e] /\ W[e] # Nothing /\ W[e].number = k
      OBVIOUS
    <3>1. e \in Drawer /\ draw[e] # Nothing /\ draw[e].number = k  BY DEF TellersIn, Drawer
    <3>2. e # d  BY <3>1, <1>1, <1>16
    <3>3. W[e] = draw[e]  BY <3>1, <3>2, <1>8
    <3> QED  BY <3>1, <3>3 DEF TellersIn, Drawer
  <2>3. TellersIn(W, k) = TellersIn(draw, k)  BY <2>1, <2>2
  <2>4. StageIn(made, active, W, k) = StageIn(made, active, draw, k)  BY <2>3 DEF StageIn
  <2>5. ToTellIn(W, k) = ToTellIn(draw, k)
    <3>1. CASE TellersIn(draw, k) = {}  BY <3>1, <2>3 DEF ToTellIn
    <3>2. CASE TellersIn(draw, k) # {}
      <4>1. PICK e \in TellersIn(draw, k) : TRUE  BY <3>2
      <4>2. e \in Drawer /\ W[e] = draw[e] /\ W[e] # Nothing /\ W[e].number = k  BY <2>2
      <4>3. ToTellIn(W, k) = W[e].winners  BY <4>2, <1>6, <1>10, StageIs
      <4>4. ToTellIn(draw, k) = draw[e].winners
        <5>1. draw[e] # Nothing /\ draw[e].number = k  BY <4>2
        <5> QED  BY <5>1, <4>2, <1>6, <1>10, StageIs
      <4> QED  BY <4>2, <4>3, <4>4
    <3> QED  BY <3>1, <3>2
  <2> QED  BY <2>4, <2>5, <1>4, <1>5, PromiseReads
<1>17. Stages' = [Stages EXCEPT ![n] = IF rest = <<>> THEN "over" ELSE @]  BY <1>11, <1>15, <1>16, PromiseMaps
<1>18. ToTell' = [ToTell EXCEPT ![n] = rest]  BY <1>15, <1>16, PromiseMaps
<1>19. got' = [got EXCEPT ![n] = Append(@, w)]  BY <1>1, <1>4
<1>20. rest = Tail(ToTell[n]) /\ w = Head(ToTell[n])  BY <1>3, <1>11
<1>21. ToTell' = [ToTell EXCEPT ![n] = Tail(@)]  BY <1>18, <1>20
<1>22. Promised!Reward(n)  BY <1>4, <1>11, <1>12, <1>17, <1>19, <1>20, <1>21 DEF Promised!Reward
<1> QED  BY <1>9, <1>22

\* Nothing is promised yet.
LEMMA PromiseStarts == LotteryInit => Promised!Init
<1> SUFFICES ASSUME LotteryInit PROVE Promised!Init
  OBVIOUS
<1>1. \A n \in LotteryNumber : n > Len(<<>>)  BY LotteryNumbers, EmptySeq DEF LotteryNumber
<1>2. \A n : DrawersOf(n) = {}  BY DEF DrawersOf, LotteryInit
<1>3. Stages = [n \in LotteryNumber |-> "none"]  BY <1>1 DEF Stages, LotteryInit
<1>4. ToTell = [n \in LotteryNumber |-> <<>>]  BY <1>2 DEF ToTell
<1> QED  BY <1>3, <1>4 DEF Promised!Init, LotteryInit

\* Members talk and join, and creators deposit.
LEMMA PromiseKept ==
  ASSUME LotteryInv, LotteryInv', NEW u \in User,
         (\E g \in QQGroup : MemberStep(g, u)) \/ Creator(u)
  PROVE  [Promised!Next]_(Promised!vars)
<1>1. CASE \E g \in QQGroup, limits \in Limits : Create(g, u, limits)
  <2>1. \E n \in LotteryNumber : \E old \in {{}} \cup {{k} : k \in LotteryNumber} : Promised!Open(n, old)
    BY <1>1, PromiseOpens
  <2> QED  BY <2>1 DEF Promised!Next
<1>2. CASE UNCHANGED <<made, draw, got, active>>
  <2>1. \A n : InTable(active', n) <=> InTable(active, n)  BY <1>2
  <2> QED  BY <2>1, <1>2, PromiseStays
<1>3. ASSUME NEW g \in QQGroup, active[g] # Nothing, NEW l, l.number = active[g].number,
             active' = [active EXCEPT ![g] = l], l # Nothing, UNCHANGED <<made, draw, got>>
      PROVE  [Promised!Next]_(Promised!vars)
  <2>1. PICK A : A = active'  OBVIOUS
  <2>2. active \in [QQGroup -> {Nothing} \cup LotteryData]  BY DEF LotteryInv, LotteryTypeOK
  <2>3. A[g] = l /\ \A h \in QQGroup : h # g => A[h] = active[h]  BY <1>3, <2>1, <2>2
  <2>4. \A h \in QQGroup : (A[h] # Nothing <=> active[h] # Nothing) /\ (A[h] # Nothing => A[h].number = active[h].number)
    BY <1>3, <2>3
  <2>5. \A n : InTable(A, n) <=> InTable(active, n)  BY <2>4 DEF InTable
  <2>6. \A n : InTable(active', n) <=> InTable(active, n)  BY <2>1, <2>5
  <2> QED  BY <2>6, <1>3, PromiseStays
<1>4. ASSUME NEW g \in QQGroup, Join(g, u) PROVE [Promised!Next]_(Promised!vars)
  <2>1. PICK l : l = [active[g] EXCEPT !.joined = @ \cup {u}]  OBVIOUS
  <2>2. active' = [active EXCEPT ![g] = l] /\ UNCHANGED <<made, draw, got>> /\ active[g] # Nothing
    BY <1>4, <2>1 DEF Join
  <2>3. active[g] \in LotteryData  BY <2>2 DEF LotteryInv, LotteryTypeOK
  <2>4. l \in LotteryData /\ l.number = active[g].number  BY <2>1, <2>3 DEF LotteryData
  <2> QED  BY <2>2, <2>4, <1>3, NothingAssumption
<1>5. ASSUME NEW n \in Counts, Deposit(u, n) PROVE [Promised!Next]_(Promised!vars)
  <2>1. PICK g \in QQGroup : g = deposit[u]
    <3>1. deposit[u] \in {Nothing} \cup QQGroup  BY DEF LotteryInv, LotteryTypeOK
    <3> QED  BY <3>1, <1>5 DEF Deposit
  <2>2. PICK l : l = [active[g] EXCEPT !.vault = n]  OBVIOUS
  <2>3. active' = [active EXCEPT ![g] = l] /\ UNCHANGED <<made, draw, got>> /\ active[g] # Nothing
    BY <1>5, <2>1, <2>2 DEF Deposit
  <2>4. active[g] \in LotteryData /\ n \in Nat  BY <2>3, LotteryAssumption DEF LotteryInv, LotteryTypeOK
  <2>5. l \in LotteryData /\ l.number = active[g].number  BY <2>2, <2>4 DEF LotteryData
  <2> QED  BY <2>3, <2>5, <1>3, NothingAssumption
<1>6. ASSUME NEW g \in QQGroup,
             \/ Begin(g, u) \/ Cancel(g, u) \/ Forget(g, u) \/ \E n \in Counts \cup Minutes : Configure(g, u, n)
      PROVE  UNCHANGED <<made, draw, got, active>>
  BY <1>6 DEF Begin, Cancel, Forget, Configure
<1>7. (\E g \in QQGroup : OpenDeposit(u, g)) \/ EndDeposit(u) => UNCHANGED <<made, draw, got, active>>
  BY DEF OpenDeposit, EndDeposit
<1> QED  BY <1>1, <1>2, <1>4, <1>5, <1>6, <1>7 DEF MemberStep, Creator

\* Every step is one of the promise, or leaves it as it is.
LEMMA PromiseSteps == LotteryInv /\ LotteryInv' /\ [LotteryNext]_lotteryvars => [Promised!Next]_(Promised!vars)
<1> SUFFICES ASSUME LotteryInv, LotteryInv', [LotteryNext]_lotteryvars PROVE [Promised!Next]_(Promised!vars)
  OBVIOUS
<1>1. ASSUME NEW u \in User, (\E g \in QQGroup : MemberStep(g, u)) \/ Creator(u) PROVE [Promised!Next]_(Promised!vars)
  BY <1>1, PromiseKept
<1>2. ASSUME NEW g \in QQGroup, (\E w \in Worker : DrawEarly(w, g)) \/ Look(g) \/ DrawNext(g)
      PROVE  [Promised!Next]_(Promised!vars)
  <2>1. PICK d \in Drawer : draw[d] = Nothing /\ active[g] # Nothing /\ Begins(d, g)
    BY <1>2 DEF DrawEarly, Look, DrawNext, Waiting, Expired, Drawer
  <2>2. UNCHANGED <<made, got>>  BY <1>2 DEF DrawEarly, Look, DrawNext
  <2>3. \E n \in LotteryNumber : Promised!Draw(n) \/ Promised!End({n})  BY <2>1, <2>2, PromiseDraws
  <2> QED  BY <2>3 DEF Promised!Next
<1>3. ASSUME NEW d \in Drawer, Send(d) PROVE [Promised!Next]_(Promised!vars)
  <2>1. \E n \in LotteryNumber : Promised!Reward(n)  BY <1>3, PromiseRewards
  <2> QED  BY <2>1 DEF Promised!Next
<1>4. CASE \/ (\E d \in Drawer : SendFails(d) \/ GiveUp(d)) \/ SkipRest
           \/ Reconnect \/ Close \/ Teardown \/ Tick \/ UNCHANGED lotteryvars
  <2>1. UNCHANGED <<active, made, got>>
    BY <1>4 DEF SendFails, GiveUp, SkipRest, Reconnect, Close, Teardown, Tick, lotteryvars
  <2>2. \A d \in Drawer : draw'[d] \in {draw[d], Nothing}
    <3>1. ASSUME NEW e \in Drawer, draw' = [draw EXCEPT ![e] = Nothing]
          PROVE  \A d \in Drawer : draw'[d] \in {draw[d], Nothing}
      BY <3>1 DEF LotteryInv, LotteryTypeOK, Drawer
    <3>2. CASE draw' = [d \in Worker \cup {Loop} |-> Nothing]  BY <3>2 DEF Drawer
    <3>3. CASE draw' = draw  BY <3>3
    <3> QED  BY <3>1, <3>2, <3>3, <1>4 DEF SendFails, GiveUp, SkipRest, Reconnect, Close, Teardown, Tick, lotteryvars
  <2>3. \E ended \in SUBSET LotteryNumber : Promised!End(ended)  BY <2>1, <2>2, PromiseEnds
  <2> QED  BY <2>3 DEF Promised!Next
<1> QED  BY <1>1, <1>2, <1>3, <1>4 DEF LotteryNext, LoopStep, Drawing, Drawer

\* A lottery keeps what it promises (Giveaway), for any number of groups,
\* users, workers, lotteries, replacements and losses of the connection.
THEOREM WinnersStay == LotterySpec => WinnersAreKept
<1>1. LotteryInit => LotteryInv /\ Promised!Init  BY LotteryStarts, PromiseStarts
<1>2. LotteryInv /\ [LotteryNext]_lotteryvars => LotteryInv'  BY LotterySteps
<1>3. LotteryInv /\ LotteryInv' /\ [LotteryNext]_lotteryvars => [Promised!Next]_(Promised!vars)  BY PromiseSteps
<1> QED  BY <1>1, <1>2, <1>3, PTL DEF LotterySpec, WinnersAreKept, Promised!Spec
=============================================================================
