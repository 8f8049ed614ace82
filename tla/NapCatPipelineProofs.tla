------------------------ MODULE NapCatPipelineProofs ------------------------
(***************************************************************************)
(* The pipeline of the NapCat bot keeps the promise of Inbox and answers a *)
(* message a bounded number of times, for any messages, workers and        *)
(* connections, as long as no dedup key is evicted.                        *)
(***************************************************************************)
EXTENDS NapCatPipeline, FiniteSetTheorems, SequenceTheorems, TLAPS

\* No more messages come than dedup keys are kept.
KeysLast == IsFiniteSet(Msg) /\ Cardinality(Msg) <= MaxProcessed

NoRepeat(s) == \A i, j \in 1..Len(s) : s[i] = s[j] => i = j

-----------------------------------------------------------------------------
(* Sequences without repetition *)

\* The elements of a sequence are the values at its positions.
LEMMA Elements ==
  ASSUME NEW S, NEW s \in Seq(S)
  PROVE  /\ ToSet(s) = {s[i] : i \in 1..Len(s)}
         /\ ToSet(s) \subseteq S
         /\ \A i \in 1..Len(s) : s[i] \in ToSet(s)
         /\ \A x \in ToSet(s) : \E i \in 1..Len(s) : s[i] = x
<1>1. DOMAIN s = 1..Len(s) /\ \A i \in 1..Len(s) : s[i] \in S
  BY LenProperties, ElementOfSeq
<1>2. ToSet(s) = {s[i] : i \in 1..Len(s)}
  BY <1>1 DEF ToSet
<1> QED  BY <1>1, <1>2

\* The empty sequence has no elements.
LEMMA Empty ==
  ASSUME NEW s, s = <<>>
  PROVE  ToSet(s) = {} /\ NoRepeat(s)
<1>1. s \in Seq({}) /\ Len(s) = 0  BY EmptySeq
<1>2. \A t \in Seq({}) : ToSet(t) = {t[i] : i \in 1..Len(t)}  BY Elements
<1>3. ToSet(s) = {s[i] : i \in 1..Len(s)}  BY <1>1, <1>2
<1>4. ToSet(s) = {}  BY <1>1, <1>3
<1> QED  BY <1>1, <1>4 DEF NoRepeat

\* An element that is not there yet can be appended.
LEMMA AppendNew ==
  ASSUME NEW S, NEW s \in Seq(S), NEW e \in S, NoRepeat(s), e \notin ToSet(s)
  PROVE  /\ Append(s, e) \in Seq(S)
         /\ Len(Append(s, e)) = Len(s) + 1
         /\ NoRepeat(Append(s, e))
         /\ ToSet(Append(s, e)) = ToSet(s) \cup {e}
<1> DEFINE t == Append(s, e)
<1>1. /\ t \in Seq(S) /\ Len(t) = Len(s) + 1
      /\ \A i \in 1..Len(s) : t[i] = s[i]
      /\ t[Len(s) + 1] = e
  BY AppendProperties
<1>2. Len(s) \in Nat  BY LenProperties
<1>3. \A i \in 1..Len(s) : s[i] \in ToSet(s) /\ s[i] # e  BY Elements
<1> HIDE DEF t
<1>4. NoRepeat(t)  BY <1>1, <1>2, <1>3 DEF NoRepeat
<1>5. ToSet(t) = {t[i] : i \in 1..Len(t)}  BY <1>1, Elements
<1>6. ToSet(s) = {s[i] : i \in 1..Len(s)}  BY Elements
<1>7. ToSet(t) = ToSet(s) \cup {e}
  <2>1. \A x \in ToSet(t) : x \in ToSet(s) \cup {e}  BY <1>1, <1>2, <1>5, <1>6
  <2>2. \A x \in ToSet(s) : x \in ToSet(t)
    <3>1. TAKE x \in ToSet(s)
    <3>2. PICK i \in 1..Len(s) : s[i] = x  BY <1>6
    <3>3. i \in 1..Len(t) /\ t[i] = x  BY <3>2, <1>1, <1>2
    <3> QED  BY <3>3, <1>5
  <2>3. e \in ToSet(t)
    <3>1. Len(s) + 1 \in 1..Len(t)  BY <1>1, <1>2
    <3> QED  BY <3>1, <1>1, <1>5
  <2> QED  BY <2>1, <2>2, <2>3
<1> QED  BY <1>1, <1>4, <1>7 DEF t

\* Taking the first element takes it out.
LEMMA TailOf ==
  ASSUME NEW S, NEW s \in Seq(S), s # <<>>
  PROVE  /\ Head(s) \in S /\ Head(s) \in ToSet(s)
         /\ Tail(s) \in Seq(S) /\ Len(Tail(s)) = Len(s) - 1
         /\ ToSet(Tail(s)) \subseteq ToSet(s)
         /\ NoRepeat(s) => NoRepeat(Tail(s)) /\ ToSet(Tail(s)) = ToSet(s) \ {Head(s)}
<1> DEFINE t == Tail(s)
<1>1. Head(s) \in S /\ t \in Seq(S) /\ Len(t) = Len(s) - 1
      /\ \A i \in 1..Len(t) : t[i] = s[i + 1]
  BY HeadTailProperties
<1>2. Len(s) \in Nat /\ Len(s) # 0  BY EmptySeq, LenProperties
<1>3. Head(s) = s[1]  BY <1>2
<1>4. ToSet(s) = {s[i] : i \in 1..Len(s)}  BY Elements
<1>5. ToSet(t) = {t[i] : i \in 1..Len(t)}  BY <1>1, Elements
<1> HIDE DEF t
<1>6. Head(s) \in ToSet(s)  BY <1>2, <1>3, <1>4
<1>7. ToSet(t) \subseteq ToSet(s)
  <2>1. ASSUME NEW i \in 1..Len(t)  PROVE t[i] \in ToSet(s)
    <3>1. i + 1 \in 1..Len(s)  BY <1>1, <1>2
    <3> QED  BY <3>1, <1>1, <1>4
  <2> QED  BY <2>1, <1>5
<1>8. ASSUME NoRepeat(s)
      PROVE  NoRepeat(t) /\ ToSet(t) = ToSet(s) \ {Head(s)}
  <2>1. NoRepeat(t)  BY <1>1, <1>2, <1>8 DEF NoRepeat
  <2>2. \A i \in 1..Len(t) : t[i] # Head(s)
    BY <1>1, <1>2, <1>3, <1>8 DEF NoRepeat
  <2>3. ASSUME NEW x \in ToSet(s), x # Head(s)  PROVE x \in ToSet(t)
    <3>1. PICK i \in 1..Len(s) : s[i] = x  BY <1>4
    <3>2. i # 1  BY <3>1, <2>3, <1>3
    <3>3. i - 1 \in 1..Len(t) /\ t[i - 1] = x  BY <3>1, <3>2, <1>1, <1>2
    <3> QED  BY <3>3, <1>5
  <2> QED  BY <2>1, <2>2, <2>3, <1>7, <1>5
<1> QED  BY <1>1, <1>6, <1>7, <1>8 DEF t

\* So can an element be inserted anywhere.
LEMMA InsertNew ==
  ASSUME NEW S, NEW s \in Seq(S), NEW e \in S, NEW k \in 0..Len(s),
         NoRepeat(s), e \notin ToSet(s)
  PROVE  /\ InsertAt(s, k + 1, e) \in Seq(S)
         /\ Len(InsertAt(s, k + 1, e)) = Len(s) + 1
         /\ NoRepeat(InsertAt(s, k + 1, e))
         /\ ToSet(InsertAt(s, k + 1, e)) = ToSet(s) \cup {e}
<1> DEFINE a == SubSeq(s, 1, k)
           b == SubSeq(s, k + 1, Len(s))
           t == (a \o <<e>>) \o b
<1>0. Len(s) \in Nat /\ \A i \in 1..Len(s) : s[i] \in S  BY LenProperties, ElementOfSeq
<1>1. a \in Seq(S) /\ Len(a) = k /\ \A i \in 1..k : a[i] = s[i]
  <2>1. \A i \in 1..k : s[i] \in S  BY <1>0
  <2>2. /\ a \in Seq(S) /\ Len(a) = (IF 1 <= k THEN k - 1 + 1 ELSE 0)
        /\ \A i \in 1..(k - 1 + 1) : a[i] = s[1 + i - 1]
    BY <2>1, SubSeqProperties
  <2> HIDE DEF a
  <2> QED  BY <2>2, <1>0
<1>2. b \in Seq(S) /\ Len(b) = Len(s) - k /\ \A i \in 1..(Len(s) - k) : b[i] = s[k + i]
  <2>1. \A i \in (k + 1)..Len(s) : s[i] \in S  BY <1>0
  <2>2. /\ b \in Seq(S)
        /\ Len(b) = (IF k + 1 <= Len(s) THEN Len(s) - (k + 1) + 1 ELSE 0)
        /\ \A i \in 1..(Len(s) - (k + 1) + 1) : b[i] = s[(k + 1) + i - 1]
    BY <2>1, <1>0, SubSeqProperties
  <2> HIDE DEF b
  <2> QED  BY <2>2, <1>0
<1> HIDE DEF a, b
<1>3. <<e>> \in Seq(S) /\ Len(<<e>>) = 1 /\ <<e>>[1] = e  OBVIOUS
<1>4. a \o <<e>> \in Seq(S) /\ Len(a \o <<e>>) = k + 1
      /\ \A i \in 1..(k + 1) : (a \o <<e>>)[i] = IF i <= k THEN a[i] ELSE <<e>>[i - k]
  BY <1>1, <1>3, ConcatProperties
<1> DEFINE c == a \o <<e>>
<1>5. c \in Seq(S) /\ Len(c) = k + 1 /\ c[k + 1] = e /\ \A i \in 1..k : c[i] = s[i]
  BY <1>4, <1>1, <1>3, <1>0
<1> HIDE DEF c
<1>6. c \o b \in Seq(S) /\ Len(c \o b) = Len(c) + Len(b)
      /\ \A i \in 1..(Len(c) + Len(b)) :
           (c \o b)[i] = IF i <= Len(c) THEN c[i] ELSE b[i - Len(c)]
  BY <1>2, <1>5, ConcatProperties
<1>7. t = c \o b  BY DEF c
<1> HIDE DEF t
<1>8. t \in Seq(S) /\ Len(t) = Len(s) + 1
  <2>1. t \in Seq(S) /\ Len(t) = Len(c) + Len(b)  BY <1>6, <1>7
  <2>2. Len(c) = k + 1 /\ Len(b) = Len(s) - k  BY <1>2, <1>5
  <2> QED  BY <2>1, <2>2, <1>0
<1>9. /\ t[k + 1] = e
      /\ \A i \in 1..k : t[i] = s[i]
  BY <1>0, <1>2, <1>5, <1>6, <1>7
<1>10. \A i \in (k + 2)..(Len(s) + 1) : t[i] = s[i - 1]
  <2>1. TAKE i \in (k + 2)..(Len(s) + 1)
  <2>2. t[i] = b[i - (k + 1)]  BY <1>0, <1>2, <1>5, <1>6, <1>7
  <2>3. i - (k + 1) \in 1..(Len(s) - k)  BY <1>0
  <2>4. b[i - (k + 1)] = s[k + (i - (k + 1))]  BY <2>3, <1>2
  <2>5. k + (i - (k + 1)) = i - 1  BY <1>0
  <2> QED  BY <2>2, <2>4, <2>5
<1>11. \A i \in 1..Len(s) : s[i] \in ToSet(s) /\ s[i] # e  BY Elements
<1>12. NoRepeat(t)
  <2>1. SUFFICES ASSUME NEW i \in 1..Len(t), NEW j \in 1..Len(t), t[i] = t[j]
                 PROVE  i = j
    BY DEF NoRepeat
  <2> DEFINE at(n) == IF n <= k THEN n ELSE n - 1
  <2>2. ASSUME NEW n \in 1..Len(t), n # k + 1
        PROVE  at(n) \in 1..Len(s) /\ t[n] = s[at(n)]
    <3>1. n \in 1..k \/ n \in (k + 2)..(Len(s) + 1)  BY <2>2, <1>8, <1>0
    <3>2. CASE n \in 1..k  BY <3>2, <1>9, <1>0
    <3>3. CASE n \in (k + 2)..(Len(s) + 1)  BY <3>3, <1>10, <1>0
    <3> QED  BY <3>1, <3>2, <3>3
  <2>3. CASE i = k + 1 \/ j = k + 1
    BY <2>1, <2>2, <2>3, <1>9, <1>11
  <2>4. CASE i # k + 1 /\ j # k + 1
    <3>1. s[at(i)] = s[at(j)] /\ at(i) \in 1..Len(s) /\ at(j) \in 1..Len(s)
      BY <2>1, <2>2, <2>4
    <3> HIDE DEF at
    <3>2. at(i) = at(j)  BY <3>1 DEF NoRepeat
    <3> QED  BY <3>2, <2>4, <1>0, <1>8 DEF at
  <2> QED  BY <2>3, <2>4
<1>13. ToSet(t) = ToSet(s) \cup {e}
  <2>1. ToSet(t) = {t[i] : i \in 1..Len(t)} /\ ToSet(s) = {s[i] : i \in 1..Len(s)}
    BY <1>8, Elements
  <2>2. ASSUME NEW i \in 1..Len(t)  PROVE t[i] \in ToSet(s) \cup {e}
    <3>1. i \in 1..k \/ i = k + 1 \/ i \in (k + 2)..(Len(s) + 1)  BY <1>8, <1>0
    <3>2. CASE i \in 1..k  BY <3>2, <1>9, <1>11, <1>0
    <3>3. CASE i = k + 1  BY <3>3, <1>9
    <3>4. CASE i \in (k + 2)..(Len(s) + 1)
      <4>1. i - 1 \in 1..Len(s)  BY <3>4, <1>0
      <4> QED  BY <4>1, <3>4, <1>10, <1>11
    <3> QED  BY <3>1, <3>2, <3>3, <3>4
  <2>3. ASSUME NEW i \in 1..Len(s)  PROVE s[i] \in ToSet(t)
    <3>1. CASE i <= k
      <4>1. i \in 1..Len(t) /\ t[i] = s[i]  BY <3>1, <1>9, <1>8, <1>0
      <4> QED  BY <4>1, <2>1
    <3>2. CASE ~ (i <= k)
      <4>1. i + 1 \in (k + 2)..(Len(s) + 1) /\ i + 1 \in 1..Len(t)  BY <3>2, <1>8, <1>0
      <4>2. t[i + 1] = s[(i + 1) - 1]  BY <4>1, <1>10
      <4>3. (i + 1) - 1 = i  BY <1>0
      <4> QED  BY <4>1, <4>2, <4>3, <2>1
    <3> QED  BY <3>1, <3>2
  <2>4. e \in ToSet(t)
    <3>1. k + 1 \in 1..Len(t)  BY <1>8, <1>0
    <3> QED  BY <3>1, <1>9, <2>1
  <2> QED  BY <2>1, <2>2, <2>3, <2>4
<1>14. InsertAt(s, k + 1, e) = t
  <2>1. (k + 1) - 1 = k  BY <1>0
  <2> QED  BY <2>1 DEF InsertAt, t, a, b
<1> QED  BY <1>8, <1>12, <1>13, <1>14

\* As long as no key is evicted there is room for one more.
LEMMA RoomForKey ==
  ASSUME KeysLast, NEW s \in Seq(Msg), NEW m \in Msg, NoRepeat(s), m \notin ToSet(s)
  PROVE  Len(s) + 1 <= MaxProcessed
<1> DEFINE t == Append(s, m)
<1>1. t \in Seq(Msg) /\ Len(t) = Len(s) + 1 /\ NoRepeat(t)  BY AppendNew
<1>2. Len(t) \in Nat /\ t \in [1..Len(t) -> Msg]  BY <1>1, LenProperties
<1> HIDE DEF t
<1>3. t \in Injection(1..Len(t), Msg)
  BY <1>1, <1>2 DEF NoRepeat, Injection, IsInjective
<1>4. Cardinality(1..Len(t)) <= Cardinality(Msg)
  BY <1>3, FS_Injection DEF KeysLast
<1>5. Cardinality(1..Len(t)) = Len(t)
  <2>1. 1 \in Int /\ Len(t) \in Int  BY <1>2
  <2>2. \A a, b \in Int : Cardinality(a..b) = IF a > b THEN 0 ELSE b - a + 1
    BY FS_Interval
  <2>3. Cardinality(1..Len(t)) = IF 1 > Len(t) THEN 0 ELSE Len(t) - 1 + 1
    BY <2>1, <2>2
  <2> QED  BY <2>3, <1>2
<1>6. Cardinality(Msg) \in Nat  BY FS_CardinalityType DEF KeysLast
<1> QED  BY <1>1, <1>2, <1>4, <1>5, <1>6, BoundsAssumption DEF KeysLast

-----------------------------------------------------------------------------
(* The invariant *)

\* A message is remembered before it is queued or handled, and only one of the
\* two holds of it.
QueueInv ==
  /\ NoRepeat(processed) /\ NoRepeat(queue)
  /\ ToSet(queue) \subseteq ToSet(processed)
  /\ \A m \in Msg : handled[m] <= 1 /\ (handled[m] > 0 => m \in ToSet(processed))
  /\ \A m \in ToSet(queue) : handled[m] = 0

\* A worker's message was handled once, by this worker.
WorkInv ==
  /\ \A w \in Worker : worker[w] # Idle => handled[worker[w].msg] = 1
  /\ \A v, w \in Worker :
       v # w /\ worker[v] # Idle /\ worker[w] # Idle => worker[v].msg # worker[w].msg

DownInv == NothingSurvivesTheConnection /\ (ws = "down" => remote = {})

\* The attempts of a message that NapCat has not answered.
Open(m) == {k \in 1..MaxRetries : <<m, k>> \in remote}

\* Of the first t attempts each was made once at most, and no other.
Within(m, t) ==
  /\ performed[m] + Cardinality(Open(m)) <= t
  /\ \A k \in Open(m) : k <= t

Made(job) == IF job.pc = "waiting" THEN job.attempt ELSE job.attempt - 1

SendInv ==
  /\ \A m \in Msg : Within(m, MaxRetries) /\ (handled[m] = 0 => Within(m, 0))
  /\ \A w \in Worker : worker[w] # Idle => Within(worker[w].msg, Made(worker[w]))

PipelineInv ==
  TypeOK /\ QueueInv /\ WorkInv /\ DownInv /\ TableIsExact /\ SendInv

-----------------------------------------------------------------------------
(* Jobs *)

\* A worker is idle or holds a job.
LEMMA JobShape ==
  ASSUME NEW j \in {Idle} \cup Job
  PROVE  /\ j = Idle <=> j.pc = "idle"
         /\ j # Idle => /\ j \in Job /\ j.msg \in Msg /\ j.attempt \in 1..MaxRetries
                        /\ j.pc \in {"working", "waiting"}
                        /\ EchoOf(j) \in Echo
BY DEF Idle, Job, EchoOf, Echo

\* What the type says of one worker.
LEMMA JobsOfType ==
  ASSUME TypeOK, NEW w \in Worker
  PROVE  /\ worker[w] \in {Idle} \cup Job
         /\ worker[w] = Idle <=> worker[w].pc = "idle"
         /\ worker[w] # Idle => /\ worker[w] \in Job /\ worker[w].msg \in Msg
                                /\ worker[w].attempt \in 1..MaxRetries
                                /\ worker[w].pc \in {"working", "waiting"}
                                /\ EchoOf(worker[w]) \in Echo
<1>1. worker[w] \in {Idle} \cup Job  BY DEF TypeOK
<1> QED  BY <1>1, JobShape

\* The next attempt is for the same message, or there is none.
LEMMA NextAttemptShape ==
  ASSUME NEW j \in Job
  PROVE  /\ NextAttempt(j) \in {Idle} \cup Job
         /\ NextAttempt(j) # Idle => /\ NextAttempt(j).msg = j.msg
                                     /\ NextAttempt(j).attempt = j.attempt + 1
         /\ NextAttempt(j).pc \in {"idle", "working"}
<1>1. CASE j.attempt < MaxRetries
  <2> DEFINE a == j.attempt + 1
  <2>1. a \in 1..MaxRetries  BY <1>1, BoundsAssumption DEF Job
  <2>2. NextAttempt(j) = [j EXCEPT !.pc = "working", !.attempt = a]
    BY <1>1 DEF NextAttempt
  <2> HIDE DEF a
  <2>3. /\ NextAttempt(j) \in Job /\ NextAttempt(j).msg = j.msg
        /\ NextAttempt(j).attempt = a /\ NextAttempt(j).pc = "working"
    BY <2>1, <2>2 DEF Job
  <2> QED  BY <2>3 DEF a
<1>2. CASE ~ (j.attempt < MaxRetries)
  BY <1>2 DEF NextAttempt, Idle
<1> QED  BY <1>1, <1>2

\* No step but Take gives a worker a message.
LEMMA NoNewJob ==
  ASSUME TypeOK, Next, \A w \in Worker : ~ Take(w), NEW v \in Worker
  PROVE  /\ worker'[v] \in {Idle} \cup Job
         /\ worker'[v] # Idle => worker[v] # Idle /\ worker'[v].msg = worker[v].msg
<1> USE DEF TypeOK
<1>0. worker[v] \in {Idle} \cup Job /\ worker \in [Worker -> {Idle} \cup Job]  OBVIOUS
<1>1. CASE UNCHANGED worker  BY <1>0, <1>1
<1>2. CASE Teardown  BY <1>0, <1>2 DEF Teardown
<1>3. CASE ReadResponse
  <2> DEFINE p == Head(wire)
  <2>1. CASE ~ Waits(v, p.of)
    <3>1. worker'[v] = worker[v]  BY <1>3, <2>1 DEF ReadResponse
    <3> QED  BY <3>1, <1>0
  <2>2. CASE Waits(v, p.of)
    <3>1. worker[v] \in Job /\ worker[v] # Idle
      BY <2>2, <1>0, JobShape DEF Waits
    <3>2. worker'[v] = NextAttempt(worker[v]) \/ worker'[v] = Idle
      BY <1>3, <2>2 DEF ReadResponse
    <3> QED  BY <3>1, <3>2, NextAttemptShape
  <2> QED  BY <2>1, <2>2
<1>4. ASSUME NEW w \in Worker, Call(w)
      PROVE  /\ worker'[v] \in {Idle} \cup Job
             /\ worker'[v] # Idle => worker[v] # Idle /\ worker'[v].msg = worker[v].msg
  <2>1. worker' = [worker EXCEPT ![w].pc = "waiting"] /\ worker[w].pc = "working"
    BY <1>4 DEF Call
  <2>2. CASE v # w
    <3>1. worker'[v] = worker[v]  BY <2>1, <2>2
    <3> QED  BY <3>1, <1>0
  <2>3. CASE v = w
    <3>1. worker[v] \in Job /\ worker[v] # Idle  BY <2>1, <2>3, <1>0, JobShape
    <3>2. worker'[v] = [worker[v] EXCEPT !.pc = "waiting"]  BY <2>1, <2>3
    <3>3. worker'[v] \in Job /\ worker'[v].msg = worker[v].msg  BY <3>1, <3>2 DEF Job
    <3> QED  BY <3>1, <3>3
  <2> QED  BY <2>2, <2>3
<1>5. ASSUME NEW w \in Worker, CallTimeout(w)
      PROVE  /\ worker'[v] \in {Idle} \cup Job
             /\ worker'[v] # Idle => worker[v] # Idle /\ worker'[v].msg = worker[v].msg
  <2>1. worker' = [worker EXCEPT ![w] = NextAttempt(worker[w])] /\ worker[w].pc = "waiting"
    BY <1>5 DEF CallTimeout
  <2>2. CASE v # w
    <3>1. worker'[v] = worker[v]  BY <2>1, <2>2
    <3> QED  BY <3>1, <1>0
  <2>3. CASE v = w
    <3>1. worker[v] \in Job /\ worker[v] # Idle  BY <2>1, <2>3, <1>0, JobShape
    <3>2. worker'[v] = NextAttempt(worker[v])  BY <2>1, <2>3
    <3> QED  BY <3>1, <3>2, NextAttemptShape
  <2> QED  BY <2>2, <2>3
<1>6. ASSUME NEW w \in Worker, CallOnClosed(w) \/ GiveUp(w)
      PROVE  /\ worker'[v] \in {Idle} \cup Job
             /\ worker'[v] # Idle => worker[v] # Idle /\ worker'[v].msg = worker[v].msg
  <2>1. worker' = [worker EXCEPT ![w] = Idle]  BY <1>6 DEF CallOnClosed, GiveUp
  <2> QED  BY <2>1, <1>0
<1> QED
  BY <1>1, <1>2, <1>3, <1>4, <1>5, <1>6
  DEF Next, Network, ReaderStep, Handling, Deliver, DeliverRequest, Answer, Close, Connect,
      ReadMessage, ReadRequest, ReaderTimeout
-----------------------------------------------------------------------------
(* What the steps do to the queue, the keys and the wire *)

\* A message that was seen changes nothing; a new one is remembered, and queued
\* if there is room.
LEMMA ReadMessageEffect ==
  ASSUME TypeOK, KeysLast, QueueInv, ReadMessage
  PROVE  \E m \in Msg :
           \/ m \in ToSet(processed) /\ UNCHANGED <<processed, queue>>
           \/ /\ m \notin ToSet(processed)
              /\ processed' \in Seq(Msg) /\ Len(processed') <= MaxProcessed
              /\ NoRepeat(processed') /\ ToSet(processed') = ToSet(processed) \cup {m}
              /\ \/ queue' = queue
                 \/ /\ queue' \in Seq(Msg) /\ Len(queue') <= QueueMax
                    /\ NoRepeat(queue') /\ ToSet(queue') = ToSet(queue) \cup {m}
<1> DEFINE m == Head(wire).of
<1>1. m \in Msg
  <2>1. wire \in Seq(Packet) /\ wire # <<>> /\ Head(wire).kind = "message"
    BY DEF TypeOK, ReadMessage, NextPacket
  <2>2. Head(wire) \in Packet  BY <2>1, HeadTailProperties
  <2> QED  BY <2>1, <2>2 DEF Packet
<1>2. IF m \notin ToSet(processed)
        THEN processed' = Remember(m) /\ queue' = QueueWith(m)
        ELSE UNCHANGED <<processed, queue>>
  BY DEF ReadMessage, Fresh
<1> HIDE DEF m
<1>3. CASE m \in ToSet(processed)  BY <1>1, <1>2, <1>3
<1>4. CASE m \notin ToSet(processed)
  <2>1. /\ processed \in Seq(Msg) /\ NoRepeat(processed)
        /\ queue \in Seq(Msg) /\ NoRepeat(queue) /\ Len(queue) <= QueueMax
        /\ m \notin ToSet(queue)
    BY <1>4 DEF TypeOK, QueueInv
  <2>2. Len(processed) + 1 <= MaxProcessed  BY <1>1, <1>4, <2>1, RoomForKey
  <2>3. /\ Append(processed, m) \in Seq(Msg)
        /\ Len(Append(processed, m)) = Len(processed) + 1
        /\ NoRepeat(Append(processed, m))
        /\ ToSet(Append(processed, m)) = ToSet(processed) \cup {m}
    BY <1>1, <1>4, <2>1, AppendNew
  <2>4. Remember(m) = Append(processed, m)
    BY <2>1, <2>2, <2>3, LenProperties, BoundsAssumption DEF Remember
  <2>5. CASE ~ (Len(queue) < QueueMax)
    <3>1. queue' = queue  BY <1>2, <1>4, <2>5 DEF QueueWith
    <3> QED  BY <3>1, <1>1, <1>2, <1>4, <2>2, <2>3, <2>4
  <2>6. CASE Len(queue) < QueueMax
    <3> DEFINE ahead == IF m \in Vip THEN {i \in DOMAIN queue : queue[i] \in Vip}
                        ELSE DOMAIN queue
               k == Cardinality(ahead)
    <3>1. Len(queue) \in Nat /\ DOMAIN queue = 1..Len(queue)  BY <2>1, LenProperties
    <3>2. k \in 0..Len(queue)
      <4>1. ahead \in SUBSET (1..Len(queue))  BY <3>1
      <4>2. IsFiniteSet(1..Len(queue)) /\ Cardinality(1..Len(queue)) = Len(queue)
        <5>1. \A a, b \in Int : /\ IsFiniteSet(a..b)
                                /\ Cardinality(a..b) = IF a > b THEN 0 ELSE b - a + 1
          BY FS_Interval
        <5>2. 1 \in Int /\ Len(queue) \in Int  BY <3>1
        <5>3. IsFiniteSet(1..Len(queue))
          BY <5>1, <5>2
        <5>4. Cardinality(1..Len(queue)) = IF 1 > Len(queue) THEN 0 ELSE Len(queue) - 1 + 1
          BY <5>1, <5>2
        <5> QED  BY <5>3, <5>4, <3>1
      <4> HIDE DEF ahead
      <4>3. IsFiniteSet(ahead) /\ Cardinality(ahead) <= Len(queue)
        BY <4>1, <4>2, FS_Subset
      <4>4. Cardinality(ahead) \in Nat  BY <4>3, FS_CardinalityType
      <4> QED  BY <4>3, <4>4, <3>1
    <3>3. queue' = InsertAt(queue, k + 1, m)
      BY <1>2, <1>4, <2>6 DEF QueueWith, Enqueued
    <3> HIDE DEF k
    <3>4. /\ queue' \in Seq(Msg) /\ Len(queue') = Len(queue) + 1
          /\ NoRepeat(queue') /\ ToSet(queue') = ToSet(queue) \cup {m}
      BY <1>1, <2>1, <3>2, <3>3, InsertNew
    <3>5. Len(queue') <= QueueMax  BY <3>1, <3>4, <2>6, BoundsAssumption
    <3> QED  BY <3>4, <3>5, <1>1, <1>2, <1>4, <2>2, <2>3, <2>4
  <2> QED  BY <2>5, <2>6
<1> QED  BY <1>3, <1>4

\* The message a worker takes was waiting, and waits no longer.
LEMMA TakeEffect ==
  ASSUME TypeOK, QueueInv, NEW w \in Worker, Take(w)
  PROVE  /\ Head(queue) \in Msg /\ Head(queue) \in ToSet(queue)
         /\ queue' \in Seq(Msg) /\ Len(queue') <= QueueMax /\ NoRepeat(queue')
         /\ ToSet(queue') = ToSet(queue) \ {Head(queue)}
         /\ handled[Head(queue)] = 0
         /\ handled' = [handled EXCEPT ![Head(queue)] = 1]
<1>1. queue \in Seq(Msg) /\ queue # <<>> /\ NoRepeat(queue) /\ Len(queue) <= QueueMax
  BY DEF TypeOK, QueueInv, Take
<1>2. /\ Head(queue) \in Msg /\ Head(queue) \in ToSet(queue)
      /\ Tail(queue) \in Seq(Msg) /\ Len(Tail(queue)) = Len(queue) - 1
      /\ NoRepeat(Tail(queue)) /\ ToSet(Tail(queue)) = ToSet(queue) \ {Head(queue)}
  BY <1>1, TailOf
<1>3. Len(queue) \in Nat  BY <1>1, LenProperties
<1>4. queue' = Tail(queue) /\ handled' = [handled EXCEPT ![Head(queue)] = @ + 1]
  BY DEF Take
<1>5. handled[Head(queue)] = 0  BY <1>2 DEF QueueInv
<1>6. Len(queue') <= QueueMax  BY <1>1, <1>2, <1>3, <1>4, BoundsAssumption
<1> QED  BY <1>2, <1>4, <1>5, <1>6

\* The wire takes packets at its end and gives them at its front.
LEMMA WireKept ==
  ASSUME TypeOK, Next
  PROVE  wire' \in Seq(Packet) /\ Len(wire') <= MaxWire
<1>1. wire \in Seq(Packet) /\ Len(wire) <= MaxWire /\ Len(wire) \in Nat
  BY LenProperties DEF TypeOK
<1>2. ASSUME NEW p \in Packet, Arrives(p)
      PROVE  wire' \in Seq(Packet) /\ Len(wire') <= MaxWire
  <2>1. wire' = Append(wire, p) /\ Len(wire) < MaxWire  BY <1>2 DEF Arrives
  <2>2. Append(wire, p) \in Seq(Packet) /\ Len(Append(wire, p)) = Len(wire) + 1
    BY <1>1, AppendProperties
  <2> QED  BY <2>1, <2>2, <1>1, BoundsAssumption
<1>3. ASSUME NEW kind, NextPacket(kind)
      PROVE  wire' \in Seq(Packet) /\ Len(wire') <= MaxWire
  <2>1. wire' = Tail(wire) /\ wire # <<>>  BY <1>3 DEF NextPacket
  <2>2. Tail(wire) \in Seq(Packet) /\ Len(Tail(wire)) = Len(wire) - 1
    BY <1>1, <2>1, HeadTailProperties
  <2> QED  BY <2>1, <2>2, <1>1, BoundsAssumption
<1>4. ASSUME NEW m \in Msg, Deliver(m)
      PROVE  wire' \in Seq(Packet) /\ Len(wire') <= MaxWire
  <2>1. [kind |-> "message", of |-> m] \in Packet  BY DEF Packet
  <2> QED  BY <2>1, <1>2, <1>4 DEF Deliver
<1>5. ASSUME NEW r \in Request, DeliverRequest(r)
      PROVE  wire' \in Seq(Packet) /\ Len(wire') <= MaxWire
  <2>1. [kind |-> "request", of |-> r] \in Packet  BY DEF Packet
  <2> QED  BY <2>1, <1>2, <1>5 DEF DeliverRequest
<1>6. ASSUME NEW e \in Echo, NEW code \in Code, Answer(e, code)
      PROVE  wire' \in Seq(Packet) /\ Len(wire') <= MaxWire
  <2>1. [kind |-> "response", of |-> e, code |-> code] \in Packet  BY DEF Packet
  <2> QED  BY <2>1, <1>2, <1>6 DEF Answer
<1>7. CASE Teardown
  <2>1. wire' = <<>>  BY <1>7 DEF Teardown
  <2> QED  BY <2>1, EmptySeq, BoundsAssumption
<1>8. CASE ReadMessage \/ ReadRequest \/ ReadResponse
  BY <1>8, <1>3 DEF ReadMessage, ReadRequest, ReadResponse
<1>9. CASE UNCHANGED wire  BY <1>9, <1>1
<1> QED
  BY <1>4, <1>5, <1>6, <1>7, <1>8, <1>9
  DEF Next, Network, ReaderStep, Handling, Close, Connect, ReaderTimeout, Take, Call,
      CallOnClosed, CallTimeout, GiveUp
-----------------------------------------------------------------------------
(* Every part of the invariant is kept *)

\* A worker stays idle or at work on a message.
LEMMA WorkersKept ==
  ASSUME TypeOK, QueueInv, Next
  PROVE  worker' \in [Worker -> {Idle} \cup Job]
<1>1. worker \in [Worker -> {Idle} \cup Job]  BY DEF TypeOK
<1>2. CASE \A w \in Worker : ~ Take(w)
  <2>1. \A v \in Worker : worker'[v] \in {Idle} \cup Job  BY <1>2, NoNewJob
  <2>2. worker' = [v \in Worker |-> worker'[v]]
    <3>1. CASE UNCHANGED worker  BY <3>1, <1>1
    <3>2. CASE Teardown  BY <3>2 DEF Teardown
    <3>3. CASE ReadResponse  BY <3>3 DEF ReadResponse
    <3>4. ASSUME NEW w \in Worker, Handling(w)
          PROVE  worker' = [v \in Worker |-> worker'[v]]
      BY <3>4, <1>1 DEF Handling, Call, CallOnClosed, CallTimeout, GiveUp
    <3> QED
      BY <1>2, <3>1, <3>2, <3>3, <3>4
      DEF Next, Network, ReaderStep, Deliver, DeliverRequest, Answer, Close, Connect,
          ReadMessage, ReadRequest, ReaderTimeout
  <2> QED  BY <2>1, <2>2
<1>3. ASSUME NEW w \in Worker, Take(w)
      PROVE  worker' \in [Worker -> {Idle} \cup Job]
  <2>1. Head(queue) \in Msg  BY <1>3, TakeEffect
  <2>2. [pc |-> "working", msg |-> Head(queue), attempt |-> 1] \in Job
    BY <2>1, BoundsAssumption DEF Job
  <2> QED  BY <2>2, <1>1, <1>3 DEF Take
<1> QED  BY <1>2, <1>3

\* The calls in the table and at NapCat are calls of this bot.
LEMMA CallsKept ==
  ASSUME TypeOK, Next
  PROVE  pending' \subseteq Echo /\ remote' \subseteq Echo
<1>1. pending \subseteq Echo /\ remote \subseteq Echo  BY DEF TypeOK
<1>2. CASE ReadRequest
  <2>1. wire \in Seq(Packet) /\ wire # <<>> /\ Head(wire).kind = "request"
    BY <1>2 DEF TypeOK, ReadRequest, NextPacket
  <2>2. Head(wire) \in Packet  BY <2>1, HeadTailProperties
  <2>3. Head(wire).of \in Request  BY <2>1, <2>2 DEF Packet
  <2>4. <<Head(wire).of, 0>> \in Echo  BY <2>3 DEF Echo
  <2> QED  BY <2>4, <1>1, <1>2 DEF ReadRequest
<1>3. ASSUME NEW w \in Worker, Call(w) \/ CallOnClosed(w)
      PROVE  pending' \subseteq Echo /\ remote' \subseteq Echo
  <2>1. worker[w].pc = "working"  BY <1>3 DEF Call, CallOnClosed
  <2>2. worker[w] # Idle  BY <2>1 DEF Idle
  <2>3. EchoOf(worker[w]) \in Echo  BY <2>2, JobsOfType
  <2> QED  BY <2>3, <1>1, <1>3 DEF Call, CallOnClosed
<1>4. CASE Connect \/ Teardown  BY <1>4, <1>1 DEF Connect, Teardown
<1>5. CASE ReadResponse \/ ReaderTimeout
  BY <1>5, <1>1 DEF ReadResponse, ReaderTimeout, Popped
<1>6. ASSUME NEW w \in Worker, CallTimeout(w) \/ GiveUp(w) \/ Take(w)
      PROVE  pending' \subseteq Echo /\ remote' \subseteq Echo
  BY <1>6, <1>1 DEF CallTimeout, GiveUp, Take, Popped
<1>7. CASE Network
  BY <1>7, <1>1 DEF Network, Deliver, DeliverRequest, Answer, Close
<1>8. CASE ReadMessage  BY <1>8, <1>1 DEF ReadMessage
<1> QED
  BY <1>2, <1>3, <1>4, <1>5, <1>6, <1>7, <1>8 DEF Next, ReaderStep, Handling

\* What happened to a message is counted in natural numbers.
LEMMA CountsKept ==
  ASSUME TypeOK, QueueInv, Next
  PROVE  /\ copies' \in [Msg -> 0..MaxCopies]
         /\ handled' \in [Msg -> Nat] /\ performed' \in [Msg -> Nat]
<1>1. /\ copies \in [Msg -> 0..MaxCopies]
      /\ handled \in [Msg -> Nat] /\ performed \in [Msg -> Nat]
  BY DEF TypeOK
<1>2. ASSUME NEW m \in Msg, Deliver(m)
      PROVE  /\ copies' \in [Msg -> 0..MaxCopies]
             /\ handled' \in [Msg -> Nat] /\ performed' \in [Msg -> Nat]
  <2>1. copies[m] + 1 \in 0..MaxCopies  BY <1>1, <1>2, BoundsAssumption DEF Deliver
  <2> QED  BY <2>1, <1>1, <1>2 DEF Deliver
<1>3. ASSUME NEW e \in Echo, NEW code \in Code, Answer(e, code)
      PROVE  /\ copies' \in [Msg -> 0..MaxCopies]
             /\ handled' \in [Msg -> Nat] /\ performed' \in [Msg -> Nat]
  BY <1>1, <1>3 DEF Answer
<1>4. ASSUME NEW w \in Worker, Take(w)
      PROVE  /\ copies' \in [Msg -> 0..MaxCopies]
             /\ handled' \in [Msg -> Nat] /\ performed' \in [Msg -> Nat]
  <2>1. handled' = [handled EXCEPT ![Head(queue)] = 1]  BY <1>4, TakeEffect
  <2>2. handled' \in [Msg -> Nat]  BY <2>1, <1>1
  <2>3. UNCHANGED <<copies, performed>>  BY <1>4 DEF Take
  <2> QED  BY <2>2, <2>3, <1>1
<1>5. CASE UNCHANGED <<copies, handled, performed>>  BY <1>5, <1>1
<1> QED
  BY <1>2, <1>3, <1>4, <1>5
  DEF Next, Network, ReaderStep, Handling, DeliverRequest, Close, Connect, Teardown,
      ReadMessage, ReadRequest, ReadResponse, ReaderTimeout, Call, CallOnClosed,
      CallTimeout, GiveUp

\* Queue and keys keep to their bounds.
LEMMA QueuesTyped ==
  ASSUME KeysLast, TypeOK, QueueInv, Next
  PROVE  /\ queue' \in Seq(Msg) /\ Len(queue') <= QueueMax
         /\ processed' \in Seq(Msg) /\ Len(processed') <= MaxProcessed
<1>1. /\ queue \in Seq(Msg) /\ Len(queue) <= QueueMax
      /\ processed \in Seq(Msg) /\ Len(processed) <= MaxProcessed
  BY DEF TypeOK
<1>2. CASE ReadMessage  BY <1>1, <1>2, ReadMessageEffect
<1>3. ASSUME NEW w \in Worker, Take(w)
      PROVE  /\ queue' \in Seq(Msg) /\ Len(queue') <= QueueMax
             /\ processed' \in Seq(Msg) /\ Len(processed') <= MaxProcessed
  <2>1. queue' \in Seq(Msg) /\ Len(queue') <= QueueMax  BY <1>3, TakeEffect
  <2> QED  BY <2>1, <1>1, <1>3 DEF Take
<1>4. CASE Connect
  <2>1. queue' = <<>> /\ UNCHANGED processed  BY <1>4 DEF Connect
  <2> QED  BY <2>1, <1>1, EmptySeq, BoundsAssumption
<1>5. CASE UNCHANGED <<queue, processed>>  BY <1>5, <1>1
<1> QED
  BY <1>2, <1>3, <1>4, <1>5
  DEF Next, Network, ReaderStep, Handling, Deliver, DeliverRequest, Answer, Close, Teardown,
      ReadRequest, ReadResponse, ReaderTimeout, Call, CallOnClosed, CallTimeout, GiveUp

\* Every step keeps the types.
LEMMA TypeKept ==
  ASSUME KeysLast, TypeOK, QueueInv, Next
  PROVE  TypeOK'
<1>1. ws' \in {"down", "up", "closed"} /\ conns' \in 0..MaxConn
  <2>1. CASE Connect  BY <2>1, BoundsAssumption DEF Connect, TypeOK
  <2>2. CASE Teardown \/ Close  BY <2>2 DEF Teardown, Close, TypeOK
  <2>3. CASE UNCHANGED <<ws, conns>>  BY <2>3 DEF TypeOK
  <2> QED
    BY <2>1, <2>2, <2>3
    DEF Next, Network, ReaderStep, Handling, Deliver, DeliverRequest, Answer, ReadMessage,
        ReadRequest, ReadResponse, ReaderTimeout, Take, Call, CallOnClosed, CallTimeout,
        GiveUp
<1>2. reader' \in Request \cup {Reading}
  <2>1. CASE ReadRequest
    <3>1. wire \in Seq(Packet) /\ wire # <<>> /\ Head(wire).kind = "request"
      BY <2>1 DEF TypeOK, ReadRequest, NextPacket
    <3>2. Head(wire) \in Packet  BY <3>1, HeadTailProperties
    <3>3. Head(wire).of \in Request  BY <3>1, <3>2 DEF Packet
    <3> QED  BY <3>3, <2>1 DEF ReadRequest
  <2>2. CASE ReaderTimeout  BY <2>2 DEF ReaderTimeout
  <2>3. CASE UNCHANGED reader  BY <2>3 DEF TypeOK
  <2> QED
    BY <2>1, <2>2, <2>3
    DEF Next, Network, ReaderStep, Handling, Deliver, DeliverRequest, Answer, Close,
        Connect, Teardown, ReadMessage, ReadResponse, Take, Call, CallOnClosed,
        CallTimeout, GiveUp
<1> QED
  BY <1>1, <1>2, WireKept, WorkersKept, CallsKept, CountsKept, QueuesTyped DEF TypeOK

\* Every step keeps the order of remembering, queueing and handling.
LEMMA QueueKept ==
  ASSUME KeysLast, TypeOK, QueueInv, Next
  PROVE  QueueInv'
<1>1. /\ handled \in [Msg -> Nat]
      /\ queue \in Seq(Msg) /\ processed \in Seq(Msg)
      /\ ToSet(queue) \subseteq Msg
  BY Elements DEF TypeOK
<1>2. CASE ReadMessage
  <2>1. PICK m \in Msg :
          \/ m \in ToSet(processed) /\ UNCHANGED <<processed, queue>>
          \/ /\ m \notin ToSet(processed)
             /\ NoRepeat(processed') /\ ToSet(processed') = ToSet(processed) \cup {m}
             /\ \/ queue' = queue
                \/ NoRepeat(queue') /\ ToSet(queue') = ToSet(queue) \cup {m}
    BY <1>2, ReadMessageEffect
  <2>2. UNCHANGED handled  BY <1>2 DEF ReadMessage
  <2>3. m \notin ToSet(processed) => handled[m] = 0  BY <1>1 DEF QueueInv
  <2>4. CASE UNCHANGED <<processed, queue>>  BY <2>2, <2>4 DEF QueueInv
  <2>5. CASE /\ m \notin ToSet(processed)
             /\ NoRepeat(processed') /\ ToSet(processed') = ToSet(processed) \cup {m}
             /\ queue' = queue
    BY <2>2, <2>5 DEF QueueInv
  <2>6. CASE /\ m \notin ToSet(processed)
             /\ NoRepeat(processed') /\ ToSet(processed') = ToSet(processed) \cup {m}
             /\ NoRepeat(queue') /\ ToSet(queue') = ToSet(queue) \cup {m}
    BY <2>2, <2>3, <2>6 DEF QueueInv
  <2> QED  BY <2>1, <2>4, <2>5, <2>6
<1>3. ASSUME NEW w \in Worker, Take(w)
      PROVE  QueueInv'
  <2>1. /\ Head(queue) \in Msg /\ Head(queue) \in ToSet(queue) /\ NoRepeat(queue')
        /\ ToSet(queue') = ToSet(queue) \ {Head(queue)}
        /\ handled' = [handled EXCEPT ![Head(queue)] = 1]
    BY <1>3, TakeEffect
  <2>2. UNCHANGED processed  BY <1>3 DEF Take
  <2> QED  BY <2>1, <2>2, <1>1 DEF QueueInv
<1>4. CASE Connect
  <2>1. queue' = <<>> /\ UNCHANGED <<processed, handled>>  BY <1>4 DEF Connect
  <2>2. ToSet(queue') = {} /\ NoRepeat(queue')  BY <2>1, Empty
  <2> QED  BY <2>1, <2>2 DEF QueueInv
<1>5. CASE UNCHANGED <<queue, processed, handled>>  BY <1>5 DEF QueueInv
<1> QED
  BY <1>2, <1>3, <1>4, <1>5
  DEF Next, Network, ReaderStep, Handling, Deliver, DeliverRequest, Answer, Close, Teardown,
      ReadRequest, ReadResponse, ReaderTimeout, Call, CallOnClosed, CallTimeout, GiveUp

\* No two workers come to hold the same message.
LEMMA WorkKept ==
  ASSUME TypeOK, QueueInv, WorkInv, Next
  PROVE  WorkInv'
<1>1. CASE \A w \in Worker : ~ Take(w)
  <2>1. \A v \in Worker :
          worker'[v] # Idle => worker[v] # Idle /\ worker'[v].msg = worker[v].msg
    BY <1>1, NoNewJob
  <2>2. UNCHANGED handled
    BY <1>1
    DEF Next, Network, ReaderStep, Handling, Deliver, DeliverRequest, Answer, Close,
        Connect, Teardown, ReadMessage, ReadRequest, ReadResponse, ReaderTimeout, Call,
        CallOnClosed, CallTimeout, GiveUp
  <2> QED  BY <2>1, <2>2 DEF WorkInv
<1>2. ASSUME NEW w \in Worker, Take(w)
      PROVE  WorkInv'
  <2> DEFINE m == Head(queue)
             j == [pc |-> "working", msg |-> m, attempt |-> 1]
  <2>1. m \in Msg /\ handled[m] = 0 /\ handled' = [handled EXCEPT ![m] = 1]
    BY <1>2, TakeEffect
  <2>2. worker' = [worker EXCEPT ![w] = j] /\ worker[w] = Idle  BY <1>2 DEF Take
  <2>3. j.msg = m /\ j # Idle  BY DEF Idle
  <2> HIDE DEF m, j
  <2>4. worker \in [Worker -> {Idle} \cup Job] /\ handled \in [Msg -> Nat]  BY DEF TypeOK
  <2>5. worker'[w] = j /\ \A v \in Worker : v # w => worker'[v] = worker[v]
    BY <2>2, <2>4
  <2>6. \A v \in Worker : worker[v] # Idle =>
          worker[v].msg \in Msg /\ handled[worker[v].msg] = 1 /\ worker[v].msg # m
    BY <2>1, JobsOfType DEF WorkInv
  <2>7. ASSUME NEW v \in Worker, worker'[v] # Idle
        PROVE  handled'[worker'[v].msg] = 1
    BY <2>1, <2>3, <2>4, <2>5, <2>6, <2>7
  <2>8. ASSUME NEW u \in Worker, NEW v \in Worker, u # v, worker'[u] # Idle, worker'[v] # Idle
        PROVE  worker'[u].msg # worker'[v].msg
    BY <2>3, <2>5, <2>6, <2>8 DEF WorkInv
  <2> QED  BY <2>7, <2>8 DEF WorkInv
<1> QED  BY <1>1, <1>2

\* Nothing comes into being between two connections.
LEMMA DownKept ==
  ASSUME TypeOK, DownInv, Next
  PROVE  DownInv'
<1>1. CASE Teardown  BY <1>1 DEF Teardown, DownInv, NothingSurvivesTheConnection
<1>2. CASE ws' # "down"  BY <1>2 DEF DownInv, NothingSurvivesTheConnection
<1>3. CASE ws' = "down" /\ ~ Teardown
  <2>1. ws = "down" /\ ~ Connect
    BY <1>3
    DEF Next, Network, ReaderStep, Handling, Deliver, DeliverRequest, Answer, Arrives,
        Close, Connect, ReadMessage, ReadRequest, ReadResponse, ReaderTimeout, Take, Call,
        CallOnClosed, CallTimeout, GiveUp
  <2>2. /\ pending = {} /\ wire = <<>> /\ reader = Reading /\ remote = {}
        /\ \A w \in Worker : worker[w] = Idle /\ worker[w].pc = "idle"
    BY <2>1 DEF DownInv, NothingSurvivesTheConnection, Idle
  <2>3. ~ Network
    BY <2>1 DEF Network, Deliver, DeliverRequest, Answer, Arrives, Close
  <2>4. ~ ReaderStep
    BY <2>1, <2>2
    DEF ReaderStep, ReadMessage, ReadRequest, ReadResponse, ReaderTimeout, NextPacket
  <2>5. ASSUME NEW w \in Worker  PROVE ~ Take(w) /\ ~ Handling(w)
    BY <2>1, <2>2 DEF Take, Handling, Call, CallOnClosed, CallTimeout, GiveUp
  <2> QED  BY <1>3, <2>1, <2>3, <2>4, <2>5 DEF Next
<1> QED  BY <1>1, <1>2, <1>3
-----------------------------------------------------------------------------
(* The table of calls *)

\* No two wait for the same call.
LEMMA EchoesDiffer ==
  ASSUME TypeOK, WorkInv, NEW w \in Worker, worker[w] # Idle
  PROVE  /\ \A r \in Request : EchoOf(worker[w]) # <<r, 0>>
         /\ \A v \in Worker : v # w => ~ Waits(v, EchoOf(worker[w]))
<1>1. worker[w].msg \in Msg  BY JobsOfType
<1>2. \A r \in Request : EchoOf(worker[w]) # <<r, 0>>
  BY <1>1, SetsAssumption DEF EchoOf
<1>3. ASSUME NEW v \in Worker, v # w, Waits(v, EchoOf(worker[w]))
      PROVE  FALSE
  <2>1. worker[v] # Idle /\ EchoOf(worker[v]) = EchoOf(worker[w])
    BY <1>3 DEF Waits, Idle
  <2>2. worker[v].msg = worker[w].msg  BY <2>1 DEF EchoOf
  <2> QED  BY <1>3, <2>1, <2>2 DEF WorkInv
<1> QED  BY <1>2, <1>3

\* Who waits for what, one worker at a time.
LEMMA AwaitedBy ==
  ASSUME NEW e \in Echo
  PROVE  e \in Awaited <=> \/ \E w \in Worker : Waits(w, e)
                           \/ reader \in Request /\ e = <<reader, 0>>
BY DEF Awaited

\* A step that changes nobody's waiting leaves the calls awaited as they are.
LEMMA SameAwaited ==
  ASSUME UNCHANGED reader,
         \A w \in Worker, e \in Echo : Waits(w, e)' <=> Waits(w, e)
  PROVE  Awaited' = Awaited
BY DEF Awaited

\* Every step keeps the table exact.
LEMMA TableKept ==
  ASSUME TypeOK, WorkInv, DownInv, TableIsExact, Next
  PROVE  TableIsExact'
<1>0. /\ worker \in [Worker -> {Idle} \cup Job]
      /\ pending \subseteq Echo /\ reader \in Request \cup {Reading}
      /\ Awaited \subseteq pending /\ (ws = "up" => pending \subseteq Awaited)
  BY DEF TypeOK, TableIsExact
<1>1. CASE UNCHANGED <<worker, reader, pending>> /\ (ws' = "up" => ws = "up")
  <2>1. Awaited' = Awaited  BY <1>1 DEF Awaited, Waits
  <2> QED  BY <2>1, <1>0, <1>1 DEF TableIsExact
<1>2. CASE Connect
  <2>1. /\ \A w \in Worker : worker[w] = Idle
        /\ reader = Reading /\ pending' = {} /\ UNCHANGED <<worker, reader>>
    BY <1>2 DEF Connect, DownInv, NothingSurvivesTheConnection
  <2>2. Awaited' = {}
    BY <2>1, ReadingAssumption DEF Awaited, Waits, Idle
  <2> QED  BY <2>1, <2>2 DEF TableIsExact
<1>3. CASE Teardown
  <2>1. /\ \A w \in Worker : worker'[w] = Idle
        /\ reader' = Reading /\ pending' = {}
    BY <1>3 DEF Teardown
  <2>2. Awaited' = {}
    BY <2>1, ReadingAssumption DEF Awaited, Waits, Idle
  <2> QED  BY <2>1, <2>2 DEF TableIsExact
<1>4. CASE ReadRequest
  <2> DEFINE r == Head(wire).of
             e == <<r, 0>>
  <2>1. reader = Reading /\ reader' = r /\ pending' = pending \cup {e} /\ ws = "up"
        /\ UNCHANGED <<ws, worker>>
    BY <1>4 DEF ReadRequest, NextPacket
  <2>2. r \in Request
    <3>1. wire \in Seq(Packet) /\ wire # <<>> /\ Head(wire).kind = "request"
      BY <1>4 DEF TypeOK, ReadRequest, NextPacket
    <3>2. Head(wire) \in Packet  BY <3>1, HeadTailProperties
    <3> QED  BY <3>1, <3>2 DEF Packet
  <2> HIDE DEF r
  <2>3. e \in Echo  BY <2>2 DEF Echo
  <2>4. Awaited' = Awaited \cup {e}
    BY <2>1, <2>2, <2>3, ReadingAssumption DEF Awaited, Waits
  <2> QED  BY <2>1, <2>4, <1>0 DEF TableIsExact
<1>5. CASE ReaderTimeout
  <2> DEFINE e == <<reader, 0>>
  <2>1. reader \in Request /\ reader' = Reading /\ pending' = pending \ {e}
        /\ UNCHANGED <<ws, worker>>
    BY <1>0, <1>5 DEF ReaderTimeout, Popped
  <2>2. \A w \in Worker : ~ Waits(w, e)
    <3>1. SUFFICES ASSUME NEW w \in Worker, Waits(w, e)  PROVE FALSE
      OBVIOUS
    <3>2. worker[w] # Idle /\ EchoOf(worker[w]) = e  BY <3>1 DEF Waits, Idle
    <3> QED  BY <3>2, <2>1, EchoesDiffer
  <2>3. Awaited' = Awaited \ {e}
    BY <2>1, <2>2, ReadingAssumption DEF Awaited, Waits
  <2> QED  BY <2>1, <2>3, <1>0 DEF TableIsExact
<1>6. CASE ReadResponse
  <2> DEFINE p == Head(wire)
  <2>1. /\ reader = Reading /\ UNCHANGED <<ws, reader>>
        /\ pending' = pending \ {p.of}
        /\ worker' = [w \in Worker |-> IF ~Waits(w, p.of) THEN worker[w]
                                       ELSE IF p.code = "retry" THEN NextAttempt(worker[w])
                                       ELSE Idle]
    BY <1>6 DEF ReadResponse, NextPacket, Popped
  <2> HIDE DEF p
  <2>2. ASSUME NEW w \in Worker, Waits(w, p.of)
        PROVE  worker'[w].pc # "waiting"
    <3>1. worker[w] \in Job  BY <2>2, <1>0 DEF Waits, Idle
    <3>2. NextAttempt(worker[w]).pc \in {"idle", "working"}  BY <3>1, NextAttemptShape
    <3>3. worker'[w] = NextAttempt(worker[w]) \/ worker'[w] = Idle  BY <2>1, <2>2
    <3> QED  BY <3>2, <3>3 DEF Idle
  <2>3. ASSUME NEW w \in Worker, ~Waits(w, p.of)
        PROVE  worker'[w] = worker[w]
    BY <2>1, <2>3
  <2>4. ASSUME NEW w \in Worker, NEW e \in Echo
        PROVE  Waits(w, e)' <=> Waits(w, e) /\ e # p.of
    <3>1. CASE Waits(w, p.of)  BY <3>1, <2>2 DEF Waits
    <3>2. CASE ~Waits(w, p.of)
      <4>1. worker'[w] = worker[w]  BY <3>2, <2>3
      <4> QED  BY <3>2, <4>1 DEF Waits
    <3> QED  BY <3>1, <3>2
  <2>5. Awaited' = Awaited \ {p.of}
    BY <2>1, <2>4, ReadingAssumption DEF Awaited
  <2> QED  BY <2>1, <2>5, <1>0 DEF TableIsExact
<1>7. ASSUME NEW w \in Worker, Take(w)
      PROVE  TableIsExact'
  <2>1. /\ worker[w] = Idle /\ UNCHANGED <<ws, reader, pending>>
        /\ worker' = [worker EXCEPT ![w] = [pc |-> "working", msg |-> Head(queue), attempt |-> 1]]
    BY <1>7 DEF Take
  <2>2. worker[w].pc # "waiting" /\ worker'[w].pc # "waiting"
        /\ \A v \in Worker : v # w => worker'[v] = worker[v]
    BY <2>1, <1>0 DEF Idle
  <2>3. Awaited' = Awaited
    <3>1. \A v \in Worker, e \in Echo : Waits(v, e)' <=> Waits(v, e)
      BY <2>2 DEF Waits
    <3> QED  BY <2>1, <3>1, SameAwaited
  <2> QED  BY <2>1, <2>3, <1>0 DEF TableIsExact
<1>8. ASSUME NEW w \in Worker, Call(w)
      PROVE  TableIsExact'
  <2> DEFINE e == EchoOf(worker[w])
  <2>1. /\ worker[w].pc = "working" /\ ws = "up" /\ UNCHANGED <<ws, reader>>
        /\ pending' = pending \cup {e}
        /\ worker' = [worker EXCEPT ![w].pc = "waiting"]
    BY <1>8 DEF Call
  <2>2. worker[w] # Idle /\ worker[w] \in Job /\ e \in Echo
    BY <2>1, JobsOfType DEF Idle
  <2>3. worker'[w].pc = "waiting" /\ EchoOf(worker'[w]) = e
        /\ \A v \in Worker : v # w => worker'[v] = worker[v]
    BY <2>1, <2>2, <1>0 DEF EchoOf, Job
  <2> HIDE DEF e
  <2>4. \A v \in Worker, f \in Echo : Waits(v, f)' <=> Waits(v, f) \/ (v = w /\ f = e)
    BY <2>1, <2>3 DEF Waits
  <2>5. Awaited' = Awaited \cup {e}
    BY <2>1, <2>2, <2>4 DEF Awaited
  <2> QED  BY <2>1, <2>5, <1>0 DEF TableIsExact
<1>9. ASSUME NEW w \in Worker, CallOnClosed(w)
      PROVE  TableIsExact'
  <2>1. /\ worker[w].pc = "working" /\ ws = "closed" /\ UNCHANGED <<ws, reader>>
        /\ pending \subseteq pending'
        /\ worker' = [worker EXCEPT ![w] = Idle]
    BY <1>9 DEF CallOnClosed
  <2>2. worker'[w].pc # "waiting" /\ \A v \in Worker : v # w => worker'[v] = worker[v]
    BY <2>1, <1>0 DEF Idle
  <2>3. Awaited' = Awaited
    <3>1. \A v \in Worker, e \in Echo : Waits(v, e)' <=> Waits(v, e)
      BY <2>1, <2>2 DEF Waits
    <3> QED  BY <2>1, <3>1, SameAwaited
  <2> QED  BY <2>1, <2>3, <1>0 DEF TableIsExact
<1>10. ASSUME NEW w \in Worker, CallTimeout(w) \/ GiveUp(w)
       PROVE  TableIsExact'
  <2> DEFINE e == EchoOf(worker[w])
  <2>1. /\ worker[w] # Idle /\ UNCHANGED <<ws, reader>>
        /\ pending' = IF worker[w].pc = "waiting" THEN pending \ {e} ELSE pending
        /\ worker' = [worker EXCEPT ![w] = NextAttempt(worker[w])]
           \/ worker' = [worker EXCEPT ![w] = Idle]
    BY <1>10 DEF CallTimeout, GiveUp, Popped, Idle
  <2>2. worker[w] \in Job /\ e \in Echo  BY <2>1, JobsOfType
  <2>3. worker'[w].pc # "waiting" /\ \A v \in Worker : v # w => worker'[v] = worker[v]
    <3>1. NextAttempt(worker[w]).pc # "waiting"  BY <2>2, NextAttemptShape
    <3>2. worker'[w] = NextAttempt(worker[w]) \/ worker'[w] = Idle  BY <2>1, <1>0
    <3>3. \A v \in Worker : v # w => worker'[v] = worker[v]  BY <2>1, <1>0
    <3> QED  BY <3>1, <3>2, <3>3 DEF Idle
  <2>4. /\ \A r \in Request : e # <<r, 0>>
        /\ \A v \in Worker : v # w => ~ Waits(v, e)
    BY <2>1, EchoesDiffer
  <2>5. CASE worker[w].pc = "waiting"
    <3>1. \A f \in Echo : Waits(w, f) <=> f = e  BY <2>5 DEF Waits
    <3> HIDE DEF e
    <3>2. \A v \in Worker, f \in Echo : Waits(v, f)' <=> Waits(v, f) /\ f # e
      BY <2>3, <2>4, <3>1 DEF Waits
    <3>3. Awaited' = Awaited \ {e}
      BY <2>1, <2>4, <3>2 DEF Awaited
    <3>4. pending' = pending \ {e}  BY <2>1, <2>5
    <3> QED  BY <2>1, <3>3, <3>4, <1>0 DEF TableIsExact
  <2>6. CASE worker[w].pc # "waiting"
    <3>1. \A v \in Worker, f \in Echo : Waits(v, f)' <=> Waits(v, f)
      BY <2>3, <2>6 DEF Waits
    <3>2. Awaited' = Awaited  BY <2>1, <3>1, SameAwaited
    <3> QED  BY <2>1, <2>6, <3>2, <1>0 DEF TableIsExact
  <2> QED  BY <2>5, <2>6
<1>11. CASE Network \/ ReadMessage
  <2>1. UNCHANGED <<worker, reader, pending>> /\ (ws' = "up" => ws = "up")
    BY <1>11 DEF Network, Deliver, DeliverRequest, Answer, Arrives, Close, ReadMessage
  <2> QED  BY <2>1, <1>1
<1> QED
  BY <1>2, <1>3, <1>4, <1>5, <1>6, <1>7, <1>8, <1>9, <1>10, <1>11
  DEF Next, ReaderStep, Handling
-----------------------------------------------------------------------------
(* The number of replies *)

\* There are finitely many attempts.
LEMMA OpenFinite ==
  ASSUME NEW m
  PROVE  /\ Open(m) \subseteq 1..MaxRetries
         /\ IsFiniteSet(Open(m)) /\ Cardinality(Open(m)) \in Nat
         /\ Open(m)' \subseteq 1..MaxRetries
         /\ IsFiniteSet(Open(m)') /\ Cardinality(Open(m)') \in Nat
<1>1. IsFiniteSet(1..MaxRetries)
  <2>1. \A a, b \in Int : IsFiniteSet(a..b)  BY FS_Interval
  <2> QED  BY <2>1, BoundsAssumption
<1>2. \A T \in SUBSET (1..MaxRetries) : IsFiniteSet(T) /\ Cardinality(T) \in Nat
  <2>1. \A T \in SUBSET (1..MaxRetries) : IsFiniteSet(T)  BY <1>1, FS_Subset
  <2> QED  BY <2>1, FS_CardinalityType
<1>3. Open(m) \subseteq 1..MaxRetries /\ Open(m)' \subseteq 1..MaxRetries  BY DEF Open
<1> QED  BY <1>2, <1>3

\* Only a new call adds to what was or may yet be sent.
LEMMA SentKept ==
  ASSUME TypeOK, Next, \A w \in Worker : ~ Call(w), NEW m \in Msg
  PROVE  /\ Open(m)' \subseteq Open(m)
         /\ performed'[m] + Cardinality(Open(m)') <= performed[m] + Cardinality(Open(m))
<1>0. /\ performed \in [Msg -> Nat] /\ remote \subseteq Echo
      /\ Cardinality(Open(m)) \in Nat /\ Cardinality(Open(m)') \in Nat
  BY OpenFinite DEF TypeOK
<1>1. CASE Open(m)' = Open(m) /\ performed'[m] = performed[m]
  BY <1>0, <1>1
<1>2. CASE UNCHANGED <<remote, performed>>  BY <1>1, <1>2 DEF Open
<1>3. CASE Teardown
  <2>1. Open(m)' = {} /\ UNCHANGED performed  BY <1>3 DEF Teardown, Open
  <2>2. Cardinality(Open(m)') = 0  BY <2>1, FS_EmptySet
  <2> QED  BY <1>0, <2>1, <2>2
<1>4. CASE ReadRequest
  <2> DEFINE r == Head(wire).of
  <2>1. UNCHANGED performed /\ remote' = remote \cup {<<r, 0>>}  BY <1>4 DEF ReadRequest
  <2> HIDE DEF r
  <2>2. \A k \in 1..MaxRetries : <<m, k>> # <<r, 0>>  BY BoundsAssumption
  <2>3. Open(m)' = Open(m)  BY <2>1, <2>2 DEF Open
  <2> QED  BY <2>1, <2>3, <1>1
<1>5. ASSUME NEW e \in Echo, NEW code \in Code, Answer(e, code)
      PROVE  /\ Open(m)' \subseteq Open(m)
             /\ performed'[m] + Cardinality(Open(m)')
                  <= performed[m] + Cardinality(Open(m))
  <2>1. /\ e \in remote /\ remote' = remote \ {e}
        /\ \/ UNCHANGED performed
           \/ e[1] \in Msg /\ performed' = [performed EXCEPT ![e[1]] = @ + 1]
    BY <1>5 DEF Answer
  <2>2. CASE e \in Msg \X (1..MaxRetries) /\ e[1] = m
    <3>1. e[2] \in Open(m) /\ e = <<m, e[2]>>  BY <2>1, <2>2 DEF Open
    <3>2. Open(m)' = Open(m) \ {e[2]}
      <4>1. \A k \in 1..MaxRetries : <<m, k>> = e <=> k = e[2]  BY <3>1
      <4> QED  BY <2>1, <4>1 DEF Open
    <3>3. Cardinality(Open(m)') = Cardinality(Open(m)) - 1
      <4>1. IsFiniteSet(Open(m))  BY OpenFinite
      <4>2. \A x : Cardinality(Open(m) \ {x})
                     = IF x \in Open(m) THEN Cardinality(Open(m)) - 1 ELSE Cardinality(Open(m))
        BY <4>1, FS_RemoveElement
      <4> QED  BY <3>1, <3>2, <4>2
    <3>4. performed'[m] = performed[m] \/ performed'[m] = performed[m] + 1
      BY <2>1, <2>2, <1>0
    <3> QED  BY <3>2, <3>3, <3>4, <1>0
  <2>3. CASE ~ (e \in Msg \X (1..MaxRetries) /\ e[1] = m)
    <3>1. \A k \in 1..MaxRetries : <<m, k>> # e  BY <2>3
    <3>2. Open(m)' = Open(m)  BY <2>1, <3>1 DEF Open
    <3>3. e[1] # m
      <4>1. CASE e \in Msg \X (1..MaxRetries)  BY <2>3, <4>1
      <4>2. CASE e \in Request \X {0}  BY <4>2, SetsAssumption
      <4> QED  BY <4>1, <4>2 DEF Echo
    <3>4. performed'[m] = performed[m]  BY <2>1, <3>3, <1>0
    <3> QED  BY <3>2, <3>4, <1>1
  <2> QED  BY <2>2, <2>3
<1> QED
  BY <1>2, <1>3, <1>4, <1>5
  DEF Next, Network, ReaderStep, Handling, Deliver, DeliverRequest, Close, Connect,
      ReadMessage, ReadResponse, ReaderTimeout, Take, CallOnClosed, CallTimeout, GiveUp

\* And only a new call raises the number of attempts a worker made.
LEMMA MadeKept ==
  ASSUME TypeOK, Next, NEW v \in Worker, ~ Call(v), ~ Take(v), worker'[v] # Idle
  PROVE  Made(worker'[v]) = Made(worker[v]) /\ worker'[v].msg = worker[v].msg
<1>0. worker \in [Worker -> {Idle} \cup Job]  BY DEF TypeOK
<1>1. CASE worker'[v] = worker[v]  BY <1>1
<1>2. CASE worker[v].pc = "waiting" /\ worker'[v] = NextAttempt(worker[v])
  <2>1. worker[v] \in Job /\ worker[v].attempt \in Nat
    BY <1>0, <1>2, JobsOfType DEF Idle
  <2>2. /\ NextAttempt(worker[v]).msg = worker[v].msg
        /\ NextAttempt(worker[v]).attempt = worker[v].attempt + 1
        /\ NextAttempt(worker[v]).pc \in {"idle", "working"}
    BY <1>2, <2>1, NextAttemptShape
  <2> QED  BY <1>2, <2>1, <2>2 DEF Made
<1>3. CASE Teardown  BY <1>3 DEF Teardown
<1>4. CASE ReadResponse
  <2>1. CASE ~ Waits(v, Head(wire).of)
    <3>1. worker'[v] = worker[v]  BY <1>4, <2>1 DEF ReadResponse
    <3> QED  BY <3>1
  <2>2. CASE Waits(v, Head(wire).of)
    <3>1. worker'[v] = NextAttempt(worker[v]) \/ worker'[v] = Idle
      BY <1>4, <2>2 DEF ReadResponse
    <3> QED  BY <3>1, <2>2, <1>2 DEF Waits
  <2> QED  BY <2>1, <2>2
<1>5. ASSUME NEW w \in Worker, Take(w) \/ Handling(w)
      PROVE  Made(worker'[v]) = Made(worker[v]) /\ worker'[v].msg = worker[v].msg
  <2>1. CASE w # v
    <3>1. worker'[v] = worker[v]
      BY <1>0, <1>5, <2>1 DEF Take, Handling, Call, CallOnClosed, CallTimeout, GiveUp
    <3> QED  BY <3>1
  <2>2. CASE w = v /\ CallTimeout(v)
    <3>1. worker[v].pc = "waiting" /\ worker'[v] = NextAttempt(worker[v])
      BY <1>0, <2>2 DEF CallTimeout
    <3> QED  BY <3>1, <1>2
  <2>3. CASE w = v /\ (CallOnClosed(v) \/ GiveUp(v))
    BY <1>0, <2>3 DEF CallOnClosed, GiveUp
  <2> QED  BY <1>5, <2>1, <2>2, <2>3 DEF Handling
<1>6. CASE UNCHANGED worker  BY <1>6
<1> QED
  BY <1>3, <1>4, <1>5, <1>6
  DEF Next, Network, ReaderStep, Deliver, DeliverRequest, Answer, Close, Connect,
      ReadMessage, ReadRequest, ReaderTimeout

\* Every step keeps the number of replies within the attempts made.
LEMMA SendKept ==
  ASSUME TypeOK, QueueInv, WorkInv, SendInv, Next
  PROVE  SendInv'
<1>0. /\ performed \in [Msg -> Nat] /\ handled \in [Msg -> Nat]
      /\ worker \in [Worker -> {Idle} \cup Job]
      /\ MaxRetries \in Nat
  BY BoundsAssumption DEF TypeOK
<1>1. CASE \A w \in Worker : ~ Call(w)
  <2>1. ASSUME NEW m \in Msg, NEW t \in Nat, Within(m, t)
        PROVE  Within(m, t)'
    <3>1. /\ Open(m)' \subseteq Open(m)
          /\ performed'[m] + Cardinality(Open(m)') <= performed[m] + Cardinality(Open(m))
      BY <1>1, SentKept
    <3>2. Cardinality(Open(m)) \in Nat /\ Cardinality(Open(m)') \in Nat  BY OpenFinite
    <3>3. performed'[m] \in Nat  BY CountsKept
    <3> DEFINE a == Cardinality(Open(m))
               b == Cardinality(Open(m)')
    <3>4. performed'[m] + b <= t
      <4>1. performed[m] + a <= t  BY <2>1 DEF Within
      <4>2. performed'[m] + b <= performed[m] + a  BY <3>1
      <4>3. a \in Nat /\ b \in Nat  BY <3>2
      <4> HIDE DEF a, b
      <4> QED  BY <4>1, <4>2, <4>3, <3>3, <1>0
    <3>5. \A k \in Open(m)' : k <= t  BY <2>1, <3>1 DEF Within
    <3> QED  BY <3>4, <3>5 DEF Within
  <2>2. \A m \in Msg : handled'[m] = 0 => handled[m] = 0
    <3>1. CASE UNCHANGED handled  BY <3>1
    <3>2. ASSUME NEW w \in Worker, Take(w)
          PROVE  \A m \in Msg : handled'[m] = 0 => handled[m] = 0
      <4>1. handled' = [handled EXCEPT ![Head(queue)] = 1]  BY <3>2, TakeEffect
      <4> QED  BY <4>1, <1>0
    <3> QED
      BY <3>1, <3>2
      DEF Next, Network, ReaderStep, Handling, Deliver, DeliverRequest, Answer, Close,
          Connect, Teardown, ReadMessage, ReadRequest, ReadResponse, ReaderTimeout, Call,
          CallOnClosed, CallTimeout, GiveUp
  <2>3. \A m \in Msg : Within(m, MaxRetries)' /\ (handled'[m] = 0 => Within(m, 0)')
    BY <2>1, <2>2, <1>0 DEF SendInv
  <2>4. ASSUME NEW v \in Worker, worker'[v] # Idle
        PROVE  Within(worker[v].msg, Made(worker[v]))'
    <3>1. CASE Take(v)
      <4>1. worker'[v] = [pc |-> "working", msg |-> Head(queue), attempt |-> 1]
        BY <3>1, <1>0 DEF Take
      <4>2. Head(queue) \in Msg /\ handled[Head(queue)] = 0  BY <3>1, TakeEffect
      <4>3. PICK m \in Msg : m = Head(queue)  BY <4>2
      <4>4. worker'[v].msg = m /\ Made(worker'[v]) = 0  BY <4>1, <4>3 DEF Made
      <4>5. Within(m, 0)'  BY <4>2, <4>3, <2>1 DEF SendInv
      <4> QED  BY <4>4, <4>5 DEF Within, Open
    <3>2. CASE ~ Take(v)
      <4>1. Made(worker'[v]) = Made(worker[v]) /\ worker'[v].msg = worker[v].msg
        BY <1>1, <2>4, <3>2, MadeKept
      <4>2. worker[v] # Idle
        <5>1. CASE \A w \in Worker : ~ Take(w)  BY <5>1, <2>4, NoNewJob
        <5>2. ASSUME NEW w \in Worker, Take(w)  PROVE worker[v] # Idle
          <6>1. worker'[v] = worker[v]  BY <5>2, <3>2, <1>0 DEF Take
          <6> QED  BY <6>1, <2>4
        <5> QED  BY <5>1, <5>2
      <4>3. worker[v].msg \in Msg /\ Made(worker[v]) \in Nat  BY <4>2, JobsOfType DEF Made
      <4>4. PICK m \in Msg, t \in Nat : m = worker[v].msg /\ t = Made(worker[v])  BY <4>3
      <4>5. Within(m, t)'  BY <4>2, <4>4, <2>1 DEF SendInv
      <4> QED  BY <4>1, <4>4, <4>5 DEF Within, Open
    <3> QED  BY <3>1, <3>2
  <2> QED  BY <2>3, <2>4 DEF SendInv
<1>2. ASSUME NEW w \in Worker, Call(w)
      PROVE  SendInv'
  <2>1. worker[w].pc = "working" /\ worker[w] # Idle /\ worker[w] \in Job
    BY <1>2, JobsOfType DEF Call, Idle
  <2>2. PICK n \in Msg, a \in 1..MaxRetries : n = worker[w].msg /\ a = worker[w].attempt
    BY <2>1, JobsOfType
  <2>3. /\ remote' = remote \cup {<<n, a>>} /\ UNCHANGED <<handled, performed>>
        /\ worker' = [worker EXCEPT ![w].pc = "waiting"]
    BY <1>2, <2>2 DEF Call, EchoOf
  <2>4. worker'[w].msg = n /\ Made(worker'[w]) = a
        /\ \A v \in Worker : v # w => worker'[v] = worker[v]
    BY <2>1, <2>2, <2>3, <1>0 DEF Made, Job
  <2>5. Made(worker[w]) = a - 1  BY <2>1, <2>2 DEF Made
  <2>6. Within(n, a - 1)
    <3>1. Within(worker[w].msg, Made(worker[w]))  BY <2>1 DEF SendInv
    <3> QED  BY <3>1, <2>2, <2>5
  <2>7. Open(n)' = Open(n) \cup {a}  BY <2>3 DEF Open
  <2>8. Within(n, a)'
    <3>1. a \notin Open(n)  BY <2>6, <1>0 DEF Within
    <3>2. Cardinality(Open(n)') = Cardinality(Open(n)) + 1
      <4>1. IsFiniteSet(Open(n))  BY OpenFinite
      <4>2. \A x : Cardinality(Open(n) \cup {x})
                     = IF x \in Open(n) THEN Cardinality(Open(n)) ELSE Cardinality(Open(n)) + 1
        BY <4>1, FS_AddElement
      <4> QED  BY <3>1, <2>7, <4>2
    <3>3. performed[n] + Cardinality(Open(n)) <= a - 1 /\ Cardinality(Open(n)) \in Nat
      BY <2>6, OpenFinite DEF Within
    <3>4. performed'[n] + Cardinality(Open(n)') <= a
      BY <3>2, <3>3, <2>3, <1>0
    <3>5. \A k \in Open(n)' : k <= a  BY <2>6, <2>7, <1>0, OpenFinite DEF Within
    <3> QED  BY <3>4, <3>5 DEF Within
  <2>9. \A m \in Msg : m # n => Open(m)' = Open(m) /\ performed'[m] = performed[m]
    BY <2>3 DEF Open
  <2>10. \A m \in Msg, t \in Nat : m # n /\ Within(m, t) => Within(m, t)'
    BY <2>9 DEF Within
  <2>11. Within(n, MaxRetries)'
    <3>1. Cardinality(Open(n)') \in Nat /\ performed'[n] \in Nat
      BY <2>3, <1>0, OpenFinite
    <3>2. performed'[n] + Cardinality(Open(n)') <= a /\ \A k \in Open(n)' : k <= a
      BY <2>8 DEF Within
    <3>3. performed'[n] + Cardinality(Open(n)') <= MaxRetries  BY <3>1, <3>2, <1>0
    <3>4. \A k \in Open(n)' : k <= MaxRetries  BY OpenFinite
    <3> QED  BY <3>3, <3>4 DEF Within
  <2>12. handled[n] = 1  BY <2>1, <2>2 DEF WorkInv
  <2>13. \A m \in Msg : Within(m, MaxRetries)' /\ (handled'[m] = 0 => Within(m, 0)')
    <3>1. TAKE m \in Msg
    <3>2. CASE m = n  BY <3>2, <2>3, <2>11, <2>12
    <3>3. CASE m # n  BY <3>3, <2>3, <2>10, <1>0 DEF SendInv
    <3> QED  BY <3>2, <3>3
  <2>14. ASSUME NEW v \in Worker, worker'[v] # Idle
         PROVE  Within(worker[v].msg, Made(worker[v]))'
    <3>1. CASE v = w  BY <3>1, <2>4, <2>8 DEF Within, Open
    <3>2. CASE v # w
      <4>1. worker'[v] = worker[v] /\ worker[v] # Idle  BY <3>2, <2>4, <2>14
      <4>2. worker[v].msg # n  BY <4>1, <3>2, <2>1, <2>2 DEF WorkInv
      <4>3. worker[v].msg \in Msg /\ Made(worker[v]) \in Nat  BY <4>1, JobsOfType DEF Made
      <4>4. PICK m \in Msg, t \in Nat : m = worker[v].msg /\ t = Made(worker[v])  BY <4>3
      <4>5. Within(m, t)'  BY <4>1, <4>2, <4>4, <2>10 DEF SendInv
      <4> QED  BY <4>1, <4>4, <4>5 DEF Within, Open
    <3> QED  BY <3>1, <3>2
  <2> QED  BY <2>13, <2>14 DEF SendInv
<1> QED  BY <1>1, <1>2
-----------------------------------------------------------------------------
(* The theorems *)

\* The invariant holds at the start,
LEMMA InitInv ==
  ASSUME Init  PROVE PipelineInv
<1>1. TypeOK
  BY EmptySeq, BoundsAssumption DEF Init, TypeOK
<1>2. ToSet(queue) = {} /\ NoRepeat(queue) /\ NoRepeat(processed)
  <2>1. queue = <<>> /\ processed = <<>>  BY DEF Init
  <2> QED  BY <2>1, Empty
<1>3. QueueInv  BY <1>2 DEF Init, QueueInv
<1>4. \A w \in Worker : worker[w] = Idle  BY DEF Init
<1>5. WorkInv /\ DownInv
  BY <1>4 DEF Init, WorkInv, DownInv, NothingSurvivesTheConnection
<1>6. TableIsExact
  BY <1>4, ReadingAssumption
  DEF Init, TableIsExact, Awaited, Waits, Idle
<1>7. SendInv
  <2>1. \A m : Open(m) = {}  BY DEF Init, Open
  <2>2. Cardinality({}) = 0  BY FS_EmptySet
  <2>3. \A m \in Msg : performed[m] = 0  BY DEF Init
  <2>4. \A m \in Msg, t \in Nat : Within(m, t)  BY <2>1, <2>2, <2>3 DEF Within
  <2> QED  BY <2>4, <1>4, BoundsAssumption DEF SendInv
<1> QED  BY <1>1, <1>3, <1>5, <1>6, <1>7 DEF PipelineInv

\* every step keeps it,
LEMMA StepInv ==
  ASSUME KeysLast, PipelineInv, [Next]_vars
  PROVE  PipelineInv'
<1>1. CASE Next
  BY <1>1, TypeKept, QueueKept, WorkKept, DownKept, TableKept, SendKept DEF PipelineInv
<1>2. CASE UNCHANGED vars
  <2>1. /\ UNCHANGED <<ws, wire, reader, worker, queue, processed, pending, remote>>
        /\ UNCHANGED <<conns, copies, handled, performed>>
    BY <1>2 DEF vars
  <2>2. TypeOK'  BY <2>1 DEF PipelineInv, TypeOK
  <2>3. QueueInv' /\ WorkInv' /\ DownInv'
    BY <2>1
    DEF PipelineInv, QueueInv, WorkInv, DownInv, NothingSurvivesTheConnection
  <2>4. TableIsExact'
    BY <2>1 DEF PipelineInv, TableIsExact, Awaited, Waits
  <2>5. SendInv'  BY <2>1 DEF PipelineInv, SendInv, Within, Open
  <2> QED  BY <2>2, <2>3, <2>4, <2>5 DEF PipelineInv
<1> QED  BY <1>1, <1>2

\* and so it holds always.
LEMMA Inductive ==
  ASSUME KeysLast
  PROVE  Spec => []PipelineInv
<1>1. PipelineInv /\ [Next]_vars => PipelineInv'  BY StepInv
<1> QED  BY <1>1, InitInv, PTL DEF Spec

\* With as many dedup keys kept as messages come, a message is handled once and
\* answered at most MaxRetries times, the table of calls holds exactly those
\* awaited, and nothing survives its connection.
THEOREM AlwaysSafe ==
  ASSUME KeysLast
  PROVE  Spec => []PipelineSafe
<1>1. ASSUME PipelineInv  PROVE PipelineSafe
  <2>1. RepliesBounded
    <3>1. SUFFICES ASSUME NEW m \in Msg
                   PROVE  handled[m] <= 1 /\ performed[m] <= MaxRetries
      BY DEF RepliesBounded
    <3>2. performed[m] + Cardinality(Open(m)) <= MaxRetries
      BY <1>1 DEF PipelineInv, SendInv, Within
    <3>3. Cardinality(Open(m)) \in Nat /\ performed[m] \in Nat
      BY <1>1, OpenFinite DEF PipelineInv, TypeOK
    <3>4. performed[m] <= MaxRetries  BY <3>2, <3>3, BoundsAssumption
    <3> QED  BY <3>4, <1>1 DEF PipelineInv, QueueInv
  <2> QED  BY <2>1, <1>1 DEF PipelineInv, PipelineSafe, DownInv
<1> QED  BY <1>1, Inductive, PTL

\* Every step of the pipeline is a step of Inbox, or none.
LEMMA StepIsPromised ==
  ASSUME KeysLast, PipelineInv, [Next]_vars
  PROVE  [Promise!Next]_([m \in Msg |-> StatusOf(m)])
<1> DEFINE status == [m \in Msg |-> StatusOf(m)]
<1>0. TypeOK /\ QueueInv /\ handled \in [Msg -> Nat]
  BY DEF PipelineInv, TypeOK
<1>1. CASE UNCHANGED <<queue, processed, handled>>
  <2>1. \A m \in Msg : StatusOf(m)' = StatusOf(m)  BY <1>1 DEF StatusOf
  <2>2. status' = status  BY <2>1
  <2> QED  BY <2>2
<1>2. CASE Connect
  <2>1. queue' = <<>> /\ UNCHANGED <<processed, handled>>  BY <1>2 DEF Connect
  <2>2. ToSet(queue') = {}  BY <2>1, Empty
  <2>3. ASSUME NEW m \in Msg
        PROVE  StatusOf(m)' = IF StatusOf(m) = "waiting" THEN "lost" ELSE StatusOf(m)
    <3>1. m \in ToSet(queue) => handled[m] = 0 /\ m \in ToSet(processed)
      BY <1>0 DEF QueueInv
    <3> QED  BY <2>1, <2>2, <3>1 DEF StatusOf
  <2>4. status' = [m \in Msg |-> IF status[m] = "waiting" THEN "lost" ELSE status[m]]
    BY <2>3
  <2>5. Promise!LoseAll  BY <2>4 DEF Promise!LoseAll
  <2> QED  BY <2>5 DEF Promise!Next
<1>3. CASE ReadMessage
  <2>1. PICK m \in Msg :
          \/ m \in ToSet(processed) /\ UNCHANGED <<processed, queue>>
          \/ /\ m \notin ToSet(processed)
             /\ ToSet(processed') = ToSet(processed) \cup {m}
             /\ \/ queue' = queue
                \/ ToSet(queue') = ToSet(queue) \cup {m}
    BY <1>0, <1>3, ReadMessageEffect
  <2>2. UNCHANGED handled  BY <1>3 DEF ReadMessage
  <2>3. CASE UNCHANGED <<processed, queue>>  BY <2>2, <2>3, <1>1
  <2>4. CASE /\ m \notin ToSet(processed)
             /\ ToSet(processed') = ToSet(processed) \cup {m}
             /\ queue' = queue \/ ToSet(queue') = ToSet(queue) \cup {m}
    <3>1. handled[m] = 0 /\ m \notin ToSet(queue)  BY <1>0, <2>4 DEF QueueInv
    <3>2. StatusOf(m) = "unseen"  BY <2>4, <3>1 DEF StatusOf
    <3>3. StatusOf(m)' \in {"waiting", "lost"}  BY <2>2, <2>4, <3>1 DEF StatusOf
    <3>4. \A n \in Msg : n # m => StatusOf(n)' = StatusOf(n)
      BY <2>2, <2>4 DEF StatusOf
    <3>5. status' = [status EXCEPT ![m] = StatusOf(m)']  BY <3>4
    <3>6. status[m] = "unseen"  BY <3>2
    <3>7. CASE StatusOf(m)' = "waiting"
      <4>1. Promise!Accept(m)  BY <3>5, <3>6, <3>7 DEF Promise!Accept
      <4> QED  BY <4>1 DEF Promise!Next
    <3>8. CASE StatusOf(m)' = "lost"
      <4>1. Promise!Refuse(m)  BY <3>5, <3>6, <3>8 DEF Promise!Refuse
      <4> QED  BY <4>1 DEF Promise!Next
    <3> QED  BY <3>3, <3>7, <3>8
  <2> QED  BY <2>1, <2>3, <2>4
<1>4. ASSUME NEW w \in Worker, Take(w)
      PROVE  [Promise!Next]_status
  <2>1. /\ Head(queue) \in Msg /\ Head(queue) \in ToSet(queue)
        /\ ToSet(queue') = ToSet(queue) \ {Head(queue)}
        /\ handled' = [handled EXCEPT ![Head(queue)] = 1]
    BY <1>0, <1>4, TakeEffect
  <2>2. UNCHANGED processed  BY <1>4 DEF Take
  <2>3. PICK m \in Msg : m = Head(queue)  BY <2>1
  <2>4. handled'[m] = 1 /\ \A n \in Msg : n # m => handled'[n] = handled[n]
    BY <2>1, <2>3, <1>0
  <2>5. StatusOf(m) = "waiting" /\ StatusOf(m)' = "handled"
    BY <2>1, <2>3, <2>4 DEF StatusOf
  <2>6. \A n \in Msg : n # m => StatusOf(n)' = StatusOf(n)
    BY <2>1, <2>2, <2>3, <2>4 DEF StatusOf
  <2>7. status' = [status EXCEPT ![m] = "handled"] /\ status[m] = "waiting"
    BY <2>5, <2>6
  <2>8. Promise!Handle(m)  BY <2>7 DEF Promise!Handle
  <2> QED  BY <2>8 DEF Promise!Next
<1> QED
  BY <1>1, <1>2, <1>3, <1>4
  DEF Next, Network, ReaderStep, Handling, Deliver, DeliverRequest, Answer, Close, Teardown,
      ReadRequest, ReadResponse, ReaderTimeout, Call, CallOnClosed, CallTimeout, GiveUp, vars

\* With as many dedup keys kept as messages come, the pipeline implements Inbox:
\* whatever is redelivered, reordered or lost, a handled or lost message never
\* comes back.
THEOREM PipelineImplementsInbox ==
  ASSUME KeysLast
  PROVE  Spec => KeepsPromise
<1>1. Init => Promise!Init
  <2>1. ASSUME Init  PROVE Promise!Init
    <3>2. queue = <<>> /\ processed = <<>> /\ \A m \in Msg : handled[m] = 0
      BY <2>1 DEF Init
    <3>3. ToSet(queue) = {} /\ ToSet(processed) = {}  BY <3>2, Empty
    <3>4. \A m \in Msg : StatusOf(m) = "unseen"  BY <3>2, <3>3 DEF StatusOf
    <3> QED  BY <3>4 DEF Promise!Init
  <2> QED  BY <2>1
<1>2. PipelineInv /\ [Next]_vars => [Promise!Next]_([m \in Msg |-> StatusOf(m)])
  BY StepIsPromised
<1> QED  BY <1>1, <1>2, Inductive, PTL DEF Spec, KeepsPromise, Promise!Spec
=============================================================================
