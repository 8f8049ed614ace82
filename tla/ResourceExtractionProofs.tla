---------------------- MODULE ResourceExtractionProofs ----------------------
(***************************************************************************)
(* The keys of _active_resource_request_keys exclude, and what an account  *)
(* gets within a window is bounded: for every number of handlers, chats and*)
(* features, and every order of their steps.                               *)
(***************************************************************************)
EXTENDS ResourceExtraction, FiniteSetTheorems, SequenceTheorems, WellFoundedInduction, TLAPS

\* What the argument needs of the types.
TaskTypeOK == task \in [Task -> {Idle} \cup Tasks]

(* A handler under way has a record.                                       *)
LEMMA ActiveIsTask ==
  ASSUME TaskTypeOK, NEW t \in Task, Active(t)
  PROVE  task[t] \in Tasks
  BY DEF TaskTypeOK, Active, Idle

\* A handler that only moves on keeps its key.
Moves(t) ==
  /\ task[t].pc # "idle"
  /\ \E r \in Tasks : /\ r.feature = task[t].feature /\ r.chat = task[t].chat
                      /\ task' = [task EXCEPT ![t] = r]

(* The keys stay as they are.                                              *)
LEMMA MovesKeepsKeys ==
  ASSUME TaskTypeOK, OneHandlerPerKey, NEW t \in Task, Moves(t), busy' = busy
  PROVE  TaskTypeOK' /\ OneHandlerPerKey'
<1>1. PICK r \in Tasks : /\ r.feature = task[t].feature /\ r.chat = task[t].chat
                         /\ task' = [task EXCEPT ![t] = r]
  BY DEF Moves
<1>2. TaskTypeOK'
  BY <1>1 DEF TaskTypeOK
<1>3. \A u \in Task : /\ (Active(u))' <=> Active(u)
                      /\ (Key(u))' = Key(u)
  <2> SUFFICES ASSUME NEW u \in Task
               PROVE  ((Active(u))' <=> Active(u)) /\ (Key(u))' = Key(u)
    OBVIOUS
  <2>1. CASE u = t
    BY <1>1, <2>1 DEF Moves, Active, Key, TaskTypeOK, Tasks, Phase
  <2>2. CASE u # t
    BY <1>1, <2>2 DEF Active, Key, TaskTypeOK
  <2> QED BY <2>1, <2>2
<1>4. OneHandlerPerKey'
  BY <1>3 DEF OneHandlerPerKey
<1> QED BY <1>2, <1>4

\* A handler that ends leaves the others their keys, whether it frees its own
\* (Finish) or not (Abort).
LEMMA EndKeepsKeys ==
  ASSUME TaskTypeOK, OneHandlerPerKey, NEW t \in Task, Active(t),
         task' = [task EXCEPT ![t] = Idle],
         busy' = busy \/ busy' = busy \ {Key(t)}
  PROVE  TaskTypeOK' /\ OneHandlerPerKey'
<1>1. TaskTypeOK'
  BY DEF TaskTypeOK
<1>2. ~(Active(t))'
  BY DEF TaskTypeOK, Active, Idle
<1>3. \A u \in Task \ {t} : /\ (Active(u))' <=> Active(u)
                            /\ (Key(u))' = Key(u)
  BY DEF TaskTypeOK, Active, Key
<1>4. \A u \in Task \ {t} : Active(u) => Key(u) \in busy'
  BY DEF OneHandlerPerKey
<1>5. OneHandlerPerKey'
  BY <1>2, <1>3, <1>4 DEF OneHandlerPerKey
<1> QED BY <1>1, <1>5

(* A handler begins with a key that is nobody's.                           *)
LEMMA BeginKeepsKeys ==
  ASSUME TaskTypeOK, OneHandlerPerKey, account \in Account,
         NEW t \in Task, NEW f \in Feature, NEW c \in Chat, Begin(t, f, c)
  PROVE  TaskTypeOK' /\ OneHandlerPerKey'
<1> DEFINE new == [pc |-> "queued", feature |-> f, chat |-> c, account |-> account,
                   tries |-> 0, outcome |-> "none"]
<1>1. /\ ~Active(t) /\ <<f, c>> \notin busy
      /\ busy' = busy \cup {<<f, c>>}
      /\ task' = [task EXCEPT ![t] = new]
  BY DEF Begin, Accepts
<1>2. new \in Tasks
  BY BoundsAssumption DEF Tasks, Phase
<1>3. new.feature = f /\ new.chat = c
  OBVIOUS
<1> HIDE DEF new
<1>4. TaskTypeOK'
  BY <1>1, <1>2 DEF TaskTypeOK
<1>5. (Key(t))' = <<f, c>>
  BY <1>1, <1>3 DEF Key, TaskTypeOK
<1>6. \A u \in Task \ {t} : /\ (Active(u))' <=> Active(u)
                            /\ (Key(u))' = Key(u)
  BY <1>1 DEF TaskTypeOK, Active, Key
<1>7. \A u \in Task \ {t} : Active(u) => Key(u) # <<f, c>>
  BY <1>1 DEF OneHandlerPerKey
<1>8. OneHandlerPerKey'
  BY <1>1, <1>5, <1>6, <1>7 DEF OneHandlerPerKey
<1> QED BY <1>4, <1>8

KeyInv == TaskTypeOK /\ account \in Account /\ OneHandlerPerKey

(* Every step of a handler keeps the keys apart.                           *)
LEMMA StepKeepsKeys ==
  ASSUME KeyInv, NEW t \in Task, Step(t)
  PROVE  KeyInv'
<1> USE DEF KeyInv
<1>1. (account \in Account)'
  BY DEF Step, Acquire, Retry, Fail, Succeed, Finish, Abort
<1>2. CASE Acquire(t) \/ Retry(t) \/ Fail(t) \/ Succeed(t)
  <2>1. task[t] \in Tasks /\ busy' = busy
    BY <1>2, ActiveIsTask DEF Active, Acquire, Retry, Fail, Succeed
  <2>2. ASSUME NEW r, r \in Tasks,
               r.feature = task[t].feature, r.chat = task[t].chat,
               task' = [task EXCEPT ![t] = r]
        PROVE  KeyInv'
    <3>1. Moves(t)
      BY <2>1, <2>2 DEF Moves, Tasks, Phase
    <3> QED BY <1>1, <2>1, <3>1, MovesKeepsKeys
  <2>3. CASE Acquire(t)
    <3> DEFINE r == [task[t] EXCEPT !.pc = "calling"]
    <3>1. r \in Tasks /\ r.feature = task[t].feature /\ r.chat = task[t].chat
      BY <2>1 DEF Tasks, Phase
    <3>2. task' = [task EXCEPT ![t] = r]
      BY <2>3 DEF Acquire
    <3> QED BY <2>2, <3>1, <3>2
  <2>4. CASE Retry(t)
    <3> DEFINE n == task[t].tries + 1
               r == [task[t] EXCEPT !.tries = n]
    <3>1. n \in 0..MaxRetries - 1
      BY <2>1, <2>4, BoundsAssumption DEF Retry, Tasks
    <3> HIDE DEF n
    <3>2. r \in Tasks /\ r.feature = task[t].feature /\ r.chat = task[t].chat
      BY <2>1, <3>1 DEF Tasks, Phase
    <3>3. task' = [task EXCEPT ![t] = r]
      BY <2>4 DEF Retry, n
    <3> QED BY <2>2, <3>2, <3>3
  <2>5. CASE Fail(t)
    <3> DEFINE r == [task[t] EXCEPT !.pc = "sending", !.outcome = "failed"]
    <3>1. r \in Tasks /\ r.feature = task[t].feature /\ r.chat = task[t].chat
      BY <2>1 DEF Tasks, Phase
    <3>2. task' = [task EXCEPT ![t] = r]
      BY <2>1, <2>5 DEF Fail, TaskTypeOK
    <3> QED BY <2>2, <3>1, <3>2
  <2>6. CASE Succeed(t)
    <3> DEFINE o == IF Affords(task[t].account, task[t].feature) THEN "paid" ELSE "unpaid"
               r == [task[t] EXCEPT !.pc = "sending", !.outcome = o]
    <3>1. r \in Tasks /\ r.feature = task[t].feature /\ r.chat = task[t].chat
      BY <2>1 DEF Tasks, Phase
    <3>2. task' = [task EXCEPT ![t] = r]
      BY <2>1, <2>6 DEF Succeed, TaskTypeOK
    <3> QED BY <2>2, <3>1, <3>2
  <2> QED BY <1>2, <2>3, <2>4, <2>5, <2>6
<1>3. CASE Finish(t) \/ Abort(t)
  <2>1. Active(t) /\ task' = [task EXCEPT ![t] = Idle]
    BY <1>3 DEF Finish, Abort, Active
  <2>2. busy' = busy \/ busy' = busy \ {Key(t)}
    BY <1>3 DEF Finish, Abort
  <2> QED BY <1>1, <2>1, <2>2, EndKeepsKeys
<1> QED BY <1>2, <1>3 DEF Step

(* Nobody holds a key at first.                                            *)
LEMMA InitKeys == Init => KeyInv
  BY DEF Init, KeyInv, TaskTypeOK, OneHandlerPerKey, Active, Idle, Account

(* And so does every step.                                                 *)
LEMMA NextKeepsKeys == KeyInv /\ [Next]_vars => KeyInv'
<1> SUFFICES ASSUME KeyInv, [Next]_vars PROVE KeyInv'
  OBVIOUS
<1>1. CASE \E t \in Task, f \in Feature, c \in Chat : Begin(t, f, c)
  <2>1. PICK t \in Task, f \in Feature, c \in Chat : Begin(t, f, c)
    BY <1>1
  <2>2. account' = account
    BY <2>1 DEF Begin
  <2> QED BY <2>1, <2>2, BeginKeepsKeys DEF KeyInv
<1>2. CASE \E t \in Task : Step(t)
  BY <1>2, StepKeepsKeys
<1>3. CASE BindQQ
  BY <1>3 DEF BindQQ, KeyInv, TaskTypeOK, OneHandlerPerKey, Active, Key, Account
<1>4. CASE Tick \/ UNCHANGED vars
  BY <1>4 DEF Tick, vars, KeyInv, TaskTypeOK, OneHandlerPerKey, Active, Key
<1> QED BY <1>1, <1>2, <1>3, <1>4 DEF Next

\* In every behaviour, two handlers never serve the same feature in the same
\* chat at once, and each holds its key until it ends: the check of the set and
\* the insertion are one step, and only the holder removes a key
\* (_begin_resource_request, _end_resource_request).
THEOREM KeysExclude == Spec => []OneHandlerPerKey
<1>1. KeyInv => OneHandlerPerKey
  BY DEF KeyInv
<1> QED BY InitKeys, NextKeepsKeys, <1>1, PTL DEF Spec

-----------------------------------------------------------------------------
(* Every non-empty set of numbers has a least element.                     *)
LEMMA Least ==
  ASSUME NEW T, T \subseteq Nat, T # {}
  PROVE  \E x \in T : \A y \in T : x <= y
<1>1. PICK R : IsWellFoundedOn(R, Nat) /\ \A x, y \in Nat : <<y, x>> \in R <=> y < x
  <2>1. IsWellFoundedOn(OpToRel(<, Nat), Nat)  BY NatLessThanWellFounded
  <2>2. \A x, y \in Nat : <<y, x>> \in OpToRel(<, Nat) <=> y < x  BY DEF OpToRel
  <2> QED  BY <2>1, <2>2
<1>2. PICK x \in T : \A y \in T : <<y, x>> \notin R
  BY <1>1, WFMin
<1>3. ASSUME NEW y \in T PROVE x <= y
  <2>1. x \in Nat /\ y \in Nat  OBVIOUS
  <2>2. ~(y < x)  BY <2>1, <1>1, <1>2
  <2> QED  BY <2>1, <2>2
<1> QED  BY <1>3

\* Within at any time, the entries it is about, and what relates them: kept
\* holds the recent entries of the first n, at the places of the log that
\* where names, each once.
Time == 0..MaxTime
WithinAt(log, w, t) ==
  LET kept[i \in 0..Len(log)] ==
        IF i = 0 THEN <<>>
        ELSE IF t - log[i] < w THEN Append(kept[i - 1], log[i]) ELSE kept[i - 1]
  IN  kept[Len(log)]
Recent(log, n, w, t) == {j \in 1..n : t - log[j] < w}
Keeps(kept, log, n, w, t, where) ==
  /\ kept \in Seq(Time) /\ where \in [1..Len(kept) -> Recent(log, n, w, t)]
  /\ \A i \in 1..Len(kept) : kept[i] = log[where[i]]
  /\ \A i, j \in 1..Len(kept) : where[i] = where[j] => i = j
  /\ \A j \in Recent(log, n, w, t) : \E i \in 1..Len(kept) : where[i] = j
Filter(f, log, n, w, t) ==
  f = [i \in 0..n |-> IF i = 0 THEN <<>> ELSE IF t - log[i] < w THEN Append(f[i - 1], log[i]) ELSE f[i - 1]]

\* The recursion of Within defines a function.
LEMMA FilterExists ==
  ASSUME NEW log \in Seq(Time), NEW w \in Nat, NEW t \in Time
  PROVE  \A n \in 0..Len(log) : \E f : Filter(f, log, n, w, t)
<1>1. Len(log) \in Nat  BY LenProperties
<1>2. PICK T : T = {n \in 0..Len(log) : ~\E f : Filter(f, log, n, w, t)}  OBVIOUS
<1>3. ASSUME T # {} PROVE FALSE
  <2>1. PICK m \in T : \A y \in T : m <= y
    <3>1. T \subseteq Nat  BY <1>1, <1>2
    <3> QED  BY <3>1, <1>3, Least
  <2>2. m \in 0..Len(log) /\ m \in Nat /\ ~\E f : Filter(f, log, m, w, t)  BY <1>1, <1>2
  <2>3. CASE m = 0
    <3>1. Filter([i \in 0..0 |-> <<>>], log, 0, w, t)  BY DEF Filter
    <3> QED  BY <3>1, <2>2, <2>3
  <2>4. CASE m > 0
    <3>1. m - 1 \in 0..Len(log) /\ m - 1 \notin T  BY <2>1, <2>2, <2>4, <1>1
    <3>2. PICK f : Filter(f, log, m - 1, w, t)  BY <3>1, <1>2
    <3>3. PICK g : g = [i \in 0..m |-> IF i = m THEN (IF t - log[m] < w THEN Append(f[m - 1], log[m]) ELSE f[m - 1])
                                               ELSE f[i]]
      OBVIOUS
    <3>4. ASSUME NEW i \in 0..m
          PROVE  g[i] = IF i = 0 THEN <<>> ELSE IF t - log[i] < w THEN Append(g[i - 1], log[i]) ELSE g[i - 1]
      <4>1. CASE i = 0
        <5>1. g[0] = f[0] /\ f[0] = <<>>  BY <2>2, <2>4, <3>2, <3>3 DEF Filter
        <5> QED  BY <5>1, <4>1
      <4>2. CASE i = m
        <5>1. g[m - 1] = f[m - 1]  BY <2>2, <2>4, <3>3
        <5> QED  BY <5>1, <4>2, <2>2, <2>4, <3>3
      <4>3. CASE i # 0 /\ i # m
        <5>1. i \in 0..(m - 1) /\ i - 1 \in 0..(m - 1) /\ i - 1 # m /\ i - 1 \in 0..m  BY <4>3, <2>2
        <5>2. g[i] = f[i] /\ g[i - 1] = f[i - 1]  BY <5>1, <4>3, <3>3
        <5>3. f[i] = IF t - log[i] < w THEN Append(f[i - 1], log[i]) ELSE f[i - 1]  BY <5>1, <4>3, <3>2 DEF Filter
        <5> QED  BY <5>2, <5>3, <4>3
      <4> QED  BY <4>1, <4>2, <4>3
    <3>5. Filter(g, log, m, w, t)  BY <3>3, <3>4 DEF Filter
    <3> QED  BY <3>5, <2>2
  <2> QED  BY <2>2, <2>3, <2>4
<1> QED  BY <1>2, <1>3

\* And what it defines keeps the recent entries.
LEMMA WithinKeeps ==
  ASSUME NEW log \in Seq(Time), NEW w \in Nat, NEW t \in Time
  PROVE  \E where : Keeps(WithinAt(log, w, t), log, Len(log), w, t, where)
<1>1. Len(log) \in Nat /\ \A i \in 1..Len(log) : log[i] \in Time  BY LenProperties, ElementOfSeq
<1>2. PICK f : Filter(f, log, Len(log), w, t) /\ WithinAt(log, w, t) = f[Len(log)]
  <2> DEFINE g == CHOOSE g : Filter(g, log, Len(log), w, t)
  <2>1. Len(log) \in 0..Len(log)  BY <1>1
  <2>2. \E f : Filter(f, log, Len(log), w, t)  BY <2>1, FilterExists
  <2>3. Filter(g, log, Len(log), w, t)  BY <2>2
  <2>4. WithinAt(log, w, t) = g[Len(log)]  BY DEF WithinAt, Filter
  <2> QED  BY <2>3, <2>4
<1>3. PICK T : T = {n \in 0..Len(log) : ~\E where : Keeps(f[n], log, n, w, t, where)}  OBVIOUS
<1>4. ASSUME T # {} PROVE FALSE
  <2>1. PICK m \in T : \A y \in T : m <= y
    <3>1. T \subseteq Nat  BY <1>1, <1>3
    <3> QED  BY <3>1, <1>4, Least
  <2>2. m \in 0..Len(log) /\ m \in Nat /\ ~\E where : Keeps(f[m], log, m, w, t, where)  BY <1>1, <1>3
  <2>3. f[m] = IF m = 0 THEN <<>> ELSE IF t - log[m] < w THEN Append(f[m - 1], log[m]) ELSE f[m - 1]
    BY <2>2, <1>2 DEF Filter
  <2>4. CASE m = 0
    <3>1. f[0] = <<>> /\ Len(<<>>) = 0 /\ <<>> \in Seq(Time)  BY <2>3, <2>4, EmptySeq
    <3>2. Recent(log, 0, w, t) = {}  BY DEF Recent
    <3>3. Keeps(f[0], log, 0, w, t, [i \in 1..0 |-> 0])  BY <3>1, <3>2 DEF Keeps
    <3> QED  BY <3>3, <2>2, <2>4
  <2>5. CASE m > 0
    <3>1. m - 1 \in 0..Len(log) /\ m - 1 \notin T /\ m \in 1..Len(log)  BY <2>1, <2>2, <2>5, <1>1
    <3>2. PICK e : Keeps(f[m - 1], log, m - 1, w, t, e)  BY <3>1, <1>3
    <3>3. PICK s, k : s = f[m - 1] /\ k = Len(s)  OBVIOUS
    <3>4. s \in Seq(Time) /\ k \in Nat  BY <3>2, <3>3, LenProperties DEF Keeps
    <3>5. CASE t - log[m] < w
      <4>1. f[m] = Append(s, log[m])  BY <2>3, <2>5, <3>3, <3>5
      <4>2. /\ f[m] \in Seq(Time) /\ Len(f[m]) = k + 1 /\ f[m][k + 1] = log[m]
            /\ \A i \in 1..k : f[m][i] = s[i]
        BY <4>1, <3>1, <3>3, <3>4, <1>1, AppendProperties
      <4>3. Recent(log, m, w, t) = Recent(log, m - 1, w, t) \cup {m} /\ m \notin Recent(log, m - 1, w, t)
        BY <3>5, <2>2, <2>5 DEF Recent
      <4>4. PICK d : d = [i \in 1..(k + 1) |-> IF i = k + 1 THEN m ELSE e[i]]  OBVIOUS
      <4>5. \A i \in 1..k : e[i] \in Recent(log, m - 1, w, t) /\ i \in 1..(k + 1) /\ i # k + 1
        BY <3>2, <3>3, <3>4 DEF Keeps
      <4>6. d \in [1..(k + 1) -> Recent(log, m, w, t)]
        <5>1. ASSUME NEW i \in 1..(k + 1) PROVE d[i] \in Recent(log, m, w, t)
          <6>1. i = k + 1 \/ i \in 1..k  BY <3>4
          <6> QED  BY <6>1, <4>3, <4>4, <4>5
        <5> QED  BY <5>1, <4>4
      <4>7. \A i \in 1..k : d[i] = e[i]  BY <4>4, <4>5
      <4>8. k + 1 \in 1..(k + 1) /\ d[k + 1] = m  BY <3>4, <4>4
      <4>9. \A i \in 1..(k + 1) : i = k + 1 \/ i \in 1..k  BY <3>4
      <4>10. \A i \in 1..(k + 1) : f[m][i] = log[d[i]]
        BY <4>2, <4>7, <4>8, <4>9, <3>2, <3>3 DEF Keeps
      <4>11. \A i, j \in 1..(k + 1) : d[i] = d[j] => i = j
        <5>1. \A i, j \in 1..k : e[i] = e[j] => i = j  BY <3>2, <3>3 DEF Keeps
        <5> QED  BY <5>1, <4>3, <4>5, <4>7, <4>8, <4>9
      <4>12. ASSUME NEW j \in Recent(log, m, w, t) PROVE \E i \in 1..(k + 1) : d[i] = j
        <5>1. CASE j = m  BY <5>1, <4>8
        <5>2. CASE j # m
          <6>1. PICK i \in 1..k : e[i] = j  BY <5>2, <4>3, <3>2, <3>3 DEF Keeps
          <6> QED  BY <6>1, <4>5, <4>7
        <5> QED  BY <5>1, <5>2
      <4>13. Keeps(f[m], log, m, w, t, d)  BY <4>2, <4>6, <4>10, <4>11, <4>12 DEF Keeps
      <4> QED  BY <4>13, <2>2
    <3>6. CASE ~(t - log[m] < w)
      <4>1. f[m] = f[m - 1]  BY <2>3, <2>5, <3>6
      <4>2. Recent(log, m, w, t) = Recent(log, m - 1, w, t)
        <5>1. \A j \in 1..m : j = m \/ j \in 1..(m - 1)  BY <2>2
        <5>2. \A j \in 1..(m - 1) : j \in 1..m  BY <2>2
        <5> QED  BY <5>1, <5>2, <3>6 DEF Recent
      <4> QED  BY <4>1, <4>2, <3>2, <2>2 DEF Keeps
    <3> QED  BY <3>5, <3>6
  <2> QED  BY <2>2, <2>4, <2>5
<1>5. Len(log) \in 0..Len(log)  BY <1>1
<1> QED  BY <1>2, <1>3, <1>4, <1>5

\* Its length is the number of recent entries.
LEMMA WithinCounts ==
  ASSUME NEW log \in Seq(Time), NEW w \in Nat, NEW t \in Time
  PROVE  /\ WithinAt(log, w, t) \in Seq(Time) /\ IsFiniteSet(Recent(log, Len(log), w, t))
         /\ Len(WithinAt(log, w, t)) = Cardinality(Recent(log, Len(log), w, t))
         /\ Len(WithinAt(log, w, t)) \in Nat /\ Len(WithinAt(log, w, t)) <= Len(log)
<1>1. PICK e, k : k = WithinAt(log, w, t) /\ Keeps(k, log, Len(log), w, t, e)  BY WithinKeeps
<1>2. Len(k) \in Nat /\ Len(log) \in Nat  BY <1>1, LenProperties DEF Keeps
<1>3. \A n \in Nat : IsFiniteSet(1..n) /\ Cardinality(1..n) = n
  <2> SUFFICES ASSUME NEW n \in Nat PROVE IsFiniteSet(1..n) /\ Cardinality(1..n) = n
    OBVIOUS
  <2>1. 1 \in Int /\ n \in Int  OBVIOUS
  <2>2. IsFiniteSet(1..n) /\ Cardinality(1..n) = IF 1 > n THEN 0 ELSE n - 1 + 1  BY <2>1, FS_Interval
  <2> QED  BY <2>2
<1>4. Recent(log, Len(log), w, t) \in SUBSET (1..Len(log))  BY DEF Recent
<1>5. IsFiniteSet(Recent(log, Len(log), w, t)) /\ Cardinality(Recent(log, Len(log), w, t)) <= Len(log)
  BY <1>2, <1>3, <1>4, FS_Subset
<1>6. e \in Bijection(1..Len(k), Recent(log, Len(log), w, t))
  BY <1>1 DEF Keeps, Bijection, Injection, Surjection, IsInjective
<1>7. Cardinality(Recent(log, Len(log), w, t)) = Cardinality(1..Len(k))
  <2>1. ExistsBijection(1..Len(k), Recent(log, Len(log), w, t))  BY <1>6 DEF ExistsBijection
  <2> QED  BY <2>1, <1>2, <1>3, FS_Bijection
<1>8. Len(k) = Cardinality(Recent(log, Len(log), w, t))  BY <1>2, <1>3, <1>7
<1> QED  BY <1>1, <1>2, <1>5, <1>8 DEF Keeps

-----------------------------------------------------------------------------
(* Both forms of the filter agree.                                        *)
LEMMA WithinIsWithinNow ==
  ASSUME NEW log, NEW w
  PROVE  Within(log, w) = WithinAt(log, w, now)
  BY DEF Within, WithinAt

(* The entries of a log are times.                                         *)
LEMMA TimesAre ==
  ASSUME NEW log \in Seq(Time)
  PROVE  Len(log) \in Nat /\ \A i \in 1..Len(log) : log[i] \in Time /\ log[i] \in Nat /\ i \in Nat
<1>1. Len(log) \in Nat /\ \A i \in 1..Len(log) : log[i] \in Time  BY LenProperties, ElementOfSeq
<1>2. \A x \in Time : x \in Nat  BY BoundsAssumption DEF Time
<1> QED  BY <1>1, <1>2

(* Fewer entries are recent as time goes by.                               *)
LEMMA WithinFades ==
  ASSUME NEW log \in Seq(Time), NEW w \in Nat, NEW t \in Time, NEW u \in Time, t <= u
  PROVE  Len(WithinAt(log, w, u)) <= Len(WithinAt(log, w, t))
<1>1. t \in Nat /\ u \in Nat  BY BoundsAssumption DEF Time
<1>2. Recent(log, Len(log), w, u) \subseteq Recent(log, Len(log), w, t)
  <2>1. ASSUME NEW j \in 1..Len(log), u - log[j] < w PROVE t - log[j] < w
    <3>1. PICK x \in Nat : x = log[j]  BY TimesAre
    <3> QED  BY <1>1, <2>1, <3>1
  <2> QED  BY <2>1 DEF Recent
<1>3. Cardinality(Recent(log, Len(log), w, u)) <= Cardinality(Recent(log, Len(log), w, t))
  BY <1>2, WithinCounts, FS_Subset
<1> QED  BY <1>3, WithinCounts

(* What a filter drops was not recent for a shorter window either.         *)
LEMMA WithinOfWithin ==
  ASSUME NEW log \in Seq(Time), NEW w \in Nat, NEW v \in Nat, NEW t \in Time
  PROVE  Len(WithinAt(WithinAt(log, v, t), w, t)) <= Len(WithinAt(log, w, t))
<1>1. PICK k, e : k = WithinAt(log, v, t) /\ Keeps(k, log, Len(log), v, t, e)  BY WithinKeeps
<1>2. k \in Seq(Time) /\ Len(k) \in Nat  BY <1>1, TimesAre DEF Keeps
<1>3. PICK A, B : A = Recent(k, Len(k), w, t) /\ B = Recent(log, Len(log), w, t)  OBVIOUS
<1>4. IsFiniteSet(A) /\ IsFiniteSet(B)  BY <1>2, <1>3, WithinCounts
<1>5. [j \in A |-> e[j]] \in Injection(A, B)
  <2>1. \A j \in A : j \in 1..Len(k) /\ t - k[j] < w  BY <1>3 DEF Recent
  <2>2. \A j \in A : e[j] \in 1..Len(log) /\ k[j] = log[e[j]]  BY <2>1, <1>1 DEF Keeps, Recent
  <2>3. \A j \in A : e[j] \in B  BY <2>1, <2>2, <1>3 DEF Recent
  <2>4. \A i, j \in A : e[i] = e[j] => i = j  BY <2>1, <1>1 DEF Keeps
  <2> QED  BY <2>3, <2>4 DEF Injection, IsInjective
<1>6. Cardinality(A) <= Cardinality(B)  BY <1>4, <1>5, FS_Injection DEF ExistsInjection
<1> QED  BY <1>1, <1>2, <1>3, <1>6, WithinCounts

(* One more entry is at most one more recent one.                          *)
LEMMA WithinOfAppend ==
  ASSUME NEW log \in Seq(Time), NEW w \in Nat, NEW t \in Time
  PROVE  /\ Append(log, t) \in Seq(Time)
         /\ Len(WithinAt(Append(log, t), w, t)) <= Len(WithinAt(log, w, t)) + 1
<1>1. PICK s, n : s = Append(log, t) /\ n = Len(log)  OBVIOUS
<1>2. n \in Nat /\ s \in Seq(Time) /\ Len(s) = n + 1 /\ \A i \in 1..n : s[i] = log[i]
  BY <1>1, TimesAre, AppendProperties
<1>3. PICK A, B : A = Recent(s, n + 1, w, t) /\ B = Recent(log, n, w, t)  OBVIOUS
<1>4. IsFiniteSet(A) /\ IsFiniteSet(B) /\ Cardinality(A) \in Nat /\ Cardinality(B) \in Nat
  BY <1>1, <1>2, <1>3, WithinCounts, FS_CardinalityType
<1>5. A \subseteq B \cup {n + 1}
  <2>1. \A i \in 1..(n + 1) : i = n + 1 \/ i \in 1..n  BY <1>2
  <2> QED  BY <2>1, <1>2, <1>3 DEF Recent
<1>6. IsFiniteSet(B \cup {n + 1}) /\ Cardinality(B \cup {n + 1}) <= Cardinality(B) + 1
  <2>1. /\ IsFiniteSet(B \cup {n + 1})
        /\ Cardinality(B \cup {n + 1}) = IF n + 1 \in B THEN Cardinality(B) ELSE Cardinality(B) + 1
    BY <1>4, FS_AddElement
  <2> QED  BY <2>1, <1>4
<1>7. Cardinality(A) <= Cardinality(B \cup {n + 1}) /\ Cardinality(B \cup {n + 1}) \in Nat
  BY <1>4, <1>5, <1>6, FS_Subset, FS_CardinalityType
<1>8. Cardinality(A) <= Cardinality(B) + 1  BY <1>4, <1>6, <1>7
<1>9. Len(WithinAt(s, w, t)) = Cardinality(Recent(s, Len(s), w, t)) /\ Len(WithinAt(log, w, t)) = Cardinality(B)
  BY <1>1, <1>2, <1>3, WithinCounts
<1>10. Len(WithinAt(s, w, t)) = Cardinality(A)  BY <1>2, <1>3, <1>9
<1> QED  BY <1>1, <1>2, <1>8, <1>9, <1>10

-----------------------------------------------------------------------------
(* The calls under way, the requests of an account that are queued or under*)
(* way, and the limited features with their windows and bounds.            *)
Calling == {t \in Task : task[t].pc = "calling"}
Open(f, a) == {t \in Task : task[t].pc \in {"queued", "calling"} /\ task[t].feature = f /\ task[t].account = a}
Limited == Feature \cap {"sauth", "163"}
Span(f) == IF f = "sauth" THEN RateWindow ELSE Cooldown
Most(f) == IF f = "sauth" THEN RateLimit - 1 + Cardinality(Chat) ELSE Cardinality(Chat)
Count(f, a) == Len(WithinAt(rate[f][a], Span(f), now))

(* The line names the queued handlers once each; a request that is open is *)
(* counted before it is a use, and every use of 163 is as old as the last. *)
LineInv ==
  /\ \A i, j \in 1..Len(line) : line[i] = line[j] => i = j
  /\ \A t \in Task : task[t].pc = "queued" <=> \E i \in 1..Len(line) : line[i] = t
  /\ Cardinality(Calling) <= Slots
BurstInv ==
  /\ \A f \in Limited, a \in Account : Count(f, a) + Cardinality(Open(f, a)) <= Most(f)
  /\ "163" \in Feature => \A a \in Account : \A i \in 1..Len(rate["163"][a]) : rate["163"][a][i] <= lastUse[a]
  /\ \A a \in Account : lastUse[a] <= now
ExtractInv == TypeOK /\ KeyInv /\ LineInv /\ BurstInv

(* The bounds are numbers.                                                 *)
LEMMA Numbers ==
  /\ Cardinality(Chat) \in Nat /\ Slots \in Nat /\ MaxTime \in Nat /\ Cooldown \in Nat /\ Cooldown > 0 /\ Kept \in Nat
  /\ RateLimit \in Nat /\ RateLimit > 0 /\ RateWindow \in Nat
  /\ \A f \in Limited : Span(f) \in Nat /\ Most(f) \in Nat /\ Cardinality(Chat) <= Most(f)
  BY BoundsAssumption, SetsAssumption, FS_CardinalityType DEF Span, Most, Limited

(* The sets that are counted are finite.                                   *)
LEMMA SetsAreFinite ==
  /\ IsFiniteSet(Calling) /\ Cardinality(Calling) \in Nat
  /\ \A f, a : IsFiniteSet(Open(f, a)) /\ Cardinality(Open(f, a)) \in Nat
<1>1. \A S : S \subseteq Task => IsFiniteSet(S) /\ Cardinality(S) \in Nat  BY SetsAssumption, FS_Subset, FS_CardinalityType
<1> QED  BY <1>1 DEF Calling, Open

(* The invariant is enough for the properties.                             *)
LEMMA ExtractInvIsSafe == ExtractInv => ExtractionSafe
<1> SUFFICES ASSUME ExtractInv PROVE ExtractionSafe
  OBVIOUS
<1>1. TypeOK /\ LineInv /\ BurstInv  BY DEF ExtractInv
<1>2. line \in Seq(Task) /\ Len(line) \in Nat /\ DOMAIN line = 1..Len(line) /\ \A i \in 1..Len(line) : line[i] \in Task
  BY <1>1, LenProperties, ElementOfSeq DEF TypeOK
<1>3. ToSet(line) = {t \in Task : task[t].pc = "queued"}  BY <1>1, <1>2 DEF LineInv, ToSet
<1>4. Len(line) = Cardinality(ToSet(line))
  <2>1. IsFiniteSet(1..Len(line)) /\ Cardinality(1..Len(line)) = Len(line)
    <3>1. PICK n \in Nat : n = Len(line)  BY <1>2
    <3>2. 1 \in Int /\ n \in Int  OBVIOUS
    <3>3. IsFiniteSet(1..n) /\ Cardinality(1..n) = IF 1 > n THEN 0 ELSE n - 1 + 1  BY <3>2, FS_Interval
    <3> QED  BY SMTT(60), <3>1, <3>3
  <2>2. [i \in 1..Len(line) |-> line[i]] \in Bijection(1..Len(line), ToSet(line))
    BY <1>1, <1>2 DEF LineInv, ToSet, Bijection, Injection, Surjection, IsInjective
  <2> QED  BY SMTT(60), <2>1, <2>2, FS_Bijection DEF ExistsBijection
<1>5. LineIsExact  BY <1>1, <1>3, <1>4 DEF LineIsExact, LineInv, Calling
<1>6. ASSUME NEW f \in Limited, NEW a \in Account PROVE Uses(f, a, Span(f)) <= Most(f)
  <2>1. Uses(f, a, Span(f)) = Count(f, a)  BY WithinIsWithinNow DEF Uses, Count
  <2>2. rate[f][a] \in Seq(Time) /\ now \in Time  BY <1>1 DEF TypeOK, Time, Limited
  <2>3. Count(f, a) \in Nat  BY <2>2, Numbers, WithinCounts DEF Count
  <2>4. Count(f, a) + Cardinality(Open(f, a)) <= Most(f)  BY <1>1 DEF BurstInv
  <2> QED  BY <2>1, <2>3, <2>4, Numbers, SetsAreFinite
<1>7. SauthBurstBounded /\ NeteaseBurstBounded
  BY <1>6 DEF SauthBurstBounded, NeteaseBurstBounded, Limited, Span, Most
<1> QED  BY <1>1, <1>5, <1>7 DEF ExtractionSafe

(* Nobody asked yet.                                                       *)
LEMMA ExtractionStarts == Init => ExtractInv
<1> SUFFICES ASSUME Init PROVE ExtractInv
  OBVIOUS
<1> USE DEF Init
<1>1. KeyInv  BY InitKeys
<1>2. \A S : <<>> \in Seq(S) /\ Len(<<>>) = 0  BY EmptySeq
<1>3. TypeOK
  <2>1. points \in [Account -> Nat]  BY BoundsAssumption DEF Account
  <2>2. account \in Account  BY DEF Account
  <2> QED  BY <2>1, <2>2, <1>2, BoundsAssumption DEF TypeOK
<1>4. Calling = {} /\ \A f, a : Open(f, a) = {}  BY DEF Calling, Open, Idle
<1>5. Cardinality({}) = 0  BY FS_EmptySet
<1>6. LineInv  BY <1>2, <1>4, <1>5, Numbers DEF LineInv, Idle
<1>7. ASSUME NEW f \in Limited, NEW a \in Account PROVE Count(f, a) + Cardinality(Open(f, a)) <= Most(f)
  <2>1. rate[f][a] = <<>> /\ now \in Time  BY Numbers DEF Limited, Time
  <2>2. Count(f, a) <= 0 /\ Count(f, a) \in Nat  BY <2>1, <1>2, Numbers, WithinCounts DEF Count
  <2>3. Cardinality(Open(f, a)) = 0
    <3>1. Open(f, a) = {}  BY <1>4
    <3> QED  BY <3>1, <1>5
  <2>4. Most(f) \in Nat  BY Numbers
  <2> QED  BY <2>2, <2>3, <2>4
<1>8. BurstInv  BY <1>2, <1>7, Numbers DEF BurstInv, NeverUsed
<1> QED  BY <1>1, <1>3, <1>6, <1>8 DEF ExtractInv

(* A step that records nothing and opens nothing.                          *)
LEMMA BurstOnlyFades ==
  ASSUME TypeOK, BurstInv, rate' = rate, lastUse' = lastUse, now' = now \/ (now' = now + 1 /\ now' \in Time),
         \A f \in Limited, a \in Account : Open(f, a)' \subseteq Open(f, a)
  PROVE  BurstInv'
<1>1. now \in Time /\ now' \in Time /\ now \in Nat  BY Numbers DEF TypeOK, Time
<1>2. ASSUME NEW f \in Limited, NEW a \in Account PROVE (Count(f, a) + Cardinality(Open(f, a)) <= Most(f))'
  <2>1. rate[f][a] \in Seq(Time) /\ Span(f) \in Nat  BY Numbers DEF TypeOK, Time, Limited
  <2>2. Count(f, a)' <= Count(f, a) /\ Count(f, a)' \in Nat /\ Count(f, a) \in Nat
    <3>1. WithinAt(rate[f][a], Span(f), now)' = WithinAt(rate[f][a], Span(f), now')  BY DEF WithinAt, Span
    <3>2. Len(WithinAt(rate[f][a], Span(f), now')) \in Nat /\ Len(WithinAt(rate[f][a], Span(f), now)) \in Nat
      BY <1>1, <2>1, WithinCounts
    <3>3. Len(WithinAt(rate[f][a], Span(f), now')) <= Len(WithinAt(rate[f][a], Span(f), now))
      <4>1. now <= now'  BY <1>1
      <4> QED  BY <4>1, <1>1, <2>1, WithinFades
    <3> QED  BY <3>1, <3>2, <3>3 DEF Count
  <2>3. Cardinality(Open(f, a)') <= Cardinality(Open(f, a)) /\ Cardinality(Open(f, a)') \in Nat
    <3>1. PICK A, B : A = Open(f, a) /\ B = Open(f, a)'  OBVIOUS
    <3>2. B \subseteq A /\ IsFiniteSet(A)  BY <3>1, SetsAreFinite
    <3>3. IsFiniteSet(B) /\ Cardinality(B) <= Cardinality(A)  BY <3>2, FS_Subset
    <3>4. Cardinality(B) \in Nat  BY <3>3, FS_CardinalityType
    <3>5. Cardinality(Open(f, a)') = Cardinality(B)  BY <3>1
    <3> QED  BY <3>1, <3>3, <3>4, <3>5
  <2>4. Count(f, a) + Cardinality(Open(f, a)) <= Most(f) /\ Most(f)' = Most(f)  BY DEF BurstInv, Most
  <2> QED  BY <2>2, <2>3, <2>4, Numbers, SetsAreFinite
<1>3. ASSUME NEW a \in Account PROVE (lastUse[a] <= now)'
  <2>1. lastUse[a] \in Int /\ lastUse[a] <= now  BY Numbers DEF TypeOK, BurstInv, NeverUsed
  <2> QED  BY <2>1, <1>1
<1> QED  BY <1>2, <1>3 DEF BurstInv

(* The line and the calls, where a handler that is past them moves on.     *)
MovesOn(t, r) ==
  /\ task' = [task EXCEPT ![t] = r] /\ task[t].pc \in {"calling", "sending"} /\ r \in {Idle} \cup Tasks
  /\ r.pc # "queued"
  /\ r.pc = "calling" => /\ task[t].pc = "calling" /\ r.feature = task[t].feature
                         /\ r.account = task[t].account

(* One record changes.                                                     *)
LEMMA OthersStay ==
  ASSUME TaskTypeOK, NEW t \in Task, NEW r, task' = [task EXCEPT ![t] = r]
  PROVE  task'[t] = r /\ \A u \in Task \ {t} : task'[u] = task[u]
  BY DEF TaskTypeOK

(* It leaves the line and opens nothing.                                   *)
LEMMA LineStays ==
  ASSUME TaskTypeOK, LineInv, line' = line, NEW t \in Task, NEW r, MovesOn(t, r)
  PROVE  LineInv' /\ \A f \in Feature, a \in Account : Open(f, a)' \subseteq Open(f, a)
<1>1. task'[t] = r /\ \A u \in Task \ {t} : task'[u] = task[u]  BY OthersStay DEF MovesOn
<1>2. \A u \in Task : task'[u].pc = "queued" <=> task[u].pc = "queued"  BY <1>1 DEF MovesOn
<1>3. Calling' \subseteq Calling  BY <1>1 DEF Calling, MovesOn
<1>4. Cardinality(Calling') <= Slots
  <2>1. PICK A, B : A = Calling /\ B = Calling'  OBVIOUS
  <2>2. B \subseteq A /\ IsFiniteSet(A) /\ Cardinality(A) \in Nat  BY <1>3, <2>1, SetsAreFinite
  <2>3. IsFiniteSet(B) /\ Cardinality(B) <= Cardinality(A)  BY <2>2, FS_Subset
  <2>4. Cardinality(B) \in Nat  BY <2>3, FS_CardinalityType
  <2> QED  BY <2>1, <2>2, <2>3, <2>4, Numbers DEF LineInv
<1>5. LineInv'
  <2>1. \A u \in Task : task'[u].pc = "queued" <=> \E i \in 1..Len(line) : line[i] = u  BY <1>2 DEF LineInv
  <2>2. Cardinality(Calling)' <= Slots  BY <1>4
  <2> QED  BY <2>1, <2>2 DEF LineInv
<1>6. ASSUME NEW f \in Feature, NEW a \in Account PROVE Open(f, a)' \subseteq Open(f, a)
  BY <1>1 DEF Open, MovesOn
<1> QED  BY <1>5, <1>6

(* What a step of a handler does to its own record.                        *)
LEMMA HandlersMoveOn ==
  ASSUME TaskTypeOK, NEW t \in Task, Retry(t) \/ Fail(t) \/ Succeed(t) \/ Finish(t) \/ Abort(t)
  PROVE  \E r : MovesOn(t, r) /\ (Succeed(t) => r.pc = "sending")
<1>1. CASE Retry(t) \/ Fail(t) \/ Succeed(t)
  <2>1. task[t] \in Tasks  BY <1>1, ActiveIsTask DEF Active, Retry, Fail, Succeed
  <2>2. CASE Retry(t)
    <3>1. PICK n : n = task[t].tries + 1  OBVIOUS
    <3>2. n \in 0..MaxRetries - 1  BY <2>1, <2>2, <3>1, BoundsAssumption DEF Retry, Tasks
    <3>3. PICK r : r = [task[t] EXCEPT !.tries = n]  OBVIOUS
    <3>4. r \in Tasks /\ r.pc = "calling" /\ r.feature = task[t].feature /\ r.account = task[t].account
      BY <2>1, <2>2, <3>2, <3>3 DEF Retry, Tasks, Phase
    <3>5. task' = [task EXCEPT ![t] = r]  BY <2>2, <3>1, <3>3 DEF Retry
    <3>6. MovesOn(t, r)  BY <3>4, <3>5, <2>2 DEF MovesOn, Retry
    <3>7. ~Succeed(t)
      <4>1. Len(rate[task[t].feature][task[t].account]) \in Nat \/ TRUE  OBVIOUS
      <4>2. task'[t] = r  BY <3>5, OthersStay
      <4>3. Succeed(t) => task'[t].pc = "sending"
        <5>1. ASSUME Succeed(t) PROVE task'[t].pc = "sending"
          BY <5>1, <2>1 DEF Succeed, TaskTypeOK, Tasks
        <5> QED  BY <5>1
      <4> QED  BY <4>2, <4>3, <3>4
    <3> QED  BY <3>6, <3>7
  <2>3. CASE Fail(t)
    <3>1. PICK r : r = [task[t] EXCEPT !.pc = "sending", !.outcome = "failed"]  OBVIOUS
    <3>2. r \in Tasks /\ r.pc = "sending"  BY <2>1, <3>1 DEF Tasks, Phase
    <3>3. task' = [task EXCEPT ![t] = r]  BY <2>3, <3>1 DEF Fail
    <3> QED  BY <3>2, <3>3, <2>3 DEF MovesOn, Fail
  <2>4. CASE Succeed(t)
    <3>1. PICK o, r : o = (IF Affords(task[t].account, task[t].feature) THEN "paid" ELSE "unpaid")
                      /\ r = [task[t] EXCEPT !.pc = "sending", !.outcome = o]
      OBVIOUS
    <3>2. r \in Tasks /\ r.pc = "sending"  BY <2>1, <3>1 DEF Tasks, Phase
    <3>3. task' = [task EXCEPT ![t] = r]  BY <2>4, <3>1 DEF Succeed
    <3> QED  BY <3>2, <3>3, <2>4 DEF MovesOn, Succeed
  <2> QED  BY <1>1, <2>2, <2>3, <2>4
<1>2. CASE Finish(t) \/ Abort(t)
  <2>1. task' = [task EXCEPT ![t] = Idle] /\ task[t].pc = "sending"  BY <1>2 DEF Finish, Abort
  <2>2. MovesOn(t, Idle)  BY <2>1 DEF MovesOn, Idle
  <2>3. ~Succeed(t)  BY <2>1 DEF Succeed
  <2> QED  BY <2>2, <2>3
<1> QED  BY <1>1, <1>2

(* The types, but for the records of the handlers.                         *)
LEMMA TypesStay ==
  ASSUME TypeOK, KeyInv', NEW t \in Task,
         Retry(t) \/ Fail(t) \/ Succeed(t) \/ Finish(t) \/ Abort(t), NEW r, MovesOn(t, r)
  PROVE  TypeOK'
<1> USE DEF TypeOK
<1>1. task' \in [Task -> {Idle} \cup Tasks] /\ account' \in Account  BY DEF KeyInv, TaskTypeOK
<1>2. line' = line /\ now' = now /\ busy' \subseteq busy  BY DEF Retry, Fail, Succeed, Finish, Abort
<1>3. CASE Succeed(t)
  <2>1. task[t] \in Tasks  BY <1>3, ActiveIsTask DEF Succeed, Active, TaskTypeOK
  <2>2. PICK f, a : f = task[t].feature /\ a = task[t].account /\ f \in Feature /\ a \in Account
    BY <2>1 DEF Tasks
  <2>3. points' = Charged(a, f) /\ lastUse' = Used(f, a) /\ rate' = [rate EXCEPT ![f][a] = Recorded(rate[f][a])]
    BY <1>3, <2>2 DEF Succeed
  <2>4. points' \in [Account -> Nat]
    <3>1. Cost[f] \in Nat /\ points[a] \in Nat  BY <2>2, FeatureAssumption
    <3>2. points[a] >= Cost[f] => points[a] - Cost[f] \in Nat  BY <3>1
    <3> QED  BY <2>2, <2>3, <3>2 DEF Charged, Affords
  <2>5. lastUse' \in [Account -> {NeverUsed} \cup 0..MaxTime]  BY <2>2, <2>3 DEF Used
  <2>6. Recorded(rate[f][a]) \in Seq(0..MaxTime)
    <3>1. rate[f][a] \in Seq(Time) /\ now \in Time  BY <2>2 DEF Time
    <3>2. WithinAt(rate[f][a], Kept, now) \in Seq(Time)  BY <3>1, Numbers, WithinCounts
    <3>3. Append(WithinAt(rate[f][a], Kept, now), now) \in Seq(Time)  BY <3>1, <3>2, WithinOfAppend
    <3> QED  BY <3>3, WithinIsWithinNow DEF Recorded, Time
  <2>7. rate' \in [Feature -> [Account -> Seq(0..MaxTime)]]  BY <2>2, <2>3, <2>6
  <2> QED  BY <1>1, <1>2, <2>4, <2>5, <2>7
<1>4. CASE ~Succeed(t)
  <2>1. UNCHANGED <<points, rate, lastUse>>  BY <1>4 DEF Retry, Fail, Finish, Abort
  <2> QED  BY <1>1, <1>2, <2>1, Numbers DEF NeverUsed
<1> QED  BY <1>3, <1>4

(* A success is one use more and one request less.                         *)
LEMMA SuccessIsCounted ==
  ASSUME TypeOK, KeyInv, BurstInv, NEW t \in Task, Succeed(t), NEW r, MovesOn(t, r), r.pc = "sending",
         \A f \in Feature, a \in Account : Open(f, a)' \subseteq Open(f, a)
  PROVE  BurstInv'
<1>1. task[t] \in Tasks  BY SMTT(60), ActiveIsTask DEF Succeed, Active, KeyInv
<1>2. PICK f, a : f = task[t].feature /\ a = task[t].account /\ f \in Feature /\ a \in Account
  BY SMTT(60), <1>1 DEF Tasks
<1>3. PICK log, k : log = rate[f][a] /\ k = WithinAt(log, Kept, now)  BY SMTT(60)
<1>4. /\ rate' = [rate EXCEPT ![f][a] = Append(k, now)] /\ lastUse' = Used(f, a) /\ now' = now
      /\ task[t].pc = "calling"
  BY <1>2, <1>3, WithinIsWithinNow DEF Succeed, Recorded
<1>5. log \in Seq(Time) /\ k \in Seq(Time) /\ now \in Time /\ now \in Nat
  <2>1. log \in Seq(Time) /\ now \in Time /\ now \in Nat  BY <1>2, <1>3, Numbers DEF TypeOK, Time
  <2> QED  BY <2>1, <1>3, Numbers, WithinCounts
<1>6. rate'[f][a] = Append(k, now) /\ \A g \in Feature, b \in Account : g # f \/ b # a => rate'[g][b] = rate[g][b]
  BY <1>2, <1>4 DEF TypeOK
<1>7. task'[t] = r  BY OthersStay DEF MovesOn, KeyInv
<1>8. ASSUME NEW g \in Limited, NEW b \in Account PROVE (Count(g, b) + Cardinality(Open(g, b)) <= Most(g))'
  <2>1. rate[g][b] \in Seq(Time) /\ Span(g) \in Nat /\ Most(g) \in Nat /\ g \in Feature
    BY Numbers DEF TypeOK, Time, Limited
  <2>2. Count(g, b)' = Len(WithinAt(rate'[g][b], Span(g), now)) /\ Most(g)' = Most(g)
    BY <1>4 DEF Count, WithinAt, Span, Most
  <2>3. PICK A, B : A = Open(g, b) /\ B = Open(g, b)'  OBVIOUS
  <2>4. B \subseteq A /\ IsFiniteSet(A) /\ Cardinality(A) \in Nat  BY <2>1, <2>3, SetsAreFinite
  <2>5. IsFiniteSet(B) /\ Cardinality(B) <= Cardinality(A)  BY <2>4, FS_Subset
  <2>6. Cardinality(B) \in Nat  BY <2>5, FS_CardinalityType
  <2>7. Count(g, b) \in Nat /\ Count(g, b) = Len(WithinAt(rate[g][b], Span(g), now))
    BY <2>1, <1>5, WithinCounts DEF Count
  <2>8. Count(g, b) + Cardinality(A) <= Most(g)  BY <2>3 DEF BurstInv
  <2>9. CASE g = f /\ b = a
    <3>1. PICK n, m, l \in Nat : /\ n = Len(WithinAt(Append(k, now), Span(g), now))
                               /\ m = Len(WithinAt(k, Span(g), now)) /\ l = Count(g, b)
      <4>1. Append(k, now) \in Seq(Time)  BY <1>5, <2>1, WithinOfAppend
      <4>2. Len(WithinAt(Append(k, now), Span(g), now)) \in Nat  BY <4>1, <1>5, <2>1, WithinCounts
      <4>3. Len(WithinAt(k, Span(g), now)) \in Nat  BY <1>5, <2>1, WithinCounts
      <4> QED  BY <4>2, <4>3, <2>7
    <3>2. n <= m + 1  BY <3>1, <1>5, <2>1, WithinOfAppend
    <3>3. m <= l
      <4>1. Len(WithinAt(WithinAt(log, Kept, now), Span(g), now)) <= Len(WithinAt(log, Span(g), now))
        BY <1>5, <2>1, Numbers, WithinOfWithin
      <4> QED  BY <4>1, <3>1, <1>3, <2>7, <2>9
    <3>4. t \in A /\ t \notin B  BY <2>3, <2>9, <1>2, <1>4, <1>7 DEF Open
    <3>5. IsFiniteSet(A \ {t}) /\ Cardinality(A \ {t}) = Cardinality(A) - 1  BY <3>4, <2>4, FS_RemoveElement
    <3>6. B \subseteq A \ {t}  BY <3>4, <2>4
    <3>7. Cardinality(B) <= Cardinality(A) - 1  BY <3>5, <3>6, FS_Subset
    <3>8. Count(g, b)' = n  BY <2>2, <2>9, <1>6, <3>1
    <3> QED  BY <3>1, <3>2, <3>3, <3>7, <3>8, <2>1, <2>2, <2>3, <2>4, <2>6, <2>8
  <2>10. CASE g # f \/ b # a
    <3>1. Count(g, b)' = Count(g, b)  BY <2>1, <2>2, <2>7, <2>10, <1>6
    <3> QED  BY <3>1, <2>1, <2>2, <2>3, <2>4, <2>5, <2>6, <2>7, <2>8
  <2> QED  BY <2>9, <2>10
<1>9. \A b \in Account : lastUse[b] \in Int /\ lastUse[b] <= now /\ (lastUse'[b] = lastUse[b] \/ lastUse'[b] = now)
  BY <1>2, <1>4, Numbers DEF TypeOK, BurstInv, NeverUsed, Used
<1>10. ASSUME NEW b \in Account PROVE (lastUse[b] <= now)'  BY <1>4, <1>5, <1>9
<1>11. ASSUME "163" \in Feature, NEW b \in Account, NEW i \in 1..Len(rate'["163"][b])
       PROVE  rate'["163"][b][i] <= lastUse'[b]
  <2>1. CASE f # "163" \/ b # a
    <3>1. rate'["163"][b] = rate["163"][b]  BY <2>1, <1>6, <1>11
    <3>2. lastUse'[b] = lastUse[b]  BY <2>1, <1>2, <1>4 DEF Used, TypeOK
    <3> QED  BY <3>1, <3>2, <1>11 DEF BurstInv
  <2>2. CASE f = "163" /\ b = a
    <3>1. rate'["163"][b] = Append(k, now) /\ lastUse'[b] = now  BY <2>2, <1>2, <1>4, <1>6 DEF Used, TypeOK
    <3>2. PICK n \in Nat : n = Len(k)  BY <1>5, TimesAre
    <3>3. Len(Append(k, now)) = n + 1 /\ Append(k, now)[n + 1] = now /\ \A j \in 1..n : Append(k, now)[j] = k[j]
      BY <3>2, <1>5, AppendProperties
    <3>4. CASE i = n + 1  BY <3>1, <3>3, <3>4, <1>5
    <3>5. CASE i \in 1..n
      <4>1. PICK e : Keeps(k, log, Len(log), Kept, now, e)  BY <1>3, <1>5, Numbers, WithinKeeps
      <4>2. k[i] = log[e[i]] /\ e[i] \in 1..Len(log)  BY <4>1, <3>2, <3>5 DEF Keeps, Recent
      <4>3. log[e[i]] <= lastUse[a]  BY <4>2, <1>3, <2>2, <1>11 DEF BurstInv
      <4>4. k[i] \in Nat  BY <3>2, <3>5, <1>5, TimesAre
      <4> QED  BY SMTT(60), <4>2, <4>3, <4>4, <3>1, <3>3, <3>5, <1>2, <1>5, <1>9
    <3>6. i = n + 1 \/ i \in 1..n  BY <3>1, <3>2, <3>3, <1>11
    <3> QED  BY <3>4, <3>5, <3>6
  <2> QED  BY <2>1, <2>2
<1> QED  BY <1>8, <1>10, <1>11 DEF BurstInv

(* A handler takes the semaphore.                                          *)
LEMMA AcquireKeeps ==
  ASSUME ExtractInv, KeyInv', NEW t \in Task, Acquire(t)
  PROVE  ExtractInv'
<1> USE DEF ExtractInv
<1>1. task[t] \in Tasks /\ task[t].pc = "queued"  BY ActiveIsTask DEF Acquire, Active, KeyInv
<1>2. PICK r : r = [task[t] EXCEPT !.pc = "calling"]  OBVIOUS
<1>3. r.pc = "calling" /\ r.feature = task[t].feature /\ r.account = task[t].account  BY <1>1, <1>2 DEF Tasks
<1>4. task' = [task EXCEPT ![t] = r]  BY <1>2 DEF Acquire
<1>5. task'[t] = r /\ \A u \in Task \ {t} : task'[u] = task[u]  BY <1>4, OthersStay DEF KeyInv
<1>6. PICK n \in Nat : n = Len(line) /\ line \in Seq(Task)  BY LenProperties DEF TypeOK
<1>7. /\ line' = Tail(line) /\ n > 0 /\ line' \in Seq(Task) /\ Len(line') = n - 1 /\ line[1] = t
      /\ \A i \in 1..(n - 1) : line'[i] = line[i + 1]
  <2>1. line # <<>> /\ Head(line) = t /\ line' = Tail(line)  BY DEF Acquire
  <2>2. n > 0  BY <2>1, <1>6, EmptySeq
  <2> QED  BY <2>1, <2>2, <1>6, HeadTailProperties
<1>8. TypeOK'
  <2>1. UNCHANGED <<busy, account, points, rate, lastUse, now>>  BY DEF Acquire
  <2>2. task' \in [Task -> {Idle} \cup Tasks]  BY DEF KeyInv, TaskTypeOK
  <2> QED  BY <2>1, <2>2, <1>7 DEF TypeOK, NeverUsed
<1>9. \A i \in 1..(n - 1) : i + 1 \in 1..n /\ i + 1 # 1  OBVIOUS
<1>10. ASSUME NEW i \in 1..(n - 1), NEW j \in 1..(n - 1), line'[i] = line'[j] PROVE i = j
  <2>1. line[i + 1] = line[j + 1]  BY <1>7, <1>10
  <2>2. i + 1 = j + 1  BY <2>1, <1>6, <1>9 DEF LineInv
  <2> QED  BY <2>2
<1>11. ASSUME NEW u \in Task PROVE task'[u].pc = "queued" <=> \E i \in 1..(n - 1) : line'[i] = u
  <2>1. CASE u = t
    <3>1. ~\E i \in 1..(n - 1) : line'[i] = t  BY <1>6, <1>7, <1>9 DEF LineInv
    <3> QED  BY <2>1, <3>1, <1>3, <1>5
  <2>2. CASE u # t
    <3>1. task[u].pc = "queued" <=> \E i \in 1..n : line[i] = u  BY <1>6 DEF LineInv
    <3>2. ASSUME NEW i \in 1..n, line[i] = u PROVE \E j \in 1..(n - 1) : line'[j] = u
      <4>1. i # 1  BY <3>2, <2>2, <1>7
      <4>2. i - 1 \in 1..(n - 1) /\ i - 1 + 1 = i  BY <4>1
      <4> QED  BY <4>2, <3>2, <1>7
    <3>3. (\E j \in 1..(n - 1) : line'[j] = u) => \E i \in 1..n : line[i] = u  BY <1>7, <1>9
    <3> QED  BY <3>1, <3>2, <3>3, <2>2, <1>5
  <2> QED  BY <2>1, <2>2
<1>12. Cardinality(Calling') <= Slots
  <2>1. PICK A : A = Calling /\ IsFiniteSet(A) /\ Cardinality(A) \in Nat  BY SetsAreFinite
  <2>2. Calling' = A \cup {t} /\ t \notin A  BY <2>1, <1>1, <1>3, <1>5 DEF Calling
  <2>3. Cardinality(A \cup {t}) = Cardinality(A) + 1  BY <2>1, <2>2, FS_AddElement
  <2>4. Cardinality(A) < Slots  BY <2>1 DEF Acquire, Calling
  <2> QED  BY <2>1, <2>2, <2>3, <2>4, Numbers
<1>13. LineInv'
  <2>1. \A i, j \in 1..Len(line') : line'[i] = line'[j] => i = j  BY <1>7, <1>10
  <2>2. \A u \in Task : task'[u].pc = "queued" <=> \E i \in 1..Len(line') : line'[i] = u  BY <1>7, <1>11
  <2> QED  BY <2>1, <2>2, <1>12 DEF LineInv
<1>14. \A f \in Limited, a \in Account : Open(f, a)' \subseteq Open(f, a)
  BY <1>1, <1>3, <1>5 DEF Open
<1>15. BurstInv'  BY <1>14, BurstOnlyFades DEF Acquire
<1> QED  BY <1>8, <1>13, <1>15

(* Each chat has one request of a feature open at most.                    *)
FitsChats == \A f \in Feature, a \in Account : Cardinality(Open(f, a)) <= Cardinality(Chat)

(* Their keys differ, so their chats do.                                   *)
LEMMA OpenFitsChats == KeyInv => FitsChats
<1> SUFFICES ASSUME KeyInv, NEW f \in Feature, NEW a \in Account PROVE Cardinality(Open(f, a)) <= Cardinality(Chat)
  BY DEF FitsChats
<1>1. \A t \in Open(f, a) : t \in Task /\ Active(t) /\ task[t] \in Tasks /\ task[t].feature = f
  <2> SUFFICES ASSUME NEW t \in Open(f, a) PROVE t \in Task /\ Active(t) /\ task[t] \in Tasks /\ task[t].feature = f
    OBVIOUS
  <2>1. t \in Task /\ Active(t) /\ task[t].feature = f  BY DEF Open, Active
  <2> QED  BY <2>1, ActiveIsTask DEF KeyInv
<1>2. [t \in Open(f, a) |-> task[t].chat] \in Injection(Open(f, a), Chat)
  <2>1. \A t \in Open(f, a) : task[t].chat \in Chat  BY <1>1 DEF Tasks
  <2>2. \A t, u \in Open(f, a) : task[t].chat = task[u].chat => t = u
    BY <1>1 DEF KeyInv, OneHandlerPerKey, Key
  <2> QED  BY <2>1, <2>2 DEF Injection, IsInjective
<1> QED  BY <1>2, SetsAssumption, SetsAreFinite, FS_Injection DEF ExistsInjection

(* A request passes the checks.                                            *)
LEMMA BeginKeeps ==
  ASSUME ExtractInv, KeyInv', NEW t \in Task, NEW f \in Feature, NEW c \in Chat, Begin(t, f, c)
  PROVE  ExtractInv'
<1> USE DEF ExtractInv
<1>1. PICK r : r = [pc |-> "queued", feature |-> f, chat |-> c, account |-> account, tries |-> 0, outcome |-> "none"]
  OBVIOUS
<1>2. /\ task' = [task EXCEPT ![t] = r] /\ r.pc = "queued" /\ r.feature = f /\ r.account = account
      /\ task[t].pc = "idle" /\ line' = Append(line, t) /\ UNCHANGED <<account, points, lastUse, now>>
  BY <1>1 DEF Begin, Active
<1>3. task'[t] = r /\ \A u \in Task \ {t} : task'[u] = task[u]  BY <1>2, OthersStay DEF KeyInv
<1>4. PICK log : log = rate[f][account] /\ log \in Seq(Time)  BY DEF TypeOK, Time
<1>5. now \in Time /\ now \in Nat /\ account \in Account  BY Numbers DEF TypeOK, Time
<1>6. \/ rate' = rate
      \/ f = "sauth" /\ rate' = [rate EXCEPT ![f][account] = WithinAt(log, RateWindow, now)]
  BY <1>4, WithinIsWithinNow DEF Begin
<1>7. WithinAt(log, RateWindow, now) \in Seq(Time)  BY <1>4, <1>5, Numbers, WithinCounts
<1>8. TypeOK'
  <2>1. task' \in [Task -> {Idle} \cup Tasks]  BY DEF KeyInv, TaskTypeOK
  <2>2. line' \in Seq(Task)  BY <1>2, AppendProperties DEF TypeOK
  <2>3. busy' \subseteq Feature \X Chat  BY DEF Begin, TypeOK
  <2>4. rate' \in [Feature -> [Account -> Seq(0..MaxTime)]]
    <3>1. PICK k : k = WithinAt(log, RateWindow, now)  OBVIOUS
    <3>2. k \in Seq(0..MaxTime)  BY <3>1, <1>7 DEF Time
    <3>3. rate' = rate \/ rate' = [rate EXCEPT ![f][account] = k]  BY <1>6, <3>1
    <3>4. rate \in [Feature -> [Account -> Seq(0..MaxTime)]]  BY DEF TypeOK
    <3>5. CASE rate' = [rate EXCEPT ![f][account] = k]
      <4>1. PICK h : h = [rate[f] EXCEPT ![account] = k]  OBVIOUS
      <4>2. h \in [Account -> Seq(0..MaxTime)]  BY <4>1, <3>2, <3>4
      <4>3. rate' = [rate EXCEPT ![f] = h]  BY <4>1, <3>5
      <4> QED  BY <4>2, <4>3, <3>4
    <3> QED  BY <3>3, <3>4, <3>5
  <2> QED  BY <1>2, <2>1, <2>2, <2>3, <2>4 DEF TypeOK, NeverUsed
<1>9. LineInv'
  <2>1. PICK n \in Nat : n = Len(line) /\ line \in Seq(Task)  BY LenProperties DEF TypeOK
  <2>2. Len(line') = n + 1 /\ line'[n + 1] = t /\ \A i \in 1..n : line'[i] = line[i] /\ line[i] \in Task
    BY <1>2, <2>1, AppendProperties, ElementOfSeq
  <2>3. \A i \in 1..(n + 1) : i = n + 1 \/ i \in 1..n  OBVIOUS
  <2>4. \A i \in 1..n : line[i] # t  BY <1>2, <2>1 DEF LineInv
  <2>5. \A i, j \in 1..(n + 1) : line'[i] = line'[j] => i = j
    <3>1. \A i, j \in 1..n : line[i] = line[j] => i = j  BY <2>1 DEF LineInv
    <3> QED  BY <3>1, <2>2, <2>3, <2>4
  <2>6. ASSUME NEW u \in Task PROVE task'[u].pc = "queued" <=> \E i \in 1..(n + 1) : line'[i] = u
    <3>1. n + 1 \in 1..(n + 1) /\ \A i \in 1..n : i \in 1..(n + 1)  OBVIOUS
    <3>2. CASE u = t  BY <3>1, <3>2, <2>2, <1>2, <1>3
    <3>3. CASE u # t
      <4>1. task[u].pc = "queued" <=> \E i \in 1..n : line[i] = u  BY <2>1 DEF LineInv
      <4> QED  BY <4>1, <3>1, <3>3, <2>2, <2>3, <1>3
    <3> QED  BY <3>2, <3>3
  <2>7. Calling' = Calling  BY <1>2, <1>3 DEF Calling
  <2>8. Cardinality(Calling') <= Slots  BY <2>7 DEF LineInv
  <2>9. \A i, j \in 1..Len(line') : line'[i] = line'[j] => i = j  BY <2>2, <2>5
  <2>10. \A u \in Task : task'[u].pc = "queued" <=> \E i \in 1..Len(line') : line'[i] = u  BY <2>2, <2>6
  <2> QED  BY <2>8, <2>9, <2>10 DEF LineInv
<1>10. FitsChats'  BY OpenFitsChats, PTL
<1>11. ASSUME NEW g \in Limited, NEW b \in Account PROVE (Count(g, b) + Cardinality(Open(g, b)) <= Most(g))'
  <2>1. rate[g][b] \in Seq(Time) /\ Span(g) \in Nat /\ Most(g) \in Nat /\ g \in Feature
    BY Numbers DEF TypeOK, Time, Limited
  <2>2. Count(g, b)' = Len(WithinAt(rate'[g][b], Span(g), now)) /\ Most(g)' = Most(g)
    BY <1>2 DEF Count, WithinAt, Span, Most
  <2>3. CASE g = f /\ b = account
    <3>1. PICK n : n = Cardinality(Open(g, b)') /\ n \in Nat /\ n <= Cardinality(Chat)
      <4>1. Cardinality(Open(g, b)') <= Cardinality(Chat)  BY <1>10, <2>1 DEF FitsChats
      <4>2. (IsFiniteSet(Open(g, b)) /\ Cardinality(Open(g, b)) \in Nat)'
        <5>1. \A h, d : IsFiniteSet(Open(h, d)') /\ Cardinality(Open(h, d)') \in Nat
          BY SetsAssumption, FS_Subset, FS_CardinalityType DEF Open
        <5> QED  BY <5>1
      <4> QED  BY <4>1, <4>2
    <3>2. CASE f = "sauth"
      <4>1. PICK k, m \in Nat : k = Len(WithinAt(log, RateWindow, now)) /\ m = Count(g, b)'
                               /\ k <= RateLimit - 1
        <5>1. ~OverLimit(log)  BY <3>2, <1>4 DEF Begin, Accepts
        <5>2. ~(Len(WithinAt(log, RateWindow, now)) >= RateLimit)  BY <5>1, WithinIsWithinNow DEF OverLimit
        <5>3. Len(WithinAt(log, RateWindow, now)) \in Nat  BY <1>4, <1>5, Numbers, WithinCounts
        <5>4. rate'[g][b] \in Seq(Time)  BY <1>8, <2>1 DEF TypeOK, Time
        <5>5. Count(g, b)' \in Nat  BY <5>4, <2>1, <2>2, <1>5, WithinCounts
        <5> QED  BY <5>2, <5>3, <5>5, Numbers
      <4>2. m <= k
        <5>1. CASE rate' = rate  BY <5>1, <4>1, <2>2, <2>3, <3>2, <1>4, Numbers DEF Span
        <5>2. CASE rate' = [rate EXCEPT ![f][account] = WithinAt(log, RateWindow, now)]
          <6>1. rate'[g][b] = WithinAt(log, RateWindow, now)  BY <5>2, <2>3, <3>2, <1>5, <2>1 DEF TypeOK
          <6>2. m = Len(WithinAt(WithinAt(log, RateWindow, now), RateWindow, now))
            BY <6>1, <4>1, <2>2, <2>3, <3>2 DEF Span
          <6> QED  BY <6>2, <4>1, <1>4, <1>5, Numbers, WithinOfWithin
        <5> QED  BY <5>1, <5>2, <1>6
      <4>3. Most(g) = RateLimit - 1 + Cardinality(Chat)  BY <2>3, <3>2 DEF Most
      <4> QED  BY SMTT(60), <4>1, <4>2, <4>3, <3>1, <2>2, Numbers
    <3>3. CASE f = "163"
      <4>1. rate' = rate /\ ~Cooling(account) /\ "163" \in Feature  BY <3>3, <1>6 DEF Begin, Accepts
      <4>2. PICK l \in Int : l = lastUse[account] /\ now - l >= Cooldown
        <5>1. lastUse[account] \in Int  BY <1>5, Numbers DEF TypeOK, NeverUsed
        <5>2. ~(now - lastUse[account] < Cooldown)  BY <4>1 DEF Cooling
        <5>3. PICK l \in Int : l = lastUse[account]  BY <5>1
        <5> QED  BY <5>2, <5>3, <1>5, Numbers
      <4>3. ASSUME NEW j \in 1..Len(log) PROVE ~(now - log[j] < Cooldown)
        <5>1. log[j] \in Nat /\ log[j] <= l  BY <4>1, <4>2, <1>4, <1>5, <3>3, TimesAre DEF BurstInv
        <5> QED  BY SMTT(60), <5>1, <4>2, <1>5, Numbers
      <4>4. Recent(log, Len(log), Cooldown, now) = {}  BY <4>3 DEF Recent
      <4>5. Len(WithinAt(log, Cooldown, now)) = 0
        <5>1. Cooldown \in Nat  BY Numbers
        <5>2. Len(WithinAt(log, Cooldown, now)) = Cardinality(Recent(log, Len(log), Cooldown, now))
          BY <5>1, <1>4, <1>5, WithinCounts
        <5>3. Len(WithinAt(log, Cooldown, now)) = Cardinality({})  BY <4>4, <5>2
        <5> QED  BY <5>3, FS_EmptySet
      <4>6. Count(g, b)' = 0  BY <4>1, <4>5, <2>2, <2>3, <3>3, <1>4 DEF Span
      <4> QED  BY <4>6, <3>1, <2>1, <2>2, Numbers
    <3> QED  BY <3>2, <3>3, <2>3 DEF Limited
  <2>4. CASE g # f \/ b # account
    <3>1. rate'[g][b] = rate[g][b]
      <4>1. PICK k : rate' = rate \/ rate' = [rate EXCEPT ![f][account] = k]  BY <1>6
      <4> QED  BY <4>1, <2>1, <2>4, <1>5 DEF TypeOK
    <3>2. Count(g, b)' = Count(g, b)  BY <3>1, <2>2 DEF Count
    <3>3. Open(g, b)' = Open(g, b)  BY <2>4, <1>2, <1>3 DEF Open
    <3> QED  BY <3>2, <3>3, <2>2 DEF BurstInv
  <2> QED  BY <2>3, <2>4
<1>12. "163" \in Feature => \A b \in Account : rate'["163"][b] = rate["163"][b]  BY <1>5, <1>6 DEF TypeOK
<1>13. BurstInv'  BY <1>2, <1>11, <1>12 DEF BurstInv
<1> QED  BY <1>8, <1>9, <1>13

(* Every step keeps the invariant.                                         *)
LEMMA ExtractionSteps == ExtractInv /\ [Next]_vars => ExtractInv'
<1> SUFFICES ASSUME ExtractInv, [Next]_vars PROVE ExtractInv'
  OBVIOUS
<1>1. KeyInv'  BY NextKeepsKeys DEF ExtractInv
<1>2. CASE \E t \in Task, f \in Feature, c \in Chat : Begin(t, f, c)  BY <1>1, <1>2, BeginKeeps
<1>3. ASSUME NEW t \in Task, Step(t) PROVE ExtractInv'
  <2>1. CASE Acquire(t)  BY <2>1, <1>1, AcquireKeeps
  <2>2. CASE Retry(t) \/ Fail(t) \/ Succeed(t) \/ Finish(t) \/ Abort(t)
    <3>1. PICK r : MovesOn(t, r) /\ (Succeed(t) => r.pc = "sending")
      BY <2>2, HandlersMoveOn DEF ExtractInv, KeyInv
    <3>2. TypeOK'  BY <2>2, <3>1, <1>1, TypesStay DEF ExtractInv
    <3>3. line' = line  BY <2>2 DEF Retry, Fail, Succeed, Finish, Abort
    <3>4. LineInv' /\ \A f \in Feature, a \in Account : Open(f, a)' \subseteq Open(f, a)
      BY <3>1, <3>3, LineStays DEF ExtractInv, KeyInv
    <3>5. BurstInv'
      <4>1. CASE Succeed(t)  BY <4>1, <3>1, <3>4, SuccessIsCounted DEF ExtractInv
      <4>2. CASE ~Succeed(t)
        <5>1. UNCHANGED <<rate, lastUse, now>>  BY <2>2, <4>2 DEF Retry, Fail, Finish, Abort
        <5>2. \A f \in Limited, a \in Account : Open(f, a)' \subseteq Open(f, a)  BY <3>4 DEF Limited
        <5> QED  BY <5>1, <5>2, BurstOnlyFades DEF ExtractInv
      <4> QED  BY <4>1, <4>2
    <3> QED  BY <1>1, <3>2, <3>4, <3>5 DEF ExtractInv
  <2> QED  BY <1>3, <2>1, <2>2 DEF Step
<1>4. CASE BindQQ \/ Tick \/ UNCHANGED vars
  <2>1. /\ UNCHANGED <<task, line, busy, rate, lastUse>>
        /\ now' = now \/ (now' = now + 1 /\ now' \in Time)
    BY <1>4, Numbers DEF BindQQ, Tick, vars, ExtractInv, TypeOK, Time
  <2>2. TypeOK'
    <3>1. points' \in [Account -> Nat] /\ account' \in Account
      BY <1>4 DEF BindQQ, Tick, vars, ExtractInv, TypeOK, Account
    <3>2. now' \in Time  BY <2>1 DEF ExtractInv, TypeOK, Time
    <3> QED  BY <2>1, <3>1, <3>2 DEF ExtractInv, TypeOK, NeverUsed, Time
  <2>3. LineInv'  BY <2>1 DEF ExtractInv, LineInv, Calling
  <2>4. \A f \in Limited, a \in Account : Open(f, a)' \subseteq Open(f, a)  BY <2>1 DEF Open
  <2>5. BurstInv'  BY <2>1, <2>4, BurstOnlyFades DEF ExtractInv
  <2> QED  BY <1>1, <2>2, <2>3, <2>5 DEF ExtractInv
<1> QED  BY <1>2, <1>3, <1>4 DEF Next

(* What an account gets within a window is bounded although the limits are *)
(* checked before the upstream is asked and recorded after it answered, the*)
(* line for the semaphore is exact and nobody overtakes it.                *)
THEOREM BurstsStayBounded == Spec => []ExtractionSafe
<1>1. Init => ExtractInv  BY ExtractionStarts
<1>2. ExtractInv /\ [Next]_vars => ExtractInv'  BY ExtractionSteps
<1>3. ExtractInv => ExtractionSafe  BY ExtractInvIsSafe
<1> QED  BY <1>1, <1>2, <1>3, PTL DEF Spec
=============================================================================
