------------------------- MODULE PointsLedgerProofs -------------------------
(***************************************************************************)
(* The ledger's type invariant, its reward rules, its streaks, the         *)
(* emptiness of learned accounts, the sums of points that merges keep and  *)
(* awards change, and the three files on disk, for every finite set of     *)
(* users, groups and QQ numbers, every amount and every number of crashes. *)
(***************************************************************************)
EXTENDS LedgerStorage, TLAPS, SequenceTheorems, FiniteSetTheorems, WellFoundedInduction

-----------------------------------------------------------------------------
(* What the operators on one account return *)

\* A blank account is a record of the ledger.
LEMMA BlankType == Blank \in Record
  BY DEF Blank, Record, Never

\* The account an identifier leads to is an account.
LEMMA KeyType ==
  ASSUME NEW ident \in [Scenario -> Union \cup {NoOne}],
         NEW bound \in [Id -> QQ \cup {NoOne}],
         NEW i \in Id
  PROVE  AccountKeyIn(ident, bound, i) \in Account
  BY DEF AccountKeyIn, Account, Id

\* Remembering a group keeps a sequence of groups.
LEMMA RememberType ==
  ASSUME NEW groups \in Seq(Group), NEW g \in Group
  PROVE  Remember(groups, g) \in Seq(Group)
  <1>1. Append(groups, g) \in Seq(Group) /\ Len(Append(groups, g)) \in Nat
    OBVIOUS
  <1> DEFINE longer == Append(groups, g)
             from == Len(longer) - RewardedCap + 1
  <1>2. ASSUME Len(longer) > RewardedCap
        PROVE  SubSeq(longer, from, Len(longer)) \in Seq(Group)
    <2>1. from \in 1..Len(longer)
      BY <1>1, <1>2, AmountsAssumption
    <2>2. \A n \in from..Len(longer) : longer[n] \in Group
      BY <1>1, <2>1
    <2>3. QED
      BY <1>1, <2>1, <2>2, SubSeqProperties
  <1>3. QED
    BY <1>1, <1>2 DEF Remember

\* A sign-in of today turns an account into an account.
LEMMA SignedInType ==
  ASSUME NEW u \in Record, today \in Nat
  PROVE  SignedIn(u) \in Record
  <1> DEFINE streak == IF u.last # Never /\ u.last = today - 1
                         THEN u.streak + 1 ELSE 1
  <1>1. u.points + SignInPoints \in Nat /\ streak \in Nat
    BY AmountsAssumption DEF Record
  <1>2. SignedIn(u) = [u EXCEPT !.known = TRUE,
                                !.points = u.points + SignInPoints,
                                !.streak = streak,
                                !.last = today]
    BY DEF SignedIn
  <1> HIDE DEF streak
  <1>3. QED
    BY <1>1, <1>2 DEF Record

\* So does the settlement of an invitation, whatever its reason.
LEMMA AwardedType ==
  ASSUME NEW u \in Record, NEW g \in Group, today \in Nat
  PROVE  Awarded(u, g) \in Record
  <1>1. Remember(u.rewarded, g) \in Seq(Group)
    BY RememberType DEF Record
  <1> DEFINE count == CountToday(u)
             plus  == CountToday(u) + 1
             paid  == u.points + RewardPoints
             kept  == Remember(u.rewarded, g)
  <1>2. count \in Nat
    BY DEF CountToday, Record
  <1>3. plus \in Nat /\ paid \in Nat
    BY <1>2, AmountsAssumption DEF Record
  <1>4. \/ Awarded(u, g) = [u EXCEPT !.known = TRUE]
        \/ Awarded(u, g) = [u EXCEPT !.known = TRUE, !.addLast = today,
                                     !.addCount = count]
        \/ Awarded(u, g) = [u EXCEPT !.known = TRUE, !.addLast = today,
                                     !.addCount = plus, !.points = paid,
                                     !.rewarded = kept]
    BY DEF Awarded
  <1> HIDE DEF count, plus, paid, kept
  <1>5. kept \in Seq(Group)
    BY <1>1 DEF kept
  <1>6. QED
    BY <1>2, <1>3, <1>4, <1>5 DEF Record

\* Emptying an account into another, and pouring one into another.
LEMMA DrainedType ==
  ASSUME NEW u \in Record, NEW a \in Account
  PROVE  Drained(u, a) \in Record
  BY DEF Drained, Record

LEMMA ReceivesType ==
  ASSUME NEW u \in Record, NEW n \in Nat
  PROVE  Receives(u, n) \in Record
  <1> DEFINE sum == u.points + n
  <1>1. sum \in Nat
    BY DEF Record
  <1>2. Receives(u, n) = [u EXCEPT !.known = TRUE, !.points = sum]
    BY DEF Receives
  <1> HIDE DEF sum
  <1>3. QED
    BY <1>1, <1>2 DEF Record

LEMMA PouredType ==
  ASSUME NEW u \in Record, NEW v \in Record
  PROVE  Poured(u, v) \in Record
  <1> DEFINE points == v.points + u.points
             streak == Larger(v.streak, u.streak)
             last   == Larger(v.last, u.last)
  <1>1. points \in Nat /\ streak \in Nat /\ last \in Nat
    BY DEF Record, Larger
  <1>2. Poured(u, v) = [v EXCEPT !.known = TRUE, !.points = points,
                                 !.streak = streak, !.last = last]
    BY DEF Poured
  <1> HIDE DEF points, streak, last
  <1>3. QED
    BY <1>1, <1>2 DEF Record

\* Learning an identity keeps the three maps well typed.
LEMMA LearningType ==
  ASSUME TypeOK, NEW s \in Scenario, NEW i \in NamedBy(s)
  PROVE  /\ i \in Id
         /\ IdentityAfter(s, i) \in [Scenario -> Union \cup {NoOne}]
         /\ BindsAfter(s, i) \in [Id -> QQ \cup {NoOne}]
         /\ SignAfter(s, i) \in [Account -> Record]
  <1>1. i \in Id
    BY PlatformAssumption DEF NamedBy, Id
  <1>2. IdentityAfter(s, i) \in [Scenario -> Union \cup {NoOne}]
    BY DEF IdentityAfter, Learns, TypeOK
  <1>3. BindsAfter(s, i) \in [Id -> QQ \cup {NoOne}]
    BY <1>1 DEF BindsAfter, TypeOK, Id
  <1>4. SignAfter(s, i) \in [Account -> Record]
    <2>1. s \in Account /\ i \in Account
      BY <1>1 DEF Account, Id
    <2>2. sign[s] \in Record /\ sign[i] \in Record
      BY <2>1 DEF TypeOK
    <2>3. Receives(sign[i], 0) \in Record /\ Receives(sign[i], sign[s].points) \in Record
      BY <2>2, ReceivesType DEF Record
    <2>5. CASE ~Learns(s, i)
      BY <2>5 DEF SignAfter, TypeOK
    <2>6. CASE Learns(s, i) /\ ~Mergeable(sign[s])
      BY <2>6, <2>1, <2>3 DEF SignAfter, TypeOK
    <2>7. CASE Learns(s, i) /\ Mergeable(sign[s])
      <3>1. i # s
        BY <2>7, KindsDisjoint DEF Learns
      <3>2. Drained(sign[s], i) \in Record
        BY <2>1, <2>2, DrainedType
      <3>3. QED
        BY <2>7, <3>1, <3>2, <2>1, <2>3 DEF SignAfter, TypeOK
    <2>8. QED
      BY <2>5, <2>6, <2>7
  <1>5. QED
    BY <1>1, <1>2, <1>3, <1>4

-----------------------------------------------------------------------------
(* Type correctness *)

LEMMA InitType == Init => TypeOK
  BY BlankType, AmountsAssumption DEF Init, TypeOK, Account

LEMMA NextType == TypeOK /\ [Next]_vars => TypeOK'
  <1> SUFFICES ASSUME TypeOK, [Next]_vars PROVE TypeOK'
    OBVIOUS
  <1>0. today \in Nat
    BY DEF TypeOK
  <1>1. ASSUME NEW s \in Scenario, NEW i \in Id, C2CMessage(s, i) PROVE TypeOK'
    BY <1>1, LearningType DEF C2CMessage, TypeOK
  <1>2. ASSUME NEW s \in Scenario, NEW g \in Group, NEW i \in Id,
               GroupMessage(s, g, i)
        PROVE  TypeOK'
    <2> DEFINE merged  == SignAfter(s, i)
               account == AccountKeyIn(identity', binds', i)
    <2>1. /\ identity' \in [Scenario -> Union \cup {NoOne}]
          /\ binds' \in [Id -> QQ \cup {NoOne}]
          /\ merged \in [Account -> Record]
      BY <1>2, LearningType DEF GroupMessage
    <2>2. account \in Account
      BY <2>1, KeyType
    <2>3. Awarded(merged[account], g) \in Record
      BY <2>1, <2>2, <1>0, AwardedType
    <2>4. sign' \in {merged, [merged EXCEPT ![account] = Awarded(merged[account], g)]}
      BY <1>2 DEF GroupMessage
    <2> HIDE DEF merged, account
    <2>5. sign' \in [Account -> Record]
      BY <2>1, <2>2, <2>3, <2>4
    <2>6. QED
      BY <1>2, <2>1, <2>5 DEF GroupMessage, TypeOK
  <1>3. ASSUME NEW s \in Scenario, NEW g \in Group, GroupAdd(s, g) PROVE TypeOK'
    <2>1. AccountKey(s) \in Account
      BY KeyType DEF AccountKey, TypeOK, Id
    <2>2. Awarded(sign[AccountKey(s)], g) \in Record
      BY <2>1, <1>0, AwardedType DEF TypeOK
    <2>3. QED
      BY <1>3, <2>1, <2>2 DEF GroupAdd, TypeOK
  <1>4. ASSUME NEW i \in Id, SignIn(i) PROVE TypeOK'
    <2>1. AccountKey(i) \in Account
      BY KeyType DEF AccountKey, TypeOK
    <2>2. SignedIn(sign[AccountKey(i)]) \in Record
      BY <2>1, <1>0, SignedInType DEF TypeOK
    <2>3. QED
      BY <1>4, <2>1, <2>2 DEF SignIn, TypeOK
  <1>5. ASSUME NEW a \in Account, NEW cost \in Costs, Spend(a, cost) PROVE TypeOK'
    <2> DEFINE left == sign[a].points - cost
    <2>1. left \in Nat
      BY <1>5, AmountsAssumption DEF Spend, TypeOK, Record
    <2>2. sign' = [sign EXCEPT ![a].points = left]
      BY <1>5 DEF Spend
    <2> HIDE DEF left
    <2>3. sign' \in [Account -> Record]
      BY ZenonT(60), <2>1, <2>2 DEF TypeOK, Record
    <2>4. QED
      BY <1>5, <2>3 DEF Spend, TypeOK
  <1>6. ASSUME NEW i \in Id, NEW q \in QQ, BindQQ(i, q) PROVE TypeOK'
    <2>1. AccountKey(i) \in Account /\ q \in Account
      BY KeyType DEF AccountKey, TypeOK, Account
    <2>2. AccountKey(i) # q
      BY <1>6, KindsDisjoint DEF BindQQ, AccountKey, AccountKeyIn, TypeOK, Id
    <2>3. /\ Poured(sign[AccountKey(i)], sign[q]) \in Record
          /\ Drained(sign[AccountKey(i)], q) \in Record
      BY <2>1, PouredType, DrainedType DEF TypeOK
    <2>4. sign' \in [Account -> Record]
      BY <1>6, <2>1, <2>2, <2>3 DEF BindQQ, TypeOK
    <2>5. QED
      BY <1>6, <2>4 DEF BindQQ, TypeOK
  <1>7. ASSUME NEW i \in Id, UnbindQQ(i) PROVE TypeOK'
    BY <1>7 DEF UnbindQQ, TypeOK
  <1>8. CASE NextDay
    BY <1>8, AmountsAssumption DEF NextDay, TypeOK
  <1>9. CASE UNCHANGED vars
    BY <1>9 DEF vars, TypeOK
  <1>10. QED
    BY <1>1, <1>2, <1>3, <1>4, <1>5, <1>6, <1>7, <1>8, <1>9 DEF Next

\* The ledger stays well typed; in particular no sequence of merges, rewards
\* and charges makes a balance negative.
THEOREM TypeCorrect == Spec => []TypeOK
  BY InitType, NextType, PTL DEF Spec

-----------------------------------------------------------------------------
(* Learned accounts are empty *)

\* The strengthening: an account without an entry holds nothing either, so
\* skipping it in a merge leaves nothing behind.
UnknownHoldsNothing == \A a \in Account : ~sign[a].known => sign[a].points = 0
EmptyInv == TypeOK /\ UnknownHoldsNothing /\ LearnedAccountsAreEmpty

\* Paying one account is harmless when it is not a learned scenario's.
LEMMA PayOne ==
  ASSUME TypeOK, TypeOK', UnknownHoldsNothing, LearnedAccountsAreEmpty,
         NEW a \in Account, a \in Scenario => identity[a] = NoOne,
         sign' = [sign EXCEPT ![a] = sign'[a]], sign'[a].known,
         identity' = identity
  PROVE  UnknownHoldsNothing' /\ LearnedAccountsAreEmpty'
  <1>1. \A b \in Account : b # a => sign'[b] = sign[b]
    BY DEF TypeOK
  <1>2. QED
    BY <1>1 DEF UnknownHoldsNothing, LearnedAccountsAreEmpty, Account, Id

\* No identifier leads to a scenario account whose union is learned.
LEMMA KeyNotLearned ==
  ASSUME NEW ident \in [Scenario -> Union \cup {NoOne}],
         NEW bound \in [Id -> QQ \cup {NoOne}],
         NEW i \in Id,
         AccountKeyIn(ident, bound, i) \in Scenario
  PROVE  ident[AccountKeyIn(ident, bound, i)] = NoOne
  BY KindsDisjoint DEF AccountKeyIn, Id, Account

LEMMA AwardedKnown ==
  ASSUME NEW u \in Record, NEW g PROVE Awarded(u, g).known
  BY DEF Awarded, Record

\* What learning does: the scenario is emptied or was empty, and nobody else's
\* mark or scenario balance changes.
LEMMA LearningEmpties ==
  ASSUME TypeOK, UnknownHoldsNothing, LearnedAccountsAreEmpty,
         NEW s \in Scenario, NEW i \in NamedBy(s)
  PROVE  /\ \A a \in Account : ~SignAfter(s, i)[a].known => SignAfter(s, i)[a].points = 0
         /\ \A t \in Scenario :
              IdentityAfter(s, i)[t] # NoOne /\ SignAfter(s, i)[t].mergedInto = NoOne
                => SignAfter(s, i)[t].points = 0
  <1>1. i \in Account /\ s \in Account /\ Scenario \subseteq Account
    BY LearningType DEF Account, Id
  <1>2. CASE ~Learns(s, i)
    BY <1>2 DEF SignAfter, IdentityAfter, UnknownHoldsNothing, LearnedAccountsAreEmpty
  <1>3. CASE Learns(s, i)
    <2>1. i \notin Scenario /\ i # s /\ i # NoOne
      BY <1>3, <1>1, KindsDisjoint DEF Learns
    <2>2. IdentityAfter(s, i) = [identity EXCEPT ![s] = i]
      BY <1>3 DEF IdentityAfter
    <2>3. \A a \in Account : Receives(sign[a], 0).known
                             /\ \A n \in Nat : Receives(sign[a], n).known
      BY DEF Receives, TypeOK, Record
    <2>4. /\ Drained(sign[s], i).points = 0
          /\ Drained(sign[s], i).mergedInto = i
          /\ Drained(sign[s], i).known = sign[s].known
      BY <1>1 DEF Drained, TypeOK, Record
    <2>5. CASE Mergeable(sign[s])
      <3>1. SignAfter(s, i) = [sign EXCEPT ![i] = Receives(sign[i], sign[s].points),
                                           ![s] = Drained(sign[s], i)]
        BY <1>3, <2>1, <2>5, <1>1 DEF SignAfter, TypeOK
      <3>2. /\ SignAfter(s, i)[s] = Drained(sign[s], i)
            /\ SignAfter(s, i)[i] = Receives(sign[i], sign[s].points)
            /\ \A a \in Account \ {s, i} : SignAfter(s, i)[a] = sign[a]
        BY <3>1, <2>1, <1>1 DEF TypeOK
      <3>3. sign[s].points \in Nat
        BY <1>1 DEF TypeOK, Record
      <3>4. QED
        BY SMTT(60), <3>2, <3>3, <2>1, <2>2, <2>3, <2>4, <1>1
        DEF UnknownHoldsNothing, LearnedAccountsAreEmpty, TypeOK
    <2>6. CASE ~Mergeable(sign[s])
      <3>1. SignAfter(s, i) = [sign EXCEPT ![i] = Receives(sign[i], 0)]
        BY <1>3, <2>6 DEF SignAfter
      <3>2. /\ SignAfter(s, i)[i] = Receives(sign[i], 0)
            /\ \A a \in Account \ {i} : SignAfter(s, i)[a] = sign[a]
        BY <3>1, <1>1 DEF TypeOK
      <3>3. sign[s].mergedInto = NoOne => sign[s].points = 0
        BY <2>6, <1>1 DEF Mergeable, UnknownHoldsNothing
      <3>4. QED
        BY <3>2, <3>3, <2>1, <2>2, <2>3, <1>1
        DEF UnknownHoldsNothing, LearnedAccountsAreEmpty, TypeOK
    <2>7. QED
      BY <2>5, <2>6
  <1>4. QED
    BY <1>2, <1>3

LEMMA InitEmpty == Init => EmptyInv
  <1> SUFFICES ASSUME Init PROVE UnknownHoldsNothing /\ LearnedAccountsAreEmpty
    BY InitType DEF EmptyInv
  <1>1. QED
    BY DEF Init, Blank, UnknownHoldsNothing, LearnedAccountsAreEmpty

LEMMA NextEmpty == EmptyInv /\ [Next]_vars => EmptyInv'
  <1> SUFFICES ASSUME EmptyInv, [Next]_vars
               PROVE  UnknownHoldsNothing' /\ LearnedAccountsAreEmpty'
    BY NextType DEF EmptyInv
  <1> USE DEF EmptyInv
  <1>0. TypeOK'
    BY NextType
  <1>1. ASSUME NEW s \in Scenario, NEW i \in Id, C2CMessage(s, i)
        PROVE  UnknownHoldsNothing' /\ LearnedAccountsAreEmpty'
    BY <1>1, LearningEmpties DEF C2CMessage, UnknownHoldsNothing, LearnedAccountsAreEmpty
  <1>2. ASSUME NEW s \in Scenario, NEW g \in Group, NEW i \in Id,
               GroupMessage(s, g, i)
        PROVE  UnknownHoldsNothing' /\ LearnedAccountsAreEmpty'
    <2> DEFINE merged  == SignAfter(s, i)
               account == AccountKeyIn(identity', binds', i)
    <2>1. /\ merged \in [Account -> Record]
          /\ identity' \in [Scenario -> Union \cup {NoOne}]
          /\ binds' \in [Id -> QQ \cup {NoOne}]
      BY <1>2, LearningType DEF GroupMessage
    <2>2. /\ \A a \in Account : ~merged[a].known => merged[a].points = 0
          /\ \A t \in Scenario : identity'[t] # NoOne /\ merged[t].mergedInto = NoOne
                                   => merged[t].points = 0
      BY <1>2, LearningEmpties DEF GroupMessage
    <2>3. account \in Account /\ (account \in Scenario => identity'[account] = NoOne)
      BY <2>1, KeyType, KeyNotLearned
    <2>4. Awarded(merged[account], g).known
      BY <2>1, <2>3, AwardedKnown
    <2>5. sign' \in {merged, [merged EXCEPT ![account] = Awarded(merged[account], g)]}
      BY <1>2 DEF GroupMessage
    <2> HIDE DEF merged, account
    <2>6. CASE sign' = merged
      BY <2>2, <2>6 DEF UnknownHoldsNothing, LearnedAccountsAreEmpty
    <2>7. CASE sign' = [merged EXCEPT ![account] = Awarded(merged[account], g)]
      <3>1. /\ sign'[account].known
            /\ \A a \in Account \ {account} : sign'[a] = merged[a]
        BY <2>1, <2>3, <2>4, <2>7
      <3>2. QED
        BY <3>1, <2>2, <2>3 DEF UnknownHoldsNothing, LearnedAccountsAreEmpty, Account, Id
    <2>8. QED
      BY <2>5, <2>6, <2>7
  <1>3. ASSUME NEW s \in Scenario, NEW g \in Group, GroupAdd(s, g)
        PROVE  UnknownHoldsNothing' /\ LearnedAccountsAreEmpty'
    <2>1. s \in Id
      BY DEF Id
    <2>2. CASE AccountKey(s) = s
      BY <1>3, <2>2 DEF GroupAdd, UnknownHoldsNothing, LearnedAccountsAreEmpty
    <2>3. CASE AccountKey(s) # s
      <3>1. AccountKey(s) \in Account
            /\ (AccountKey(s) \in Scenario => identity[AccountKey(s)] = NoOne)
        BY <2>1, KeyType, KeyNotLearned DEF AccountKey, TypeOK
      <3>2. /\ sign' = [sign EXCEPT ![AccountKey(s)] = Awarded(sign[AccountKey(s)], g)]
            /\ identity' = identity
        BY <1>3, <2>3 DEF GroupAdd
      <3>3. sign'[AccountKey(s)] = Awarded(sign[AccountKey(s)], g)
        BY <3>1, <3>2 DEF TypeOK
      <3>4. sign'[AccountKey(s)].known
        BY <3>1, <3>3, AwardedKnown DEF TypeOK
      <3>5. QED
        BY <1>0, <3>1, <3>2, <3>3, <3>4, PayOne
    <2>4. QED
      BY <2>2, <2>3
  <1>4. ASSUME NEW i \in Id, SignIn(i)
        PROVE  UnknownHoldsNothing' /\ LearnedAccountsAreEmpty'
    <2>1. AccountKey(i) \in Account
          /\ (AccountKey(i) \in Scenario => identity[AccountKey(i)] = NoOne)
      BY KeyType, KeyNotLearned DEF AccountKey, TypeOK
    <2>2. /\ sign' = [sign EXCEPT ![AccountKey(i)] = SignedIn(sign[AccountKey(i)])]
          /\ identity' = identity
      BY <1>4 DEF SignIn
    <2>3. sign'[AccountKey(i)] = SignedIn(sign[AccountKey(i)])
      BY <2>1, <2>2 DEF TypeOK
    <2>4. sign'[AccountKey(i)].known
      BY <2>1, <2>3 DEF TypeOK, SignedIn, Record
    <2>5. QED
      BY <1>0, <2>1, <2>2, <2>3, <2>4, PayOne
  <1>5. ASSUME NEW a \in Account, NEW cost \in Costs, Spend(a, cost)
        PROVE  UnknownHoldsNothing' /\ LearnedAccountsAreEmpty'
    <2> DEFINE left == sign[a].points - cost
    <2>1. sign[a].points # 0 /\ identity' = identity
      BY <1>5, AmountsAssumption DEF Spend, TypeOK, Record
    <2>2. sign' = [sign EXCEPT ![a].points = left]
      BY <1>5 DEF Spend
    <2> HIDE DEF left
    <2>3. /\ sign'[a].known = sign[a].known
          /\ sign'[a].mergedInto = sign[a].mergedInto
          /\ \A b \in Account \ {a} : sign'[b] = sign[b]
      BY <2>2 DEF TypeOK, Record
    <2>4. QED
      BY <2>1, <2>3 DEF UnknownHoldsNothing, LearnedAccountsAreEmpty, Account, Id
  <1>6. ASSUME NEW i \in Id, NEW q \in QQ, BindQQ(i, q)
        PROVE  UnknownHoldsNothing' /\ LearnedAccountsAreEmpty'
    <2> DEFINE current == AccountKey(i)
    <2>1. current \in Account /\ q \in Account /\ q \notin Scenario
      BY KeyType, KindsDisjoint DEF AccountKey, TypeOK, Account
    <2>2. current # q /\ identity' = identity
      BY <1>6, KindsDisjoint DEF BindQQ, AccountKey, AccountKeyIn, TypeOK, Id
    <2>3. CASE Mergeable(sign[current])
      <3>1. sign' = [sign EXCEPT ![q] = Poured(sign[current], sign[q]),
                                 ![current] = Drained(sign[current], q)]
        BY <1>6, <2>1, <2>2, <2>3 DEF BindQQ, TypeOK
      <3>2. /\ sign'[q] = Poured(sign[current], sign[q])
            /\ sign'[current] = Drained(sign[current], q)
            /\ \A b \in Account \ {q, current} : sign'[b] = sign[b]
        BY <3>1, <2>1, <2>2 DEF TypeOK
      <3>3. sign'[q].known /\ sign'[current].points = 0
        BY <3>2, <2>1 DEF Poured, Drained, TypeOK, Record
      <3> HIDE DEF current
      <3>4. QED
        BY <3>2, <3>3, <2>1, <2>2 DEF UnknownHoldsNothing, LearnedAccountsAreEmpty, Account, Id
    <2>4. CASE ~Mergeable(sign[current])
      BY <1>6, <2>2, <2>4 DEF BindQQ, UnknownHoldsNothing, LearnedAccountsAreEmpty
    <2>5. QED
      BY <2>3, <2>4
  <1>7. ASSUME NEW i \in Id, UnbindQQ(i)
        PROVE  UnknownHoldsNothing' /\ LearnedAccountsAreEmpty'
    BY <1>7 DEF UnbindQQ, UnknownHoldsNothing, LearnedAccountsAreEmpty
  <1>8. CASE NextDay
    BY <1>8 DEF NextDay, UnknownHoldsNothing, LearnedAccountsAreEmpty
  <1>9. CASE UNCHANGED vars
    BY <1>9 DEF vars, UnknownHoldsNothing, LearnedAccountsAreEmpty
  <1>10. QED
    BY <1>1, <1>2, <1>3, <1>4, <1>5, <1>6, <1>7, <1>8, <1>9 DEF Next

\* Whatever users, groups and bindings do, the points a user earned under an
\* openid are gone from it once the union is learned: no balance is left in a
\* learned scenario account that was not emptied and used again.
THEOREM LearnedAccountsEmpty == Spec => []LearnedAccountsAreEmpty
  <1>1. Init => EmptyInv
    BY InitEmpty
  <1>2. EmptyInv /\ [Next]_vars => EmptyInv'
    BY NextEmpty
  <1>3. EmptyInv => LearnedAccountsAreEmpty
    BY DEF EmptyInv
  <1>4. QED
    BY <1>1, <1>2, <1>3, PTL DEF Spec

\* No merge, reward or charge makes a balance negative, and none leaves points
\* in the account of a learned openid.
THEOREM LedgerHolds == Spec => []LedgerSafe
  <1>1. TypeOK /\ LearnedAccountsAreEmpty => LedgerSafe
    BY DEF LedgerSafe
  <1>2. QED
    BY <1>1, TypeCorrect, LearnedAccountsEmpty, PTL

-----------------------------------------------------------------------------
(* Reward rules *)

\* Remembering a new group keeps the list free of duplicates and within bounds.
LEMMA RememberRules ==
  ASSUME NEW groups \in Seq(Group), NEW g \in Group,
         Len(groups) <= RewardedCap,
         \A m, n \in 1..Len(groups) : groups[m] = groups[n] => m = n,
         \A n \in 1..Len(groups) : groups[n] # g
  PROVE  /\ Len(Remember(groups, g)) <= RewardedCap
         /\ \A m, n \in 1..Len(Remember(groups, g)) :
              Remember(groups, g)[m] = Remember(groups, g)[n] => m = n
  <1> DEFINE longer == Append(groups, g)
             from   == Len(longer) - RewardedCap + 1
             tail   == SubSeq(longer, from, Len(longer))
  <1>1. /\ longer \in Seq(Group)
        /\ Len(longer) = Len(groups) + 1
        /\ Len(groups) \in Nat
        /\ \A n \in 1..Len(longer) :
             longer[n] = IF n = Len(longer) THEN g ELSE groups[n]
    OBVIOUS
  <1>2. \A m, n \in 1..Len(longer) : longer[m] = longer[n] => m = n
    BY <1>1
  <1>3. CASE Len(longer) <= RewardedCap
    BY <1>1, <1>2, <1>3, AmountsAssumption DEF Remember
  <1>4. CASE Len(longer) > RewardedCap
    <2>1. from \in 1..Len(longer) /\ Len(longer) = RewardedCap + 1
      BY <1>1, <1>4, AmountsAssumption
    <2>2. \A n \in from..Len(longer) : longer[n] \in Group
      BY <1>1, <2>1
    <2>3. /\ Len(tail) = RewardedCap
          /\ \A n \in 1..Len(tail) : tail[n] = longer[from + n - 1]
      BY <1>1, <2>1, <2>2, SubSeqProperties, AmountsAssumption
    <2>4. Remember(groups, g) = tail
      BY <1>4 DEF Remember
    <2> HIDE DEF tail
    <2>5. ASSUME NEW m \in 1..Len(tail), NEW n \in 1..Len(tail), tail[m] = tail[n]
          PROVE  m = n
      <3>1. /\ from + m - 1 \in 1..Len(longer)
            /\ from + n - 1 \in 1..Len(longer)
        BY <1>1, <2>1, <2>3, AmountsAssumption
      <3>2. longer[from + m - 1] = longer[from + n - 1]
        BY <2>3, <2>5
      <3> HIDE DEF longer, from
      <3>3. from + m - 1 = from + n - 1
        BY <3>1, <3>2, <1>2
      <3>4. from \in Int
        BY <2>1, AmountsAssumption
      <3>5. QED
        BY <3>3, <3>4
    <2>6. QED
      BY <2>3, <2>4, <2>5, AmountsAssumption
  <1>5. QED
    BY <1>1, <1>3, <1>4, AmountsAssumption

\* Settling an invitation keeps the rules of the account it settles with.
LEMMA AwardedRules ==
  ASSUME NEW u \in Record, NEW g \in Group, today \in Nat, KeepsRewardRules(u)
  PROVE  KeepsRewardRules(Awarded(u, g))
  <1>0. CountToday(u) \in Nat /\ CountToday(u) <= DailyLimit
    BY AmountsAssumption DEF CountToday, Record, KeepsRewardRules
  <1>1. CASE AwardReason(u, g) = "duplicate_group"
    <2>1. /\ Awarded(u, g).rewarded = u.rewarded
          /\ Awarded(u, g).addCount = u.addCount
      BY <1>1 DEF Awarded, Record
    <2>2. QED
      BY <2>1 DEF KeepsRewardRules
  <1>2. CASE AwardReason(u, g) = "daily_limit"
    <2>1. /\ Awarded(u, g).rewarded = u.rewarded
          /\ Awarded(u, g).addCount = CountToday(u)
      BY <1>2 DEF Awarded, Record
    <2>2. QED
      BY <2>1, <1>0 DEF KeepsRewardRules
  <1>3. CASE AwardReason(u, g) = "ok"
    <2>1. g \notin RewardedGroups(u) /\ CountToday(u) < DailyLimit
      BY <1>3, <1>0, AmountsAssumption DEF AwardReason
    <2> DEFINE plus == CountToday(u) + 1
               kept == Remember(u.rewarded, g)
    <2>2. plus <= DailyLimit
      BY <2>1, <1>0, AmountsAssumption
    <2>3. /\ Len(kept) <= RewardedCap
          /\ \A m, n \in 1..Len(kept) : kept[m] = kept[n] => m = n
      BY <2>1, RememberRules DEF KeepsRewardRules, RewardedGroups, Record
    <2> DEFINE paid == u.points + RewardPoints
    <2>4. Awarded(u, g) = [u EXCEPT !.known = TRUE, !.addLast = today,
                                   !.addCount = plus, !.points = paid,
                                   !.rewarded = kept]
      BY <1>3 DEF Awarded
    <2> HIDE DEF plus, kept, paid
    <2>5. Awarded(u, g).rewarded = kept /\ Awarded(u, g).addCount = plus
      BY <2>4 DEF Record
    <2>6. QED
      BY <2>2, <2>3, <2>5 DEF KeepsRewardRules
  <1>4. QED
    BY <1>1, <1>2, <1>3 DEF AwardReason

\* Nothing else touches what the rules look at.
LEMMA OtherRules ==
  ASSUME NEW u \in Record, NEW v \in Record, KeepsRewardRules(u),
         NEW a \in Account, NEW n \in Nat, today \in Nat
  PROVE  /\ KeepsRewardRules(SignedIn(u))
         /\ KeepsRewardRules(Drained(u, a))
         /\ KeepsRewardRules(Receives(u, n))
         /\ KeepsRewardRules(Poured(v, u))
  <1>1. ASSUME NEW w, w.rewarded = u.rewarded, w.addCount = u.addCount
        PROVE  KeepsRewardRules(w)
    BY <1>1 DEF KeepsRewardRules
  <1>2. /\ SignedIn(u).rewarded = u.rewarded /\ SignedIn(u).addCount = u.addCount
        /\ Drained(u, a).rewarded = u.rewarded /\ Drained(u, a).addCount = u.addCount
        /\ Receives(u, n).rewarded = u.rewarded /\ Receives(u, n).addCount = u.addCount
        /\ Poured(v, u).rewarded = u.rewarded /\ Poured(v, u).addCount = u.addCount
    BY DEF SignedIn, Drained, Receives, Poured, Record
  <1>3. QED
    BY <1>1, <1>2

LEMMA LearningRules ==
  ASSUME TypeOK, RewardRules, NEW s \in Scenario, NEW i \in NamedBy(s)
  PROVE  \A a \in Account : KeepsRewardRules(SignAfter(s, i)[a])
  <1>1. s \in Account /\ i \in Account /\ today \in Nat
    BY LearningType DEF Account, Id, TypeOK
  <1>2. \A a \in Account : sign[a] \in Record /\ sign[a].points \in Nat
    BY DEF TypeOK, Record
  <1>3. CASE ~Learns(s, i)
    BY <1>3 DEF SignAfter, RewardRules
  <1>4. CASE Learns(s, i) /\ Mergeable(sign[s])
    <2>1. i # s
      BY <1>4, KindsDisjoint DEF Learns
    <2>2. SignAfter(s, i) = [sign EXCEPT ![i] = Receives(sign[i], sign[s].points),
                                         ![s] = Drained(sign[s], i)]
      BY <1>4, <2>1, <1>1 DEF SignAfter, TypeOK
    <2>3. QED
      BY <2>1, <2>2, <1>1, <1>2, OtherRules DEF RewardRules, TypeOK
  <1>5. CASE Learns(s, i) /\ ~Mergeable(sign[s])
    <2>1. SignAfter(s, i) = [sign EXCEPT ![i] = Receives(sign[i], 0)]
      BY <1>5 DEF SignAfter
    <2>2. QED
      BY <2>1, <1>1, <1>2, OtherRules DEF RewardRules, TypeOK
  <1>6. QED
    BY <1>3, <1>4, <1>5

LEMMA InitRules == Init => RewardRules
  BY AmountsAssumption DEF Init, Blank, RewardRules, KeepsRewardRules

LEMMA NextRules == TypeOK /\ RewardRules /\ [Next]_vars => RewardRules'
  <1> SUFFICES ASSUME TypeOK, RewardRules, [Next]_vars PROVE RewardRules'
    OBVIOUS
  <1>0. today \in Nat /\ \A a \in Account : sign[a] \in Record
    BY DEF TypeOK
  <1>1. ASSUME NEW s \in Scenario, NEW i \in Id, C2CMessage(s, i) PROVE RewardRules'
    BY <1>1, LearningRules DEF C2CMessage, RewardRules, KeepsRewardRules
  <1>2. ASSUME NEW s \in Scenario, NEW g \in Group, NEW i \in Id,
               GroupMessage(s, g, i)
        PROVE  RewardRules'
    <2> DEFINE merged  == SignAfter(s, i)
               account == AccountKeyIn(identity', binds', i)
    <2>1. /\ merged \in [Account -> Record]
          /\ account \in Account
          /\ \A a \in Account : KeepsRewardRules(merged[a])
      BY <1>2, LearningType, LearningRules, KeyType DEF GroupMessage
    <2>2. KeepsRewardRules(Awarded(merged[account], g))
      BY <2>1, <1>0, AwardedRules
    <2>3. sign' \in {merged, [merged EXCEPT ![account] = Awarded(merged[account], g)]}
      BY <1>2 DEF GroupMessage
    <2> HIDE DEF merged, account
    <2>4. \A a \in Account : KeepsRewardRules(sign'[a])
      BY <2>1, <2>2, <2>3
    <2>5. QED
      BY <2>4 DEF RewardRules, KeepsRewardRules
  <1>3. ASSUME NEW s \in Scenario, NEW g \in Group, GroupAdd(s, g) PROVE RewardRules'
    <2>1. AccountKey(s) \in Account
      BY KeyType DEF AccountKey, TypeOK, Id
    <2>2. KeepsRewardRules(Awarded(sign[AccountKey(s)], g))
      BY <2>1, <1>0, AwardedRules DEF RewardRules
    <2>3. \A a \in Account : KeepsRewardRules(sign'[a])
      BY <1>3, <2>1, <2>2 DEF GroupAdd, RewardRules, TypeOK
    <2>4. QED
      BY <2>3 DEF RewardRules, KeepsRewardRules
  <1>4. ASSUME NEW i \in Id, SignIn(i) PROVE RewardRules'
    <2>1. AccountKey(i) \in Account
      BY KeyType DEF AccountKey, TypeOK
    <2>2. KeepsRewardRules(SignedIn(sign[AccountKey(i)]))
      BY <2>1, <1>0, OtherRules DEF RewardRules
    <2>3. \A a \in Account : KeepsRewardRules(sign'[a])
      BY <1>4, <2>1, <2>2 DEF SignIn, RewardRules, TypeOK
    <2>4. QED
      BY <2>3 DEF RewardRules, KeepsRewardRules
  <1>5. ASSUME NEW a \in Account, NEW cost \in Costs, Spend(a, cost) PROVE RewardRules'
    <2> DEFINE left == sign[a].points - cost
    <2>1. sign' = [sign EXCEPT ![a].points = left]
      BY <1>5 DEF Spend
    <2> HIDE DEF left
    <2>2. /\ sign'[a].rewarded = sign[a].rewarded
          /\ sign'[a].addCount = sign[a].addCount
          /\ \A b \in Account \ {a} : sign'[b] = sign[b]
      BY <2>1 DEF TypeOK, Record
    <2>3. QED
      BY <2>2 DEF RewardRules, KeepsRewardRules
  <1>6. ASSUME NEW i \in Id, NEW q \in QQ, BindQQ(i, q) PROVE RewardRules'
    <2> DEFINE current == AccountKey(i)
    <2>1. current \in Account /\ q \in Account
      BY KeyType DEF AccountKey, TypeOK, Account
    <2>2. current # q
      BY <1>6, KindsDisjoint DEF BindQQ, AccountKey, AccountKeyIn, TypeOK, Id
    <2>3. /\ KeepsRewardRules(Poured(sign[current], sign[q]))
          /\ KeepsRewardRules(Drained(sign[current], q))
      BY <2>1, <1>0, OtherRules DEF RewardRules
    <2>4. sign' \in {sign, [sign EXCEPT ![q] = Poured(sign[current], sign[q]),
                                        ![current] = Drained(sign[current], q)]}
      BY <1>6, <2>1, <2>2 DEF BindQQ, TypeOK
    <2> HIDE DEF current
    <2>5. \A a \in Account : KeepsRewardRules(sign'[a])
      BY <2>1, <2>2, <2>3, <2>4 DEF RewardRules, TypeOK
    <2>6. QED
      BY <2>5 DEF RewardRules, KeepsRewardRules
  <1>7. ASSUME NEW i \in Id, UnbindQQ(i) PROVE RewardRules'
    BY <1>7 DEF UnbindQQ, RewardRules, KeepsRewardRules
  <1>8. CASE NextDay
    BY <1>8 DEF NextDay, RewardRules, KeepsRewardRules
  <1>9. CASE UNCHANGED vars
    BY <1>9 DEF vars, RewardRules, KeepsRewardRules
  <1>10. QED
    BY <1>1, <1>2, <1>3, <1>4, <1>5, <1>6, <1>7, <1>8, <1>9 DEF Next

\* No account is ever paid twice for a group it remembers, nor more than the
\* daily number of times, nor remembers more groups than the code keeps.
THEOREM RewardRulesHold == Spec => []RewardRules
  <1>1. Init => TypeOK /\ RewardRules
    BY InitType, InitRules
  <1>2. TypeOK /\ RewardRules /\ [Next]_vars => (TypeOK /\ RewardRules)'
    BY NextType, NextRules
  <1>3. QED
    BY <1>1, <1>2, PTL DEF Spec
-----------------------------------------------------------------------------
(* Streaks *)

Fits(u) == u.last <= today /\ u.streak <= u.last

\* What a message teaches moves points and leaves the streaks alone.
LEMMA LearningFits ==
  ASSUME TypeOK, StreakFitsCalendar, NEW s \in Scenario, NEW i \in NamedBy(s)
  PROVE  \A a \in Account : Fits(SignAfter(s, i)[a])
  <1>1. s \in Account /\ i \in Account /\ today \in Nat \ {0}
    BY LearningType, AmountsAssumption DEF Account, Id, TypeOK
  <1>2. \A a \in Account : sign[a] \in Record /\ sign[a].points \in Nat /\ Fits(sign[a])
    BY DEF TypeOK, Record, StreakFitsCalendar, Fits
  <1>3. CASE ~Learns(s, i)
    BY <1>2, <1>3 DEF SignAfter
  <1>4. CASE Learns(s, i) /\ Mergeable(sign[s])
    <2>1. i # s
      BY <1>4, KindsDisjoint DEF Learns
    <2>2. SignAfter(s, i) = [sign EXCEPT ![i] = Receives(sign[i], sign[s].points),
                                         ![s] = Drained(sign[s], i)]
      BY <1>4, <2>1, <1>1 DEF SignAfter, TypeOK
    <2>3. Fits(Receives(sign[i], sign[s].points)) /\ Fits(Drained(sign[s], i))
      <3>1. Fits(Receives(sign[i], sign[s].points))
        <4>1. Receives(sign[i], sign[s].points).last = sign[i].last /\ Receives(sign[i], sign[s].points).streak = sign[i].streak
          BY <1>1, <1>2 DEF Receives, Record
        <4>2. QED
          BY <4>1, <1>1, <1>2 DEF Fits
      <3>2. Fits(Drained(sign[s], i))
        <4>1. Drained(sign[s], i).last = sign[s].last /\ Drained(sign[s], i).streak = sign[s].streak
          BY <1>1, <1>2 DEF Drained, Record
        <4>2. QED
          BY <4>1, <1>1, <1>2 DEF Fits
      <3>3. QED
        BY <3>1, <3>2
    <2>4. QED
      BY <2>1, <2>2, <2>3, <1>1, <1>2 DEF TypeOK
  <1>5. CASE Learns(s, i) /\ ~Mergeable(sign[s])
    <2>1. SignAfter(s, i) = [sign EXCEPT ![i] = Receives(sign[i], 0)]
      BY <1>5 DEF SignAfter
    <2>2. Fits(Receives(sign[i], 0))
      <3>1. Receives(sign[i], 0).last = sign[i].last /\ Receives(sign[i], 0).streak = sign[i].streak
        BY <1>1, <1>2 DEF Receives, Record
      <3>2. QED
        BY <3>1, <1>1, <1>2 DEF Fits
    <2>3. QED
      BY <2>1, <2>2, <1>1, <1>2 DEF TypeOK
  <1>6. QED
    BY <1>3, <1>4, <1>5

LEMMA InitFits == Init => StreakFitsCalendar
  BY DEF Init, Blank, Never, StreakFitsCalendar

LEMMA NextFits == TypeOK /\ StreakFitsCalendar /\ [Next]_vars => StreakFitsCalendar'
  <1> SUFFICES ASSUME TypeOK, StreakFitsCalendar, [Next]_vars PROVE StreakFitsCalendar'
    OBVIOUS
  <1>0. /\ today \in Nat \ {0}
        /\ \A a \in Account : sign[a] \in Record /\ Fits(sign[a])
        /\ \A a \in Account : sign[a].last \in Nat /\ sign[a].streak \in Nat
    BY AmountsAssumption DEF TypeOK, StreakFitsCalendar, Fits, Record
  <1>a. ASSUME today' = today, \A a \in Account : Fits(sign'[a])
        PROVE  StreakFitsCalendar'
    BY <1>a DEF StreakFitsCalendar, Fits
  <1>1. ASSUME NEW s \in Scenario, NEW i \in Id, C2CMessage(s, i) PROVE StreakFitsCalendar'
    BY <1>a, <1>1, LearningFits DEF C2CMessage
  <1>2. ASSUME NEW s \in Scenario, NEW g \in Group, NEW i \in Id, GroupMessage(s, g, i)
        PROVE  StreakFitsCalendar'
    <2> DEFINE merged  == SignAfter(s, i)
               account == AccountKeyIn(identity', binds', i)
    <2>1. /\ merged \in [Account -> Record]
          /\ account \in Account
          /\ \A a \in Account : Fits(merged[a])
      BY <1>2, LearningType, LearningFits, KeyType DEF GroupMessage
    <2>2. Fits(Awarded(merged[account], g))
      <3>1. Awarded(merged[account], g).last = merged[account].last /\ Awarded(merged[account], g).streak = merged[account].streak
        BY <2>1 DEF Awarded, Record
      <3>2. QED
        BY <3>1, <2>1 DEF Fits
    <2>3. sign' \in {merged, [merged EXCEPT ![account] = Awarded(merged[account], g)]}
      BY <1>2 DEF GroupMessage
    <2>4. today' = today
      BY <1>2 DEF GroupMessage
    <2> HIDE DEF merged, account
    <2>5. \A a \in Account : Fits(sign'[a])
      BY <2>1, <2>2, <2>3
    <2>6. QED
      BY <2>4, <2>5, <1>a
  <1>3. ASSUME NEW s \in Scenario, NEW g \in Group, GroupAdd(s, g) PROVE StreakFitsCalendar'
    <2>1. AccountKey(s) \in Account
      BY KeyType DEF AccountKey, TypeOK, Id
    <2>2. Fits(Awarded(sign[AccountKey(s)], g))
      <3>1. /\ Awarded(sign[AccountKey(s)], g).last = sign[AccountKey(s)].last
            /\ Awarded(sign[AccountKey(s)], g).streak = sign[AccountKey(s)].streak
        BY <2>1, <1>0 DEF Awarded, Record
      <3>2. QED
        BY <3>1, <2>1, <1>0 DEF Fits
    <2>3. \A a \in Account : Fits(sign'[a])
      BY <1>0, <1>3, <2>1, <2>2 DEF GroupAdd, TypeOK
    <2>4. QED
      BY <2>3, <1>3, <1>a DEF GroupAdd
  <1>4. ASSUME NEW i \in Id, SignIn(i) PROVE StreakFitsCalendar'
    <2>1. AccountKey(i) \in Account
      BY KeyType DEF AccountKey, TypeOK
    <2>2. Fits(SignedIn(sign[AccountKey(i)]))
      <3> DEFINE u == sign[AccountKey(i)]
                 streak == IF u.last # Never /\ u.last = today - 1 THEN u.streak + 1 ELSE 1
      <3>1. SignedIn(u).last = today /\ SignedIn(u).streak = streak
        BY <1>0, <2>1 DEF SignedIn, Record
      <3>2. u.streak \in Nat /\ u.last \in Nat /\ u.streak <= u.last
        BY <1>0, <2>1 DEF Fits
      <3> HIDE DEF u
      <3>3. streak <= today
        BY <3>2, <1>0
      <3> HIDE DEF streak
      <3>4. QED
        BY <3>1, <3>3, <1>0 DEF Fits, u
    <2>3. \A a \in Account : Fits(sign'[a])
      BY <1>0, <1>4, <2>1, <2>2 DEF SignIn, TypeOK
    <2>4. QED
      BY <2>3, <1>4, <1>a DEF SignIn
  <1>5. ASSUME NEW a \in Account, NEW cost \in Costs, Spend(a, cost) PROVE StreakFitsCalendar'
    <2> DEFINE left == sign[a].points - cost
    <2>1. sign' = [sign EXCEPT ![a].points = left] /\ today' = today
      BY <1>5 DEF Spend
    <2> HIDE DEF left
    <2>2. /\ sign'[a].last = sign[a].last /\ sign'[a].streak = sign[a].streak
          /\ \A b \in Account \ {a} : sign'[b] = sign[b]
      BY <2>1 DEF TypeOK, Record
    <2>3. QED
      BY <2>1, <2>2, <1>0 DEF StreakFitsCalendar, Fits
  <1>6. ASSUME NEW i \in Id, NEW q \in QQ, BindQQ(i, q) PROVE StreakFitsCalendar'
    <2> DEFINE current == AccountKey(i)
    <2>1. current \in Account /\ q \in Account
      BY KeyType DEF AccountKey, TypeOK, Account
    <2>2. current # q
      BY <1>6, KindsDisjoint DEF BindQQ, AccountKey, AccountKeyIn, TypeOK, Id
    <2>3. Fits(Poured(sign[current], sign[q]))
      <3>1. /\ Poured(sign[current], sign[q]).last = Larger(sign[q].last, sign[current].last)
            /\ Poured(sign[current], sign[q]).streak = Larger(sign[q].streak, sign[current].streak)
        BY <2>1, <1>0 DEF Poured, Record
      <3>2. QED
        BY <3>1, <2>1, <1>0 DEF Fits, Larger
    <2>4. Fits(Drained(sign[current], q))
      <3>1. /\ Drained(sign[current], q).last = sign[current].last
            /\ Drained(sign[current], q).streak = sign[current].streak
        BY <2>1, <1>0 DEF Drained, Record
      <3>2. QED
        BY <3>1, <2>1, <1>0 DEF Fits
    <2>5. sign' \in {sign, [sign EXCEPT ![q] = Poured(sign[current], sign[q]),
                                        ![current] = Drained(sign[current], q)]}
      BY <1>6, <2>1, <2>2 DEF BindQQ, TypeOK
    <2> HIDE DEF current
    <2>6. \A a \in Account : Fits(sign'[a])
      BY <1>0, <2>1, <2>2, <2>3, <2>4, <2>5 DEF TypeOK
    <2>7. QED
      BY <2>6, <1>6, <1>a DEF BindQQ
  <1>7. ASSUME NEW i \in Id, UnbindQQ(i) PROVE StreakFitsCalendar'
    BY <1>0, <1>7, <1>a DEF UnbindQQ
  <1>8. CASE NextDay
    BY <1>0, <1>8 DEF NextDay, StreakFitsCalendar, Fits
  <1>9. CASE UNCHANGED vars
    BY <1>0, <1>9, <1>a DEF vars
  <1>10. QED
    BY <1>1, <1>2, <1>3, <1>4, <1>5, <1>6, <1>7, <1>8, <1>9 DEF Next

\* No streak counts more days than the calendar has, through any sequence of
\* sign-ins, merges and binds.
THEOREM StreaksFit == Spec => []StreakFitsCalendar
  <1>1. Init => TypeOK /\ StreakFitsCalendar
    BY InitType, InitFits
  <1>2. TypeOK /\ StreakFitsCalendar /\ [Next]_vars => (TypeOK /\ StreakFitsCalendar)'
    BY NextType, NextFits
  <1>3. QED
    BY <1>1, <1>2, PTL DEF Spec

\* The element that is taken first.
First(T) == CHOOSE a \in T : TRUE

\* The sums of v over the subsets of S, as MapThenFoldSet makes them.
Sums(f, v, S) ==
  f = [T \in SUBSET S |-> IF T = {} THEN 0 ELSE v[First(T)] + f[T \ {First(T)}]]

\* Those over the subsets of up to n elements.
SumsUpTo(f, v, S, n) ==
  f = [T \in {T \in SUBSET S : Cardinality(T) <= n} |->
         IF T = {} THEN 0 ELSE v[First(T)] + f[T \ {First(T)}]]

\* A set of naturals that is not empty has a least element.
LEMMA Least ==
  ASSUME NEW T \in SUBSET Nat, T # {}
  PROVE  \E x \in T : \A y \in T : x <= y
<1>1. PICK R : IsWellFoundedOn(R, Nat) /\ \A x, y \in Nat : <<y, x>> \in R <=> y < x
  <2>1. \A x, y \in Nat : <<y, x>> \in OpToRel(<, Nat) <=> y < x  BY DEF OpToRel
  <2> QED  BY <2>1, NatLessThanWellFounded
<1>2. PICK x \in T : \A y \in T : <<y, x>> \notin R
  BY <1>1, WFMin
<1>3. \A y \in T : y \in Nat /\ x \in Nat /\ ~(y < x)  BY <1>1, <1>2
<1> QED  BY <1>2, <1>3

\* One element less.
LEMMA OneLess ==
  ASSUME NEW S, IsFiniteSet(S), NEW T \in SUBSET S, NEW a \in T
  PROVE  /\ T \ {a} \in SUBSET S /\ Cardinality(T) \in Nat \ {0}
         /\ Cardinality(T \ {a}) = Cardinality(T) - 1
<1>1. IsFiniteSet(T)  BY FS_Subset
<1>2. Cardinality(T) \in Nat /\ Cardinality(T) # 0  BY <1>1, FS_CardinalityType, FS_EmptySet
<1>3. Cardinality(T \ {a}) = Cardinality(T) - 1  BY <1>1, FS_RemoveElement
<1> QED  BY <1>2, <1>3

\* The recursion defines the sums.
LEMMA SumsExist ==
  ASSUME NEW S, IsFiniteSet(S), NEW v
  PROVE  \E f : Sums(f, v, S)
<1>1. PICK B : B = {n \in Nat : ~\E f : SumsUpTo(f, v, S, n)}  OBVIOUS
<1>2. ASSUME B # {} PROVE FALSE
  <2>1. PICK m \in B : \A y \in B : m <= y  BY <1>1, <1>2, Least
  <2>2. m \in Nat /\ ~\E f : SumsUpTo(f, v, S, m)  BY <1>1
  <2>3. PICK D : D = {T \in SUBSET S : Cardinality(T) <= m}  OBVIOUS
  <2>4. \A T \in D : T # {} => /\ First(T) \in T
                               /\ Cardinality(T \ {First(T)}) <= m - 1
                               /\ T \ {First(T)} \in D
    <3> SUFFICES ASSUME NEW T \in D, T # {}, NEW a, a = First(T)
                 PROVE  a \in T /\ Cardinality(T \ {a}) <= m - 1 /\ T \ {a} \in D
      OBVIOUS
    <3>1. a \in T  BY DEF First
    <3>2. T \in SUBSET S /\ Cardinality(T) <= m  BY <2>3
    <3>3. T \ {a} \in SUBSET S /\ Cardinality(T) \in Nat \ {0} /\ Cardinality(T \ {a}) = Cardinality(T) - 1
      BY <3>1, <3>2, OneLess
    <3> QED  BY <3>1, <3>2, <3>3, <2>2, <2>3
  <2>5. CASE m = 0
    <3>1. PICK f : f = [T \in D |-> 0]  OBVIOUS
    <3>2. \A T \in D : T = {}
      <4>1. \A T \in SUBSET S : IsFiniteSet(T) /\ Cardinality(T) \in Nat  BY FS_Subset, FS_CardinalityType
      <4> QED  BY <4>1, <2>3, <2>5, FS_EmptySet
    <3>3. SumsUpTo(f, v, S, m)  BY <2>3, <3>1, <3>2 DEF SumsUpTo
    <3> QED  BY <3>3, <2>2
  <2>6. CASE m > 0
    <3>1. m - 1 \in Nat /\ m - 1 \notin B  BY <2>1, <2>2, <2>6
    <3>2. PICK f : SumsUpTo(f, v, S, m - 1)  BY <3>1, <1>1
    <3>3. PICK E : E = {T \in SUBSET S : Cardinality(T) <= m - 1}  OBVIOUS
    <3>4. f = [T \in E |-> IF T = {} THEN 0 ELSE v[First(T)] + f[T \ {First(T)}]]
      BY <3>2, <3>3 DEF SumsUpTo
    <3>5. PICK g : g = [T \in D |-> IF T \in E THEN f[T]
                                    ELSE IF T = {} THEN 0 ELSE v[First(T)] + f[T \ {First(T)}]]
      OBVIOUS
    <3>6. ASSUME NEW T \in D
          PROVE  g[T] = IF T = {} THEN 0 ELSE v[First(T)] + g[T \ {First(T)}]
      <4>1. g[T] = IF T = {} THEN 0 ELSE v[First(T)] + f[T \ {First(T)}]
        BY <3>4, <3>5
      <4>2. ASSUME T # {} PROVE g[T \ {First(T)}] = f[T \ {First(T)}]
        <5>1. T \ {First(T)} \in D /\ T \ {First(T)} \in E
          BY <2>4, <4>2, <3>3, <2>3
        <5> QED  BY <5>1, <3>5
      <4> QED  BY <4>1, <4>2
    <3>7. SumsUpTo(g, v, S, m)  BY <2>3, <3>5, <3>6 DEF SumsUpTo
    <3> QED  BY <3>7, <2>2
  <2> QED  BY <2>2, <2>5, <2>6
<1>3. Cardinality(S) \in Nat  BY FS_CardinalityType
<1>4. PICK f : SumsUpTo(f, v, S, Cardinality(S))  BY <1>1, <1>2, <1>3
<1>5. {T \in SUBSET S : Cardinality(T) <= Cardinality(S)} = SUBSET S
  <2>1. \A T \in SUBSET S : Cardinality(T) <= Cardinality(S)  BY FS_Subset
  <2> QED  BY <2>1
<1>6. Sums(f, v, S)  BY <1>4, <1>5 DEF SumsUpTo, Sums
<1> QED  BY <1>6

\* The sums of integers are integers.
LEMMA SumsAreInts ==
  ASSUME NEW S, IsFiniteSet(S), NEW v \in [S -> Int], NEW f, Sums(f, v, S), NEW T \in SUBSET S
  PROVE  f[T] \in Int
<1>1. PICK B : B = {n \in Nat : \E U \in SUBSET S : Cardinality(U) = n /\ f[U] \notin Int}  OBVIOUS
<1>2. ASSUME B # {} PROVE FALSE
  <2>1. PICK m \in B : \A y \in B : m <= y  BY <1>1, <1>2, Least
  <2>2. PICK U \in SUBSET S : Cardinality(U) = m /\ f[U] \notin Int  BY <1>1
  <2>3. U # {}
    <3>1. f[{}] = 0  BY DEF Sums
    <3> QED  BY <3>1, <2>2
  <2>4. PICK a : a = First(U)  OBVIOUS
  <2>5. a \in U /\ f[U] = v[a] + f[U \ {a}]  BY <2>3, <2>4 DEF Sums, First
  <2>6. U \ {a} \in SUBSET S /\ m \in Nat \ {0} /\ Cardinality(U \ {a}) = m - 1  BY <2>2, <2>5, OneLess
  <2>7. m - 1 \notin B  BY <2>1, <2>6
  <2>8. f[U \ {a}] \in Int  BY <1>1, <2>6, <2>7
  <2> QED  BY <2>2, <2>5, <2>8
<1>3. Cardinality(T) \in Nat
  <2>1. IsFiniteSet(T)  BY FS_Subset
  <2> QED  BY <2>1, FS_CardinalityType
<1> QED  BY <1>1, <1>2, <1>3

\* It does not matter which element is taken first.
LEMMA AnyFirst ==
  ASSUME NEW S, IsFiniteSet(S), NEW v \in [S -> Int], NEW f, Sums(f, v, S), NEW T \in SUBSET S, NEW x \in T
  PROVE  f[T] = v[x] + f[T \ {x}] /\ f[T \ {x}] \in Int
<1>1. PICK B : B = {n \in Nat : \E U \in SUBSET S : \E y \in U : Cardinality(U) = n /\ f[U] # v[y] + f[U \ {y}]}
  OBVIOUS
<1>2. ASSUME B # {} PROVE FALSE
  <2>1. PICK m \in B : \A y \in B : m <= y  BY <1>1, <1>2, Least
  <2>2. PICK U, y : U \in SUBSET S /\ y \in U /\ Cardinality(U) = m /\ f[U] # v[y] + f[U \ {y}]  BY <1>1
  <2>3. PICK a : a = First(U)  OBVIOUS
  <2>4. a \in U /\ f[U] = v[a] + f[U \ {a}]  BY <2>2, <2>3 DEF Sums, First
  <2>5. a # y  BY <2>2, <2>4
  <2>6. /\ U \ {a} \in SUBSET S /\ m \in Nat \ {0} /\ Cardinality(U \ {a}) = m - 1
        /\ U \ {y} \in SUBSET S /\ Cardinality(U \ {y}) = m - 1
    BY <2>2, <2>4, OneLess
  <2>7. m - 1 \notin B /\ m - 1 \in Nat  BY <2>1, <2>6
  <2>8. y \in U \ {a} /\ a \in U \ {y}  BY <2>2, <2>4, <2>5
  <2>9. f[U \ {a}] = v[y] + f[(U \ {a}) \ {y}] /\ f[U \ {y}] = v[a] + f[(U \ {y}) \ {a}]
    BY <1>1, <2>6, <2>7, <2>8
  <2>10. (U \ {a}) \ {y} = (U \ {y}) \ {a} /\ (U \ {a}) \ {y} \in SUBSET S  BY <2>2
  <2>11. f[(U \ {a}) \ {y}] \in Int  BY <2>10, SumsAreInts
  <2>12. v[a] \in Int /\ v[y] \in Int  BY <2>2, <2>4
  <2>13. PICK z : z = f[(U \ {a}) \ {y}]  OBVIOUS
  <2>14. z \in Int /\ f[U \ {a}] = v[y] + z /\ f[U \ {y}] = v[a] + z  BY <2>9, <2>10, <2>11, <2>13
  <2>15. f[U] = v[a] + (v[y] + z) /\ f[U] # v[y] + (v[a] + z)  BY <2>2, <2>4, <2>14
  <2> QED  BY <2>12, <2>14, <2>15
<1>3. Cardinality(T) \in Nat
  <2>1. IsFiniteSet(T)  BY FS_Subset
  <2> QED  BY <2>1, FS_CardinalityType
<1>4. f[T \ {x}] \in Int
  <2>1. T \ {x} \in SUBSET S  OBVIOUS
  <2> QED  BY <2>1, SumsAreInts
<1> QED  BY <1>1, <1>2, <1>3, <1>4

\* What agrees on a set has the same sum over it.
LEMMA SameSum ==
  ASSUME NEW S, IsFiniteSet(S), NEW v, NEW w, NEW f, NEW g, Sums(f, v, S), Sums(g, w, S),
         NEW T \in SUBSET S, \A a \in T : v[a] = w[a]
  PROVE  f[T] = g[T]
<1>1. PICK B : B = {n \in Nat : \E U \in SUBSET T : Cardinality(U) = n /\ f[U] # g[U]}  OBVIOUS
<1>2. ASSUME B # {} PROVE FALSE
  <2>1. PICK m \in B : \A y \in B : m <= y  BY <1>1, <1>2, Least
  <2>2. PICK U \in SUBSET T : Cardinality(U) = m /\ f[U] # g[U]  BY <1>1
  <2>3. U \in SUBSET S /\ U # {}
    <3>1. f[{}] = 0 /\ g[{}] = 0  BY DEF Sums
    <3> QED  BY <3>1, <2>2
  <2>4. PICK a : a = First(U)  OBVIOUS
  <2>5. a \in U /\ f[U] = v[a] + f[U \ {a}] /\ g[U] = w[a] + g[U \ {a}]  BY <2>3, <2>4 DEF Sums, First
  <2>6. m \in Nat \ {0} /\ Cardinality(U \ {a}) = m - 1  BY <2>2, <2>3, <2>5, OneLess
  <2>7. m - 1 \notin B /\ m - 1 \in Nat  BY <2>1, <2>6
  <2>8. U \ {a} \in SUBSET T  BY <2>2
  <2>9. f[U \ {a}] = g[U \ {a}]  BY <1>1, <2>6, <2>7, <2>8
  <2>10. v[a] = w[a]  BY <2>2, <2>5
  <2> QED  BY <2>2, <2>5, <2>9, <2>10
<1>3. Cardinality(T) \in Nat
  <2>1. IsFiniteSet(T)  BY FS_Subset
  <2> QED  BY <2>1, FS_CardinalityType
<1> QED  BY <1>1, <1>2, <1>3


\* The balances that a ledger adds up.
PointsOf(accounts) == [a \in Account |-> accounts[a].points]

LEMMA AccountsFinite == IsFiniteSet(Account)
<1>1. IsFiniteSet(Scenario \cup Union)  BY FiniteAssumption, FS_Union
<1> QED  BY <1>1, FiniteAssumption, FS_Union DEF Account, Id

LEMMA BalancesAreInts ==
  ASSUME NEW x \in [Account -> Record]
  PROVE  PointsOf(x) \in [Account -> Int]
<1>1. \A a \in Account : x[a].points \in Int  BY DEF Record
<1> QED  BY <1>1 DEF PointsOf

\* PointsIn is one of these sums.
LEMMA PointsSum ==
  ASSUME NEW x \in [Account -> Record]
  PROVE  \E f : Sums(f, PointsOf(x), Account) /\ PointsIn(x) = f[Account]
<1> DEFINE Adds(h) == h = [T \in SUBSET Account |->
              IF T = {} THEN 0
              ELSE x[CHOOSE a \in T : TRUE].points + h[T \ {CHOOSE a \in T : TRUE}]]
<1>1. PICK f : f = CHOOSE h : Adds(h)
  OBVIOUS
<1>2. PointsIn(x) = f[Account]
  BY <1>1 DEF PointsIn, MapThenSumSet, MapThenFoldSet
<1>3. PICK g : Sums(g, PointsOf(x), Account)  BY AccountsFinite, SumsExist
<1>4. Adds(g)
  <2>1. \A T \in SUBSET Account : T # {} => First(T) \in Account  BY DEF First
  <2>2. \A T \in SUBSET Account :
           (IF T = {} THEN 0 ELSE PointsOf(x)[First(T)] + g[T \ {First(T)}])
             = IF T = {} THEN 0 ELSE x[First(T)].points + g[T \ {First(T)}]
    BY <2>1 DEF PointsOf
  <2>3. g = [T \in SUBSET Account |->
               IF T = {} THEN 0 ELSE PointsOf(x)[First(T)] + g[T \ {First(T)}]]
    BY <1>3 DEF Sums
  <2>4. g = [T \in SUBSET Account |->
               IF T = {} THEN 0 ELSE x[First(T)].points + g[T \ {First(T)}]]
    BY <2>2, <2>3
  <2> QED  BY <2>4 DEF First
<1>5. Adds(f)
  <2> HIDE DEF Adds
  <2> QED  BY <1>1, <1>4
<1>6. Sums(f, PointsOf(x), Account)
  <2>1. \A T \in SUBSET Account : T # {} => First(T) \in Account  BY DEF First
  <2>2. \A T \in SUBSET Account :
           (IF T = {} THEN 0 ELSE PointsOf(x)[First(T)] + f[T \ {First(T)}])
             = IF T = {} THEN 0 ELSE x[First(T)].points + f[T \ {First(T)}]
    BY <2>1 DEF PointsOf
  <2>3. f = [T \in SUBSET Account |->
               IF T = {} THEN 0 ELSE x[First(T)].points + f[T \ {First(T)}]]
    BY <1>5 DEF First
  <2>4. f = [T \in SUBSET Account |->
               IF T = {} THEN 0 ELSE PointsOf(x)[First(T)] + f[T \ {First(T)}]]
    BY <2>2, <2>3
  <2> QED  BY <2>4 DEF Sums
<1> QED  BY <1>2, <1>6

LEMMA TotalIsInt ==
  ASSUME NEW x \in [Account -> Record]
  PROVE  PointsIn(x) \in Int
<1>1. PICK f : Sums(f, PointsOf(x), Account) /\ PointsIn(x) = f[Account]  BY PointsSum
<1> QED  BY <1>1, BalancesAreInts, AccountsFinite, SumsAreInts

\* Equal balances add up to the same.
LEMMA SameBalances ==
  ASSUME NEW x \in [Account -> Record], NEW y \in [Account -> Record],
         \A a \in Account : x[a].points = y[a].points
  PROVE  PointsIn(x) = PointsIn(y)
<1>1. PICK f : Sums(f, PointsOf(x), Account) /\ PointsIn(x) = f[Account]  BY PointsSum
<1>2. PICK g : Sums(g, PointsOf(y), Account) /\ PointsIn(y) = g[Account]  BY PointsSum
<1>3. \A a \in Account : PointsOf(x)[a] = PointsOf(y)[a]  BY DEF PointsOf
<1> QED  BY <1>1, <1>2, <1>3, AccountsFinite, SameSum

\* One account changes.
LEMMA OneBalance ==
  ASSUME NEW x \in [Account -> Record], NEW y \in [Account -> Record], NEW b \in Account,
         \A a \in Account \ {b} : x[a].points = y[a].points
  PROVE  PointsIn(y) = PointsIn(x) + (y[b].points - x[b].points)
<1>1. PICK f : Sums(f, PointsOf(x), Account) /\ PointsIn(x) = f[Account]  BY PointsSum
<1>2. PICK g : Sums(g, PointsOf(y), Account) /\ PointsIn(y) = g[Account]  BY PointsSum
<1>3. f[Account] = PointsOf(x)[b] + f[Account \ {b}] /\ f[Account \ {b}] \in Int
  BY <1>1, BalancesAreInts, AccountsFinite, AnyFirst
<1>4. g[Account] = PointsOf(y)[b] + g[Account \ {b}] /\ g[Account \ {b}] \in Int
  BY <1>2, BalancesAreInts, AccountsFinite, AnyFirst
<1>5. f[Account \ {b}] = g[Account \ {b}]
  <2>1. \A a \in Account \ {b} : PointsOf(x)[a] = PointsOf(y)[a]  BY DEF PointsOf
  <2>2. Account \ {b} \in SUBSET Account  OBVIOUS
  <2> QED  BY <1>1, <1>2, <2>1, <2>2, AccountsFinite, SameSum
<1>6. PointsOf(x)[b] = x[b].points /\ PointsOf(y)[b] = y[b].points  BY DEF PointsOf
<1>7. x[b].points \in Int /\ y[b].points \in Int  BY DEF Record
<1> QED  BY <1>1, <1>2, <1>3, <1>4, <1>5, <1>6, <1>7

\* Points go from one account to another.
LEMMA TwoBalances ==
  ASSUME NEW x \in [Account -> Record], NEW y \in [Account -> Record],
         NEW b \in Account, NEW c \in Account, b # c,
         \A a \in Account \ {b, c} : x[a].points = y[a].points,
         y[c].points = 0, y[b].points = x[b].points + x[c].points
  PROVE  PointsIn(y) = PointsIn(x)
<1>1. PICK z : z = [x EXCEPT ![b] = y[b]]  OBVIOUS
<1>2. z \in [Account -> Record] /\ z[b] = y[b] /\ \A a \in Account \ {b} : z[a] = x[a]
  BY <1>1
<1>3. PointsIn(z) = PointsIn(x) + (z[b].points - x[b].points)
  BY <1>2, OneBalance
<1>4. PointsIn(y) = PointsIn(z) + (y[c].points - z[c].points)
  <2>1. \A a \in Account \ {c} : z[a].points = y[a].points  BY <1>2
  <2> QED  BY <1>2, <2>1, OneBalance
<1>5. z[c] = x[c] /\ z[b] = y[b]  BY <1>2
<1>6. x[b].points \in Int /\ x[c].points \in Int  BY DEF Record
<1>7. PointsIn(x) \in Int  BY TotalIsInt
<1> QED  BY <1>3, <1>4, <1>5, <1>6, <1>7

-----------------------------------------------------------------------------
(* Where points come from *)

\* A new group is remembered.
LEMMA RememberNew ==
  ASSUME NEW groups \in Seq(Group), NEW g \in Group, \A n \in 1..Len(groups) : groups[n] # g
  PROVE  Remember(groups, g) # groups
<1> DEFINE longer == Append(groups, g)
           from   == Len(longer) - RewardedCap + 1
           tail   == SubSeq(longer, from, Len(longer))
<1>1. /\ longer \in Seq(Group) /\ Len(longer) = Len(groups) + 1 /\ Len(groups) \in Nat
      /\ longer[Len(longer)] = g
  OBVIOUS
<1>2. CASE Len(longer) <= RewardedCap
  <2>1. Remember(groups, g) = longer  BY <1>1, <1>2, AmountsAssumption DEF Remember
  <2> QED  BY <2>1, <1>1
<1>3. CASE Len(longer) > RewardedCap
  <2>1. from \in 1..Len(longer)  BY <1>1, <1>3, AmountsAssumption
  <2>2. \A n \in from..Len(longer) : longer[n] \in Group  BY <1>1, <2>1
  <2>3. /\ Len(tail) = RewardedCap
        /\ \A n \in 1..Len(tail) : tail[n] = longer[from + n - 1]
    BY <1>1, <2>1, <2>2, SubSeqProperties, AmountsAssumption
  <2>4. Remember(groups, g) = tail  BY <1>3 DEF Remember
  <2>5. RewardedCap \in 1..Len(tail) /\ from + RewardedCap - 1 = Len(longer)
    BY <1>1, <2>3, AmountsAssumption
  <2> HIDE DEF tail
  <2>6. tail[RewardedCap] = g  BY <1>1, <2>3, <2>5
  <2>7. CASE RewardedCap > Len(groups)
    BY <2>3, <2>4, <2>7
  <2>8. CASE RewardedCap <= Len(groups)
    <3>1. RewardedCap \in 1..Len(groups)  BY <1>1, <2>8, AmountsAssumption
    <3> QED  BY <2>4, <2>6, <3>1
  <2> QED  BY <1>1, <2>7, <2>8, AmountsAssumption
<1> QED  BY <1>1, <1>2, <1>3, AmountsAssumption

\* A settlement pays the reward and remembers the group, or neither.
LEMMA AwardedPays ==
  ASSUME NEW u \in Record, NEW g \in Group, today \in Nat
  PROVE  \/ Awarded(u, g).points = u.points /\ Awarded(u, g).rewarded = u.rewarded
         \/ /\ AwardReason(u, g) = "ok"
            /\ Awarded(u, g).points = u.points + RewardPoints
            /\ Awarded(u, g).rewarded # u.rewarded
<1>1. CASE AwardReason(u, g) # "ok"
  <2>1. Awarded(u, g) \in {[u EXCEPT !.known = TRUE],
                           [u EXCEPT !.known = TRUE, !.addLast = today, !.addCount = CountToday(u)]}
    BY <1>1 DEF Awarded, AwardReason
  <2> QED  BY <2>1 DEF Record
<1>2. CASE AwardReason(u, g) = "ok"
  <2> DEFINE plus == CountToday(u) + 1
             kept == Remember(u.rewarded, g)
             paid == u.points + RewardPoints
  <2>1. Awarded(u, g) = [u EXCEPT !.known = TRUE, !.addLast = today,
                                 !.addCount = plus, !.points = paid, !.rewarded = kept]
    BY <1>2 DEF Awarded
  <2>2. u.rewarded \in Seq(Group) /\ \A n \in 1..Len(u.rewarded) : u.rewarded[n] # g
    BY <1>2 DEF AwardReason, RewardedGroups, Record
  <2>3. kept # u.rewarded  BY <2>2, RememberNew
  <2> HIDE DEF plus, kept
  <2>4. Awarded(u, g).points = paid /\ Awarded(u, g).rewarded = kept  BY <2>1 DEF Record
  <2> QED  BY <1>2, <2>3, <2>4
<1> QED  BY <1>1, <1>2

\* What a message teaches moves points and makes none.
LEMMA LearningConserves ==
  ASSUME TypeOK, NEW s \in Scenario, NEW i \in NamedBy(s)
  PROVE  /\ PointsIn(SignAfter(s, i)) = PointsIn(sign)
         /\ \A a \in Account : SignAfter(s, i)[a].rewarded = sign[a].rewarded
<1>1. s \in Account /\ i \in Account /\ SignAfter(s, i) \in [Account -> Record]
  BY LearningType DEF Account, Id
<1>2. sign \in [Account -> Record] /\ \A a \in Account : sign[a].points \in Nat  BY DEF TypeOK, Record
<1>3. CASE ~Learns(s, i)
  BY <1>3 DEF SignAfter
<1>4. CASE Learns(s, i) /\ Mergeable(sign[s])
  <2>1. i # s  BY <1>4, KindsDisjoint DEF Learns
  <2>2. SignAfter(s, i) = [sign EXCEPT ![i] = Receives(sign[i], sign[s].points),
                                       ![s] = Drained(sign[s], i)]
    BY <1>4, <2>1, <1>1 DEF SignAfter, TypeOK
  <2>3. PICK y : y = SignAfter(s, i)  OBVIOUS
  <2>4. /\ y[i] = Receives(sign[i], sign[s].points) /\ y[s] = Drained(sign[s], i)
        /\ \A a \in Account \ {i, s} : y[a] = sign[a]
    BY <2>1, <2>2, <2>3, <1>1, <1>2
  <2>5. /\ y[i].points = sign[i].points + sign[s].points /\ y[i].rewarded = sign[i].rewarded
        /\ y[s].points = 0 /\ y[s].rewarded = sign[s].rewarded
    BY <2>4, <1>1, <1>2 DEF Receives, Drained, Record
  <2>6. PointsIn(y) = PointsIn(sign)
    BY <1>1, <1>2, <2>1, <2>3, <2>4, <2>5, TwoBalances
  <2> QED  BY <2>3, <2>4, <2>5, <2>6
<1>5. CASE Learns(s, i) /\ ~Mergeable(sign[s])
  <2>1. SignAfter(s, i) = [sign EXCEPT ![i] = Receives(sign[i], 0)]
    BY <1>5 DEF SignAfter
  <2>2. Receives(sign[i], 0).points = sign[i].points /\ Receives(sign[i], 0).rewarded = sign[i].rewarded
    BY <1>1, <1>2 DEF Receives, Record
  <2>3. \A a \in Account : SignAfter(s, i)[a].points = sign[a].points
                           /\ SignAfter(s, i)[a].rewarded = sign[a].rewarded
    BY <2>1, <2>2, <1>1, <1>2
  <2> QED  BY <1>1, <1>2, <2>3, SameBalances
<1> QED  BY <1>3, <1>4, <1>5

\* What one settlement does to the balances.
LEMMA SettlementPays ==
  ASSUME NEW x \in [Account -> Record], NEW b \in Account, NEW g \in Group, today \in Nat,
         NEW y \in [Account -> Record], y[b] = Awarded(x[b], g), \A a \in Account \ {b} : y[a] = x[a]
  PROVE  \/ PointsIn(y) = PointsIn(x)
         \/ /\ PointsIn(y) = PointsIn(x) + RewardPoints
            /\ y[b].rewarded # x[b].rewarded
<1>1. x[b] \in Record  OBVIOUS
<1>2. PICK w : w = Awarded(x[b], g)  OBVIOUS
<1>3. w \in Record  BY <1>1, <1>2, AwardedType
<1>4. y[b] = w
  BY <1>2
<1>5. PointsIn(y) = PointsIn(x) + (w.points - x[b].points)  BY <1>4, OneBalance
<1>6. \/ w.points = x[b].points /\ w.rewarded = x[b].rewarded
      \/ w.points = x[b].points + RewardPoints /\ w.rewarded # x[b].rewarded
  BY <1>1, <1>2, AwardedPays
<1>7. PointsIn(x) \in Int /\ x[b].points \in Int /\ RewardPoints \in Int
  BY <1>1, TotalIsInt, AmountsAssumption DEF Record
<1>8. CASE w.points = x[b].points  BY <1>5, <1>7, <1>8
<1>9. CASE w.points = x[b].points + RewardPoints /\ w.rewarded # x[b].rewarded
  <2>1. PointsIn(y) = PointsIn(x) + RewardPoints  BY <1>5, <1>7, <1>9
  <2> QED  BY <2>1, <1>4, <1>9
<1> QED  BY <1>6, <1>8, <1>9

\* How a step may change the total.
LEMMA NextTotal ==
  ASSUME TypeOK, Next
  PROVE  MergeConserves /\ HasASource
<1>0. /\ today \in Nat /\ sign \in [Account -> Record] /\ \A a \in Account : sign[a].points \in Nat
      /\ sign' \in [Account -> Record] /\ Total \in Int /\ Total = PointsIn(sign) /\ Total' = PointsIn(sign')
  <2>1. TypeOK'  BY NextType
  <2>2. sign \in [Account -> Record] /\ sign' \in [Account -> Record]  BY <2>1 DEF TypeOK
  <2>3. Total = PointsIn(sign) /\ Total' = PointsIn(sign')  BY DEF Total
  <2>4. \A a \in Account : sign[a].points \in Nat  BY <2>2 DEF Record
  <2>5. today \in Nat  BY DEF TypeOK
  <2> QED  BY <2>2, <2>3, <2>4, <2>5, TotalIsInt
<1>a. ASSUME Total' = Total PROVE MergeConserves /\ HasASource
  BY <1>a, <1>0 DEF MergeConserves, HasASource
<1>1. ASSUME NEW s \in Scenario, NEW i \in Id, C2CMessage(s, i) PROVE MergeConserves /\ HasASource
  <2>1. i \in NamedBy(s) /\ sign' = SignAfter(s, i)  BY <1>1 DEF C2CMessage
  <2> QED  BY <1>0, <1>a, <2>1, LearningConserves
<1>2. ASSUME NEW s \in Scenario, NEW g \in Group, NEW i \in Id, GroupMessage(s, g, i)
      PROVE  MergeConserves /\ HasASource
  <2>1. PICK x, b : x = SignAfter(s, i) /\ b = AccountKeyIn(identity', binds', i)  OBVIOUS
  <2>2. /\ x \in [Account -> Record] /\ b \in Account /\ PointsIn(x) = PointsIn(sign)
        /\ \A a \in Account : x[a].rewarded = sign[a].rewarded
    BY <1>2, <2>1, LearningType, KeyType, LearningConserves DEF GroupMessage
  <2>3. CASE <<g, s>> \notin pending
    <3>1. sign' = x  BY <1>2, <2>1, <2>3 DEF GroupMessage
    <3> QED  BY <3>1, <2>2, <1>0, <1>a
  <2>4. CASE <<g, s>> \in pending
    <3>1. sign' = [x EXCEPT ![b] = Awarded(x[b], g)] /\ pending' # pending
      BY <1>2, <2>1, <2>4 DEF GroupMessage
    <3>2. PointsIn(sign') = PointsIn(x)
          \/ (PointsIn(sign') = PointsIn(x) + RewardPoints /\ sign'[b].rewarded # x[b].rewarded)
      <4>1. sign'[b] = Awarded(x[b], g) /\ \A a \in Account \ {b} : sign'[a] = x[a]
        BY <3>1, <2>2
      <4> QED  BY <4>1, <2>2, <1>0, SettlementPays
    <3>3. ASSUME PointsIn(sign') = PointsIn(x) + RewardPoints /\ sign'[b].rewarded # x[b].rewarded
          PROVE  MergeConserves /\ HasASource
      <4>1. Total' = Total + RewardPoints /\ sign'[b].rewarded # sign[b].rewarded
        BY <3>3, <2>2, <1>0
      <4>2. RewardPoints \in Nat /\ Total' - Total = RewardPoints  BY <4>1, <1>0, AmountsAssumption
      <4> QED  BY <4>1, <4>2, <3>1, <2>2 DEF MergeConserves, HasASource
    <3> QED  BY <3>2, <3>3, <2>2, <1>0, <1>a
  <2> QED  BY <2>3, <2>4
<1>3. ASSUME NEW s \in Scenario, NEW g \in Group, GroupAdd(s, g) PROVE MergeConserves /\ HasASource
  <2>1. AccountKey(s) \in Account /\ identity' = identity /\ binds' = binds
    BY <1>3, KeyType DEF AccountKey, TypeOK, Id, GroupAdd
  <2>2. CASE sign' = sign  BY <2>2, <1>0, <1>a
  <2>3. CASE sign' = [sign EXCEPT ![AccountKey(s)] = Awarded(sign[AccountKey(s)], g)]
    <3>1. PICK b : b = AccountKey(s)  OBVIOUS
    <3>2. sign' = [sign EXCEPT ![b] = Awarded(sign[b], g)] /\ b \in Account  BY <2>1, <2>3, <3>1
    <3>3. PointsIn(sign') = PointsIn(sign)
          \/ (PointsIn(sign') = PointsIn(sign) + RewardPoints /\ sign'[b].rewarded # sign[b].rewarded)
      <4>1. sign'[b] = Awarded(sign[b], g) /\ \A a \in Account \ {b} : sign'[a] = sign[a]
        BY <3>2, <1>0
      <4>2. sign \in [Account -> Record] /\ sign' \in [Account -> Record] /\ b \in Account /\ today \in Nat
        BY <3>2, <1>0
      <4> QED  BY <4>1, <4>2, SettlementPays
    <3> QED  BY <3>2, <3>3, <2>1, <1>0, <1>a DEF MergeConserves, HasASource
  <2> QED  BY <2>2, <2>3, <1>3 DEF GroupAdd
<1>4. ASSUME NEW i \in Id, SignIn(i) PROVE MergeConserves /\ HasASource
  <2>1. PICK b : b = AccountKey(i)  OBVIOUS
  <2>2. b \in Account /\ identity' = identity /\ binds' = binds /\ sign[b].last # today
        /\ sign' = [sign EXCEPT ![b] = SignedIn(sign[b])]
    BY <1>4, <2>1, KeyType DEF AccountKey, TypeOK, SignIn
  <2>3. PICK w : w = SignedIn(sign[b])  OBVIOUS
  <2>4. w.points = sign[b].points + SignInPoints /\ w.last = today
    BY <1>0, <2>2, <2>3 DEF SignedIn, Record
  <2>5. sign'[b] = w /\ \A a \in Account \ {b} : sign'[a] = sign[a]  BY <1>0, <2>2, <2>3
  <2>6. PointsIn(sign') = PointsIn(sign) + (w.points - sign[b].points)
    BY <1>0, <2>2, <2>5, OneBalance
  <2>7. w.points - sign[b].points = SignInPoints  BY <1>0, <2>2, <2>4, AmountsAssumption
  <2> QED  BY <1>0, <2>2, <2>4, <2>5, <2>6, <2>7 DEF MergeConserves, HasASource
<1>5. ASSUME NEW a \in Account, NEW cost \in Costs, Spend(a, cost) PROVE MergeConserves /\ HasASource
  <2>1. identity' = identity /\ binds' = binds
        /\ sign' = [sign EXCEPT ![a] = [sign[a] EXCEPT !.points = sign[a].points - cost]]
    BY <1>5 DEF Spend
  <2>2. PICK w : w = [sign[a] EXCEPT !.points = sign[a].points - cost]  OBVIOUS
  <2>3. w.points = sign[a].points - cost  BY <1>0, <2>2 DEF Record
  <2>4. sign'[a] = w /\ \A b \in Account \ {a} : sign'[b] = sign[b]  BY <1>0, <2>1, <2>2
  <2>5. PointsIn(sign') = PointsIn(sign) + (w.points - sign[a].points)
    BY <1>0, <2>4, OneBalance
  <2>6. cost \in Nat  BY AmountsAssumption
  <2>7. w.points - sign[a].points <= 0  BY <1>0, <2>3, <2>6
  <2>8. ~(Total' > Total)  BY <1>0, <2>3, <2>5, <2>6, <2>7
  <2> QED  BY <2>1, <2>8 DEF MergeConserves, HasASource
<1>6. ASSUME NEW i \in Id, NEW q \in QQ, BindQQ(i, q) PROVE MergeConserves /\ HasASource
  <2>1. PICK b : b = AccountKey(i)  OBVIOUS
  <2>2. b \in Account /\ q \in Account  BY <2>1, KeyType DEF AccountKey, TypeOK, Account
  <2>3. b # q
    BY <1>6, <2>1, KindsDisjoint DEF BindQQ, AccountKey, AccountKeyIn, TypeOK, Id
  <2>4. CASE sign' = sign  BY <2>4, <1>0, <1>a
  <2>5. CASE sign' = [sign EXCEPT ![q] = Poured(sign[b], sign[q]), ![b] = Drained(sign[b], q)]
    <3>1. sign'[q] = Poured(sign[b], sign[q]) /\ sign'[b] = Drained(sign[b], q)
          /\ \A a \in Account \ {q, b} : sign'[a] = sign[a]
      BY <1>0, <2>2, <2>3, <2>5
    <3>2. sign'[q].points = sign[q].points + sign[b].points /\ sign'[b].points = 0
      BY <1>0, <2>2, <3>1 DEF Poured, Drained, Record
    <3>3. PointsIn(sign') = PointsIn(sign)
      BY <1>0, <2>2, <2>3, <3>1, <3>2, TwoBalances
    <3> QED  BY <3>3, <1>0, <1>a
  <2>6. sign' \in {sign, [sign EXCEPT ![q] = Poured(sign[b], sign[q]), ![b] = Drained(sign[b], q)]}
    BY <1>6, <2>1, <2>2, <2>3, <1>0 DEF BindQQ
  <2> QED  BY <2>4, <2>5, <2>6
<1>7. ASSUME NEW i \in Id, UnbindQQ(i) PROVE MergeConserves /\ HasASource
  BY <1>0, <1>7, <1>a DEF UnbindQQ
<1>8. CASE NextDay
  BY <1>0, <1>8, <1>a DEF NextDay
<1> QED  BY <1>1, <1>2, <1>3, <1>4, <1>5, <1>6, <1>7, <1>8 DEF Next

\* Merging accounts, learning a union and binding a number never make or
\* destroy points, for any number of accounts and any balances: at most one
\* owed reward is paid on the way.
THEOREM MergesConserve == Spec => MergesConservePoints
<1>1. TypeOK /\ [Next]_vars => [MergeConserves]_vars  BY NextTotal
<1> QED  BY <1>1, TypeCorrect, PTL DEF Spec, MergesConservePoints

\* Points come from sign-ins and rewards only, one amount at a time, and a
\* reward always puts the group on the list that stops the next one.
THEOREM PointsComeFromSomewhere == Spec => PointsHaveASource
<1>1. TypeOK /\ [Next]_vars => [HasASource]_vars  BY NextTotal
<1> QED  BY <1>1, TypeCorrect, PTL DEF Spec, PointsHaveASource

-----------------------------------------------------------------------------
(* The ledger on disk: files, and the saves still to make *)

SaveSet ==
  [file : {"sign"}, content : Accounts] \cup [file : {"identity"}, content : IdentityFile]
  \cup [file : {"binds"}, content : BindsFile]

\* Accounts that a restart of day d cannot tell apart (Lasting).
Alike(x, y, d) ==
  \A a \in Account :
    /\ x[a].points = y[a].points /\ x[a].streak = y[a].streak /\ x[a].last = y[a].last
    /\ x[a].rewarded = y[a].rewarded
    /\ (IF x[a].addLast = d THEN x[a].addCount ELSE 0) = (IF y[a].addLast = d THEN y[a].addCount ELSE 0)

\* What the files should hold.
Memory == [sign |-> sign, owed |-> [map |-> identity, pending |-> pending], binds |-> binds, day |-> today]
Matches(f, c, mem) ==
  /\ f = "sign" => Alike(c, mem.sign, mem.day)
  /\ f = "identity" => c = mem.owed
  /\ f = "binds" => c = mem.binds
Loaded(f, d) == IF f = "sign" THEN LoadSign(d) ELSE IF f = "identity" THEN LoadIdentity(d) ELSE LoadBinds(d)

Awaits(f, W) == \E n \in 1..Len(W) : W[n].file = f
LastOf(n, W) == \A m \in 1..Len(W) : m > n => W[m].file # W[n].file

\* Saves in the right order: the last one of a file is right, all of the
\* accounts have the points of before or after, and none that drops an owed
\* reward comes before one of the accounts.
Good(W, mem, old) ==
  /\ \A n \in 1..Len(W) : LastOf(n, W) => Matches(W[n].file, W[n].content, mem)
  /\ \A n \in 1..Len(W) : W[n].file = "sign" => PointsIn(W[n].content) \in {PointsIn(old.sign), PointsIn(mem.sign)}
  /\ \A n \in 1..Len(W) : W[n].file = "identity" /\ old.pending \ W[n].content.pending # {} =>
       \A m \in 1..Len(W) : m > n => W[m].file # "sign"

\* The inductive invariant of the files.
DiskHolds(d, W, mem, old) ==
  /\ \A f \in File : ~Awaits(f, W) => Matches(f, Loaded(f, d), mem)
  /\ d.sign # Torn => PointsIn(d.sign) \in {PointsIn(old.sign), PointsIn(mem.sign)}
  /\ d.identity # Torn /\ old.pending \ d.identity.pending # {} => ~Awaits("sign", W)
DiskType ==
  /\ DOMAIN disk = File /\ disk = [f \in File |-> disk[f]]
  /\ disk.sign \in Accounts \cup {Torn} /\ disk.identity \in IdentityFile \cup {Torn}
  /\ disk.binds \in BindsFile \cup {Torn}
  /\ writes \in Seq(SaveSet)
  /\ cut \in BOOLEAN /\ (cut => writes # <<>> /\ disk[Head(writes).file] = Torn)
  /\ crashes \in 0..MaxCrash /\ before \in [sign : Accounts, pending : SUBSET (Group \X Scenario)]
StorageInv ==
  /\ TypeOK /\ DiskType
  /\ Good(writes, Memory, before) /\ DiskHolds(disk, writes, Memory, before)

LEMMA AlikeSelf == ASSUME NEW x, NEW d PROVE Alike(x, x, d)
  BY DEF Alike
LEMMA AlikeBoth ==
  ASSUME NEW x, NEW y, NEW z, NEW d, Alike(x, y, d), Alike(y, z, d) PROVE Alike(x, z, d)
  BY DEF Alike
LEMMA AlikeSums ==
  ASSUME NEW x \in Accounts, NEW y \in Accounts, NEW d, Alike(x, y, d)
  PROVE  PointsIn(x) = PointsIn(y)
  BY SameBalances DEF Alike, Accounts

LEMMA NothingToSave ==
  ASSUME NEW mem, NEW old
  PROVE  <<>> \in Seq(SaveSet) /\ Good(<<>>, mem, old) /\ \A f : ~Awaits(f, <<>>)
  BY DEF Good, Awaits

\* One save more, at the front.
LEMMA Prepend ==
  ASSUME NEW V \in Seq(SaveSet), NEW r \in SaveSet, NEW mem, NEW old, Good(V, mem, old),
         Awaits(r.file, V) \/ Matches(r.file, r.content, mem),
         r.file = "sign" => PointsIn(r.content) \in {PointsIn(old.sign), PointsIn(mem.sign)},
         r.file = "identity" /\ old.pending \ r.content.pending # {} => ~Awaits("sign", V),
         NEW W, W = <<r>> \o V
  PROVE  W \in Seq(SaveSet) /\ Good(W, mem, old) /\ \A f : Awaits(f, W) <=> r.file = f \/ Awaits(f, V)
<1>1. /\ W \in Seq(SaveSet) /\ Len(V) \in Nat /\ Len(W) = Len(V) + 1 /\ W[1] = r
      /\ \A n \in 1..Len(V) : W[n + 1] = V[n]
  <2>1. <<r>> \in Seq(SaveSet) /\ Len(<<r>>) = 1 /\ <<r>>[1] = r  OBVIOUS
  <2>2. /\ W \in Seq(SaveSet) /\ Len(W) = 1 + Len(V)
        /\ \A n \in 1..(1 + Len(V)) : W[n] = IF n <= 1 THEN <<r>>[n] ELSE V[n - 1]
    BY <2>1, ConcatProperties
  <2>3. Len(V) \in Nat  OBVIOUS
  <2>4. ASSUME NEW n \in 1..Len(V) PROVE W[n + 1] = V[n]
    <3>1. n + 1 \in 1..(1 + Len(V)) /\ ~(n + 1 <= 1) /\ (n + 1) - 1 = n  BY <2>3
    <3> QED  BY <2>2, <3>1
  <2>5. W[1] = r  BY <2>1, <2>2, <2>3
  <2> QED  BY <2>2, <2>3, <2>4, <2>5
<1>2. \A n \in 1..Len(W) : n = 1 \/ (n - 1 \in 1..Len(V) /\ W[n] = V[n - 1])
  <2>1. ASSUME NEW n \in 1..Len(W), n # 1 PROVE n - 1 \in 1..Len(V) /\ W[n] = V[n - 1]
    <3>1. n - 1 \in 1..Len(V) /\ (n - 1) + 1 = n  BY <1>1, <2>1
    <3> QED  BY <1>1, <3>1
  <2> QED  BY <2>1
<1>3. \A n \in 1..Len(V) : n + 1 \in 1..Len(W) /\ n + 1 > 1  BY <1>1
<1>4. 1 \in 1..Len(W)  BY <1>1
<1>5. \A f : Awaits(f, W) <=> r.file = f \/ Awaits(f, V)
  BY <1>1, <1>2, <1>3, <1>4 DEF Awaits
<1>6. ASSUME NEW n \in 1..Len(W), LastOf(n, W) PROVE Matches(W[n].file, W[n].content, mem)
  <2>1. CASE n = 1
    <3>1. ~Awaits(r.file, V)
      BY <1>1, <1>3, <1>6, <2>1 DEF LastOf, Awaits
    <3> QED  BY <3>1, <2>1, <1>1
  <2>2. CASE n # 1
    <3>1. n - 1 \in 1..Len(V) /\ W[n] = V[n - 1]  BY <1>2, <2>2
    <3>2. ASSUME NEW m \in 1..Len(V), m > n - 1 PROVE V[m].file # V[n - 1].file
      <4>1. m + 1 \in 1..Len(W) /\ m + 1 > n  BY <1>1, <3>2
      <4> QED  BY <4>1, <3>1, <1>1, <1>6 DEF LastOf
    <3>3. LastOf(n - 1, V)  BY <3>2 DEF LastOf
    <3> QED  BY <3>1, <3>3 DEF Good
  <2> QED  BY <2>1, <2>2
<1>7. ASSUME NEW n \in 1..Len(W), W[n].file = "sign"
      PROVE  PointsIn(W[n].content) \in {PointsIn(old.sign), PointsIn(mem.sign)}
  BY <1>1, <1>2, <1>7 DEF Good
<1>8. ASSUME NEW n \in 1..Len(W), W[n].file = "identity", old.pending \ W[n].content.pending # {},
             NEW m \in 1..Len(W), m > n
      PROVE  W[m].file # "sign"
  <2>1. m # 1 /\ m - 1 \in 1..Len(V) /\ W[m] = V[m - 1]  BY <1>1, <1>2, <1>8
  <2>2. CASE n = 1
    <3>1. ~Awaits("sign", V)  BY <1>1, <1>8, <2>2
    <3> QED  BY <3>1, <2>1 DEF Awaits
  <2>3. CASE n # 1
    <3>1. n - 1 \in 1..Len(V) /\ W[n] = V[n - 1] /\ m - 1 > n - 1  BY <1>1, <1>2, <1>8, <2>3
    <3> QED  BY <3>1, <2>1, <1>8 DEF Good
  <2> QED  BY <2>2, <2>3
<1>9. Good(W, mem, old)  BY <1>6, <1>7, <1>8 DEF Good
<1> QED  BY <1>1, <1>5, <1>9

\* What may be saved before V, and what that adds to the files awaited.
SignFits(x, V, mem, old) ==
  /\ Awaits("sign", V) \/ Alike(x, mem.sign, mem.day)
  /\ PointsIn(x) = PointsIn(old.sign) \/ PointsIn(x) = PointsIn(mem.sign)
IdentityFits(m, p, V, mem, old) ==
  /\ Awaits("identity", V) \/ [map |-> m, pending |-> p] = mem.owed
  /\ old.pending \subseteq p \/ ~Awaits("sign", V)
BindsFits(b, V, mem) == Awaits("binds", V) \/ b = mem.binds
IsOwed(m, p) == m \in [Scenario -> Union \cup {NoOne}] /\ p \in SUBSET (Group \X Scenario)
Before(W, S, V) == W = S \o V
Adds(W, V, g, c) ==
  /\ Awaits("sign", W) <=> (c /\ g = "sign") \/ Awaits("sign", V)
  /\ Awaits("identity", W) <=> (c /\ g = "identity") \/ Awaits("identity", V)
  /\ Awaits("binds", W) <=> (c /\ g = "binds") \/ Awaits("binds", V)

\* The accounts, the identities and the bindings, each under its condition.
LEMMA SignFirst ==
  ASSUME NEW V \in Seq(SaveSet), NEW x \in Accounts, NEW mem, NEW old, NEW c \in BOOLEAN, Good(V, mem, old),
         SignFits(x, V, mem, old),
         NEW W, Before(W, If(c, SaveSign(x)), V)
  PROVE  W \in Seq(SaveSet) /\ Good(W, mem, old) /\ Adds(W, V, "sign", c)
<1>1. CASE c
  <2>1. PICK r : r = [file |-> "sign", content |-> x]  OBVIOUS
  <2>2. r \in SaveSet /\ r.file = "sign" /\ r.content = x  BY <2>1 DEF SaveSet
  <2>3. W = <<r>> \o V  BY <1>1, <2>1 DEF If, SaveSign, Before
  <2>4. Awaits(r.file, V) \/ Matches(r.file, r.content, mem)  BY <2>2 DEF Matches, SignFits
  <2>5. PointsIn(r.content) \in {PointsIn(old.sign), PointsIn(mem.sign)} /\ r.file # "identity"
    BY <2>2 DEF SignFits
  <2>6. W \in Seq(SaveSet) /\ Good(W, mem, old) /\ \A f : Awaits(f, W) <=> r.file = f \/ Awaits(f, V)
    BY <2>2, <2>3, <2>4, <2>5, Prepend
  <2> QED  BY <1>1, <2>2, <2>6 DEF Adds
<1>2. CASE ~c
  <2>1. W = V  BY <1>2, ConcatEmptySeq DEF If, Before
  <2> QED  BY <2>1, <1>2 DEF Adds
<1> QED  BY <1>1, <1>2

LEMMA IdentityFirst ==
  ASSUME NEW V \in Seq(SaveSet), NEW m, NEW p, IsOwed(m, p),
         NEW mem, NEW old, NEW c \in BOOLEAN, Good(V, mem, old),
         IdentityFits(m, p, V, mem, old),
         NEW W, Before(W, If(c, SaveIdentity(m, p)), V)
  PROVE  W \in Seq(SaveSet) /\ Good(W, mem, old) /\ Adds(W, V, "identity", c)
<1>1. CASE c
  <2>1. PICK r : r = [file |-> "identity", content |-> [map |-> m, pending |-> p]]  OBVIOUS
  <2>2. r \in SaveSet /\ r.file = "identity" /\ r.content = [map |-> m, pending |-> p] /\ r.content.pending = p
    BY <2>1 DEF SaveSet, IdentityFile, IsOwed
  <2>3. W = <<r>> \o V  BY <1>1, <2>1 DEF If, SaveIdentity, Before
  <2>4. Awaits(r.file, V) \/ Matches(r.file, r.content, mem)  BY <2>2 DEF Matches, IdentityFits
  <2>5. r.file # "sign"  BY <2>2
  <2>6. old.pending \ r.content.pending # {} => ~Awaits("sign", V)
    BY <2>2 DEF IdentityFits
  <2>7. W \in Seq(SaveSet) /\ Good(W, mem, old) /\ \A f : Awaits(f, W) <=> r.file = f \/ Awaits(f, V)
    BY <2>2, <2>3, <2>4, <2>5, <2>6, Prepend
  <2> QED  BY <1>1, <2>2, <2>7 DEF Adds
<1>2. CASE ~c
  <2>1. W = V  BY <1>2, ConcatEmptySeq DEF If, Before
  <2> QED  BY <2>1, <1>2 DEF Adds
<1> QED  BY <1>1, <1>2

LEMMA BindsFirst ==
  ASSUME NEW V \in Seq(SaveSet), NEW b \in BindsFile, NEW mem, NEW old, NEW c \in BOOLEAN, Good(V, mem, old),
         BindsFits(b, V, mem),
         NEW W, Before(W, If(c, SaveBinds(b)), V)
  PROVE  W \in Seq(SaveSet) /\ Good(W, mem, old) /\ Adds(W, V, "binds", c)
<1>1. CASE c
  <2>1. PICK r : r = [file |-> "binds", content |-> b]  OBVIOUS
  <2>2. r \in SaveSet /\ r.file = "binds" /\ r.content = b  BY <2>1 DEF SaveSet
  <2>3. W = <<r>> \o V  BY <1>1, <2>1 DEF If, SaveBinds, Before
  <2>4. Awaits(r.file, V) \/ Matches(r.file, r.content, mem)  BY <2>2 DEF Matches, BindsFits
  <2>5. r.file # "sign" /\ r.file # "identity"  BY <2>2
  <2>6. W \in Seq(SaveSet) /\ Good(W, mem, old) /\ \A f : Awaits(f, W) <=> r.file = f \/ Awaits(f, V)
    BY <2>2, <2>3, <2>4, <2>5, Prepend
  <2> QED  BY <1>1, <2>2, <2>6 DEF Adds
<1>2. CASE ~c
  <2>1. W = V  BY <1>2, ConcatEmptySeq DEF If, Before
  <2> QED  BY <2>1, <1>2 DEF Adds
<1> QED  BY <1>1, <1>2

\* One save alone.
LEMMA SaveOne ==
  ASSUME NEW r \in SaveSet, NEW mem, NEW old, Matches(r.file, r.content, mem),
         r.file = "sign" => PointsIn(r.content) \in {PointsIn(old.sign), PointsIn(mem.sign)},
         NEW W, W = <<r>>
  PROVE  W \in Seq(SaveSet) /\ Good(W, mem, old) /\ \A f : Awaits(f, W) <=> r.file = f
<1>1. W = <<r>> \o <<>>  OBVIOUS
<1>2. ~Awaits("sign", <<>>) /\ <<>> \in Seq(SaveSet) /\ Good(<<>>, mem, old) /\ \A f : ~Awaits(f, <<>>)
  BY NothingToSave
<1> QED  BY <1>1, <1>2, Prepend

-----------------------------------------------------------------------------
(* What every handler, every write and every crash does to the files *)

LEMMA LoadedTypes ==
  ASSUME DiskType
  PROVE  /\ LoadSign(disk) \in Accounts /\ LoadIdentity(disk) \in IdentityFile
         /\ LoadBinds(disk) \in BindsFile
<1>1. [a \in Account |-> Blank] \in Accounts  BY BlankType DEF Accounts
<1>2. [map |-> [s \in Scenario |-> NoOne], pending |-> {}] \in IdentityFile  BY DEF IdentityFile
<1>3. [i \in Id |-> NoOne] \in BindsFile  BY DEF BindsFile
<1> QED  BY <1>1, <1>2, <1>3 DEF DiskType, LoadSign, LoadIdentity, LoadBinds

\* With nothing to save, a restart finds the memory.
LEMMA QuietIsKept ==
  ASSUME StorageInv, writes = <<>>
  PROVE  /\ Alike(LoadSign(disk), sign, today)
         /\ LoadIdentity(disk) = [map |-> identity, pending |-> pending]
         /\ LoadBinds(disk) = binds
<1>1. \A f \in File : Matches(f, Loaded(f, disk), Memory)
  BY NothingToSave DEF StorageInv, DiskHolds
<1>2. Matches("sign", LoadSign(disk), Memory)  BY <1>1 DEF File, Loaded
<1>3. Matches("identity", LoadIdentity(disk), Memory)  BY <1>1 DEF File, Loaded
<1>4. Matches("binds", LoadBinds(disk), Memory)  BY <1>1 DEF File, Loaded
<1> QED  BY <1>2, <1>3, <1>4 DEF Matches, Memory

\* A handler that saves what it changes, in the right order.
LEMMA HandlerKeeps ==
  ASSUME StorageInv, TypeOK', writes = <<>>, UNCHANGED <<disk, cut, crashes, today>>,
         before' = IF writes' = <<>> THEN Now' ELSE Now,
         writes' \in Seq(SaveSet), Good(writes', Memory', Now),
         Awaits("sign", writes') \/ Alike(sign, sign', today),
         Awaits("identity", writes') \/ (identity' = identity /\ pending' = pending),
         Awaits("binds", writes') \/ binds' = binds
  PROVE  StorageInv'
<1>1. PICK mem : mem = Memory'  OBVIOUS
<1>2. mem.sign = sign' /\ mem.owed = [map |-> identity', pending |-> pending'] /\ mem.binds = binds' /\ mem.day = today
  BY <1>1 DEF Memory
<1>3. sign \in Accounts /\ sign' \in Accounts  BY DEF StorageInv, TypeOK, Accounts
<1>4. DiskType'
  <2>1. ~cut  BY DEF StorageInv, DiskType
  <2>2. Now \in [sign : Accounts, pending : SUBSET (Group \X Scenario)]
        /\ Now' \in [sign : Accounts, pending : SUBSET (Group \X Scenario)]
    BY DEF StorageInv, TypeOK, Accounts, Now
  <2> QED  BY <2>1, <2>2 DEF StorageInv, DiskType
<1>5. PICK old : old = before'  OBVIOUS
<1>6. Good(writes', mem, old)
  <2>1. CASE writes' = <<>>  BY <2>1, NothingToSave
  <2>2. CASE writes' # <<>>  BY <2>2, <1>1, <1>5
  <2> QED  BY <2>1, <2>2
<1>7. \A f \in File : ~Awaits(f, writes') => Matches(f, Loaded(f, disk), mem)
  <2>1. ~Awaits("sign", writes') => Matches("sign", LoadSign(disk), mem)
    BY QuietIsKept, AlikeBoth, <1>2 DEF Matches
  <2>2. ~Awaits("identity", writes') => Matches("identity", LoadIdentity(disk), mem)
    BY QuietIsKept, <1>2 DEF Matches
  <2>3. ~Awaits("binds", writes') => Matches("binds", LoadBinds(disk), mem)
    BY QuietIsKept, <1>2 DEF Matches
  <2> QED  BY <2>1, <2>2, <2>3 DEF File, Loaded
<1>8. ASSUME disk.sign # Torn PROVE PointsIn(disk.sign) \in {PointsIn(old.sign), PointsIn(mem.sign)}
  <2>1. LoadSign(disk) = disk.sign /\ disk.sign \in Accounts
    BY <1>8 DEF StorageInv, DiskType, LoadSign
  <2>2. PointsIn(disk.sign) = PointsIn(sign)  BY <2>1, <1>3, QuietIsKept, AlikeSums
  <2>3. CASE writes' # <<>>
    <3>1. old.sign = sign  BY <2>3, <1>5 DEF Now
    <3> QED  BY <2>2, <3>1
  <2>4. CASE writes' = <<>>
    <3>1. Alike(sign, sign', today)  BY <2>4, NothingToSave
    <3>2. PointsIn(sign) = PointsIn(sign')  BY <3>1, <1>3, AlikeSums
    <3> QED  BY <2>2, <3>2, <1>2
  <2> QED  BY <2>3, <2>4
<1>9. ASSUME disk.identity # Torn PROVE old.pending \ disk.identity.pending = {}
  <2>1. LoadIdentity(disk) = disk.identity  BY <1>9 DEF LoadIdentity
  <2>2. disk.identity.pending = pending  BY <2>1, QuietIsKept
  <2>3. CASE writes' # <<>>
    <3>1. old.pending = pending  BY <2>3, <1>5 DEF Now
    <3> QED  BY <2>2, <3>1
  <2>4. CASE writes' = <<>>
    <3>1. pending' = pending  BY <2>4, NothingToSave
    <3>2. old.pending = pending'  BY <2>4, <1>5 DEF Now
    <3> QED  BY <2>2, <3>1, <3>2
  <2> QED  BY <2>3, <2>4
<1>10. DiskHolds(disk', writes', mem, old)
  BY <1>7, <1>8, <1>9 DEF DiskHolds
<1> QED  BY <1>1, <1>4, <1>5, <1>6, <1>10 DEF StorageInv

LEMMA TruncateKeeps == ASSUME StorageInv, Truncate PROVE StorageInv'
<1>1. PICK h : h = Head(writes)  OBVIOUS
<1>2. h \in SaveSet /\ h.file \in File /\ h = writes[1] /\ 1 \in 1..Len(writes)
  <2>1. writes \in Seq(SaveSet) /\ writes # <<>>  BY DEF Truncate, StorageInv, DiskType
  <2>2. h = writes[1] /\ 1 \in 1..Len(writes)  BY <2>1, <1>1
  <2>3. h \in SaveSet  BY <2>1, <1>1, HeadTailProperties
  <2> QED  BY <2>2, <2>3 DEF SaveSet, File
<1>3. /\ disk' = [disk EXCEPT ![h.file] = Torn] /\ UNCHANGED <<vars, writes, crashes, before>> /\ cut' = TRUE
      /\ writes # <<>>
  BY <1>1 DEF Truncate
<1>4. DOMAIN disk' = File /\ disk' = [f \in File |-> disk'[f]] /\ disk'[h.file] = Torn
      /\ \A f \in File : f # h.file => disk'[f] = disk[f]
  BY <1>2, <1>3 DEF StorageInv, DiskType
<1>5. TypeOK'  BY <1>3 DEF vars, StorageInv, TypeOK
<1>6. DiskType'
  <2>1. disk'.sign \in Accounts \cup {Torn} /\ disk'.identity \in IdentityFile \cup {Torn}
        /\ disk'.binds \in BindsFile \cup {Torn}
    BY <1>4 DEF StorageInv, DiskType, File
  <2> QED  BY <2>1, <1>1, <1>3, <1>4 DEF StorageInv, DiskType
<1>7. PICK mem : mem = Memory  OBVIOUS
<1>8. Memory' = mem  BY <1>3, <1>7 DEF Memory, vars
<1>9. Good(writes, mem, before) /\ DiskHolds(disk, writes, mem, before)  BY <1>7 DEF StorageInv
<1>10. Awaits(h.file, writes)  BY <1>2 DEF Awaits
<1>11. ASSUME NEW f \in File, ~Awaits(f, writes) PROVE Matches(f, Loaded(f, disk'), mem)
  <2>1. f # h.file  BY <1>10, <1>11
  <2>2. disk'[f] = disk[f]  BY <1>4, <2>1
  <2>3. Loaded(f, disk') = Loaded(f, disk)
    BY <2>2 DEF File, Loaded, LoadSign, LoadIdentity, LoadBinds
  <2> QED  BY <2>3, <1>9, <1>11 DEF DiskHolds
<1>12. disk'.sign # Torn => disk'.sign = disk.sign  BY <1>2, <1>4 DEF File
<1>13. disk'.identity # Torn => disk'.identity = disk.identity  BY <1>2, <1>4 DEF File
<1>14. DiskHolds(disk', writes, mem, before)  BY <1>9, <1>11, <1>12, <1>13 DEF DiskHolds
<1> QED  BY <1>3, <1>5, <1>6, <1>8, <1>9, <1>14 DEF StorageInv

LEMMA WrittenKeeps == ASSUME StorageInv, Written PROVE StorageInv'
<1>1. PICK h, rest : h = Head(writes) /\ rest = Tail(writes)  OBVIOUS
<1>2. /\ writes \in Seq(SaveSet) /\ writes # <<>> /\ Len(writes) \in Nat
      /\ h \in SaveSet /\ h = writes[1] /\ 1 \in 1..Len(writes)
      /\ rest \in Seq(SaveSet) /\ Len(rest) = Len(writes) - 1
      /\ \A n \in 1..Len(rest) : rest[n] = writes[n + 1]
  <2>1. writes \in Seq(SaveSet) /\ writes # <<>>  BY DEF Written, StorageInv, DiskType
  <2> QED  BY <2>1, <1>1, HeadTailProperties
<1>3. /\ disk' = [disk EXCEPT ![h.file] = h.content] /\ writes' = rest /\ cut' = FALSE
      /\ before' = (IF rest = <<>> THEN Now ELSE before) /\ UNCHANGED <<vars, crashes>>
  BY <1>1 DEF Written
<1>4. /\ h.file \in File
      /\ h.file = "sign" => h.content \in Accounts
      /\ h.file = "identity" => h.content \in IdentityFile
      /\ h.file = "binds" => h.content \in BindsFile
  BY <1>2 DEF SaveSet, File
<1>5. DOMAIN disk' = File /\ disk' = [f \in File |-> disk'[f]] /\ disk'[h.file] = h.content
      /\ \A f \in File : f # h.file => disk'[f] = disk[f]
  BY <1>3, <1>4 DEF StorageInv, DiskType
<1>6. TypeOK'  BY <1>3 DEF vars, StorageInv, TypeOK
<1>7. DiskType'
  <2>1. disk'.sign \in Accounts \cup {Torn} /\ disk'.identity \in IdentityFile \cup {Torn}
        /\ disk'.binds \in BindsFile \cup {Torn}
    BY <1>4, <1>5 DEF StorageInv, DiskType, File
  <2>2. Now \in [sign : Accounts, pending : SUBSET (Group \X Scenario)]
    BY DEF StorageInv, TypeOK, Accounts, Now
  <2>3. before' \in [sign : Accounts, pending : SUBSET (Group \X Scenario)]
    BY <2>2, <1>3 DEF StorageInv, DiskType
  <2>4. crashes' \in 0..MaxCrash  BY <1>3 DEF StorageInv, DiskType
  <2>5. writes' \in Seq(SaveSet) /\ cut' = FALSE  BY <1>2, <1>3
  <2> QED  BY <2>1, <2>3, <2>4, <2>5, <1>5 DEF DiskType
<1>8. PICK mem, old : mem = Memory /\ old = before'  OBVIOUS
<1>9. Memory' = mem  BY <1>3, <1>8 DEF Memory, vars
<1>10. Good(writes, mem, before) /\ DiskHolds(disk, writes, mem, before)  BY <1>8 DEF StorageInv
<1>11. \A n \in 1..Len(rest) : n + 1 \in 1..Len(writes) /\ n + 1 > 1  BY <1>2
<1>12. \A n \in 1..Len(writes) : n > 1 => n - 1 \in 1..Len(rest) /\ rest[n - 1] = writes[n]
  <2>1. ASSUME NEW n \in 1..Len(writes), n > 1 PROVE n - 1 \in 1..Len(rest) /\ rest[n - 1] = writes[n]
    <3>1. n - 1 \in 1..Len(rest) /\ (n - 1) + 1 = n  BY <1>2, <2>1
    <3> QED  BY <1>2, <3>1
  <2> QED  BY <2>1
<1>13. Good(rest, mem, before)
  <2>1. ASSUME NEW n \in 1..Len(rest), LastOf(n, rest) PROVE Matches(rest[n].file, rest[n].content, mem)
    <3>1. ASSUME NEW m \in 1..Len(writes), m > n + 1 PROVE writes[m].file # writes[n + 1].file
      <4>1. m > 1 /\ m - 1 > n  BY <1>2, <3>1
      <4>2. m - 1 \in 1..Len(rest) /\ rest[m - 1] = writes[m]  BY <1>12, <4>1
      <4> QED  BY <2>1, <4>1, <4>2, <1>2 DEF LastOf
    <3>2. LastOf(n + 1, writes)  BY <3>1 DEF LastOf
    <3> QED  BY <3>2, <1>2, <1>10, <1>11 DEF Good
  <2>2. ASSUME NEW n \in 1..Len(rest), rest[n].file = "sign"
        PROVE  PointsIn(rest[n].content) \in {PointsIn(before.sign), PointsIn(mem.sign)}
    BY <2>2, <1>2, <1>10, <1>11 DEF Good
  <2>3. ASSUME NEW n \in 1..Len(rest), rest[n].file = "identity",
               before.pending \ rest[n].content.pending # {}, NEW m \in 1..Len(rest), m > n
        PROVE  rest[m].file # "sign"
    <3>1. m + 1 > n + 1  BY <1>2, <2>3
    <3> QED  BY <3>1, <2>3, <1>2, <1>10, <1>11 DEF Good
  <2> QED  BY <2>1, <2>2, <2>3 DEF Good
<1>14. Good(rest, mem, old)
  <2>1. CASE rest = <<>>  BY <2>1, NothingToSave
  <2>2. CASE rest # <<>>  BY <2>2, <1>3, <1>8, <1>13
  <2> QED  BY <2>1, <2>2
<1>15. ASSUME NEW f \in File, ~Awaits(f, rest) PROVE Matches(f, Loaded(f, disk'), mem)
  <2>1. CASE f = h.file
    <3>1. LastOf(1, writes)  BY <2>1, <1>2, <1>12, <1>15 DEF LastOf, Awaits
    <3>2. Matches(f, h.content, mem)  BY <3>1, <2>1, <1>2, <1>10 DEF Good
    <3>3. Loaded(f, disk') = h.content
      BY <2>1, <1>4, <1>5, StorageAssumption DEF File, Loaded, LoadSign, LoadIdentity, LoadBinds
    <3> QED  BY <3>2, <3>3
  <2>2. CASE f # h.file
    <3>1. disk'[f] = disk[f]  BY <1>5, <2>2
    <3>2. Loaded(f, disk') = Loaded(f, disk)
      BY <3>1 DEF File, Loaded, LoadSign, LoadIdentity, LoadBinds
    <3>3. ~Awaits(f, writes)
      <4>1. ASSUME NEW n \in 1..Len(writes), writes[n].file = f PROVE FALSE
        <5>1. n > 1  BY <4>1, <2>2, <1>2
        <5> QED  BY <5>1, <4>1, <1>12, <1>15 DEF Awaits
      <4> QED  BY <4>1 DEF Awaits
    <3> QED  BY <3>2, <3>3, <1>10 DEF DiskHolds
  <2> QED  BY <2>1, <2>2
<1>16. ASSUME disk'.sign # Torn PROVE PointsIn(disk'.sign) \in {PointsIn(old.sign), PointsIn(mem.sign)}
  <2>1. PointsIn(disk'.sign) \in {PointsIn(before.sign), PointsIn(mem.sign)}
    <3>1. CASE h.file = "sign"
      BY <3>1, <1>2, <1>5, <1>10 DEF Good
    <3>2. CASE h.file # "sign"
      BY <3>2, <1>5, <1>10, <1>16 DEF DiskHolds, File
    <3> QED  BY <3>1, <3>2
  <2>2. CASE rest # <<>>  BY <2>1, <2>2, <1>3, <1>8
  <2>3. CASE rest = <<>>
    <3>1. Matches("sign", LoadSign(disk'), mem)
      BY <2>3, <1>15, NothingToSave DEF File, Loaded
    <3>2. mem.sign = sign /\ mem.day = today  BY <1>8 DEF Memory
    <3>3. LoadSign(disk') = disk'.sign /\ disk'.sign \in Accounts /\ sign \in Accounts
      BY <1>7, <1>16 DEF LoadSign, DiskType, StorageInv, TypeOK, Accounts
    <3>4. PointsIn(disk'.sign) = PointsIn(sign)
      BY <3>1, <3>2, <3>3, AlikeSums DEF Matches
    <3> QED  BY <3>2, <3>4
  <2> QED  BY <2>2, <2>3
<1>17. ASSUME disk'.identity # Torn, old.pending \ disk'.identity.pending # {} PROVE ~Awaits("sign", rest)
  <2>1. CASE rest = <<>>  BY <2>1, NothingToSave
  <2>2. CASE rest # <<>>
    <3>1. old = before  BY <2>2, <1>3, <1>8
    <3>2. CASE h.file = "identity"
      <4>1. \A m \in 1..Len(writes) : m > 1 => writes[m].file # "sign"
        BY <3>1, <3>2, <1>2, <1>5, <1>10, <1>17 DEF Good
      <4> QED  BY <4>1, <1>2, <1>11 DEF Awaits
    <3>3. CASE h.file # "identity"
      <4>1. disk'.identity = disk.identity  BY <3>3, <1>5 DEF File
      <4>2. ~Awaits("sign", writes)  BY <4>1, <3>1, <1>10, <1>17 DEF DiskHolds
      <4> QED  BY <4>2, <1>2, <1>11 DEF Awaits
    <3> QED  BY <3>2, <3>3
  <2> QED  BY <2>1, <2>2
<1>18. DiskHolds(disk', rest, mem, old)  BY <1>15, <1>16, <1>17 DEF DiskHolds
<1> QED  BY <1>3, <1>6, <1>7, <1>8, <1>9, <1>14, <1>18 DEF StorageInv

LEMMA CrashKeeps == ASSUME StorageInv, Crash PROVE StorageInv'
<1>1. /\ sign' = LoadSign(disk) /\ binds' = LoadBinds(disk)
      /\ identity' = LoadIdentity(disk).map /\ pending' = LoadIdentity(disk).pending
      /\ writes' = <<>> /\ cut' = FALSE /\ before' = Now' /\ today' = today /\ disk' = disk
      /\ crashes < MaxCrash /\ crashes' = crashes + 1
  BY DEF Crash
<1>2. LoadSign(disk) \in Accounts /\ LoadIdentity(disk) \in IdentityFile /\ LoadBinds(disk) \in BindsFile
  BY LoadedTypes DEF StorageInv
<1>3. TypeOK'
  <2>1. today \in 1..MaxDay  BY DEF StorageInv, TypeOK
  <2> QED  BY <1>1, <1>2, <2>1 DEF TypeOK, Accounts, IdentityFile, BindsFile
<1>4. crashes' \in 0..MaxCrash
  <2>1. crashes \in 0..MaxCrash /\ MaxCrash \in Nat  BY StorageAssumption DEF StorageInv, DiskType
  <2> QED  BY <2>1, <1>1
<1>5. DiskType'
  <2>1. before' \in [sign : Accounts, pending : SUBSET (Group \X Scenario)]
    BY <1>1, <1>3 DEF Now, TypeOK, Accounts
  <2> QED  BY <2>1, <1>1, <1>4, NothingToSave DEF StorageInv, DiskType
<1>6. PICK mem, old : mem = Memory' /\ old = before'  OBVIOUS
<1>7. /\ mem.sign = LoadSign(disk) /\ mem.owed = LoadIdentity(disk) /\ mem.binds = LoadBinds(disk)
      /\ old.sign = LoadSign(disk)
  <2>1. LoadIdentity(disk) = [map |-> LoadIdentity(disk).map, pending |-> LoadIdentity(disk).pending]
    BY <1>2 DEF IdentityFile
  <2> QED  BY <2>1, <1>1, <1>6 DEF Memory, Now
<1>8. DiskHolds(disk, <<>>, mem, old)
  <2>1. \A f \in File : Matches(f, Loaded(f, disk), mem)
    BY <1>7, AlikeSelf DEF File, Loaded, Matches
  <2>2. disk.sign # Torn => disk.sign = mem.sign  BY <1>7 DEF LoadSign
  <2> QED  BY <2>1, <2>2, NothingToSave DEF DiskHolds
<1>9. Good(<<>>, mem, old)  BY NothingToSave
<1> QED  BY <1>1, <1>3, <1>5, <1>6, <1>8, <1>9 DEF StorageInv

LEMMA InitKeeps == StorageInit => StorageInv
<1> SUFFICES ASSUME StorageInit PROVE StorageInv
  OBVIOUS
<1>1. TypeOK  BY InitType DEF StorageInit
<1>2. /\ disk = [f \in File |-> Torn] /\ writes = <<>> /\ cut = FALSE /\ crashes = 0 /\ before = Now
      /\ sign = [a \in Account |-> Blank] /\ identity = [s \in Scenario |-> NoOne]
      /\ binds = [i \in Id |-> NoOne] /\ pending = {}
  BY DEF StorageInit, Init
<1>3. disk.sign = Torn /\ disk.identity = Torn /\ disk.binds = Torn /\ DOMAIN disk = File
      /\ disk = [f \in File |-> disk[f]]
  BY <1>2 DEF File
<1>4. DiskType
  <2>1. before \in [sign : Accounts, pending : SUBSET (Group \X Scenario)]
    BY <1>1, <1>2 DEF Now, TypeOK, Accounts
  <2>2. crashes \in 0..MaxCrash  BY <1>2, StorageAssumption
  <2>3. writes \in Seq(SaveSet)  BY <1>2
  <2>4. cut \in BOOLEAN /\ ~cut  BY <1>2, Zenon
  <2> QED  BY <2>1, <2>2, <2>3, <2>4, <1>3 DEF DiskType
<1>5. Good(writes, Memory, before)  BY <1>2, NothingToSave
<1>6. \A f \in File : Matches(f, Loaded(f, disk), Memory)
  BY <1>2, <1>3, AlikeSelf DEF File, Loaded, Matches, Memory, LoadSign, LoadIdentity, LoadBinds
<1>7. DiskHolds(disk, writes, Memory, before)  BY <1>3, <1>6 DEF DiskHolds
<1> QED  BY <1>1, <1>4, <1>5, <1>7 DEF StorageInv

\* The invariant is strong enough.
LEMMA InvIsSafe == StorageInv => StorageSafe
<1> SUFFICES ASSUME StorageInv PROVE StorageSafe
  OBVIOUS
<1>1. Alike(LoadSign(disk), sign, today) => AccountsKept
  BY DEF Alike, AccountsKept, Lasting, CountToday
<1>2. StorageTypeOK
  <2>1. \A n \in DOMAIN writes : writes[n].file \in File
    <3>1. \A n \in DOMAIN writes : writes[n] \in SaveSet  BY DEF StorageInv, DiskType
    <3>2. \A r \in SaveSet : r.file \in File  BY DEF SaveSet, File
    <3> QED  BY <3>1, <3>2
  <2> QED  BY <2>1 DEF StorageInv, DiskType, StorageTypeOK
<1>3. HandledIsKept  BY <1>1, QuietIsKept DEF HandledIsKept
<1>4. BeforeOrAfter  BY DEF StorageInv, DiskHolds, Memory, BeforeOrAfter
<1>5. OwedUntilPaid
  <2> SUFFICES ASSUME disk.identity # Torn, before.pending \ disk.identity.pending # {} PROVE AccountsKept
    BY DEF OwedUntilPaid
  <2>1. ~Awaits("sign", writes)  BY DEF StorageInv, DiskHolds
  <2>2. Matches("sign", LoadSign(disk), Memory)  BY <2>1 DEF StorageInv, DiskHolds, File, Loaded
  <2> QED  BY <2>2, <1>1 DEF Matches, Memory
<1> QED  BY <1>2, <1>3, <1>4, <1>5 DEF StorageSafe

-----------------------------------------------------------------------------
(* The handlers save what they change *)

\* A settlement that pays nothing need not be saved.
LEMMA UnpaidAlike ==
  ASSUME NEW x \in Accounts, NEW b \in Account, NEW g, today \in Nat, AwardReason(x[b], g) # "ok",
         NEW y, y = [x EXCEPT ![b] = Awarded(x[b], g)]
  PROVE  Alike(x, y, today)
<1>1. PICK u : u = x[b]  OBVIOUS
<1>2. u \in Record  BY <1>1 DEF Accounts
<1>3. Awarded(u, g) \in {[u EXCEPT !.known = TRUE],
                         [u EXCEPT !.known = TRUE, !.addLast = today, !.addCount = CountToday(u)]}
  BY <1>1 DEF Awarded, AwardReason
<1>4. PICK w : w = Awarded(u, g)  OBVIOUS
<1>5. w.points = u.points /\ w.streak = u.streak /\ w.last = u.last /\ w.rewarded = u.rewarded
  BY <1>2, <1>3, <1>4 DEF Record
<1>6. \/ w.addLast = u.addLast /\ w.addCount = u.addCount
      \/ w.addLast = today /\ w.addCount = CountToday(u)
  BY <1>2, <1>3, <1>4 DEF Record
<1>7. (IF u.addLast = today THEN u.addCount ELSE 0) = (IF w.addLast = today THEN w.addCount ELSE 0)
  BY <1>6 DEF CountToday
<1>8. y[b] = w /\ \A a \in Account \ {b} : y[a] = x[a]  BY <1>1, <1>4 DEF Accounts
<1> QED  BY <1>1, <1>5, <1>7, <1>8 DEF Alike

\* Learning a union from an account without points need not be saved either.
LEMMA LearningAlike ==
  ASSUME TypeOK, NEW s \in Scenario, NEW i \in NamedBy(s),
         ~(Learns(s, i) /\ Mergeable(sign[s]) /\ sign[s].points > 0)
  PROVE  Alike(sign, SignAfter(s, i), today)
<1>1. s \in Account /\ i \in Account  BY LearningType DEF Account, Id
<1>2. \A a \in Account : sign[a] \in Record /\ sign[a].points \in Nat  BY DEF TypeOK, Record
<1>3. CASE ~Learns(s, i)
  BY <1>3, AlikeSelf DEF SignAfter
<1>4. CASE Learns(s, i) /\ Mergeable(sign[s])
  <2>1. i # s  BY <1>4, KindsDisjoint DEF Learns
  <2>2. sign[s].points = 0  BY <1>1, <1>2, <1>4
  <2>3. PICK y : y = SignAfter(s, i)  OBVIOUS
  <2>4. y = [sign EXCEPT ![i] = Receives(sign[i], 0), ![s] = Drained(sign[s], i)]
    BY <1>4, <2>1, <2>2, <2>3, <1>1 DEF SignAfter, TypeOK
  <2>5. y[i] = Receives(sign[i], 0) /\ y[s] = Drained(sign[s], i) /\ \A a \in Account \ {i, s} : y[a] = sign[a]
    BY <2>1, <2>4, <1>1 DEF TypeOK
  <2>6. /\ y[i].points = sign[i].points /\ y[i].streak = sign[i].streak /\ y[i].last = sign[i].last
        /\ y[i].rewarded = sign[i].rewarded /\ y[i].addLast = sign[i].addLast /\ y[i].addCount = sign[i].addCount
    BY <2>5, <1>1, <1>2 DEF Receives, Record
  <2>7. /\ y[s].points = sign[s].points /\ y[s].streak = sign[s].streak /\ y[s].last = sign[s].last
        /\ y[s].rewarded = sign[s].rewarded /\ y[s].addLast = sign[s].addLast /\ y[s].addCount = sign[s].addCount
    BY <2>2, <2>5, <1>1, <1>2 DEF Drained, Record
  <2> QED  BY <2>3, <2>5, <2>6, <2>7 DEF Alike
<1>5. CASE Learns(s, i) /\ ~Mergeable(sign[s])
  <2>1. PICK y : y = SignAfter(s, i)  OBVIOUS
  <2>2. y = [sign EXCEPT ![i] = Receives(sign[i], 0)]  BY <1>5, <2>1 DEF SignAfter
  <2>3. y[i] = Receives(sign[i], 0) /\ \A a \in Account \ {i} : y[a] = sign[a]
    BY <2>2, <1>1 DEF TypeOK
  <2>4. /\ y[i].points = sign[i].points /\ y[i].streak = sign[i].streak /\ y[i].last = sign[i].last
        /\ y[i].rewarded = sign[i].rewarded /\ y[i].addLast = sign[i].addLast /\ y[i].addCount = sign[i].addCount
    BY <2>3, <1>1, <1>2 DEF Receives, Record
  <2> QED  BY <2>1, <2>3, <2>4 DEF Alike
<1> QED  BY <1>3, <1>4, <1>5

\* The bindings and the identities of memory, with every reward owed so far.
Kept(b, m, p, V, mem, old) ==
  /\ b = mem.binds /\ old.pending \subseteq p
  /\ Awaits("identity", V) \/ [map |-> m, pending |-> p] = mem.owed
  /\ m \in [Scenario -> Union \cup {NoOne}] /\ p \in SUBSET (Group \X Scenario)
LEMMA KeptFits ==
  ASSUME NEW b, NEW m, NEW p, NEW V, NEW mem, NEW old, Kept(b, m, p, V, mem, old),
         NEW V3, NEW c \in BOOLEAN, Adds(V3, V, "sign", c)
  PROVE  IsOwed(m, p) /\ IdentityFits(m, p, V3, mem, old) /\ \A V2 : BindsFits(b, V2, mem)
  BY DEF Kept, IsOwed, IdentityFits, BindsFits, Adds

\* The three saves of learn: the accounts first prepended, then the identities,
\* then the bindings.
LEMMA ThreeSaves ==
  ASSUME NEW V \in Seq(SaveSet), NEW x \in Accounts, NEW b \in BindsFile, NEW m, NEW p,
         NEW c1 \in BOOLEAN, NEW c2 \in BOOLEAN, NEW c3 \in BOOLEAN, NEW mem, NEW old,
         Good(V, mem, old), SignFits(x, V, mem, old), Kept(b, m, p, V, mem, old),
         NEW V3, Before(V3, If(c3, SaveSign(x)), V),
         NEW V2, Before(V2, If(c2, SaveIdentity(m, p)), V3),
         NEW W, Before(W, If(c1, SaveBinds(b)), V2)
  PROVE  /\ W \in Seq(SaveSet) /\ Good(W, mem, old)
         /\ Adds(V3, V, "sign", c3) /\ Adds(V2, V3, "identity", c2) /\ Adds(W, V2, "binds", c1)
<1>1. V3 \in Seq(SaveSet) /\ Good(V3, mem, old) /\ Adds(V3, V, "sign", c3)
  BY SignFirst
<1>2. V2 \in Seq(SaveSet) /\ Good(V2, mem, old) /\ Adds(V2, V3, "identity", c2)
  <2>1. IdentityFits(m, p, V3, mem, old) /\ IsOwed(m, p)  BY <1>1, KeptFits
  <2> QED  BY <1>1, <2>1, IdentityFirst
<1>3. W \in Seq(SaveSet) /\ Good(W, mem, old) /\ Adds(W, V2, "binds", c1)
  <2>1. BindsFits(b, V2, mem)  BY <1>1, KeptFits
  <2> QED  BY <1>2, <2>1, BindsFirst
<1> QED  BY <1>1, <1>2, <1>3

\* The three saves of learning, before the others of the handler.
LEMMA LearningSaves ==
  ASSUME StorageInv, NEW s \in Scenario, NEW i \in NamedBy(s), TypeOK',
         identity' = IdentityAfter(s, i), binds' = BindsAfter(s, i), today' = today,
         NEW V \in Seq(SaveSet), Good(V, Memory', Now), ~Awaits("binds", V),
         Awaits("sign", V) \/ Alike(SignAfter(s, i), sign', today),
         Awaits("identity", V) \/ pending' = pending,
         NEW W, W = SavedLearning(s, i) \o V
  PROVE  /\ W \in Seq(SaveSet) /\ Good(W, Memory', Now)
         /\ Awaits("sign", W) \/ Alike(sign, sign', today)
         /\ Awaits("identity", W) \/ (identity' = identity /\ pending' = pending)
         /\ Awaits("binds", W) \/ binds' = binds
<1>1. PICK c1, c2, c3 : /\ c1 = (binds' # binds) /\ c2 = Learns(s, i)
                        /\ c3 = (Learns(s, i) /\ Mergeable(sign[s]) /\ sign[s].points > 0)
  OBVIOUS
<1>2. c1 \in BOOLEAN /\ c2 \in BOOLEAN /\ c3 \in BOOLEAN
  BY <1>1 DEF Learns
<1>3. PICK x, b, m : x = SignAfter(s, i) /\ b = binds' /\ m = identity'  OBVIOUS
<1>4. SavedLearning(s, i) = (If(c1, SaveBinds(b)) \o If(c2, SaveIdentity(m, pending))) \o If(c3, SaveSign(x))
  BY <1>1, <1>3 DEF SavedLearning
<1>5. /\ x \in Accounts /\ b \in BindsFile /\ m \in [Scenario -> Union \cup {NoOne}]
      /\ pending \in SUBSET (Group \X Scenario)
  <2>1. binds' \in BindsFile /\ identity' \in [Scenario -> Union \cup {NoOne}]  BY DEF TypeOK, BindsFile
  <2>2. SignAfter(s, i) \in Accounts  BY LearningType DEF StorageInv, Accounts
  <2>3. pending \in SUBSET (Group \X Scenario)  BY DEF StorageInv, TypeOK
  <2> QED  BY <2>1, <2>2, <2>3, <1>3
<1>6. PICK S1, S2, S3 : /\ S1 = If(c1, SaveBinds(b)) /\ S2 = If(c2, SaveIdentity(m, pending))
                        /\ S3 = If(c3, SaveSign(x))
  OBVIOUS
<1>7. S1 \in Seq(SaveSet) /\ S2 \in Seq(SaveSet) /\ S3 \in Seq(SaveSet)
  <2>1. SaveBinds(b) \in Seq(SaveSet)  BY <1>5 DEF SaveBinds, SaveSet
  <2>2. SaveIdentity(m, pending) \in Seq(SaveSet)  BY <1>5 DEF SaveIdentity, SaveSet, IdentityFile
  <2>3. SaveSign(x) \in Seq(SaveSet)  BY <1>5 DEF SaveSign, SaveSet
  <2>4. <<>> \in Seq(SaveSet)  OBVIOUS
  <2> QED  BY <2>1, <2>2, <2>3, <2>4, <1>6 DEF If
<1>8. W = S1 \o (S2 \o (S3 \o V))
  <2>1. W = ((S1 \o S2) \o S3) \o V  BY <1>4, <1>6
  <2>2. S1 \o S2 \in Seq(SaveSet) /\ S3 \o V \in Seq(SaveSet)  BY <1>7, ConcatProperties
  <2>3. ((S1 \o S2) \o S3) \o V = (S1 \o S2) \o (S3 \o V)  BY SMTT(60), <2>2, <1>7, ConcatAssociative
  <2>4. PICK T : T = S3 \o V  OBVIOUS
  <2>5. (S1 \o S2) \o T = S1 \o (S2 \o T)
    <3>1. T \in Seq(SaveSet)  BY <2>2, <2>4
    <3> QED  BY SMTT(60), <3>1, <1>7, ConcatAssociative
  <2> QED  BY <2>1, <2>3, <2>4, <2>5
<1>9. PICK mem, old : mem = Memory' /\ old = Now  OBVIOUS
<1>10. /\ mem.sign = sign' /\ mem.owed = [map |-> identity', pending |-> pending'] /\ mem.binds = binds'
       /\ mem.day = today /\ old.sign = sign /\ old.pending = pending
  BY <1>9 DEF Memory, Now
<1>11. PICK V3, V2 : V3 = S3 \o V /\ V2 = S2 \o V3 /\ W = S1 \o V2  BY <1>8
<1>12. PointsIn(x) = PointsIn(old.sign)  BY <1>3, <1>10, LearningConserves DEF StorageInv
<1>13. PICK p \in SUBSET (Group \X Scenario) : p = pending  BY <1>5
<1>14. SignFits(x, V, mem, old) /\ Kept(b, m, p, V, mem, old)
  <2>1. SignFits(x, V, mem, old)  BY <1>3, <1>10, <1>12 DEF SignFits
  <2>2. b = mem.binds  BY <1>3, <1>10
  <2>3. Awaits("identity", V) \/ [map |-> m, pending |-> p] = mem.owed
    <3>1. CASE pending' = pending  BY <3>1, <1>3, <1>10, <1>13
    <3> QED  BY <3>1
  <2>4. old.pending \subseteq p  BY <1>10, <1>13
  <2>5. m \in [Scenario -> Union \cup {NoOne}] /\ p \in SUBSET (Group \X Scenario)  BY <1>5
  <2> QED  BY <2>1, <2>2, <2>3, <2>4, <2>5 DEF Kept
<1>15. /\ W \in Seq(SaveSet) /\ Good(W, mem, old)
       /\ Adds(V3, V, "sign", c3) /\ Adds(V2, V3, "identity", c2) /\ Adds(W, V2, "binds", c1)
  <2>1. /\ Before(V3, If(c3, SaveSign(x)), V) /\ Before(V2, If(c2, SaveIdentity(m, p)), V3)
        /\ Before(W, If(c1, SaveBinds(b)), V2)
    BY <1>6, <1>11, <1>13 DEF Before
  <2>2. Good(V, mem, old)  BY <1>9
  <2>3. x \in Accounts /\ b \in BindsFile  BY <1>5
  <2>4. W \in Seq(SaveSet)
    <3>1. V3 \in Seq(SaveSet)  BY <1>7, <1>11, ConcatProperties
    <3>2. V2 \in Seq(SaveSet)  BY <3>1, <1>7, <1>11, ConcatProperties
    <3> QED  BY <3>2, <1>7, <1>11, ConcatProperties
  <2>8. Good(W, mem, old)  BY <2>1, <2>2, <2>3, <1>2, <1>14, ThreeSaves
  <2>5. Adds(V3, V, "sign", c3)  BY <2>1, <2>2, <2>3, <1>2, <1>14, ThreeSaves
  <2>6. Adds(V2, V3, "identity", c2)  BY <2>1, <2>2, <2>3, <1>2, <1>14, ThreeSaves
  <2>7. Adds(W, V2, "binds", c1)  BY <2>1, <2>2, <2>3, <1>2, <1>14, ThreeSaves
  <2> QED  BY <2>4, <2>5, <2>6, <2>7, <2>8
<1>16. Awaits("sign", W) \/ Alike(sign, sign', today)
  <2> SUFFICES ASSUME ~Awaits("sign", W) PROVE Alike(sign, sign', today)
    OBVIOUS
  <2>1. ~c3 /\ ~Awaits("sign", V)  BY <1>15 DEF Adds
  <2>2. Alike(sign, SignAfter(s, i), today)  BY <2>1, <1>1, LearningAlike DEF StorageInv
  <2> QED  BY <2>1, <2>2, AlikeBoth
<1>17. Awaits("identity", W) \/ (identity' = identity /\ pending' = pending)
  <2> SUFFICES ASSUME ~Awaits("identity", W) PROVE identity' = identity /\ pending' = pending
    OBVIOUS
  <2>1. ~c2 /\ ~Awaits("identity", V)  BY <1>15 DEF Adds
  <2> QED  BY <2>1, <1>1 DEF IdentityAfter
<1>18. Awaits("binds", W) \/ binds' = binds  BY <1>1, <1>15 DEF Adds
<1> QED  BY <1>9, <1>15, <1>16, <1>17, <1>18

\* A handler's memory is a step of the ledger, so it stays well typed.
LEMMA HandlerType == ASSUME StorageInv, Next PROVE TypeOK'
  BY NextType DEF StorageInv

LEMMA PrivateKeeps ==
  ASSUME StorageInv, NEW s \in Scenario, NEW i \in Id, PrivateMessage(s, i) PROVE StorageInv'
<1>1. /\ C2CMessage(s, i) /\ writes = <<>> /\ writes' = SavedLearning(s, i)
      /\ before' = (IF writes' = <<>> THEN Now' ELSE Now) /\ UNCHANGED <<disk, cut, crashes>>
  BY DEF PrivateMessage, Saves
<1>2. /\ i \in NamedBy(s) /\ identity' = IdentityAfter(s, i) /\ binds' = BindsAfter(s, i)
      /\ sign' = SignAfter(s, i) /\ UNCHANGED <<pending, today>>
  BY <1>1 DEF C2CMessage
<1>3. TypeOK'  BY <1>1, HandlerType DEF Next
<1>4. <<>> \in Seq(SaveSet) /\ Good(<<>>, Memory', Now) /\ \A f : ~Awaits(f, <<>>)  BY NothingToSave
<1>5. PICK W : W = SavedLearning(s, i) \o <<>>  OBVIOUS
<1>6. Alike(SignAfter(s, i), sign', today)  BY <1>2, AlikeSelf
<1>7. /\ W \in Seq(SaveSet) /\ Good(W, Memory', Now)
      /\ Awaits("sign", W) \/ Alike(sign, sign', today)
      /\ Awaits("identity", W) \/ (identity' = identity /\ pending' = pending)
      /\ Awaits("binds", W) \/ binds' = binds
  BY <1>2, <1>3, <1>4, <1>5, <1>6, LearningSaves
<1>8. writes' = W
  <2>1. SavedLearning(s, i) \in Seq(SaveSet)
    <3>1. binds' \in BindsFile /\ identity' \in [Scenario -> Union \cup {NoOne}]  BY <1>3 DEF TypeOK, BindsFile
    <3>2. SignAfter(s, i) \in Accounts  BY <1>2, LearningType DEF StorageInv, Accounts
    <3>3. pending \in SUBSET (Group \X Scenario)  BY DEF StorageInv, TypeOK
    <3>4. /\ SaveBinds(binds') \in Seq(SaveSet) /\ SaveIdentity(identity', pending) \in Seq(SaveSet)
          /\ SaveSign(SignAfter(s, i)) \in Seq(SaveSet)
      BY <3>1, <3>2, <3>3 DEF SaveBinds, SaveIdentity, SaveSign, SaveSet, IdentityFile
    <3>5. <<>> \in Seq(SaveSet)  OBVIOUS
    <3>6. \A c, S : S \in Seq(SaveSet) => If(c, S) \in Seq(SaveSet)  BY <3>5 DEF If
    <3> QED  BY <3>4, <3>6, ConcatProperties DEF SavedLearning
  <2> QED  BY <2>1, <1>1, <1>5, ConcatEmptySeq
<1> QED  BY <1>1, <1>2, <1>3, <1>7, <1>8, HandlerKeeps

LEMMA GroupKeeps ==
  ASSUME StorageInv, NEW s \in Scenario, NEW g \in Group, NEW i \in Id, MessageInGroup(s, g, i)
  PROVE  StorageInv'
<1>1. /\ GroupMessage(s, g, i) /\ writes = <<>> /\ writes' = SavedLearning(s, i) \o SavedFlush(s, g, i)
      /\ before' = (IF writes' = <<>> THEN Now' ELSE Now) /\ UNCHANGED <<disk, cut, crashes>>
  BY DEF MessageInGroup, Saves
<1>2. PICK x, b : x = SignAfter(s, i) /\ b = AccountKeyIn(identity', binds', i)  OBVIOUS
<1>3. /\ i \in NamedBy(s) /\ identity' = IdentityAfter(s, i) /\ binds' = BindsAfter(s, i)
      /\ sign' = (IF <<g, s>> \in pending THEN [x EXCEPT ![b] = Awarded(x[b], g)] ELSE x)
      /\ pending' = pending \ {<<g, s>>} /\ today' = today
  BY <1>1, <1>2 DEF GroupMessage
<1>4. TypeOK'  BY <1>1, HandlerType DEF Next
<1>5. x \in Accounts /\ b \in Account /\ today \in Nat
  <2>1. x \in Accounts  BY <1>2, <1>3, LearningType DEF StorageInv, Accounts
  <2>2. b \in Account  BY <1>2, <1>4, KeyType DEF TypeOK
  <2>3. today \in Nat  BY DEF StorageInv, TypeOK
  <2> QED  BY <2>1, <2>2, <2>3
<1>6. PICK c1, c2 : c1 = (<<g, s>> \in pending /\ AwardReason(x[b], g) = "ok") /\ c2 = (<<g, s>> \in pending)
  OBVIOUS
<1>7. PICK y, m, p : y = sign' /\ m = identity' /\ p = pending'  OBVIOUS
<1>8. SavedFlush(s, g, i) = If(c1, SaveSign(y)) \o If(c2, SaveIdentity(m, p))
  BY <1>2, <1>6, <1>7 DEF SavedFlush, PaysOwed
<1>9. /\ y \in Accounts /\ m \in [Scenario -> Union \cup {NoOne}] /\ p \in SUBSET (Group \X Scenario)
      /\ c1 \in BOOLEAN /\ c2 \in BOOLEAN
  <2>1. y \in Accounts /\ m \in [Scenario -> Union \cup {NoOne}] /\ p \in SUBSET (Group \X Scenario)
    BY <1>4, <1>7 DEF TypeOK, Accounts
  <2> QED  BY <2>1, <1>6
<1>10. PICK mem, old : mem = Memory' /\ old = Now  OBVIOUS
<1>11. /\ mem.sign = y /\ mem.owed = [map |-> m, pending |-> p] /\ mem.binds = binds'
       /\ mem.day = today /\ old.sign = sign /\ old.pending = pending
  BY <1>3, <1>7, <1>10 DEF Memory, Now
<1>12. PICK V2, V : V2 = If(c2, SaveIdentity(m, p)) \o <<>> /\ V = If(c1, SaveSign(y)) \o V2  OBVIOUS
<1>13. V2 \in Seq(SaveSet) /\ Good(V2, mem, old)
       /\ ~Awaits("sign", V2) /\ (Awaits("identity", V2) <=> c2) /\ ~Awaits("binds", V2)
  <2>1. <<>> \in Seq(SaveSet) /\ Good(<<>>, mem, old) /\ \A f : ~Awaits(f, <<>>)  BY NothingToSave
  <2>2. IdentityFits(m, p, <<>>, mem, old)  BY <2>1, <1>11 DEF IdentityFits
  <2>3. Before(V2, If(c2, SaveIdentity(m, p)), <<>>)  BY <1>12 DEF Before
  <2>5. IsOwed(m, p)  BY <1>9 DEF IsOwed
  <2>4. V2 \in Seq(SaveSet) /\ Good(V2, mem, old) /\ Adds(V2, <<>>, "identity", c2)
    BY <2>1, <2>2, <2>3, <2>5, <1>9, IdentityFirst
  <2> QED  BY <2>1, <2>4 DEF Adds
<1>14. V \in Seq(SaveSet) /\ Good(V, mem, old)
       /\ (Awaits("sign", V) <=> c1) /\ (Awaits("identity", V) <=> c2) /\ ~Awaits("binds", V)
  <2>1. SignFits(y, V2, mem, old)  BY <1>11, AlikeSelf DEF SignFits
  <2>2. Before(V, If(c1, SaveSign(y)), V2)  BY <1>12 DEF Before
  <2>3. V \in Seq(SaveSet) /\ Good(V, mem, old) /\ Adds(V, V2, "sign", c1)
    BY <2>1, <2>2, <1>9, <1>13, SignFirst
  <2> QED  BY <2>3, <1>13 DEF Adds
<1>15. Awaits("sign", V) \/ Alike(x, sign', today)
  <2> SUFFICES ASSUME ~c1 PROVE Alike(x, sign', today)
    BY <1>14
  <2>1. CASE ~c2  BY <2>1, <1>3, <1>6, AlikeSelf
  <2>2. CASE c2
    <3>1. AwardReason(x[b], g) # "ok" /\ sign' = [x EXCEPT ![b] = Awarded(x[b], g)]
      BY <2>2, <1>3, <1>6
    <3>2. Alike(x, y, today)  BY <3>1, <1>5, <1>7, UnpaidAlike
    <3> QED  BY <3>2, <1>7
  <2> QED  BY <2>1, <2>2, <1>9
<1>16. Awaits("identity", V) \/ pending' = pending  BY <1>3, <1>6, <1>13, <1>14
<1>17. ~Awaits("binds", V)  BY <1>13, <1>14
<1>18. V = SavedFlush(s, g, i) /\ writes' = SavedLearning(s, i) \o V
  <2>1. If(c2, SaveIdentity(m, p)) \in Seq(SaveSet)
    <3>1. SaveIdentity(m, p) \in Seq(SaveSet)  BY <1>9 DEF SaveIdentity, SaveSet, IdentityFile
    <3>2. <<>> \in Seq(SaveSet)  OBVIOUS
    <3> QED  BY <3>1, <3>2 DEF If
  <2>2. V2 = If(c2, SaveIdentity(m, p))  BY <2>1, <1>12, ConcatEmptySeq
  <2> QED  BY <2>2, <1>1, <1>8, <1>12
<1>19. PICK W : W = SavedLearning(s, i) \o V  OBVIOUS
<1>20. Good(V, Memory', Now)  BY <1>10, <1>14
<1>21. /\ W \in Seq(SaveSet) /\ Good(W, Memory', Now)
       /\ Awaits("sign", W) \/ Alike(sign, sign', today)
       /\ Awaits("identity", W) \/ (identity' = identity /\ pending' = pending)
       /\ Awaits("binds", W) \/ binds' = binds
  BY <1>2, <1>3, <1>4, <1>14, <1>15, <1>16, <1>17, <1>19, <1>20, LearningSaves
<1>22. writes' = W  BY <1>18, <1>19
<1> QED  BY <1>1, <1>3, <1>4, <1>21, <1>22, HandlerKeeps

\* The other handlers save one file, or the bindings and the accounts.
LEMMA OneFileKeeps ==
  ASSUME StorageInv, Next, writes = <<>>, UNCHANGED <<disk, cut, crashes, today>>,
         before' = IF writes' = <<>> THEN Now' ELSE Now,
         \/ writes' = SaveSign(sign') /\ UNCHANGED <<identity, pending, binds>>
         \/ writes' = SaveIdentity(identity, pending') /\ UNCHANGED <<sign, identity, binds>>
         \/ writes' = SaveBinds(binds') /\ UNCHANGED <<sign, identity, pending>>
         \/ writes' = <<>> /\ UNCHANGED <<identity, pending, binds>> /\ Alike(sign, sign', today)
  PROVE  StorageInv'
<1>1. TypeOK'  BY HandlerType
<1>2. PICK mem, old : mem = Memory' /\ old = Now  OBVIOUS
<1>3. /\ mem.sign = sign' /\ mem.owed = [map |-> identity', pending |-> pending'] /\ mem.binds = binds'
      /\ mem.day = today /\ old.sign = sign /\ old.pending = pending
  BY <1>2 DEF Memory, Now
<1>4. PICK W : W = writes'  OBVIOUS
<1>5. CASE writes' = SaveSign(sign') /\ UNCHANGED <<identity, pending, binds>>
  <2>1. PICK r : r = [file |-> "sign", content |-> sign']  OBVIOUS
  <2>2. r \in SaveSet  BY <1>1, <2>1 DEF SaveSet, TypeOK, Accounts
  <2>3. W = <<r>>  BY <1>4, <1>5, <2>1 DEF SaveSign
  <2>4. r.file = "sign" /\ Matches(r.file, r.content, mem) /\ r.content = mem.sign
    BY <2>1, <1>3, AlikeSelf DEF Matches
  <2>5. W \in Seq(SaveSet) /\ Good(W, mem, old) /\ Awaits("sign", W)
    BY <2>2, <2>3, <2>4, SaveOne
  <2> QED  BY <2>5, <1>1, <1>2, <1>4, <1>5, HandlerKeeps
<1>6. CASE writes' = SaveIdentity(identity, pending') /\ UNCHANGED <<sign, identity, binds>>
  <2>1. PICK r : r = [file |-> "identity", content |-> [map |-> identity', pending |-> pending']]  OBVIOUS
  <2>2. r \in SaveSet  BY <1>1, <2>1 DEF SaveSet, TypeOK, IdentityFile
  <2>3. W = <<r>>  BY <1>4, <1>6, <2>1 DEF SaveIdentity
  <2>4. r.file = "identity" /\ Matches(r.file, r.content, mem)
    BY <2>1, <1>3 DEF Matches
  <2>5. W \in Seq(SaveSet) /\ Good(W, mem, old) /\ Awaits("identity", W)
    BY <2>2, <2>3, <2>4, SaveOne
  <2>6. Alike(sign, sign', today)  BY <1>6, AlikeSelf
  <2> QED  BY <2>5, <2>6, <1>1, <1>2, <1>4, <1>6, HandlerKeeps
<1>7. CASE writes' = SaveBinds(binds') /\ UNCHANGED <<sign, identity, pending>>
  <2>1. PICK r : r = [file |-> "binds", content |-> binds']  OBVIOUS
  <2>2. r \in SaveSet  BY <1>1, <2>1 DEF SaveSet, TypeOK, BindsFile
  <2>3. W = <<r>>  BY <1>4, <1>7, <2>1 DEF SaveBinds
  <2>4. r.file = "binds" /\ Matches(r.file, r.content, mem)
    BY <2>1, <1>3 DEF Matches
  <2>5. W \in Seq(SaveSet) /\ Good(W, mem, old) /\ Awaits("binds", W)
    BY <2>2, <2>3, <2>4, SaveOne
  <2>6. Alike(sign, sign', today)  BY <1>7, AlikeSelf
  <2> QED  BY <2>5, <2>6, <1>1, <1>2, <1>4, <1>7, HandlerKeeps
<1>8. CASE writes' = <<>> /\ UNCHANGED <<identity, pending, binds>> /\ Alike(sign, sign', today)
  <2>1. W \in Seq(SaveSet) /\ Good(W, mem, old)  BY <1>4, <1>8, NothingToSave
  <2> QED  BY <2>1, <1>1, <1>2, <1>4, <1>8, HandlerKeeps
<1> QED  BY <1>5, <1>6, <1>7, <1>8

LEMMA InvitedKeeps ==
  ASSUME StorageInv, NEW s \in Scenario, NEW g \in Group, Invited(s, g) PROVE StorageInv'
<1>1. PICK b : b = AccountKey(s)  OBVIOUS
<1>2. /\ GroupAdd(s, g) /\ writes = <<>>
      /\ writes' = (IF b = s THEN If(pending' # pending, SaveIdentity(identity, pending'))
                    ELSE If(AwardReason(sign[b], g) = "ok", SaveSign(sign')))
      /\ before' = (IF writes' = <<>> THEN Now' ELSE Now) /\ UNCHANGED <<disk, cut, crashes>>
  BY <1>1 DEF Invited, Saves
<1>3. Next  BY <1>2 DEF Next
<1>4. UNCHANGED <<identity, binds, today>>  BY <1>2 DEF GroupAdd
<1>5. CASE b = s
  <2>1. sign' = sign  BY <1>1, <1>2, <1>5 DEF GroupAdd
  <2>2. Alike(sign, sign', today)  BY <2>1, AlikeSelf
  <2>3. CASE pending' # pending
    <3>1. writes' = SaveIdentity(identity, pending')  BY <1>2, <1>5, <2>3 DEF If
    <3> QED  BY <3>1, <2>1, <1>2, <1>3, <1>4, OneFileKeeps
  <2>4. CASE pending' = pending
    <3>1. writes' = <<>>  BY <1>2, <1>5, <2>4 DEF If
    <3> QED  BY <3>1, <2>2, <2>4, <1>2, <1>3, <1>4, OneFileKeeps
  <2> QED  BY <2>3, <2>4
<1>6. CASE b # s
  <2>1. sign' = [sign EXCEPT ![b] = Awarded(sign[b], g)] /\ pending' = pending
    BY <1>1, <1>2, <1>6 DEF GroupAdd
  <2>2. CASE AwardReason(sign[b], g) = "ok"
    <3>1. writes' = SaveSign(sign')  BY <1>2, <1>6, <2>2 DEF If
    <3> QED  BY <3>1, <2>1, <1>2, <1>3, <1>4, OneFileKeeps
  <2>3. CASE AwardReason(sign[b], g) # "ok"
    <3>1. writes' = <<>>  BY <1>2, <1>6, <2>3 DEF If
    <3>2. b \in Account /\ sign \in Accounts /\ today \in Nat
      BY <1>1, KeyType DEF AccountKey, StorageInv, TypeOK, Id, Accounts
    <3>3. PICK x, y : x = sign /\ y = sign'  OBVIOUS
    <3>4. x \in Accounts /\ AwardReason(x[b], g) # "ok" /\ y = [x EXCEPT ![b] = Awarded(x[b], g)]
      BY <3>2, <3>3, <2>1, <2>3
    <3>5. Alike(x, y, today)  BY <3>2, <3>4, UnpaidAlike
    <3> QED  BY <3>1, <3>3, <3>5, <2>1, <1>2, <1>3, <1>4, OneFileKeeps
  <2> QED  BY <2>2, <2>3
<1> QED  BY <1>5, <1>6

LEMMA BindsKeeps ==
  ASSUME StorageInv, NEW i \in Id, NEW q \in QQ, Binds(i, q) PROVE StorageInv'
<1>1. /\ BindQQ(i, q) /\ writes = <<>> /\ writes' = SaveBinds(binds') \o SaveSign(sign')
      /\ before' = (IF writes' = <<>> THEN Now' ELSE Now) /\ UNCHANGED <<disk, cut, crashes>>
  BY DEF Binds, Saves, SavedBind
<1>2. TypeOK'  BY <1>1, HandlerType DEF Next
<1>3. UNCHANGED <<identity, pending, today>>  BY <1>1 DEF BindQQ
<1>4. PICK r1, r2 : r1 = [file |-> "binds", content |-> binds'] /\ r2 = [file |-> "sign", content |-> sign']
  OBVIOUS
<1>5. r1 \in SaveSet /\ r2 \in SaveSet  BY <1>2, <1>4 DEF SaveSet, TypeOK, BindsFile, Accounts
<1>6. PICK mem, old : mem = Memory' /\ old = Now  OBVIOUS
<1>7. mem.sign = sign' /\ mem.binds = binds'  BY <1>6 DEF Memory
<1>8. PICK V, W : V = <<r2>> /\ W = <<r1>> \o V  OBVIOUS
<1>9. writes' = W  BY <1>1, <1>4, <1>8 DEF SaveBinds, SaveSign
<1>10. V \in Seq(SaveSet) /\ Good(V, mem, old) /\ \A f : Awaits(f, V) <=> "sign" = f
  <2>1. r2.file = "sign" /\ Matches(r2.file, r2.content, mem) /\ r2.content = mem.sign
    BY <1>4, <1>7, AlikeSelf DEF Matches
  <2> QED  BY <2>1, <1>5, <1>8, SaveOne
<1>11. W \in Seq(SaveSet) /\ Good(W, mem, old) /\ \A f : Awaits(f, W) <=> "binds" = f \/ Awaits(f, V)
  <2>1. r1.file = "binds" /\ Matches(r1.file, r1.content, mem)  BY <1>4, <1>7 DEF Matches
  <2> QED  BY <2>1, <1>5, <1>8, <1>10, Prepend
<1> QED  BY <1>1, <1>2, <1>3, <1>6, <1>9, <1>10, <1>11, HandlerKeeps

LEMMA StorageNextKeeps == StorageInv /\ [StorageNext]_storagevars => StorageInv'
<1> SUFFICES ASSUME StorageInv, [StorageNext]_storagevars PROVE StorageInv'
  OBVIOUS
<1>1. ASSUME NEW s \in Scenario, NEW i \in Id, PrivateMessage(s, i) PROVE StorageInv'
  BY <1>1, PrivateKeeps
<1>2. ASSUME NEW s \in Scenario, NEW g \in Group, NEW i \in Id, MessageInGroup(s, g, i) PROVE StorageInv'
  BY <1>2, GroupKeeps
<1>3. ASSUME NEW s \in Scenario, NEW g \in Group, Invited(s, g) PROVE StorageInv'
  BY <1>3, InvitedKeeps
<1>4. ASSUME NEW i \in Id, SignsIn(i) PROVE StorageInv'
  <2>1. Next /\ UNCHANGED <<identity, binds, pending, today>>  BY <1>4 DEF SignsIn, SignIn, Next
  <2> QED  BY <2>1, <1>4, OneFileKeeps DEF SignsIn, Saves
<1>5. ASSUME NEW a \in Account, NEW cost \in Costs, Pays(a, cost) PROVE StorageInv'
  <2>1. Next /\ UNCHANGED <<identity, binds, pending, today>>  BY <1>5 DEF Pays, Spend, Next
  <2> QED  BY <2>1, <1>5, OneFileKeeps DEF Pays, Saves
<1>6. ASSUME NEW i \in Id, NEW q \in QQ, Binds(i, q) PROVE StorageInv'
  BY <1>6, BindsKeeps
<1>7. ASSUME NEW i \in Id, Unbinds(i) PROVE StorageInv'
  <2>1. Next /\ UNCHANGED <<sign, identity, pending, today>>  BY <1>7 DEF Unbinds, UnbindQQ, Next
  <2> QED  BY <2>1, <1>7, OneFileKeeps DEF Unbinds, Saves
<1>8. CASE Truncate  BY <1>8, TruncateKeeps
<1>9. CASE Written  BY <1>9, WrittenKeeps
<1>10. CASE Crash  BY <1>10, CrashKeeps
<1>11. CASE UNCHANGED storagevars
  BY <1>11 DEF storagevars, vars, StorageInv, TypeOK, DiskType, Memory
<1> QED  BY <1>1, <1>2, <1>3, <1>4, <1>5, <1>6, <1>7, <1>8, <1>9, <1>10, <1>11 DEF StorageNext

\* Once a handler is through a restart finds all it did; a kill in the middle
\* of one makes no points, takes none and loses no reward, unless it hits a
\* file that is being written: for any users, balances, rewards and kills.
THEOREM LedgerSurvives == StorageSpec => []StorageSafe
  BY InitKeeps, StorageNextKeeps, InvIsSafe, PTL DEF StorageSpec

=============================================================================
