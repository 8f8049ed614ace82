---------------------------- MODULE PointsLedger ----------------------------
(***************************************************************************)
(* The points ledger of the official bot: sign-in, group-invitation        *)
(* rewards, the learned identity map, QQ-number accounts and the spending  *)
(* of points (official_qqbot/bot.py).                                      *)
(*                                                                         *)
(* The bot is one asyncio loop: a handler runs without interruption        *)
(* between two awaits.  None of the handlers below keeps ledger state      *)
(* across an await, so each is one action.  A user is known by scenario    *)
(* openids (one per group or private chat) and, when the platform sends    *)
(* it, by one union openid; a QQ number is a third kind of account.        *)
(***************************************************************************)
EXTENDS Integers, Sequences, FiniteSets, FiniteSetsExt

CONSTANTS
  Scenario,       \* per-chat openids
  Union,          \* union openids
  QQ,             \* QQ numbers; the account of q is the key "QQ<q>" of the code
  Group,          \* group openids
  NoOne,          \* "" or None where an openid, account or QQ number may be
  UnionOf,        \* the union openid the platform knows for a scenario openid
  Member,         \* <<s, g>>: s is the openid of a user in group g
  SignInPoints,   \* SIGN_IN_POINTS
  RewardPoints,   \* GROUP_ADD_REWARD_POINTS
  DailyLimit,     \* GROUP_ADD_DAILY_LIMIT
  RewardedCap,    \* how many rewarded groups an account remembers (200)
  Costs,          \* EXTRACT_POINTS_COST
  MaxDay          \* bound: the calendar stops here

Id == Scenario \cup Union            \* what an event names a user by
Account == Id \cup QQ                \* keys of _sign_data
Never == 0                           \* the empty date ""

ASSUME KindsDisjoint ==
  /\ Scenario \cap Union = {} /\ Scenario \cap QQ = {} /\ Union \cap QQ = {}
  /\ NoOne \notin Account
ASSUME PlatformAssumption ==
  /\ UnionOf \in [Scenario -> Union]
  /\ Member \subseteq Scenario \X Group
ASSUME FiniteAssumption ==
  IsFiniteSet(Scenario) /\ IsFiniteSet(Union) /\ IsFiniteSet(QQ)
ASSUME AmountsAssumption ==
  /\ SignInPoints \in Nat /\ RewardPoints \in Nat
  /\ Costs \subseteq Nat \ {0}
  /\ DailyLimit \in Nat /\ RewardedCap \in Nat \ {0} /\ MaxDay \in Nat \ {0}

VARIABLES
  sign,       \* _sign_data: the accounts
  identity,   \* _identity_map without its "_pending" entry
  binds,      \* _qq_binds
  pending,    \* _identity_map["_pending"]: <<group, member>> owed a reward
  today       \* datetime.date.today()

vars == <<sign, identity, binds, pending, today>>

Record ==
  [known: BOOLEAN, points: Nat, streak: Nat, last: Nat, addLast: Nat,
   addCount: Nat, rewarded: Seq(Group), mergedInto: Account \cup {NoOne}]

\* An account that has no entry yet reads like a blank one.
Blank ==
  [known |-> FALSE, points |-> 0, streak |-> 0, last |-> Never,
   addLast |-> Never, addCount |-> 0, rewarded |-> <<>>, mergedInto |-> NoOne]

Init ==
  /\ sign = [a \in Account |-> Blank]
  /\ identity = [s \in Scenario |-> NoOne]
  /\ binds = [i \in Id |-> NoOne]
  /\ pending = {}
  /\ today = 1

-----------------------------------------------------------------------------
(* Accounts *)

Larger(m, n) == IF m >= n THEN m ELSE n

\* Fault: the learned union is not looked up.
KeyForgetsUnion(ident, bound, i) == IF bound[i] # NoOne THEN bound[i] ELSE i

\* A QQ binding of i goes before a learned union, which goes before i itself.
\* One lookup only: the union found for a scenario is not looked up again.
AccountKeyIn(ident, bound, i) ==
  IF bound[i] # NoOne THEN bound[i]
  ELSE IF i \in Scenario /\ ident[i] # NoOne THEN ident[i] ELSE i

AccountKey(i) == AccountKeyIn(identity, binds, i)

\* do_sign_in: nothing on the second call of a day; the streak goes on only
\* from yesterday.
SignedIn(u) ==
  [u EXCEPT !.known = TRUE,
            !.points = @ + SignInPoints,
            !.streak = IF u.last # Never /\ u.last = today - 1
                         THEN @ + 1 ELSE 1,
            !.last = today]

\* award_group_add_points: the reasons for paying nothing, in their order.
RewardedGroups(u) == {u.rewarded[n] : n \in 1..Len(u.rewarded)}
CountToday(u) == IF u.addLast = today THEN u.addCount ELSE 0
\* Fault: the remembered groups are not consulted.
ReasonWithoutDuplicates(u, g) ==
  IF CountToday(u) >= DailyLimit THEN "daily_limit" ELSE "ok"

AwardReason(u, g) ==
  IF g \in RewardedGroups(u) THEN "duplicate_group"
  ELSE IF CountToday(u) >= DailyLimit THEN "daily_limit"
  ELSE "ok"

\* The last RewardedCap groups are remembered.
Remember(groups, g) ==
  LET longer == Append(groups, g)
  IN  IF Len(longer) > RewardedCap
        THEN SubSeq(longer, Len(longer) - RewardedCap + 1, Len(longer))
        ELSE longer

\* Fault: the rewarded group is not appended.
AwardedUnremembered(u, g) ==
  IF AwardReason(u, g) = "ok"
    THEN [u EXCEPT !.known = TRUE, !.addLast = today, !.addCount = CountToday(u) + 1,
                   !.points = @ + RewardPoints]
    ELSE [u EXCEPT !.known = TRUE]

\* The account after award_group_add_points: setdefault creates it whatever
\* the reason; the daily counter is reset even when the limit refuses.
Awarded(u, g) ==
  CASE AwardReason(u, g) = "duplicate_group" -> [u EXCEPT !.known = TRUE]
    [] AwardReason(u, g) = "daily_limit" ->
         [u EXCEPT !.known = TRUE, !.addLast = today, !.addCount = CountToday(u)]
    [] OTHER ->
         [u EXCEPT !.known = TRUE, !.addLast = today,
                   !.addCount = CountToday(u) + 1,
                   !.points = @ + RewardPoints,
                   !.rewarded = Remember(@, g)]

-----------------------------------------------------------------------------
(* What a message teaches *)

\* _learn_identity has something to learn: event.limit_user_id is a union
\* openid, and the map does not hold it yet.
Learns(s, i) == i \in Union /\ identity[s] # i

IdentityAfter(s, i) ==
  IF Learns(s, i) THEN [identity EXCEPT ![s] = i] ELSE identity

\* The QQ binding of the scenario is copied to a union that has none.
BindsAfter(s, i) ==
  IF Learns(s, i) /\ binds[s] # NoOne /\ binds[i] = NoOne
    THEN [binds EXCEPT ![i] = binds[s]] ELSE binds

\* Fault: the emptied account is marked and keeps its points.
MarkedOnly(u, into) == [u EXCEPT !.mergedInto = into]

\* _merge_legacy_points: the union account takes the scenario's balance, once.
Drained(u, into) == [u EXCEPT !.points = 0, !.mergedInto = into]
Receives(u, gained) == [u EXCEPT !.known = TRUE, !.points = @ + gained]
Mergeable(u) == u.known /\ u.mergedInto = NoOne
SignAfter(s, i) ==
  IF ~Learns(s, i) THEN sign
  ELSE IF Mergeable(sign[s])
    THEN [sign EXCEPT ![i] = Receives(@, sign[s].points), ![s] = Drained(@, i)]
    ELSE [sign EXCEPT ![i] = Receives(@, 0)]

-----------------------------------------------------------------------------
(* The handlers.  i is event.limit_user_id: the union openid when the        *)
(* platform sends it, the scenario openid otherwise.                         *)

NamedBy(s) == {s, UnionOf[s]}

\* handle_c2c_message: a private message only teaches the identity.
C2CMessage(s, i) ==
  /\ i \in NamedBy(s)
  /\ identity' = IdentityAfter(s, i)
  /\ binds' = BindsAfter(s, i)
  /\ sign' = SignAfter(s, i)
  /\ UNCHANGED <<pending, today>>

\* handle_group_message: the identity, then _flush_pending_rewards pays the
\* reward owed to this member in this group; the entry goes whatever the reason.
GroupMessage(s, g, i) ==
  /\ <<s, g>> \in Member
  /\ i \in NamedBy(s)
  /\ identity' = IdentityAfter(s, i)
  /\ binds' = BindsAfter(s, i)
  /\ LET account == AccountKeyIn(identity', binds', i)
         merged  == SignAfter(s, i)
     IN  sign' = IF <<g, s>> \in pending
                   THEN [merged EXCEPT ![account] = Awarded(@, g)]
                   ELSE merged
  /\ pending' = pending \ {<<g, s>>}
  /\ UNCHANGED today

\* handle_group_add_robot, from where the member count is known to be large
\* enough.  An operator without a unified account is owed the reward.
GroupAdd(s, g) ==
  /\ <<s, g>> \in Member
  /\ IF AccountKey(s) = s
       THEN pending' = pending \cup {<<g, s>>} /\ UNCHANGED sign
       ELSE /\ sign' = [sign EXCEPT ![AccountKey(s)] = Awarded(@, g)]
            /\ UNCHANGED pending
  /\ UNCHANGED <<identity, binds, today>>

\* The command 签到.
SignIn(i) ==
  /\ sign[AccountKey(i)].last # today
  /\ sign' = [sign EXCEPT ![AccountKey(i)] = SignedIn(@)]
  /\ UNCHANGED <<identity, binds, pending, today>>

\* Fault: the balance is not compared with the price.
SpendUnchecked(a, cost) ==
  /\ sign[a].known
  /\ sign' = [sign EXCEPT ![a].points = @ - cost]
  /\ UNCHANGED <<identity, binds, pending, today>>

\* try_spend_points with enough points.  The account is the one the command
\* read before its upstream call, so it may be any account that holds points.
\* A refused charge writes nothing.
Spend(a, cost) ==
  /\ sign[a].points >= cost
  /\ sign' = [sign EXCEPT ![a].points = @ - cost]
  /\ UNCHANGED <<identity, binds, pending, today>>

\* Fault: the streaks of both accounts are added.
PouredStreaksAdded(from, into) ==
  [into EXCEPT !.known = TRUE,
               !.points = @ + from.points,
               !.streak = @ + from.streak,
               !.last = Larger(@, from.last)]

\* bind_qq_account: the current account of i is poured into the account of q.
\* A current account that was merged before is left as it is.
Poured(from, into) ==
  [into EXCEPT !.known = TRUE,
               !.points = @ + from.points,
               !.streak = Larger(@, from.streak),
               !.last = Larger(@, from.last)]
BindQQ(i, q) ==
  /\ binds[i] # q
  /\ LET current == AccountKey(i)
     IN  sign' = IF Mergeable(sign[current])
                   THEN [sign EXCEPT ![q] = Poured(sign[current], @),
                                     ![current] = Drained(@, q)]
                   ELSE sign
  /\ binds' = [binds EXCEPT ![i] = q]
  /\ UNCHANGED <<identity, pending, today>>

\* /unbindqq of an administrator.  The code cuts one character more than the
\* command's prefix off the argument, so it finds the binding only when the
\* administrator typed two spaces; with one space nothing changes.
UnbindQQ(i) ==
  /\ binds[i] # NoOne
  /\ binds' = [binds EXCEPT ![i] = NoOne]
  /\ UNCHANGED <<sign, identity, pending, today>>

NextDay ==
  /\ today < MaxDay
  /\ today' = today + 1
  /\ UNCHANGED <<sign, identity, binds, pending>>

Next ==
  \/ \E s \in Scenario, i \in Id : C2CMessage(s, i)
  \/ \E s \in Scenario, g \in Group, i \in Id : GroupMessage(s, g, i)
  \/ \E s \in Scenario, g \in Group : GroupAdd(s, g)
  \/ \E i \in Id : SignIn(i)
  \/ \E a \in Account, cost \in Costs : Spend(a, cost)
  \/ \E i \in Id, q \in QQ : BindQQ(i, q)
  \/ \E i \in Id : UnbindQQ(i)
  \/ NextDay

Spec == Init /\ [][Next]_vars

-----------------------------------------------------------------------------
(* Properties *)

\* Balances, counters and dates are naturals: in particular no account is
\* ever overdrawn (try_spend_points); bindings and learned unions name
\* accounts of the right kind.
TypeOK ==
  /\ sign \in [Account -> Record]
  /\ identity \in [Scenario -> Union \cup {NoOne}]
  /\ binds \in [Id -> QQ \cup {NoOne}]
  /\ pending \subseteq Group \X Scenario
  /\ today \in 1..MaxDay

\* A group stands at most once among the groups an account was rewarded for,
\* at most RewardedCap of them are kept, and no account is paid more than
\* DailyLimit rewards in a day (award_group_add_points).
KeepsRewardRules(u) ==
  /\ Len(u.rewarded) <= RewardedCap
  /\ \A m, n \in 1..Len(u.rewarded) : u.rewarded[m] = u.rewarded[n] => m = n
  /\ u.addCount <= DailyLimit
RewardRules == \A a \in Account : KeepsRewardRules(sign[a])

\* Once the union of a scenario openid is learned, the scenario's own account
\* holds no points, unless it had already been emptied into another account
\* before that and was used again (resolve_message_identity, _account_key).
LearnedAccountsAreEmpty ==
  \A s \in Scenario :
    identity[s] # NoOne /\ sign[s].mergedInto = NoOne => sign[s].points = 0

\* No balance is negative, and none is left where its owner cannot reach it.
LedgerSafe == TypeOK /\ LearnedAccountsAreEmpty

\* Dates never run ahead of the calendar, and a streak never counts more days
\* than have passed up to the last sign-in, through any sequence of merges.
StreakFitsCalendar ==
  \A a \in Account : sign[a].last <= today /\ sign[a].streak <= sign[a].last

\* All balances together.
PointsIn(accounts) == MapThenSumSet(LAMBDA a : accounts[a].points, Account)
Total == PointsIn(sign)

\* What a step that learns or binds may do to the sum, and one that raises it.
MergeConserves ==
  identity' # identity \/ binds' # binds =>
    LET paid == Total' - Total
    IN  paid \in {0, RewardPoints} /\ (paid # 0 => pending' # pending)
HasASource ==
  Total' > Total =>
    \/ \E a \in Account : sign'[a].last = today /\ sign[a].last # today
                           /\ Total' = Total + SignInPoints
    \/ \E a \in Account : sign'[a].rewarded # sign[a].rewarded
                           /\ Total' = Total + RewardPoints

\* Merging accounts, learning a union and binding a QQ number neither make nor
\* destroy points; a message adds at most one reward, and only by paying what
\* was pending (resolve_message_identity, bind_qq_account).
MergesConservePoints == [][MergeConserves]_vars

\* Points come from two sources, one amount at a time: a sign-in, which marks
\* the day, and a reward, which puts its group on the list of its account
\* (the sign command, award_group_add_points, _flush_pending_rewards); nothing
\* else raises the sum of all balances.
PointsHaveASource == [][HasASource]_vars

(***************************************************************************)
(* What the comments, replies and tests of the bot say of a unified        *)
(* account, beyond what the code keeps.                                    *)
(***************************************************************************)

\* bot.py:1202: a bind pours the balance of the current account into the
\* account of the QQ number.
BindMovesTheBalance ==
  [][\A i \in Id, q \in QQ :
       BindQQ(i, q) =>
         sign'[q].points = sign[q].points + sign[AccountKey(i)].points]_vars
=============================================================================
