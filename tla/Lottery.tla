------------------------------- MODULE Lottery -------------------------------
(***************************************************************************)
(* The group lottery of the NapCat bots (qqbot/handlers/lottery.py and its *)
(* callers in qqbot/bot.py): a dialogue creates a lottery, members join,   *)
(* the creator deposits the rewards in a private chat, and a draw, by the  *)
(* timer loop or asked for early, sends one private message per winner.    *)
(*                                                                         *)
(* All of it lives in memory and outlives connections; the workers and the *)
(* loop do not.  Only a draw changes anything after an await: it has taken *)
(* the lottery out of the table by then, and anything may happen there     *)
(* while a winner's message is on its way.                                 *)
(***************************************************************************)
EXTENDS Integers, Sequences, FiniteSets, SequencesExt, FiniteSetsExt

CONSTANTS
  QQGroup, User,
  Worker,        \* consumers of the message queue
  Loop,          \* lottery_check_loop
  Nothing,       \* no lottery, no session, no draw
  Limits,        \* the answers to the last question: sets of users, {} for all
  Counts,        \* bound: what is typed for a count, and deposited
  Minutes,       \* bound: what is typed for a duration
  MaxLotteries,  \* bound: lotteries created, dialogues under way included
  MaxDrops,     \* bound: connections lost
  MaxTime        \* bound: the clock stops here

ASSUME LotteryAssumption ==
  /\ IsFiniteSet(QQGroup) /\ IsFiniteSet(User) /\ Loop \notin Worker
  /\ Limits \subseteq SUBSET User
  /\ Counts \subseteq Nat /\ Minutes \subseteq Nat
  /\ MaxLotteries \in Nat /\ MaxDrops \in Nat /\ MaxTime \in Nat

VARIABLES
  dialog,   \* _creating_sessions
  active,   \* _active_lotteries
  deposit,  \* _deposit_sessions
  draw,     \* the draw that each worker, and the loop, is in
  due,      \* groups the loop has found expired and not come to yet
  ws,       \* "down", "up", or "closed" and not yet noticed
  looping,  \* the connection has its loop
  now,
  drops,
  made,     \* history: the lotteries created, by their number
  got       \* history: whom a reward of each was sent to, in order

sessions == <<dialog, deposit>>
connection == <<ws, looping, drops>>
lotteryvars == <<sessions, active, draw, due, connection, now, made, got>>

LotteryNumber == 1..MaxLotteries
Positive == Nat \ {0}
Dialog ==
  [step : {"prize", "count"}] \cup [step : {"time"}, count : Positive]
  \cup [step : {"limit"}, count : Positive, minutes : Positive]
LotteryData ==
  [number : LotteryNumber, creator : User, count : Positive, limits : Limits,
   end : Nat, joined : SUBSET User, vault : Nat]
Draw == [number : LotteryNumber, winners : Seq(User), vault : Nat]

ASSUME NothingAssumption == Nothing \notin LotteryData /\ Nothing \notin Draw

\* Shapes; an active lottery has a creator, a positive count and a vault.
LotteryTypeOK ==
  /\ dialog \in [QQGroup \X User -> {Nothing} \cup Dialog]
  /\ active \in [QQGroup -> {Nothing} \cup LotteryData]
  /\ deposit \in [User -> {Nothing} \cup QQGroup]
  /\ draw \in [Worker \cup {Loop} -> {Nothing} \cup Draw]
  /\ due \subseteq QQGroup
  /\ ws \in {"down", "up", "closed"} /\ looping \in BOOLEAN
  /\ now \in 0..MaxTime /\ drops \in 0..MaxDrops
  /\ made \in Seq(LotteryData) /\ Len(made) <= MaxLotteries
  /\ got \in [LotteryNumber -> Seq(User)]

LotteryInit ==
  /\ dialog = [k \in QQGroup \X User |-> Nothing]
  /\ active = [g \in QQGroup |-> Nothing]
  /\ deposit = [u \in User |-> Nothing]
  /\ draw = [d \in Worker \cup {Loop} |-> Nothing]
  /\ due = {} /\ ws = "down" /\ looping = FALSE
  /\ now = 0 /\ drops = 0
  /\ made = <<>> /\ got = [n \in LotteryNumber |-> <<>>]

-----------------------------------------------------------------------------
(* The dialogue in the group.  While it lasts it takes every message of its  *)
(* user in the group.                                                        *)

Open == {k \in QQGroup \X User : dialog[k] # Nothing}
Says(g, u) == ws = "up" /\ dialog[<<g, u>>] # Nothing
Replies(k, answer) == dialog' = [dialog EXCEPT ![k] = answer]

\* The command 抽奖, which also starts a dialogue over: the check for one is
\* several awaits back.
Begin(g, u) ==
  /\ ws = "up"
  /\ dialog[<<g, u>>] # Nothing \/ Len(made) + Cardinality(Open) < MaxLotteries
  /\ Replies(<<g, u>>, [step |-> "prize"])
  /\ UNCHANGED <<active, deposit, draw, due, connection, now, made, got>>

Cancel(g, u) ==
  /\ Says(g, u)
  /\ Replies(<<g, u>>, Nothing)
  /\ UNCHANGED <<active, deposit, draw, due, connection, now, made, got>>

\* content.isdigit() and int(content) > 0
Valid(n) == n > 0

\* The prize, the count and the minutes; a count or a time that is not valid
\* is asked for again.
Configure(g, u, n) ==
  LET k == <<g, u>>
      d == dialog[k]
  IN  /\ Says(g, u)
      /\ \/ d.step = "prize" /\ Replies(k, [step |-> "count"])
         \/ d.step = "count" /\ n \in Counts /\ Valid(n)
            /\ Replies(k, [step |-> "time", count |-> n])
         \/ d.step = "time" /\ n \in Minutes /\ Valid(n)
            /\ Replies(k, [step |-> "limit", count |-> d.count, minutes |-> n])
      /\ UNCHANGED <<active, deposit, draw, due, connection, now, made, got>>

\* The last answer makes the lottery; one that is active in the group is
\* replaced, and with it its members and rewards.
Create(g, u, limits) ==
  LET d == dialog[<<g, u>>]
      lottery == [number |-> Len(made) + 1, creator |-> u, count |-> d.count,
                  limits |-> limits, end |-> now + d.minutes, joined |-> {}, vault |-> 0]
  IN  /\ Says(g, u) /\ d.step = "limit"
      /\ Replies(<<g, u>>, Nothing)
      /\ active' = [active EXCEPT ![g] = lottery]
      /\ made' = Append(made, lottery)
      /\ UNCHANGED <<deposit, draw, due, connection, now, got>>

\* cleanup_stale_sessions
Forget(g, u) ==
  /\ Says(g, u)
  /\ Replies(<<g, u>>, Nothing)
  /\ UNCHANGED <<active, deposit, draw, due, connection, now, made, got>>

\* join_lottery
Join(g, u) ==
  /\ ws = "up" /\ dialog[<<g, u>>] = Nothing
  /\ active[g] # Nothing
  /\ active[g].limits = {} \/ u \in active[g].limits
  /\ active' = [active EXCEPT ![g].joined = @ \cup {u}]
  /\ UNCHANGED <<sessions, draw, due, connection, now, made, got>>

-----------------------------------------------------------------------------
(* The deposit, in a private chat *)

\* /lottery: a lottery of this creator, the first in the order of the table,
\* which is left open here.
OpenDeposit(u, g) ==
  /\ ws = "up"
  /\ active[g] # Nothing /\ active[g].creator = u /\ active[g].vault = 0
  /\ deposit' = [deposit EXCEPT ![u] = g]
  /\ UNCHANGED <<dialog, active, draw, due, connection, now, made, got>>

\* Fault: fewer rewards than winners are accepted.
AtMost(lottery, n) == n > 0 /\ n <= lottery.count
\* len(items) == lottery.count
Fits(lottery, n) == n = lottery.count

\* The next private message of that user: n rewards, for whatever lottery the
\* group has by now.  A number that does not fit is asked for again.
Deposit(u, n) ==
  LET g == deposit[u]
  IN  /\ ws = "up" /\ g # Nothing
      /\ active[g] # Nothing /\ Fits(active[g], n)
      /\ active' = [active EXCEPT ![g].vault = n]
      /\ deposit' = [deposit EXCEPT ![u] = Nothing]
      /\ UNCHANGED <<dialog, draw, due, connection, now, made, got>>

\* 取消, or any message once the group has no lottery.
EndDeposit(u) ==
  /\ ws = "up" /\ deposit[u] # Nothing
  /\ deposit' = [deposit EXCEPT ![u] = Nothing]
  /\ UNCHANGED <<dialog, active, draw, due, connection, now, made, got>>

-----------------------------------------------------------------------------
(* do_draw *)

Lineups(lottery) ==
  SetToAllKPermutations(lottery.joined) \cap
    [1..Min({lottery.count, Cardinality(lottery.joined)}) -> lottery.joined]

\* Fault: the lottery stays in the table while its winners are told.
LeftActive(g) == active
\* _active_lotteries.pop
Taken(g) == [active EXCEPT ![g] = Nothing]

\* What d is in once it has drawn the lottery of g: without rewards there is
\* nobody to write to.
Begins(d, g) ==
  /\ active' = Taken(g)
  /\ \E lineup \in Lineups(active[g]) :
       draw' = [draw EXCEPT ![d] =
                  IF active[g].vault = 0 \/ lineup = <<>> THEN Nothing
                  ELSE [number |-> active[g].number, winners |-> lineup,
                        vault |-> active[g].vault]]

\* 提前开奖, by the creator.
DrawEarly(w, g) ==
  /\ ws = "up" /\ draw[w] = Nothing
  /\ active[g] # Nothing /\ dialog[<<g, active[g].creator>>] = Nothing
  /\ Begins(w, g)
  /\ UNCHANGED <<sessions, due, connection, now, made, got>>

\* The message of the next winner is sent; that it could not be delivered, or
\* that nobody answered, is not looked at.
Send(d) ==
  /\ ws = "up" /\ draw[d] # Nothing
  /\ LET rest == Tail(draw[d].winners)
     IN  draw' = [draw EXCEPT ![d] =
                    IF rest = <<>> THEN Nothing
                    ELSE [number |-> draw[d].number, winners |-> rest,
                          vault |-> draw[d].vault - 1]]
  /\ got' = [got EXCEPT ![draw[d].number] = Append(@, Head(draw[d].winners))]
  /\ UNCHANGED <<sessions, active, due, connection, now, made>>

\* On a closed connection the private message raises, and that ends the draw
\* (the group message does not); the loop forgets the other groups it had found.
SendFails(d) ==
  /\ ws = "closed" /\ draw[d] # Nothing
  /\ draw' = [draw EXCEPT ![d] = Nothing]
  /\ due' = IF d = Loop THEN {} ELSE due
  /\ UNCHANGED <<sessions, active, connection, now, made, got>>

\* WORKER_TIMEOUT ends a draw whose messages take too long: the rewards left
\* are lost.  The loop has no such limit.
GiveUp(w) ==
  /\ draw[w] # Nothing
  /\ draw' = [draw EXCEPT ![w] = Nothing]
  /\ UNCHANGED <<sessions, active, due, connection, now, made, got>>

-----------------------------------------------------------------------------
(* lottery_check_loop *)

Expired == {g \in QQGroup : active[g] # Nothing /\ now >= active[g].end}
Waiting == looping /\ draw[Loop] = Nothing

\* The expired groups are listed, and the first is drawn at once.
Look(g) ==
  /\ Waiting /\ due = {} /\ ws = "up"
  /\ g \in Expired /\ due' = Expired \ {g}
  /\ Begins(Loop, g)
  /\ UNCHANGED <<sessions, connection, now, made, got>>

\* The others are drawn when the messages of the one before are sent, each with
\* the lottery the group has then.
DrawNext(g) ==
  /\ Waiting /\ g \in due /\ active[g] # Nothing
  /\ due' = due \ {g}
  /\ Begins(Loop, g)
  /\ UNCHANGED <<sessions, connection, now, made, got>>

\* None of the groups left has a lottery.
SkipRest ==
  /\ Waiting /\ due # {} /\ \A g \in due : active[g] = Nothing
  /\ due' = {}
  /\ UNCHANGED <<sessions, active, draw, connection, now, made, got>>

-----------------------------------------------------------------------------
(* The connection and the clock *)

\* Fault: only the first connection starts the loop.
LoopOnce == drops = 0
\* lottery_task is started with every connection.
LoopStarts == TRUE

Reconnect ==
  /\ ws = "down"
  /\ ws' = "up" /\ looping' = LoopStarts
  /\ UNCHANGED <<sessions, active, draw, due, now, drops, made, got>>

Close ==
  /\ ws = "up" /\ drops < MaxDrops
  /\ ws' = "closed" /\ drops' = drops + 1
  /\ UNCHANGED <<sessions, active, draw, due, looping, now, made, got>>

\* finally: the loop and the workers are cancelled, in the middle of a draw.
Teardown ==
  /\ ws = "closed"
  /\ ws' = "down" /\ looping' = FALSE /\ due' = {}
  /\ draw' = [d \in Worker \cup {Loop} |-> Nothing]
  /\ UNCHANGED <<sessions, active, now, drops, made, got>>

Tick ==
  /\ now < MaxTime
  /\ now' = now + 1
  /\ UNCHANGED <<sessions, active, draw, due, connection, made, got>>

MemberStep(g, u) ==
  \/ Begin(g, u) \/ Cancel(g, u) \/ Forget(g, u) \/ Join(g, u)
  \/ \E n \in Counts \cup Minutes : Configure(g, u, n)
  \/ \E limits \in Limits : Create(g, u, limits)
Creator(u) ==
  \/ \E g \in QQGroup : OpenDeposit(u, g)
  \/ \E n \in Counts : Deposit(u, n)
  \/ EndDeposit(u)
Drawing(d) == Send(d) \/ SendFails(d)
LoopStep == (\E g \in QQGroup : Look(g) \/ DrawNext(g)) \/ SkipRest \/ Drawing(Loop)
LotteryNext ==
  \/ \E g \in QQGroup, u \in User : MemberStep(g, u)
  \/ \E u \in User : Creator(u)
  \/ \E w \in Worker, g \in QQGroup : DrawEarly(w, g)
  \/ \E w \in Worker : Drawing(w) \/ GiveUp(w)
  \/ LoopStep
  \/ Reconnect \/ Close \/ Teardown \/ Tick

LotterySpec == LotteryInit /\ [][LotteryNext]_lotteryvars

\* The loop wakes up every two seconds, a message is answered or times out, and
\* main connects again.
LotteryFairSpec == LotterySpec /\ WF_lotteryvars(LoopStep) /\ WF_lotteryvars(Teardown) /\ WF_lotteryvars(Reconnect)

-----------------------------------------------------------------------------
(* Properties *)

\* Whatever timer, early draws, drops and replacements do, no reward of a
\* lottery goes out twice, nobody wins twice in it, there are no more winners
\* than prizes, and all of them were allowed in (do_draw, join_lottery).
RewardsGoOutOnce ==
  \A n \in 1..Len(made) :
    /\ Cardinality(ToSet(got[n])) = Len(got[n])
    /\ Len(got[n]) <= made[n].count
    /\ made[n].limits = {} \/ ToSet(got[n]) \subseteq made[n].limits

\* A draw never runs out of rewards before it runs out of winners: the index
\* into rewards_vault stays in range although a deposit may reach another
\* lottery than the one it was opened for (handle_pm_command, do_draw).
VaultSuffices ==
  \A d \in Worker \cup {Loop} :
    draw[d] # Nothing => Len(draw[d].winners) <= draw[d].vault

IsActive(n) == \E g \in QQGroup : active[g] # Nothing /\ active[g].number = n
IsOver(n) == \E g \in Expired : active[g].number = n

\* An expired lottery is drawn, over any loss of the connection
\* ("支持断线重连恢复", lottery_check_loop); or it was replaced.
DueIsDrawn == \A n \in LotteryNumber : IsOver(n) ~> ~IsActive(n)

\* No reward goes out twice or to a stranger, and the vault never runs
\* short, over early and timed draws, replacements and drops.
LotterySafe == LotteryTypeOK /\ RewardsGoOutOnce /\ VaultSuffices

\* Each lottery as the group sees it: open while it is in the table, drawing
\* while a worker or the loop tells its winners.
DrawersOf(n) == {d \in Worker \cup {Loop} : draw[d] # Nothing /\ draw[d].number = n}
Stages ==
  [n \in LotteryNumber |->
     IF n > Len(made) THEN "none"
     ELSE IF IsActive(n) THEN "open"
     ELSE IF DrawersOf(n) # {} THEN "drawing" ELSE "over"]
ToTell ==
  [n \in LotteryNumber |->
     IF DrawersOf(n) = {} THEN <<>> ELSE draw[CHOOSE d \in DrawersOf(n) : TRUE].winners]

Promised == INSTANCE Giveaway WITH
  Lottery <- LotteryNumber, terms <- made, stage <- Stages, lineup <- ToTell, rewarded <- got

\* The winners of a lottery are drawn once, and only they are rewarded from
\* then on, in their order and each once, whatever replaces, drops or ends
\* draws (do_draw pops the lottery before it tells anybody).
WinnersAreKept == Promised!Spec
=============================================================================
