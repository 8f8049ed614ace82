---------------------------- MODULE OneBotRecall ----------------------------
(***************************************************************************)
(* Recalled messages in NapCat: the action that recalls one                *)
(* (napcat-onebot/action/msg/DeleteMsg.ts) and the kernel's onMsgRecall    *)
(* (napcat-onebot/index.ts), which the kernel calls twice for a recall of  *)
(* this device and each call of which is an asynchronous function of its   *)
(* own: the two race each other and the cache's five seconds.              *)
(***************************************************************************)
EXTENDS Integers, FiniteSets

CONSTANTS
  Msg,      \* messages that can be recalled
  Recall,   \* invocations of onMsgRecall
  MaxTold,  \* how often the kernel tells of one recall
  Window    \* ticks of the cache and of the wait (5 s each)

ASSUME RecallAssumption == Msg # {} /\ MaxTold \in Nat /\ Window \in Nat \ {0}

VARIABLES
  ids,               \* messages with a short id
  recallEventCache,  \* for a message DeleteMsg recalled: ticks left, 0 for none
  gone,              \* messages the kernel recalled, by the bot, another device of it or anyone
  told,              \* how often it told of a message
  running,           \* each callback: its message, how far it is and, waiting, its ticks left
  reports            \* recalls reported to the adapters, per message

recallvars == <<ids, recallEventCache, gone, told, running, reports>>

Stage == {"free", "query", "wait", "emit", "ended"}

(* Shapes; only a callback that waits has ticks left, and only recalled    *)
(* messages are remembered or told of.                                     *)
RecallTypeOK ==
  /\ ids \subseteq Msg /\ gone \subseteq Msg
  /\ recallEventCache \in [Msg -> 0..Window]
  /\ told \in [Msg -> 0..MaxTold] /\ reports \in [Msg -> Nat]
  /\ running \in [Recall -> [m : Msg, st : Stage, left : 0..Window]]
  /\ \A r \in Recall : running[r].st = "wait" <=> running[r].left > 0
  /\ \A m \in Msg : recallEventCache[m] > 0 \/ told[m] > 0 => m \in gone
  /\ \A m \in Msg : reports[m] > 0 => m \in ids

RecallInit ==
  /\ ids \in SUBSET Msg
  /\ recallEventCache = [m \in Msg |-> 0] /\ gone = {} /\ told = [m \in Msg |-> 0]
  /\ running = [r \in Recall |-> [m |-> CHOOSE m \in Msg : TRUE, st |-> "free", left |-> 0]]
  /\ reports = [m \in Msg |-> 0]

Stuck(r, t) == running[r].left              \* defect: nothing ends the wait
LeftAfter(r, t) == t - 1

(* The action: the cache remembers the message for five seconds.           *)
DeleteMsg(m) ==
  /\ m \in ids \ gone /\ gone' = gone \cup {m}
  /\ recallEventCache' = [recallEventCache EXCEPT ![m] = Window]
  /\ UNCHANGED <<ids, told, running, reports>>

RecalledElsewhere(m) ==
  /\ m \notin gone /\ gone' = gone \cup {m}
  /\ UNCHANGED <<ids, recallEventCache, told, running, reports>>

Wakes(r, m) == running[r].st = "wait" /\ running[r].m = m

(* The kernel tells: whoever waits for exactly this recall goes on, and    *)
(* the handler runs once more.                                             *)
OnMsgRecall(r, m) ==
  /\ running[r].st = "free" /\ m \in gone /\ told[m] < MaxTold
  /\ told' = [told EXCEPT ![m] = @ + 1]
  /\ running' = [q \in Recall |->
       IF q = r THEN [m |-> m, st |-> "query", left |-> 0]
       ELSE IF Wakes(q, m) THEN [m |-> m, st |-> "emit", left |-> 0] ELSE running[q]]
  /\ UNCHANGED <<ids, recallEventCache, gone, reports>>

NobodysOwn(m) == FALSE                      \* defect: both callbacks report
SelfDevice(m) == recallEventCache[m] > 0

(* The grey tip is queried: it is found or not, and of the bot's own       *)
(* operation or not.                                                       *)
Queried(r) ==
  /\ running[r].st = "query"
  /\ running' = [running EXCEPT ![r] =
       IF SelfDevice(running[r].m) THEN [running[r] EXCEPT !.st = "wait", !.left = Window]
       ELSE [running[r] EXCEPT !.st = "emit"]]
  /\ UNCHANGED <<ids, recallEventCache, gone, told, reports>>

NotFound(r) ==
  /\ running[r].st = "query" /\ running' = [running EXCEPT ![r].st = "ended"]
  /\ UNCHANGED <<ids, recallEventCache, gone, told, reports>>

Named(m) == ids \cup {m}

(* emitRecallMsg: with the short id the message has, or gets now.          *)
EmitRecallMsg(r) ==
  /\ running[r].st = "emit" /\ running' = [running EXCEPT ![r].st = "ended"]
  /\ ids' = Named(running[r].m)
  /\ reports' = [reports EXCEPT ![running[r].m] = @ + 1]
  /\ UNCHANGED <<recallEventCache, gone, told>>

Left(r) == LeftAfter(r, running[r].left)

(* A tick of the clock: cache entries and waits run out.                   *)
Tick ==
  /\ (\E m \in Msg : recallEventCache[m] > 0) \/ (\E r \in Recall : running[r].left > 0)
  /\ recallEventCache' = [m \in Msg |-> IF recallEventCache[m] = 0 THEN 0 ELSE recallEventCache[m] - 1]
  /\ running' = [r \in Recall |->
       IF running[r].left = 0 THEN running[r]
       ELSE [running[r] EXCEPT !.left = Left(r), !.st = IF Left(r) = 0 THEN "ended" ELSE "wait"]]
  /\ UNCHANGED <<ids, gone, told, reports>>

RecallNext ==
  \/ \E m \in Msg : DeleteMsg(m) \/ RecalledElsewhere(m)
  \/ \E r \in Recall : Queried(r) \/ NotFound(r) \/ EmitRecallMsg(r) \/ \E m \in Msg : OnMsgRecall(r, m)
  \/ Tick

RecallFair == WF_recallvars(Tick) /\ \A r \in Recall : WF_recallvars(Queried(r) \/ NotFound(r)) /\ WF_recallvars(EmitRecallMsg(r))
RecallSpec == RecallInit /\ [][RecallNext]_recallvars
RecallFairSpec == RecallSpec /\ RecallFair

----------------------------------------------------------------------------
(* A recall the bot ordered itself is reported once at most although the   *)
(* kernel tells of it twice, as long as the cache's five seconds outlast   *)
(* the second callback; and no recall is reported more often than told.    *)
OwnRecallOnce ==
  \A m \in Msg :
    /\ reports[m] <= told[m]
    /\ recallEventCache[m] > 0 => reports[m] <= 1

(* While the cache remembers the message, a report is about to come only   *)
(* from a callback that the other one has confirmed.                       *)
ConfirmedFirst ==
  \A m \in Msg : recallEventCache[m] > 0 /\ (reports[m] > 0 \/ \E r \in Recall : running[r].m = m /\ running[r].st = "emit")
                   => told[m] >= 2

(* No callback waits for ever: each reports or gives up.                   *)
CallbacksEnd == \A r \in Recall : running[r].st = "query" ~> running[r].st = "ended"

(* A recall the bot ordered is reported once at most and only after the    *)
(* kernel confirmed it, while the cache remembers it; none is reported more*)
(* often than told.                                                        *)
RecallSafe == RecallTypeOK /\ OwnRecallOnce /\ ConfirmedFirst
============================================================================
