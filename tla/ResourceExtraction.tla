------------------------- MODULE ResourceExtraction -------------------------
(***************************************************************************)
(* The commands 4399, sauth and 163 of the official bot: a handler checks  *)
(* the limits and the balance, marks its chat busy, asks the upstream      *)
(* account service, charges, and delivers (official_qqbot/bot.py,          *)
(* shared_cooldown.py, handlers/sauth.py).                                 *)
(*                                                                         *)
(* Every event of the gateway starts a task of its own, so handlers of one *)
(* user interleave at their awaits: while they queue for the upstream      *)
(* semaphore, while the upstream works and while the result is sent.  The  *)
(* account is looked up once, when the handler starts.                     *)
(***************************************************************************)
EXTENDS Integers, Sequences, FiniteSets, SequencesExt

CONSTANTS
  Task,          \* bound: how many handlers of the user may be under way
  Chat,          \* the <<openid, chat>> pairs the user writes from
  Feature,       \* the commands of this instance
  Cost,          \* EXTRACT_POINTS_COST
  Funds,         \* bound: the balance the user starts with
  RateLimit,     \* SAUTH_RATE_LIMIT
  RateWindow,    \* SAUTH_RATE_WINDOW
  Kept,          \* the 3600 s record_rate_usage remembers
  Cooldown,      \* SAUTH_163_COOLDOWN
  Slots,         \* the upstream semaphore (5)
  MaxRetries,    \* MAX_RETRIES
  MaxTime        \* bound: the clock stops here

Account == {"own", "qq"}   \* the account of the openid, and of a QQ number

ASSUME FeatureAssumption ==
  Feature \subseteq {"4399", "sauth", "163"} /\ Cost \in [Feature -> Nat \ {0}]
ASSUME SetsAssumption == IsFiniteSet(Task) /\ IsFiniteSet(Chat)
ASSUME BoundsAssumption ==
  /\ RateLimit \in Nat \ {0} /\ RateWindow \in Nat \ {0} /\ Cooldown \in Nat \ {0}
  /\ Kept \in Nat /\ Kept >= RateWindow
  /\ Slots \in Nat \ {0} /\ MaxRetries \in Nat \ {0}
  /\ Funds \in Nat /\ MaxTime \in Nat

VARIABLES
  task,       \* the local variables of each handler
  line,       \* the handlers waiting for _semaphore, first come first served
  busy,       \* _active_resource_request_keys, as <<feature, chat>>
  account,    \* what _account_key answers for the user now
  points,     \* the balances in _sign_data
  rate,       \* cooldowns.json: "<feature>_rate"
  lastUse,    \* cooldowns.json: "163_cd"
  now

vars == <<task, line, busy, account, points, rate, lastUse, now>>

NeverUsed == 0 - Cooldown
Idle == [pc |-> "idle"]
Phase == {"queued", "calling", "sending"}
Tasks ==
  [pc : Phase, feature : Feature, chat : Chat, account : Account,
   tries : 0..MaxRetries - 1, outcome : {"none", "failed", "paid", "unpaid"}]

TypeOK ==
  /\ task \in [Task -> {Idle} \cup Tasks]
  /\ line \in Seq(Task)
  /\ busy \subseteq Feature \X Chat
  /\ account \in Account
  /\ points \in [Account -> Nat]
  /\ rate \in [Feature -> [Account -> Seq(0..MaxTime)]]
  /\ lastUse \in [Account -> {NeverUsed} \cup 0..MaxTime]
  /\ now \in 0..MaxTime

Init ==
  /\ task = [t \in Task |-> Idle]
  /\ line = <<>>
  /\ busy = {}
  /\ account = "own"
  /\ points = [a \in Account |-> IF a = "own" THEN Funds ELSE 0]
  /\ rate = [f \in Feature |-> [a \in Account |-> <<>>]]
  /\ lastUse = [a \in Account |-> NeverUsed]
  /\ now = 0

Key(t) == <<task[t].feature, task[t].chat>>
Active(t) == task[t].pc # "idle"

-----------------------------------------------------------------------------
(* shared_cooldown.py *)

\* [ts for ts in log if now - ts < window]
Within(log, window) ==
  LET kept[i \in 0..Len(log)] ==
        IF i = 0 THEN <<>>
        ELSE IF now - log[i] < window THEN Append(kept[i - 1], log[i]) ELSE kept[i - 1]
  IN  kept[Len(log)]

\* Fault: one success too many before the limit bites.
OverLimitByOne(log) == Len(Within(log, RateWindow)) > RateLimit
\* check_rate_limit
OverLimit(log) == Len(Within(log, RateWindow)) >= RateLimit

\* check_cooldown
Cooling(a) == now - lastUse[a] < Cooldown

\* record_rate_usage
Recorded(log) == Append(Within(log, Kept), now)

\* record_usage, which only the command 163 calls.
Used(f, a) == IF f = "163" THEN [lastUse EXCEPT ![a] = now] ELSE lastUse

-----------------------------------------------------------------------------
(* The handler *)

\* Fault: a busy chat is served again.
AcceptsBusy(f, c) ==
  /\ f = "sauth" => ~OverLimit(rate[f][account])
  /\ f = "163" => ~Cooling(account)
  /\ points[account] >= Cost[f]
\* The checks before the upstream is asked; a handler that fails one replies
\* and ends.  No 163 account is ever banned: only nfa calls check_hour_limit.
Accepts(f, c) ==
  /\ f = "sauth" => ~OverLimit(rate[f][account])
  /\ f = "163" => ~Cooling(account)
  /\ points[account] >= Cost[f]
  /\ <<f, c>> \notin busy

\* handle_command up to the first await: nothing runs between the checks and
\* _begin_resource_request.
Begin(t, f, c) ==
  /\ ~Active(t)
  /\ Accepts(f, c)
  /\ busy' = busy \cup {<<f, c>>}
  /\ rate' = IF f = "sauth"
               THEN [rate EXCEPT ![f][account] = Within(rate[f][account], RateWindow)] ELSE rate
  /\ task' = [task EXCEPT ![t] =
       [pc |-> "queued", feature |-> f, chat |-> c, account |-> account,
        tries |-> 0, outcome |-> "none"]]
  /\ line' = Append(line, t)
  /\ UNCHANGED <<account, points, lastUse, now>>

\* Fault: the semaphore is not consulted.
Overtake(t) ==
  /\ task[t].pc = "queued"
  /\ line' = Tail(line)
  /\ task' = [task EXCEPT ![t].pc = "calling"]
  /\ UNCHANGED <<busy, account, points, rate, lastUse, now>>
\* async with _semaphore.
Acquire(t) ==
  /\ task[t].pc = "queued" /\ line # <<>> /\ Head(line) = t
  /\ Cardinality({u \in Task : task[u].pc = "calling"}) < Slots
  /\ line' = Tail(line)
  /\ task' = [task EXCEPT ![t].pc = "calling"]
  /\ UNCHANGED <<busy, account, points, rate, lastUse, now>>

\* Fault: the attempts start over when they are used up.
RetryForever(t) ==
  /\ task[t].pc = "calling"
  /\ task' = [task EXCEPT ![t].tries = (@ + 1) % MaxRetries]
  /\ UNCHANGED <<line, busy, account, points, rate, lastUse, now>>
\* No connection, a timeout or a 5xx: again, as long as attempts are left.
\* The semaphore is kept while the handler sleeps.
Retry(t) ==
  /\ task[t].pc = "calling" /\ task[t].tries < MaxRetries - 1
  /\ task' = [task EXCEPT ![t].tries = @ + 1]
  /\ UNCHANGED <<line, busy, account, points, rate, lastUse, now>>

\* The upstream refuses, or the attempts are used up.
Fail(t) ==
  /\ task[t].pc = "calling"
  /\ task' = [task EXCEPT ![t].pc = "sending", ![t].outcome = "failed"]
  /\ UNCHANGED <<line, busy, account, points, rate, lastUse, now>>

Affords(a, f) == points[a] >= Cost[f]
\* try_spend_points
Charged(a, f) == IF Affords(a, f) THEN [points EXCEPT ![a] = @ - Cost[f]] ELSE points

\* An account came back: charge the account the handler started with, record
\* the use.  A refused charge is logged and nothing else.
Succeed(t) ==
  LET a == task[t].account
      f == task[t].feature
  IN  /\ task[t].pc = "calling"
      /\ points' = Charged(a, f)
      /\ lastUse' = Used(f, a)
      /\ rate' = [rate EXCEPT ![f][a] = Recorded(rate[f][a])]
      /\ task' = [task EXCEPT ![t].pc = "sending",
                              ![t].outcome = IF Affords(a, f) THEN "paid" ELSE "unpaid"]
      /\ UNCHANGED <<line, busy, account, now>>

\* The result, or the refusal, is sent (or not: the outcome of the delivery
\* changes nothing) and _end_resource_request frees the chat.
Finish(t) ==
  /\ task[t].pc = "sending"
  /\ task' = [task EXCEPT ![t] = Idle]
  /\ busy' = busy \ {Key(t)}
  /\ UNCHANGED <<line, account, points, rate, lastUse, now>>

\* An exception after the upstream answered: the access token can not be
\* refreshed (get_auth_header stands before the try of the senders), or the
\* control service does not take the usage record.  Nothing frees the chat.
Abort(t) ==
  /\ task[t].pc = "sending"
  /\ task' = [task EXCEPT ![t] = Idle]
  /\ UNCHANGED <<line, busy, account, points, rate, lastUse, now>>

\* /bindqq from another chat: the balance moves to the account of the number.
BindQQ ==
  /\ account = "own"
  /\ account' = "qq"
  /\ points' = [points EXCEPT !["own"] = 0, !["qq"] = points["qq"] + points["own"]]
  /\ UNCHANGED <<task, line, busy, rate, lastUse, now>>

Tick ==
  /\ now < MaxTime
  /\ now' = now + 1
  /\ UNCHANGED <<task, line, busy, account, points, rate, lastUse>>

Step(t) == Acquire(t) \/ Retry(t) \/ Fail(t) \/ Succeed(t) \/ Finish(t) \/ Abort(t)

Next ==
  \/ \E t \in Task, f \in Feature, c \in Chat : Begin(t, f, c)
  \/ \E t \in Task : Step(t)
  \/ BindQQ
  \/ Tick

Spec == Init /\ [][Next]_vars

\* The loop runs every task that can go on; requests to the upstream and to
\* the platform have timeouts.  Nobody has to send commands or bind.
FairSpec == Spec /\ \A t \in Task : WF_vars(Step(t))

-----------------------------------------------------------------------------
(* Properties *)

\* Two handlers never serve one feature in one chat at the same time, and a
\* handler under way holds its key until it ends
\* (_begin_resource_request, _end_resource_request).
OneHandlerPerKey ==
  /\ \A t \in Task : Active(t) => Key(t) \in busy
  /\ \A t, u \in Task : t # u /\ Active(t) /\ Active(u) => Key(t) # Key(u)

Uses(f, a, window) == Len(Within(rate[f][a], window))

\* The limits are checked before the await and recorded after it, so each chat
\* may have one request in flight past the check: an account gets at most
\* RateLimit - 1 + the number of its chats within the window of sauth ...
SauthBurstBounded ==
  "sauth" \in Feature =>
    \A a \in Account : Uses("sauth", a, RateWindow) <= RateLimit - 1 + Cardinality(Chat)

\* ... and at most one 163 account per chat within a cooldown.
NeteaseBurstBounded ==
  "163" \in Feature =>
    \A a \in Account : Uses("163", a, Cooldown) <= Cardinality(Chat)

\* The semaphore never lets more than Slots requests through, and the tasks in
\* its line are exactly the ones waiting (handlers/sauth.py).
LineIsExact ==
  /\ Cardinality({t \in Task : task[t].pc = "calling"}) <= Slots
  /\ ToSet(line) = {t \in Task : task[t].pc = "queued"}
  /\ Len(line) = Cardinality(ToSet(line))

\* A handler ends, whatever the upstream does: no wait for the semaphore and no
\* retry lasts forever.
HandlersEnd == \A t \in Task : Active(t) ~> ~Active(t)

\* Balances stay non-negative, the line for the upstream is exact, and what
\* an account gets within a window is bounded although checks and records
\* are an await apart.
ExtractionSafe == TypeOK /\ LineIsExact /\ SauthBurstBounded /\ NeteaseBurstBounded
=============================================================================
