------------------------------ MODULE NTEvent ------------------------------
(***************************************************************************)
(* How NapCat turns the kernel's callbacks into answers: NTEventWrapper    *)
(* (napcat-core/helper/event.ts).  A caller registers a task for one       *)
(* listener with a checker, calls a service, and waits for as many events  *)
(* as it asked for or for its timer.  Tasks stay in EventTask after their  *)
(* promise is settled and are only removed by a later event.               *)
(*                                                                         *)
(* A checker is the key it accepts; what an event carries is its key and   *)
(* the time it came.  A timer may fire late: the event loop is shared.     *)
(***************************************************************************)
EXTENDS Integers, FiniteSets

CONSTANTS
  Call,        \* calls of registerListen and callNormalEventV2
  Listener,    \* listener names, main and sub
  Key,         \* what the checkers tell apart
  Timeout,     \* the timeout of every call
  MaxWaits,    \* bound: largest callbackTimesToWait
  MaxClock     \* bound: how far the clock runs

ASSUME NTEventAssumption ==
  Timeout \in Nat /\ MaxWaits \in Nat \ {0} /\ MaxClock \in Nat

VARIABLES
  clock,       \* Date.now()
  req,         \* what each call asked for, NoRequest before
  status,      \* of the call's promise
  timer,       \* calls whose setTimeout is pending
  EventTask,   \* the tasks
  outstanding, \* calls whose service promise is not settled
  complete,    \* events counted for a call
  ret,         \* retEvent
  retData,     \* time of the last event counted
  answer,      \* what the promise was resolved with
  eventHeard   \* history: the events that came for a call while it waited, and when

eventvars == <<clock, req, status, timer, EventTask, outstanding, complete, ret, retData, answer, eventHeard>>

NoRequest == [how |-> "none"]
Never == -1
Time == 0..MaxClock
Request == [how : {"listen", "call"}, listener : Listener, want : Key, waits : 1..MaxWaits, at : Time]
Ret == {"none", "ok", "bad"}
Answer == [ret : Ret, data : Time]
NoAnswer == [ret |-> "none", data |-> Never]
Status == {"idle", "waiting", "resolved", "timedout", "refused"}
Asked == {c \in Call : status[c] # "idle"}
Deadline(c) == req[c].at + Timeout

(* Shapes; a timer or a task belongs to a call that was made, and exactly  *)
(* the resolved calls have an answer with an event in it.                  *)
NTEventTypeOK ==
  /\ clock \in Time
  /\ status \in [Call -> Status]
  /\ req \in [Call -> Request \cup {NoRequest}]
  /\ \A c \in Call : req[c] = NoRequest <=> status[c] = "idle"
  /\ timer \subseteq Asked /\ EventTask \subseteq Asked /\ outstanding \subseteq Asked
  /\ complete \in [Call -> 0..MaxWaits]
  /\ ret \in [Call -> Ret]
  /\ retData \in [Call -> Time \cup {Never}]
  /\ \A c \in Call : complete[c] = 0 <=> retData[c] = Never
  /\ answer \in [Call -> Answer \cup {NoAnswer}]
  /\ \A c \in Call : answer[c] # NoAnswer <=> status[c] = "resolved"
  /\ eventHeard \subseteq Asked \X Time

NTEventInit ==
  /\ clock = 0
  /\ req = [c \in Call |-> NoRequest]
  /\ status = [c \in Call |-> "idle"]
  /\ timer = {} /\ EventTask = {} /\ outstanding = {}
  /\ complete = [c \in Call |-> 0]
  /\ ret = [c \in Call |-> "none"]
  /\ retData = [c \in Call |-> Never]
  /\ answer = [c \in Call |-> NoAnswer]
  /\ eventHeard = {}

----------------------------------------------------------------------------

(* Registering: the timer is started and the task entered before the       *)
(* service is called.                                                      *)
Register(c, how, l, k, w) ==
  /\ status[c] = "idle"
  /\ clock + Timeout <= MaxClock
  /\ req' = [req EXCEPT ![c] = [how |-> how, listener |-> l, want |-> k, waits |-> w, at |-> clock]]
  /\ timer' = timer \cup {c}
  /\ EventTask' = EventTask \cup {c}

RegisterListen(c) ==
  \E l \in Listener, k \in Key, w \in 1..MaxWaits :
    /\ Register(c, "listen", l, k, w)
    /\ status' = [status EXCEPT ![c] = "waiting"]
    /\ UNCHANGED <<clock, outstanding, complete, ret, retData, answer, eventHeard>>

(* The service answers with a promise, or at once; or it does not exist,   *)
(* and the call throws inside the executor: the promise is rejected and    *)
(* the timer goes on.                                                      *)
CallNormalEvent(c) ==
  \E l \in Listener, k \in Key, w \in 1..MaxWaits :
    /\ Register(c, "call", l, k, w)
    /\ \/ status' = [status EXCEPT ![c] = "waiting"] /\ outstanding' = outstanding \cup {c}
       \/ status' = [status EXCEPT ![c] = "refused"] /\ UNCHANGED outstanding
    /\ UNCHANGED <<clock, complete, ret, retData, answer, eventHeard>>

RefusesWhenOver(c, r) == r = "bad" /\ c \notin timer   \* defect: hasRef() read the wrong way

(* eventRetHandle: a result its checker refuses ends the call only while   *)
(* the timer is pending (timeoutRef.hasRef()).                             *)
Refuses(c, r) == r = "bad" /\ c \in timer

ServiceReturns(c) ==
  \E r \in {"ok", "bad"} :
    /\ c \in outstanding
    /\ outstanding' = outstanding \ {c}
    /\ ret' = [ret EXCEPT ![c] = r]
    /\ timer' = IF Refuses(c, r) THEN timer \ {c} ELSE timer
    /\ status' = [status EXCEPT ![c] = IF Refuses(c, r) /\ @ = "waiting" THEN "refused" ELSE @]
    /\ UNCHANGED <<clock, req, EventTask, complete, retData, answer, eventHeard>>

(* The service's promise is rejected: so is the call's, if it still waits. *)
ServiceRejects(c) ==
  /\ c \in outstanding
  /\ outstanding' = outstanding \ {c}
  /\ status' = [status EXCEPT ![c] = IF @ = "waiting" THEN "refused" ELSE @]
  /\ UNCHANGED <<clock, req, timer, EventTask, complete, ret, retData, answer, eventHeard>>

----------------------------------------------------------------------------
NeverExpired(c) == FALSE                     \* defect: the age of a task is not looked at
Expired(c) == Deadline(c) < clock
Of(l) == {c \in EventTask : req[c].listener = l}

(* dispatcherListener goes through the tasks of the listener: an expired   *)
(* one is dropped, one whose checker accepts the event counts it and is    *)
(* settled by the last event it waits for.  What a task counts after its   *)
(* promise is settled nobody reads: it is left out.                        *)
Hit(l, k) == {c \in Of(l) : status[c] = "waiting" /\ ~Expired(c) /\ req[c].want = k}
Full(l, k) == {c \in Hit(l, k) : complete[c] + 1 >= req[c].waits}
For(l, k) == {c \in Call : status[c] = "waiting" /\ req[c].listener = l /\ req[c].want = k}
Stopped(l, k) == Full(l, k)

Dispatch(l, k) ==
  /\ \E c \in Asked : req[c].listener = l   \* createListenerFunction registered it
  /\ EventTask' = EventTask \ {c \in Of(l) : Expired(c)}
  /\ complete' = [c \in Call |-> IF c \in Hit(l, k) THEN complete[c] + 1 ELSE complete[c]]
  /\ retData' = [c \in Call |-> IF c \in Hit(l, k) THEN clock ELSE retData[c]]
  /\ timer' = timer \ Stopped(l, k)
  /\ status' = [c \in Call |-> IF c \in Full(l, k) THEN "resolved" ELSE status[c]]
  /\ answer' = [c \in Call |-> IF c \in Full(l, k) THEN [ret |-> ret[c], data |-> clock] ELSE answer[c]]
  /\ eventHeard' = eventHeard \cup {<<c, clock>> : c \in For(l, k)}
  /\ UNCHANGED <<clock, req, outstanding, ret>>

(* sendDataCallback by the timer: whoever saw an event is resolved with    *)
(* it, even if it asked for more.                                          *)
Partial(c) == complete[c] > 0

TimeoutFires(c) ==
  /\ c \in timer /\ clock >= Deadline(c)
  /\ timer' = timer \ {c}
  /\ status' = [status EXCEPT ![c] = IF @ # "waiting" THEN @ ELSE IF Partial(c) THEN "resolved" ELSE "timedout"]
  /\ answer' = [answer EXCEPT ![c] = IF status[c] = "waiting" /\ Partial(c)
                                     THEN [ret |-> ret[c], data |-> retData[c]] ELSE @]
  /\ UNCHANGED <<clock, req, EventTask, outstanding, complete, ret, retData, eventHeard>>

TimePasses ==
  /\ clock < MaxClock /\ clock' = clock + 1
  /\ UNCHANGED <<req, status, timer, EventTask, outstanding, complete, ret, retData, answer, eventHeard>>

NTEventNext ==
  \/ \E c \in Call : RegisterListen(c) \/ CallNormalEvent(c) \/ ServiceReturns(c)
                     \/ ServiceRejects(c) \/ TimeoutFires(c)
  \/ \E l \in Listener, k \in Key : Dispatch(l, k)
  \/ TimePasses

NTEventSpec == NTEventInit /\ [][NTEventNext]_eventvars
NTEventFair ==
  /\ WF_eventvars(TimePasses)
  /\ \A c \in Call : WF_eventvars(TimeoutFires(c))
NTEventFairSpec == NTEventSpec /\ NTEventFair

----------------------------------------------------------------------------
InWindow(c, t) == req[c].at <= t /\ t <= Deadline(c)

(* A call that waits has a timer that will end it, whatever the service    *)
(* and the events do.                                                      *)
WaitingIsTimed == \A c \in Call : status[c] = "waiting" => c \in timer

(* A resolved call is resolved with an event of its own: one that came on  *)
(* its listener, passed its checker, and came within its timeout, however  *)
(* late the timer fires.                                                   *)
AnswersAreOwn ==
  \A c \in Call : status[c] = "resolved" =>
    /\ InWindow(c, answer[c].data)
    /\ <<c, answer[c].data>> \in eventHeard

(* A call only times out when no event it waits for came between its       *)
(* registration and its deadline.                                          *)
NoEventLost ==
  \A c \in Call : status[c] = "timedout" =>
    \A t \in Time : req[c].at < t /\ t < Deadline(c) => <<c, t>> \notin eventHeard

(* A result the caller's checker refuses is never part of an answer: when  *)
(* the events win the race, the answer was given before the result came.   *)
RefusedResultNeverWins == \A c \in Call : answer[c].ret # "bad"

(* Every call is settled.                                                  *)
EveryCallSettles == \A c \in Call : status[c] = "waiting" ~> status[c] \in {"resolved", "timedout", "refused"}

(* A waiting call has its timer; what resolves it is an event of its own   *)
(* that came in time; it times out only if there was none; and a refused   *)
(* result is never part of an answer.                                      *)
NTEventSafe ==
  /\ NTEventTypeOK
  /\ WaitingIsTimed
  /\ AnswersAreOwn
  /\ NoEventLost
  /\ RefusedResultNeverWins
============================================================================
