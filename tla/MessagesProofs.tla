-------------------------- MODULE MessagesProofs ---------------------------
(***************************************************************************)
(* The safety properties of NapCat's kernel calls, sending, forwarding,    *)
(* recalls, packet resources and clean-up hold of every behaviour of their *)
(* specifications, for every value of the constants.                       *)
(***************************************************************************)
EXTENDS NTEvent, MsgSend, MsgForward, ForwardUpload, OneBotRecall, Resource,
  CleanTask, FiniteSetTheorems, SequenceTheorems, WellFoundedInduction, TLAPS

----------------------------------------------------------------------------
(* A call that waits for an event is resolved by one of its own that came  *)
(* in time and times out only without one, for any number of calls, events *)
(* and timers.                                                             *)

(* Shapes of the table of calls.                                           *)
CallShapes ==
  /\ clock \in Time
  /\ status \in [Call -> Status] /\ req \in [Call -> Request \cup {NoRequest}]
  /\ timer \subseteq Call /\ EventTask \subseteq Call /\ outstanding \subseteq Call
  /\ complete \in [Call -> 0..MaxWaits] /\ ret \in [Call -> Ret]
  /\ retData \in [Call -> Time \cup {Never}] /\ answer \in [Call -> Answer \cup {NoAnswer}]
  /\ eventHeard \subseteq Call \X Time

CallMade(c) ==
  /\ req[c] = NoRequest <=> status[c] = "idle"
  /\ c \in timer \cup EventTask \cup outstanding => status[c] # "idle"
  /\ \A t \in Time : <<c, t>> \in eventHeard => status[c] # "idle"
  /\ status[c] = "idle" => ret[c] = "none" /\ complete[c] = 0
  /\ status[c] # "idle" => req[c].at <= clock

(* While a call waits, its task is there until its deadline has passed,    *)
(* and has counted any event that came in time.                            *)
CallWaits(c) ==
  status[c] = "waiting" =>
    /\ c \in timer /\ ret[c] # "bad" /\ complete[c] < req[c].waits
    /\ clock <= Deadline(c) => c \in EventTask
    /\ \A t \in Time : req[c].at < t /\ t < Deadline(c) /\ <<c, t>> \in eventHeard => complete[c] > 0

(* What a call counted, and what it was answered with, is its own.         *)
CallCounts(c) ==
  /\ complete[c] = 0 <=> retData[c] = Never
  /\ complete[c] > 0 => InWindow(c, retData[c]) /\ <<c, retData[c]>> \in eventHeard

CallAnswered(c) ==
  /\ answer[c] # NoAnswer <=> status[c] = "resolved"
  /\ answer[c].ret # "bad"
  /\ status[c] = "resolved" => InWindow(c, answer[c].data) /\ <<c, answer[c].data>> \in eventHeard
  /\ status[c] = "timedout" =>
       \A t \in Time : req[c].at < t /\ t < Deadline(c) => <<c, t>> \notin eventHeard

CallOK(c) == CallMade(c) /\ CallWaits(c) /\ CallCounts(c) /\ CallAnswered(c)
NTEventInv == CallShapes /\ \A c \in Call : CallOK(c)

(* The invariant is enough for the properties.                             *)
LEMMA EventsSuffice == NTEventInv => NTEventSafe
<1> SUFFICES ASSUME NTEventInv PROVE NTEventSafe
  OBVIOUS
<1>1. NTEventTypeOK
  <2>1. timer \subseteq Asked /\ EventTask \subseteq Asked /\ outstanding \subseteq Asked
    BY DEF NTEventInv, CallShapes, CallOK, CallMade, Asked
  <2>2. eventHeard \subseteq Asked \X Time
    BY DEF NTEventInv, CallShapes, CallOK, CallMade, Asked
  <2> QED
    BY <2>1, <2>2 DEF NTEventTypeOK, NTEventInv, CallShapes, CallOK, CallMade, CallCounts, CallAnswered
<1>2. WaitingIsTimed  BY DEF WaitingIsTimed, NTEventInv, CallOK, CallWaits
<1>3. AnswersAreOwn /\ NoEventLost /\ RefusedResultNeverWins
  BY DEF AnswersAreOwn, NoEventLost, RefusedResultNeverWins, NTEventInv, CallOK, CallAnswered
<1> QED  BY <1>1, <1>2, <1>3 DEF NTEventSafe

(* No call has been made and no listener registered.                       *)
LEMMA EventsStart == NTEventInit => NTEventInv
<1> SUFFICES ASSUME NTEventInit PROVE NTEventInv
  OBVIOUS
<1>1. CallShapes
  BY NTEventAssumption DEF NTEventInit, CallShapes, Time, Status, Ret, Never, NoAnswer
<1>2. ASSUME NEW c \in Call PROVE CallOK(c)
  <2>1. /\ status[c] = "idle" /\ req[c] = NoRequest /\ ret[c] = "none" /\ complete[c] = 0
        /\ retData[c] = Never /\ answer[c] = NoAnswer
        /\ timer = {} /\ EventTask = {} /\ outstanding = {} /\ eventHeard = {}
    BY <1>2 DEF NTEventInit
  <2> QED  BY <2>1 DEF CallOK, CallMade, CallWaits, CallCounts, CallAnswered, NoAnswer
<1> QED  BY <1>1, <1>2 DEF NTEventInv

(* A request has its fields.                                               *)
LEMMA RequestFields ==
  ASSUME CallShapes, NEW c \in Call, CallMade(c), status[c] # "idle"
  PROVE  /\ req[c] \in Request /\ req[c].at \in Nat /\ req[c].at \in Time
         /\ req[c].waits \in 1..MaxWaits /\ Deadline(c) \in Nat /\ clock \in Nat
<1>1. req[c] \in Request  BY DEF CallShapes, CallMade
<1> QED  BY <1>1, NTEventAssumption DEF Request, Time, Deadline, CallShapes

(* What a step does to one call leaves what is said of the others.         *)
LEMMA OthersKept ==
  ASSUME NEW x, CallOK(x), UNCHANGED <<clock, eventHeard>>,
         status'[x] = status[x], req'[x] = req[x], complete'[x] = complete[x],
         ret'[x] = ret[x], retData'[x] = retData[x], answer'[x] = answer[x],
         x \in timer' <=> x \in timer, x \in EventTask' <=> x \in EventTask,
         x \in outstanding' => x \in outstanding
  PROVE  CallOK(x)'
<1>1. Deadline(x)' = Deadline(x)  BY DEF Deadline
<1>2. \A t : (req'[x].at <= t /\ t <= Deadline(x)') <=> (req[x].at <= t /\ t <= Deadline(x))
  BY <1>1
<1>3. CallMade(x)'  BY DEF CallOK, CallMade
<1>4. CallWaits(x)'  BY <1>1 DEF CallOK, CallWaits
<1>5. CallCounts(x)'  BY <1>1 DEF CallOK, CallCounts, InWindow
<1>6. CallAnswered(x)'  BY <1>1 DEF CallOK, CallAnswered, InWindow
<1> QED  BY <1>3, <1>4, <1>5, <1>6 DEF CallOK

(* A call is made: its timer and its task are there before the service is  *)
(* asked, and whoever refuses at once has left both behind.                *)
LEMMA RegisterKeeps ==
  ASSUME NTEventInv, NEW c \in Call, RegisterListen(c) \/ CallNormalEvent(c)
  PROVE  NTEventInv'
<1> USE DEF NTEventInv
<1>1. PICK how \in {"listen", "call"}, l \in Listener, k \in Key, w \in 1..MaxWaits : Register(c, how, l, k, w)
  BY DEF RegisterListen, CallNormalEvent
<1>2. PICK s \in {"waiting", "refused"} : status' = [status EXCEPT ![c] = s]
  BY DEF RegisterListen, CallNormalEvent
<1>3. /\ UNCHANGED <<clock, complete, ret, retData, answer, eventHeard>>
      /\ outstanding' \in {outstanding, outstanding \cup {c}}
  BY DEF RegisterListen, CallNormalEvent
<1>4. PICK R : R = [how |-> how, listener |-> l, want |-> k, waits |-> w, at |-> clock]
  OBVIOUS
<1>5. /\ status[c] = "idle" /\ req' = [req EXCEPT ![c] = R]
      /\ timer' = timer \cup {c} /\ EventTask' = EventTask \cup {c}
  BY <1>1, <1>4 DEF Register
<1>6. R \in Request /\ R # NoRequest /\ R.at = clock /\ R.waits = w
  BY <1>4 DEF Request, NoRequest, CallShapes
<1>7. /\ req'[c] = R /\ status'[c] = s
      /\ \A x \in Call : x # c => req'[x] = req[x] /\ status'[x] = status[x]
  BY <1>2, <1>5 DEF CallShapes
<1>8. CallShapes'  BY <1>2, <1>3, <1>5, <1>6 DEF CallShapes, Status
<1>9. CallOK(c)'
  <2>1. CallOK(c)  OBVIOUS
  <2>2. /\ ret[c] = "none" /\ complete[c] = 0 /\ answer[c] = NoAnswer /\ retData[c] = Never
        /\ \A t \in Time : <<c, t>> \notin eventHeard
    BY <2>1, <1>5 DEF CallOK, CallMade, CallCounts, CallAnswered
  <2>3. clock \in Nat /\ w > 0 /\ w \in Nat  BY NTEventAssumption DEF CallShapes, Time
  <2>4. CallMade(c)'  BY <2>2, <2>3, <1>3, <1>6, <1>7 DEF CallMade
  <2>5. CallWaits(c)'
    BY <2>2, <2>3, <1>3, <1>5, <1>6, <1>7 DEF CallWaits
  <2>6. CallCounts(c)' /\ CallAnswered(c)'
    BY <2>2, <1>3, <1>7 DEF CallCounts, CallAnswered, NoAnswer
  <2> QED  BY <2>4, <2>5, <2>6 DEF CallOK
<1>10. \A x \in Call : x # c => CallOK(x)'  BY <1>3, <1>5, <1>7, OthersKept
<1> QED  BY <1>8, <1>9, <1>10

(* The service answers or fails: a result that is refused ends the call    *)
(* while its timer runs, and never afterwards.                             *)
LEMMA ServiceKeeps ==
  ASSUME NTEventInv, NEW c \in Call, ServiceReturns(c) \/ ServiceRejects(c)
  PROVE  NTEventInv'
<1> USE DEF NTEventInv
<1>1. /\ UNCHANGED <<clock, req, EventTask, complete, retData, answer, eventHeard>>
      /\ outstanding' \subseteq outstanding /\ c \in outstanding
  BY DEF ServiceReturns, ServiceRejects
<1>2. CallOK(c)  OBVIOUS
<1>3. status[c] # "idle"  BY <1>1, <1>2 DEF CallOK, CallMade
<1>4. PICK r \in Ret, s \in Status :
        /\ ret' = [ret EXCEPT ![c] = r] /\ status' = [status EXCEPT ![c] = s]
        /\ s = status[c] \/ (status[c] = "waiting" /\ s = "refused")
        /\ s = "waiting" => timer' = timer /\ r # "bad"
        /\ timer' \in {timer, timer \ {c}}
  <2>1. CASE ServiceReturns(c)
    <3>1. PICK r \in {"ok", "bad"} :
            /\ ret' = [ret EXCEPT ![c] = r]
            /\ timer' = IF Refuses(c, r) THEN timer \ {c} ELSE timer
            /\ status' = [status EXCEPT ![c] =
                 IF Refuses(c, r) /\ status[c] = "waiting" THEN "refused" ELSE status[c]]
      BY <2>1 DEF ServiceReturns, CallShapes
    <3>2. status[c] = "waiting" => c \in timer  BY <1>2 DEF CallOK, CallWaits
    <3>3. r \in Ret /\ status[c] \in Status /\ "refused" \in Status  BY DEF Ret, Status, CallShapes
    <3>4. CASE Refuses(c, r) /\ status[c] = "waiting"  BY <3>1, <3>3, <3>4
    <3>5. CASE ~(Refuses(c, r) /\ status[c] = "waiting")
      <4>1. status' = [status EXCEPT ![c] = status[c]] /\ timer' \in {timer, timer \ {c}}
        BY <3>1, <3>5
      <4>2. status[c] = "waiting" => timer' = timer /\ r # "bad"
        BY <3>1, <3>2, <3>5 DEF Refuses
      <4> QED  BY <3>1, <3>3, <4>1, <4>2
    <3> QED  BY <3>4, <3>5
  <2>2. CASE ServiceRejects(c)
    <3>1. PICK s \in Status :
            /\ status' = [status EXCEPT ![c] = s] /\ timer' = timer
            /\ s = status[c] \/ (status[c] = "waiting" /\ s = "refused")
            /\ s # "waiting"
      BY <2>2 DEF ServiceRejects, CallShapes, Status
    <3>2. ret' = [ret EXCEPT ![c] = ret[c]] /\ ret[c] \in Ret  BY <2>2 DEF ServiceRejects, CallShapes
    <3> QED  BY <3>1, <3>2
  <2> QED  BY <2>1, <2>2
<1>5. /\ ret'[c] = r /\ status'[c] = s
      /\ \A x \in Call : x # c => ret'[x] = ret[x] /\ status'[x] = status[x]
  BY <1>4 DEF CallShapes
<1>6. CallShapes'  BY <1>1, <1>4 DEF CallShapes
<1>7. CallOK(c)'
  <2>1. CallMade(c)'  BY <1>1, <1>2, <1>3, <1>4, <1>5 DEF CallOK, CallMade
  <2>2. CallWaits(c)'
    <3>1. CASE s = "waiting"
      BY <3>1, <1>1, <1>2, <1>4, <1>5 DEF CallOK, CallWaits, Deadline
    <3>2. CASE s # "waiting"  BY <3>2, <1>5 DEF CallWaits
    <3> QED  BY <3>1, <3>2
  <2>3. CallCounts(c)'  BY <1>1, <1>2 DEF CallOK, CallCounts, InWindow, Deadline
  <2>4. CallAnswered(c)'
    BY <1>1, <1>2, <1>4, <1>5 DEF CallOK, CallAnswered, InWindow, Deadline
  <2> QED  BY <2>1, <2>2, <2>3, <2>4 DEF CallOK
<1>8. \A x \in Call : x # c => CallOK(x)'  BY <1>1, <1>4, <1>5, OthersKept
<1> QED  BY <1>6, <1>7, <1>8

(* The timer fires: what was counted is the answer, and with nothing       *)
(* counted no event in time was missed.                                    *)
LEMMA TimeoutKeeps ==
  ASSUME NTEventInv, NEW c \in Call, TimeoutFires(c)
  PROVE  NTEventInv'
<1> USE DEF NTEventInv
<1>1. /\ UNCHANGED <<clock, req, EventTask, outstanding, complete, ret, retData, eventHeard>>
      /\ c \in timer /\ timer' = timer \ {c}
  BY DEF TimeoutFires
<1>2. CallOK(c)  OBVIOUS
<1>3. status[c] # "idle"  BY <1>1, <1>2 DEF CallOK, CallMade
<1>4. PICK a \in Answer \cup {NoAnswer}, s \in Status :
        /\ answer' = [answer EXCEPT ![c] = a] /\ status' = [status EXCEPT ![c] = s]
        /\ \/ status[c] # "waiting" /\ s = status[c] /\ a = answer[c]
           \/ /\ status[c] = "waiting" /\ complete[c] > 0 /\ s = "resolved"
              /\ a = [ret |-> ret[c], data |-> retData[c]] /\ a # NoAnswer
           \/ status[c] = "waiting" /\ complete[c] = 0 /\ s = "timedout" /\ a = answer[c]
  <2>1. /\ status' = [status EXCEPT ![c] = IF status[c] # "waiting" THEN status[c]
                        ELSE IF Partial(c) THEN "resolved" ELSE "timedout"]
        /\ answer' = [answer EXCEPT ![c] = IF status[c] = "waiting" /\ Partial(c)
                        THEN [ret |-> ret[c], data |-> retData[c]] ELSE answer[c]]
    BY DEF TimeoutFires, CallShapes
  <2>2. /\ status[c] \in Status /\ answer[c] \in Answer \cup {NoAnswer} /\ complete[c] \in Nat
        /\ {"resolved", "timedout"} \subseteq Status
    BY NTEventAssumption DEF CallShapes, Status
  <2>3. CASE status[c] # "waiting"
    <3>1. status' = [status EXCEPT ![c] = status[c]] /\ answer' = [answer EXCEPT ![c] = answer[c]]
      BY <2>1, <2>3
    <3> QED  BY <3>1, <2>2, <2>3
  <2>4. CASE status[c] = "waiting" /\ complete[c] > 0
    <3>1. PICK a : a = [ret |-> ret[c], data |-> retData[c]]  OBVIOUS
    <3>2. a \in Answer /\ a # NoAnswer
      <4>1. retData[c] \in Time /\ retData[c] # Never  BY <2>4, <1>2 DEF CallOK, CallCounts, CallShapes
      <4>2. a.data = retData[c] /\ NoAnswer.data = Never  BY <3>1 DEF NoAnswer
      <4>3. a \in Answer  BY <3>1, <4>1 DEF Answer, CallShapes
      <4> QED  BY <4>1, <4>2, <4>3
    <3>3. status' = [status EXCEPT ![c] = "resolved"] /\ answer' = [answer EXCEPT ![c] = a]
      BY <2>1, <2>4, <3>1 DEF Partial
    <3> QED  BY <3>1, <3>2, <3>3, <2>2, <2>4
  <2>5. CASE status[c] = "waiting" /\ complete[c] = 0
    <3>1. status' = [status EXCEPT ![c] = "timedout"] /\ answer' = [answer EXCEPT ![c] = answer[c]]
      BY <2>1, <2>5 DEF Partial
    <3> QED  BY <3>1, <2>2, <2>5
  <2> QED  BY <2>2, <2>3, <2>4, <2>5
<1>5. /\ answer'[c] = a /\ status'[c] = s
      /\ \A x \in Call : x # c => answer'[x] = answer[x] /\ status'[x] = status[x]
  BY <1>4 DEF CallShapes
<1>6. CallShapes'  BY <1>1, <1>4 DEF CallShapes
<1>7. CallOK(c)'
  <2>1. CallMade(c)'
    <3>1. s # "idle"  BY <1>3, <1>4
    <3> QED  BY <3>1, <1>1, <1>2, <1>3, <1>5 DEF CallOK, CallMade
  <2>2. CallWaits(c)'  BY <1>4, <1>5 DEF CallWaits
  <2>3. CallCounts(c)'  BY <1>1, <1>2 DEF CallOK, CallCounts, InWindow, Deadline
  <2>4. CallAnswered(c)'
    <3> USE DEF CallOK, CallAnswered, InWindow, Deadline
    <3>1. CASE status[c] # "waiting"  BY <3>1, <1>1, <1>2, <1>4, <1>5
    <3>2. CASE status[c] = "waiting" /\ complete[c] > 0
      <4>1. s = "resolved" /\ a # NoAnswer /\ a.ret = ret[c] /\ a.data = retData[c]
        BY <3>2, <1>4
      <4>2. ret[c] # "bad"  BY <3>2, <1>2 DEF CallWaits
      <4> QED  BY <4>1, <4>2, <3>2, <1>1, <1>2, <1>5 DEF CallCounts
    <3>3. CASE status[c] = "waiting" /\ complete[c] = 0
      <4>1. s = "timedout" /\ a = answer[c]  BY <3>3, <1>4
      <4>2. \A t \in Time : req[c].at < t /\ t < Deadline(c) => <<c, t>> \notin eventHeard
        BY <3>3, <1>2 DEF CallWaits
      <4> QED  BY <4>1, <4>2, <3>3, <1>1, <1>2, <1>5
    <3>4. complete[c] > 0 \/ complete[c] = 0  BY NTEventAssumption DEF CallShapes
    <3> QED  BY <3>1, <3>2, <3>3, <3>4
  <2> QED  BY <2>1, <2>2, <2>3, <2>4 DEF CallOK
<1>8. \A x \in Call : x # c => CallOK(x)'  BY <1>1, <1>4, <1>5, OthersKept
<1> QED  BY <1>6, <1>7, <1>8

(* The clock goes on: a task that is past its deadline may be dropped.     *)
LEMMA TimePassesKeeps ==
  ASSUME NTEventInv, TimePasses
  PROVE  NTEventInv'
<1> USE DEF NTEventInv
<1>1. /\ UNCHANGED <<req, status, timer, EventTask, outstanding, complete, ret, retData, answer, eventHeard>>
      /\ clock' = clock + 1 /\ clock \in Nat /\ clock' \in Time
  BY NTEventAssumption DEF TimePasses, CallShapes, Time
<1>2. CallShapes'  BY <1>1 DEF CallShapes
<1>3. ASSUME NEW c \in Call PROVE CallOK(c)'
  <2>1. CallOK(c)  OBVIOUS
  <2>2. status[c] # "idle" => req[c].at \in Nat /\ Deadline(c) \in Nat
    BY <2>1, RequestFields DEF CallOK
  <2>3. CallMade(c)'  BY <1>1, <2>1, <2>2 DEF CallOK, CallMade, NoRequest
  <2>4. CallWaits(c)'  BY <1>1, <2>1, <2>2 DEF CallOK, CallWaits, Deadline
  <2>5. CallCounts(c)' /\ CallAnswered(c)'
    BY <1>1, <2>1 DEF CallOK, CallCounts, CallAnswered, InWindow, Deadline
  <2> QED  BY <2>3, <2>4, <2>5 DEF CallOK
<1> QED  BY <1>2, <1>3

(* An event is counted by every task that wants it and is not past its     *)
(* deadline; the last one a call waits for settles it.                     *)
LEMMA DispatchKeeps ==
  ASSUME NTEventInv, NEW l \in Listener, NEW k \in Key, Dispatch(l, k)
  PROVE  NTEventInv'
<1> USE DEF NTEventInv
<1>1. /\ UNCHANGED <<clock, req, outstanding, ret>>
      /\ EventTask' = EventTask \ {c \in Of(l) : Expired(c)}
      /\ timer' = timer \ Full(l, k)
      /\ eventHeard' = eventHeard \cup {<<c, clock>> : c \in For(l, k)}
      /\ complete' = [c \in Call |-> IF c \in Hit(l, k) THEN complete[c] + 1 ELSE complete[c]]
      /\ retData' = [c \in Call |-> IF c \in Hit(l, k) THEN clock ELSE retData[c]]
      /\ status' = [c \in Call |-> IF c \in Full(l, k) THEN "resolved" ELSE status[c]]
      /\ answer' = [c \in Call |-> IF c \in Full(l, k) THEN [ret |-> ret[c], data |-> clock] ELSE answer[c]]
  BY DEF Dispatch, Stopped
<1>2. Full(l, k) \subseteq Hit(l, k) /\ Hit(l, k) \subseteq For(l, k) /\ For(l, k) \subseteq Call
  BY DEF Full, Hit, Of, For, CallShapes
<1>3. \A c \in Hit(l, k) : /\ status[c] = "waiting" /\ c \in EventTask /\ ~(Deadline(c) < clock)
                           /\ c \in Full(l, k) <=> complete[c] + 1 >= req[c].waits
  BY DEF Full, Hit, Of, Expired
<1>4. \A c \in Call : status[c] # "idle" =>
        /\ req[c].at \in Nat /\ Deadline(c) \in Nat /\ clock \in Nat /\ req[c].waits \in 1..MaxWaits
        /\ req[c].at <= clock
  BY RequestFields DEF CallOK, CallMade
<1>5. \A c \in Hit(l, k) : complete[c] + 1 \in 1..MaxWaits /\ complete[c] \in Nat /\ complete[c] < req[c].waits
  <2> SUFFICES ASSUME NEW c \in Hit(l, k)
               PROVE  complete[c] + 1 \in 1..MaxWaits /\ complete[c] \in Nat /\ complete[c] < req[c].waits
    OBVIOUS
  <2>1. c \in Call /\ status[c] = "waiting"  BY <1>2, <1>3
  <2>2. complete[c] < req[c].waits /\ complete[c] \in 0..MaxWaits /\ req[c].waits \in 1..MaxWaits
    BY <2>1, <1>4 DEF CallOK, CallWaits, CallShapes
  <2> QED  BY <2>2, NTEventAssumption
<1>6. \A c \in Call : [ret |-> ret[c], data |-> clock] \in Answer /\ [ret |-> ret[c], data |-> clock] # NoAnswer
  <2> SUFFICES ASSUME NEW c \in Call, NEW a, a = [ret |-> ret[c], data |-> clock]
               PROVE  a \in Answer /\ a # NoAnswer
    OBVIOUS
  <2>1. clock \in Time /\ clock # Never  BY DEF CallShapes, Time, Never
  <2>2. a.data = clock /\ NoAnswer.data = Never  BY DEF NoAnswer
  <2> QED  BY <2>1, <2>2 DEF Answer, CallShapes
<1>7. CallShapes'
  <2>1. /\ clock' \in Time /\ req' \in [Call -> Request \cup {NoRequest}] /\ ret' \in [Call -> Ret]
        /\ timer' \subseteq Call /\ EventTask' \subseteq Call /\ outstanding' \subseteq Call
    BY <1>1 DEF CallShapes
  <2>2. status' \in [Call -> Status] /\ retData' \in [Call -> Time \cup {Never}]
    BY <1>1 DEF CallShapes, Status
  <2>3. complete' \in [Call -> 0..MaxWaits]  BY <1>1, <1>5 DEF CallShapes
  <2>4. answer' \in [Call -> Answer \cup {NoAnswer}]  BY <1>1, <1>6 DEF CallShapes
  <2>5. eventHeard' \subseteq Call \X Time  BY <1>1, <1>2 DEF CallShapes
  <2> QED  BY <2>1, <2>2, <2>3, <2>4, <2>5 DEF CallShapes
<1>8. ASSUME NEW c \in Call PROVE CallOK(c)'
  <2>1. CallOK(c) /\ Deadline(c)' = Deadline(c)  BY <1>1 DEF Deadline
  <2>2. \A t : <<c, t>> \in eventHeard' <=> <<c, t>> \in eventHeard \/ (c \in For(l, k) /\ t = clock)
    BY <1>1
  <2>3. c \in timer' <=> c \in timer /\ c \notin Full(l, k)  BY <1>1
  <2>4. c \in EventTask' <=> c \in EventTask /\ ~(c \in Of(l) /\ Deadline(c) < clock)
    BY <1>1 DEF Expired
  <2>5. CASE c \in Hit(l, k)
    <3>1. /\ status[c] = "waiting" /\ clock <= Deadline(c) /\ req[c].at <= clock /\ clock \in Time
          /\ c \in For(l, k) /\ Deadline(c) \in Nat /\ clock \in Nat
      BY <2>5, <1>2, <1>3, <1>4 DEF CallShapes
    <3>2. complete'[c] = complete[c] + 1 /\ retData'[c] = clock /\ complete[c] \in Nat
      BY <2>5, <1>1, <1>5
    <3>3. InWindow(c, clock)' /\ <<c, clock>> \in eventHeard'  BY <3>1, <2>1, <2>2, <1>1 DEF InWindow
    <3>4. CallCounts(c)'  BY <3>1, <3>2, <3>3, <1>1 DEF CallCounts, InWindow, Never
    <3>5. CASE c \in Full(l, k)
      <4>1. /\ status'[c] = "resolved" /\ answer'[c] = [ret |-> ret[c], data |-> clock]
            /\ answer'[c] # NoAnswer
        BY <3>5, <1>1, <1>6
      <4>2. CallMade(c)'  BY <4>1, <3>1, <1>1, <2>1 DEF CallOK, CallMade
      <4>3. CallWaits(c)'  BY <4>1 DEF CallWaits
      <4>4. ret[c] # "bad"  BY <3>1, <2>1 DEF CallOK, CallWaits
      <4>5. answer'[c].ret = ret[c] /\ answer'[c].data = clock  BY <4>1
      <4>6. CallAnswered(c)'  BY <4>1, <4>4, <4>5, <3>3, <1>1 DEF CallAnswered, InWindow, NoAnswer, Never
      <4> QED  BY <4>2, <4>3, <4>6, <3>4 DEF CallOK
    <3>6. CASE c \notin Full(l, k)
      <4>1. status'[c] = "waiting" /\ answer'[c] = answer[c]  BY <3>1, <3>6, <1>1
      <4>2. complete[c] + 1 < req[c].waits
        <5>1. ~(complete[c] + 1 >= req[c].waits) /\ req[c].waits \in Nat  BY <2>5, <3>1, <3>6, <1>3, <1>4
        <5> QED  BY <5>1, <3>2
      <4>3. CallMade(c)'  BY <4>1, <3>1, <1>1, <2>1, <2>2, <2>3, <2>4 DEF CallOK, CallMade
      <4>4. CallWaits(c)'
        <5>1. c \in timer' /\ ret'[c] # "bad"  BY <3>1, <3>6, <1>1, <2>1, <2>3 DEF CallOK, CallWaits
        <5>2. complete'[c] < req'[c].waits /\ complete'[c] > 0  BY <4>2, <3>2, <1>1
        <5>3. c \in EventTask'  BY <3>1, <2>4, <2>5, <1>3
        <5> QED  BY <5>1, <5>2, <5>3 DEF CallWaits
      <4>5. CallAnswered(c)'  BY <4>1, <3>1, <2>1 DEF CallOK, CallAnswered
      <4> QED  BY <4>3, <4>4, <4>5, <3>4 DEF CallOK
    <3> QED  BY <3>5, <3>6
  <2>6. CASE c \notin Hit(l, k)
    <3>1. c \notin Full(l, k)  BY <2>6, <1>2
    <3>2. /\ status'[c] = status[c] /\ answer'[c] = answer[c] /\ complete'[c] = complete[c]
          /\ retData'[c] = retData[c] /\ ret'[c] = ret[c] /\ req'[c] = req[c] /\ clock' = clock
      BY <2>6, <3>1, <1>1
    <3>3. CallCounts(c)'  BY <3>2, <2>1, <2>2 DEF CallOK, CallCounts, InWindow
    <3>4. CASE c \notin For(l, k)
      <4>1. \A t : <<c, t>> \in eventHeard' <=> <<c, t>> \in eventHeard  BY <3>4, <2>2
      <4>2. CallMade(c)'  BY <4>1, <3>2, <2>1, <2>3, <2>4, <1>1 DEF CallOK, CallMade
      <4>3. CallWaits(c)'
        <5>1. CASE status[c] = "waiting"
          <6>1. clock \in Nat /\ Deadline(c) \in Nat  BY <5>1, <1>4
          <6>2. clock <= Deadline(c) => c \in EventTask'  BY <6>1, <5>1, <2>1, <2>4 DEF CallOK, CallWaits
          <6> QED  BY <6>2, <5>1, <4>1, <3>1, <3>2, <2>1, <2>3 DEF CallOK, CallWaits
        <5>2. CASE status[c] # "waiting"  BY <5>2, <3>2 DEF CallWaits
        <5> QED  BY <5>1, <5>2
      <4>4. CallAnswered(c)'  BY <4>1, <3>2, <2>1 DEF CallOK, CallAnswered, InWindow
      <4> QED  BY <4>2, <4>3, <4>4, <3>3 DEF CallOK
    <3>5. CASE c \in For(l, k)
      <4>1. /\ status[c] = "waiting" /\ req[c].listener = l /\ req[c].want = k
            /\ clock \in Nat /\ Deadline(c) \in Nat
        BY <3>5, <1>4 DEF For
      <4>2. Deadline(c) < clock
        <5>1. c \notin EventTask \/ Deadline(c) < clock  BY <2>6, <4>1 DEF Hit, Of, Expired
        <5>2. clock <= Deadline(c) => c \in EventTask  BY <4>1, <2>1 DEF CallOK, CallWaits
        <5> QED  BY <5>1, <5>2, <4>1
      <4>3. CallMade(c)'  BY <4>1, <3>2, <2>1, <2>3, <2>4, <1>1 DEF CallOK, CallMade
      <4>4. CallWaits(c)'
        <5>1. ~(clock <= Deadline(c))  BY <4>1, <4>2
        <5>2. \A t \in Time : t < Deadline(c) /\ <<c, t>> \in eventHeard' => <<c, t>> \in eventHeard
          BY <5>1, <4>1, <4>2, <2>2
        <5> QED  BY <5>1, <5>2, <4>1, <3>1, <3>2, <2>1, <2>3 DEF CallOK, CallWaits
      <4>5. CallAnswered(c)'  BY <4>1, <3>2, <2>1 DEF CallOK, CallAnswered
      <4> QED  BY <4>3, <4>4, <4>5, <3>3 DEF CallOK
    <3> QED  BY <3>4, <3>5
  <2> QED  BY <2>5, <2>6
<1> QED  BY <1>7, <1>8

(* Every step keeps the invariant.                                         *)
LEMMA EventSteps == NTEventInv /\ [NTEventNext]_eventvars => NTEventInv'
<1> SUFFICES ASSUME NTEventInv, [NTEventNext]_eventvars PROVE NTEventInv'
  OBVIOUS
<1>1. ASSUME NEW c \in Call, RegisterListen(c) \/ CallNormalEvent(c) PROVE NTEventInv'
  BY <1>1, RegisterKeeps
<1>2. ASSUME NEW c \in Call, ServiceReturns(c) \/ ServiceRejects(c) PROVE NTEventInv'
  BY <1>2, ServiceKeeps
<1>3. ASSUME NEW c \in Call, TimeoutFires(c) PROVE NTEventInv'  BY <1>3, TimeoutKeeps
<1>4. ASSUME NEW l \in Listener, NEW k \in Key, Dispatch(l, k) PROVE NTEventInv'
  BY <1>4, DispatchKeeps
<1>5. CASE TimePasses  BY <1>5, TimePassesKeeps
<1>6. CASE UNCHANGED eventvars
  <2>1. UNCHANGED <<clock, req, status, timer, EventTask, outstanding, complete, ret, retData, answer, eventHeard>>
    BY <1>6 DEF eventvars
  <2>2. CallShapes'  BY <2>1 DEF NTEventInv, CallShapes
  <2>3. \A c \in Call : CallOK(c)'  BY <2>1, OthersKept DEF NTEventInv
  <2> QED  BY <2>2, <2>3 DEF NTEventInv
<1> QED  BY <1>1, <1>2, <1>3, <1>4, <1>5, <1>6 DEF NTEventNext

(* However calls, their timers, the answers of the service and events      *)
(* interleave, a waiting call has its timer, is answered with an event of  *)
(* its own, and times out only if none came in time (registerListen,       *)
(* callNormalEventV2 and dispatcherListener in                             *)
(* napcat-core/helper/event.ts).                                           *)
THEOREM CallsGetTheirOwn == NTEventSpec => []NTEventSafe
<1> QED  BY EventsStart, EventSteps, EventsSuffice, PTL DEF NTEventSpec

----------------------------------------------------------------------------
(* A message goes out with all its parts in their order or not at all, for *)
(* any number of segments and converters that end in any order.            *)

SegmentRecord == [kind : SegmentKind, st : SegmentStage, rank : 0..MaxSegments]
Parted == {"built", "sending", "sent", "refused"}

(* Once the elements are made, each segment has its element or is one that *)
(* cannot be sent; before, there are none.                                 *)
SendInv ==
  /\ MsgSendSafe
  /\ segs \in Seq(SegmentRecord)
  /\ elements \in Seq(Segments)
  /\ sendPhase = "idle" => segs = <<>> /\ files = {} /\ scheduled = {}
  /\ sendPhase \in {"idle", "building"} => elements = <<>>
  /\ sendPhase \in Parted =>
       \A i \in Segments : segs[i].st = "nothing" \/ \E n \in 1..Len(elements) : elements[n] = i

(* A function on 1..n is a sequence of length n.                           *)
LEMMA ListIsSeq ==
  ASSUME NEW S, NEW n \in Nat, NEW f \in [1..n -> S]
  PROVE  f \in Seq(S) /\ Len(f) = n
<1>1. f \in Seq(S)  BY SeqDef
<1>2. PICK k \in Nat : k = Len(f) /\ DOMAIN f = 1..k  BY <1>1, LenProperties
<1>3. \A i \in Nat : i \in 1..n <=> i \in 1..k  BY <1>2
<1>4. k = n
  <2>1. n > 0 => n \in 1..n  OBVIOUS
  <2>2. k > 0 => k \in 1..k  OBVIOUS
  <2> QED  BY <2>1, <2>2, <1>3
<1> QED  BY <1>1, <1>2, <1>4

Increasing(s, n) == \A i, j \in 1..n : i < j => s[i] < s[j]
ListsAll(s, n, S) == \A x \in S : \E i \in 1..n : s[i] = x

(* A finite set of numbers can be listed in increasing order.              *)
LEMMA Sortable ==
  ASSUME NEW S, S \subseteq Nat, IsFiniteSet(S)
  PROVE  \E s \in [1..Cardinality(S) -> S] : Increasing(s, Cardinality(S))
<1> DEFINE upTo(i) == {j \in S : j <= i}
           slot == [i \in S |-> Cardinality(upTo(i))]
           N == Cardinality(S)
<1>1. N \in Nat  BY FS_CardinalityType
<1>2. \A i \in S : IsFiniteSet(upTo(i)) /\ Cardinality(upTo(i)) \in 1..N
  <2> SUFFICES ASSUME NEW i \in S PROVE IsFiniteSet(upTo(i)) /\ Cardinality(upTo(i)) \in 1..N
    OBVIOUS
  <2>1. upTo(i) \in SUBSET S /\ i \in upTo(i)  OBVIOUS
  <2>2. IsFiniteSet(upTo(i)) /\ Cardinality(upTo(i)) <= N  BY <2>1, FS_Subset
  <2>3. Cardinality(upTo(i)) \in Nat  BY <2>2, FS_CardinalityType
  <2>4. Cardinality(upTo(i)) # 0
    <3>1. Cardinality(upTo(i)) = 0 => upTo(i) = {}  BY <2>2, FS_EmptySet
    <3> QED  BY <3>1, <2>1
  <2> QED  BY <2>2, <2>3, <2>4, <1>1
<1>3. \A i, j \in S : i < j => slot[i] < slot[j]
  <2> SUFFICES ASSUME NEW i \in S, NEW j \in S, i < j PROVE Cardinality(upTo(i)) < Cardinality(upTo(j))
    OBVIOUS
  <2>3. i \in Nat /\ j \in Nat  OBVIOUS
  <2>4. \A x \in S : x \in Nat /\ (x <= i => x <= j)  BY <2>3
  <2>5. \A x \in upTo(i) : x \in upTo(j)  BY <2>4
  <2>6. j <= j /\ ~(j <= i)  BY <2>3
  <2>1. upTo(i) \in SUBSET upTo(j) /\ j \in upTo(j) /\ j \notin upTo(i)  BY <2>5, <2>6
  <2>2. Cardinality(upTo(i)) <= Cardinality(upTo(j)) /\ Cardinality(upTo(i)) # Cardinality(upTo(j))
    BY <2>1, <1>2, FS_Subset
  <2> QED  BY <2>2, <1>2
<1>4. slot \in [S -> 1..N]  BY <1>2
<1> HIDE DEF slot
<1>5. slot \in Injection(S, 1..N)
  <2>1. \A i, j \in S : slot[i] = slot[j] => i = j
    <3> SUFFICES ASSUME NEW i \in S, NEW j \in S, slot[i] = slot[j], i # j PROVE FALSE
      OBVIOUS
    <3>1. slot[i] \in Nat /\ slot[j] \in Nat  BY <1>4
    <3>2. i < j \/ j < i  OBVIOUS
    <3> QED  BY <3>1, <3>2, <1>3
  <2> QED  BY <2>1, <1>4 DEF Injection, IsInjective
<1>6. IsFiniteSet(1..N) /\ Cardinality(1..N) = N
  <2>1. IsFiniteSet(1..N) /\ Cardinality(1..N) = IF 1 > N THEN 0 ELSE N - 1 + 1
    BY SMTT(60), <1>1, FS_Interval
  <2> QED  BY <2>1, <1>1
<1>7. slot \in Surjection(S, 1..N)  BY <1>5, <1>6, FS_Injection
<1>8. \A n \in 1..N : \E i \in S : slot[i] = n  BY <1>7 DEF Surjection
<1> DEFINE s == [n \in 1..N |-> CHOOSE i \in S : slot[i] = n]
<1>9. \A n \in 1..N : s[n] \in S /\ slot[s[n]] = n  BY <1>8
<1>10. s \in [1..N -> S]  BY <1>9
<1> HIDE DEF s
<1>11. \A i, j \in 1..N : i < j => s[i] < s[j]
  <2> SUFFICES ASSUME NEW i \in 1..N, NEW j \in 1..N, i < j, ~(s[i] < s[j]) PROVE FALSE
    OBVIOUS
  <2>1. s[i] \in S /\ s[j] \in S /\ slot[s[i]] = i /\ slot[s[j]] = j  BY <1>9
  <2>2. s[i] \in Nat /\ s[j] \in Nat  BY <2>1
  <2>3. s[j] < s[i] \/ s[i] = s[j]  BY <2>2
  <2>4. CASE s[j] < s[i]
    <3>1. slot[s[j]] < slot[s[i]]  BY <2>4, <2>1, <1>3
    <3> QED  BY <3>1, <2>1
  <2>5. CASE s[i] = s[j]  BY <2>5, <2>1
  <2> QED  BY <2>3, <2>4, <2>5
<1> QED  BY <1>10, <1>11 DEF Increasing

(* What is listed in increasing order is the whole set.                    *)
LEMMA SortedIsAll ==
  ASSUME NEW S, S \subseteq Nat, IsFiniteSet(S),
         NEW s \in [1..Cardinality(S) -> S], Increasing(s, Cardinality(S))
  PROVE  ListsAll(s, Cardinality(S), S)
<1>1. PICK N \in Nat : N = Cardinality(S)  BY FS_CardinalityType
<1>2. IsFiniteSet(1..N) /\ Cardinality(1..N) = N
  <2>1. 1 \in Int /\ N \in Int  OBVIOUS
  <2>2. IsFiniteSet(1..N) /\ Cardinality(1..N) = IF 1 > N THEN 0 ELSE N - 1 + 1
    BY <2>1, FS_Interval
  <2> QED  BY <2>2
<1>3. s \in Injection(1..N, S)
  <2>1. \A i, j \in 1..N : s[i] = s[j] => i = j
    <3> SUFFICES ASSUME NEW i \in 1..N, NEW j \in 1..N, s[i] = s[j], i # j PROVE FALSE
      OBVIOUS
    <3>1. s[i] \in Nat /\ s[j] \in Nat  BY <1>1
    <3>2. i < j \/ j < i  OBVIOUS
    <3> QED  BY <3>1, <3>2, <1>1 DEF Increasing
  <2> QED  BY <2>1, <1>1 DEF Injection, IsInjective
<1>4. s \in Surjection(1..N, S)  BY <1>1, <1>2, <1>3, FS_Injection
<1> QED  BY <1>1, <1>4 DEF Surjection, ListsAll

(* What the shapes say of one segment.                                     *)
LEMMA SegmentsAre ==
  ASSUME segs \in Seq(SegmentRecord), Len(segs) <= MaxSegments
  PROVE  /\ Segments = 1..Len(segs) /\ Len(segs) \in Nat /\ IsFiniteSet(Segments)
         /\ Segments \subseteq 1..MaxSegments
         /\ \A i \in Segments : segs[i] \in SegmentRecord
<1>1. Segments = 1..Len(segs) /\ Len(segs) \in Nat  BY LenProperties DEF Segments
<1>2. IsFiniteSet(1..Len(segs))  BY <1>1, FS_Interval
<1>3. \A i \in 1..Len(segs) : segs[i] \in SegmentRecord  BY ElementOfSeq
<1>4. 1..Len(segs) \subseteq 1..MaxSegments  BY <1>1, MsgSendAssumption
<1> QED  BY <1>1, <1>2, <1>3, <1>4

(* Nothing has been converted yet.                                         *)
LEMMA SendStarts == MsgSendInit => SendInv
<1> SUFFICES ASSUME MsgSendInit PROVE SendInv
  OBVIOUS
<1>1. Segments = {}  BY DEF MsgSendInit, Segments
<1>2. MsgSendTypeOK  BY <1>1, MsgSendAssumption DEF MsgSendInit, MsgSendTypeOK
<1> QED
  BY <1>1, <1>2 DEF MsgSendInit, SendInv, MsgSendSafe, PartsInOrder, WholeOrNotAtAll, FilesAreScheduled, Parted

(* The converters are started; nothing is made yet.                        *)
LEMMA BeginKeeps ==
  ASSUME SendInv, NEW kinds \in Messages, NEW group, NEW user, Begin(kinds, group, user)
  PROVE  SendInv'
<1> USE DEF SendInv, MsgSendSafe
<1>1. PICK n \in 1..MaxSegments : kinds \in [1..n -> SegmentKind]  BY DEF Messages
<1>2. n \in Nat /\ kinds \in Seq(SegmentKind) /\ Len(kinds) = n /\ 0 \in 0..MaxSegments
  BY <1>1, MsgSendAssumption, ListIsSeq
<1>3. \A i \in 1..n : segs'[i] \in SegmentRecord /\ segs'[i].st \notin Ended /\ segs'[i].rank = 0
  BY <1>1, <1>2 DEF Begin, SegmentRecord, SegmentStage, Ended
<1>4. DOMAIN segs' = 1..n  BY <1>2 DEF Begin
<1>5. segs' \in [1..n -> SegmentRecord]  BY <1>2, <1>3, <1>4 DEF Begin
<1>6. segs' \in Seq(SegmentRecord) /\ Len(segs') = n /\ Segments' = 1..n
  BY <1>2, <1>4, <1>5, ListIsSeq DEF Segments
<1>7. /\ sendPhase = "idle" /\ sendPhase' \in {"building", "failed"} /\ elements' = <<>> /\ elements = <<>>
      /\ files' = {} /\ scheduled' = {} /\ mode' = mode /\ peer' \in {"group", "c2c", "temp"}
  BY DEF Begin, createContext
<1>8. MsgSendTypeOK'
  <2>1. \A i \in Segments' : segs'[i].st \in Ended <=> segs'[i].rank > 0  BY <1>3, <1>6
  <2> QED  BY <2>1, <1>3, <1>6, <1>7 DEF MsgSendTypeOK, SegmentRecord
<1>9. (PartsInOrder /\ WholeOrNotAtAll /\ FilesAreScheduled)'
  BY <1>7 DEF PartsInOrder, WholeOrNotAtAll, FilesAreScheduled
<1> QED  BY <1>6, <1>7, <1>8, <1>9 DEF Parted

(* A converter goes on: its segment was not through.                       *)
LEMMA StageKeeps ==
  ASSUME SendInv, NEW i \in 1..MaxSegments, NEW s \in SegmentStage, i \in Segments, segs[i].st \notin Ended,
         SegmentTo(i, s), RestOfSend, files' \in {files, files \cup {i}}
  PROVE  SendInv'
<1> USE DEF SendInv, MsgSendSafe
<1>1. /\ Segments = 1..Len(segs) /\ Len(segs) \in Nat /\ IsFiniteSet(Segments)
      /\ \A k \in Segments : segs[k] \in SegmentRecord
  BY SegmentsAre DEF MsgSendTypeOK
<1> DEFINE through == {k \in Segments : segs[k].st \in Ended}
           R == [kind |-> segs[i].kind, st |-> s, rank |-> IF s \in Ended THEN Rank ELSE 0]
<1>2. Rank \in 1..MaxSegments
  <2>1. through \in SUBSET (Segments \ {i})  OBVIOUS
  <2>2. IsFiniteSet(Segments \ {i}) /\ Cardinality(Segments \ {i}) = Cardinality(Segments) - 1
    BY <1>1, FS_RemoveElement
  <2>3. IsFiniteSet(through) /\ Cardinality(through) <= Cardinality(Segments \ {i})
    BY <2>1, <2>2, FS_Subset
  <2>4. Cardinality(through) \in Nat  BY <2>3, FS_CardinalityType
  <2>5. Cardinality(Segments) = Len(segs)
    <3>1. Cardinality(1..Len(segs)) = IF 1 > Len(segs) THEN 0 ELSE Len(segs) - 1 + 1
      BY <1>1, FS_Interval
    <3> QED  BY <3>1, <1>1
  <2>6. Rank = 1 + Cardinality(through)  BY DEF Rank
  <2>7. Len(segs) <= MaxSegments  BY DEF MsgSendTypeOK
  <2>8. PICK c \in Nat, n \in Nat : c = Cardinality(through) /\ n = Len(segs)  BY <2>4, <1>1
  <2>9. c <= n - 1 /\ n <= MaxSegments  BY <2>2, <2>3, <2>5, <2>7, <2>8
  <2> QED  BY <2>6, <2>8, <2>9, MsgSendAssumption
<1>3. R \in SegmentRecord /\ R.st = s /\ (s \in Ended <=> R.rank > 0)
  <2>1. segs[i].kind \in SegmentKind  BY <1>1 DEF SegmentRecord
  <2>2. (IF s \in Ended THEN Rank ELSE 0) \in 0..MaxSegments  BY <1>2, MsgSendAssumption
  <2> QED  BY <2>1, <2>2, <1>2 DEF SegmentRecord
<1>4. segs' = [segs EXCEPT ![i] = R]  BY DEF SegmentTo
<1> HIDE DEF R, through
<1>5. segs' \in Seq(SegmentRecord) /\ Len(segs') = Len(segs)
  BY <1>1, <1>3, <1>4, ExceptSeq
<1>6. /\ Segments' = Segments /\ segs'[i] = R
      /\ \A k \in Segments : k # i => segs'[k] = segs[k]
  BY <1>1, <1>4 DEF Segments
<1>7. sendPhase' = sendPhase /\ UNCHANGED <<mode, peer, elements, scheduled>> /\ sendPhase \notin Parted
  BY DEF RestOfSend, MsgSendTypeOK, Parted
<1>8. MsgSendTypeOK'
  <2>1. \A k \in Segments : segs'[k] \in SegmentRecord /\ (segs'[k].st \in Ended <=> segs'[k].rank > 0)
    BY <1>1, <1>3, <1>6 DEF MsgSendTypeOK
  <2>2. files' \subseteq Segments /\ scheduled' \subseteq files'  BY <1>7 DEF MsgSendTypeOK
  <2> QED  BY <2>1, <2>2, <1>5, <1>6, <1>7 DEF MsgSendTypeOK, Parted, SegmentRecord
<1>9. (PartsInOrder /\ WholeOrNotAtAll /\ FilesAreScheduled)'
  BY <1>7 DEF PartsInOrder, WholeOrNotAtAll, FilesAreScheduled, Parted
<1>10. sendPhase # "idle"
  <2>1. sendPhase = "idle" => DOMAIN segs = {}  OBVIOUS
  <2> QED  BY <2>1 DEF Segments
<1> QED  BY <1>5, <1>6, <1>7, <1>8, <1>9, <1>10

(* One converter ends, with an element or without.                         *)
LEMMA ConverterKeeps ==
  ASSUME SendInv, NEW i \in 1..MaxSegments, Converter(i)
  PROVE  SendInv'
<1>1. PICK s \in SegmentStage :
        /\ i \in Segments /\ segs[i].st \notin Ended
        /\ SegmentTo(i, s) /\ RestOfSend /\ files' \in {files, files \cup {i}}
  <2> USE DEF Running, SegmentStage, Ended, RestOfSend
  <2>1. CASE TextConverter(i) \/ FaceConverter(i) \/ CardConverter(i) \/ NodeConverter(i)
    BY <2>1 DEF TextConverter, FaceConverter, CardConverter, NodeConverter
  <2>2. CASE AtConverter(i) \/ ReplyConverter(i) \/ MusicConverter(i) \/ ContactConverter(i)
    BY <2>2 DEF AtConverter, ReplyConverter, MusicConverter, ContactConverter
  <2>3. CASE FetchFile(i) \/ FileConverter(i) \/ VideoConverter(i)
    BY <2>3 DEF FetchFile, FileConverter, VideoConverter
  <2> QED  BY <2>1, <2>2, <2>3 DEF Converter
<1> QED  BY <1>1, StageKeeps

(* All converters are through and none failed: their elements are put in   *)
(* the order of the segments.                                              *)
LEMMA SettleKeeps ==
  ASSUME SendInv, Settle
  PROVE  SendInv'
<1> USE DEF SendInv, MsgSendSafe
<1>1. /\ Segments = 1..Len(segs) /\ Len(segs) \in Nat /\ IsFiniteSet(Segments)
      /\ \A k \in Segments : segs[k] \in SegmentRecord
  BY SegmentsAre DEF MsgSendTypeOK
<1>2. UNCHANGED <<mode, peer, segs, files, scheduled>> /\ sendPhase = "building" /\ Segments' = Segments
  BY DEF Settle, Segments
<1>3. CASE Rejects
  <2>1. sendPhase' = "failed" /\ elements' = elements  BY <1>3 DEF Settle
  <2> QED
    BY <2>1, <1>2 DEF MsgSendTypeOK, PartsInOrder, WholeOrNotAtAll, FilesAreScheduled, Parted
<1>4. CASE ~Rejects
  <2>1. PICK S \in SUBSET Segments : S = {i \in Segments : MadeElement(i)}  OBVIOUS
  <2>2. /\ AllThrough /\ sendPhase' = "built" /\ elements' = InOrder(S)
    BY <1>4, <2>1 DEF Settle
  <2>3. PICK N \in Nat : N = Cardinality(S) /\ IsFiniteSet(S) /\ S \subseteq Nat
    <3>1. IsFiniteSet(S)  BY <1>1, FS_Subset
    <3> QED  BY <3>1, <1>1, FS_CardinalityType
  <2>4. PICK s : s = elements'  OBVIOUS
  <2>5. s \in [1..N -> S] /\ \A i, j \in 1..N : i < j => s[i] < s[j]
    <3>1. \E t \in [1..N -> S] : Increasing(t, N)  BY <2>3, Sortable
    <3> QED  BY <3>1, <2>2, <2>3, <2>4 DEF InOrder, Increasing
  <2>6. s \in [1..N -> Segments]  BY <2>5
  <2>7. s \in Seq(Segments) /\ Len(s) = N  BY <2>6, <2>3, ListIsSeq
  <2>8. \A x \in S : \E n \in 1..N : s[n] = x
    <3>1. s \in [1..Cardinality(S) -> S] /\ Increasing(s, Cardinality(S))
      BY <2>3, <2>5 DEF Increasing
    <3>2. ListsAll(s, Cardinality(S), S)  BY <3>1, <2>3, SortedIsAll
    <3> QED  BY <3>2, <2>3 DEF ListsAll
  <2>9. \A i \in Segments : segs[i].st = "nothing" \/ i \in S
    BY <1>4, <2>1, <2>2 DEF AllThrough, Rejects, Ended, MadeElement
  <2>10. PartsInOrder'  BY <2>4, <2>5, <2>7 DEF PartsInOrder
  <2>11. MsgSendTypeOK'
    <3>1. \A k \in 1..Len(elements') : elements'[k] \in Segments'  BY <2>4, <2>6, <2>7, <1>2
    <3> QED  BY <3>1, <2>2, <1>2 DEF MsgSendTypeOK, AllThrough
  <2> QED
    BY <2>2, <2>4, <2>7, <2>8, <2>9, <2>10, <2>11, <1>2 DEF WholeOrNotAtAll, FilesAreScheduled, Parted
<1> QED  BY <1>3, <1>4

(* Every step keeps the invariant.                                         *)
LEMMA SendSteps == SendInv /\ [MsgSendNext]_sendvars => SendInv'
<1> SUFFICES ASSUME SendInv, [MsgSendNext]_sendvars PROVE SendInv'
  OBVIOUS
<1>1. ASSUME NEW kinds \in Messages, NEW group \in BOOLEAN, NEW user \in BOOLEAN, Begin(kinds, group, user)
      PROVE  SendInv'
  BY <1>1, BeginKeeps
<1>2. ASSUME NEW i \in 1..MaxSegments, Converter(i) PROVE SendInv'  BY <1>2, ConverterKeeps
<1>3. CASE Settle  BY <1>3, SettleKeeps
<1>4. CASE SendMsg
  <2>1. /\ UNCHANGED <<mode, peer, segs, elements, files, scheduled>> /\ Segments' = Segments
        /\ sendPhase = "built" /\ sendPhase' \in {"failed", "sending"}
        /\ sendPhase' = "sending" => elements # <<>>
    BY <1>4 DEF SendMsg, NotEmpty, Segments
  <2> QED
    BY <2>1 DEF SendInv, MsgSendSafe, MsgSendTypeOK, PartsInOrder, WholeOrNotAtAll, FilesAreScheduled, Parted
<1>5. CASE KernelAnswers
  <2>1. /\ UNCHANGED <<mode, peer, segs, elements, files>> /\ Segments' = Segments /\ scheduled' = files
        /\ sendPhase = "sending" /\ sendPhase' \in {"sent", "refused"}
    BY <1>5 DEF KernelAnswers, WhenOver, Segments
  <2> QED
    BY <2>1 DEF SendInv, MsgSendSafe, MsgSendTypeOK, PartsInOrder, WholeOrNotAtAll, FilesAreScheduled, Parted
<1>6. CASE UNCHANGED sendvars
  BY <1>6 DEF sendvars, SendInv, MsgSendSafe, MsgSendTypeOK, PartsInOrder, WholeOrNotAtAll, FilesAreScheduled,
    Parted, Segments
<1> QED  BY <1>1, <1>2, <1>3, <1>4, <1>5, <1>6 DEF MsgSendNext

(* Whichever converter ends first, a message goes out with all its parts   *)
(* in the order they were given or not at all, and the files fetched for   *)
(* it are with the clean-up once the kernel has answered                   *)
(* (createSendElements and sendMsgWithOb11UniqueId in                      *)
(* napcat-onebot/api/msg.ts).                                              *)
THEOREM MessagesGoOutWhole == MsgSendSpec => []MsgSendSafe
<1>1. SendInv => MsgSendSafe  BY DEF SendInv
<1> QED  BY <1>1, SendStarts, SendSteps, PTL DEF MsgSendSpec

----------------------------------------------------------------------------
(* What is forwarded keeps the order of the nodes and their parts and lies *)
(* in one chat, for any number of nodes, parts and chats.                  *)

MaxIds == MaxNodes * MaxParts
NodeKind == {"id", "content", "nested"}
SomeChat == Chat \cup {OwnChat}

Ascending(s) == \A i, j \in 1..Len(s) : i < j => Precedes(s[i], s[j])
LiesIn(s, c) == \A i \in 1..Len(s) : s[i].chat = c

\* Every message of s comes before those of t from place k on.
AllBefore(s, t, k) == \A i \in 1..Len(s), j \in 1..Len(t) : j >= k => Precedes(s[i], t[j])

(* What is collected comes from the nodes read so far, what was found from *)
(* the messages asked for so far, and what was cloned likewise; as long as *)
(* nothing needs to be cloned, all lies in one chat.                       *)
MsgForwardInv ==
  /\ nodes \in Seq(NodeKind) /\ Len(nodes) <= MaxNodes
  /\ nodeMsgIds \in Seq(Message) /\ Ascending(nodeMsgIds) /\ Len(nodeMsgIds) <= MaxIds
  /\ nodeMsgArray \in Seq(Message) /\ Ascending(nodeMsgArray) /\ Len(nodeMsgArray) <= MaxIds
  /\ retMsgIds \in Seq(Message) /\ Ascending(retMsgIds)
  /\ at \in Nat \ {0} /\ needSendSelf \in BOOLEAN /\ srcPeer \in SomeChat \cup {"none"}
  /\ srcPeer = "none" <=> nodeMsgArray = <<>>
  /\ ~needSendSelf => LiesIn(nodeMsgArray, srcPeer)
  /\ \/ /\ stage = "nodes" /\ at <= Len(nodes) + 1
        /\ Len(nodeMsgIds) <= (at - 1) * MaxParts
        /\ \A i \in 1..Len(nodeMsgIds) : nodeMsgIds[i].node < at
        /\ nodeMsgArray = <<>> /\ retMsgIds = <<>>
     \/ /\ stage = "fetch" /\ at <= Len(nodeMsgIds) + 1 /\ Len(nodeMsgArray) < at
        /\ AllBefore(nodeMsgArray, nodeMsgIds, at) /\ retMsgIds = <<>>
     \/ /\ stage = "clone" /\ at <= Len(nodeMsgArray) + 1
        /\ AllBefore(retMsgIds, nodeMsgArray, at) /\ LiesIn(retMsgIds, OwnChat)
     \/ stage = "forward" /\ at = 1 /\ retMsgIds # <<>> /\ \E c \in SomeChat : LiesIn(retMsgIds, c)
     \/ stage \in {"done", "failed"} /\ at = 1 /\ (stage = "done" => retMsgIds # <<>>)

-----------------------------------------------------------------------------
(* Lists of messages                                                       *)

\* The bounds of the model fit: a node has at most MaxParts messages.
LEMMA Bounds ==
  /\ MaxIds \in Nat /\ MaxNodes \in Nat /\ MaxParts \in Nat \ {0} /\ MaxNodes <= MaxIds
  /\ \A a \in Nat : (a + 1) * MaxParts = a * MaxParts + MaxParts /\ a * MaxParts \in Nat
  /\ \A a \in 0..MaxNodes : a * MaxParts <= MaxIds
<1>1. MaxNodes \in Nat /\ MaxParts \in Nat \ {0}  BY MsgForwardAssumption
<1>2. PICK n, p : n = MaxNodes /\ p = MaxParts /\ n \in Nat /\ p \in Nat \ {0}  BY <1>1
<1>3. \A a \in Nat : (a + 1) * p = a * p + p /\ a * p \in Nat  BY <1>2
<1>4. ASSUME NEW a \in 0..n PROVE a * p <= n * p
  <2>1. PICK d \in Nat : n = a + d  BY <1>2
  <2>2. n * p = a * p + d * p  BY <2>1, <1>2
  <2>3. d * p \in Nat /\ a * p \in Nat  BY <1>2
  <2> QED  BY <2>2, <2>3
<1>5. n <= n * p
  <2>1. PICK d \in Nat : p = 1 + d  BY <1>2
  <2>2. n * p = n + n * d /\ n * d \in Nat  BY <2>1, <1>2
  <2> QED  BY <2>2, <1>2
<1> QED  BY <1>2, <1>3, <1>4, <1>5 DEF MaxIds

\* One message more at the end, after all the others.
LEMMA OneMessageMore ==
  ASSUME NEW s \in Seq(Message), NEW m \in Message
  PROVE  /\ Append(s, m) \in Seq(Message) /\ Len(s) \in Nat /\ Len(Append(s, m)) = Len(s) + 1
         /\ Append(s, m) # <<>>
         /\ Append(s, m)[Len(s) + 1] = m /\ (\A i \in 1..Len(s) : Append(s, m)[i] = s[i])
         /\ \A i \in 1..Len(Append(s, m)) : i \in 1..Len(s) \/ i = Len(s) + 1
         /\ Ascending(s) /\ (\A i \in 1..Len(s) : Precedes(s[i], m)) => Ascending(Append(s, m))
<1>1. PICK t, n : t = Append(s, m) /\ n = Len(s) /\ n \in Nat  BY LenProperties
<1>2. /\ t \in Seq(Message) /\ Len(t) = n + 1 /\ t[n + 1] = m
      /\ (\A i \in 1..n : t[i] = s[i])
  BY <1>1, AppendProperties
<1>3. \A i \in 1..Len(t) : i \in 1..n \/ i = n + 1  BY <1>1, <1>2
<1>4. t # <<>>  BY <1>1, <1>2, EmptySeq
<1>5. ASSUME Ascending(s), \A i \in 1..n : Precedes(s[i], m) PROVE Ascending(t)
  <2> SUFFICES ASSUME NEW i \in 1..Len(t), NEW j \in 1..Len(t), i < j PROVE Precedes(t[i], t[j])
    BY DEF Ascending
  <2>1. i \in 1..n  BY <1>1, <1>2
  <2>2. CASE j \in 1..n  BY <2>1, <2>2, <1>1, <1>2, <1>5 DEF Ascending
  <2>3. CASE j = n + 1  BY <2>1, <2>3, <1>2, <1>5
  <2> QED  BY <2>2, <2>3, <1>3
<1> QED  BY <1>1, <1>2, <1>3, <1>4, <1>5

\* The messages of a node come after those of the nodes before it.
LEMMA NodeAppended ==
  ASSUME NEW s \in Seq(Message), NEW t \in Seq(Message), NEW a \in Nat,
         Ascending(s), \A i \in 1..Len(s) : s[i].node < a,
         Ascending(t), \A i \in 1..Len(t) : t[i].node = a
  PROVE  /\ s \o t \in Seq(Message) /\ Ascending(s \o t) /\ Len(s \o t) = Len(s) + Len(t)
         /\ Len(s) \in Nat /\ Len(t) \in Nat
         /\ \A i \in 1..Len(s \o t) : (s \o t)[i].node < a + 1
<1>1. PICK u, n, k : u = s \o t /\ n = Len(s) /\ k = Len(t) /\ n \in Nat /\ k \in Nat  BY LenProperties
<1>2. /\ u \in Seq(Message) /\ Len(u) = n + k
      /\ \A i \in 1..Len(u) : u[i] = IF i <= n THEN s[i] ELSE t[i - n]
  BY <1>1, ConcatProperties
<1>3. \A i \in 1..Len(u) : i \in 1..n \/ (~(i <= n) /\ i - n \in 1..k)  BY <1>1, <1>2
<1>4. \A i \in 1..n : i <= n  OBVIOUS
<1>5. \A i \in 1..Len(u) : \/ i \in 1..n /\ u[i] = s[i] /\ u[i].node < a
                           \/ i - n \in 1..k /\ ~(i <= n) /\ u[i] = t[i - n] /\ u[i].node = a
  BY <1>1, <1>2, <1>3, <1>4
<1>6. \A i \in 1..Len(u) : u[i].node < a + 1
  <2>1. \A i \in 1..Len(u) : u[i] \in Message  BY <1>2, ElementOfSeq
  <2>2. \A m \in Message : m.node \in Nat  BY MsgForwardAssumption DEF Message
  <2> QED  BY <1>5, <2>1, <2>2
<1>7. Ascending(u)
  <2> SUFFICES ASSUME NEW i \in 1..Len(u), NEW j \in 1..Len(u), i < j PROVE Precedes(u[i], u[j])
    BY DEF Ascending
  <2>1. i \in Nat /\ j \in Nat /\ Len(u) \in Nat  BY <1>1, <1>2
  <2>2. CASE j \in 1..n
    <3>1. i \in 1..n  BY <2>1, <2>2, <1>1
    <3>2. u[i] = s[i] /\ u[j] = s[j]  BY <2>2, <3>1, <1>5, <1>2, <1>4
    <3> QED  BY <2>2, <3>1, <3>2, <1>1 DEF Ascending
  <2>3. CASE i \notin 1..n
    <3>1. j \notin 1..n  BY <2>1, <2>3, <1>1
    <3>2. i - n \in 1..k /\ j - n \in 1..k /\ u[i] = t[i - n] /\ u[j] = t[j - n]  BY <2>3, <3>1, <1>5
    <3>3. i - n < j - n  BY <2>1, <1>1
    <3> QED  BY <3>2, <3>3, <1>1 DEF Ascending
  <2>4. CASE i \in 1..n /\ j \notin 1..n
    <3>1. u[i].node < a /\ u[j].node = a  BY <2>4, <1>5, <1>2, <1>4
    <3> QED  BY <3>1 DEF Precedes
  <2> QED  BY <2>2, <2>3, <2>4
<1> QED  BY <1>1, <1>2, <1>6, <1>7


\* A set of natural numbers that is not empty has a least element.
LEMMA Least ==
  ASSUME NEW T, T \subseteq Nat, T # {}
  PROVE  \E x \in T : \A y \in T : x <= y
<1>1. PICK R : IsWellFoundedOn(R, Nat) /\ \A x, y \in Nat : <<y, x>> \in R <=> y < x
  <2>1. IsWellFoundedOn(OpToRel(<, Nat), Nat)  BY NatLessThanWellFounded
  <2>2. \A x, y \in Nat : <<y, x>> \in OpToRel(<, Nat) <=> y < x  BY DEF OpToRel
  <2> QED  BY <2>1, <2>2
<1>2. PICK x \in T : \A y \in T : <<y, x>> \notin R
  BY <1>1, WFMin
<1>3. ASSUME NEW y \in T PROVE x <= y
  <2>1. x \in Nat /\ y \in Nat  OBVIOUS
  <2>2. ~(y < x)  BY <2>1, <1>1, <1>2
  <2> QED  BY <2>1, <2>2
<1> QED  BY <1>3

\* The parts of a node among the first n, in order (PartsOf).
Parts(f, a, sent, n) ==
  f = [i \in 0..n |-> IF i = 0 THEN <<>>
                      ELSE IF i \in sent THEN Append(f[i - 1], Part(a, i, OwnChat)) ELSE f[i - 1]]
OwnParts(s, a, n) ==
  /\ s \in Seq(Message) /\ Ascending(s) /\ Len(s) <= n
  /\ \A i \in 1..Len(s) : s[i].node = a /\ s[i].part <= n

\* The recursion of PartsOf defines a function.
LEMMA PartsExist ==
  ASSUME NEW a, NEW sent, NEW p \in Nat
  PROVE  \E f : Parts(f, a, sent, p)
<1>1. PICK T : T = {n \in Nat : ~\E f : Parts(f, a, sent, n)}  OBVIOUS
<1>2. ASSUME T # {} PROVE FALSE
  <2>1. PICK m \in T : \A y \in T : m <= y  BY <1>1, <1>2, Least
  <2>2. m \in Nat /\ ~\E f : Parts(f, a, sent, m)  BY <1>1
  <2>3. CASE m = 0
    <3>1. Parts([i \in 0..0 |-> <<>>], a, sent, 0)  BY DEF Parts
    <3> QED  BY <3>1, <2>2, <2>3
  <2>4. CASE m > 0
    <3>1. m - 1 \in Nat /\ m - 1 \notin T  BY <2>1, <2>2, <2>4
    <3>2. PICK f : Parts(f, a, sent, m - 1)  BY <3>1, <1>1
    <3>3. PICK g : g = [i \in 0..m |-> IF i = m THEN (IF m \in sent THEN Append(f[m - 1], Part(a, m, OwnChat)) ELSE f[m - 1])
                                               ELSE f[i]]
      OBVIOUS
    <3>4. ASSUME NEW i \in 0..m
          PROVE  g[i] = IF i = 0 THEN <<>>
                        ELSE IF i \in sent THEN Append(g[i - 1], Part(a, i, OwnChat)) ELSE g[i - 1]
      <4>1. CASE i = 0
        <5>1. g[0] = f[0] /\ f[0] = <<>>  BY <2>2, <2>4, <3>2, <3>3 DEF Parts
        <5> QED  BY <5>1, <4>1
      <4>2. CASE i = m
        <5>1. g[m - 1] = f[m - 1]  BY <2>2, <2>4, <3>3
        <5> QED  BY <5>1, <4>2, <2>2, <2>4, <3>3
      <4>3. CASE i # 0 /\ i # m
        <5>1. i \in 0..(m - 1) /\ i - 1 \in 0..(m - 1) /\ i - 1 # m /\ i - 1 \in 0..m  BY <4>3, <2>2
        <5>2. g[i] = f[i] /\ g[i - 1] = f[i - 1]  BY <5>1, <4>3, <3>3
        <5>3. f[i] = IF i \in sent THEN Append(f[i - 1], Part(a, i, OwnChat)) ELSE f[i - 1]
          BY <5>1, <4>3, <3>2 DEF Parts
        <5> QED  BY <5>2, <5>3, <4>3
      <4> QED  BY <4>1, <4>2, <4>3
    <3>5. Parts(g, a, sent, m)  BY <3>3, <3>4 DEF Parts
    <3> QED  BY <3>5, <2>2
  <2> QED  BY <2>2, <2>3, <2>4
<1> QED  BY <1>1, <1>2

\* And what it defines are parts of the node, in order.
LEMMA PartsAscend ==
  ASSUME NEW p \in 0..MaxParts, NEW sent, at \in 1..MaxNodes
  PROVE  OwnParts(PartsOf(p, sent), at, p)
<1>1. PICK a : a = at /\ a \in 1..MaxNodes  OBVIOUS
<1>2. p \in Nat /\ p \in 0..p  BY MsgForwardAssumption
<1>3. PICK f : Parts(f, a, sent, p) /\ PartsOf(p, sent) = f[p]
  <2> DEFINE g == CHOOSE g : Parts(g, a, sent, p)
  <2>1. \E f : Parts(f, a, sent, p)  BY <1>2, PartsExist
  <2>2. Parts(g, a, sent, p)  BY <2>1
  <2>3. PartsOf(p, sent) = g[p]  BY <1>1 DEF PartsOf, Parts
  <2> QED  BY <2>2, <2>3
<1>4. PICK T : T = {n \in 0..p : ~OwnParts(f[n], a, n)}  OBVIOUS
<1>5. ASSUME T # {} PROVE FALSE
  <2>1. PICK m \in T : \A y \in T : m <= y
    <3>1. T \subseteq Nat  BY <1>2, <1>4
    <3> QED  BY <3>1, <1>5, Least
  <2>2. m \in 0..p /\ m \in Nat /\ ~OwnParts(f[m], a, m)  BY <1>2, <1>4
  <2>3. f[m] = IF m = 0 THEN <<>>
               ELSE IF m \in sent THEN Append(f[m - 1], Part(a, m, OwnChat)) ELSE f[m - 1]
    BY <2>2, <1>3 DEF Parts
  <2>4. CASE m = 0
    <3>1. f[m] = <<>> /\ <<>> \in Seq(Message) /\ Len(<<>>) = 0  BY <2>3, <2>4, EmptySeq
    <3> QED  BY <3>1, <2>2, <2>4 DEF OwnParts, Ascending
  <2>5. CASE m > 0
    <3>1. m - 1 \in 0..p /\ m - 1 \notin T /\ m \in 1..MaxParts
      BY <2>1, <2>2, <2>5, <1>2, MsgForwardAssumption
    <3>2. PICK s : s = f[m - 1] /\ OwnParts(s, a, m - 1)  BY <3>1, <1>4
    <3>3. PICK k : k = Len(s) /\ k \in Nat /\ k <= m - 1  BY <3>2, LenProperties DEF OwnParts
    <3>4. \A i \in 1..k : s[i] \in Message /\ s[i].node = a /\ s[i].part <= m - 1 /\ s[i].part \in Nat
      <4>1. \A i \in 1..k : s[i] \in Message  BY <3>2, <3>3, ElementOfSeq DEF OwnParts
      <4>2. \A x \in Message : x.part \in Nat  BY MsgForwardAssumption DEF Message
      <4> QED  BY <4>1, <4>2, <3>2, <3>3 DEF OwnParts
    <3>5. CASE m \in sent
      <4>1. PICK x : x = Part(a, m, OwnChat)  OBVIOUS
      <4>2. x \in Message /\ x.node = a /\ x.part = m  BY <4>1, <3>1, <1>1 DEF Part, Message
      <4>3. f[m] = Append(s, x)  BY <2>3, <2>5, <3>2, <3>5, <4>1
      <4>4. \A i \in 1..k : Precedes(s[i], x)  BY <3>4, <4>2, <2>2 DEF Precedes
      <4>5. /\ f[m] \in Seq(Message) /\ Len(f[m]) = k + 1 /\ f[m][k + 1] = x
            /\ (\A i \in 1..k : f[m][i] = s[i]) /\ Ascending(f[m])
            /\ \A i \in 1..Len(f[m]) : i \in 1..k \/ i = k + 1
        BY <3>2, <3>3, <4>2, <4>3, <4>4, OneMessageMore DEF OwnParts
      <4>6. \A i \in 1..Len(f[m]) : f[m][i].node = a /\ f[m][i].part <= m
        BY <4>2, <4>5, <3>4, <2>2
      <4> QED  BY <4>5, <4>6, <3>3, <2>2 DEF OwnParts
    <3>6. CASE m \notin sent
      <4>1. f[m] = s  BY <2>3, <2>5, <3>2, <3>6
      <4> QED  BY <4>1, <3>2, <3>3, <3>4, <2>2 DEF OwnParts
    <3> QED  BY <3>5, <3>6
  <2> QED  BY <2>2, <2>4, <2>5
<1> QED  BY <1>1, <1>2, <1>3, <1>4, <1>5

-----------------------------------------------------------------------------
(* Steps                                                                   *)

\* Before the first node nothing is collected.
LEMMA ForwardInitOK == MsgForwardInit => MsgForwardInv
<1> SUFFICES ASSUME MsgForwardInit PROVE MsgForwardInv
  OBVIOUS
<1>1. PICK n \in 1..MaxNodes : nodes \in [1..n -> NodeKind]
  BY DEF MsgForwardInit, NodeKind
<1>2. nodes \in Seq(NodeKind) /\ Len(nodes) = n /\ n \in Nat /\ n <= MaxNodes
  <2>1. n \in Nat /\ n <= MaxNodes  BY Bounds
  <2> QED  BY <1>1, <2>1, ListIsSeq
<1>3. <<>> \in Seq(Message) /\ Len(<<>>) = 0  BY EmptySeq
<1>4. \A i \in 1..Len(<<>>) : FALSE  BY <1>3
<1>5. Ascending(<<>>) /\ LiesIn(<<>>, "none")  BY <1>4 DEF Ascending, LiesIn
<1>7. /\ stage = "nodes" /\ at = 1 /\ nodeMsgIds = <<>> /\ nodeMsgArray = <<>> /\ retMsgIds = <<>>
      /\ srcPeer = "none" /\ needSendSelf = FALSE
  BY DEF MsgForwardInit
<1>8. /\ at <= Len(nodes) + 1 /\ Len(nodeMsgIds) <= (at - 1) * MaxParts
      /\ \A i \in 1..Len(nodeMsgIds) : nodeMsgIds[i].node < at
  <2>1. at - 1 = 0 /\ 0 * MaxParts = 0  BY <1>7, Bounds
  <2> QED  BY <2>1, <1>2, <1>3, <1>4, <1>7
<1>9. /\ nodeMsgIds \in Seq(Message) /\ Ascending(nodeMsgIds) /\ Len(nodeMsgIds) <= MaxIds
      /\ nodeMsgArray \in Seq(Message) /\ Ascending(nodeMsgArray) /\ Len(nodeMsgArray) <= MaxIds
      /\ retMsgIds \in Seq(Message) /\ Ascending(retMsgIds) /\ LiesIn(nodeMsgArray, srcPeer)
  BY <1>3, <1>5, <1>7, Bounds
<1>10. at \in Nat \ {0} /\ needSendSelf \in BOOLEAN /\ srcPeer \in SomeChat \cup {"none"}
  <2>1. at \in Nat \ {0}  BY <1>7
  <2>2. needSendSelf \in BOOLEAN /\ srcPeer \in SomeChat \cup {"none"}  BY <1>7
  <2> QED  BY <2>1, <2>2
<1> QED  BY <1>2, <1>7, <1>8, <1>9, <1>10 DEF MsgForwardInv

\* A node adds its messages in their order.
LEMMA CollectedOK ==
  ASSUME MsgForwardInv, stage = "nodes", at <= Len(nodes), NEW s \in Seq(Message), Collected(s),
         Ascending(s), Len(s) <= MaxParts, \A i \in 1..Len(s) : s[i].node = at
  PROVE  MsgForwardInv'
<1>1. PICK a, t, n : a = at /\ t = nodeMsgIds /\ n = Len(nodes)  OBVIOUS
<1>2. /\ a \in Nat \ {0} /\ n \in Nat /\ n <= MaxNodes /\ a <= n /\ t \in Seq(Message) /\ Ascending(t)
      /\ Len(t) <= (a - 1) * MaxParts /\ \A i \in 1..Len(t) : t[i].node < a
      /\ nodeMsgArray = <<>> /\ retMsgIds = <<>>
  BY <1>1, LenProperties DEF MsgForwardInv
<1>3. PICK u, k, l : u = t \o s /\ k = Len(t) /\ l = Len(s)  OBVIOUS
<1>4. /\ u \in Seq(Message) /\ Ascending(u) /\ Len(u) = k + l /\ k \in Nat /\ l \in Nat
      /\ \A i \in 1..Len(u) : u[i].node < a + 1
  BY <1>1, <1>2, <1>3, NodeAppended
<1>5. Len(u) <= a * MaxParts /\ a * MaxParts <= MaxIds /\ a * MaxParts \in Nat
  <2>1. a - 1 \in Nat /\ a \in 0..MaxNodes
    <3>1. a \in Nat /\ a <= MaxNodes /\ MaxNodes \in Nat /\ a - 1 \in Nat  BY <1>2, MsgForwardAssumption
    <3> QED  BY <3>1
  <2>2. a * MaxParts = (a - 1) * MaxParts + MaxParts
    <3>1. ((a - 1) + 1) * MaxParts = (a - 1) * MaxParts + MaxParts  BY <2>1, Bounds
    <3>2. (a - 1) + 1 = a  BY <1>2
    <3> QED  BY <3>1, <3>2
  <2>3. (a - 1) * MaxParts \in Nat /\ a * MaxParts \in Nat /\ MaxParts \in Nat  BY <2>1, <1>2, Bounds
  <2>4. a * MaxParts <= MaxIds  BY <2>1, Bounds
  <2>5. k <= (a - 1) * MaxParts /\ l <= MaxParts  BY <1>2, <1>3
  <2> QED  BY <2>2, <2>3, <2>4, <2>5, <1>4
<1>6. /\ nodeMsgIds' = u /\ at' = a + 1
      /\ UNCHANGED <<nodes, stage, nodeMsgArray, srcPeer, needSendSelf, retMsgIds>>
  BY <1>1, <1>3 DEF Collected
<1>7. a + 1 \in Nat \ {0} /\ a + 1 <= n + 1 /\ (a + 1) - 1 = a  BY <1>2
<1>8. Len(u) <= MaxIds  BY <1>4, <1>5, Bounds
<1> QED  BY <1>1, <1>2, <1>4, <1>5, <1>6, <1>7, <1>8 DEF MsgForwardInv

\* A node is read: it gives nothing, one message, or parts of its own.
LEMMA NodeOK ==
  ASSUME MsgForwardInv, IdNode \/ ContentNode \/ NestedNode
  PROVE  MsgForwardInv'
<1>1. stage = "nodes" /\ at <= Len(nodes) /\ at \in 1..MaxNodes
  <2>1. stage = "nodes" /\ at <= Len(nodes)  BY DEF IdNode, ContentNode, NestedNode, NodeIs
  <2>2. nodes \in Seq(NodeKind) /\ Len(nodes) <= MaxNodes /\ at \in Nat \ {0}  BY DEF MsgForwardInv
  <2>3. Len(nodes) \in Nat /\ MaxNodes \in Nat  BY <2>2, LenProperties, MsgForwardAssumption
  <2> QED  BY <2>1, <2>2, <2>3
<1>2. CASE Collected(<<>>)
  <2>1. <<>> \in Seq(Message) /\ Len(<<>>) = 0  BY EmptySeq
  <2>2. Ascending(<<>>) /\ Len(<<>>) <= MaxParts /\ \A i \in 1..Len(<<>>) : FALSE  BY <2>1, Bounds DEF Ascending
  <2> QED  BY <1>1, <1>2, <2>1, <2>2, CollectedOK
<1>3. ASSUME NEW c \in SomeChat, Collected(<<Part(at, 1, c)>>) PROVE MsgForwardInv'
  <2>1. PICK m, s : m = Part(at, 1, c) /\ s = <<m>>  OBVIOUS
  <2>2. m \in Message /\ m.node = at  BY <1>1, <2>1, Bounds DEF Part, Message, SomeChat
  <2>3. s \in Seq(Message) /\ Len(s) = 1 /\ s[1] = m  BY <2>1, <2>2
  <2>4. Ascending(s) /\ Len(s) <= MaxParts /\ \A i \in 1..Len(s) : s[i].node = at
    BY <2>2, <2>3, Bounds DEF Ascending
  <2> QED  BY <1>1, <1>3, <2>1, <2>3, <2>4, CollectedOK
<1>4. CASE ContentNode
  <2>1. PICK p, sent : p \in 0..MaxParts /\ Collected(PartsOf(p, sent))
    BY <1>4 DEF ContentNode, InTheirOrder
  <2>2. OwnParts(PartsOf(p, sent), at, p)
    <3>1. p \in 0..MaxParts  BY <2>1
    <3> QED  BY <1>1, <3>1, PartsAscend
  <2>3. PICK s : s = PartsOf(p, sent) /\ OwnParts(s, at, p)  BY <2>2
  <2>4. s \in Seq(Message) /\ Ascending(s) /\ Len(s) <= p /\ \A i \in 1..Len(s) : s[i].node = at
    BY <2>3 DEF OwnParts
  <2>5. Len(s) <= MaxParts  BY <2>1, <2>4, Bounds, LenProperties
  <2> QED  BY <1>1, <2>1, <2>3, <2>4, <2>5, CollectedOK
<1>5. IdNode \/ NestedNode => Collected(<<>>) \/ \E c \in SomeChat : Collected(<<Part(at, 1, c)>>)
  BY DEF IdNode, NestedNode, SomeChat
<1> QED  BY <1>2, <1>3, <1>4, <1>5

\* All nodes are read; the search for their messages begins with the first.
LEMMA NodesReadOK ==
  ASSUME MsgForwardInv, NodesRead
  PROVE  MsgForwardInv'
<1>1. /\ stage = "nodes" /\ stage' = "fetch" /\ at' = 1
      /\ UNCHANGED <<nodes, nodeMsgIds, nodeMsgArray, srcPeer, needSendSelf, retMsgIds>>
  BY DEF NodesRead
<1>2. /\ nodeMsgIds \in Seq(Message) /\ nodeMsgArray = <<>> /\ retMsgIds = <<>> /\ Len(<<>>) = 0
      /\ Len(nodeMsgIds) \in Nat
  BY <1>1, LenProperties, EmptySeq DEF MsgForwardInv
<1>3. AllBefore(<<>>, nodeMsgIds, 1) /\ 1 <= Len(nodeMsgIds) + 1 /\ Len(<<>>) < 1  BY <1>2 DEF AllBefore
<1> QED  BY <1>1, <1>2, <1>3 DEF MsgForwardInv

\* A message is found again, or left out.
LEMMA FetchMsgOK ==
  ASSUME MsgForwardInv, FetchMsg
  PROVE  MsgForwardInv'
<1>1. PICK a, s, t, m : a = at /\ s = nodeMsgArray /\ t = nodeMsgIds /\ m = t[a]  OBVIOUS
<1>2. /\ stage = "fetch" /\ a \in 1..Len(t) /\ at' = a + 1
      /\ UNCHANGED <<nodes, stage, nodeMsgIds, retMsgIds>>
      /\ s \in Seq(Message) /\ t \in Seq(Message) /\ Ascending(s) /\ Ascending(t) /\ Len(t) <= MaxIds
      /\ Len(s) < a /\ AllBefore(s, t, a) /\ retMsgIds = <<>> /\ Len(t) \in Nat /\ Len(s) \in Nat /\ a \in Nat
  BY <1>1, LenProperties DEF FetchMsg, MsgForwardInv
<1>3. m \in Message  BY <1>1, <1>2, ElementOfSeq
<1>4. AllBefore(s, t, a + 1)  BY <1>2 DEF AllBefore
<1>5. CASE UNCHANGED <<nodeMsgArray, srcPeer, needSendSelf>>
  <2>1. a + 1 <= Len(t) + 1 /\ Len(s) < a + 1 /\ a + 1 \in Nat \ {0}  BY <1>2
  <2> QED  BY <1>1, <1>2, <1>4, <1>5, <2>1 DEF MsgForwardInv
<1>6. CASE /\ nodeMsgArray' = Append(nodeMsgArray, m)
           /\ srcPeer' = IF srcPeer = "none" THEN m.chat ELSE srcPeer
           /\ needSendSelf' = (needSendSelf \/ OtherChat(m))
  <2>1. \A i \in 1..Len(s) : Precedes(s[i], m)  BY <1>1, <1>2 DEF AllBefore
  <2>2. PICK u, n : u = Append(s, m) /\ n = Len(s)  OBVIOUS
  <2>3. /\ u \in Seq(Message) /\ Len(u) = n + 1 /\ u[n + 1] = m /\ u # <<>> /\ n \in Nat /\ Ascending(u)
        /\ (\A i \in 1..n : u[i] = s[i]) /\ \A i \in 1..Len(u) : i \in 1..n \/ i = n + 1
    BY <2>1, <2>2, <1>2, <1>3, OneMessageMore
  <2>4. AllBefore(u, t, a + 1)
    <3> SUFFICES ASSUME NEW i \in 1..Len(u), NEW j \in 1..Len(t), j >= a + 1 PROVE Precedes(u[i], t[j])
      BY DEF AllBefore
    <3>1. CASE i \in 1..n  BY <3>1, <2>2, <2>3, <1>4 DEF AllBefore
    <3>2. CASE i = n + 1
      <4>1. a < j  BY <1>2
      <4> QED  BY <3>2, <4>1, <2>3, <1>1, <1>2 DEF Ascending
    <3> QED  BY <3>1, <3>2, <2>3
  <2>5. m.chat \in SomeChat /\ m.chat # "none"  BY <1>3, MsgForwardAssumption DEF Message, SomeChat
  <2>6. PICK p, q, w : p = srcPeer /\ q = srcPeer' /\ w = needSendSelf /\ w \in BOOLEAN /\ p \in SomeChat \cup {"none"}
    BY DEF MsgForwardInv
  <2>7. q = (IF p = "none" THEN m.chat ELSE p) /\ q \in SomeChat /\ q # "none"  BY <1>6, <2>5, <2>6
  <2>8. needSendSelf' = (w \/ (p # "none" /\ p # m.chat)) /\ needSendSelf' \in BOOLEAN
    BY <1>6, <2>6 DEF OtherChat
  <2>9. ASSUME ~needSendSelf' PROVE LiesIn(u, q)
    <3>1. ~w /\ LiesIn(s, p) /\ (p = "none" \/ p = m.chat)  BY <2>6, <2>8, <2>9, <1>1 DEF MsgForwardInv
    <3>2. q = m.chat  BY <3>1, <2>7
    <3>3. ASSUME NEW i \in 1..n PROVE u[i].chat = q
      <4>1. s # <<>>  BY <3>3, <2>2, EmptySeq
      <4>2. p # "none"  BY <4>1, <2>6, <1>1 DEF MsgForwardInv
      <4> QED  BY <4>2, <3>1, <3>2, <2>2, <2>3 DEF LiesIn
    <3> QED  BY <3>2, <3>3, <2>3 DEF LiesIn
  <2>10. a + 1 <= Len(t) + 1 /\ Len(u) < a + 1 /\ a + 1 \in Nat \ {0} /\ Len(u) <= MaxIds
    BY <1>2, <2>2, <2>3, Bounds
  <2>11. nodeMsgArray' = u /\ srcPeer' = q  BY <1>1, <1>6, <2>2, <2>6
  <2> QED  BY <1>1, <1>2, <2>3, <2>4, <2>7, <2>8, <2>9, <2>10, <2>11 DEF MsgForwardInv
<1> QED  BY <1>1, <1>5, <1>6 DEF FetchMsg

\* All were looked for: they are forwarded as they are, or cloned.
LEMMA FetchedOK ==
  ASSUME MsgForwardInv, Fetched
  PROVE  MsgForwardInv'
<1>1. /\ stage = "fetch" /\ at' = 1 /\ UNCHANGED <<nodes, nodeMsgIds, nodeMsgArray, srcPeer, needSendSelf>>
      /\ retMsgIds' = IF needSendSelf THEN <<>> ELSE nodeMsgArray
      /\ stage' = IF needSendSelf THEN "clone" ELSE WithSome(nodeMsgArray)
  BY DEF Fetched
<1>2. nodeMsgArray \in Seq(Message) /\ Len(nodeMsgArray) \in Nat /\ needSendSelf \in BOOLEAN
  BY LenProperties DEF MsgForwardInv
<1>3. <<>> \in Seq(Message) /\ Len(<<>>) = 0  BY EmptySeq
<1>4. CASE needSendSelf
  <2>1. \A i \in 1..Len(<<>>) : FALSE  BY <1>3
  <2>2. Ascending(<<>>) /\ AllBefore(<<>>, nodeMsgArray, 1) /\ LiesIn(<<>>, OwnChat)
    BY <2>1 DEF Ascending, AllBefore, LiesIn
  <2> QED  BY <1>1, <1>2, <1>3, <1>4, <2>2 DEF MsgForwardInv
<1>5. CASE ~needSendSelf
  <2>1. retMsgIds' = nodeMsgArray /\ stage' = WithSome(nodeMsgArray)  BY <1>1, <1>5
  <2>2. nodeMsgArray # <<>> => srcPeer \in SomeChat /\ LiesIn(nodeMsgArray, srcPeer)
    BY <1>5 DEF MsgForwardInv
  <2>3. stage' = "failed" \/ (stage' = "forward" /\ nodeMsgArray # <<>>)  BY <2>1 DEF WithSome
  <2> QED  BY <1>1, <1>2, <2>1, <2>2, <2>3 DEF MsgForwardInv
<1> QED  BY <1>4, <1>5, <1>2

\* A message is cloned, or left out.
LEMMA CloneMsgOK ==
  ASSUME MsgForwardInv, CloneMsg
  PROVE  MsgForwardInv'
<1>1. PICK a, s, t, m : a = at /\ s = retMsgIds /\ t = nodeMsgArray /\ m = t[a]  OBVIOUS
<1>2. /\ stage = "clone" /\ a \in 1..Len(t) /\ at' = a + 1
      /\ UNCHANGED <<nodes, stage, nodeMsgIds, nodeMsgArray, srcPeer, needSendSelf>>
      /\ s \in Seq(Message) /\ t \in Seq(Message) /\ Ascending(s) /\ Ascending(t)
      /\ AllBefore(s, t, a) /\ LiesIn(s, OwnChat) /\ Len(t) \in Nat /\ a \in Nat
  BY <1>1, LenProperties DEF CloneMsg, MsgForwardInv
<1>3. m \in Message  BY <1>1, <1>2, ElementOfSeq
<1>4. AllBefore(s, t, a + 1) /\ a + 1 <= Len(t) + 1 /\ a + 1 \in Nat \ {0}  BY <1>2 DEF AllBefore
<1>5. CASE retMsgIds' = retMsgIds
  BY <1>1, <1>2, <1>4, <1>5 DEF MsgForwardInv
<1>6. CASE retMsgIds' = Append(retMsgIds, Part(m.node, m.part, OwnChat))
  <2>1. PICK x : x = Part(m.node, m.part, OwnChat)  OBVIOUS
  <2>2. x \in Message /\ x.node = m.node /\ x.part = m.part /\ x.chat = OwnChat
    BY <1>3, <2>1 DEF Part, Message
  <2>3. \A y : (Precedes(y, m) => Precedes(y, x)) /\ (Precedes(m, y) => Precedes(x, y))
    BY <2>2 DEF Precedes
  <2>4. \A i \in 1..Len(s) : Precedes(s[i], x)  BY <1>1, <1>2, <2>3 DEF AllBefore
  <2>5. PICK u, n : u = Append(s, x) /\ n = Len(s)  OBVIOUS
  <2>6. /\ u \in Seq(Message) /\ Len(u) = n + 1 /\ u[n + 1] = x /\ n \in Nat /\ Ascending(u)
        /\ (\A i \in 1..n : u[i] = s[i]) /\ \A i \in 1..Len(u) : i \in 1..n \/ i = n + 1
    <3>1. s \in Seq(Message) /\ x \in Message /\ Ascending(s) /\ \A i \in 1..Len(s) : Precedes(s[i], x)
      BY <2>2, <2>4, <1>2
    <3> QED  BY <3>1, <2>5, OneMessageMore
  <2>7. AllBefore(u, t, a + 1)
    <3> SUFFICES ASSUME NEW i \in 1..Len(u), NEW j \in 1..Len(t), j >= a + 1 PROVE Precedes(u[i], t[j])
      BY DEF AllBefore
    <3>1. CASE i \in 1..n  BY <3>1, <2>5, <2>6, <1>4 DEF AllBefore
    <3>2. CASE i = n + 1
      <4>1. a < j  BY <1>2
      <4>2. Precedes(m, t[j])  BY <4>1, <1>1, <1>2 DEF Ascending
      <4> QED  BY <3>2, <4>2, <2>3, <2>6
    <3> QED  BY <3>1, <3>2, <2>6
  <2>8. LiesIn(u, OwnChat)  BY <1>2, <2>2, <2>5, <2>6 DEF LiesIn
  <2>9. retMsgIds' = u  BY <1>1, <1>6, <2>1, <2>5
  <2> QED  BY <1>1, <1>2, <1>4, <2>6, <2>7, <2>8, <2>9 DEF MsgForwardInv
<1> QED  BY <1>1, <1>5, <1>6 DEF CloneMsg

\* Every step keeps the messages in order.
LEMMA ForwardStepOK == MsgForwardInv /\ [MsgForwardNext]_forwardvars => MsgForwardInv'
<1> SUFFICES ASSUME MsgForwardInv, [MsgForwardNext]_forwardvars PROVE MsgForwardInv'
  OBVIOUS
<1>1. CASE IdNode \/ ContentNode \/ NestedNode  BY <1>1, NodeOK
<1>2. CASE NodesRead  BY <1>2, NodesReadOK
<1>3. CASE FetchMsg  BY <1>3, FetchMsgOK
<1>4. CASE Fetched  BY <1>4, FetchedOK
<1>5. CASE CloneMsg  BY <1>5, CloneMsgOK
<1>6. CASE Cloned
  <2>1. /\ stage = "clone" /\ at' = 1 /\ stage' = WithSome(retMsgIds)
        /\ UNCHANGED <<nodes, nodeMsgIds, nodeMsgArray, srcPeer, needSendSelf, retMsgIds>>
    BY <1>6 DEF Cloned
  <2>2. OwnChat \in SomeChat /\ LiesIn(retMsgIds, OwnChat)  BY <2>1 DEF MsgForwardInv, SomeChat
  <2>3. stage' = "failed" \/ (stage' = "forward" /\ retMsgIds # <<>>)  BY <2>1 DEF WithSome
  <2> QED  BY <2>1, <2>2, <2>3 DEF MsgForwardInv
<1>7. CASE Forward  BY <1>7 DEF Forward, MsgForwardInv
<1>8. CASE UNCHANGED forwardvars
  BY <1>8 DEF forwardvars, MsgForwardInv
<1> QED  BY <1>1, <1>2, <1>3, <1>4, <1>5, <1>6, <1>7, <1>8 DEF MsgForwardNext

(***************************************************************************)
(* What is forwarded keeps the order of the nodes and their parts, holds   *)
(* nothing twice and lies in one chat (handleForwardedNodes and            *)
(* cloneMsg, napcat-onebot/action/msg/SendMsg.ts).                         *)
(***************************************************************************)
THEOREM NodesStayInOrder == MsgForwardSpec => []MsgForwardSafe
<1>1. MsgForwardInv => MsgForwardSafe
  <2> SUFFICES ASSUME MsgForwardInv PROVE MsgForwardSafe
    OBVIOUS
  <2>1. MessagesOf(nodeMsgIds) /\ MessagesOf(nodeMsgArray) /\ MessagesOf(retMsgIds)
    BY ElementOfSeq DEF MsgForwardInv, MessagesOf
  <2>2. \A i \in 1..Len(nodes) : nodes[i] \in {"id", "content", "nested"}
    BY ElementOfSeq DEF MsgForwardInv, NodeKind
  <2>3. at \in 1..(MaxNodes * MaxParts + 1)
    <3>1. MaxIds \in Nat /\ at \in Nat \ {0}  BY Bounds DEF MsgForwardInv
    <3>2. at <= MaxIds + 1
      <4>1. Len(nodes) \in Nat /\ Len(nodeMsgIds) \in Nat /\ Len(nodeMsgArray) \in Nat
        BY LenProperties DEF MsgForwardInv
      <4> QED  BY <4>1, Bounds DEF MsgForwardInv
    <3> QED  BY <3>1, <3>2 DEF MaxIds
  <2>4. MsgForwardTypeOK
    BY <2>1, <2>2, <2>3 DEF MsgForwardInv, MsgForwardTypeOK, SomeChat
  <2>5. NodesInOrder  BY DEF MsgForwardInv, NodesInOrder, Ascending
  <2>6. FromOneChat  BY DEF MsgForwardInv, FromOneChat, LiesIn
  <2> QED  BY <2>4, <2>5, <2>6 DEF MsgForwardSafe
<1> QED  BY <1>1, ForwardInitOK, ForwardStepOK, PTL DEF MsgForwardSpec

----------------------------------------------------------------------------
(* Every upload of a merged forward carries the contents of all its cards, *)
(* as they were uploaded before, and every level is uploaded once, for any *)
(* nodes in nodes and any limit of their depth.                            *)

-----------------------------------------------------------------------------
(* The parts of the invariant *)

PacketMsg == {Text, Hollow} \cup {Card(p) : p \in Seq(Nat)}
Contents == [of : Seq(Nat), msgs : Seq(PacketMsg)]
UploadOf == [of : Seq(Nat), msgs : Seq(PacketMsg), entries : SUBSET Contents]
PathIn(P, d) == [k \in 1..d |-> P[k - 1]]

LevelsTyped ==
  /\ dp \in Depth /\ place \in [Depth -> Nat \ {0}] /\ packetMsg \in [Depth -> Seq(PacketMsg)]
  /\ innerMsg \in [Depth -> SUBSET Contents] /\ uploads \in Seq(UploadOf)
  /\ forwarded \in {"making", "uploaded", "sent", "failed"}

\* What is in a level was uploaded with just these messages.
WasUploaded(S, e) == \E k \in 1..Len(S) : S[k].of = e.of /\ S[k].msgs = e.msgs

\* Every card has its contents among those carried.
Linked(m, E) == \A c \in CardsOf(m) : \E f \in E : f.of = c

\* A level under way: it carries the contents of its cards, and of theirs.
Frame(m, E, S) ==
  /\ m = <<>> => E = {}
  /\ Linked(m, E) /\ \A e \in E : Linked(e.msgs, E) /\ WasUploaded(S, e)
Frames(D, M, I, S) == \A d \in 0..D : Frame(M[d], I[d], S)
Shallow(D, M) == \A d \in 0..D : TooDeep(d) => M[d] = <<>>

\* A path that was passed: it leaves the present one at a node before.
Passed(p, P, D) ==
  \E k \in 1..(D + 1) : k <= Len(p) /\ (\A j \in 1..(k - 1) : p[j] = P[j - 1]) /\ p[k] < P[k - 1]
AllPassed(S, P, D) == \A n \in 1..Len(S) : Passed(S[n].of, P, D)

\* Whatever was uploaded is carried by one of the levels under way.
CarriedHere(S, D, I) ==
  \A n \in 1..Len(S) : \E d \in 0..D : \E f \in I[d] : f.of = S[n].of /\ f.msgs = S[n].msgs

Whole(S, n) ==
  /\ \A e \in S[n].entries :
       Linked(e.msgs, S[n].entries) /\ \E k \in 1..n : S[k].of = e.of /\ S[k].msgs = e.msgs
  /\ Len(S[n].of) < MaxDepth /\ \A k \in 1..(n - 1) : S[k].of # S[n].of
  /\ \A e \in S[n].entries : \A c \in CardsOf(e.msgs) : \E k \in 1..(n - 1) : S[k].of = c
Wholes(S) == \A n \in 1..Len(S) : Whole(S, n)

UnderWay ==
  /\ Frames(dp, packetMsg, innerMsg, uploads)
  /\ AllPassed(uploads, place, dp) /\ CarriedHere(uploads, dp, innerMsg)

UploadInv ==
  /\ LevelsTyped /\ Shallow(dp, packetMsg) /\ Wholes(uploads) /\ AllIsCarried
  /\ forwarded = "making" => UnderWay

-----------------------------------------------------------------------------
(* Lists, cards and paths *)

\* A list and one with an element more.
Extends(T, S, u) == Len(S) \in Nat /\ Len(T) = Len(S) + 1 /\ T[Len(S) + 1] = u /\ \A k \in 1..Len(S) : T[k] = S[k]

\* An element is added to a list.
LEMMA ExtendsIs ==
  ASSUME NEW M, NEW S \in Seq(M), NEW u \in M, NEW T, T = Append(S, u)
  PROVE  T \in Seq(M) /\ Extends(T, S, u) /\ T # <<>>
<1>1. Len(S) \in Nat /\ T \in Seq(M) /\ Len(T) = Len(S) + 1  OBVIOUS
<1>2. T[Len(S) + 1] = u /\ \A k \in 1..Len(S) : T[k] = S[k]  OBVIOUS
<1>3. T # <<>>  BY <1>1
<1> QED  BY <1>1, <1>2, <1>3 DEF Extends

\* A message more: at most its own card more.
LEMMA CardsAppend ==
  ASSUME NEW s, NEW x, NEW t, Extends(t, s, x), NEW c \in CardsOf(t)
  PROVE  c \in CardsOf(s) \/ (x[1] = "card" /\ c = x[2])
<1>1. Len(s) \in Nat /\ Len(t) = Len(s) + 1 /\ t[Len(s) + 1] = x /\ \A k \in 1..Len(s) : t[k] = s[k]  BY DEF Extends
<1>2. PICK i \in 1..Len(t) : t[i][1] = "card" /\ c = t[i][2]  BY DEF CardsOf
<1>3. CASE i = Len(s) + 1  BY <1>1, <1>2, <1>3
<1>4. CASE i # Len(s) + 1
  <2>1. i \in 1..Len(s)  BY <1>1, <1>2, <1>4
  <2>2. s[i][1] = "card" /\ c = s[i][2]  BY <1>1, <1>2, <2>1
  <2> QED  BY <2>1, <2>2 DEF CardsOf
<1> QED  BY <1>3, <1>4

\* Which messages are cards.
LEMMA MessagesAre ==
  /\ Text \in PacketMsg /\ Hollow \in PacketMsg /\ Text[1] # "card" /\ Hollow[1] # "card"
  /\ \A p \in Seq(Nat) : Card(p) \in PacketMsg /\ Card(p)[2] = p
BY DEF PacketMsg, Text, Hollow, Card

\* An empty list has no cards.
LEMMA NoCards == CardsOf(<<>>) = {}
BY DEF CardsOf

\* The name of a level.
LEMMA PathIs ==
  ASSUME NEW P \in [Depth -> Nat \ {0}], NEW d \in Depth
  PROVE  PathIn(P, d) \in Seq(Nat) /\ Len(PathIn(P, d)) = d /\ \A k \in 1..d : PathIn(P, d)[k] = P[k - 1]
<1>1. MaxDepth \in Nat /\ d \in Nat /\ d <= MaxDepth  BY ForwardUploadAssumption DEF Depth
<1>2. \A k \in 1..d : k - 1 \in Depth  BY <1>1 DEF Depth
<1>3. \A k \in 1..d : P[k - 1] \in Nat  BY <1>2
<1>4. PathIn(P, d) \in [1..d -> Nat]  BY <1>3 DEF PathIn
<1>5. PathIn(P, d) \in Seq(Nat) /\ Len(PathIn(P, d)) = d  BY <1>1, <1>4, SeqDef, LenProperties
<1> QED  BY <1>5 DEF PathIn

-----------------------------------------------------------------------------
(* Levels under way *)

\* What was uploaded stays uploaded.
LEMMA FrameLonger ==
  ASSUME NEW m, NEW E, NEW S, Frame(m, E, S), NEW T, NEW u, Extends(T, S, u)
  PROVE  Frame(m, E, T)
<1>1. Len(S) \in Nat /\ Len(T) = Len(S) + 1 /\ \A k \in 1..Len(S) : T[k] = S[k]  BY DEF Extends
<1>2. 1..Len(S) \subseteq 1..Len(T)  BY <1>1
<1>3. \A e : WasUploaded(S, e) => WasUploaded(T, e)  BY <1>1, <1>2 DEF WasUploaded
<1> QED  BY <1>3 DEF Frame

\* A message that is no card.
LEMMA FrameText ==
  ASSUME NEW m, NEW E, NEW S, Frame(m, E, S), NEW t, NEW x, Extends(t, m, x), t # <<>>, x[1] # "card"
  PROVE  Frame(t, E, S)
<1>1. \A c \in CardsOf(t) : c \in CardsOf(m)  BY CardsAppend
<1> QED  BY <1>1 DEF Frame, Linked

\* The card of a level that is uploaded, with all that it carries.
LEMMA FrameCard ==
  ASSUME NEW m, NEW E, NEW S, Frame(m, E, S), NEW n, NEW I, Frame(n, I, S),
         NEW T, NEW u, Extends(T, S, u), u.msgs = n,
         NEW g, g.of = u.of, g.msgs = n, NEW t, NEW x, Extends(t, m, x), t # <<>>, x[2] = u.of
  PROVE  Frame(t, E \cup ({g} \cup I), T)
<1>1. Len(S) \in Nat /\ Len(T) = Len(S) + 1 /\ T[Len(S) + 1] = u  BY DEF Extends
<1>2. Len(S) + 1 \in 1..Len(T)  BY <1>1
<1>3. WasUploaded(T, g)  BY <1>1, <1>2 DEF WasUploaded
<1>4. Frame(m, E, T) /\ Frame(n, I, T)  BY FrameLonger
<1>5. \A c \in CardsOf(t) : c \in CardsOf(m) \/ c = u.of  BY CardsAppend
<1>6. Linked(t, E \cup ({g} \cup I))  BY <1>4, <1>5 DEF Frame, Linked
<1>7. Linked(g.msgs, E \cup ({g} \cup I))  BY <1>4 DEF Frame, Linked
<1>8. \A e \in E \cup I : Linked(e.msgs, E \cup ({g} \cup I)) /\ WasUploaded(T, e)  BY <1>4 DEF Frame, Linked
<1> QED  BY <1>3, <1>6, <1>7, <1>8 DEF Frame

\* No upload of a level yet.
Fresh(S, p) == \A k \in 1..Len(S) : S[k].of # p

\* A level is uploaded.
LEMMA WholesAppend ==
  ASSUME NEW S, Wholes(S), NEW T, NEW u, Extends(T, S, u), NEW I, Frame(u.msgs, I, S),
         NEW g, g.of = u.of, g.msgs = u.msgs, u.entries = {g} \cup I,
         Len(u.of) < MaxDepth, Fresh(S, u.of)
  PROVE  Wholes(T)
<1>1. Len(S) \in Nat /\ Len(T) = Len(S) + 1 /\ T[Len(S) + 1] = u /\ \A k \in 1..Len(S) : T[k] = S[k]  BY DEF Extends
<1>2. ASSUME NEW n \in 1..Len(S) PROVE Whole(T, n)
  <2>1. Whole(S, n)  BY DEF Wholes
  <2>2. \A k \in 1..n : T[k] = S[k]  BY <1>1
  <2>3. n \in 1..n /\ 1..(n - 1) \subseteq 1..n  OBVIOUS
  <2>4. T[n] = S[n]  BY <2>2, <2>3
  <2>5. ASSUME NEW e \in T[n].entries
        PROVE  Linked(e.msgs, T[n].entries) /\ \E k \in 1..n : T[k].of = e.of /\ T[k].msgs = e.msgs
    <3>1. Linked(e.msgs, S[n].entries) /\ \E k \in 1..n : S[k].of = e.of /\ S[k].msgs = e.msgs
      BY <2>1, <2>4 DEF Whole
    <3> QED  BY <3>1, <2>2, <2>4
  <2>6. Len(T[n].of) < MaxDepth /\ \A k \in 1..(n - 1) : T[k].of # T[n].of  BY <2>1, <2>2, <2>3, <2>4 DEF Whole
  <2>7. ASSUME NEW e \in T[n].entries, NEW c \in CardsOf(e.msgs) PROVE \E k \in 1..(n - 1) : T[k].of = c
    <3>1. \E k \in 1..(n - 1) : S[k].of = c  BY <2>1, <2>4 DEF Whole
    <3> QED  BY <3>1, <2>2, <2>3
  <2> QED  BY <2>5, <2>6, <2>7 DEF Whole
<1>3. PICK n : n = Len(S) + 1  OBVIOUS
<1>4. n \in Nat /\ T[n] = u /\ (\A k \in 1..(n - 1) : T[k] = S[k]) /\ 1..(n - 1) = 1..Len(S) /\ n \in 1..n
      /\ 1..(n - 1) \subseteq 1..n
  BY <1>1, <1>3
<1>5. \A e \in I : \E k \in 1..(n - 1) : T[k].of = e.of /\ T[k].msgs = e.msgs  BY <1>4 DEF Frame, WasUploaded
<1>6. \A e \in u.entries : Linked(e.msgs, I)  BY DEF Frame
<1>7. Whole(T, n)
  <2>1. ASSUME NEW e \in T[n].entries
        PROVE  Linked(e.msgs, T[n].entries) /\ \E k \in 1..n : T[k].of = e.of /\ T[k].msgs = e.msgs
    <3>1. Linked(e.msgs, T[n].entries)  BY <1>4, <1>6 DEF Linked
    <3>2. CASE e = g  BY <3>1, <3>2, <1>4
    <3>3. CASE e \in I  BY <3>1, <3>3, <1>4, <1>5
    <3> QED  BY <3>2, <3>3, <1>4
  <2>2. \A k \in 1..(n - 1) : T[k].of # T[n].of  BY <1>4 DEF Fresh
  <2>3. ASSUME NEW e \in T[n].entries, NEW c \in CardsOf(e.msgs) PROVE \E k \in 1..(n - 1) : T[k].of = c
    <3>1. PICK f \in I : f.of = c  BY <1>4, <1>6 DEF Linked
    <3> QED  BY <3>1, <1>5
  <2>4. Len(T[n].of) < MaxDepth  BY <1>4
  <2> QED  BY <2>1, <2>2, <2>3, <2>4 DEF Whole
<1>8. \A k \in 1..Len(T) : k \in 1..Len(S) \/ k = n  BY <1>1, <1>3
<1> QED  BY <1>2, <1>7, <1>8 DEF Wholes

\* The next node: what was passed stays passed.
LEMMA BeforeAdvance ==
  ASSUME NEW P \in [Depth -> Nat], NEW Q \in [Depth -> Nat], NEW D \in Depth, NEW p \in Seq(Nat), Passed(p, P, D),
         \A d \in 0..(D - 1) : Q[d] = P[d], Q[D] >= P[D]
  PROVE  Passed(p, Q, D)
<1>1. MaxDepth \in Nat /\ D \in Nat /\ D <= MaxDepth  BY ForwardUploadAssumption DEF Depth
<1>2. PICK k \in 1..(D + 1) : k <= Len(p) /\ (\A j \in 1..(k - 1) : p[j] = P[j - 1]) /\ p[k] < P[k - 1]  BY DEF Passed
<1>3. \A j \in 1..(k - 1) : j - 1 \in 0..(D - 1)  BY <1>1, <1>2
<1>4. \A j \in 1..(k - 1) : p[j] = Q[j - 1]  BY <1>2, <1>3
<1>5. k - 1 \in Depth /\ (k - 1 \in 0..(D - 1) \/ k - 1 = D) /\ k \in 1..Len(p)  BY <1>1, <1>2 DEF Depth
<1>6. P[k - 1] \in Nat /\ Q[k - 1] \in Nat /\ p[k] \in Nat  BY <1>5
<1>7. Q[k - 1] >= P[k - 1]
  <2>1. CASE k - 1 \in 0..(D - 1)  BY <2>1, <1>6
  <2>2. CASE k - 1 = D  BY <2>2
  <2> QED  BY <2>1, <2>2, <1>5
<1>8. p[k] < Q[k - 1]  BY <1>2, <1>6, <1>7
<1> QED  BY <1>2, <1>4, <1>8 DEF Passed

\* A level deeper: what was passed stays passed.
LEMMA BeforeDeeper ==
  ASSUME NEW P, NEW Q, NEW D \in Nat, NEW p, Passed(p, P, D), \A d \in 0..D : Q[d] = P[d]
  PROVE  Passed(p, Q, D + 1)
<1>1. PICK k \in 1..(D + 1) : k <= Len(p) /\ (\A j \in 1..(k - 1) : p[j] = P[j - 1]) /\ p[k] < P[k - 1]  BY DEF Passed
<1>2. \A j \in 1..k : j - 1 \in 0..D  BY <1>1
<1>3. (\A j \in 1..k : P[j - 1] = Q[j - 1]) /\ k \in 1..k /\ 1..(k - 1) \subseteq 1..k  BY <1>1, <1>2
<1>4. k \in 1..((D + 1) + 1)  BY <1>1
<1> QED  BY <1>1, <1>3, <1>4 DEF Passed

\* A level up again, at its next node.
LEMMA BeforeUp ==
  ASSUME NEW P \in [Depth -> Nat], NEW Q \in [Depth -> Nat], NEW D \in Depth, D > 0, NEW p \in Seq(Nat),
         Passed(p, P, D) \/ p = PathIn(P, D),
         \A d \in 0..(D - 1) : d # D - 1 => Q[d] = P[d], Q[D - 1] = P[D - 1] + 1
  PROVE  Passed(p, Q, D - 1)
<1>1. MaxDepth \in Nat /\ D \in Nat /\ D <= MaxDepth  BY ForwardUploadAssumption DEF Depth
<1>2. P[D - 1] \in Nat /\ Q[D - 1] \in Nat  BY <1>1 DEF Depth
<1>3. ASSUME D <= Len(p), \A j \in 1..D : p[j] = P[j - 1] PROVE Passed(p, Q, D - 1)
  <2>1. \A j \in 1..(D - 1) : j - 1 \in 0..(D - 1) /\ j - 1 # D - 1 /\ j \in 1..D  BY <1>1
  <2>2. \A j \in 1..(D - 1) : p[j] = Q[j - 1]  BY <2>1, <1>3
  <2>3. D \in 1..D /\ D \in 1..((D - 1) + 1)  BY <1>1
  <2>4. p[D] = P[D - 1]  BY <2>3, <1>3
  <2>5. p[D] < Q[D - 1]  BY <2>4, <1>2
  <2> QED  BY <2>2, <2>3, <2>5, <1>3 DEF Passed
<1>4. CASE p = PathIn(P, D)
  <2>1. \A j \in 1..D : p[j] = P[j - 1]  BY <1>4 DEF PathIn
  <2>2. Len(p) = D
    <3>1. DOMAIN p = 1..D  BY <1>4 DEF PathIn
    <3>2. Len(p) \in Nat /\ DOMAIN p = 1..Len(p)  OBVIOUS
    <3> QED  BY <3>1, <3>2, <1>1
  <2> QED  BY <2>1, <2>2, <1>1, <1>3
<1>5. CASE Passed(p, P, D)
  <2>1. PICK k \in 1..(D + 1) : k <= Len(p) /\ (\A j \in 1..(k - 1) : p[j] = P[j - 1]) /\ p[k] < P[k - 1]
    BY <1>5 DEF Passed
  <2>2. k \in 1..Len(p) /\ p[k] \in Nat /\ Len(p) \in Nat  BY SMTT(60), <2>1
  <2>3. CASE k = D + 1
    <3>1. D <= Len(p) /\ 1..D = 1..(k - 1)  BY <2>1, <2>2, <2>3, <1>1
    <3> QED  BY <3>1, <2>1, <1>3
  <2>4. CASE k <= D
    <3>1. \A j \in 1..(k - 1) : j - 1 \in 0..(D - 1) /\ j - 1 # D - 1  BY <2>1, <2>4, <1>1
    <3>2. \A j \in 1..(k - 1) : p[j] = Q[j - 1]  BY <3>1, <2>1
    <3>3. k - 1 \in 0..(D - 1) /\ k \in 1..((D - 1) + 1)  BY <2>1, <2>4, <1>1
    <3>4. p[k] < Q[k - 1]
      <4>1. CASE k - 1 = D - 1  BY SMTT(60), <4>1, <2>1, <2>2, <1>2
      <4>2. CASE k - 1 # D - 1
        <5>1. Q[k - 1] = P[k - 1]  BY <4>2, <3>3
        <5> QED  BY <5>1, <2>1
      <4> QED  BY <4>1, <4>2
    <3> QED  BY <3>2, <3>3, <3>4, <2>1 DEF Passed
  <2> QED  BY <2>1, <2>3, <2>4, <1>1
<1> QED  BY <1>4, <1>5

\* A level that is under way was not uploaded.
LEMMA NotYet ==
  ASSUME NEW P \in [Depth -> Nat \ {0}], NEW D \in Depth, NEW p \in Seq(Nat), Passed(p, P, D)
  PROVE  p # PathIn(P, D)
<1> SUFFICES ASSUME p = PathIn(P, D) PROVE FALSE
  OBVIOUS
<1>1. MaxDepth \in Nat /\ D \in Nat /\ D <= MaxDepth  BY ForwardUploadAssumption DEF Depth
<1>2. PICK k \in 1..(D + 1) : k <= Len(p) /\ p[k] < P[k - 1]  BY DEF Passed
<1>3. Len(p) = D /\ \A j \in 1..D : p[j] = P[j - 1]  BY PathIs
<1>4. k \in 1..D /\ k - 1 \in Depth  BY <1>1, <1>2, <1>3 DEF Depth
<1>5. p[k] = P[k - 1] /\ P[k - 1] \in Nat  BY <1>3, <1>4
<1> QED  BY <1>2, <1>5

-----------------------------------------------------------------------------
(* Steps *)

\* The parts of the invariant, while nodes are made.
LEMMA UploadInvIs ==
  ASSUME UploadInv, forwarded = "making"
  PROVE  /\ MaxDepth \in Nat /\ dp \in Nat /\ dp \in Depth /\ dp \in 0..dp /\ place \in [Depth -> Nat \ {0}]
         /\ packetMsg \in [Depth -> Seq(PacketMsg)] /\ innerMsg \in [Depth -> SUBSET Contents] /\ uploads \in Seq(UploadOf)
         /\ Frames(dp, packetMsg, innerMsg, uploads) /\ AllPassed(uploads, place, dp)
         /\ CarriedHere(uploads, dp, innerMsg) /\ Shallow(dp, packetMsg) /\ Wholes(uploads)
         /\ \A n \in 1..Len(uploads) : uploads[n] \in UploadOf /\ uploads[n].of \in Seq(Nat)
<1>1. MaxDepth \in Nat /\ dp \in Depth /\ place \in [Depth -> Nat \ {0}] /\ uploads \in Seq(UploadOf)
      /\ packetMsg \in [Depth -> Seq(PacketMsg)] /\ innerMsg \in [Depth -> SUBSET Contents]
  BY ForwardUploadAssumption DEF UploadInv, LevelsTyped
<1>2. dp \in Nat /\ dp \in 0..dp  BY <1>1 DEF Depth
<1>3. /\ Frames(dp, packetMsg, innerMsg, uploads) /\ AllPassed(uploads, place, dp)
      /\ CarriedHere(uploads, dp, innerMsg) /\ Shallow(dp, packetMsg) /\ Wholes(uploads)
  BY DEF UploadInv, UnderWay
<1>4. \A n \in 1..Len(uploads) : uploads[n] \in UploadOf  BY <1>1
<1>5. \A u \in UploadOf : u.of \in Seq(Nat)  BY DEF UploadOf
<1> QED  BY <1>1, <1>2, <1>3, <1>4, <1>5

\* A call ends with an error, or the card of the outermost level is sent.
LEMMA EndKeepsUploads ==
  ASSUME UploadInv, forwarded' \in {"sent", "failed"}, forwarded' = "sent" => forwarded = "uploaded",
         UNCHANGED <<dp, place, packetMsg, innerMsg, uploads>>
  PROVE  UploadInv'
<1>1. LevelsTyped'  BY DEF UploadInv, LevelsTyped
<1>2. Shallow(dp, packetMsg) /\ Wholes(uploads)  BY DEF UploadInv
<1>3. AllIsCarried'
  <2>1. CASE forwarded' = "failed"  BY <2>1 DEF AllIsCarried
  <2>2. CASE forwarded' = "sent"  BY <2>2 DEF UploadInv, AllIsCarried
  <2> QED  BY <2>1, <2>2
<1> QED  BY <1>1, <1>2, <1>3 DEF UploadInv

\* The loop goes on at its level, with a message of its own or none.
LEMMA GoesOn ==
  ASSUME UploadInv, forwarded = "making", ~TooDeep(dp), UNCHANGED <<dp, innerMsg, uploads, forwarded>>,
         NEW P, NEW M, P = place', M = packetMsg',
         P \in [Depth -> Nat \ {0}], \A d \in Depth : d # dp => P[d] = place[d], P[dp] = place[dp] + 1,
         M \in [Depth -> Seq(PacketMsg)], \A d \in Depth : d # dp => M[d] = packetMsg[d],
         M[dp] = packetMsg[dp] \/ \E x \in {Text, Hollow} : Extends(M[dp], packetMsg[dp], x) /\ M[dp] # <<>>
  PROVE  UploadInv'
<1>1. /\ MaxDepth \in Nat /\ dp \in Nat /\ dp \in Depth /\ dp \in 0..dp /\ place \in [Depth -> Nat \ {0}]
      /\ Frames(dp, packetMsg, innerMsg, uploads) /\ AllPassed(uploads, place, dp)
      /\ CarriedHere(uploads, dp, innerMsg) /\ Shallow(dp, packetMsg) /\ Wholes(uploads)
      /\ \A n \in 1..Len(uploads) : uploads[n] \in UploadOf /\ uploads[n].of \in Seq(Nat)
  BY UploadInvIs
<1>2. \A d \in 0..dp : d \in Depth  BY <1>1 DEF Depth
<1>3. Frames(dp, M, innerMsg, uploads)
  <2> SUFFICES ASSUME NEW d \in 0..dp PROVE Frame(M[d], innerMsg[d], uploads)
    BY DEF Frames
  <2>1. Frame(packetMsg[d], innerMsg[d], uploads)  BY <1>1 DEF Frames
  <2>2. CASE M[d] = packetMsg[d]  BY <2>1, <2>2
  <2>3. CASE M[d] # packetMsg[d]
    <3>1. d = dp  BY <2>3, <1>2
    <3>2. PICK x \in {Text, Hollow} : Extends(M[d], packetMsg[d], x) /\ M[d] # <<>>  BY <3>1, <2>3
    <3>3. x[1] # "card"  BY MessagesAre
    <3> QED  BY <3>2, <3>3, <2>1, FrameText
  <2> QED  BY <2>2, <2>3
<1>4. AllPassed(uploads, P, dp)
  <2> SUFFICES ASSUME NEW n \in 1..Len(uploads) PROVE Passed(uploads[n].of, P, dp)
    BY DEF AllPassed
  <2>1. Passed(uploads[n].of, place, dp) /\ uploads[n].of \in Seq(Nat)  BY <1>1 DEF AllPassed
  <2>2. \A d \in 0..(dp - 1) : d \in Depth /\ d # dp  BY <1>1 DEF Depth
  <2>3. \A d \in 0..(dp - 1) : P[d] = place[d]  BY <2>2
  <2>4. place \in [Depth -> Nat] /\ P \in [Depth -> Nat] /\ P[dp] >= place[dp]  BY <1>1
  <2> QED  BY <2>1, <2>3, <2>4, <1>1, BeforeAdvance
<1>5. Shallow(dp, M)
  <2> SUFFICES ASSUME NEW d \in 0..dp, TooDeep(d) PROVE M[d] = <<>>
    BY DEF Shallow
  <2>1. packetMsg[d] = <<>>  BY <1>1 DEF Shallow
  <2>2. d # dp  OBVIOUS
  <2> QED  BY <2>1, <2>2, <1>2
<1>6. LevelsTyped'  BY DEF UploadInv, LevelsTyped
<1>7. AllIsCarried'  BY DEF AllIsCarried
<1> QED  BY <1>1, <1>3, <1>4, <1>5, <1>6, <1>7 DEF UploadInv, UnderWay

\* A message is made, or left out.
LEMMA NodeKeeps ==
  ASSUME UploadInv, MessageNode \/ MissingNode
  PROVE  UploadInv'
<1>1. forwarded = "making" /\ ~TooDeep(dp)  BY DEF MessageNode, MissingNode, AtNode
<1>2. /\ dp \in Depth /\ place \in [Depth -> Nat \ {0}] /\ packetMsg \in [Depth -> Seq(PacketMsg)]
      /\ innerMsg \in [Depth -> SUBSET Contents]
  BY <1>1, UploadInvIs
<1>3. ASSUME place' = [place EXCEPT ![dp] = @ + 1]
      PROVE  /\ place' \in [Depth -> Nat \ {0}] /\ \A d \in Depth : d # dp => place'[d] = place[d]
             /\ place'[dp] = place[dp] + 1
  BY <1>2, <1>3
<1>4. CASE MissingNode
  <2>1. place' = [place EXCEPT ![dp] = @ + 1] /\ UNCHANGED <<dp, packetMsg, innerMsg, uploads, forwarded>>
    BY <1>4 DEF MissingNode
  <2>2. PICK P, M : P = place' /\ M = packetMsg'  OBVIOUS
  <2>3. P \in [Depth -> Nat \ {0}] /\ (\A d \in Depth : d # dp => P[d] = place[d]) /\ P[dp] = place[dp] + 1
    BY <2>1, <2>2, <1>3
  <2>4. M \in [Depth -> Seq(PacketMsg)] /\ (\A d \in Depth : d # dp => M[d] = packetMsg[d]) /\ M[dp] = packetMsg[dp]
    BY <2>1, <2>2, <1>2
  <2>5. M[dp] = packetMsg[dp] \/ \E x \in {Text, Hollow} : Extends(M[dp], packetMsg[dp], x) /\ M[dp] # <<>>
    BY <2>4
  <2>6. P = place' /\ M = packetMsg'  BY <2>2
  <2>7. UNCHANGED <<dp, innerMsg, uploads, forwarded>>  BY <2>1
  <2>8. M \in [Depth -> Seq(PacketMsg)] /\ \A d \in Depth : d # dp => M[d] = packetMsg[d]  BY <2>4
  <2> QED  BY <2>3, <2>5, <2>6, <2>7, <2>8, <1>1, GoesOn
<1>5. CASE Throw
  <2>1. forwarded' = "failed" /\ UNCHANGED <<dp, place, packetMsg, innerMsg, uploads>>  BY <1>5 DEF Throw
  <2> QED  BY <2>1, EndKeepsUploads
<1>6. CASE Push(dp, Text, {}) /\ UNCHANGED <<dp, messageNodes, uploads, forwarded>>
  <2>1. /\ packetMsg' = [packetMsg EXCEPT ![dp] = Append(@, Text)] /\ place' = [place EXCEPT ![dp] = @ + 1]
        /\ innerMsg' = [innerMsg EXCEPT ![dp] = @ \cup {}] /\ UNCHANGED <<dp, uploads, forwarded>>
    BY <1>6 DEF Push
  <2>2. innerMsg' = innerMsg
    <3>1. innerMsg[dp] \cup {} = innerMsg[dp]  OBVIOUS
    <3> QED  BY <3>1, <2>1, <1>2
  <2>3. PICK P, M, t : P = place' /\ M = packetMsg' /\ t = Append(packetMsg[dp], Text)  OBVIOUS
  <2>4. packetMsg[dp] \in Seq(PacketMsg) /\ Text \in PacketMsg  BY <1>2, MessagesAre
  <2>5. t \in Seq(PacketMsg) /\ Extends(t, packetMsg[dp], Text) /\ t # <<>>  BY <2>3, <2>4, ExtendsIs
  <2>6. M = [packetMsg EXCEPT ![dp] = t]  BY <2>1, <2>3
  <2>7. M \in [Depth -> Seq(PacketMsg)] /\ (\A d \in Depth : d # dp => M[d] = packetMsg[d]) /\ M[dp] = t
    BY <2>5, <2>6, <1>2
  <2>8. P \in [Depth -> Nat \ {0}] /\ (\A d \in Depth : d # dp => P[d] = place[d]) /\ P[dp] = place[dp] + 1
    BY <2>1, <2>3, <1>3
  <2>9. \E x \in {Text, Hollow} : Extends(M[dp], packetMsg[dp], x) /\ M[dp] # <<>>  BY <2>5, <2>7
  <2>10. M[dp] = packetMsg[dp] \/ \E x \in {Text, Hollow} : Extends(M[dp], packetMsg[dp], x) /\ M[dp] # <<>>
    BY <2>9
  <2>11. P = place' /\ M = packetMsg'  BY <2>3
  <2>12. UNCHANGED <<dp, innerMsg, uploads, forwarded>>  BY <2>1, <2>2
  <2>13. M \in [Depth -> Seq(PacketMsg)] /\ \A d \in Depth : d # dp => M[d] = packetMsg[d]  BY <2>7
  <2> QED  BY <2>8, <2>10, <2>11, <2>12, <2>13, <1>1, GoesOn
<1> QED  BY <1>4, <1>5, <1>6 DEF MessageNode

\* A node that holds nodes: a level deeper.
LEMMA NestKeeps ==
  ASSUME UploadInv, NestNode
  PROVE  UploadInv'
<1>1. forwarded = "making" /\ ~TooDeep(dp)  BY DEF NestNode, AtNode
<1>2. PICK D, P, M, I : D = dp + 1 /\ P = place' /\ M = packetMsg' /\ I = innerMsg'  OBVIOUS
<1>3. /\ dp' = D /\ P = [place EXCEPT ![D] = 1] /\ M = [packetMsg EXCEPT ![D] = <<>>]
      /\ I = [innerMsg EXCEPT ![D] = {}] /\ UNCHANGED <<uploads, forwarded>>
  BY <1>2 DEF NestNode
<1>4. /\ MaxDepth \in Nat /\ dp \in Nat /\ dp \in Depth /\ place \in [Depth -> Nat \ {0}]
      /\ packetMsg \in [Depth -> Seq(PacketMsg)] /\ innerMsg \in [Depth -> SUBSET Contents]
      /\ Frames(dp, packetMsg, innerMsg, uploads) /\ AllPassed(uploads, place, dp)
      /\ CarriedHere(uploads, dp, innerMsg) /\ Shallow(dp, packetMsg) /\ Wholes(uploads)
  BY <1>1, UploadInvIs
<1>5. D \in Depth /\ D \in Nat  BY <1>1, <1>2, <1>4 DEF TooDeep, Depth
<1>6. P \in [Depth -> Nat \ {0}] /\ \A d \in Depth : d # D => P[d] = place[d]
  <2>1. 1 \in Nat \ {0}  OBVIOUS
  <2>2. P \in [Depth -> Nat \ {0}]  BY <2>1, <1>3, <1>4, <1>5
  <2>3. \A d \in Depth : d # D => P[d] = place[d]  BY <1>3, <1>4
  <2> QED  BY <2>2, <2>3
<1>7. M \in [Depth -> Seq(PacketMsg)] /\ M[D] = <<>> /\ \A d \in Depth : d # D => M[d] = packetMsg[d]
  BY <1>3, <1>4, <1>5
<1>8. I \in [Depth -> SUBSET Contents] /\ I[D] = {} /\ \A d \in Depth : d # D => I[d] = innerMsg[d]
  BY <1>3, <1>4, <1>5
<1>9. (\A d \in 0..D : d = D \/ d \in 0..dp) /\ \A d \in 0..dp : d \in Depth /\ d # D /\ d \in 0..D
  BY <1>2, <1>4, <1>5 DEF Depth
<1>10. Frames(D, M, I, uploads)
  <2> SUFFICES ASSUME NEW d \in 0..D PROVE Frame(M[d], I[d], uploads)
    BY DEF Frames
  <2>1. CASE d = D  BY <2>1, <1>7, <1>8, NoCards DEF Frame, Linked
  <2>2. CASE d \in 0..dp
    <3>1. Frame(packetMsg[d], innerMsg[d], uploads)  BY <2>2, <1>4 DEF Frames
    <3> QED  BY <3>1, <2>2, <1>7, <1>8, <1>9
  <2> QED  BY <2>1, <2>2, <1>9
<1>11. AllPassed(uploads, P, D)
  <2> SUFFICES ASSUME NEW n \in 1..Len(uploads) PROVE Passed(uploads[n].of, P, D)
    BY DEF AllPassed
  <2>1. Passed(uploads[n].of, place, dp)  BY <1>4 DEF AllPassed
  <2>2. \A d \in 0..dp : P[d] = place[d]  BY <1>6, <1>9
  <2>3. Passed(uploads[n].of, P, dp + 1)  BY <2>1, <2>2, <1>4, BeforeDeeper
  <2> QED  BY <2>3, <1>2
<1>12. CarriedHere(uploads, D, I)
  <2> SUFFICES ASSUME NEW n \in 1..Len(uploads)
               PROVE  \E d \in 0..D : \E f \in I[d] : f.of = uploads[n].of /\ f.msgs = uploads[n].msgs
    BY DEF CarriedHere
  <2>1. PICK d \in 0..dp : \E f \in innerMsg[d] : f.of = uploads[n].of /\ f.msgs = uploads[n].msgs
    BY <1>4 DEF CarriedHere
  <2>2. d \in 0..D /\ I[d] = innerMsg[d]  BY <1>8, <1>9
  <2> QED  BY <2>1, <2>2
<1>13. Shallow(D, M)
  <2> SUFFICES ASSUME NEW d \in 0..D, TooDeep(d) PROVE M[d] = <<>>
    BY DEF Shallow
  <2>1. CASE d = D  BY <2>1, <1>7
  <2>2. CASE d \in 0..dp  BY <2>2, <1>4, <1>7, <1>9 DEF Shallow
  <2> QED  BY <2>1, <2>2, <1>9
<1>14. LevelsTyped'  BY <1>2, <1>3, <1>5, <1>6, <1>7, <1>8 DEF UploadInv, LevelsTyped
<1>15. AllIsCarried'  BY <1>1, <1>3 DEF AllIsCarried
<1> QED  BY <1>2, <1>3, <1>4, <1>10, <1>11, <1>12, <1>13, <1>14, <1>15 DEF UploadInv, UnderWay

\* A call returns to the one above, which goes on with its next node.
LEMMA Returns ==
  ASSUME UploadInv, forwarded = "making", dp > 0, UNCHANGED forwarded,
         NEW D, D = dp - 1, NEW P, NEW M, NEW I, NEW T, dp' = D, P = place', M = packetMsg', I = innerMsg', T = uploads',
         P \in [Depth -> Nat \ {0}], \A d \in Depth : d # D => P[d] = place[d], P[D] = place[D] + 1,
         M \in [Depth -> Seq(PacketMsg)], \A d \in Depth : d # D => M[d] = packetMsg[d],
         I \in [Depth -> SUBSET Contents], \A d \in Depth : d # D => I[d] = innerMsg[d],
         T \in Seq(UploadOf), Wholes(T), \A d \in 0..D : d # D => Frame(packetMsg[d], innerMsg[d], T),
         Frame(M[D], I[D], T), CarriedHere(T, D, I),
         \A n \in 1..Len(T) : T[n].of \in Seq(Nat) /\ (Passed(T[n].of, place, dp) \/ T[n].of = PathIn(place, dp))
  PROVE  UploadInv'
<1>1. /\ MaxDepth \in Nat /\ dp \in Nat /\ dp \in Depth /\ place \in [Depth -> Nat \ {0}]
      /\ Shallow(dp, packetMsg)
  BY UploadInvIs
<1>2. dp <= MaxDepth  BY <1>1 DEF Depth
<1>3. D \in Nat /\ D \in Depth /\ D < MaxDepth  BY <1>1, <1>2 DEF Depth
<1>4. \A d \in 0..D : d \in Depth /\ d \in 0..dp  BY <1>1, <1>3 DEF Depth
<1>5. Frames(D, M, I, T)
  <2> SUFFICES ASSUME NEW d \in 0..D PROVE Frame(M[d], I[d], T)
    BY DEF Frames
  <2>1. CASE d = D  BY <2>1
  <2>2. CASE d # D
    <3>1. M[d] = packetMsg[d] /\ I[d] = innerMsg[d]  BY <2>2, <1>4
    <3>2. Frame(packetMsg[d], innerMsg[d], T)  BY <2>2
    <3> QED  BY <3>1, <3>2
  <2> QED  BY <2>1, <2>2
<1>6. AllPassed(T, P, D)
  <2> SUFFICES ASSUME NEW n \in 1..Len(T) PROVE Passed(T[n].of, P, D)
    BY DEF AllPassed
  <2>1. T[n].of \in Seq(Nat) /\ (Passed(T[n].of, place, dp) \/ T[n].of = PathIn(place, dp))  OBVIOUS
  <2>2. place \in [Depth -> Nat] /\ P \in [Depth -> Nat]  BY <1>1
  <2>3. \A d \in 0..(dp - 1) : d # dp - 1 => P[d] = place[d]  BY <1>4
  <2>4. P[dp - 1] = place[dp - 1] + 1  OBVIOUS
  <2>5. Passed(T[n].of, P, dp - 1)  BY <2>1, <2>2, <2>3, <2>4, <1>1, BeforeUp
  <2> QED  BY <2>5
<1>7. Shallow(D, M)
  <2> SUFFICES ASSUME NEW d \in 0..D, TooDeep(d) PROVE M[d] = <<>>
    BY DEF Shallow
  <2>1. d # D  BY <1>1, <1>3 DEF TooDeep
  <2>2. M[d] = packetMsg[d]  BY <2>1, <1>4
  <2>3. packetMsg[d] = <<>>  BY <1>1, <1>4 DEF Shallow
  <2> QED  BY <2>2, <2>3
<1>8. LevelsTyped'  BY <1>3 DEF UploadInv, LevelsTyped
<1>9. AllIsCarried'  BY DEF AllIsCarried
<1> QED  BY <1>5, <1>6, <1>7, <1>8, <1>9 DEF UploadInv, UnderWay

\* Nothing could be made at a level.
LEMMA ReturnNullKeeps ==
  ASSUME UploadInv, ReturnNull
  PROVE  UploadInv'
<1>1. forwarded = "making" /\ packetMsg[dp] = <<>>  BY DEF ReturnNull, AtEnd
<1>2. CASE Throw
  <2>1. forwarded' = "failed" /\ UNCHANGED <<dp, place, packetMsg, innerMsg, uploads>>  BY <1>2 DEF Throw
  <2> QED  BY <2>1, EndKeepsUploads
<1>3. CASE dp > 0 /\ dp' = dp - 1 /\ Push(dp - 1, Hollow, {}) /\ UNCHANGED <<messageNodes, uploads, forwarded>>
  <2>1. /\ MaxDepth \in Nat /\ dp \in Nat /\ dp \in Depth /\ dp \in 0..dp /\ place \in [Depth -> Nat \ {0}]
        /\ packetMsg \in [Depth -> Seq(PacketMsg)] /\ innerMsg \in [Depth -> SUBSET Contents] /\ uploads \in Seq(UploadOf)
        /\ Frames(dp, packetMsg, innerMsg, uploads) /\ AllPassed(uploads, place, dp)
        /\ CarriedHere(uploads, dp, innerMsg) /\ Wholes(uploads)
        /\ \A n \in 1..Len(uploads) : uploads[n] \in UploadOf /\ uploads[n].of \in Seq(Nat)
    BY <1>1, UploadInvIs
  <2>2. PICK D, P, M, I, T : D = dp - 1 /\ P = place' /\ M = packetMsg' /\ I = innerMsg' /\ T = uploads'  OBVIOUS
  <2>3. /\ dp' = D /\ P = [place EXCEPT ![D] = @ + 1] /\ M = [packetMsg EXCEPT ![D] = Append(@, Hollow)]
        /\ I = [innerMsg EXCEPT ![D] = @ \cup {}] /\ T = uploads /\ UNCHANGED forwarded
    BY <1>3, <2>2 DEF Push
  <2>4. dp <= MaxDepth  BY <2>1 DEF Depth
  <2>5. D \in Nat /\ D \in Depth /\ D \in 0..D /\ D \in 0..dp  BY <1>3, <2>1, <2>2, <2>4 DEF Depth
  <2>6. \A d \in 0..D : d \in Depth /\ d \in 0..dp  BY <2>1, <2>2, <2>4, <2>5 DEF Depth
  <2>7. I = innerMsg
    <3>1. innerMsg[D] \cup {} = innerMsg[D]  OBVIOUS
    <3> QED  BY <3>1, <2>1, <2>3
  <2>8. P \in [Depth -> Nat \ {0}]
    <3>1. place[D] + 1 \in Nat \ {0}  BY <2>1, <2>5
    <3> QED  BY <3>1, <2>1, <2>3
  <2>9. (\A d \in Depth : d # D => P[d] = place[d]) /\ P[D] = place[D] + 1  BY <2>1, <2>3, <2>5
  <2>10. PICK t : t = Append(packetMsg[D], Hollow)  OBVIOUS
  <2>11. packetMsg[D] \in Seq(PacketMsg) /\ Hollow \in PacketMsg /\ Hollow[1] # "card"  BY <2>1, <2>5, MessagesAre
  <2>12. t \in Seq(PacketMsg) /\ Extends(t, packetMsg[D], Hollow) /\ t # <<>>  BY <2>10, <2>11, ExtendsIs
  <2>13. M = [packetMsg EXCEPT ![D] = t]  BY <2>3, <2>10
  <2>14. M \in [Depth -> Seq(PacketMsg)] /\ (\A d \in Depth : d # D => M[d] = packetMsg[d]) /\ M[D] = t
    BY <2>1, <2>5, <2>12, <2>13
  <2>15. \A d \in 0..D : d # D => Frame(packetMsg[d], innerMsg[d], T)  BY <2>1, <2>3, <2>6 DEF Frames
  <2>16. Frame(M[D], I[D], T)
    <3>1. Frame(packetMsg[D], innerMsg[D], uploads)  BY <2>1, <2>5 DEF Frames
    <3>2. Frame(t, innerMsg[D], uploads)  BY <3>1, <2>11, <2>12, FrameText
    <3> QED  BY <3>2, <2>3, <2>7, <2>14
  <2>17. CarriedHere(T, D, I)
    <3> SUFFICES ASSUME NEW n \in 1..Len(T)
                 PROVE  \E d \in 0..D : \E f \in I[d] : f.of = T[n].of /\ f.msgs = T[n].msgs
      BY DEF CarriedHere
    <3>1. PICK d \in 0..dp : \E f \in innerMsg[d] : f.of = uploads[n].of /\ f.msgs = uploads[n].msgs
      BY <2>1, <2>3 DEF CarriedHere
    <3>2. innerMsg[dp] = {}  BY <1>1, <2>1 DEF Frames, Frame
    <3>3. d # dp  BY <3>1, <3>2
    <3>4. d \in 0..D  BY <3>3, <2>1, <2>2
    <3> QED  BY <3>1, <3>4, <2>3, <2>7
  <2>18. \A n \in 1..Len(T) : T[n].of \in Seq(Nat) /\ (Passed(T[n].of, place, dp) \/ T[n].of = PathIn(place, dp))
    BY <2>1, <2>3 DEF AllPassed
  <2>19. I \in [Depth -> SUBSET Contents] /\ (\A d \in Depth : d # D => I[d] = innerMsg[d])  BY <2>1, <2>7
  <2>20. T \in Seq(UploadOf) /\ Wholes(T)  BY <2>1, <2>3
  <2>21. dp' = D /\ UNCHANGED forwarded  BY <2>3
  <2>22. (\A d \in Depth : d # D => M[d] = packetMsg[d]) /\ M \in [Depth -> Seq(PacketMsg)]  BY <2>14
  <2> QED  BY <1>1, <1>3, <2>2, <2>8, <2>9, <2>15, <2>16, <2>17, <2>18, <2>19, <2>20, <2>21, <2>22, Returns
<1> QED  BY <1>2, <1>3 DEF ReturnNull

\* A level is uploaded: the outermost, or one whose card its caller takes.
LEMMA UploadKeeps ==
  ASSUME UploadInv, UploadForwardMsg
  PROVE  UploadInv'
<1>1. forwarded = "making" /\ packetMsg[dp] # <<>>  BY DEF UploadForwardMsg, AtEnd
<1>2. CASE Throw
  <2>1. forwarded' = "failed" /\ UNCHANGED <<dp, place, packetMsg, innerMsg, uploads>>  BY <1>2 DEF Throw
  <2> QED  BY <2>1, EndKeepsUploads
<1>3. PICK p, n, J, g, u, T : /\ p = PathIn(place, dp) /\ n = packetMsg[dp] /\ J = innerMsg[dp]
                              /\ g = [of |-> p, msgs |-> n] /\ u = [of |-> p, msgs |-> n, entries |-> {g} \cup J]
                              /\ T = Append(uploads, u)
  OBVIOUS
<1>4. PathOf(dp) = p /\ Carried(dp) = {g} \cup J  BY <1>3 DEF PathOf, PathIn, Carried
<1>5. /\ MaxDepth \in Nat /\ dp \in Nat /\ dp \in Depth /\ dp \in 0..dp /\ place \in [Depth -> Nat \ {0}]
      /\ packetMsg \in [Depth -> Seq(PacketMsg)] /\ innerMsg \in [Depth -> SUBSET Contents] /\ uploads \in Seq(UploadOf)
      /\ Frames(dp, packetMsg, innerMsg, uploads) /\ AllPassed(uploads, place, dp)
      /\ CarriedHere(uploads, dp, innerMsg) /\ Shallow(dp, packetMsg) /\ Wholes(uploads)
      /\ \A k \in 1..Len(uploads) : uploads[k] \in UploadOf /\ uploads[k].of \in Seq(Nat)
  BY <1>1, UploadInvIs
<1>6. p \in Seq(Nat) /\ Len(p) = dp  BY <1>3, <1>5, PathIs
<1>7. dp < MaxDepth  BY <1>1, <1>5 DEF Shallow, TooDeep
<1>8. n \in Seq(PacketMsg) /\ J \in SUBSET Contents  BY <1>3, <1>5
<1>9. g \in Contents /\ g.of = p /\ g.msgs = n  BY <1>3, <1>6, <1>8 DEF Contents
<1>10. u \in UploadOf /\ u.of = p /\ u.msgs = n /\ u.entries = {g} \cup J
  <2>1. {g} \cup J \in SUBSET Contents  BY <1>8, <1>9
  <2> QED  BY <2>1, <1>3, <1>6, <1>8 DEF UploadOf
<1>11. T \in Seq(UploadOf) /\ Extends(T, uploads, u)
  <2>1. u \in UploadOf /\ uploads \in Seq(UploadOf)  BY <1>5, <1>10
  <2>2. T = Append(uploads, u)  BY <1>3
  <2> QED  BY <2>1, <2>2, ExtendsIs
<1>12. Fresh(uploads, u.of)
  <2> SUFFICES ASSUME NEW k \in 1..Len(uploads) PROVE uploads[k].of # p
    BY <1>10 DEF Fresh
  <2>1. Passed(uploads[k].of, place, dp) /\ uploads[k].of \in Seq(Nat)  BY <1>5 DEF AllPassed
  <2> QED  BY <2>1, <1>3, <1>5, NotYet
<1>13. Frame(n, J, uploads)  BY <1>3, <1>5 DEF Frames
<1>14. Wholes(T)
  <2>1. Frame(u.msgs, J, uploads) /\ g.of = u.of /\ g.msgs = u.msgs  BY <1>9, <1>10, <1>13
  <2>2. Len(u.of) < MaxDepth  BY <1>6, <1>7, <1>10
  <2>3. u.entries = {g} \cup J  BY <1>10
  <2>4. Wholes(uploads)  BY <1>5
  <2>5. Extends(T, uploads, u)  BY <1>11
  <2> QED  BY <2>1, <2>2, <2>3, <2>4, <2>5, <1>12, WholesAppend
<1>15. Len(uploads) \in Nat /\ Len(T) = Len(uploads) + 1 /\ T[Len(uploads) + 1] = u
       /\ \A k \in 1..Len(uploads) : T[k] = uploads[k]
  BY <1>11 DEF Extends
<1>16. \A k \in 1..Len(T) : k \in 1..Len(uploads) \/ k = Len(uploads) + 1  BY <1>15
<1>17. ASSUME dp = 0 /\ forwarded' = "uploaded" /\ uploads' = T /\ UNCHANGED <<dp, place, packetMsg, innerMsg>>
      PROVE  UploadInv'
  <2>1. LevelsTyped'  BY <1>11, <1>17 DEF UploadInv, LevelsTyped
  <2>2. AllIsCarried'
    <3>1. PICK l : l = Len(T)  OBVIOUS
    <3>2. l > 0 /\ l = Len(uploads) + 1  BY <1>15, <3>1
    <3>3. T[l] = u  BY <1>15, <3>2
    <3>4. p = <<>>  BY <1>6, <1>17
    <3>5. ASSUME NEW k \in 1..l PROVE [of |-> T[k].of, msgs |-> T[k].msgs] \in T[l].entries
      <4>1. CASE k = l  BY <4>1, <3>3, <1>3, <1>10
      <4>2. CASE k \in 1..Len(uploads)
        <5>1. T[k] = uploads[k]  BY <4>2, <1>15
        <5>2. PICK d \in 0..dp : \E f \in innerMsg[d] : f.of = uploads[k].of /\ f.msgs = uploads[k].msgs
          BY <4>2, <1>5 DEF CarriedHere
        <5>3. d = dp  BY <1>17, <5>2
        <5>4. PICK f \in J : f.of = uploads[k].of /\ f.msgs = uploads[k].msgs  BY <5>2, <5>3, <1>3
        <5>5. f \in Contents  BY <5>4, <1>8
        <5>6. f = [of |-> f.of, msgs |-> f.msgs]  BY <5>5 DEF Contents
        <5>7. f = [of |-> T[k].of, msgs |-> T[k].msgs]  BY <5>1, <5>4, <5>6
        <5> QED  BY <5>4, <5>7, <3>3, <1>10
      <4> QED  BY <4>1, <4>2, <1>16, <3>1, <3>2
    <3>6. T[l].of = <<>>  BY <3>3, <3>4, <1>10
    <3> QED  BY <3>1, <3>2, <3>5, <3>6, <1>17 DEF AllIsCarried
  <2>3. Shallow(dp, packetMsg)  BY <1>5
  <2> QED  BY <2>1, <2>2, <2>3, <1>14, <1>17 DEF UploadInv
<1>18. ASSUME dp > 0 /\ dp' = dp - 1 /\ Push(dp - 1, Card(p), {g} \cup J) /\ uploads' = T /\ UNCHANGED forwarded
      PROVE  UploadInv'
  <2>2. PICK D, P, M, I : D = dp - 1 /\ P = place' /\ M = packetMsg' /\ I = innerMsg'  OBVIOUS
  <2>3. /\ dp' = D /\ P = [place EXCEPT ![D] = @ + 1] /\ M = [packetMsg EXCEPT ![D] = Append(@, Card(p))]
        /\ I = [innerMsg EXCEPT ![D] = @ \cup ({g} \cup J)] /\ T = uploads' /\ UNCHANGED forwarded
    BY <1>18, <2>2 DEF Push
  <2>4. dp <= MaxDepth  BY <1>5 DEF Depth
  <2>5. D \in Nat /\ D \in Depth /\ D \in 0..D /\ D \in 0..dp  BY <1>18, <1>5, <2>2, <2>4 DEF Depth
  <2>6. \A d \in 0..D : d \in Depth /\ d \in 0..dp  BY <1>5, <2>2, <2>4, <2>5 DEF Depth
  <2>8. P \in [Depth -> Nat \ {0}]
    <3>1. place[D] + 1 \in Nat \ {0}  BY <1>5, <2>5
    <3> QED  BY <3>1, <1>5, <2>3
  <2>9. (\A d \in Depth : d # D => P[d] = place[d]) /\ P[D] = place[D] + 1  BY <1>5, <2>3, <2>5
  <2>10. PICK t, x : t = Append(packetMsg[D], x) /\ x = Card(p)  OBVIOUS
  <2>11. packetMsg[D] \in Seq(PacketMsg) /\ x \in PacketMsg /\ x[2] = p  BY <1>5, <1>6, <2>5, <2>10, MessagesAre
  <2>12. t \in Seq(PacketMsg) /\ Extends(t, packetMsg[D], x) /\ t # <<>>  BY <2>10, <2>11, ExtendsIs
  <2>13. M = [packetMsg EXCEPT ![D] = t]  BY <2>3, <2>10
  <2>14. M \in [Depth -> Seq(PacketMsg)] /\ (\A d \in Depth : d # D => M[d] = packetMsg[d]) /\ M[D] = t
    BY <1>5, <2>5, <2>12, <2>13
  <2>15. ASSUME NEW d \in 0..D PROVE Frame(packetMsg[d], innerMsg[d], T)
    <3>1. Frame(packetMsg[d], innerMsg[d], uploads)  BY <1>5, <2>6 DEF Frames
    <3> QED  BY <3>1, <1>11, FrameLonger
  <2>16. PICK F : F = innerMsg[D] \cup ({g} \cup J)  OBVIOUS
  <2>17. F \in SUBSET Contents
    <3>1. innerMsg[D] \in SUBSET Contents  BY <1>5, <2>5
    <3> QED  BY <3>1, <2>16, <1>8, <1>9
  <2>18. I = [innerMsg EXCEPT ![D] = F]  BY <2>3, <2>16
  <2>19. I \in [Depth -> SUBSET Contents] /\ (\A d \in Depth : d # D => I[d] = innerMsg[d]) /\ I[D] = F
    BY <1>5, <2>5, <2>17, <2>18
  <2>20. Frame(M[D], I[D], T)
    <3>1. Frame(packetMsg[D], innerMsg[D], uploads)  BY <1>5, <2>5 DEF Frames
    <3>2. u.msgs = n /\ g.of = u.of /\ g.msgs = n /\ x[2] = u.of  BY <1>9, <1>10, <2>11
    <3>3. Frame(t, innerMsg[D] \cup ({g} \cup J), T)  BY <3>1, <3>2, <1>11, <1>13, <2>12, FrameCard
    <3> QED  BY <3>3, <2>14, <2>16, <2>19
  <2>21. CarriedHere(T, D, I)
    <3> SUFFICES ASSUME NEW k \in 1..Len(T)
                 PROVE  \E d \in 0..D : \E f \in I[d] : f.of = T[k].of /\ f.msgs = T[k].msgs
      BY DEF CarriedHere
    <3>1. CASE k = Len(uploads) + 1
      <4>1. T[k] = u /\ g \in I[D]  BY <3>1, <1>15, <2>16, <2>19
      <4> QED  BY <4>1, <1>9, <1>10, <2>5
    <3>2. CASE k \in 1..Len(uploads)
      <4>1. T[k] = uploads[k]  BY <3>2, <1>15
      <4>2. PICK d \in 0..dp : \E f \in innerMsg[d] : f.of = uploads[k].of /\ f.msgs = uploads[k].msgs
        BY <3>2, <1>5 DEF CarriedHere
      <4>3. CASE d = dp
        <5>1. \E f \in I[D] : f.of = T[k].of /\ f.msgs = T[k].msgs  BY <4>1, <4>2, <4>3, <1>3, <2>16, <2>19
        <5> QED  BY <5>1, <2>5
      <4>4. CASE d # dp
        <5>1. d \in 0..D  BY <4>4, <1>5, <2>2
        <5>2. innerMsg[d] \subseteq I[d]
          <6>1. CASE d = D  BY <6>1, <2>16, <2>19
          <6>2. CASE d # D  BY <6>2, <5>1, <2>6, <2>19
          <6> QED  BY <6>1, <6>2
        <5> QED  BY <5>1, <5>2, <4>1, <4>2
      <4> QED  BY <4>3, <4>4
    <3> QED  BY <3>1, <3>2, <1>16
  <2>22. \A k \in 1..Len(T) : T[k].of \in Seq(Nat) /\ (Passed(T[k].of, place, dp) \/ T[k].of = PathIn(place, dp))
    <3> SUFFICES ASSUME NEW k \in 1..Len(T)
                 PROVE  T[k].of \in Seq(Nat) /\ (Passed(T[k].of, place, dp) \/ T[k].of = PathIn(place, dp))
      OBVIOUS
    <3>1. CASE k = Len(uploads) + 1
      <4>1. T[k].of = p  BY <3>1, <1>10, <1>15
      <4> QED  BY <4>1, <1>3, <1>6
    <3>2. CASE k \in 1..Len(uploads)
      <4>1. T[k] = uploads[k]  BY <3>2, <1>15
      <4> QED  BY <4>1, <3>2, <1>5 DEF AllPassed
    <3> QED  BY <3>1, <3>2, <1>16
  <2>23. \A d \in 0..D : d # D => Frame(packetMsg[d], innerMsg[d], T)  BY <2>15
  <2>24. dp' = D /\ T = uploads' /\ UNCHANGED forwarded  BY <2>3
  <2>25. (\A d \in Depth : d # D => M[d] = packetMsg[d]) /\ M \in [Depth -> Seq(PacketMsg)]  BY <2>14
  <2>26. (\A d \in Depth : d # D => I[d] = innerMsg[d]) /\ I \in [Depth -> SUBSET Contents]  BY <2>19
  <2>27. T \in Seq(UploadOf)  BY <1>11
  <2>28. dp > 0 /\ forwarded = "making"  BY <1>1, <1>18
  <2>29. D = dp - 1 /\ P = place' /\ M = packetMsg' /\ I = innerMsg'  BY <2>2
  <2> QED
    BY <2>28, <2>29, <2>8, <2>9, <1>14, <2>20, <2>21, <2>22, <2>23, <2>24, <2>25, <2>26, <2>27, Returns
<1>19. T = Append(uploads, [of |-> PathOf(dp), msgs |-> packetMsg[dp], entries |-> Carried(dp)])  BY <1>3, <1>4
<1> DEFINE Outermost == dp = 0 /\ forwarded' = "uploaded" /\ uploads' = T /\ UNCHANGED <<dp, place, packetMsg, innerMsg>>
           Below == dp > 0 /\ dp' = dp - 1 /\ Push(dp - 1, Card(p), {g} \cup J) /\ uploads' = T /\ UNCHANGED forwarded
<1>20. Throw \/ Outermost \/ Below  BY <1>4, <1>19 DEF UploadForwardMsg
<1>21. CASE Outermost  BY <1>17, <1>21
<1>22. CASE Below  BY <1>18, <1>22
<1> HIDE DEF Outermost, Below
<1> QED  BY <1>2, <1>20, <1>21, <1>22

-----------------------------------------------------------------------------
(* The theorem *)

\* No level was uploaded yet.
LEMMA UploadStarts == ForwardUploadInit => UploadInv
<1> SUFFICES ASSUME ForwardUploadInit PROVE UploadInv
  OBVIOUS
<1>1. MaxDepth \in Nat /\ 0 \in Depth  BY ForwardUploadAssumption DEF Depth
<1>2. /\ dp = 0 /\ place = [d \in Depth |-> 1] /\ packetMsg = [d \in Depth |-> <<>>]
      /\ innerMsg = [d \in Depth |-> {}] /\ uploads = <<>> /\ forwarded = "making"
  BY DEF ForwardUploadInit
<1>3. place \in [Depth -> Nat \ {0}]
  <2>1. 1 \in Nat \ {0}  OBVIOUS
  <2> QED  BY <2>1, <1>2
<1>4. packetMsg \in [Depth -> Seq(PacketMsg)] /\ innerMsg \in [Depth -> SUBSET Contents]  BY <1>2
<1>5. uploads \in Seq(UploadOf) /\ Len(uploads) = 0 /\ 1..Len(uploads) = {}  BY <1>2
<1>6. LevelsTyped  BY <1>1, <1>2, <1>3, <1>4, <1>5 DEF LevelsTyped
<1>7. 0..dp = {0} /\ packetMsg[0] = <<>> /\ innerMsg[0] = {}  BY <1>1, <1>2
<1>8. Shallow(dp, packetMsg)  BY <1>7 DEF Shallow
<1>9. Wholes(uploads)  BY <1>5 DEF Wholes
<1>10. AllIsCarried  BY <1>2 DEF AllIsCarried
<1>11. Frames(dp, packetMsg, innerMsg, uploads)  BY <1>7, NoCards DEF Frames, Frame, Linked
<1>12. AllPassed(uploads, place, dp) /\ CarriedHere(uploads, dp, innerMsg)  BY <1>5 DEF AllPassed, CarriedHere
<1> QED  BY <1>6, <1>8, <1>9, <1>10, <1>11, <1>12 DEF UploadInv, UnderWay

\* Every step keeps the invariant.
LEMMA UploadSteps == UploadInv /\ [ForwardUploadNext]_uploadvars => UploadInv'
<1> SUFFICES ASSUME UploadInv, [ForwardUploadNext]_uploadvars PROVE UploadInv'
  OBVIOUS
<1>1. CASE MessageNode \/ MissingNode  BY <1>1, NodeKeeps
<1>2. CASE NestNode  BY <1>2, NestKeeps
<1>3. CASE ReturnNull  BY <1>3, ReturnNullKeeps
<1>4. CASE UploadForwardMsg  BY <1>4, UploadKeeps
<1>5. CASE SendCard
  <2>1. forwarded' \in {"sent", "failed"} /\ forwarded = "uploaded" /\ UNCHANGED <<dp, place, packetMsg, innerMsg, uploads>>
    BY <1>5 DEF SendCard
  <2>2. forwarded' = "sent" => forwarded = "uploaded"  BY <2>1
  <2> QED  BY <2>1, <2>2, EndKeepsUploads
<1>6. CASE UNCHANGED uploadvars
  <2>1. UNCHANGED <<dp, place, packetMsg, innerMsg, uploads, forwarded>>  BY <1>6 DEF uploadvars
  <2>2. LevelsTyped' /\ AllIsCarried'  BY <2>1 DEF UploadInv, LevelsTyped, AllIsCarried
  <2>3. Shallow(dp, packetMsg) /\ Wholes(uploads)  BY DEF UploadInv
  <2>4. forwarded = "making" => /\ Frames(dp, packetMsg, innerMsg, uploads) /\ AllPassed(uploads, place, dp)
                                /\ CarriedHere(uploads, dp, innerMsg)
    BY DEF UploadInv, UnderWay
  <2> QED  BY <2>1, <2>2, <2>3, <2>4 DEF UploadInv, UnderWay
<1> QED  BY <1>1, <1>2, <1>3, <1>4, <1>5, <1>6 DEF ForwardUploadNext

\* What the invariant says of the uploads.
LEMMA UploadInvSays == UploadInv => ForwardUploadSafe
<1> SUFFICES ASSUME UploadInv PROVE ForwardUploadSafe
  OBVIOUS
<1>1. ForwardUploadTypeOK  BY DEF UploadInv, LevelsTyped, Shallow, ForwardUploadTypeOK
<1>2. \A n \in 1..Len(uploads) : Whole(uploads, n)  BY DEF UploadInv, Wholes
<1>3. UploadsAreClosed
  <2> SUFFICES ASSUME NEW n \in 1..Len(uploads), NEW e \in uploads[n].entries
               PROVE  /\ \A c \in CardsOf(e.msgs) : \E f \in uploads[n].entries : f.of = c
                      /\ \E k \in 1..n : uploads[k].of = e.of /\ uploads[k].msgs = e.msgs
    BY DEF UploadsAreClosed
  <2>1. Whole(uploads, n)  BY <1>2
  <2> QED  BY <2>1 DEF Whole, Linked
<1>4. InnerFirst  BY <1>2 DEF Whole, InnerFirst
<1>5. AllIsCarried  BY DEF UploadInv
<1> QED  BY <1>1, <1>3, <1>4, <1>5 DEF ForwardUploadSafe

\* Whatever nodes hold nodes, and whichever calls fail: whoever opens an
\* upload made by uploadForwardedNodesPacket finds in it the contents of all
\* its cards, they are what was uploaded for them before, and every level is
\* uploaded once.
THEOREM ForwardsComeWhole == ForwardUploadSpec => []ForwardUploadSafe
BY UploadStarts, UploadSteps, UploadInvSays, PTL DEF ForwardUploadSpec

----------------------------------------------------------------------------
(* Recalls are reported once although the kernel tells of them twice, for  *)
(* any number of messages, callbacks and ticks of the cache.               *)

AtMostOne(S) == \A x, y \in S : x = y
AtMostTwo(S) == \A x, y, z \in S : x = y \/ y = z \/ x = z

(* The callbacks about m that may still report, and those about to.        *)
Active(m) == {r \in Recall : running[r].m = m /\ running[r].st \in {"query", "wait", "emit"}}
Emitting(m) == {r \in Recall : running[r].m = m /\ running[r].st = "emit"}

(* Every report to come has been told of.                                  *)
Covered(m) ==
  \/ Active(m) = {} /\ reports[m] <= told[m]
  \/ AtMostOne(Active(m)) /\ reports[m] + 1 <= told[m]
  \/ AtMostTwo(Active(m)) /\ reports[m] + 2 <= told[m]

(* While the cache remembers m, one callback fewer than told reports: the  *)
(* first one is still waiting to be confirmed.                             *)
Spared(m) ==
  recallEventCache[m] > 0 =>
    \/ told[m] = 0
    \/ Emitting(m) = {} /\ reports[m] + 1 <= told[m]
    \/ AtMostOne(Emitting(m)) /\ reports[m] + 2 <= told[m]

RecallInv == RecallTypeOK /\ \A m \in Msg : Covered(m) /\ Spared(m)

Callback == [m : Msg, st : Stage, left : 0..Window]

(* The invariant is enough for the properties.                             *)
LEMMA RecallSuffices == ASSUME MaxTold <= 2 PROVE RecallInv => RecallSafe
  <1> SUFFICES ASSUME RecallInv PROVE RecallSafe
    OBVIOUS
  <1>1. ASSUME NEW m \in Msg
        PROVE  /\ reports[m] <= told[m]
               /\ recallEventCache[m] > 0 => reports[m] <= 1
               /\ recallEventCache[m] > 0 /\ (reports[m] > 0 \/ Emitting(m) # {}) => told[m] >= 2
    <2>1. told[m] \in 0..2 /\ reports[m] \in Nat /\ Covered(m) /\ Spared(m)
      BY RecallAssumption DEF RecallInv, RecallTypeOK
    <2>2. Emitting(m) \subseteq Active(m)
      BY DEF Emitting, Active
    <2>3. QED
      BY <2>1, <2>2 DEF Covered, Spared
  <1>2. QED
    BY <1>1 DEF RecallInv, RecallSafe, OwnRecallOnce, ConfirmedFirst, Emitting

(* Nothing has been recalled yet.                                          *)
LEMMA RecallStarts == RecallInit => RecallInv
  <1> SUFFICES ASSUME RecallInit PROVE RecallInv
    OBVIOUS
  <1>1. (CHOOSE m \in Msg : TRUE) \in Msg
    BY RecallAssumption
  <1>2. RecallTypeOK
    BY <1>1, RecallAssumption DEF RecallInit, RecallTypeOK, Stage
  <1>3. ASSUME NEW m \in Msg PROVE Covered(m) /\ Spared(m)
    BY <1>3 DEF RecallInit, Covered, Spared, Active
  <1>4. QED
    BY <1>2, <1>3 DEF RecallInv

(* Steps that tell of nothing and report nothing: it is enough that no     *)
(* callback becomes active, and that none comes to report a message that   *)
(* is remembered.                                                          *)
LEMMA QuietStep ==
  ASSUME RecallInv, told' = told, reports' = reports,
         NEW m \in Msg,
         Active(m)' \subseteq Active(m),
         recallEventCache'[m] > 0 =>
           told[m] = 0 \/ (recallEventCache[m] > 0 /\ Emitting(m)' \subseteq Emitting(m))
  PROVE  Covered(m)' /\ Spared(m)'
  <1>1. Covered(m) /\ Spared(m) /\ told[m] \in Nat /\ reports[m] \in Nat
    BY RecallAssumption DEF RecallInv, RecallTypeOK
  <1>2. Covered(m)'
    BY <1>1 DEF Covered, AtMostOne, AtMostTwo
  <1>3. Spared(m)'
    BY <1>1 DEF Spared, AtMostOne
  <1>4. QED
    BY <1>2, <1>3

(* The kernel tells: one callback more, and whoever waited reports.  The   *)
(* first time nobody waits, the second time one callback at most does.     *)
LEMMA TellingKeeps ==
  ASSUME MaxTold <= 2, RecallInv, NEW r \in Recall, NEW m \in Msg, OnMsgRecall(r, m)
  PROVE  RecallInv'
  <1>0. /\ running[r].st = "free" /\ m \in gone /\ told[m] < MaxTold
        /\ told' = [told EXCEPT ![m] = told[m] + 1]
        /\ running' = [q \in Recall |->
             IF q = r THEN [m |-> m, st |-> "query", left |-> 0]
             ELSE IF Wakes(q, m) THEN [m |-> m, st |-> "emit", left |-> 0] ELSE running[q]]
        /\ UNCHANGED <<ids, recallEventCache, gone, reports>>
    BY DEF OnMsgRecall
  <1>1. /\ told \in [Msg -> 0..MaxTold] /\ reports \in [Msg -> Nat] /\ running \in [Recall -> Callback]
        /\ told[m] \in {0, 1} /\ 0 \in 0..Window
    <2>1. /\ told \in [Msg -> 0..MaxTold] /\ reports \in [Msg -> Nat] /\ running \in [Recall -> Callback]
      BY DEF RecallInv, RecallTypeOK, Callback
    <2>2. told[m] \in 0..MaxTold /\ told[m] < MaxTold
      BY <1>0, <2>1
    <2>3. told[m] \in {0, 1} /\ 0 \in 0..Window
      BY <2>2, RecallAssumption
    <2>4. QED
      BY <2>1, <2>3
  <1>2. /\ told' \in [Msg -> 0..MaxTold] /\ told'[m] = told[m] + 1
        /\ \A n \in Msg : n # m => told'[n] = told[n]
    BY <1>0, <1>1, RecallAssumption
  <1>3. ASSUME NEW q \in Recall
        PROVE  /\ running'[q] \in Callback
               /\ running'[q].st = "wait" <=> running'[q].left > 0
    BY <1>0, <1>1 DEF Callback, Stage, Wakes, RecallInv, RecallTypeOK
  <1>4. running' \in [Recall -> Callback]
    BY <1>0, <1>3
  <1>5. RecallTypeOK'
    BY <1>0, <1>1, <1>2, <1>3, <1>4 DEF RecallInv, RecallTypeOK, Callback
  <1>6. ASSUME NEW n \in Msg, n # m PROVE Covered(n)' /\ Spared(n)'
    <2>1. Active(n)' \subseteq Active(n) /\ Emitting(n)' \subseteq Emitting(n)
      BY <1>0, <1>6 DEF Active, Emitting, Wakes
    <2>2. Covered(n) /\ Spared(n) /\ told[n] \in Nat /\ reports[n] \in Nat
      BY <1>1, RecallAssumption DEF RecallInv
    <2>3. QED
      BY <1>0, <1>2, <1>6, <2>1, <2>2 DEF Covered, Spared, AtMostOne, AtMostTwo
  <1>7. Active(m)' = Active(m) \cup {r} /\ Emitting(m)' \subseteq Active(m)
    BY <1>0 DEF Active, Emitting, Wakes
  <1>8. Covered(m) /\ Spared(m) /\ reports[m] \in Nat
    BY <1>1 DEF RecallInv
  <1>9. Covered(m)'
    <2>1. CASE Active(m) = {} /\ reports[m] <= told[m]
      <3>1. AtMostOne(Active(m)')
        BY <1>7, <2>1 DEF AtMostOne
      <3>2. reports'[m] + 1 <= told'[m]
        BY <1>0, <1>1, <1>2, <1>8, <2>1
      <3>3. QED
        BY <3>1, <3>2 DEF Covered, AtMostOne
    <2>2. CASE AtMostOne(Active(m)) /\ reports[m] + 1 <= told[m]
      <3>1. AtMostTwo(Active(m)')
        BY <1>7, <2>2 DEF AtMostOne, AtMostTwo
      <3>2. reports'[m] + 2 <= told'[m]
        BY <1>0, <1>1, <1>2, <1>8, <2>2
      <3>3. QED
        BY <3>1, <3>2 DEF Covered, AtMostTwo
    <2>3. QED
      BY <1>1, <1>8, <2>1, <2>2 DEF Covered
  <1>10. Spared(m)'
    <2>1. CASE recallEventCache[m] > 0 /\ told[m] = 0
      <3>1. Active(m) = {} /\ reports[m] = 0
        BY <1>8, <2>1 DEF Covered
      <3>2. Emitting(m)' = {} /\ reports'[m] + 1 <= told'[m]
        BY <1>0, <1>2, <1>7, <2>1, <3>1
      <3>3. QED
        BY <3>2 DEF Spared
    <2>2. CASE recallEventCache[m] > 0 /\ told[m] = 1
      <3>1. reports[m] = 0 /\ AtMostOne(Active(m))
        BY <1>8, <2>2 DEF Covered, Spared, AtMostOne
      <3>2. AtMostOne(Emitting(m)') /\ reports'[m] + 2 <= told'[m]
        BY <1>0, <1>2, <1>7, <2>2, <3>1 DEF AtMostOne
      <3>3. QED
        BY <3>2 DEF Spared, AtMostOne
    <2>3. QED
      BY <1>0, <1>1, <2>1, <2>2 DEF Spared
  <1>11. QED
    BY <1>5, <1>6, <1>9, <1>10 DEF RecallInv

(* A report was told of, and it is the only one while m is remembered.     *)
LEMMA ReportKeeps ==
  ASSUME RecallInv, NEW r \in Recall, EmitRecallMsg(r)
  PROVE  RecallInv'
  <1> DEFINE m == running[r].m
             done == [running[r] EXCEPT !.st = "ended"]
  <1>0. /\ running \in [Recall -> Callback] /\ told \in [Msg -> 0..MaxTold] /\ reports \in [Msg -> Nat] /\ m \in Msg
    BY DEF RecallInv, RecallTypeOK, Callback
  <1>1. /\ running[r].st = "emit" /\ running' = [running EXCEPT ![r] = done]
        /\ ids' = ids \cup {m} /\ reports' = [reports EXCEPT ![m] = reports[m] + 1]
        /\ UNCHANGED <<recallEventCache, gone, told>>
    BY DEF EmitRecallMsg, Named
  <1>2. done \in Callback /\ done.m = m /\ done.st = "ended" /\ done.left = running[r].left
    BY <1>0 DEF Callback, Stage
  <1>3. running[r].left \in 0..Window /\ ~(running[r].left > 0)
    BY <1>0, <1>1 DEF RecallInv, RecallTypeOK, Callback
  <1> HIDE DEF done, m
  <1>4. /\ running' \in [Recall -> Callback] /\ running'[r] = done
        /\ \A q \in Recall : q # r => running'[q] = running[q]
    BY <1>0, <1>1, <1>2
  <1>5. /\ reports' \in [Msg -> Nat] /\ reports'[m] = reports[m] + 1
        /\ \A n \in Msg : n # m => reports'[n] = reports[n]
    BY <1>0, <1>1
  <1>6. RecallTypeOK'
    <2>1. \A q \in Recall : running'[q].st = "wait" <=> running'[q].left > 0
      BY <1>2, <1>3, <1>4 DEF RecallInv, RecallTypeOK
    <2>2. \A n \in Msg : reports'[n] > 0 => n \in ids'
      BY <1>1, <1>5 DEF RecallInv, RecallTypeOK
    <2>3. QED
      BY <1>0, <1>1, <1>4, <1>5, <2>1, <2>2 DEF RecallInv, RecallTypeOK, Callback
  <1>7. ASSUME NEW n \in Msg PROVE Covered(n)' /\ Spared(n)'
    <2>0. Covered(n) /\ Spared(n) /\ told[n] \in Nat /\ reports[n] \in Nat
      BY <1>0, RecallAssumption DEF RecallInv
    <2>1. CASE n # m
      <3>1. Active(n)' = Active(n) /\ Emitting(n)' = Emitting(n)
        BY <1>1, <1>2, <1>4, <2>1 DEF Active, Emitting, m
      <3>2. QED
        BY <1>1, <1>5, <2>0, <2>1, <3>1 DEF Covered, Spared, AtMostOne, AtMostTwo
    <2>2. CASE n = m
      <3>1. Active(n)' = Active(n) \ {r} /\ r \in Active(n) /\ Emitting(n)' = Emitting(n) \ {r} /\ r \in Emitting(n)
        BY <1>1, <1>2, <1>4, <2>2 DEF Active, Emitting, m
      <3>2. Covered(n)'
        <4>1. CASE AtMostOne(Active(n)) /\ reports[n] + 1 <= told[n]
          BY <1>1, <1>5, <2>0, <2>2, <3>1, <4>1 DEF Covered, AtMostOne
        <4>2. CASE AtMostTwo(Active(n)) /\ reports[n] + 2 <= told[n]
          <5>1. AtMostOne(Active(n)')
            BY <3>1, <4>2 DEF AtMostOne, AtMostTwo
          <5>2. reports'[n] + 1 <= told'[n]
            BY <1>1, <1>5, <2>0, <2>2, <4>2
          <5>3. QED
            BY <5>1, <5>2 DEF Covered, AtMostOne
        <4>3. QED
          BY <2>0, <3>1, <4>1, <4>2 DEF Covered
      <3>3. Spared(n)'
        <4>1. told[n] # 0
          BY <2>0, <3>1 DEF Covered
        <4>2. QED
          BY <1>1, <1>5, <2>0, <2>2, <3>1, <4>1 DEF Spared, AtMostOne
      <3>4. QED
        BY <3>2, <3>3
    <2>3. QED
      BY <2>1, <2>2
  <1>8. QED
    BY <1>6, <1>7 DEF RecallInv

(* A callback waits while the cache remembers its message, else it goes on.*)
LEMMA QueryKeeps ==
  ASSUME RecallInv, NEW r \in Recall, Queried(r) \/ NotFound(r)
  PROVE  RecallInv'
  <1> DEFINE m == running[r].m
             waits == [running[r] EXCEPT !.st = "wait", !.left = Window]
             emits == [running[r] EXCEPT !.st = "emit"]
             ends == [running[r] EXCEPT !.st = "ended"]
  <1>0. /\ running \in [Recall -> Callback] /\ running[r].st = "query" /\ m \in Msg
        /\ running[r].left \in 0..Window /\ ~(running[r].left > 0)
        /\ UNCHANGED <<ids, recallEventCache, gone, told, reports>>
    BY DEF RecallInv, RecallTypeOK, Callback, Queried, NotFound
  <1>1. /\ waits \in Callback /\ waits.m = m /\ waits.st = "wait" /\ waits.left > 0
        /\ emits \in Callback /\ emits.m = m /\ emits.st = "emit" /\ ~(emits.left > 0)
        /\ ends \in Callback /\ ends.m = m /\ ends.st = "ended" /\ ~(ends.left > 0)
    <2>1. Window \in 0..Window /\ Window > 0
      BY RecallAssumption
    <2>2. running[r] \in Callback /\ ~(running[r].left > 0)
      BY <1>0
    <2>3. waits \in Callback /\ waits.m = m /\ waits.st = "wait" /\ waits.left > 0
      BY <2>1, <2>2 DEF Callback, Stage
    <2>4. emits \in Callback /\ emits.m = m /\ emits.st = "emit" /\ ~(emits.left > 0)
      BY <2>2 DEF Callback, Stage
    <2>5. ends \in Callback /\ ends.m = m /\ ends.st = "ended" /\ ~(ends.left > 0)
      BY <2>2 DEF Callback, Stage
    <2>6. QED
      BY <2>3, <2>4, <2>5
  <1>2. PICK c \in Callback :
          /\ running' = [running EXCEPT ![r] = c]
          /\ c.m = m /\ (c.st = "wait" <=> c.left > 0)
          /\ c.st = "wait" \/ c.st = "ended" \/ (c.st = "emit" /\ ~(recallEventCache[m] > 0))
    <2>1. \/ running' = [running EXCEPT ![r] = waits]
          \/ running' = [running EXCEPT ![r] = emits] /\ ~(recallEventCache[m] > 0)
          \/ running' = [running EXCEPT ![r] = ends]
      BY DEF Queried, NotFound, SelfDevice
    <2> HIDE DEF waits, emits, ends, m
    <2>2. QED
      BY <1>1, <2>1
  <1> HIDE DEF m, waits, emits, ends
  <1>3. /\ running' \in [Recall -> Callback] /\ running'[r] = c
        /\ \A q \in Recall : q # r => running'[q] = running[q]
    BY <1>0, <1>2
  <1>4. RecallTypeOK'
    <2>1. \A q \in Recall : running'[q].st = "wait" <=> running'[q].left > 0
      BY <1>2, <1>3 DEF RecallInv, RecallTypeOK
    <2>2. QED
      BY <1>0, <1>3, <2>1 DEF RecallInv, RecallTypeOK, Callback
  <1>5. ASSUME NEW n \in Msg PROVE Covered(n)' /\ Spared(n)'
    <2>1. Active(n)' \subseteq Active(n)
      BY <1>0, <1>2, <1>3 DEF Active, m
    <2>2. recallEventCache'[n] > 0 => Emitting(n)' \subseteq Emitting(n)
      BY <1>0, <1>2, <1>3 DEF Emitting, m
    <2>3. QED
      BY <1>0, <2>1, <2>2, QuietStep
  <1>6. QED
    BY <1>4, <1>5 DEF RecallInv

(* The clock only ends waits and forgets messages.                         *)
LEMMA TickKeeps ==
  ASSUME RecallInv, Tick
  PROVE  RecallInv'
  <1>0. /\ running \in [Recall -> Callback] /\ recallEventCache \in [Msg -> 0..Window]
        /\ \A q \in Recall : running[q].st = "wait" <=> running[q].left > 0
        /\ UNCHANGED <<ids, gone, told, reports>>
        /\ recallEventCache' = [m \in Msg |-> IF recallEventCache[m] = 0 THEN 0 ELSE recallEventCache[m] - 1]
        /\ running' = [r \in Recall |->
             IF running[r].left = 0 THEN running[r]
             ELSE [running[r] EXCEPT !.left = Left(r), !.st = IF Left(r) = 0 THEN "ended" ELSE "wait"]]
    BY DEF RecallInv, RecallTypeOK, Callback, Tick
  <1>1. ASSUME NEW m \in Msg
        PROVE  /\ recallEventCache'[m] \in 0..Window
               /\ recallEventCache'[m] > 0 => recallEventCache[m] > 0
    <2>1. recallEventCache[m] \in 0..Window
      BY <1>0
    <2>2. recallEventCache'[m] = IF recallEventCache[m] = 0 THEN 0 ELSE recallEventCache[m] - 1
      BY <1>0
    <2>3. QED
      BY <2>1, <2>2, RecallAssumption
  <1>2. ASSUME NEW q \in Recall
        PROVE  /\ running'[q] \in Callback /\ running'[q].m = running[q].m
               /\ running'[q].st = "wait" <=> running'[q].left > 0
               /\ running'[q].st = running[q].st \/ running'[q].st = "ended"
    <2>1. CASE running[q].left = 0
      BY <1>0, <2>1
    <2>2. CASE running[q].left # 0
      <3> DEFINE left == Left(q)
                 st == IF left = 0 THEN "ended" ELSE "wait"
      <3>1. running[q].left \in 0..Window /\ running[q].left > 0 /\ running[q].st = "wait"
        <4>1. running[q] \in Callback /\ (running[q].st = "wait" <=> running[q].left > 0)
          BY <1>0
        <4>2. running[q].left \in 0..Window
          BY <4>1 DEF Callback
        <4>3. running[q].left > 0
          BY <2>2, <4>2, RecallAssumption
        <4>4. QED
          BY <4>1, <4>2, <4>3
      <3>2. left \in 0..Window /\ st \in Stage /\ (st = "wait" <=> left > 0) /\ (st = "wait" \/ st = "ended")
        BY <3>1, RecallAssumption DEF Left, LeftAfter, Stage
      <3>3. running'[q] = [running[q] EXCEPT !.left = left, !.st = st]
        BY <1>0, <2>2
      <3>4. running[q] \in Callback
        BY <1>0
      <3> HIDE DEF left, st
      <3>5. /\ running'[q] \in Callback /\ running'[q].m = running[q].m
            /\ running'[q].st = st /\ running'[q].left = left
        BY <3>2, <3>3, <3>4 DEF Callback
      <3>6. QED
        BY <3>1, <3>2, <3>5
    <2>3. QED
      BY <2>1, <2>2
  <1>3. RecallTypeOK'
    <2>1. running' \in [Recall -> Callback] /\ recallEventCache' \in [Msg -> 0..Window]
      BY <1>0, <1>1, <1>2
    <2>2. QED
      BY <1>0, <1>1, <1>2, <2>1 DEF RecallInv, RecallTypeOK, Callback
  <1>4. ASSUME NEW n \in Msg PROVE Covered(n)' /\ Spared(n)'
    <2>1. Active(n)' \subseteq Active(n) /\ Emitting(n)' \subseteq Emitting(n)
      BY <1>2 DEF Active, Emitting
    <2>2. QED
      BY <1>0, <1>1, <2>1, QuietStep
  <1>5. QED
    BY <1>3, <1>4 DEF RecallInv

(* Every step keeps the invariant.                                         *)
LEMMA RecallSteps ==
  ASSUME MaxTold <= 2 PROVE RecallInv /\ [RecallNext]_recallvars => RecallInv'
  <1> SUFFICES ASSUME RecallInv, [RecallNext]_recallvars PROVE RecallInv'
    OBVIOUS
  <1>1. ASSUME NEW m \in Msg, DeleteMsg(m) PROVE RecallInv'
    <2>1. /\ UNCHANGED <<ids, told, running, reports>> /\ gone' = gone \cup {m} /\ m \notin gone /\ m \in Msg
          /\ recallEventCache' = [recallEventCache EXCEPT ![m] = Window]
      BY <1>1 DEF DeleteMsg
    <2>2. RecallTypeOK'
      BY <2>1, RecallAssumption DEF RecallInv, RecallTypeOK
    <2>3. told[m] = 0
      BY <2>1, RecallAssumption DEF RecallInv, RecallTypeOK
    <2>4. ASSUME NEW n \in Msg PROVE Covered(n)' /\ Spared(n)'
      <3>1. Active(n)' = Active(n) /\ Emitting(n)' = Emitting(n)
        BY <2>1 DEF Active, Emitting
      <3>2. recallEventCache'[n] > 0 => told[n] = 0 \/ recallEventCache[n] > 0
        BY <2>1, <2>3 DEF RecallInv, RecallTypeOK
      <3>3. QED
        BY <2>1, <3>1, <3>2, QuietStep
    <2>5. QED
      BY <2>2, <2>4 DEF RecallInv
  <1>2. ASSUME NEW m \in Msg, RecalledElsewhere(m) PROVE RecallInv'
    BY <1>2 DEF RecalledElsewhere, RecallInv, RecallTypeOK, Covered, Spared, Active, Emitting, AtMostOne, AtMostTwo
  <1>3. ASSUME NEW r \in Recall, Queried(r) \/ NotFound(r) PROVE RecallInv'
    BY <1>3, QueryKeeps
  <1>4. ASSUME NEW r \in Recall, EmitRecallMsg(r) PROVE RecallInv'
    BY <1>4, ReportKeeps
  <1>5. ASSUME NEW r \in Recall, NEW m \in Msg, OnMsgRecall(r, m) PROVE RecallInv'
    BY <1>5, TellingKeeps
  <1>6. CASE Tick
    BY <1>6, TickKeeps
  <1>7. CASE UNCHANGED recallvars
    BY <1>7 DEF recallvars, RecallInv, RecallTypeOK, Covered, Spared, Active, Emitting, AtMostOne, AtMostTwo
  <1>8. QED
    BY <1>1, <1>2, <1>3, <1>4, <1>5, <1>6, <1>7 DEF RecallNext

(* The kernel tells of a recall twice at most.  However its callbacks race *)
(* each other, the queries and the cache's five seconds, a recall the bot  *)
(* ordered is reported once at most while the cache remembers it, and only *)
(* after the second callback (DeleteMsg.ts, onMsgRecall).                  *)
THEOREM RecallsReportedOnce == ASSUME MaxTold <= 2 PROVE RecallSpec => []RecallSafe
  <1>1. QED
    BY RecallStarts, RecallSteps, RecallSuffices, PTL DEF RecallSpec

----------------------------------------------------------------------------
(* A resource is disabled only for cause, for any number of callers, any   *)
(* thresholds and any times.                                               *)

(* Why it is inductive: nothing ever clears isEnabled or disables for      *)
(* good, so a health check never runs and never sets disableUntil; and the *)
(* count that is compared never runs ahead of the failures in a row.       *)
NeverSwitchedOff == state.isEnabled /\ ~state.permanent
CountsFailures == state.currentRetries <= streak
ResourceInv == ResourceSafe /\ NeverSwitchedOff /\ CountsFailures

(* The shape of the record that holds the state.                           *)
States ==
  [isEnabled : BOOLEAN, disableUntil : 0..(MaxTime + DisableTime), currentRetries : 0..(MaxRetries - 1),
   failures : 0..MaxHealthFailures, permanent : BOOLEAN, lastCheck : 0..MaxTime]

(* It starts enabled, without a failure.                                   *)
LEMMA ResourceStarts == ResourceInit => ResourceInv
  BY ResourceAssumption DEF ResourceInit, ResourceInv, ResourceSafe, ResourceTypeOK, DisabledForCause,
     NeverSwitchedOff, CountsFailures

(* A call finds nothing to check: the resource is enabled or its time is   *)
(* not up.                                                                 *)
LEMMA NothingToCheck == NeverSwitchedOff /\ ResourceTypeOK => ~NeedsCheck
  BY DEF NeverSwitchedOff, NeedsCheck, ResourceTypeOK

(* A success starts the count and the streak anew.                         *)
LEMMA SuccessKeeps ==
  ASSUME ResourceInv, NEW c \in Caller, onResourceSuccess(c)
  PROVE  ResourceInv'
  <1>1. state \in States
    BY DEF ResourceInv, ResourceSafe, ResourceTypeOK, States
  <1>2. /\ state' = [state EXCEPT !.currentRetries = 0, !.disableUntil = 0, !.failures = 0]
        /\ streak' = 0 /\ checked' = TRUE /\ now' = now
        /\ call' = [call EXCEPT ![c] = "ended"]
    BY DEF onResourceSuccess
  <1>3. 0 \in 0..MaxHealthFailures /\ 0 \in 0..(MaxRetries - 1) /\ 0 \in 0..(MaxTime + DisableTime)
    BY <1>1, ResourceAssumption DEF States
  <1>4. state.isEnabled /\ ~state.permanent
    BY DEF ResourceInv, NeverSwitchedOff
  <1>5. /\ state' \in States /\ state'.disableUntil = 0 /\ state'.currentRetries = 0
        /\ state'.isEnabled /\ ~state'.permanent
    BY <1>1, <1>2, <1>3, <1>4 DEF States
  <1>6. call' \in [Caller -> {"idle", "checked", "running", "refused", "ended"}]
    BY <1>2 DEF ResourceInv, ResourceSafe, ResourceTypeOK
  <1>7. ResourceTypeOK'
    BY <1>2, <1>5, <1>6, ResourceAssumption DEF ResourceInv, ResourceSafe, ResourceTypeOK, States
  <1>8. QED
    BY <1>2, <1>5, <1>7 DEF ResourceInv, ResourceSafe, ResourceTypeOK, NeverSwitchedOff, CountsFailures, DisabledForCause

(* The failure that disables is the last of MaxRetries in a row: those     *)
(* before it were counted, and each of them was one of the streak.         *)
LEMMA FailureKeeps ==
  ASSUME ResourceInv, NEW c \in Caller, onResourceFailure(c)
  PROVE  ResourceInv'
  <1> DEFINE until == now + DisableTime
             counted == state.currentRetries + 1
  <1>1. /\ state \in States /\ now \in 0..MaxTime /\ streak \in 0..MaxRetries
        /\ state.currentRetries \in 0..(MaxRetries - 1) /\ state.currentRetries <= streak
        /\ state.isEnabled /\ ~state.permanent
    BY DEF ResourceInv, ResourceSafe, ResourceTypeOK, NeverSwitchedOff, CountsFailures, States
  <1>2. /\ now' = now /\ call' = [call EXCEPT ![c] = "ended"]
        /\ streak' = IF streak < MaxRetries THEN streak + 1 ELSE streak
        /\ checked' \in BOOLEAN
    BY DEF onResourceFailure, ResourceInv, ResourceSafe, ResourceTypeOK
  <1>3. until \in 0..(MaxTime + DisableTime) /\ 0 \in 0..(MaxRetries - 1)
    BY <1>1, ResourceAssumption
  <1>4. call' \in [Caller -> {"idle", "checked", "running", "refused", "ended"}]
    BY <1>2 DEF ResourceInv, ResourceSafe, ResourceTypeOK
  <1>5. streak' \in 0..MaxRetries
    BY <1>1, <1>2, ResourceAssumption
  <1>6. CASE LastTry(counted)
    <2>1. state' = [state EXCEPT !.disableUntil = until, !.currentRetries = 0]
      BY <1>6 DEF onResourceFailure
    <2>2. streak' = MaxRetries
      BY <1>1, <1>2, <1>6, ResourceAssumption DEF LastTry
    <2> HIDE DEF until
    <2>3. state' \in States /\ state'.currentRetries = 0 /\ state'.isEnabled /\ ~state'.permanent
      BY <2>1, <1>1, <1>3 DEF States
    <2>4. ResourceTypeOK'
      BY <1>1, <1>2, <1>4, <1>5, <2>3 DEF ResourceTypeOK, States
    <2>5. QED
      BY <2>2, <2>3, <2>4, ResourceAssumption
         DEF ResourceInv, ResourceSafe, NeverSwitchedOff, CountsFailures, DisabledForCause
  <1>7. CASE ~LastTry(counted)
    <2>1. state' = [state EXCEPT !.currentRetries = counted]
      BY <1>7 DEF onResourceFailure
    <2>2. counted \in 0..(MaxRetries - 1) /\ counted <= streak'
      BY <1>1, <1>2, <1>7, ResourceAssumption DEF LastTry
    <2> HIDE DEF counted
    <2>3. /\ state' \in States /\ state'.currentRetries = counted /\ state'.isEnabled /\ ~state'.permanent
          /\ state'.disableUntil = state.disableUntil
      BY <2>1, <2>2, <1>1 DEF States
    <2>4. ResourceTypeOK'
      BY <1>1, <1>2, <1>4, <1>5, <2>3 DEF ResourceTypeOK, States
    <2>5. DisabledForCause'
      BY <1>1, <1>2, <2>3 DEF ResourceInv, ResourceSafe, DisabledForCause
    <2>6. QED
      BY <2>2, <2>3, <2>4, <2>5 DEF ResourceInv, ResourceSafe, NeverSwitchedOff, CountsFailures
  <1>8. QED
    BY <1>6, <1>7

(* One step per action; only the end of a call changes what is counted.    *)
LEMMA ResourceSteps == ResourceInv /\ [ResourceNext]_resourcevars => ResourceInv'
  <1> SUFFICES ASSUME ResourceInv, [ResourceNext]_resourcevars PROVE ResourceInv'
    OBVIOUS
  <1> USE DEF ResourceInv, ResourceSafe, NeverSwitchedOff, CountsFailures
  <1>1. CASE ResourceTick
    BY <1>1, ResourceAssumption DEF ResourceTick, ResourceTypeOK, DisabledForCause
  <1>2. ASSUME NEW c \in Caller, callResource(c) PROVE ResourceInv'
    BY <1>2, NothingToCheck DEF callResource, ResourceTypeOK, DisabledForCause
  <1>3. ASSUME NEW c \in Caller, Proceed(c) PROVE ResourceInv'
    BY <1>3 DEF Proceed, ResourceTypeOK, DisabledForCause
  <1>4. ASSUME NEW c \in Caller, onResourceSuccess(c) PROVE ResourceInv'
    BY <1>4, SuccessKeeps
  <1>5. ASSUME NEW c \in Caller, onResourceFailure(c) PROVE ResourceInv'
    BY <1>5, FailureKeeps
  <1>6. ASSUME NEW c \in Caller, Leaves(c) PROVE ResourceInv'
    BY <1>6 DEF Leaves, ResourceTypeOK, DisabledForCause
  <1>7. CASE UNCHANGED resourcevars
    BY <1>7 DEF resourcevars, ResourceTypeOK, DisabledForCause
  <1>8. QED
    BY <1>1, <1>2, <1>3, <1>4, <1>5, <1>6, <1>7 DEF ResourceNext

(* However many calls are under way and however they interleave, the       *)
(* resource is disabled only after MaxRetries failures without a success   *)
(* in between (onResourceFailure, onResourceSuccess).                      *)
THEOREM DisabledOnlyForCause == ResourceSpec => []ResourceSafe
  <1>1. ResourceInit => ResourceInv
    BY ResourceStarts
  <1>2. ResourceInv => ResourceSafe
    BY DEF ResourceInv
  <1>3. QED
    BY <1>1, <1>2, ResourceSteps, PTL DEF ResourceSpec

----------------------------------------------------------------------------
(* A file that is still to be removed always has a timer or an operation   *)
(* that will try, for any number of files and operations in the queue.     *)

Adding(q) == {k \in 1..Len(q) : q[k].do = "add"}
FreeRecords == {r \in Record : recordOf[r] = Unused}

(* A task belongs to its file's own record.                                *)
TasksOwn == \A f \in File : tasks[f] # 0 => recordOf[tasks[f]] = f

(* There is a record left for every addition that waits or is to come.     *)
EnoughRecords == Cardinality(FreeRecords) = uses + Cardinality(Adding(pendingOperations))

CleanInv ==
  /\ CleanTaskSafe /\ TasksOwn /\ EnoughRecords
  /\ pendingOperations \in Seq(Operation)

(* Queues                                                                  *)

(* The records that are free are finitely many.                            *)
LEMMA FreeFinite == IsFiniteSet(FreeRecords) /\ Cardinality(FreeRecords) \in Nat
<1>1. IsFiniteSet(Record)  BY CleanTaskAssumption, FS_Interval DEF Record
<1>2. FreeRecords \in SUBSET Record  BY DEF FreeRecords
<1> QED  BY <1>1, <1>2, FS_Subset, FS_CardinalityType

(* So are the additions in the queue.                                      *)
LEMMA AddingFinite ==
  ASSUME NEW q \in Seq(Operation)
  PROVE  IsFiniteSet(Adding(q)) /\ Cardinality(Adding(q)) \in Nat
<1>1. Len(q) \in Nat  BY LenProperties
<1>2. IsFiniteSet(1..Len(q))  BY <1>1, FS_Interval
<1>3. Adding(q) \in SUBSET (1..Len(q))  BY DEF Adding
<1> QED  BY <1>2, <1>3, FS_Subset, FS_CardinalityType

(* What an operation more does to the additions in the queue.              *)
LEMMA AddingOfAppend ==
  ASSUME NEW q \in Seq(Operation), NEW op \in Operation
  PROVE  Cardinality(Adding(Append(q, op))) =
           IF op.do = "add" THEN Cardinality(Adding(q)) + 1 ELSE Cardinality(Adding(q))
<1>1. /\ Len(q) \in Nat /\ Len(Append(q, op)) = Len(q) + 1
      /\ \A k \in 1..Len(q) : Append(q, op)[k] = q[k]
      /\ Append(q, op)[Len(q) + 1] = op
  BY LenProperties, AppendProperties
<1>2. Len(q) + 1 \notin Adding(q)  BY <1>1 DEF Adding
<1>3. Adding(Append(q, op)) = IF op.do = "add" THEN Adding(q) \cup {Len(q) + 1} ELSE Adding(q)
  BY <1>1 DEF Adding
<1> QED  BY <1>2, <1>3, AddingFinite, FS_AddElement

(* What the first operation done leaves of them.                           *)
LEMMA AddingOfTail ==
  ASSUME NEW q \in Seq(Operation), q # <<>>
  PROVE  Cardinality(Adding(Tail(q))) =
           IF Head(q).do = "add" THEN Cardinality(Adding(q)) - 1 ELSE Cardinality(Adding(q))
<1>1. /\ Len(q) \in Nat /\ Len(q) > 0 /\ Head(q) = q[1]
      /\ Tail(q) \in Seq(Operation) /\ Len(Tail(q)) = Len(q) - 1
      /\ \A k \in 1..(Len(q) - 1) : Tail(q)[k] = q[k + 1]
  BY LenProperties, EmptySeq, HeadTailProperties
<1> DEFINE shift == [k \in Adding(Tail(q)) |-> k + 1]
<1>2. shift \in Bijection(Adding(Tail(q)), Adding(q) \ {1})
  <2>1. \A k \in Adding(Tail(q)) : k \in Nat /\ k + 1 \in Adding(q) \ {1}
    BY <1>1 DEF Adding
  <2>2. \A k \in Adding(q) \ {1} : k - 1 \in Adding(Tail(q)) /\ (k - 1) + 1 = k
    BY <1>1 DEF Adding
  <2>3. shift \in [Adding(Tail(q)) -> Adding(q) \ {1}]  BY <2>1
  <2>4. \A a, b \in Adding(Tail(q)) : shift[a] = shift[b] => a = b  BY <2>1
  <2>5. \A k \in Adding(q) \ {1} : \E a \in Adding(Tail(q)) : shift[a] = k  BY <2>2
  <2> QED  BY <2>3, <2>4, <2>5 DEF Bijection, Injection, Surjection, IsInjective
<1>3. ExistsBijection(Adding(Tail(q)), Adding(q) \ {1})  BY <1>2 DEF ExistsBijection
<1>4. Cardinality(Adding(q) \ {1}) = Cardinality(Adding(Tail(q)))
  BY <1>1, <1>3, AddingFinite, FS_Bijection
<1>5. 1 \in Adding(q) <=> Head(q).do = "add"  BY <1>1 DEF Adding
<1> QED  BY <1>4, <1>5, AddingFinite, FS_RemoveElement

-----------------------------------------------------------------------------
(* Nothing is to be cleaned at first.                                      *)
LEMMA CleanStarts == CleanTaskInit => CleanInv
<1> SUFFICES ASSUME CleanTaskInit PROVE CleanInv
  OBVIOUS
<1>1. CleanTaskTypeOK
  <2>1. 0 \in 0..MaxRecord /\ MaxRecord \in 0..MaxRecord /\ 0 \in 0..(MAX_RETRIES - 1)
    BY CleanTaskAssumption
  <2>2. /\ tasks \in [File -> 0..MaxRecord] /\ retries \in [Record -> 0..(MAX_RETRIES - 1)]
        /\ recordOf \in [Record -> File \cup {Unused}]
    BY <2>1 DEF CleanTaskInit
  <2>3. /\ exists \subseteq File /\ gaveUp \subseteq File /\ pendingTimers \subseteq MadeRecords
        /\ isProcessing \in BOOLEAN /\ pendingOperations = <<>> /\ uses \in 0..MaxRecord
    BY <2>1 DEF CleanTaskInit
  <2>4. \A k \in 1..Len(pendingOperations) : FALSE  BY <2>3
  <2> QED  BY <2>2, <2>3, <2>4 DEF CleanTaskTypeOK
<1>2. TaskIsComing /\ TasksOwn  BY DEF CleanTaskInit, TaskIsComing, TasksOwn
<1>3. EnoughRecords
  <2>1. FreeRecords = 1..MaxRecord  BY DEF FreeRecords, CleanTaskInit, Record
  <2>2. Cardinality(FreeRecords) = MaxRecord
    <3>1. MaxRecord \in Nat  BY CleanTaskAssumption
    <3>2. Cardinality(1..MaxRecord) = IF 1 > MaxRecord THEN 0 ELSE MaxRecord - 1 + 1
      BY <3>1, FS_Interval
    <3> QED  BY <2>1, <3>1, <3>2
  <2>3. Adding(<<>>) = {}  BY DEF Adding
  <2>4. Cardinality(Adding(<<>>)) = 0  BY <2>3, FS_EmptySet
  <2> QED  BY <2>2, <2>4, CleanTaskAssumption DEF EnoughRecords, CleanTaskInit
<1>4. pendingOperations \in Seq(Operation)  BY DEF CleanTaskInit
<1> QED  BY <1>1, <1>2, <1>3, <1>4 DEF CleanInv, CleanTaskSafe

(* While op is carried out and q is still to come, every task has a timer, *)
(* or one of them is its clean-up; afterwards a timer or q is left for it. *)
Coming(op, q, timers) ==
  \A f \in File : tasks[f] # 0 =>
    \/ tasks[f] \in timers \/ \E k \in 1..Len(q) : q[k] = Cleaning(tasks[f])
    \/ op = Cleaning(tasks[f])
Executed(op, q) ==
  /\ exists' \subseteq File /\ gaveUp' \subseteq File
  /\ tasks' \in [File -> 0..MaxRecord]
  /\ recordOf' \in [Record -> File \cup {Unused}]
  /\ retries' \in [Record -> 0..(MAX_RETRIES - 1)]
  /\ pendingTimers' \subseteq MadeRecords'
  /\ TasksOwn'
  /\ \A f \in File : tasks'[f] # 0 =>
       tasks'[f] \in pendingTimers' \/ \E k \in 1..Len(q) : q[k] = Cleaning(tasks'[f])
  /\ Cardinality(FreeRecords') =
       IF op.do = "add" THEN Cardinality(FreeRecords) - 1 ELSE Cardinality(FreeRecords)

(* An operation that is carried out with q still to come, when timers and  *)
(* files are what is pending and there: the task it is for goes on by a    *)
(* timer, and the others keep what they had.                               *)
LEMMA ExecuteKeeps ==
  ASSUME CleanTaskTypeOK, TasksOwn,
         NEW op \in Operation, NEW timers \in SUBSET MadeRecords, NEW found \in SUBSET File, NEW q,
         op.do = "add" => FreeRecords # {},
         Coming(op, q, timers), Execute(op, timers, found)
  PROVE  Executed(op, q)
<1> USE DEF CleanTaskTypeOK, Coming, Executed
<1>1. \A f \in File : tasks[f] # 0 => tasks[f] \in Record /\ f # Unused
  BY CleanTaskAssumption DEF Record
<1>2. CASE op.do = "add"
  <2>1. PICK n \in Record : n = NextRecord /\ recordOf[n] = Unused
    BY <1>2 DEF NextRecord, FreeRecords
  <2>2. PICK f \in File : f = op.file  BY <1>2 DEF Operation
  <2>3. /\ recordOf' = [recordOf EXCEPT ![n] = f] /\ tasks' = [tasks EXCEPT ![f] = n]
        /\ pendingTimers' = (timers \ {tasks[f]}) \cup {n}
        /\ UNCHANGED <<retries, gaveUp>> /\ exists' = found
    BY <1>2, <2>1, <2>2 DEF Execute, Added, Cancelled
  <2>4. n \in 1..MaxRecord /\ n # 0  BY CleanTaskAssumption DEF Record
  <2>5. /\ recordOf'[n] = f /\ \A r \in Record : r # n => recordOf'[r] = recordOf[r]
        /\ tasks'[f] = n /\ \A g \in File : g # f => tasks'[g] = tasks[g]
    BY <2>3
  <2>6. MadeRecords' = MadeRecords \cup {n}  BY <2>5, CleanTaskAssumption DEF MadeRecords
  <2>7. TasksOwn'
    <3> SUFFICES ASSUME NEW g \in File, tasks'[g] # 0 PROVE recordOf'[tasks'[g]] = g
      BY DEF TasksOwn
    <3>1. CASE g = f  BY <3>1, <2>5
    <3>2. CASE g # f
      <4>1. tasks'[g] = tasks[g] /\ recordOf[tasks[g]] = g /\ tasks[g] \in Record /\ g # Unused
        BY <3>2, <2>5, <1>1 DEF TasksOwn
      <4> QED  BY <4>1, <2>1, <2>5
    <3> QED  BY <3>1, <3>2
  <2>8. ASSUME NEW g \in File, tasks'[g] # 0
        PROVE  tasks'[g] \in pendingTimers' \/ \E k \in 1..Len(q) : q[k] = Cleaning(tasks'[g])
    <3>1. CASE g = f  BY <3>1, <2>3, <2>5
    <3>2. CASE g # f
      <4>1. tasks'[g] = tasks[g] /\ tasks[g] # 0  BY <3>2, <2>5, <2>8
      <4>2. tasks[g] # tasks[f]  BY <3>2, <4>1 DEF TasksOwn
      <4>3. op # Cleaning(tasks[g])  BY <1>2 DEF Cleaning
      <4> QED  BY <4>1, <4>2, <4>3, <2>3
    <3> QED  BY <3>1, <3>2
  <2>9. Cardinality(FreeRecords') = Cardinality(FreeRecords) - 1
    <3>1. FreeRecords' = FreeRecords \ {n}  BY <2>5, CleanTaskAssumption DEF FreeRecords
    <3>2. n \in FreeRecords  BY <2>1 DEF FreeRecords
    <3> QED  BY <3>1, <3>2, FreeFinite, FS_RemoveElement
  <2> QED  BY <1>2, <2>3, <2>4, <2>6, <2>7, <2>8, <2>9
<1>3. CASE op.do = "clean"
  <2>1. PICK r \in Record : r = op.record /\ op = Cleaning(r)  BY <1>3 DEF Operation, Cleaning
  <2>2. Removed(r, timers, found) \/ NotRemoved(r, timers, found)  BY <1>3, <2>1 DEF Execute
  <2>3. recordOf' = recordOf /\ MadeRecords' = MadeRecords /\ FreeRecords' = FreeRecords
    BY <2>2 DEF Removed, NotRemoved, MadeRecords, FreeRecords
  <2>4. \A g \in File : tasks[g] # 0 /\ op = Cleaning(tasks[g]) => recordOf[r] = g
    BY <2>1 DEF TasksOwn, Cleaning
  <2>5. CASE (Removed(r, timers, found) \/ NotRemoved(r, timers, found)) /\ TaskGone(recordOf[r])
               /\ pendingTimers' = timers /\ retries' = retries /\ exists' \subseteq File /\ gaveUp' \subseteq File
    <3>1. tasks' = [tasks EXCEPT ![recordOf[r]] = 0]  BY <2>5 DEF TaskGone
    <3>2. \A g \in File : tasks'[g] = IF g = recordOf[r] THEN 0 ELSE tasks[g]  BY <3>1
    <3>3. tasks' \in [File -> 0..MaxRecord]
      <4>1. 0 \in 0..MaxRecord /\ tasks \in [File -> 0..MaxRecord]  BY CleanTaskAssumption
      <4> QED  BY <3>1, <4>1
    <3>4. TasksOwn'  BY <3>2, <2>3 DEF TasksOwn
    <3>5. \A g \in File : tasks'[g] # 0 =>
            tasks'[g] \in pendingTimers' \/ \E k \in 1..Len(q) : q[k] = Cleaning(tasks'[g])
      BY <3>2, <2>4, <2>5
    <3> QED  BY <3>3, <3>4, <3>5, <2>3, <2>5, <1>3
  <2>6. CASE NotRemoved(r, timers, found) /\ TriesAgain(r)
    <3>1. /\ recordOf[r] \in File /\ recordOf[r] \in found /\ exists' = found /\ gaveUp' = gaveUp
          /\ retries' = [retries EXCEPT ![r] = retries[r] + 1]
          /\ pendingTimers' = timers \cup {r}
          /\ tasks' = [tasks EXCEPT ![recordOf[r]] = r]
      BY <2>6 DEF NotRemoved, Rearmed
    <3>2. retries' \in [Record -> 0..(MAX_RETRIES - 1)]
      BY <3>1, <2>6, CleanTaskAssumption DEF TriesAgain
    <3>3. \A g \in File : tasks'[g] = IF g = recordOf[r] THEN r ELSE tasks[g]  BY <3>1
    <3>4. tasks' \in [File -> 0..MaxRecord]  BY <3>1, CleanTaskAssumption DEF Record
    <3>5. TasksOwn'  BY <3>3, <2>3 DEF TasksOwn
    <3>6. r \in MadeRecords  BY <3>1, CleanTaskAssumption DEF MadeRecords
    <3>7. \A g \in File : tasks'[g] # 0 =>
            tasks'[g] \in pendingTimers' \/ \E k \in 1..Len(q) : q[k] = Cleaning(tasks'[g])
      BY <3>1, <3>3, <2>4
    <3> QED  BY <3>1, <3>2, <3>4, <3>5, <3>6, <3>7, <2>3, <1>3
  <2> QED  BY <2>2, <2>5, <2>6 DEF Removed, NotRemoved
<1> QED  BY <1>2, <1>3 DEF Operation

(* An operation on an idle queue is carried out at once, otherwise it      *)
(* waits at the end.                                                       *)
LEMMA SafeExecuteKeeps ==
  ASSUME CleanInv,
         NEW op \in Operation, NEW timers \in SUBSET pendingTimers, NEW found \in SUBSET File,
         \A r \in pendingTimers : r \notin timers => op = Cleaning(r),
         IF op.do = "add" THEN uses > 0 /\ uses' = uses - 1 ELSE uses' = uses,
         SafeExecute(op, timers, found)
  PROVE  CleanInv'
<1> USE DEF CleanInv, CleanTaskSafe
<1>1. /\ timers \in SUBSET MadeRecords /\ pendingOperations \in Seq(Operation)
      /\ Len(pendingOperations) \in Nat /\ uses' \in 0..MaxRecord /\ uses \in Nat
  BY LenProperties, CleanTaskAssumption DEF CleanTaskTypeOK
<1>2. CASE isProcessing
  <2>1. PICK q \in Seq(Operation) : q = Append(pendingOperations, op)  BY <1>1, AppendProperties
  <2>2. /\ Len(q) = Len(pendingOperations) + 1 /\ q[Len(q)] = op
        /\ \A k \in 1..Len(pendingOperations) : q[k] = pendingOperations[k]
    BY <2>1, <1>1, AppendProperties
  <2>3. /\ pendingOperations' = q /\ pendingTimers' = timers /\ exists' = found
        /\ UNCHANGED <<tasks, recordOf, retries, gaveUp, isProcessing>>
    BY <1>2, <2>1 DEF SafeExecute
  <2>4. MadeRecords' = MadeRecords /\ FreeRecords' = FreeRecords
    BY <2>3 DEF MadeRecords, FreeRecords
  <2>5. \A k \in 1..Len(q) : q[k] \in Operation  BY <2>1, ElementOfSeq
  <2>6. CleanTaskTypeOK'  BY <2>3, <2>4, <2>5, <1>1, <1>2 DEF CleanTaskTypeOK
  <2>7. TaskIsComing'
    <3> SUFFICES ASSUME NEW f \in File, tasks[f] # 0
                 PROVE  tasks[f] \in timers \/ \E k \in 1..Len(q) : q[k] = Cleaning(tasks[f])
      BY <2>3 DEF TaskIsComing, Queued, Cleaning
    <3>1. CASE tasks[f] \in pendingTimers /\ tasks[f] \notin timers
      <4>1. op = Cleaning(tasks[f])  BY <3>1
      <4>2. Len(q) \in 1..Len(q)  BY <1>1, <2>2
      <4> QED  BY <4>1, <4>2, <2>2
    <3>2. CASE Queued(Cleaning(tasks[f]))
      <4>1. PICK k \in 1..Len(pendingOperations) : pendingOperations[k] = Cleaning(tasks[f])
        BY <3>2 DEF Queued
      <4>2. k \in 1..Len(q)  BY <1>1, <2>2
      <4> QED  BY <4>1, <4>2, <2>2
    <3> QED  BY <3>1, <3>2 DEF TaskIsComing
  <2>8. TasksOwn'  BY <2>3 DEF TasksOwn
  <2>9. EnoughRecords'
    <3>1. Cardinality(Adding(q)) =
            IF op.do = "add" THEN Cardinality(Adding(pendingOperations)) + 1
            ELSE Cardinality(Adding(pendingOperations))
      BY <2>1, <1>1, AddingOfAppend
    <3>2. Cardinality(Adding(pendingOperations)) \in Nat  BY <1>1, AddingFinite
    <3>3. Cardinality(FreeRecords') = Cardinality(FreeRecords)  BY <2>4
    <3>4. Cardinality(Adding(pendingOperations')) = Cardinality(Adding(q))  BY <2>3
    <3> QED  BY <3>1, <3>2, <3>3, <3>4, <1>1 DEF EnoughRecords
  <2> QED  BY <2>3, <2>6, <2>7, <2>8, <2>9
<1>3. CASE ~isProcessing
  <2>1. pendingOperations = <<>>  BY <1>3 DEF CleanTaskTypeOK
  <2>2. Execute(op, timers, found) /\ isProcessing' = TRUE /\ UNCHANGED pendingOperations
    BY <1>3 DEF SafeExecute
  <2>3. Adding(<<>>) = {} /\ Cardinality(Adding(<<>>)) = 0  BY FS_EmptySet DEF Adding
  <2>4. Cardinality(FreeRecords) = uses /\ Cardinality(FreeRecords) \in Nat
    BY <2>1, <2>3, FreeFinite, <1>1 DEF EnoughRecords
  <2>5. op.do = "add" => FreeRecords # {}
    <3>1. FreeRecords = {} => Cardinality(FreeRecords) = 0  BY FS_EmptySet
    <3> QED  BY <3>1, <2>4, <1>1
  <2>7. PICK q : q = <<>>  OBVIOUS
  <2>6. Coming(op, q, timers)  BY <2>1 DEF TaskIsComing, Queued, Coming
  <2>8. Executed(op, q)
    <3>1. CleanTaskTypeOK /\ TasksOwn  OBVIOUS
    <3> QED  BY <3>1, <2>2, <2>5, <2>6, <1>1, ExecuteKeeps
  <2>9. pendingOperations' = <<>>  BY <2>1, <2>2
  <2>10. CleanTaskTypeOK'
    <3>1. \A k \in 1..Len(pendingOperations') : pendingOperations'[k] \in Operation  BY <2>9
    <3> QED  BY <3>1, <2>8, <2>2, <2>9, <1>1 DEF CleanTaskTypeOK, Executed
  <2>11. TaskIsComing'  BY <2>8, <2>7 DEF TaskIsComing, Executed
  <2>12. EnoughRecords'
    <3>1. Cardinality(Adding(pendingOperations')) = 0  BY <2>3, <2>9
    <3>2. Cardinality(FreeRecords') = uses'
      <4>1. CASE op.do = "add"  BY <4>1, <2>4, <2>8 DEF Executed
      <4>2. CASE op.do # "add"  BY <4>2, <2>4, <2>8 DEF Executed
      <4> QED  BY <4>1, <4>2
    <3>3. uses' \in Nat  BY <1>1, CleanTaskAssumption
    <3>4. Cardinality(FreeRecords') = uses' + Cardinality(Adding(pendingOperations'))
      <4>1. \A a, b, n : n \in Nat /\ a = 0 /\ b = n => b = n + a  OBVIOUS
      <4> QED  BY <4>1, <3>1, <3>2, <3>3
    <3> QED  BY <3>4 DEF EnoughRecords
  <2> QED  BY <2>8, <2>9, <2>10, <2>11, <2>12 DEF Executed
<1> QED  BY <1>2, <1>3

(* The next operation of the queue is done.                                *)
LEMMA NextOperationKeeps ==
  ASSUME CleanInv, ExecuteNextOperation
  PROVE  CleanInv'
<1> USE DEF CleanInv, CleanTaskSafe
<1>1. CASE pendingOperations = <<>>
  <2>1. /\ isProcessing' = FALSE
        /\ UNCHANGED <<exists, tasks, recordOf, retries, pendingTimers, pendingOperations, gaveUp, uses>>
    BY <1>1 DEF ExecuteNextOperation
  <2> QED
    BY <2>1, <1>1 DEF CleanTaskTypeOK, TaskIsComing, Queued, Cleaning, TasksOwn, EnoughRecords, MadeRecords,
      FreeRecords, Adding
<1>2. CASE pendingOperations # <<>>
  <2>1. PICK op, q : op = Head(pendingOperations) /\ q = Tail(pendingOperations)  OBVIOUS
  <2>2. /\ op = pendingOperations[1] /\ q \in Seq(Operation) /\ op \in Operation
        /\ Len(pendingOperations) \in Nat /\ Len(q) = Len(pendingOperations) - 1
        /\ \A k \in 1..Len(q) : q[k] = pendingOperations[k + 1]
    BY <1>2, <2>1, HeadTailProperties, LenProperties, EmptySeq
  <2>3. Execute(op, pendingTimers, exists) /\ pendingOperations' = q /\ UNCHANGED <<isProcessing, uses>>
    BY <1>2, <2>1 DEF ExecuteNextOperation
  <2>4. Cardinality(Adding(q)) = IF op.do = "add" THEN Cardinality(Adding(pendingOperations)) - 1
                                 ELSE Cardinality(Adding(pendingOperations))
    BY <1>2, <2>1, AddingOfTail
  <2>5. /\ Cardinality(Adding(q)) \in Nat /\ Cardinality(Adding(pendingOperations)) \in Nat
        /\ Cardinality(FreeRecords) \in Nat /\ uses \in Nat
    BY <2>2, AddingFinite, FreeFinite, CleanTaskAssumption DEF CleanTaskTypeOK
  <2>6. op.do = "add" => FreeRecords # {}
    <3>1. FreeRecords = {} => Cardinality(FreeRecords) = 0  BY FS_EmptySet
    <3>2. op.do = "add" => Cardinality(FreeRecords) > 0  BY <2>4, <2>5 DEF EnoughRecords
    <3> QED  BY <3>1, <3>2
  <2>7. ASSUME NEW f \in File, tasks[f] # 0
        PROVE  \/ tasks[f] \in pendingTimers \/ \E k \in 1..Len(q) : q[k] = Cleaning(tasks[f])
               \/ op = Cleaning(tasks[f])
    <3>1. CASE Queued(Cleaning(tasks[f]))
      <4>1. PICK k \in 1..Len(pendingOperations) : pendingOperations[k] = Cleaning(tasks[f])
        BY <3>1 DEF Queued
      <4>2. CASE k = 1  BY <4>1, <4>2, <2>2
      <4>3. CASE k # 1
        <5>1. k - 1 \in 1..Len(q) /\ (k - 1) + 1 = k  BY <4>3, <2>2
        <5> QED  BY <5>1, <4>1, <2>2
      <4> QED  BY <4>2, <4>3
    <3> QED  BY <3>1, <2>7 DEF TaskIsComing
  <2>8. Executed(op, q)
    <3>1. pendingTimers \in SUBSET MadeRecords /\ exists \in SUBSET File  BY DEF CleanTaskTypeOK
    <3>2. CleanTaskTypeOK /\ TasksOwn  OBVIOUS
    <3>3. Coming(op, q, pendingTimers)  BY <2>7 DEF Coming
    <3> QED  BY <3>1, <3>2, <3>3, <2>2, <2>3, <2>6, ExecuteKeeps
  <2>9. CleanTaskTypeOK'
    <3>1. \A k \in 1..Len(q) : q[k] \in Operation  BY <2>2, ElementOfSeq
    <3>2. isProcessing  BY DEF ExecuteNextOperation
    <3> QED  BY <3>1, <3>2, <2>3, <2>8 DEF CleanTaskTypeOK, Executed
  <2>10. TaskIsComing'  BY <2>3, <2>8 DEF TaskIsComing, Queued, Cleaning, Executed
  <2>11. EnoughRecords'
    <3>1. Cardinality(Adding(pendingOperations')) = Cardinality(Adding(q))  BY <2>3
    <3> QED  BY <3>1, <2>3, <2>4, <2>5, <2>8 DEF EnoughRecords, Executed
  <2> QED  BY <2>2, <2>3, <2>8, <2>9, <2>10, <2>11 DEF Executed
<1> QED  BY <1>1, <1>2

(* Every step keeps the invariant.                                         *)
LEMMA CleanSteps == CleanInv /\ [CleanTaskNext]_cleanvars => CleanInv'
<1> SUFFICES ASSUME CleanInv, [CleanTaskNext]_cleanvars PROVE CleanInv'
  OBVIOUS
<1>1. ASSUME NEW f \in File, AddFiles(f) PROVE CleanInv'
  <2>1. PICK op : op = [do |-> "add", file |-> f]  OBVIOUS
  <2>4. op \in Operation /\ op.do = "add"  BY <2>1 DEF Operation
  <2>2. uses > 0 /\ uses' = uses - 1 /\ SafeExecute(op, pendingTimers, exists \cup {f})
    BY <1>1, <2>1 DEF AddFiles
  <2>3. exists \cup {f} \in SUBSET File  BY DEF CleanInv, CleanTaskSafe, CleanTaskTypeOK
  <2> QED  BY <2>2, <2>3, <2>4, SafeExecuteKeeps
<1>2. ASSUME NEW r \in Record, TimerFires(r) PROVE CleanInv'
  <2>1. PICK op : op = Cleaning(r)  OBVIOUS
  <2>4. op \in Operation /\ op.do # "add"  BY <2>1 DEF Operation, Cleaning
  <2>2. UNCHANGED uses /\ SafeExecute(op, pendingTimers \ {r}, exists)
    BY <1>2, <2>1 DEF TimerFires
  <2>3. exists \in SUBSET File  BY DEF CleanInv, CleanTaskSafe, CleanTaskTypeOK
  <2> QED  BY <2>1, <2>2, <2>3, <2>4, SafeExecuteKeeps
<1>3. CASE ExecuteNextOperation  BY <1>3, NextOperationKeeps
<1>4. CASE UNCHANGED cleanvars
  BY <1>4 DEF cleanvars, CleanInv, CleanTaskSafe, CleanTaskTypeOK, TaskIsComing, Queued, Cleaning, TasksOwn,
    EnoughRecords, MadeRecords, FreeRecords, Adding
<1> QED  BY <1>1, <1>2, <1>3, <1>4 DEF CleanTaskNext

(* Whatever additions, timers and the queue do in between, every file that *)
(* has a task has a timer or an operation that will try to remove it       *)
(* (CleanupQueue in napcat-common/src/clean-task.ts).                      *)
THEOREM FilesAreTriedAgain == CleanTaskSpec => []CleanTaskSafe
<1>1. CleanInv => CleanTaskSafe  BY DEF CleanInv
<1> QED  BY <1>1, CleanStarts, CleanSteps, PTL DEF CleanTaskSpec
============================================================================
