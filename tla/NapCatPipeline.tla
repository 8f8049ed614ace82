--------------------------- MODULE NapCatPipeline ---------------------------
(***************************************************************************)
(* The NapCat bot (qqbot/bot.py, and the same code in only-group-bot):     *)
(* one reader loop per WebSocket connection, a bounded priority queue,     *)
(* workers that handle messages and call the OneBot API, and the table of  *)
(* pending API calls (qqbot/onebot_adapter.py).                            *)
(*                                                                         *)
(* Responses to API calls come in over the connection the reader reads, in *)
(* line with the events.  A handler that awaits an API call in the reader  *)
(* loop itself therefore can only time out.                                *)
(***************************************************************************)
EXTENDS Integers, Sequences, FiniteSets, SequencesExt

CONSTANTS
  Msg,           \* incoming messages, by their dedup key
  Vip,           \* the messages of VIP_QQ
  Request,       \* group invitations and friend requests
  Worker,        \* the MSG_WORKERS consumers
  QueueMax,      \* maxsize of _msg_queue
  MaxProcessed,  \* how many dedup keys are kept
  MaxRetries,    \* send_max_retries
  MaxConn,       \* bound: connections in a run
  MaxCopies,     \* bound: how often NapCat delivers a message
  MaxWire        \* bound: packets on their way to the bot

ASSUME SetsAssumption == Vip \subseteq Msg /\ Msg \cap Request = {}
ASSUME BoundsAssumption ==
  /\ QueueMax \in Nat \ {0} /\ MaxProcessed \in Nat \ {0} /\ MaxRetries \in Nat \ {0}
  /\ MaxConn \in Nat /\ MaxCopies \in Nat /\ MaxWire \in Nat

VARIABLES
  ws,         \* the connection: "down", "up", or "closed" and not yet noticed
  wire,       \* packets the reader has not read
  reader,     \* Reading, or the request whose API call the reader awaits
  worker,     \* what each consumer does
  queue,      \* _msg_queue, first to be taken first
  processed,  \* _processed_msgs, oldest first
  pending,    \* _pending_api: the echo of each call
  remote,     \* calls NapCat got on this connection and has not answered
  conns,      \* connections opened so far
  copies,     \* deliveries of each message so far
  handled,    \* history: how often a worker began to handle a message
  performed   \* history: how often NapCat sent the reply to a message

vars == <<ws, wire, reader, worker, queue, processed, pending, remote,
          conns, copies, handled, performed>>

\* The echo of a call is a fresh uuid: here, what it is about and the attempt.
Echo == (Msg \X (1..MaxRetries)) \cup (Request \X {0})
Code == {"ok", "retry", "refused"}    \* retcode 0; 1200 or -1; any other
Packet ==
  [kind : {"message"}, of : Msg] \cup [kind : {"request"}, of : Request]
  \cup [kind : {"response"}, of : Echo, code : Code]

Reading == "reading"
ASSUME ReadingAssumption == Reading \notin Request
Idle == [pc |-> "idle"]
Job == [pc : {"working", "waiting"}, msg : Msg, attempt : 1..MaxRetries]
EchoOf(job) == <<job.msg, job.attempt>>

\* Shapes; the queue and the wire keep to their bounds.
TypeOK ==
  /\ ws \in {"down", "up", "closed"}
  /\ wire \in Seq(Packet) /\ Len(wire) <= MaxWire
  /\ reader \in Request \cup {Reading}
  /\ worker \in [Worker -> {Idle} \cup Job]
  /\ queue \in Seq(Msg) /\ Len(queue) <= QueueMax
  /\ processed \in Seq(Msg) /\ Len(processed) <= MaxProcessed
  /\ pending \subseteq Echo /\ remote \subseteq Echo
  /\ conns \in 0..MaxConn
  /\ copies \in [Msg -> 0..MaxCopies]
  /\ handled \in [Msg -> Nat] /\ performed \in [Msg -> Nat]

Init ==
  /\ ws = "down" /\ wire = <<>> /\ reader = Reading
  /\ worker = [w \in Worker |-> Idle]
  /\ queue = <<>> /\ processed = <<>> /\ pending = {} /\ remote = {}
  /\ conns = 0
  /\ copies = [m \in Msg |-> 0]
  /\ handled = [m \in Msg |-> 0] /\ performed = [m \in Msg |-> 0]

-----------------------------------------------------------------------------
(* NapCat and the network (not in src/qqbot) *)

Arrives(p) ==
  /\ ws = "up" /\ Len(wire) < MaxWire
  /\ wire' = Append(wire, p)

\* An event arrives, and after a reconnect perhaps once more.
Deliver(m) ==
  /\ copies[m] < MaxCopies
  /\ Arrives([kind |-> "message", of |-> m])
  /\ copies' = [copies EXCEPT ![m] = @ + 1]
  /\ UNCHANGED <<ws, reader, worker, queue, processed, pending, remote, conns,
                 handled, performed>>

DeliverRequest(r) ==
  /\ <<r, 0>> \notin pending \cup remote
  /\ \A i \in 1..Len(wire) : wire[i].of \notin {r, <<r, 0>>}
  /\ Arrives([kind |-> "request", of |-> r])
  /\ UNCHANGED <<ws, reader, worker, queue, processed, pending, remote, conns,
                 copies, handled, performed>>

\* NapCat answers a call.  It sent the message, or refused; with retcode 1200
\* it may have done either.
Answer(e, code) ==
  /\ e \in remote
  /\ Arrives([kind |-> "response", of |-> e, code |-> code])
  /\ remote' = remote \ {e}
  /\ \/ code # "ok" /\ UNCHANGED performed
     \/ code # "refused" /\ e[1] \in Msg /\ performed' = [performed EXCEPT ![e[1]] = @ + 1]
     \/ code = "ok" /\ e[1] \in Request /\ UNCHANGED performed
  /\ UNCHANGED <<ws, reader, worker, queue, processed, pending, conns, copies, handled>>

Close ==
  /\ ws = "up"
  /\ ws' = "closed"
  /\ UNCHANGED <<wire, reader, worker, queue, processed, pending, remote, conns,
                 copies, handled, performed>>

-----------------------------------------------------------------------------
(* The connection *)

\* Connected: stale calls are cancelled and the queue emptied before the
\* workers start.
Connect ==
  /\ ws = "down" /\ conns < MaxConn
  /\ ws' = "up" /\ conns' = conns + 1
  /\ pending' = {} /\ queue' = <<>>
  /\ UNCHANGED <<wire, reader, worker, processed, remote, copies, handled, performed>>

\* Fault: the consumers of the old connection are not cancelled.
TeardownWithoutCancel ==
  /\ ws = "closed" /\ reader = Reading
  /\ ws' = "down" /\ wire' = <<>> /\ remote' = {} /\ pending' = {}
  /\ UNCHANGED <<reader, worker, queue, processed, conns, copies, handled, performed>>

\* The loop over the socket ends, by the closed connection or by a call that
\* finds it closed; the finally resolves what is pending, cancels the workers
\* and waits for them.
Teardown ==
  /\ ws = "closed" /\ reader = Reading
  /\ ws' = "down" /\ wire' = <<>> /\ remote' = {} /\ pending' = {}
  /\ worker' = [w \in Worker |-> Idle]
  /\ UNCHANGED <<reader, queue, processed, conns, copies, handled, performed>>

-----------------------------------------------------------------------------
(* The reader loop *)

\* Fault: the keys are not looked up.
Anything(m) == TRUE
\* The dedup key has not been seen.
Fresh(m) == m \notin ToSet(processed)

Remember(m) ==
  LET longer == Append(processed, m)
  IN  IF Len(longer) > MaxProcessed THEN Tail(longer) ELSE longer

\* PriorityQueue: the messages of the VIP first, each kind in order of arrival.
Enqueued(m) ==
  LET ahead == IF m \in Vip THEN {i \in DOMAIN queue : queue[i] \in Vip} ELSE DOMAIN queue
  IN  InsertAt(queue, Cardinality(ahead) + 1, m)

\* A message that finds the queue full is dropped.
QueueWith(m) == IF Len(queue) < QueueMax THEN Enqueued(m) ELSE queue

NextPacket(kind) ==
  /\ ws # "down" /\ reader = Reading
  /\ wire # <<>> /\ Head(wire).kind = kind
  /\ wire' = Tail(wire)

\* A message is remembered before the queue turns out to be full.
ReadMessage ==
  /\ NextPacket("message")
  /\ LET m == Head(wire).of
     IN  IF Fresh(m)
           THEN /\ processed' = Remember(m)
                /\ queue' = QueueWith(m)
           ELSE UNCHANGED <<processed, queue>>
  /\ UNCHANGED <<ws, reader, worker, pending, remote, conns, copies, handled, performed>>

\* Fault: the call is not taken out of the table when it times out.
KeptCall(e) == pending
\* send_api_request: the entry is popped when the wait ends.
Popped(e) == pending \ {e}

\* send_api_request from the loop itself: approve the request, and wait.
ReadRequest ==
  /\ NextPacket("request") /\ ws = "up"
  /\ LET e == <<Head(wire).of, 0>>
     IN  /\ reader' = Head(wire).of
         /\ pending' = pending \cup {e}
         /\ remote' = remote \cup {e}
  /\ UNCHANGED <<ws, worker, queue, processed, conns, copies, handled, performed>>

\* Fault: no timeout; the wait ends with the answer.
ReaderAwaitsAnswer ==
  /\ reader # Reading
  /\ wire # <<>> /\ Head(wire).of = <<reader, 0>>
  /\ pending' = Popped(<<reader, 0>>)
  /\ reader' = Reading
  /\ UNCHANGED <<ws, wire, worker, queue, processed, remote, conns, copies, handled, performed>>

\* wait_for gives up; the answer, if it comes, comes too late.
ReaderTimeout ==
  /\ reader # Reading
  /\ pending' = Popped(<<reader, 0>>)
  /\ reader' = Reading
  /\ UNCHANGED <<ws, wire, worker, queue, processed, remote, conns, copies, handled, performed>>

Waits(w, e) == worker[w].pc = "waiting" /\ EchoOf(worker[w]) = e

\* _send_message_action: the next attempt, or the message is given up.
NextAttempt(job) ==
  IF job.attempt < MaxRetries
    THEN [job EXCEPT !.pc = "working", !.attempt = @ + 1] ELSE Idle

\* handle_api_response: the waiting worker goes on.  An answer nobody waits
\* for any more is dropped.
ReadResponse ==
  /\ NextPacket("response")
  /\ LET p == Head(wire)
     IN  /\ worker' = [w \in Worker |->
                         IF ~Waits(w, p.of) THEN worker[w]
                         ELSE IF p.code = "retry" THEN NextAttempt(worker[w])
                         ELSE Idle]
         /\ pending' = Popped(p.of)
  /\ UNCHANGED <<ws, reader, queue, processed, remote, conns, copies, handled, performed>>

-----------------------------------------------------------------------------
(* The workers *)

\* message_consumer: the first message of the queue.  On a closed connection
\* the message goes back and the worker ends; the next connection empties the
\* queue.
Take(w) ==
  /\ worker[w] = Idle /\ ws = "up" /\ queue # <<>>
  /\ worker' = [worker EXCEPT ![w] = [pc |-> "working", msg |-> Head(queue), attempt |-> 1]]
  /\ handled' = [handled EXCEPT ![Head(queue)] = @ + 1]
  /\ queue' = Tail(queue)
  /\ UNCHANGED <<ws, wire, reader, processed, pending, remote, conns, copies, performed>>

\* send_api_request: the call enters the table, then the frame is sent.
Call(w) ==
  /\ worker[w].pc = "working" /\ ws = "up"
  /\ worker' = [worker EXCEPT ![w].pc = "waiting"]
  /\ pending' = pending \cup {EchoOf(worker[w])}
  /\ remote' = remote \cup {EchoOf(worker[w])}
  /\ UNCHANGED <<ws, wire, reader, queue, processed, conns, copies, handled, performed>>

\* The frame can not be sent: the message is given up, and the entry stays in
\* the table, for the send stands before the try that removes it.
CallOnClosed(w) ==
  /\ worker[w].pc = "working" /\ ws = "closed"
  /\ worker' = [worker EXCEPT ![w] = Idle]
  /\ pending' = pending \cup {EchoOf(worker[w])}
  /\ UNCHANGED <<ws, wire, reader, queue, processed, remote, conns, copies, handled, performed>>

CallTimeout(w) ==
  /\ worker[w].pc = "waiting"
  /\ pending' = Popped(EchoOf(worker[w]))
  /\ worker' = [worker EXCEPT ![w] = NextAttempt(@)]
  /\ UNCHANGED <<ws, wire, reader, queue, processed, remote, conns, copies, handled, performed>>

\* WORKER_TIMEOUT cancels the handler; its call leaves the table on the way.
GiveUp(w) ==
  /\ worker[w] # Idle
  /\ pending' = IF worker[w].pc = "waiting" THEN Popped(EchoOf(worker[w])) ELSE pending
  /\ worker' = [worker EXCEPT ![w] = Idle]
  /\ UNCHANGED <<ws, wire, reader, queue, processed, remote, conns, copies, handled, performed>>

Network ==
  \/ \E m \in Msg : Deliver(m)
  \/ \E r \in Request : DeliverRequest(r)
  \/ \E e \in Echo, code \in Code : Answer(e, code)
  \/ Close
ReaderStep == ReadMessage \/ ReadRequest \/ ReadResponse \/ ReaderTimeout
Handling(w) == Call(w) \/ CallOnClosed(w) \/ CallTimeout(w) \/ GiveUp(w)
Next ==
  \/ Network
  \/ Connect \/ Teardown
  \/ ReaderStep
  \/ \E w \in Worker : Take(w) \/ Handling(w)

Spec == Init /\ [][Next]_vars

\* The loop runs what can run and every wait has a timeout; the network owes
\* nothing.
FairSpec ==
  /\ Spec
  /\ WF_vars(ReaderStep) /\ WF_vars(Teardown)
  /\ \A w \in Worker : WF_vars(Handling(w))
  /\ WF_vars(\E w \in Worker : Take(w))

-----------------------------------------------------------------------------
(* Properties *)

\* The status of a message as the promise sees it.
StatusOf(m) ==
  IF m \in ToSet(queue) THEN "waiting"
  ELSE IF handled[m] > 0 THEN "handled"
  ELSE IF m \in ToSet(processed) THEN "lost" ELSE "unseen"

Promise == INSTANCE Inbox WITH status <- [m \in Msg |-> StatusOf(m)]

\* The pipeline keeps the promise of Inbox: no reconnect, redelivery or full
\* queue makes a message come back once it was handled or lost, as long as its
\* dedup key is kept.
KeepsPromise == Promise!Spec

\* A message whose dedup key is still kept is answered at most MaxRetries times,
\* whatever is lost, repeated or redelivered (_processed_msgs,
\* _send_message_action).
RepliesBounded == \A m \in Msg : handled[m] <= 1 /\ performed[m] <= MaxRetries

Awaited == {e \in Echo : \/ \E w \in Worker : Waits(w, e)
                         \/ reader \in Request /\ e = <<reader, 0>>}

\* Whoever waits for a call has an entry in the table, and on an open connection
\* the table holds nothing else (send_api_request, handle_api_response).
TableIsExact == Awaited \subseteq pending /\ (ws = "up" => pending \subseteq Awaited)

\* "防止泄露的老 worker 偷消息" (bot.py:4682): between connections no worker
\* holds a message and no call is pending, and no call made on an old connection
\* is answered on a new one (main, finally).
NothingSurvivesTheConnection ==
  ws = "down" => /\ pending = {} /\ wire = <<>> /\ reader = Reading
                 /\ \A w \in Worker : worker[w] = Idle

\* Every wait ends: the reader reads again, although nobody can answer it while
\* it waits, whatever NapCat does.
ReaderReturns == reader # Reading ~> reader = Reading
\* A worker becomes free again as well.
WorkersReturn == \A w \in Worker : worker[w] # Idle ~> worker[w] = Idle

\* A message is answered a bounded number of times, the table of calls
\* holds exactly those awaited, and nothing survives its connection.
PipelineSafe == TypeOK /\ RepliesBounded /\ TableIsExact /\ NothingSurvivesTheConnection

\* The reader and every worker come back from whatever they wait for.
WaitsEnd == ReaderReturns /\ WorkersReturn
=============================================================================
