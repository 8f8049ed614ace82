--------------------------- MODULE GatewaySession ---------------------------
(***************************************************************************)
(* How events reach the handlers of the official bot: the gateway session  *)
(* that run_websocket identifies, resumes and loses, the tasks it starts,  *)
(* the webhook as a second path for the same events, and the cache of      *)
(* message ids that keeps a message from being processed twice             *)
(* (official_qqbot/bot.py).                                                *)
(*                                                                         *)
(* Frames of a connection come in order, so what the platform has sent and *)
(* the bot has not read is the rest of the session's stream.               *)
(***************************************************************************)
EXTENDS Integers, Sequences, FiniteSets, SequencesExt

CONSTANTS
  Msg,          \* group messages, by their id
  Ready,        \* the READY event
  CacheMax,     \* _INBOUND_GROUP_MSG_CACHE_MAX
  MaxSessions,  \* bound: sessions the platform opens
  MaxLosses,    \* bound: lost connections, op 7 and op 9
  MaxWebhook    \* bound: events that come by the webhook as well

ASSUME GatewayAssumption ==
  /\ IsFiniteSet(Msg) /\ Ready \notin Msg /\ CacheMax \in Nat \ {0}
  /\ MaxSessions \in Nat /\ MaxLosses \in Nat /\ MaxWebhook \in Nat

VARIABLES
  \* the bot
  conn,        \* "down", "open", "identifying", "resuming", "streaming"
  sid,         \* session_id, 0 for ""
  lastSeq,     \* last_seq, 0 for None
  beats,       \* heartbeat tasks alive
  tasks,       \* handlers started and not ended, in the order of their start
  cache,       \* _recent_group_msg_ids, oldest first
  notified,    \* the pending reward of the group was announced
  \* the platform
  session,     \* the newest session
  alive,       \* the sessions that can be resumed
  stream,      \* the events of each session
  next,        \* sequence number of the next frame of this connection
  losses, webhooks,   \* how often each happened
  \* history
  dispatched,  \* messages a handler was started for
  processed    \* messages passed on to process_message, in order

bot == <<conn, sid, lastSeq, beats>>
handlers == <<tasks, cache, notified, processed>>
platform == <<session, alive, stream, next>>
gatewayvars == <<bot, handlers, platform, losses, webhooks, dispatched>>

Number == 0..MaxSessions
MaxSeq == 1 + Cardinality(Msg)

\* Shapes; handlers are for messages and sequence numbers stay in the stream.
GatewayTypeOK ==
  /\ conn \in {"down", "open", "identifying", "resuming", "streaming"}
  /\ sid \in Number /\ session \in Number /\ alive \subseteq 1..MaxSessions
  /\ lastSeq \in 0..MaxSeq /\ next \in 1..MaxSeq + 1
  /\ beats \in Nat
  /\ tasks \in Seq([msg : Msg, pc : {"new", "notifying"}])
  /\ cache \in Seq(Msg) /\ Len(cache) <= CacheMax
  /\ notified \in BOOLEAN
  /\ stream \in [1..MaxSessions -> Seq(Msg \cup {Ready})]
  /\ losses \in 0..MaxLosses /\ webhooks \in 0..MaxWebhook
  /\ dispatched \subseteq Msg /\ processed \in Seq(Msg)

GatewayInit ==
  /\ conn = "down" /\ sid = 0 /\ lastSeq = 0 /\ beats = 0
  /\ tasks = <<>> /\ cache = <<>> /\ notified = FALSE
  /\ session = 0 /\ alive = {} /\ next = 1
  /\ stream = [n \in 1..MaxSessions |-> <<>>]
  /\ losses = 0 /\ webhooks = 0
  /\ dispatched = {} /\ processed = <<>>

-----------------------------------------------------------------------------
(* The platform (not in src/) *)

Emitted == UNION {ToSet(stream[n]) : n \in 1..MaxSessions}

\* A new message, for the newest session.
Emit(m) ==
  /\ session \in alive /\ m \notin Emitted
  /\ stream' = [stream EXCEPT ![session] = Append(@, m)]
  /\ UNCHANGED <<bot, handlers, session, alive, next, losses, webhooks, dispatched>>

OpenSession ==
  /\ conn = "identifying" /\ session < MaxSessions
  /\ session' = session + 1 /\ alive' = alive \cup {session + 1} /\ next' = 1
  /\ stream' = [stream EXCEPT ![session + 1] = <<Ready>>]
  /\ conn' = "streaming"
  /\ UNCHANGED <<sid, lastSeq, beats, handlers, losses, webhooks, dispatched>>

\* Fault: the bot names the event after the last one it read.
ResumeOneTooFar == lastSeq + 1
\* The seq of the resume frame.
ResumeSeq == lastSeq

ResumeSession ==
  /\ conn = "resuming" /\ sid \in alive
  /\ next' = ResumeSeq + 1
  /\ conn' = "streaming"
  /\ UNCHANGED <<sid, lastSeq, beats, handlers, session, alive, stream, losses, webhooks,
                 dispatched>>

\* A session is forgotten while nobody is connected.
Expire ==
  /\ conn = "down" /\ alive # {}
  /\ losses < MaxLosses /\ losses' = losses + 1
  /\ alive' = {}
  /\ UNCHANGED <<bot, handlers, session, stream, next, webhooks, dispatched>>

-----------------------------------------------------------------------------
(* run_websocket *)

Connect ==
  /\ conn = "down"
  /\ conn' = "open"
  /\ UNCHANGED <<sid, lastSeq, beats, handlers, platform, losses, webhooks, dispatched>>

\* Fault: every connection identifies.
IdentifyAlways == FALSE
\* if session_id and last_seq is not None
Resumable == sid # 0 /\ lastSeq # 0

\* op 10: resume what was there, identify otherwise; the heartbeat starts.
Hello ==
  /\ conn = "open"
  /\ conn' = IF Resumable THEN "resuming" ELSE "identifying"
  /\ beats' = beats + 1
  /\ UNCHANGED <<sid, lastSeq, handlers, platform, losses, webhooks, dispatched>>

\* op 0: the sequence number first, then READY or a handler of its own.
Dispatch ==
  /\ conn = "streaming" /\ next <= Len(stream[session])
  /\ lastSeq' = next /\ next' = next + 1
  /\ LET e == stream[session][next]
     IN  IF e = Ready
           THEN sid' = session /\ UNCHANGED <<tasks, dispatched>>
           ELSE /\ tasks' = Append(tasks, [msg |-> e, pc |-> "new"])
                /\ dispatched' = dispatched \cup {e}
                /\ UNCHANGED sid
  /\ UNCHANGED <<conn, beats, cache, notified, processed, session, alive, stream, losses,
                 webhooks>>

\* finally: heartbeat_task.cancel(), if this connection started one.
BeatsAfter(n) == IF conn = "open" THEN n ELSE n - 1

\* op 7, a lost connection, or a heartbeat that can not be sent.  Nobody can
\* resume a session whose READY was not read.
Lose ==
  /\ conn # "down"
  /\ losses < MaxLosses /\ losses' = losses + 1
  /\ conn' = "down" /\ beats' = BeatsAfter(beats)
  /\ alive' = alive \cap {sid}
  /\ UNCHANGED <<sid, lastSeq, handlers, session, stream, next, webhooks, dispatched>>

\* op 9 clears both.
AfterInvalid == <<0, 0>>

\* op 9: the session can not be resumed, or the platform takes it back.
Invalid ==
  /\ conn \in {"resuming", "identifying", "streaming"}
  /\ \/ conn = "resuming" /\ sid \notin alive /\ UNCHANGED losses
     \/ losses < MaxLosses /\ losses' = losses + 1
  /\ alive' = {}
  /\ sid' = AfterInvalid[1] /\ lastSeq' = AfterInvalid[2]
  /\ conn' = "down" /\ beats' = BeatsAfter(beats)
  /\ UNCHANGED <<handlers, session, stream, next, webhooks, dispatched>>

\* handle_qq_webhook_payload runs the same handler for an event.
Webhook(m) ==
  /\ m \in Emitted /\ webhooks < MaxWebhook
  /\ webhooks' = webhooks + 1
  /\ tasks' = Append(tasks, [msg |-> m, pc |-> "new"])
  /\ dispatched' = dispatched \cup {m}
  /\ UNCHANGED <<bot, cache, notified, processed, platform, losses>>

-----------------------------------------------------------------------------
(* handle_group_message *)

Remembered(m) == m \in ToSet(cache)

\* Fault: the oldest id goes when the cache is full, not when it overflows.
EvictEarly(ids) == IF Len(ids) >= CacheMax THEN Tail(ids) ELSE ids
\* while len(cache) > max: popitem(last=False)
Evict(ids) == IF Len(ids) > CacheMax THEN Tail(ids) ELSE ids

\* _remember_group_message, and what follows it.
Deduplicate(m) ==
  IF Remembered(m) THEN UNCHANGED <<cache, processed>>
  ELSE cache' = Evict(Append(cache, m)) /\ processed' = Append(processed, m)

\* Tasks start in the order they were created.  A handler announces a reward
\* that was not announced yet, and awaits the sending, before it looks at the
\* message id.
Start ==
  \E i \in 1..Len(tasks) :
    /\ tasks[i].pc = "new" /\ \A j \in 1..i - 1 : tasks[j].pc # "new"
    /\ IF notified
         THEN tasks' = RemoveAt(tasks, i) /\ Deduplicate(tasks[i].msg)
         ELSE /\ tasks' = [tasks EXCEPT ![i].pc = "notifying"]
              /\ UNCHANGED <<cache, processed>>
    /\ UNCHANGED <<bot, notified, platform, losses, webhooks, dispatched>>

\* notify_pending_group_reward returns; a notice that could not be sent stays
\* to be announced.
Noticed(ok) ==
  \E i \in 1..Len(tasks) :
    /\ tasks[i].pc = "notifying"
    /\ notified' = (notified \/ ok)
    /\ tasks' = RemoveAt(tasks, i)
    /\ Deduplicate(tasks[i].msg)
    /\ UNCHANGED <<bot, platform, losses, webhooks, dispatched>>

Handlers == Start \/ \E ok \in BOOLEAN : Noticed(ok)
Answers == OpenSession \/ ResumeSession \/ Invalid
GatewayNext ==
  \/ \E m \in Msg : Emit(m) \/ Webhook(m)
  \/ Expire \/ Answers
  \/ Connect \/ Hello \/ Dispatch \/ Lose
  \/ Handlers

GatewaySpec == GatewayInit /\ [][GatewayNext]_gatewayvars

\* The bot's loop goes on, and the platform answers an identify or a resume.
GatewayFairSpec ==
  /\ GatewaySpec
  /\ WF_gatewayvars(Connect) /\ WF_gatewayvars(Hello) /\ WF_gatewayvars(Dispatch) /\ WF_gatewayvars(Handlers)
  /\ WF_gatewayvars(Answers)

-----------------------------------------------------------------------------
(* Properties *)

\* Whatever number the bot would resume from, it has started a handler for
\* every message of that session up to it: resuming never skips an event
\* (last_seq and session_id in run_websocket).
ResumeSkipsNothing ==
  sid # 0 => /\ lastSeq \in 1..Len(stream[sid])
             /\ \A k \in 1..lastSeq : stream[sid][k] # Ready => stream[sid][k] \in dispatched

\* A message is processed again only after at least CacheMax other messages,
\* whatever the platform replays and whichever path it comes by
\* (_remember_inbound_message).
ProcessedOnceInWindow ==
  \A i, j \in 1..Len(processed) :
    i < j /\ processed[i] = processed[j] => j - i > CacheMax

\* A connection that said hello has one heartbeat, and no heartbeat outlives its
\* connection (send_heartbeat, finally).
OneHeartbeat == beats = IF conn \in {"down", "open"} THEN 0 ELSE 1

Lost(m) == \A n \in alive : m \notin ToSet(stream[n])

\* A message the platform emitted reaches a handler unless the platform gives up
\* its session, over any number of lost connections (run_websocket resumes).
EventsArrive ==
  \A m \in Msg : m \in Emitted ~> (m \in dispatched \/ Lost(m))

\* The bot comes back after losses, refused resumes included, as long as the
\* platform still opens sessions.
ComesBack == conn = "down" ~> (conn = "streaming" \/ session = MaxSessions)

\* Resuming skips no message, a message is processed once while it is
\* remembered, and a connection has one heartbeat, over losses, refused
\* resumes and the webhook.
GatewaySafe == GatewayTypeOK /\ ResumeSkipsNothing /\ ProcessedOnceInWindow /\ OneHeartbeat
=============================================================================
