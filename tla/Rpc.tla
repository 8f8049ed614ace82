-------------------------------- MODULE Rpc --------------------------------
(***************************************************************************)
(* NapCat's remote objects: the deep proxy of a client                     *)
(* (napcat-rpc/src/client.ts), the message transport between (transport.   *)
(* ts), and the server with its table of object references (server.ts).    *)
(*                                                                         *)
(* The server's objects have one property; calls on them create another    *)
(* object, answer the object itself, read the property, answer nothing,    *)
(* or hand the property to a callback of the client and answer what it     *)
(* returns.  A client's assignment is sent at once, a call only when it is *)
(* awaited.  The n-th assignment writes n; a property is 0 at first.       *)
(***************************************************************************)
EXTENDS Integers, Sequences, FiniteSets

CONSTANTS
  Call,         \* calls the client makes
  MaxWrite      \* bound: assignments

ASSUME RpcAssumption == MaxWrite \in Nat /\ IsFiniteSet(Call)

VARIABLES
  calls,       \* what each call is, how far its promise is, and its value
  chained,     \* calls whose result is awaited through a property of it
  closed,      \* close() has been called
  released,    \* calls whose reference was released
  running,     \* client callbacks running
  writes,      \* assignments sent
  toServer,    \* messages, in the order they were sent
  toClient,
  objectRefs,  \* the server's table: the object of a reference, 0 for none
  lastRef,     \* the last reference made
  objects,     \* objects made so far, the root among them
  heap,        \* the property of each object
  pendingCallbacks,
  given,       \* history: the object a call was answered, and its property then
  executed,    \* history: how often the server carried out a call
  computed,    \* history: what the server answered a call
  floor,       \* history: the last assignment to the call's object before it was sent
  silent       \* history: calls whose callback failed with an empty message

client == <<calls, chained, closed, released, running, writes, floor, silent>>
server == <<objectRefs, lastRef, objects, heap, pendingCallbacks, given, executed, computed>>
rpcvars == <<client, server, toServer, toClient>>

Ref == 1..Cardinality(Call)
Obj == 1..(Cardinality(Call) + 1)      \* 1 is the root
Value == 0..MaxWrite
Op == {"make", "self", "read", "void", "via"}
Unmade == [st |-> "none", op |-> "none", on |-> 0, val |-> 0]
Pending(c) == calls[c].st = "sent"

(* Shapes; the server only waits for callbacks of calls it carries out.    *)
RpcTypeOK ==
  /\ calls \in [Call -> {Unmade} \cup [st : {"lazy", "sent", "done", "failed", "hung"}, op : Op,
                                       on : {0} \cup Ref, val : {0} \cup Ref \cup Value]]
  /\ chained \subseteq Call /\ closed \in BOOLEAN /\ released \subseteq Call
  /\ running \subseteq Call \X Value /\ silent \subseteq Call /\ writes \in Value
  /\ objectRefs \in [Ref -> {0} \cup Obj] /\ lastRef \in {0} \cup Ref
  /\ objects \in Obj /\ heap \in [Obj -> Value]
  /\ pendingCallbacks \subseteq {c \in Call : executed[c] > 0}
  /\ \A run \in running : run[1] \in pendingCallbacks
  /\ given \in [Call -> [obj : {0} \cup Obj, prop : Value]]
  /\ executed \in [Call -> Nat] /\ floor \in [Call -> Value] /\ computed \in [Call -> Nat]

RpcInit ==
  /\ calls = [c \in Call |-> Unmade] /\ chained = {} /\ closed = FALSE /\ released = {}
  /\ running = {} /\ writes = 0 /\ silent = {} /\ floor = [c \in Call |-> 0]
  /\ toServer = <<>> /\ toClient = <<>>
  /\ objectRefs = [r \in Ref |-> 0] /\ lastRef = 0
  /\ objects = 1 /\ heap = [o \in Obj |-> 0] /\ pendingCallbacks = {}
  /\ given = [c \in Call |-> [obj |-> 0, prop |-> 0]]
  /\ executed = [c \in Call |-> 0] /\ computed = [c \in Call |-> 0]

----------------------------------------------------------------------------
(* The client.  It holds the root and the objects its calls were answered. *)
Holds == {c \in Call : calls[c].st = "done" /\ calls[c].op \in {"make", "self"}}
Known == {0} \cup {calls[c].val : c \in Holds}
ObjOf(r) == IF r = 0 THEN 1 ELSE given[CHOOSE c \in Holds : calls[c].val = r].obj

(* apply and construct only make the request; nothing is sent yet.         *)
Apply(c) ==
  /\ calls[c] = Unmade
  /\ \E op \in Op, r \in Known : calls' = [calls EXCEPT ![c] = [st |-> "lazy", op |-> op, on |-> r, val |-> 0]]
  /\ UNCHANGED <<chained, closed, released, running, writes, floor, silent, server, toServer, toClient>>

NotYetSent(c) == calls[c].st = "lazy"

Dead == {calls[c].val : c \in released}
Writes(o) == {k \in 1..Len(toServer) :
                toServer[k].type = "set" /\ ObjOf(toServer[k].on) = o /\ toServer[k].on \notin Dead}
LatestSent(o) == IF Writes(o) = {} THEN heap[o]
                 ELSE toServer[CHOOSE k \in Writes(o) : \A j \in Writes(o) : j <= k].val

(* then, a property of the result, or a call of it: getResult sends the    *)
(* request if nobody has yet, and keeps the promise.                       *)
Await(c) ==
  /\ NotYetSent(c)
  /\ calls' = [calls EXCEPT ![c].st = "sent"]
  /\ toServer' = Append(toServer, [type |-> "request", id |-> c, op |-> calls[c].op, on |-> calls[c].on])
  /\ floor' = [floor EXCEPT ![c] = LatestSent(ObjOf(calls[c].on))]
  /\ chained' \in {chained, chained \cup {c}}
  /\ UNCHANGED <<closed, released, running, writes, silent, server, toClient>>

(* A raw RELEASE of a reference, its answer not waited for: the proxies    *)
(* never send one.                                                         *)
Release(c) ==
  /\ c \in Holds \ released /\ released' = released \cup {c}
  /\ toServer' = Append(toServer, [type |-> "release", on |-> calls[c].val])
  /\ UNCHANGED <<calls, chained, closed, running, writes, floor, silent, server, toClient>>

(* An assignment through a proxy: sent at once, its answer not waited for. *)
Assign ==
  /\ writes < MaxWrite /\ writes' = writes + 1
  /\ \E r \in Known : toServer' = Append(toServer, [type |-> "set", on |-> r, val |-> writes + 1])
  /\ UNCHANGED <<calls, chained, closed, released, running, floor, silent, server, toClient>>

(* close: every request that waits is rejected.                            *)
Close ==
  /\ ~closed /\ closed' = TRUE
  /\ calls' = [c \in Call |-> IF Pending(c) THEN [calls[c] EXCEPT !.st = "failed"] ELSE calls[c]]
  /\ UNCHANGED <<chained, released, running, writes, floor, silent, server, toServer, toClient>>

ByArrival(id, c) == Pending(c)                    \* defect: a response is for whoever waits
ById(id, c) == Pending(c) /\ c = id

(* A response settles the call of its id; awaiting a property of nothing   *)
(* never answers.                                                          *)
Settled(m, c) ==
  [calls[c] EXCEPT !.val = m.val,
                   !.st = IF ~m.ok THEN "failed" ELSE IF calls[c].op = "void" /\ c \in chained THEN "hung" ELSE "done"]

HandleResponse(m) ==
  /\ m.type = "response"
  /\ \/ \E c \in Call : ById(m.id, c) /\ calls' = [calls EXCEPT ![c] = Settled(m, c)]
     \/ (\A c \in Call : ~ById(m.id, c)) /\ UNCHANGED calls
  /\ UNCHANGED running

StartCallback(m) == m.type = "callback" /\ running' = running \cup {<<m.id, m.val>>} /\ UNCHANGED calls

ClientReceives ==
  /\ toClient # <<>> /\ toClient' = Tail(toClient)
  /\ HandleResponse(Head(toClient)) \/ StartCallback(Head(toClient))
  /\ UNCHANGED <<chained, closed, released, writes, floor, silent, server, toServer>>

(* A callback returns what it was handed, or throws; an error without a    *)
(* message reads as no error on the other side.                            *)
CallbackEnds(c) ==
  \E run \in running, how \in {"value", "error", "silent"} :
    /\ run[1] = c /\ running' = running \ {run}
    /\ toServer' = Append(toServer, [type |-> "callback_response", id |-> c, how |-> how, val |-> run[2]])
    /\ silent' = IF how = "silent" THEN silent \cup {c} ELSE silent
    /\ UNCHANGED <<calls, chained, closed, released, writes, floor, server, toClient>>

----------------------------------------------------------------------------
(* The server.  resolvePath from the root, or from a reference that is     *)
(* still in the table.                                                     *)
Resolved(r) == IF r = 0 THEN 1 ELSE objectRefs[r]

AnswerCall(c, ok, val) ==
  /\ toClient' = Append(toClient, [type |-> "response", id |-> c, ok |-> ok, val |-> val])
  /\ computed' = [computed EXCEPT ![c] = val]

CountedRef == Cardinality({r \in Ref : objectRefs[r] # 0}) + 1     \* defect: a released name is used again
FreshRef == lastRef + 1

(* storeObjectRef: a reference of its own for every answer, with the       *)
(* property as it is now.                                                  *)
StoreObjectRef(c, o) ==
  /\ objectRefs' = [objectRefs EXCEPT ![FreshRef] = o] /\ lastRef' = lastRef + 1
  /\ given' = [given EXCEPT ![c] = [obj |-> o, prop |-> heap[o]]]
  /\ AnswerCall(c, TRUE, FreshRef)

ReadAnswered(r) == IF r = 0 THEN 0 ELSE given[CHOOSE c \in Call : given[c].obj = objectRefs[r]].prop     \* defect: as it was handed out
Read(r) == heap[Resolved(r)]

NoRef == UNCHANGED <<objectRefs, lastRef, given>>

HandleConstruct(m) ==
  m.op = "make" /\ objects' = objects + 1 /\ StoreObjectRef(m.id, objects + 1) /\ UNCHANGED pendingCallbacks

CallbackKept(c) == pendingCallbacks \cup {c}

HandleApply(m) ==
  \/ m.op = "self" /\ StoreObjectRef(m.id, Resolved(m.on)) /\ UNCHANGED <<objects, pendingCallbacks>>
  \/ m.op = "read" /\ AnswerCall(m.id, TRUE, Read(m.on)) /\ NoRef /\ UNCHANGED <<objects, pendingCallbacks>>
  \/ m.op = "void" /\ AnswerCall(m.id, TRUE, 0) /\ NoRef /\ UNCHANGED <<objects, pendingCallbacks>>
  \/ /\ m.op = "via" /\ pendingCallbacks' = CallbackKept(m.id)
     /\ toClient' = Append(toClient, [type |-> "callback", id |-> m.id, val |-> Read(m.on)])
     /\ NoRef /\ UNCHANGED <<objects, computed>>

HandleRequest(m) ==
  /\ m.type = "request"
  /\ executed' = [executed EXCEPT ![m.id] = @ + 1]
  /\ \/ Resolved(m.on) # 0 /\ (HandleConstruct(m) \/ HandleApply(m))
     \/ Resolved(m.on) = 0 /\ AnswerCall(m.id, FALSE, 0) /\ NoRef /\ UNCHANGED <<objects, pendingCallbacks>>
  /\ UNCHANGED heap

HandleSet(m) ==
  /\ m.type = "set"
  /\ heap' = IF Resolved(m.on) = 0 THEN heap ELSE [heap EXCEPT ![Resolved(m.on)] = m.val]
  /\ NoRef /\ UNCHANGED <<toClient, objects, pendingCallbacks, executed, computed>>

HandleRelease(m) ==
  /\ m.type = "release" /\ objectRefs' = [objectRefs EXCEPT ![m.on] = 0]
  /\ UNCHANGED <<toClient, lastRef, objects, heap, pendingCallbacks, given, executed, computed>>

Reports(m) == m.how = "error"

HandleCallbackResponse(m) ==
  /\ m.type = "callback_response"
  /\ pendingCallbacks' = pendingCallbacks \ {m.id}
  /\ IF m.id \in pendingCallbacks /\ (m.how = "value" \/ Reports(m)) THEN AnswerCall(m.id, m.how = "value", m.val)
     ELSE UNCHANGED <<toClient, computed>>
  /\ NoRef /\ UNCHANGED <<objects, heap, executed>>

ServerReceives ==
  /\ toServer # <<>> /\ toServer' = Tail(toServer)
  /\ LET m == Head(toServer) IN HandleRequest(m) \/ HandleSet(m) \/ HandleRelease(m) \/ HandleCallbackResponse(m)
  /\ UNCHANGED client

RpcNext ==
  \/ \E c \in Call : Apply(c) \/ Await(c) \/ Release(c) \/ CallbackEnds(c)
  \/ Assign \/ Close \/ ClientReceives \/ ServerReceives

RpcFair == WF_rpcvars(ClientReceives) /\ WF_rpcvars(ServerReceives)
           /\ \A c \in Call : WF_rpcvars(CallbackEnds(c))
RpcSpec == RpcInit /\ [][RpcNext]_rpcvars
RpcFairSpec == RpcSpec /\ RpcFair

----------------------------------------------------------------------------
(* A call is answered with what the server computed for it, whatever the   *)
(* order in which callbacks delay the answers.                             *)
AnswersMatch == \A c \in Call : calls[c].st = "done" => calls[c].val = computed[c]

(* However often a call is awaited or chained from, the server carries it  *)
(* out at most once, and not at all before.                                *)
CarriedOutOnce ==
  \A c \in Call : executed[c] <= (IF calls[c].st \in {"none", "lazy"} THEN 0 ELSE 1)

(* A call awaited after an assignment to its object sees it, although the  *)
(* assignment is never waited for (nor answered, if the reference it goes  *)
(* through is released: such an assignment is lost).                       *)
ReadsOwnWrites == \A c \in Call : calls[c].op \in {"read", "via"} /\ calls[c].st = "done" => calls[c].val >= floor[c]

(* A reference the client holds leads to the object its call was answered, *)
(* or nowhere once it is released: never to another object.                *)
RefsLeadHome == \A c \in Holds : objectRefs[calls[c].val] \in {0, given[c].obj}

(* A call that was sent is settled, but for the two ways not to: its       *)
(* callback failed without a message, or a property of nothing is awaited. *)
CallsSettle == \A c \in Call : Pending(c) ~> calls[c].st \in {"done", "failed", "hung"} \/ c \in silent

(* A call is carried out once at most and answered with what was computed  *)
(* for it, sees the assignments made before it, and a reference never leads*)
(* to another object.                                                      *)
RpcSafe == RpcTypeOK /\ AnswersMatch /\ CarriedOutOnce /\ ReadsOwnWrites /\ RefsLeadHome
============================================================================
