----------------------------- MODULE OneBotApi -----------------------------
(***************************************************************************)
(* OneBot requests in NapCat: how the four transports take them            *)
(* (handleMessage of the websocket adapters, httpApiRequest), how an       *)
(* action checks and runs them (action/OneBotAction.ts), and how the       *)
(* download actions stream a file (action/stream) before they answer.      *)
(*                                                                         *)
(* Requests run concurrently.  A websocket server answers on the socket    *)
(* that asked; the websocket client answers on the connection it has by    *)
(* then, which may be a later one; http answers on the response it was     *)
(* handed, and with server-sent events streams to everybody who listens.   *)
(***************************************************************************)
EXTENDS Integers, Sequences

CONSTANTS
  Request,
  Asker,         \* sockets of the websocket server
  Chunks,         \* bound: chunks of a file
  MaxReconnect    \* bound: connections the websocket client makes after its first

ASSUME ApiAssumption == Chunks \in Nat \ {0} /\ MaxReconnect \in Nat

VARIABLES
  askers,     \* sockets of the server that are open
  link,       \* the websocket client's connection: its number, and whether it is open
  request,    \* where each request came from, what it asks and how far it is
  sent,       \* packets its action has sent: the file's description and its chunks
  gone,       \* http requests whose asker left
  got         \* what reached somebody in answer to each, in order

apivars == <<askers, link, request, sent, gone, got>>

Via == {"server", "client", "http", "sse"}
Rejected == {"garbage", "unknown", "invalid"}
Unasked == [st |-> "unasked", via |-> "http", from |-> 0, kind |-> "plain"]

Packet == [what : {"packet"}, n : 0..Chunks, at : {"home", "elsewhere", "events"}]
Final == [what : {"ok", "failed"}, n : -1..Chunks, at : {"home", "elsewhere"}]
IsFinal(p) == p.what # "packet"

(* Shapes; only a stream has sent packets.                                 *)
ApiTypeOK ==
  /\ askers \subseteq Asker /\ link \in [number : 0..MaxReconnect, up : BOOLEAN]
  /\ \A r \in Request :
       /\ request[r].st \in {"unasked", "running", "done"} /\ request[r].via \in Via
       /\ request[r].kind \in Rejected \cup {"plain", "stream"}
       /\ request[r].from \in Asker \cup 0..MaxReconnect
       /\ sent[r] > 0 => request[r].kind = "stream"
       /\ \A k \in 1..Len(got[r]) : got[r][k] \in Packet \cup Final
  /\ sent \in [Request -> 0..(Chunks + 1)] /\ gone \subseteq Request

ApiInit ==
  /\ askers = Asker /\ link = [number |-> 0, up |-> TRUE]
  /\ request = [r \in Request |-> Unasked]
  /\ sent = [r \in Request |-> 0] /\ gone = {} /\ got = [r \in Request |-> <<>>]

----------------------------------------------------------------------------
(* checkStateAndReply throws when the socket it has is not open; writing   *)
(* to an http response whose asker left goes unnoticed.                    *)
Reachable(r) ==
  CASE request[r].via = "server" -> request[r].from \in askers
    [] request[r].via = "client" -> link.up
    [] OTHER -> TRUE

Home(r) == IF request[r].via = "client" /\ request[r].from # link.number THEN "elsewhere" ELSE "home"

Told(r, p) == IF r \in gone THEN got[r] ELSE Append(got[r], p)

----------------------------------------------------------------------------
(* A request comes in.  What does not parse, names no action or fails the  *)
(* check of its parameters is answered at once, and runs nothing.  An http *)
(* body that does not parse never gets here.                               *)
Ask(r) ==
  /\ request[r] = Unasked
  /\ \E via \in Via, kind \in Rejected \cup {"plain", "stream"} :
     \E from \in CASE via = "server" -> askers
                   [] via = "client" -> IF link.up THEN {link.number} ELSE {}
                   [] OTHER -> {0} :
       /\ via \in {"http", "sse"} => kind # "garbage"
       /\ request' = [request EXCEPT ![r] =
            [st |-> IF kind \in Rejected THEN "done" ELSE "running", via |-> via, from |-> from, kind |-> kind]]
       /\ got' = IF kind \in Rejected
                 THEN [got EXCEPT ![r] = <<[what |-> "failed", n |-> -1, at |-> "home"]>>] ELSE got
  /\ UNCHANGED <<askers, link, sent, gone>>

NotEnded(r) == request                       \* defect: the action goes on after its failure was answered
Ended(r) == [request EXCEPT ![r].st = "done"]

(* A stream packet that cannot be sent ends the action with a failure,     *)
(* which cannot be told either.                                            *)
SameNumber(r) == 0                           \* defect: the index stays where it was
Index(r) == sent[r]

SendPacket(r) ==
  /\ request[r].st = "running" /\ request[r].kind = "stream" /\ sent[r] <= Chunks
  /\ \/ /\ Reachable(r) /\ sent' = [sent EXCEPT ![r] = @ + 1] /\ UNCHANGED request
        /\ got' = [got EXCEPT ![r] = IF request[r].via = "sse"
                     THEN Append(got[r], [what |-> "packet", n |-> Index(r), at |-> "events"])
                     ELSE Told(r, [what |-> "packet", n |-> Index(r), at |-> Home(r)])]
     \/ ~Reachable(r) /\ request' = [request EXCEPT ![r].st = "done"] /\ UNCHANGED <<sent, got>>
  /\ UNCHANGED <<askers, link, gone>>

(* The action returns: a stream with the number of its chunks.             *)
Answer(r) ==
  /\ request[r].st = "running" /\ (request[r].kind = "stream" => sent[r] > 0)
  /\ request' = [request EXCEPT ![r].st = "done"]
  /\ got' = IF Reachable(r) THEN [got EXCEPT ![r] = Told(r, [what |-> "ok", n |-> sent[r] - 1, at |-> Home(r)])] ELSE got
  /\ UNCHANGED <<askers, link, sent, gone>>

(* It throws: handle and websocketHandle turn that into a failure.         *)
Unanswered(r) == TRUE                        \* defect: a failure is only logged
AnswersFailure(r) == ~Reachable(r)

Fail(r) ==
  /\ request[r].st = "running" /\ request' = Ended(r)
  /\ got' = IF AnswersFailure(r) THEN got ELSE [got EXCEPT ![r] = Told(r, [what |-> "failed", n |-> -1, at |-> Home(r)])]
  /\ UNCHANGED <<askers, link, sent, gone>>

----------------------------------------------------------------------------
(* Sockets close, the client's connection is lost and made anew, an http   *)
(* asker leaves.                                                           *)
CloseSocket(c) == c \in askers /\ askers' = askers \ {c} /\ UNCHANGED <<link, request, sent, gone, got>>
LoseLink == link.up /\ link' = [link EXCEPT !.up = FALSE] /\ UNCHANGED <<askers, request, sent, gone, got>>
Reconnect ==
  /\ ~link.up /\ link.number < MaxReconnect /\ link' = [number |-> link.number + 1, up |-> TRUE]
  /\ UNCHANGED <<askers, request, sent, gone, got>>
Leave(r) ==
  /\ request[r].st = "running" /\ request[r].via \in {"http", "sse"} /\ r \notin gone /\ gone' = gone \cup {r}
  /\ UNCHANGED <<askers, link, request, sent, got>>

ApiNext ==
  \/ \E r \in Request : Ask(r) \/ SendPacket(r) \/ Answer(r) \/ Fail(r) \/ Leave(r)
  \/ \E c \in Asker : CloseSocket(c)
  \/ LoseLink \/ Reconnect

ApiFair == \A r \in Request : WF_apivars(SendPacket(r)) /\ WF_apivars(Answer(r) \/ Fail(r))
ApiSpec == ApiInit /\ [][ApiNext]_apivars
ApiFairSpec == ApiSpec /\ ApiFair

----------------------------------------------------------------------------
(* Nothing is sent in answer to a request after its final answer, and that *)
(* is sent once, however sockets close and connections are made anew while *)
(* the action runs.                                                        *)
FinalIsLast ==
  \A r \in Request : \A k \in 1..Len(got[r]) : IsFinal(got[r][k]) => k = Len(got[r]) /\ request[r].st = "done"

(* Whoever is told that a file is complete, and how many chunks it had,    *)
(* has been sent its description and exactly these chunks, in order,       *)
(* unless the asker is a websocket client's connection that was replaced.  *)
StreamIsWhole ==
  \A r \in Request :
    LET g == got[r] IN
    g # <<>> /\ request[r].kind = "stream" /\ g[Len(g)].what = "ok" /\ g[Len(g)].at = "home"
      /\ (\A k \in 1..Len(g) : g[k].at # "elsewhere")
    => /\ Len(g) = g[Len(g)].n + 2
       /\ \A k \in 1..(Len(g) - 1) : g[k].n = k - 1

Lost(r) == r \in gone \/ ~Reachable(r) \/ Home(r) # "home"

(* Every request that runs ends, and if its asker can be reached to the    *)
(* end it is answered.                                                     *)
EveryoneIsAnswered ==
  \A r \in Request : request[r].st = "running" ~> Lost(r) \/ (got[r] # <<>> /\ IsFinal(got[r][Len(got[r])]))

(* The final answer to a request is sent once and last, and a stream that  *)
(* ends well at its asker is whole and in order, over sockets that close   *)
(* and connections made anew.                                              *)
ApiSafe == ApiTypeOK /\ FinalIsLast /\ StreamIsWhole
============================================================================
