------------------------------- MODULE Inbox --------------------------------
(***************************************************************************)
(* What the NapCat bot promises about an incoming message: it is accepted  *)
(* at most once, and an accepted message is handled at most once or lost   *)
(* for good.  Nothing brings a handled or lost message back.               *)
(***************************************************************************)
CONSTANT Msg
VARIABLE status

Status == {"unseen", "waiting", "handled", "lost"}

Init == status = [m \in Msg |-> "unseen"]

Accept(m) == /\ status[m] = "unseen"
             /\ status' = [status EXCEPT ![m] = "waiting"]

\* The queue was full when the message came.
Refuse(m) == /\ status[m] = "unseen"
             /\ status' = [status EXCEPT ![m] = "lost"]

Handle(m) == /\ status[m] = "waiting"
             /\ status' = [status EXCEPT ![m] = "handled"]

\* A new connection empties the queue: every waiting message goes.
LoseAll == status' = [m \in Msg |-> IF status[m] = "waiting" THEN "lost" ELSE status[m]]

Next == LoseAll \/ \E m \in Msg : Accept(m) \/ Refuse(m) \/ Handle(m)

Spec == Init /\ [][Next]_status
=============================================================================
