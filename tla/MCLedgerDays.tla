---------------------------- MODULE MCLedgerDays ----------------------------
(***************************************************************************)
(* The ledger over several days.  Each behaviour is about one of two       *)
(* users: one with two QQ numbers who binds and binds again, over two      *)
(* days, and one who invites the bot into two groups, over three.          *)
(***************************************************************************)
EXTENDS MCPointsLedger

VARIABLE part
daysvars == <<part, vars>>

Anyone ==
  \/ \E s \in Scenario, i \in Id : C2CMessage(s, i)
  \/ \E i \in Id : SignIn(i)
  \/ \E a \in Account, cost \in Costs : Spend(a, cost)
Binds ==
  \/ \E i \in Id, q \in QQ : BindQQ(i, q)
  \/ \E i \in Id : UnbindQQ(i)
  \/ today = 1 /\ NextDay
Invites ==
  \/ \E s \in Scenario, g \in Group, i \in Id : GroupMessage(s, g, i)
  \/ \E s \in Scenario, g \in Group : GroupAdd(s, g)
  \/ NextDay

DaysInit == part \in {"binds", "invites"} /\ Init
DaysNext ==
  /\ Anyone \/ (part = "binds" /\ Binds) \/ (part = "invites" /\ Invites)
  /\ UNCHANGED part
DaysSpec == DaysInit /\ [][DaysNext]_daysvars
=============================================================================
