--------------------------- MODULE MCPointsLedger ---------------------------
(***************************************************************************)
(* PointsLedger for TLC: one union user seen in two groups, two QQ         *)
(* numbers.                                                                *)
(***************************************************************************)
EXTENDS PointsLedger, TLC

CONSTANTS s1, s2, u1, q1, q2, g1, g2

MCUnionOf == [s \in Scenario |-> u1]
MCMember == {<<s, g>> \in Scenario \X Group : s = s1 \/ g = g2}

\* The bound of the identity run: the second day begins with no number bound
\* and nobody recognised, and ends with the first of these; MCLedgerDays goes
\* on for longer.
EarlyDays == today = 1 \/ (binds = [i \in Id |-> NoOne] /\ identity = [s \in Scenario |-> NoOne])
=============================================================================
