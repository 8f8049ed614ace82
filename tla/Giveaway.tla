------------------------------ MODULE Giveaway ------------------------------
(***************************************************************************)
(* What a lottery of a group promises: its winners are drawn once, among   *)
(* those it admits and no more than its prizes, and from then on only they *)
(* are rewarded, in the order they were drawn, each once.  It may end at   *)
(* any time, and nobody is rewarded after that.                            *)
(***************************************************************************)
EXTENDS Integers, Sequences

CONSTANT Lottery    \* their numbers, in the order they are opened
VARIABLES
  terms,    \* of the lotteries opened: the prizes (count) and who is admitted (limits, {} for all)
  stage,    \* "none", "open", "drawing", "over"
  lineup,   \* the winners still to be rewarded
  rewarded  \* those that were

vars == <<terms, stage, lineup, rewarded>>

Init ==
  /\ terms = <<>> /\ stage = [n \in Lottery |-> "none"]
  /\ lineup = [n \in Lottery |-> <<>>] /\ rewarded = [n \in Lottery |-> <<>>]

\* The next lottery, which may replace another (old).
Open(n, old) ==
  /\ n = Len(terms) + 1 /\ stage[n] = "none"
  /\ Len(terms') = n /\ \A k \in 1..Len(terms) : terms'[k] = terms[k]
  /\ \A k \in old : stage[k] = "open"
  /\ stage' = [k \in Lottery |-> IF k = n THEN "open" ELSE IF k \in old THEN "over" ELSE stage[k]]
  /\ UNCHANGED <<lineup, rewarded>>

Admits(t, u) == t.limits = {} \/ u \in t.limits
Fair(t, winners) ==
  /\ Len(winners) <= t.count
  /\ \A i, j \in 1..Len(winners) : winners[i] = winners[j] => i = j
  /\ \A i \in 1..Len(winners) : Admits(t, winners[i])

\* The winners are drawn.
Draw(n) ==
  /\ stage[n] = "open" /\ stage' = [stage EXCEPT ![n] = "drawing"]
  /\ Fair(terms[n], lineup'[n]) /\ lineup' = [lineup EXCEPT ![n] = lineup'[n]]
  /\ UNCHANGED <<terms, rewarded>>

\* The next winner gets a reward, the last of which ends the lottery.
Reward(n) ==
  /\ stage[n] = "drawing" /\ lineup[n] # <<>>
  /\ rewarded' = [rewarded EXCEPT ![n] = Append(@, Head(lineup[n]))]
  /\ lineup' = [lineup EXCEPT ![n] = Tail(@)]
  /\ stage' = [stage EXCEPT ![n] = IF Tail(lineup[n]) = <<>> THEN "over" ELSE @]
  /\ UNCHANGED terms

\* Lotteries end, with whatever rewards are left.
End(ended) ==
  /\ \A n \in ended : stage[n] \in {"open", "drawing"}
  /\ stage' = [n \in Lottery |-> IF n \in ended THEN "over" ELSE stage[n]]
  /\ lineup' = [n \in Lottery |-> IF n \in ended THEN <<>> ELSE lineup[n]]
  /\ UNCHANGED <<terms, rewarded>>

Next ==
  \/ \E n \in Lottery : \E old \in {{}} \cup {{k} : k \in Lottery} : Open(n, old)
  \/ \E n \in Lottery : Draw(n) \/ Reward(n)
  \/ \E ended \in SUBSET Lottery : End(ended)

Spec == Init /\ [][Next]_vars
=============================================================================
