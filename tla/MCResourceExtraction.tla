------------------------ MODULE MCResourceExtraction ------------------------
EXTENDS ResourceExtraction, TLC

MCCost == [f \in Feature |-> 1]
Symmetry == Permutations(Task) \cup Permutations(Chat)
=============================================================================
