----------------------------- MODULE MCLiveState ----------------------------
EXTENDS LiveState, TLC

CONSTANTS here, there, farm, early, late, unit

Line == {<<here, there>>, <<there, here>>}
Turned == Permutations({here, there})
Grass == [p \in Plot |-> "grass"]
Tree == [t \in Tech |-> IF t = late THEN {early} ELSE {}]
=============================================================================
