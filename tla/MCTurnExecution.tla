--------------------------- MODULE MCTurnExecution --------------------------
EXTENDS TurnExecution, TLC

CONSTANTS research, MaxAfterRestart

TwoActions == <<research, EndTurn>>
Positions == {1, 2}
Symmetric == Permutations(Slot)

\* Bound: the plan is one of the first session; the watcher is not restarted after more than
\* a few requests, and the second session does not end.
RestartsUnderThePlan ==
  epoch > 1 => /\ main \in {"idle", "reading"} /\ phase # "idle"
               /\ plan.sess = 1 /\ arrived <= MaxAfterRestart
=============================================================================
