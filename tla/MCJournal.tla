------------------------------ MODULE MCJournal -----------------------------
(* Model values and symmetry for the configurations of Journal.            *)
EXTENDS Journal, TLC

Symmetry == Permutations(Session)
=============================================================================
