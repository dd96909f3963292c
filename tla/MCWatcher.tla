------------------------------ MODULE MCWatcher -----------------------------
EXTENDS Watcher, TLC
Symmetric == Permutations(Slot) \cup Permutations(Command)
=============================================================================
