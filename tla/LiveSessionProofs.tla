------------------------- MODULE LiveSessionProofs --------------------------
(***************************************************************************)
(* Proofs about LiveSession: the inductive invariant, and what it gives:   *)
(* the host can always be brought back, and FireTuner is never exposed,    *)
(* however often anything goes wrong.  Each lemma is about one conjunct of *)
(* the invariant and has one case per action.                              *)
(***************************************************************************)
EXTENDS LiveSession, TLAPS

\* Every step keeps the types.
LEMMA TypeOKKept ==
  ASSUME TypeOK, Placed, Held, [Next]_vars
  PROVE TypeOK'
<1> USE LiveSessionAssumption DEF files, memory, world, history, TypeOK, Placed, Held,
                                  Step, Guarding, Restoring, Guard, Config, Record, View,
                                  RollingBack
<1>1. CASE Prepare
  BY <1>1 DEF Prepare, Begin
<1>2. CASE Harden
  BY <1>2 DEF Harden, Begin
<1>3. CASE Restore
  BY <1>3 DEF Restore, Begin, Look, Fault
<1>4. CASE Unharden
  BY <1>4 DEF Unharden, Begin
<1>5. CASE SaveBackup
  BY <1>5 DEF SaveBackup
<1>6. CASE WriteRecord
  BY <1>6 DEF WriteRecord
<1>7. CASE AddRule
  BY <1>7 DEF AddRule, KeepFiles, Tool, Skip, Fault, Raise
<1>8. CASE BlockRule
  BY <1>8 DEF BlockRule, KeepFiles, Tool, Skip, Fault, Raise
<1>9. CASE CheckRule
  BY <1>9 DEF CheckRule, KeepFiles, Look, Fault, Raise
<1>10. CASE FirewallOn
  <2>1. CASE base.firewall
    BY <1>10, <2>1 DEF FirewallOn, KeepFiles, Skip
  <2>2. CASE ~base.firewall
    <3>1. [guard EXCEPT !.firewall = TRUE] \in Guard
      OBVIOUS
    <3>2. guard' \in Guard
      BY <1>10, <2>2, <3>1, Zenon DEF FirewallOn, Tool
    <3>. QED
      BY <1>10, <2>2, <3>2 DEF FirewallOn, KeepFiles, Tool, Fault, Raise, End
  <2>. QED
    BY <2>1, <2>2
<1>11. CASE TunerOn
  <2>1. drifted' \in BOOLEAN
    BY <1>11, Zenon DEF TunerOn
  <2>. QED
    BY <1>11, <2>1 DEF TunerOn, Fault, Raise
<1>12. CASE CheckGuard
  BY <1>12 DEF CheckGuard, KeepFiles, Look, Fault, Raise
<1>13. CASE Promote
  BY <1>13 DEF Promote, Fault, Raise, End
<1>14. CASE RollBack
  BY <1>14 DEF RollBack, Look, Fault
<1>15. CASE RestoreConfig
  BY <1>15 DEF RestoreConfig, Fault, Raise, End
<1>16. CASE ReAddRule
  BY <1>16 DEF ReAddRule, KeepFiles, Tool, Skip, Fault, Raise, End
<1>17. CASE RuleMode
  BY <1>17 DEF RuleMode, KeepFiles, Tool, Skip, Fault, Raise, End
<1>18. CASE FirewallBack
  BY <1>18 DEF FirewallBack, KeepFiles, Tool, Skip, Fault, Raise, End
<1>19. CASE Verify
  BY <1>19 DEF Verify, KeepFiles, Look, Fault, Raise, End
<1>20. CASE Forget
  BY <1>20 DEF Forget, Done, End
<1>21. CASE ForgetBackup
  BY <1>21 DEF ForgetBackup, Done, End
<1>22. CASE Interrupted
  BY <1>22 DEF Interrupted, Fault, End
<1>23. CASE LaunchGame
  BY <1>23 DEF LaunchGame
<1>24. CASE QuitGame
  <2>1. listening' \in BOOLEAN
    BY <1>24, Zenon DEF QuitGame
  <2>. QED
    BY <1>24, <2>1 DEF QuitGame
<1>25. CASE StartWatcher
  BY <1>25 DEF StartWatcher
<1>26. CASE StopWatcher
  <2>1. watcher' \in BOOLEAN
    BY <1>26, Zenon DEF StopWatcher
  <2>. QED
    BY <1>26, <2>1 DEF StopWatcher
<1>27. CASE Drift
  BY <1>27 DEF Drift
<1>28. CASE UNCHANGED vars
  BY <1>28 DEF vars
<1>29. QED
  BY <1>1, <1>2, <1>3, <1>4, <1>5, <1>6, <1>7, <1>8, <1>9, <1>10, <1>11, <1>12, <1>13,
     <1>14, <1>15, <1>16, <1>17, <1>18, <1>19, <1>20, <1>21, <1>22, <1>23, <1>24, <1>25,
     <1>26, <1>27, <1>28 DEF Next, Commands, Guards, Restores, Operator

\* Every step leads to a step the running command can be at.
LEMMA PlacedKept ==
  ASSUME TypeOK, Placed, [Next]_vars
  PROVE Placed'
<1> USE LiveSessionAssumption DEF memory, TypeOK, Placed, Guarding, RollingBack
<1>1. CASE Prepare
  BY <1>1 DEF Prepare, Begin
<1>2. CASE Harden
  BY <1>2 DEF Harden, Begin
<1>3. CASE Restore
  BY <1>3 DEF Restore, Begin
<1>4. CASE Unharden
  BY <1>4 DEF Unharden, Begin
<1>5. CASE SaveBackup
  BY <1>5 DEF SaveBackup
<1>6. CASE WriteRecord
  BY <1>6 DEF WriteRecord
<1>7. CASE AddRule
  BY <1>7 DEF AddRule, Tool, Skip, Raise
<1>8. CASE BlockRule
  BY <1>8 DEF BlockRule, Tool, Skip, Raise
<1>9. CASE CheckRule
  BY <1>9 DEF CheckRule, Raise
<1>10. CASE FirewallOn
  BY <1>10 DEF FirewallOn, Tool, Skip, Raise
<1>11. CASE TunerOn
  BY <1>11 DEF TunerOn, Raise
<1>12. CASE CheckGuard
  BY <1>12 DEF CheckGuard, Raise
<1>13. CASE Promote
  BY <1>13 DEF Promote, Raise, End
<1>14. CASE RollBack
  BY <1>14 DEF RollBack
<1>15. CASE RestoreConfig
  BY <1>15 DEF RestoreConfig, Raise, End
<1>16. CASE ReAddRule
  BY <1>16 DEF ReAddRule, Tool, Skip, Raise, End
<1>17. CASE RuleMode
  BY <1>17 DEF RuleMode, Tool, Skip, Raise, End
<1>18. CASE FirewallBack
  BY <1>18 DEF FirewallBack, Tool, Skip, Raise, End
<1>19. CASE Verify
  BY <1>19 DEF Verify, Raise, End
<1>20. CASE Forget
  BY <1>20 DEF Forget, Done, End
<1>21. CASE ForgetBackup
  BY <1>21 DEF ForgetBackup, Done, End
<1>22. CASE Interrupted
  BY <1>22 DEF Interrupted, End
<1>23. CASE LaunchGame
  BY <1>23 DEF LaunchGame
<1>24. CASE QuitGame
  BY <1>24 DEF QuitGame
<1>25. CASE StartWatcher
  BY <1>25 DEF StartWatcher
<1>26. CASE StopWatcher
  BY <1>26 DEF StopWatcher
<1>27. CASE Drift
  BY <1>27 DEF Drift
<1>28. CASE UNCHANGED vars
  BY <1>28 DEF vars
<1>29. QED
  BY <1>1, <1>2, <1>3, <1>4, <1>5, <1>6, <1>7, <1>8, <1>9, <1>10, <1>11, <1>12, <1>13,
     <1>14, <1>15, <1>16, <1>17, <1>18, <1>19, <1>20, <1>21, <1>22, <1>23, <1>24, <1>25,
     <1>26, <1>27, <1>28 DEF Next, Commands, Guards, Restores, Operator

\* A command that runs holds the baseline of its record, and has not touched the host
\* before it made that record.
LEMMA HeldKept ==
  ASSUME TypeOK, Placed, Held, [Next]_vars
  PROVE Held'
<1> USE LiveSessionAssumption DEF files, memory, TypeOK, Placed, Held, Record, RollingBack
<1>1. CASE Prepare
  BY <1>1 DEF Prepare, Begin
<1>2. CASE Harden
  BY <1>2 DEF Harden, Begin
<1>3. CASE Restore
  BY <1>3 DEF Restore, Begin
<1>4. CASE Unharden
  BY <1>4 DEF Unharden, Begin
<1>5. CASE SaveBackup
  BY <1>5 DEF SaveBackup
<1>6. CASE WriteRecord
  BY <1>6 DEF WriteRecord
<1>7. CASE AddRule
  BY <1>7 DEF AddRule, KeepFiles, Tool, Skip, Raise, End
<1>8. CASE BlockRule
  BY <1>8 DEF BlockRule, KeepFiles, Tool, Skip, Raise, End
<1>9. CASE CheckRule
  BY <1>9 DEF CheckRule, KeepFiles, Raise, End
<1>10. CASE FirewallOn
  BY <1>10 DEF FirewallOn, KeepFiles, Tool, Skip, Raise, End
<1>11. CASE TunerOn
  BY <1>11 DEF TunerOn, Raise, End
<1>12. CASE CheckGuard
  BY <1>12 DEF CheckGuard, KeepFiles, Raise, End
<1>13. CASE Promote
  BY <1>13 DEF Promote, Raise, End
<1>14. CASE RollBack
  BY <1>14 DEF RollBack
<1>15. CASE RestoreConfig
  BY <1>15 DEF RestoreConfig, Raise, End
<1>16. CASE ReAddRule
  BY <1>16 DEF ReAddRule, KeepFiles, Tool, Skip, Raise, End
<1>17. CASE RuleMode
  BY <1>17 DEF RuleMode, KeepFiles, Tool, Skip, Raise, End
<1>18. CASE FirewallBack
  BY <1>18 DEF FirewallBack, KeepFiles, Tool, Skip, Raise, End
<1>19. CASE Verify
  BY <1>19 DEF Verify, KeepFiles, Raise, End
<1>20. CASE Forget
  BY <1>20 DEF Forget, Done, End
<1>21. CASE ForgetBackup
  BY <1>21 DEF ForgetBackup, Done, End
<1>22. CASE Interrupted
  BY <1>22 DEF Interrupted, End
<1>23. CASE LaunchGame
  BY <1>23 DEF LaunchGame
<1>24. CASE QuitGame
  BY <1>24 DEF QuitGame
<1>25. CASE StartWatcher
  BY <1>25 DEF StartWatcher
<1>26. CASE StopWatcher
  BY <1>26 DEF StopWatcher
<1>27. CASE Drift
  BY <1>27 DEF Drift
<1>28. CASE UNCHANGED vars
  BY <1>28 DEF vars
<1>29. QED
  BY <1>1, <1>2, <1>3, <1>4, <1>5, <1>6, <1>7, <1>8, <1>9, <1>10, <1>11, <1>12, <1>13,
     <1>14, <1>15, <1>16, <1>17, <1>18, <1>19, <1>20, <1>21, <1>22, <1>23, <1>24, <1>25,
     <1>26, <1>27, <1>28 DEF Next, Commands, Guards, Restores, Operator

\* The guard is in place before FireTuner is enabled, whatever fails (the order of
\* live_session.py 93-107).
LEMMA OpeningKept ==
  ASSUME TypeOK, Placed, Held, Opening, [Next]_vars
  PROVE Opening'
<1> USE LiveSessionAssumption DEF memory, world, TypeOK, Placed, Held, Opening, Guarding,
                                  Guard, RollingBack
<1>1. CASE Prepare
  BY <1>1 DEF Prepare, Begin
<1>2. CASE Harden
  BY <1>2 DEF Harden, Begin
<1>3. CASE Restore
  BY <1>3 DEF Restore, Begin, Closed
<1>4. CASE Unharden
  BY <1>4 DEF Unharden, Begin
<1>5. CASE SaveBackup
  BY <1>5 DEF SaveBackup
<1>6. CASE WriteRecord
  BY <1>6 DEF WriteRecord
<1>7. CASE AddRule
  BY <1>7 DEF AddRule, KeepFiles, Tool, Skip, Raise
<1>8. CASE BlockRule
  BY <1>8 DEF BlockRule, KeepFiles, Tool, Skip, Raise
<1>9. CASE CheckRule
  BY <1>9 DEF CheckRule, KeepFiles, Look, Raise
<1>10. CASE FirewallOn
  BY <1>10 DEF FirewallOn, KeepFiles, Tool, Skip, Raise
<1>11. CASE TunerOn
  BY <1>11 DEF TunerOn, Raise
<1>12. CASE CheckGuard
  BY <1>12 DEF CheckGuard, KeepFiles, Raise
<1>13. CASE Promote
  BY <1>13 DEF Promote, Raise, End
<1>14. CASE RollBack
  BY <1>14 DEF RollBack
<1>15. CASE RestoreConfig
  BY <1>15 DEF RestoreConfig, Raise, End
<1>16. CASE ReAddRule
  BY <1>16 DEF ReAddRule, KeepFiles, Tool, Skip, Raise, End
<1>17. CASE RuleMode
  BY <1>17 DEF RuleMode, KeepFiles, Tool, Skip, Raise, End
<1>18. CASE FirewallBack
  BY <1>18 DEF FirewallBack, KeepFiles, Tool, Skip, Raise, End
<1>19. CASE Verify
  BY <1>19 DEF Verify, KeepFiles, Raise, End
<1>20. CASE Forget
  BY <1>20 DEF Forget, Done, End
<1>21. CASE ForgetBackup
  BY <1>21 DEF ForgetBackup, Done, End
<1>22. CASE Interrupted
  BY <1>22 DEF Interrupted, End
<1>23. CASE LaunchGame
  BY <1>23 DEF LaunchGame
<1>24. CASE QuitGame
  BY <1>24 DEF QuitGame
<1>25. CASE StartWatcher
  BY <1>25 DEF StartWatcher
<1>26. CASE StopWatcher
  BY <1>26 DEF StopWatcher
<1>27. CASE Drift
  BY <1>27 DEF Drift
<1>28. CASE UNCHANGED vars
  BY <1>28 DEF vars
<1>29. QED
  BY <1>1, <1>2, <1>3, <1>4, <1>5, <1>6, <1>7, <1>8, <1>9, <1>10, <1>11, <1>12, <1>13,
     <1>14, <1>15, <1>16, <1>17, <1>18, <1>19, <1>20, <1>21, <1>22, <1>23, <1>24, <1>25,
     <1>26, <1>27, <1>28 DEF Next, Commands, Guards, Restores, Operator

\* The restoring steps bring the guard back to the baseline, wherever they start: restore
\* and unharden verify that, a rollback needs an inspection that shows what is there
\* (live_session.py 339-378).
LEMMA ReturningKept ==
  ASSUME TypeOK, Placed, Held, Returning, Recoverable, [Next]_vars
  PROVE Returning'
<1> USE LiveSessionAssumption DEF files, memory, world, history, TypeOK, Placed, Held,
                                  Returning, Recoverable, RollingBack, Guarding, Guard,
                                  View
<1>1. CASE Prepare
  BY <1>1 DEF Prepare, Begin
<1>2. CASE Harden
  BY <1>2 DEF Harden, Begin
<1>3. CASE Restore
  BY <1>3 DEF Restore, Begin, Look, Fault
<1>4. CASE Unharden
  BY <1>4 DEF Unharden, Begin
<1>5. CASE SaveBackup
  BY <1>5 DEF SaveBackup
<1>6. CASE WriteRecord
  BY <1>6 DEF WriteRecord
<1>7. CASE AddRule
  BY <1>7 DEF AddRule, Tool, Skip, Raise, End
<1>8. CASE BlockRule
  BY <1>8 DEF BlockRule, Tool, Skip, Raise, End
<1>9. CASE CheckRule
  BY <1>9 DEF CheckRule, Raise, End
<1>10. CASE FirewallOn
  BY <1>10 DEF FirewallOn, Tool, Skip, Raise, End
<1>11. CASE TunerOn
  BY <1>11 DEF TunerOn, Raise, End
<1>12. CASE CheckGuard
  BY <1>12 DEF CheckGuard, Raise, End
<1>13. CASE Promote
  BY <1>13 DEF Promote, Raise, End
<1>14. CASE RollBack
  BY <1>14 DEF RollBack, Look, Fault
<1>15. CASE RestoreConfig
  BY <1>15 DEF RestoreConfig, Raise, End
<1>16. CASE ReAddRule
  BY <1>16 DEF ReAddRule, KeepFiles, Tool, Skip, Raise, End
<1>17. CASE RuleMode
  BY <1>17 DEF RuleMode, KeepFiles, Tool, Skip, Raise, End
<1>18. CASE FirewallBack
  BY <1>18 DEF FirewallBack, KeepFiles, Tool, Skip, Raise, End
<1>19. CASE Verify
  <2>1. PICK v \in View :
          /\ Look(v)
          /\ IF v = base /\ tuner = "off" THEN step' = "forget" /\ UNCHANGED <<cmd, outcome>>
                                          ELSE Raise
    BY <1>19 DEF Verify
  <2>2. v.rule # None \/ v # base
    OBVIOUS
  <2>3. CASE v = base /\ tuner = "off"
    <3>1. guard = base /\ step' = "forget"
      BY <2>1, <2>2, <2>3 DEF Look
    <3>. QED
      BY <1>19, <3>1 DEF Verify, KeepFiles
  <2>4. CASE ~(v = base /\ tuner = "off")
    BY <1>19, <2>1, <2>4 DEF Verify, KeepFiles, Raise, End
  <2>. QED
    BY <2>3, <2>4
<1>20. CASE Forget
  BY <1>20 DEF Forget, Done, End
<1>21. CASE ForgetBackup
  BY <1>21 DEF ForgetBackup, Done, End
<1>22. CASE Interrupted
  BY <1>22 DEF Interrupted, End
<1>23. CASE LaunchGame
  BY <1>23 DEF LaunchGame
<1>24. CASE QuitGame
  BY <1>24 DEF QuitGame
<1>25. CASE StartWatcher
  BY <1>25 DEF StartWatcher
<1>26. CASE StopWatcher
  BY <1>26 DEF StopWatcher
<1>27. CASE Drift
  BY <1>27 DEF Drift
<1>28. CASE UNCHANGED vars
  BY <1>28 DEF vars
<1>29. QED
  BY <1>1, <1>2, <1>3, <1>4, <1>5, <1>6, <1>7, <1>8, <1>9, <1>10, <1>11, <1>12, <1>13,
     <1>14, <1>15, <1>16, <1>17, <1>18, <1>19, <1>20, <1>21, <1>22, <1>23, <1>24, <1>25,
     <1>26, <1>27, <1>28 DEF Next, Commands, Guards, Restores, Operator

\* With the guard on its way back, no step loses the baseline.
LEMMA RecoverableKept ==
  ASSUME TypeOK, Placed, Held, Returning, Recoverable, [Next]_vars
  PROVE Recoverable'
<1> USE LiveSessionAssumption DEF files, world, history, TypeOK, Placed, Held, Returning,
                                  Recoverable, Guarding, Guard, Record, RollingBack
<1>1. CASE Prepare
  BY <1>1 DEF Prepare
<1>2. CASE Harden
  BY <1>2 DEF Harden
<1>3. CASE Restore
  BY <1>3 DEF Restore
<1>4. CASE Unharden
  BY <1>4 DEF Unharden
<1>5. CASE SaveBackup
  BY <1>5 DEF SaveBackup
<1>6. CASE WriteRecord
  BY <1>6 DEF WriteRecord
<1>7. CASE AddRule
  BY <1>7 DEF AddRule, KeepFiles
<1>8. CASE BlockRule
  BY <1>8 DEF BlockRule, KeepFiles
<1>9. CASE CheckRule
  BY <1>9 DEF CheckRule, KeepFiles
<1>10. CASE FirewallOn
  BY <1>10 DEF FirewallOn, KeepFiles
<1>11. CASE TunerOn
  BY <1>11 DEF TunerOn
<1>12. CASE CheckGuard
  BY <1>12 DEF CheckGuard, KeepFiles
<1>13. CASE Promote
  BY <1>13 DEF Promote
<1>14. CASE RollBack
  BY <1>14 DEF RollBack
<1>15. CASE RestoreConfig
  BY <1>15 DEF RestoreConfig
<1>16. CASE ReAddRule
  BY <1>16 DEF ReAddRule, KeepFiles
<1>17. CASE RuleMode
  BY <1>17 DEF RuleMode, KeepFiles
<1>18. CASE FirewallBack
  BY <1>18 DEF FirewallBack, KeepFiles
<1>19. CASE Verify
  BY <1>19 DEF Verify, KeepFiles
<1>20. CASE Forget
  BY <1>20 DEF Forget
<1>21. CASE ForgetBackup
  BY <1>21 DEF ForgetBackup
<1>22. CASE Interrupted
  BY <1>22 DEF Interrupted
<1>23. CASE LaunchGame
  BY <1>23 DEF LaunchGame
<1>24. CASE QuitGame
  BY <1>24 DEF QuitGame
<1>25. CASE StartWatcher
  BY <1>25 DEF StartWatcher
<1>26. CASE StopWatcher
  BY <1>26 DEF StopWatcher
<1>27. CASE Drift
  BY <1>27 DEF Drift
<1>28. CASE UNCHANGED vars
  BY <1>28 DEF vars
<1>29. QED
  BY <1>1, <1>2, <1>3, <1>4, <1>5, <1>6, <1>7, <1>8, <1>9, <1>10, <1>11, <1>12, <1>13,
     <1>14, <1>15, <1>16, <1>17, <1>18, <1>19, <1>20, <1>21, <1>22, <1>23, <1>24, <1>25,
     <1>26, <1>27, <1>28 DEF Next, Commands, Guards, Restores, Operator

\* Without changes by hand, no step exposes FireTuner.
LEMMA NeverExposedKept ==
  ASSUME Placed, Held, Opening, NeverExposed, [Next]_vars
  PROVE NeverExposed'
<1> USE LiveSessionAssumption DEF world, history, Placed, Held, Opening, NeverExposed,
                                  Guarded
<1>1. CASE Prepare
  BY <1>1 DEF Prepare
<1>2. CASE Harden
  BY <1>2 DEF Harden
<1>3. CASE Restore
  BY <1>3 DEF Restore
<1>4. CASE Unharden
  BY <1>4 DEF Unharden
<1>5. CASE SaveBackup
  BY <1>5 DEF SaveBackup
<1>6. CASE WriteRecord
  BY <1>6 DEF WriteRecord
<1>7. CASE AddRule
  BY <1>7 DEF AddRule, KeepFiles
<1>8. CASE BlockRule
  BY <1>8 DEF BlockRule, KeepFiles
<1>9. CASE CheckRule
  BY <1>9 DEF CheckRule, KeepFiles
<1>10. CASE FirewallOn
  BY <1>10 DEF FirewallOn, KeepFiles
<1>11. CASE TunerOn
  BY <1>11 DEF TunerOn
<1>12. CASE CheckGuard
  BY <1>12 DEF CheckGuard, KeepFiles
<1>13. CASE Promote
  BY <1>13 DEF Promote
<1>14. CASE RollBack
  BY <1>14 DEF RollBack
<1>15. CASE RestoreConfig
  BY <1>15 DEF RestoreConfig
<1>16. CASE ReAddRule
  BY <1>16 DEF ReAddRule, KeepFiles
<1>17. CASE RuleMode
  BY <1>17 DEF RuleMode, KeepFiles
<1>18. CASE FirewallBack
  BY <1>18 DEF FirewallBack, KeepFiles
<1>19. CASE Verify
  BY <1>19 DEF Verify, KeepFiles
<1>20. CASE Forget
  BY <1>20 DEF Forget
<1>21. CASE ForgetBackup
  BY <1>21 DEF ForgetBackup
<1>22. CASE Interrupted
  BY <1>22 DEF Interrupted
<1>23. CASE LaunchGame
  BY <1>23 DEF LaunchGame
<1>24. CASE QuitGame
  BY <1>24 DEF QuitGame
<1>25. CASE StartWatcher
  BY <1>25 DEF StartWatcher
<1>26. CASE StopWatcher
  BY <1>26 DEF StopWatcher
<1>27. CASE Drift
  BY <1>27 DEF Drift
<1>28. CASE UNCHANGED vars
  BY <1>28 DEF vars
<1>29. QED
  BY <1>1, <1>2, <1>3, <1>4, <1>5, <1>6, <1>7, <1>8, <1>9, <1>10, <1>11, <1>12, <1>13,
     <1>14, <1>15, <1>16, <1>17, <1>18, <1>19, <1>20, <1>21, <1>22, <1>23, <1>24, <1>25,
     <1>26, <1>27, <1>28 DEF Next, Commands, Guards, Restores, Operator

-----------------------------------------------------------------------------
\* The inductive invariant of the host (LiveSession!IInv).
THEOREM Invariant == Spec => []IInv
<1>1. Init => IInv
  <2> SUFFICES ASSUME Init PROVE IInv
    OBVIOUS
  <2>1. TypeOK
    <3>1. listening \in BOOLEAN /\ watcher \in BOOLEAN /\ blinded \in BOOLEAN /\ drifted \in BOOLEAN
      BY Zenon DEF Init
    <3>. QED
      BY <3>1, LiveSessionAssumption DEF Init, TypeOK, Config, Step, View, Guard
  <2>2. Placed /\ Held /\ Opening
    BY LiveSessionAssumption DEF Init, Placed, Held, Opening, Guarding, Restoring, RollingBack
  <2>3. Returning /\ Recoverable /\ NeverExposed
    BY DEF Init, Returning, Recoverable, NeverExposed
  <2>. QED
    BY <2>1, <2>2, <2>3 DEF IInv
<1>2. IInv /\ [Next]_vars => IInv'
  <2> SUFFICES ASSUME IInv, [Next]_vars PROVE IInv'
    OBVIOUS
  <2>1. TypeOK /\ Placed /\ Held /\ Opening /\ Returning /\ Recoverable /\ NeverExposed
    BY DEF IInv
  <2>2. TypeOK' /\ Placed' /\ Held' /\ Opening'
    BY <2>1, TypeOKKept, PlacedKept, HeldKept, OpeningKept
  <2>3. Returning' /\ Recoverable' /\ NeverExposed'
    BY <2>1, ReturningKept, RecoverableKept, NeverExposedKept
  <2>. QED
    BY <2>2, <2>3 DEF IInv
<1>. QED
  BY <1>1, <1>2, PTL DEF Spec

\* Whatever command fails or is interrupted, at whatever step and however often, and
\* whatever is changed by hand meanwhile: while the host may differ from what it was,
\* a record holds its baseline, and with no record left it is back at it, until a
\* rollback acts on an inspection that failed (LiveSession!Recoverable).
THEOREM HostRecoverable == Spec => []Recoverable
<1>1. IInv => Recoverable
  BY DEF IInv
<1>. QED
  BY <1>1, Invariant, PTL

\* FireTuner is enabled, and the game listens, only behind the firewall, at every point
\* of every command, failure and recovery, inspections that fail included, unless the
\* operator has opened the firewall by hand since (LiveSession!NeverExposed).
THEOREM FireTunerGuarded == Spec => []NeverExposed
<1>1. IInv => NeverExposed
  BY DEF IInv
<1>. QED
  BY <1>1, Invariant, PTL

\* The types hold in every reachable state.
THEOREM TypeCorrect == Spec => []TypeOK
<1>1. IInv => TypeOK
  BY DEF IInv
<1>. QED
  BY <1>1, Invariant, PTL
=============================================================================
