----------------------------- MODULE LiveSession ----------------------------
(***************************************************************************)
(* The host while civ5-agent opens it for a live test and closes it again: *)
(* live_session.py (prepare, restore, harden, unharden) with the checks of *)
(* preflight.py.  A command first inspects the host and decides, in one    *)
(* action; then it takes one step at a time, each of which may fail, and   *)
(* may be interrupted between any two.  One command runs at a time; the    *)
(* operator starts and quits the game and the watcher, and changes the     *)
(* firewall settings by hand, only while none runs.  A command that        *)
(* refuses to start changes nothing and is not a step.                     *)
(***************************************************************************)
EXTENDS Integers

CONSTANTS MaxFault,    \* bound: how often anything goes wrong
          None

Guard == [firewall : BOOLEAN, rule : {"none", "allow", "block"}]
Config == {"off", "on", "torn"}
Record == [phase : {"begun", "done"}, base : Guard]

ASSUME LiveSessionAssumption ==
  /\ MaxFault \in Nat
  /\ None \notin BOOLEAN /\ None \notin {"off", "on", "torn", "none", "allow", "block"}
  /\ \A r \in Record : r # None

VARIABLES
  tuner,      \* EnableTuner in the configuration of the game
  guard,      \* the firewall and its rule for the game
  backup,     \* the copy of the configuration, or None
  session,    \* live-session.json, or None
  hardening,  \* host-hardening.json, or None
  cmd,        \* the command that runs
  step,       \* its next step
  base,       \* the baseline it holds in memory
  view,       \* what it saw of the guard before it restores
  outcome,    \* how the last command ended
  listening,  \* the game listens on port 4318
  watcher,    \* the socket of the watcher exists
  pristine,   \* history: the guard before any record was made
  blinded,    \* history: a rollback has acted on an inspection that failed
  drifted,    \* history: the guard was changed by hand since FireTuner was enabled
  faults      \* how often something went wrong

files == <<backup, session, hardening>>
memory == <<cmd, base, view>>
history == <<pristine, blinded, drifted>>
world == <<listening, watcher, history>>
vars == <<tuner, guard, files, memory, step, outcome, world, faults>>

View == [firewall : BOOLEAN \cup {None}, rule : {"none", "allow", "block", None}]

Guarding == {"add", "block", "checkRule", "firewall", "tuner", "check", "promote"}
Restoring == {"config", "readd", "mode", "refirewall"}
Step == {"idle", "backup", "record", "rollback", "verify", "forget", "forgetBackup"}
          \cup Guarding \cup Restoring

TypeOK ==
  /\ tuner \in Config /\ guard \in Guard
  /\ backup \in Config \cup {None}
  /\ session \in Record \cup {None} /\ hardening \in Record \cup {None}
  /\ cmd \in {"none", "prepare", "restore", "harden", "unharden"}
  /\ step \in Step /\ (step = "idle" <=> cmd = "none")
  /\ base \in Guard /\ view \in View
  /\ outcome \in {"none", "ok", "failed", "rolled_back"}
  /\ listening \in BOOLEAN /\ watcher \in BOOLEAN
  /\ pristine \in Guard /\ blinded \in BOOLEAN /\ drifted \in BOOLEAN
  /\ faults \in 0..MaxFault

Init ==
  /\ tuner = "off" /\ guard \in Guard /\ pristine = guard
  /\ backup = None /\ session = None /\ hardening = None
  /\ cmd = "none" /\ step = "idle" /\ base = guard /\ view = guard /\ outcome = "none"
  /\ listening = FALSE /\ watcher = FALSE /\ blinded = FALSE /\ drifted = FALSE
  /\ faults = 0

-----------------------------------------------------------------------------
(* The checks of preflight.py.                                             *)

Closed == ~listening /\ ~watcher
Guarded(g) == g.firewall = TRUE /\ g.rule = "block"

\* "hardened": the phase a recorded hardening must be in for prepare to go on.
IntactHardening ==
  hardening # None => hardening.phase = "done" /\ Guarded(guard) /\ tuner = "off" /\ Closed

Fault == faults < MaxFault /\ faults' = faults + 1

\* An inspection that fails leaves None in the fields it has not read.
Look(v) ==
  \/ v = guard /\ UNCHANGED faults
  \/ v \in {[guard EXCEPT !.rule = None], [firewall |-> None, rule |-> None]} /\ Fault

-----------------------------------------------------------------------------
(* Starting a command.                                                     *)

Begin(c, first, b) == step = "idle" /\ cmd' = c /\ step' = first /\ base' = b

\* _require_clean_start; a recorded session is already prepared, or refused.
Prepare ==
  /\ session = None /\ IntactHardening /\ tuner = "off" /\ Closed
  /\ Begin("prepare", "backup", guard)
  /\ UNCHANGED <<tuner, guard, files, view, outcome, world, faults>>

Harden ==
  /\ session = None /\ hardening = None /\ tuner = "off" /\ Closed
  /\ Begin("harden", "record", guard)
  /\ UNCHANGED <<tuner, guard, files, view, outcome, world, faults>>

\* restore asks for the port, the socket and the backup, not whether the inspection
\* failed.
Restore ==
  /\ session # None /\ backup # None /\ Closed
  /\ Begin("restore", "config", session.base) /\ Look(view')
  /\ UNCHANGED <<tuner, guard, files, outcome, world>>

\* Mutant of Unharden: an interrupted hardening is refused.
UnhardenCompleted ==
  /\ session = None /\ hardening # None /\ hardening.phase = "done" /\ tuner = "off" /\ Closed
  /\ Begin("unharden", "readd", hardening.base) /\ view' = guard
  /\ UNCHANGED <<tuner, guard, files, outcome, world, faults>>

\* _require_idle refuses an inspection with issues.
Unharden ==
  /\ session = None /\ hardening # None /\ tuner = "off" /\ Closed
  /\ Begin("unharden", "readd", hardening.base) /\ view' = guard
  /\ UNCHANGED <<tuner, guard, files, outcome, world, faults>>

-----------------------------------------------------------------------------
(* The steps of a command.                                                 *)

RollingBack == cmd \in {"prepare", "harden"}

End(o) == cmd' = "none" /\ step' = "idle" /\ outcome' = o

\* An exception: in the guarding steps prepare and harden roll back; a failing
\* rollback, and restore and unharden, end with their records kept.
Raise ==
  IF step \in Guarding THEN step' = "rollback" /\ UNCHANGED <<cmd, outcome>> ELSE End("failed")

\* sudo socketfilterfw: it succeeds, or fails with or without its effect.
Tool(g, next) ==
  \/ guard' = g /\ step' = next /\ UNCHANGED <<cmd, outcome, faults>>
  \/ guard' \in {guard, g} /\ Fault /\ Raise

Skip(next) == step' = next /\ UNCHANGED <<guard, cmd, outcome, faults>>

KeepFiles == UNCHANGED <<tuner, files, base, view, world>>

SaveBackup ==
  /\ step = "backup" /\ backup' = tuner /\ step' = "record"
  /\ UNCHANGED <<tuner, guard, session, hardening, memory, outcome, world, faults>>

\* Mutant of WriteRecord: the record is written when the guard is in place.
WriteRecordLate ==
  /\ step = "record" /\ step' = "add"
  /\ UNCHANGED <<tuner, guard, files, memory, outcome, world, faults>>

WriteRecord ==
  /\ step = "record" /\ step' = "add"
  /\ LET r == [phase |-> "begun", base |-> base] IN
     IF cmd = "prepare" THEN session' = r /\ UNCHANGED hardening
                        ELSE hardening' = r /\ UNCHANGED session
  /\ UNCHANGED <<tuner, guard, backup, memory, outcome, world, faults>>

\* A new rule may allow at first: --blockapp follows --add.
AddRule ==
  /\ step = "add" /\ KeepFiles
  /\ IF base.rule = "none"
     THEN \E r \in {"allow", "block"} : Tool([guard EXCEPT !.rule = r], "block")
     ELSE Skip("block")

BlockRule ==
  /\ step = "block" /\ KeepFiles
  /\ IF base.rule # "block" THEN Tool([guard EXCEPT !.rule = "block"], "checkRule")
                            ELSE Skip("checkRule")

CheckRule ==
  /\ step = "checkRule" /\ KeepFiles /\ UNCHANGED guard
  /\ \E v \in View :
       /\ Look(v)
       /\ IF v.rule = "block" THEN step' = "firewall" /\ UNCHANGED <<cmd, outcome>> ELSE Raise

FirewallOn ==
  /\ step = "firewall" /\ KeepFiles
  /\ LET next == IF cmd = "prepare" THEN "tuner" ELSE "check" IN
     IF ~base.firewall THEN Tool([guard EXCEPT !.firewall = TRUE], next) ELSE Skip(next)

\* _set_firetuner replaces the file; it may fail before or after that.
TunerOn ==
  /\ step = "tuner" /\ drifted' = FALSE
  /\ UNCHANGED <<guard, files, base, view, listening, watcher, pristine, blinded>>
  /\ \/ tuner' = "on" /\ step' = "check" /\ UNCHANGED <<cmd, outcome, faults>>
     \/ tuner' \in {tuner, "on"} /\ Fault /\ Raise

\* preflight "ready" or "hardened".
CheckGuard ==
  /\ step = "check" /\ KeepFiles /\ UNCHANGED guard
  /\ \E v \in View :
       /\ Look(v)
       /\ IF Guarded(v) THEN step' = "promote" /\ UNCHANGED <<cmd, outcome>>
                                     ELSE Raise

Promote ==
  /\ step = "promote" /\ UNCHANGED <<tuner, guard, backup, base, view, world>>
  /\ \/ /\ IF cmd = "prepare" THEN session' = [session EXCEPT !.phase = "done"] /\ UNCHANGED hardening
                              ELSE hardening' = [hardening EXCEPT !.phase = "done"] /\ UNCHANGED session
        /\ End("ok") /\ UNCHANGED faults
     \/ UNCHANGED <<session, hardening>> /\ Fault /\ Raise

\* Mutant of RollBack: the firewall is restored without the configuration.
RollBackGuardOnly ==
  /\ step = "rollback" /\ Look(view') /\ blinded' = (blinded \/ view' # guard)
  /\ step' = "readd"
  /\ UNCHANGED <<tuner, guard, files, cmd, base, outcome, listening, watcher, pristine, drifted>>

\* The rollback inspects the host and does not ask whether that failed.
RollBack ==
  /\ step = "rollback" /\ Look(view') /\ blinded' = (blinded \/ view' # guard)
  /\ step' = IF cmd = "prepare" THEN "config" ELSE "readd"
  /\ UNCHANGED <<tuner, guard, files, cmd, base, outcome, listening, watcher, pristine, drifted>>

RestoreConfig ==
  /\ step = "config" /\ UNCHANGED <<guard, files, base, view, world>>
  /\ \/ tuner' = backup /\ step' = "readd" /\ UNCHANGED <<cmd, outcome, faults>>
     \/ tuner' \in {tuner, "torn"} /\ Fault /\ Raise

ReAddRule ==
  /\ step = "readd" /\ KeepFiles
  /\ IF base.rule # "none" /\ view.rule \notin {"allow", "block"}
     THEN \E r \in {"allow", "block"} : Tool([guard EXCEPT !.rule = r], "mode")
     ELSE Skip("mode")

RuleMode ==
  /\ step = "mode" /\ KeepFiles
  /\ IF IF base.rule = "none" THEN view.rule \in {"allow", "block"} ELSE view.rule # base.rule
     THEN Tool([guard EXCEPT !.rule = base.rule], "refirewall")
     ELSE Skip("refirewall")

FirewallBack ==
  /\ step = "refirewall" /\ KeepFiles
  /\ LET next == IF RollingBack THEN "forget" ELSE "verify" IN
     IF view.firewall # base.firewall THEN Tool([guard EXCEPT !.firewall = base.firewall], next)
                                      ELSE Skip(next)

\* _verify_restored, on an inspection of the phase "shutdown".
Verify ==
  /\ step = "verify" /\ KeepFiles /\ UNCHANGED guard
  /\ \E v \in View :
       /\ Look(v)
       /\ IF v = base /\ tuner = "off" THEN step' = "forget" /\ UNCHANGED <<cmd, outcome>>
                                       ELSE Raise

Done == End(IF RollingBack THEN "rolled_back" ELSE "ok")

Forget ==
  /\ step = "forget"
  /\ IF cmd \in {"prepare", "restore"}
     THEN session' = None /\ step' = "forgetBackup" /\ UNCHANGED <<hardening, cmd, outcome>>
     ELSE hardening' = None /\ Done /\ UNCHANGED session
  /\ UNCHANGED <<tuner, guard, backup, base, view, world, faults>>

ForgetBackup ==
  /\ step = "forgetBackup" /\ backup' = None /\ Done
  /\ UNCHANGED <<tuner, guard, session, hardening, base, view, world, faults>>

\* Killed, Ctrl-C, or an exception outside the try blocks.  The copies are not atomic.
Interrupted ==
  /\ step # "idle" /\ Fault /\ End("failed")
  /\ IF step = "config" THEN tuner' \in {tuner, "torn"} ELSE UNCHANGED tuner
  /\ IF step = "backup" THEN backup' \in {backup, "torn"} ELSE UNCHANGED backup
  /\ UNCHANGED <<guard, session, hardening, base, view, world>>

-----------------------------------------------------------------------------
(* The operator, while no command runs.                                    *)

\* The game reads its configuration when it starts.
LaunchGame ==
  /\ step = "idle" /\ ~listening /\ tuner = "on" /\ listening' = TRUE
  /\ UNCHANGED <<tuner, guard, files, memory, step, outcome, watcher, history, faults>>

QuitGame ==
  /\ step = "idle" /\ listening /\ listening' = FALSE
  /\ UNCHANGED <<tuner, guard, files, memory, step, outcome, watcher, history, faults>>

\* The watcher serves only after preflight "live".
StartWatcher ==
  /\ step = "idle" /\ ~watcher /\ listening /\ tuner = "on" /\ Guarded(guard) /\ watcher' = TRUE
  /\ UNCHANGED <<tuner, guard, files, memory, step, outcome, listening, history, faults>>

StopWatcher ==
  /\ step = "idle" /\ watcher /\ watcher' = FALSE
  /\ UNCHANGED <<tuner, guard, files, memory, step, outcome, listening, history, faults>>

\* The settings are changed by hand; with no record, they are the new baseline.
Drift ==
  /\ step = "idle" /\ guard' \in Guard /\ drifted' = (tuner = "on")
  /\ pristine' = IF session = None /\ hardening = None THEN guard' ELSE pristine
  /\ UNCHANGED <<tuner, files, memory, step, outcome, listening, watcher, blinded, faults>>

-----------------------------------------------------------------------------
Commands == Prepare \/ Harden \/ Restore \/ Unharden

Guards ==
  \/ SaveBackup \/ WriteRecord \/ AddRule \/ BlockRule \/ CheckRule \/ FirewallOn
  \/ TunerOn \/ CheckGuard \/ Promote

Restores ==
  \/ RollBack \/ RestoreConfig \/ ReAddRule \/ RuleMode \/ FirewallBack \/ Verify
  \/ Forget \/ ForgetBackup

Operator == LaunchGame \/ QuitGame \/ StartWatcher \/ StopWatcher \/ Drift

\* The steps of an operator who only closes.
Closing == Restore \/ Unharden \/ Guards \/ Restores \/ Interrupted \/ QuitGame \/ StopWatcher

Next == Commands \/ Guards \/ Restores \/ Interrupted \/ Operator

Spec == Init /\ [][Next]_vars

\* A command runs on; an operator who wants the host back quits what is running, asks
\* for it again when that failed, and at some time opens nothing any more.
OperatorFairness ==
  /\ WF_vars(Guards \/ Restores)
  /\ WF_vars(QuitGame) /\ WF_vars(StopWatcher)
  /\ WF_vars(Restore) /\ WF_vars(Unharden)
  /\ <>[][Closing]_vars

FairSpec == Spec /\ OperatorFairness

-----------------------------------------------------------------------------
(* Safety.                                                                 *)

\* Whatever fails or is interrupted, and whatever is changed by hand meanwhile: as long
\* as the host may differ from what it was before civ5-agent touched it, a record holds
\* that baseline, and with no record left the host is back at it.  Only a rollback whose
\* inspection failed can break this.
Recoverable ==
  ~blinded =>
    /\ hardening # None => hardening.base = pristine
    /\ session # None => backup = "off" /\ (hardening = None => session.base = pristine)
    /\ step = "idle" /\ session = None =>
         tuner = "off" /\ (hardening = None => guard = pristine)

\* FireTuner, which takes commands from anyone on the network, is never enabled nor
\* the game listening on a host whose firewall does not block the game, at no
\* point of any command, rollback or recovery, unless it was opened by hand since.
NeverExposed == tuner = "on" \/ listening => Guarded(guard) \/ drifted

-----------------------------------------------------------------------------
(* The inductive invariant of the proofs.                                  *)

\* Which command can be at which step.
Placed ==
  /\ step \in {"backup", "tuner"} => cmd = "prepare"
  /\ step \in Guarding \cup {"record", "rollback"} => RollingBack
  /\ step \in {"config", "forgetBackup"} => cmd \in {"prepare", "restore"}
  /\ step = "verify" => cmd \in {"restore", "unharden"}

\* The record of the running command, and what it has not touched yet.
Held ==
  /\ step \in {"backup", "record"} => session = None /\ tuner = "off" /\ base = guard
  /\ step = "record" => (cmd = "prepare" => backup = "off") /\ (cmd = "harden" => hardening = None)
  /\ cmd \in {"prepare", "restore"} /\ step \notin {"backup", "record", "forgetBackup"} =>
       session # None /\ session.base = base
  /\ cmd \in {"harden", "unharden"} =>
       /\ session = None /\ tuner = "off"
       /\ step # "record" => hardening # None /\ hardening.base = base
  /\ step = "forgetBackup" => session = None
  /\ session # None => backup = "off"
  /\ step \in {"readd", "mode", "refirewall", "verify", "forget", "forgetBackup"} => tuner = "off"

\* The guard is on its way to what the command needs before FireTuner goes on.
Opening ==
  /\ listening => step = "idle" /\ tuner = "on"
  /\ tuner = "on" => step \in {"idle", "check", "promote", "rollback", "config"}
  /\ step \in Guarding /\ base.firewall => guard.firewall
  /\ step \in {"firewall", "tuner"} => guard.rule = "block"
  /\ step = "tuner" => guard.firewall

\* The guard is on its way back: restore and unharden look whether it is, a rollback
\* relies on the inspection it began with.
Returning ==
  ~blinded =>
    /\ RollingBack =>
         /\ step \in {"config", "readd"} => view = guard
         /\ step = "mode" => view.rule # None /\ (view.rule = base.rule => guard.rule = base.rule)
         /\ step \in {"mode", "refirewall"} => view.firewall = guard.firewall
         /\ step = "refirewall" => guard.rule = base.rule
    /\ step = "forget" => guard = base
    /\ step \in {"backup", "record", "forgetBackup"} /\ hardening = None => guard = pristine

IInv == TypeOK /\ Placed /\ Held /\ Opening /\ Returning /\ Recoverable /\ NeverExposed

(* Liveness.                                                               *)

\* No sequence of failures, interruptions, inspections that show nothing and changes by
\* hand leaves a record that the commands can never clear again, nor FireTuner on.
RecordsCleared == <>[](session = None /\ hardening = None /\ tuner = "off")
=============================================================================
