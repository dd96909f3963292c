---------------------------- MODULE TurnExecution ---------------------------
(***************************************************************************)
(* One TurnPlan executed and reconciled through the watcher: turn_plan.py, *)
(* turn_executor.py and the client side of the control socket              *)
(* (watcher_client.py, turn_executor_adapter.py), composed with the        *)
(* watcher, the game and the human at the keyboard.  The commands are the  *)
(* positions of the plan: position i holds one order or, last, end_turn.   *)
(* A digest of a live state is the state itself: digests are only compared *)
(* for equality.                                                           *)
(***************************************************************************)
EXTENDS Watcher, Sequences

CONSTANTS Plan,       \* the actions of the plan
          MaxRuns     \* bound: invocations of execute and of reconcile

\* validate_turn_plan_structure.  The identifiers of a plan are unique: they are positions.
ValidPlan(p) ==
  p # <<>> /\ p[Len(p)] = EndTurn /\ \A i \in 1..Len(p) - 1 : p[i] \in Order

ASSUME PlanAssumption ==
  /\ Plan \in Seq(Act) /\ ValidPlan(Plan)
  /\ Command = DOMAIN Plan /\ MaxRuns \in Nat

VARIABLES
  phase,     \* control state of the executor
  slot,      \* the connection its request is on, or None
  plan,      \* the session, turn and state basis of the plan
  cursor,    \* the position being executed or reconciled
  basis,     \* the last verified live state
  steps,     \* one status for each executed position
  report,    \* the last execution report
  runs,      \* invocations so far
  applied    \* history: [Key -> the turn in which the game accepted the command]

executor == <<phase, slot, plan, cursor, basis, steps, report, runs>>
allVars == <<vars, executor, applied>>

Sending == {"toRead", "toAct", "toLook", "toConfirm"}
Receiving == {"reading", "acting", "looking", "confirming"}
Status == {"completed", "failed", "paused", "stale", "recovery_required"}
PlanHeader == [sess : Epoch, turn : 0..MaxTurn, basis : State]
Report == [status : Status, next : 0..Len(Plan)]

ExecutorTypeOK ==
  /\ phase \in Sending \cup Receiving \cup {"idle", "planned", "reported"}
  /\ slot \in Slot \cup {None}
  /\ plan \in PlanHeader \cup {None} /\ basis \in State \cup {None}
  /\ cursor \in 1..Len(Plan)
  /\ steps \in Seq({"success", "error"}) /\ Len(steps) <= Len(Plan)
  /\ report \in Report \cup {None}
  /\ runs \in 0..MaxRuns
  /\ applied \in [Key -> 0..MaxTurn \cup {None}]

ExecutorInit ==
  /\ phase = "idle" /\ slot = None /\ plan = None /\ basis = None /\ cursor = 1
  /\ steps = <<>> /\ report = None /\ runs = 0
  /\ applied = [k \in Key |-> None]

PlanKey(i) == <<plan.sess, i>>

-----------------------------------------------------------------------------
(* What the executor decides from a state, a result or a report.           *)

StateMismatch(sess, s) ==
  sess # plan.sess \/ s.turn # plan.turn \/ ~s.active \/ s # basis

UncoveredRequirement(s) == Requirements(s) \ {Plan[i] : i \in cursor..Len(Plan)} # {}

\* Mutant of PostconditionError: only end_turn is checked.
PostconditionOfEndTurn(s) == cursor = Len(Plan) /\ s.turn <= plan.turn

\* A successful action left the wrong turn: the last must pass it, the others keep it.
PostconditionError(s) ==
  IF cursor = Len(Plan) THEN s.turn <= plan.turn ELSE s.turn # plan.turn \/ ~s.active

\* validate_execution_report, which every report passes before it is returned.
ValidReport(st, r) ==
  LET ok == \A i \in DOMAIN st : st[i] = "success"
      n == Len(st) IN
  /\ n <= Len(Plan)
  /\ r.status = "completed" => ok /\ n = Len(Plan) /\ r.next = n
  /\ r.status = "failed" =>
       \/ n = 0 /\ r.next = 0
       \/ n > 0 /\ r.next = n - 1 /\ st[n] = "error" /\ \A i \in 1..n - 1 : st[i] = "success"
  /\ r.status \in {"paused", "stale", "recovery_required"} => ok /\ r.next = n

-----------------------------------------------------------------------------
(* Requests and answers.                                                   *)

Lost == [kind |-> "lost"]

\* The request goes out, or the socket cannot be reached.
SendRequest(from, to, op, sess) ==
  /\ phase = from /\ phase' = to
  /\ \/ \E t \in Slot : slot' = t /\ Connect(t, op, cursor, Plan[cursor], sess)
     \/ slot' = None /\ UNCHANGED vars
  /\ UNCHANGED <<plan, cursor, basis, steps, report, runs>>

\* The answer arrives; or none did in time, and what the request does is not known.
Receive(r) ==
  /\ slot' = None
  /\ \/ slot # None /\ pc[slot] = "answered" /\ r = reply[slot] /\ Hangup(slot)
     \/ slot = None /\ r = Lost /\ UNCHANGED vars
     \/ slot # None /\ pc[slot] # "answered" /\ r = Lost /\ UNCHANGED vars

\* What the client raises for the answer to a command: TransportError if it says, or leaves
\* open, that the outcome is unknown; ProtocolError if the watcher refused the request.
TransportError(r) == r.kind \in {"unknown", "lost"}
ProtocolError(r) == r.kind \in {"rejected", "internal"}

Answers == {Lost} \cup {reply[t] : t \in Slot}

Finished(status, next, st) ==
  /\ phase' = "reported" /\ report' = [status |-> status, next |-> next] /\ steps' = st
  /\ UNCHANGED <<plan, cursor, basis, runs>>

-----------------------------------------------------------------------------
(* The plan, and its execution.                                            *)

\* A planner read the state of the session, with the turn active, and made the plan.
MakePlan ==
  /\ phase = "idle" /\ main = "idle" /\ game.active
  /\ plan' = [sess |-> epoch, turn |-> game.turn, basis |-> game]
  /\ phase' = "planned"
  /\ UNCHANGED <<vars, slot, cursor, basis, steps, report, runs>>

\* execute: at first, or again with the same plan.
Execute ==
  /\ phase \in {"planned", "reported"} /\ runs < MaxRuns
  /\ phase' = "toRead" /\ cursor' = 1 /\ basis' = plan.basis /\ steps' = <<>> /\ report' = None
  /\ runs' = runs + 1
  /\ UNCHANGED <<vars, slot, plan>>

OnState(r) ==
  /\ phase = "reading" /\ Receive(r)
  /\ \/ r.kind # "state" /\ Finished("paused", cursor - 1, steps)
     \/ /\ r.kind = "state" /\ StateMismatch(r.sess, r.state)
        /\ Finished("stale", cursor - 1, steps)
     \/ /\ r.kind = "state" /\ ~StateMismatch(r.sess, r.state)
        /\ IF UncoveredRequirement(r.state)
           THEN Finished("paused", cursor - 1, steps)
           ELSE phase' = "toAct" /\ UNCHANGED <<plan, cursor, basis, steps, report, runs>>

\* Mutant of Failed: the failed step is left out of the report.
FailedWithoutStep == Finished("failed", cursor - 1, steps)

Failed == Finished("failed", cursor - 1, Append(steps, "error"))

\* A result is believed if its before-state is the basis, it succeeded, and the turn is right.
Advance(res) ==
  LET done == Append(steps, "success") IN
  \/ res.before # basis /\ Failed
  \/ res.before = basis /\ res.status = "error" /\ Failed
  \/ res.before = basis /\ res.status = "success" /\ PostconditionError(res.after) /\ Failed
  \/ /\ res.before = basis /\ res.status = "success" /\ ~PostconditionError(res.after)
     /\ IF cursor = Len(Plan) THEN Finished("completed", cursor, done)
        ELSE /\ phase' = "toRead" /\ cursor' = cursor + 1
             /\ steps' = done /\ basis' = res.after
             /\ UNCHANGED <<plan, report, runs>>

\* Mutant of OnResult: a lost answer is taken for a success.
OnResultGuessing(r) ==
  /\ phase = "acting" /\ Receive(r)
  /\ \/ r.kind = "lost" /\ Advance([status |-> "success", before |-> basis, after |-> game])
     \/ (ProtocolError(r) \/ r.kind = "unknown") /\ Failed
     \/ r.kind = "result" /\ Advance(r.res)

OnResult(r) ==
  /\ phase = "acting" /\ Receive(r)
  /\ \/ TransportError(r) /\ Finished("recovery_required", cursor - 1, steps)
     \/ ProtocolError(r) /\ Failed
     \/ r.kind = "result" /\ Advance(r.res)

-----------------------------------------------------------------------------
(* Reconciliation of an uncertain position.                                *)

Reconcile ==
  /\ phase = "reported" /\ report.status = "recovery_required" /\ runs < MaxRuns
  /\ phase' = "toLook" /\ runs' = runs + 1
  /\ UNCHANGED <<vars, slot, plan, cursor, basis, steps, report>>

\* Mutant of StillUncertain: the uncertain position is reported as a step.
StillUncertainStep == Finished("recovery_required", cursor - 1, Append(steps, "unknown"))

StillUncertain == Finished("recovery_required", cursor - 1, steps)

OnLookup(r) ==
  /\ phase = "looking" /\ Receive(r)
  /\ \/ (TransportError(r) \/ ProtocolError(r) \/ r.kind = "missing") /\ StillUncertain
     \/ /\ r.kind = "found"
        /\ \/ r.res.before # basis /\ StillUncertain
           \/ r.res.before = basis /\ r.res.status = "error" /\ Failed
           \/ /\ r.res.before = basis /\ r.res.status = "success"
              /\ IF PostconditionError(r.res.after) THEN StillUncertain
                 ELSE /\ phase' = "toConfirm" /\ basis' = r.res.after
                      /\ steps' = Append(steps, "success")
                      /\ UNCHANGED <<plan, cursor, report, runs>>

\* Fresh state must confirm the recovered result; only a recovered end_turn completes.
Unconfirmed(sess, s) ==
  sess # plan.sess \/ IF cursor = Len(Plan) THEN s.turn <= plan.turn ELSE s # basis

OnConfirmation(r) ==
  /\ phase = "confirming" /\ Receive(r)
  /\ \/ r.kind # "state" /\ Finished("paused", cursor, steps)
     \/ r.kind = "state" /\ Unconfirmed(r.sess, r.state) /\ Finished("stale", cursor, steps)
     \/ /\ r.kind = "state" /\ ~Unconfirmed(r.sess, r.state)
        /\ Finished(IF cursor = Len(Plan) THEN "completed" ELSE "paused", cursor, steps)

-----------------------------------------------------------------------------
Sends ==
  \/ SendRequest("toRead", "reading", "read", plan.sess)
  \/ SendRequest("toAct", "acting", "write", plan.sess)
  \/ SendRequest("toLook", "looking", "status", plan.sess)
  \/ SendRequest("toConfirm", "confirming", "read", plan.sess)

Receives == \E r \in Answers : OnState(r) \/ OnResult(r) \/ OnLookup(r) \/ OnConfirmation(r)

ExecutorSteps == MakePlan \/ Execute \/ Reconcile \/ Sends \/ Receives

\* A thread whose client left writes its answer to nobody.
AbandonedAnswer == \E t \in Slot \ {slot} : Hangup(t)

WatcherSteps ==
  /\ MainLoop \/ (\E t \in Slot : Handler(t)) \/ GameSteps \/ AbandonedAnswer
  /\ UNCHANGED executor

RecordApplied ==
  applied' = [k \in Key |-> IF accepted'[k] # accepted[k] THEN game.turn ELSE applied[k]]

ExecutionInit == Init /\ ExecutorInit
ExecutionNext == (ExecutorSteps \/ WatcherSteps) /\ RecordApplied
ExecutionSpec == ExecutionInit /\ [][ExecutionNext]_allVars

-----------------------------------------------------------------------------
(* Safety.                                                                 *)

Succeeded(i) ==
  LET c == completed[PlanKey(i)] IN
  c # None /\ c.act = Plan[i] /\ c.res.status = "success"

\* A completed report is true: the watcher recorded a success of every position, in
\* the plan's session, and the game left the plan's turn.
CompletedIsTrue ==
  phase = "reported" /\ report.status = "completed" =>
    game.turn > plan.turn /\ \A i \in 1..Len(Plan) : Succeeded(i)

\* Positions are sent strictly in order: whatever times out, is retried, abandoned in
\* the lock queue, reconciled or executed again, none is sent to the game before every
\* earlier one has succeeded.
SentInOrder ==
  plan # None =>
    \A i, j \in 1..Len(Plan) : i < j /\ writes[PlanKey(j)] > 0 => Succeeded(i)

TookEffectInPlanTurn(i) == applied[PlanKey(i)] \in {plan.turn, None}

\* An order reported a success took effect in the plan's turn, although the watcher
\* wrote it after the executor had read the turn and the human plays on.  end_turn is not
\* an order: neither its program nor its verification names a turn, so one that the
\* human's own overtakes ends the next turn.
OrdersInPlanTurn ==
  phase = "reported" =>
    \A i \in DOMAIN steps :
      steps[i] = "success" /\ i < Len(Plan) => TookEffectInPlanTurn(i)

\* No path builds a report that validate_execution_report would refuse: the executor
\* would end with an exception and no report at all.
ReportIsValid == phase = "reported" => ValidReport(steps, report)
=============================================================================
