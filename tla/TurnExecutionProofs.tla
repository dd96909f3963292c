------------------------- MODULE TurnExecutionProofs ------------------------
(***************************************************************************)
(* Proofs about the executor and the watcher together, for a plan of any   *)
(* length and any number of slots, requests, invocations, sessions and     *)
(* restarts: positions are sent in order, a completed report is true, and  *)
(* every report is valid.  The inductive invariant says of every request,  *)
(* also of those that were given up, that it is for a position whose       *)
(* predecessors had succeeded.  First come the effects of a step of the    *)
(* watcher, then the steps of the executor.                                *)
(***************************************************************************)
EXTENDS TurnExecution, WatcherProofs

USE DEF caches, history, KeyOf, Settled

-----------------------------------------------------------------------------
(* The inductive invariant.                                                *)

\* Past the session check.
Past == {"waiting"} \cup Holding

HasResult(t) == pc[t] = "answered" /\ reply[t].kind \in {"result", "found"}

\* A request past the session check, or answered with a result, is in its own session.
Admitted(t) == (pc[t] \in Past /\ job[t].op # "read") \/ HasResult(t)

\* A write is for a position of the plan, and every earlier position has succeeded.
RequestOfPlan(t) ==
  /\ job[t] \in Job
  /\ job[t].op = "write" =>
       /\ job[t].sess = plan.sess /\ job[t].act = Plan[job[t].cmd]
       /\ \A i \in 1..job[t].cmd - 1 : Succeeded(i)
  /\ Admitted(t) => job[t].sess = job[t].epoch

Requests == \A t \in Slot : pc[t] # "idle" => RequestOfPlan(t)

\* The connection the executor waits on carries the request of its position.
OwnRequest ==
  phase \in Receiving /\ slot # None =>
    /\ slot \in Slot /\ pc[slot] # "idle"
    /\ job[slot].cmd = cursor /\ job[slot].act = Plan[cursor] /\ job[slot].sess = plan.sess

\* Before the plan is made there are no requests.
Unplanned ==
  phase = "idle" => plan = None /\ (\A t \in Slot : pc[t] = "idle") /\ \A k \in Key : writes[k] = 0

Planned == phase # "idle" => plan \in PlanHeader

\* Every position before the cursor has succeeded; so has one that is being confirmed.
Earlier == phase \notin {"idle", "planned"} => \A i \in 1..cursor - 1 : Succeeded(i)
Recovered == phase \in {"toConfirm", "confirming"} => Succeeded(cursor)

\* Nothing that was read is ahead of the game.
TurnsPast ==
  /\ \A t \in Slot : pc[t] \in Holding => seen[t].before.turn <= game.turn /\ seen[t].after.turn <= game.turn
  /\ \A k \in Key : completed[k] # None => completed[k].res.after.turn <= game.turn
  /\ \A t \in Slot : pc[t] = "answered" /\ reply[t].kind = "state" => reply[t].state.turn <= game.turn

\* The steps so far, in every phase.
StepsOfPhase ==
  /\ phase \in Sending \cup Receiving =>
       /\ Len(steps) = IF phase \in {"toConfirm", "confirming"} THEN cursor ELSE cursor - 1
       /\ \A i \in DOMAIN steps : steps[i] = "success"
  /\ phase = "reported" =>
       /\ report \in Report /\ ValidReport(steps, report)
       /\ report.status = "recovery_required" => Len(steps) = cursor - 1

WatcherInv == IInv /\ VerdictInv /\ TurnsPast

PlanInv ==
  /\ ExecutorTypeOK /\ Planned /\ Unplanned /\ Requests /\ OwnRequest
  /\ Earlier /\ Recovered /\ SentInOrder /\ CompletedIsTrue /\ StepsOfPhase

ExecutionInv == WatcherInv /\ PlanInv

-----------------------------------------------------------------------------
(* What a step of the watcher, of the game or of a thread's end does.      *)

\* Verdicts stay, only a thread about to submit writes, and a request gets past the
\* session check only in its own session.
WatcherEffect ==
  /\ \A k \in Key : completed[k] # None => completed'[k] = completed[k]
  /\ \A k \in Key : writes'[k] # writes[k] => \E t \in Slot : pc[t] = "ready" /\ k = KeyOf(t)
  /\ \A t \in Slot : pc'[t] # "idle" =>
       /\ pc[t] # "idle" /\ job'[t] = job[t]
       /\ Admitted(t)' => Admitted(t) \/ job[t].sess = job[t].epoch

\* The effect of a thread, on itself and on the others.
LEMMA ThreadEffect ==
  ASSUME IInv, NEW t \in Slot, job' = job, pc[t] # "idle", NEW x,
         pc' = [pc EXCEPT ![t] = x], \A u \in Slot \ {t} : reply'[u] = reply[u],
         Admitted(t)' => Admitted(t) \/ job[t].sess = job[t].epoch,
         \A k \in Key : completed[k] # None => completed'[k] = completed[k],
         \A k \in Key : writes'[k] # writes[k] => pc[t] = "ready" /\ k = KeyOf(t)
  PROVE  WatcherEffect
<1>1. \A u \in Slot \ {t} : pc'[u] = pc[u]
  BY DEF IInv, TypeOK
<1>2. \A u \in Slot \ {t} : Admitted(u)' => Admitted(u)
  BY <1>1 DEF Admitted, HasResult
<1>3. QED BY <1>1, <1>2 DEF WatcherEffect

\* A thread that leaves the caches and the counters alone, and answers no result.
LEMMA PlainThreadEffect ==
  ASSUME IInv, NEW t \in Slot, pc[t] \in Busy, NEW x,
         UNCHANGED <<job, completed, writes>>,
         \/ /\ pc' = [pc EXCEPT ![t] = x] /\ reply' = reply /\ x # "answered"
            /\ x \in Past /\ job[t].op # "read" =>
                 (pc[t] \in Past /\ job[t].op # "read") \/ job[t].sess = job[t].epoch
         \/ Answer(t, x) /\ x.kind \notin {"result", "found"}
  PROVE  WatcherEffect
<1>1. pc[t] # "idle"
  BY DEF Busy, Holding
<1>2. CASE pc' = [pc EXCEPT ![t] = x] /\ reply' = reply /\ x # "answered"
  <2>1. pc'[t] = x
    BY <1>2 DEF IInv, TypeOK
  <2>2. CASE Answer(t, x) /\ x.kind \notin {"result", "found"}
    <3>1. pc'[t] = "answered"
      BY <2>2 DEF Answer, IInv, TypeOK
    <3>2. QED BY <1>2, <2>1, <3>1
  <2>3. CASE x \in Past /\ job[t].op # "read" =>
               (pc[t] \in Past /\ job[t].op # "read") \/ job[t].sess = job[t].epoch
    <3>1. Admitted(t)' => Admitted(t) \/ job[t].sess = job[t].epoch
      BY <1>2, <2>1, <2>3 DEF Admitted, HasResult
    <3>2. QED BY <1>1, <1>2, <3>1, ThreadEffect
  <2>4. QED BY <2>2, <2>3
<1>3. CASE Answer(t, x) /\ x.kind \notin {"result", "found"}
  <2>1. pc'[t] = "answered" /\ reply'[t] = x /\ \A u \in Slot \ {t} : reply'[u] = reply[u]
    BY <1>3 DEF Answer, IInv, TypeOK
  <2>2. ~Admitted(t)'
    BY <1>3, <2>1 DEF Admitted, HasResult, Past, Holding
  <2>3. QED BY <1>1, <1>3, <2>1, <2>2, ThreadEffect DEF Answer
<1>4. QED BY <1>2, <1>3

\* A terminal result is given to a key without a verdict.
LEMMA FinishEffect ==
  ASSUME IInv, NEW t \in Slot, pc[t] \in Holding, NEW status, NEW after, Finish(t, status, after)
  PROVE  WatcherEffect
<1>1. pc[t] # "idle" /\ pc[t] \in Past
  BY DEF Holding, Past
<1>2. KeyOf(t) \in Key /\ completed[KeyOf(t)] = None /\ job[t].op = "write"
  BY Executing
<1>3. \A k \in Key : completed[k] # None => completed'[k] = completed[k]
  BY <1>2 DEF Finish, IInv, TypeOK
<1>4. Admitted(t)
  BY <1>1, <1>2 DEF Admitted
<1>5. \A u \in Slot \ {t} : reply'[u] = reply[u]
  BY DEF Finish, Answer, IInv, TypeOK
<1>6. QED BY <1>1, <1>3, <1>4, <1>5, ThreadEffect DEF Finish, Answer

\* A thread before and at the lock.
LEMMA EnterEffect ==
  ASSUME IInv, NEW t \in Slot, Admit(t) \/ Enter(t)
  PROVE  WatcherEffect
<1>1. pc[t] \in Busy /\ UNCHANGED <<job, completed, writes>>
  BY DEF Admit, Enter, ReadState, Lookup, Replay, Begin, LockFree, Busy
<1>2. CASE Admit(t)
  <2>1. CASE Answer(t, [kind |-> "rejected"])
    BY <1>1, <2>1, PlainThreadEffect
  <2>2. CASE /\ pc' = [pc EXCEPT ![t] = "waiting"] /\ reply' = reply
             /\ job[t].op # "read" => job[t].sess = job[t].epoch
    BY <1>1, <2>2, PlainThreadEffect
  <2>3. QED BY <1>2, <2>1, <2>2 DEF Admit
<1>3. CASE ReadState(t)
  <2>1. PICK r : Answer(t, r) /\ r.kind \in {"state", "rejected", "internal"}
    BY <1>3 DEF ReadState
  <2>2. QED BY <1>1, <2>1, PlainThreadEffect
<1>4. CASE Lookup(t) \/ Replay(t)
  <2>1. pc[t] = "waiting" /\ job[t].op # "read"
    BY <1>4 DEF Lookup, Replay, LockFree
  <2>2. Admitted(t) /\ pc[t] # "idle"
    BY <2>1 DEF Admitted, Past
  <2>3. PICK r : Answer(t, r)
    BY <1>4 DEF Lookup, Replay
  <2>4. \A u \in Slot \ {t} : reply'[u] = reply[u]
    BY <2>3 DEF Answer, IInv, TypeOK
  <2>5. QED BY <1>1, <2>2, <2>3, <2>4, ThreadEffect DEF Answer
<1>5. CASE Begin(t)
  <2>1. pc[t] \in Past
    BY <1>5 DEF Begin, LockFree, Past
  <2>2. CASE Answer(t, [kind |-> "internal"])
    BY <1>1, <2>2, PlainThreadEffect
  <2>3. CASE pc' = [pc EXCEPT ![t] = "before"] /\ reply' = reply
    BY <1>1, <2>1, <2>3, PlainThreadEffect
  <2>4. QED BY <1>5, <2>2, <2>3 DEF Begin
<1>6. QED BY <1>2, <1>3, <1>4, <1>5 DEF Enter

\* A thread that executes a command.
LEMMA ExecutingEffect ==
  ASSUME IInv, NEW t \in Slot,
         Progress(t) \/ Poll(t) \/ RejectInvalid(t) \/ OutcomeUnknown(t)
  PROVE  WatcherEffect
<1>1. CASE Submit(t)
  <2>1. pc[t] = "ready" /\ pc[t] \in Holding /\ pc[t] # "idle"
    BY <1>1 DEF Submit, Holding
  <2>2. job[t].op = "write"
    BY <2>1, Executing
  <2>3. Admitted(t)
    BY <2>1, <2>2 DEF Admitted, Past
  <2>4. \A k \in Key : writes'[k] # writes[k] => k = KeyOf(t)
    BY <1>1 DEF Submit, IInv, TypeOK
  <2>5. QED BY <1>1, <2>1, <2>3, <2>4, ThreadEffect DEF Submit
<1>2. CASE ReadBefore(t)
  <2>1. pc[t] \in Busy /\ pc[t] \in Past
    BY <1>2 DEF ReadBefore, Busy, Holding, Past
  <2>2. QED BY <1>2, <2>1, PlainThreadEffect DEF ReadBefore
<1>3. CASE \E status, after : pc[t] \in Holding /\ Finish(t, status, after)
  BY <1>3, FinishEffect
<1>4. CASE RejectInvalid(t) \/ OutcomeUnknown(t) \/ RuntimeFailure(t)
  <2>1. PICK x \in {"rejected", "unknown", "internal"} : Answer(t, [kind |-> x])
    BY <1>4 DEF RejectInvalid, OutcomeUnknown, RuntimeFailure
  <2>2. pc[t] \in Busy /\ UNCHANGED <<job, completed, writes>>
    BY <1>4 DEF RejectInvalid, OutcomeUnknown, RuntimeFailure, Busy, Holding
  <2>3. QED BY <2>1, <2>2, PlainThreadEffect
<1>5. CASE TakeResponse(t)
  <2>1. pc[t] \in Holding /\ pc[t] \in Busy /\ pc[t] \in Past
    BY <1>5 DEF TakeResponse, Holding, Busy, Past
  <2>2. CASE pc' = [pc EXCEPT ![t] = "polling"] /\ UNCHANGED <<job, reply, caches, history>>
    BY <2>1, <2>2, PlainThreadEffect
  <2>3. QED BY <1>5, <1>3, <2>1, <2>2 DEF TakeResponse
<1>6. CASE Poll(t)
  <2>1. pc[t] = "polling" /\ pc[t] \in Holding /\ pc[t] \in Busy /\ pc[t] \in Past
    BY <1>6 DEF Poll, Holding, Busy, Past
  <2>2. CASE UNCHANGED <<pc, job, reply, caches, history>>
    <3>1. pc' = [pc EXCEPT ![t] = "polling"]
      BY <2>1, <2>2 DEF IInv, TypeOK
    <3>2. QED BY <2>1, <2>2, <3>1, PlainThreadEffect
  <2>3. QED BY <1>6, <1>3, <2>1, <2>2 DEF Poll
<1>7. CASE AnswerLocally(t) \/ VerifyTimeout(t)
  <2>1. pc[t] \in Holding
    BY <1>7 DEF AnswerLocally, VerifyTimeout, Holding
  <2>2. QED BY <1>3, <1>7, <2>1 DEF AnswerLocally, VerifyTimeout
<1>8. QED BY <1>1, <1>2, <1>4, <1>5, <1>6, <1>7 DEF Progress, ResponseTimeout

\* The main loop, the game and the end of a thread.
LEMMA SurroundingsEffect ==
  ASSUME IInv, MainLoop \/ GameSteps \/ (\E t \in Slot : Hangup(t)) \/ UNCHANGED vars
  PROVE  WatcherEffect
<1>1. UNCHANGED <<completed, writes>>
  BY DEF MainLoop, OpenSession, RefuseUnsafe, MainLock, MainRead, MainLeave, StopServing,
         CloseTuner, ProcessEnds, Restart, GameSteps, RunProgram, LoseProgram, GameMoves,
         Hangup, vars
<1>2. CASE UNCHANGED <<pc, job, reply>>
  BY <1>1, <1>2 DEF WatcherEffect, Admitted, HasResult
<1>3. CASE ProcessEnds
  <2>1. job' = job /\ \A t \in Slot :
          IF pc[t] \in Busy THEN pc'[t] = "answered" /\ reply'[t].kind = "lost"
                            ELSE pc'[t] = pc[t] /\ reply'[t] = reply[t]
    BY <1>3 DEF ProcessEnds
  <2>2. \A t \in Slot : Admitted(t)' => Admitted(t)
    BY <2>1 DEF Admitted, HasResult, Past, Holding
  <2>3. QED BY <1>1, <2>1, <2>2 DEF WatcherEffect, Busy, Holding
<1>4. CASE \E t \in Slot : Hangup(t)
  <2>1. PICK t \in Slot : Hangup(t)
    BY <1>4
  <2>2. pc'[t] = "idle" /\ \A u \in Slot \ {t} : pc'[u] = pc[u] /\ job'[u] = job[u] /\ reply'[u] = reply[u]
    BY <2>1 DEF Hangup, IInv, TypeOK
  <2>3. \A u \in Slot \ {t} : Admitted(u)' => Admitted(u)
    BY <2>2 DEF Admitted, HasResult
  <2>4. QED BY <1>1, <2>2, <2>3 DEF WatcherEffect
<1>5. QED
  BY <1>2, <1>3, <1>4
  DEF MainLoop, OpenSession, RefuseUnsafe, MainLock, MainRead, MainLeave, StopServing,
      CloseTuner, Restart, GameSteps, RunProgram, LoseProgram, GameMoves, vars

-----------------------------------------------------------------------------
(* Nothing that was read is ahead of the game.                             *)

\* The game never goes back to an earlier turn.
LEMMA TurnsGrow ==
  ASSUME IInv, GameSteps
  PROVE  game.turn <= game'.turn
<1>1. game \in State /\ game' \in State
  BY NextInv DEF IInv, TypeOK, Next
<1>2. game.turn \in Int /\ game'.turn \in Int
  BY <1>1 DEF State
<1>3. CASE \E k \in Key, a \in Act : RunProgram(k, a) \/ LoseProgram(k, a)
  <2>1. PICK k \in Key, a \in Act : game' = game \/ game' = Effect(a, game)
    BY <1>3 DEF RunProgram, LoseProgram
  <2>2. Effect(a, game).turn = game.turn
    BY <1>1 DEF Effect, State
  <2>3. QED BY <1>2, <2>1, <2>2
<1>4. CASE GameMoves
  <2>1. CASE game' \in Drift(game)
    <3>1. \A d : [game EXCEPT !.done = d].turn = game.turn
      BY <1>1 DEF State
    <3>2. Effect(EndTurn, game).turn = game.turn
      BY <1>1 DEF Effect, State
    <3>3. game'.turn = game.turn
      BY <2>1, <3>1, <3>2 DEF Drift
    <3>4. QED BY <1>2, <3>3
  <2>2. CASE game' \in NextTurn(game)
    <3>1. game'.turn = game.turn + 1
      BY <2>2 DEF NextTurn
    <3>2. QED BY <1>2, <3>1
  <2>3. QED BY <1>4, <2>1, <2>2 DEF GameMoves
<1>5. QED BY <1>3, <1>4 DEF GameSteps

\* While the game stands still: what a thread has seen, cached or answered since is of now.
LEMMA TurnsPastKept ==
  ASSUME IInv, TurnsPast, game' = game,
         \A u \in Slot : pc'[u] \in Holding =>
           \/ pc[u] \in Holding /\ seen'[u] = seen[u]
           \/ seen'[u].before.turn <= game.turn /\ seen'[u].after.turn <= game.turn,
         \A k \in Key : completed'[k] # None =>
           completed'[k] = completed[k] \/ completed'[k].res.after.turn <= game.turn,
         \A u \in Slot : pc'[u] = "answered" /\ reply'[u].kind = "state" =>
           (pc[u] = "answered" /\ reply'[u] = reply[u]) \/ reply'[u].state.turn <= game.turn
  PROVE  TurnsPast'
<1>1. \A k \in Key : completed'[k] # None => completed'[k].res.after.turn <= game.turn
  BY DEF TurnsPast
<1>2. QED BY <1>1 DEF TurnsPast

\* A thread that leaves caches and states alone.
LEMMA TurnsPastPlain ==
  ASSUME IInv, TurnsPast, NEW t \in Slot, UNCHANGED <<game, completed>>, NEW x,
         \/ /\ pc' = [pc EXCEPT ![t] = x] /\ UNCHANGED <<reply, seen>>
            /\ x # "answered" /\ (x \in Holding => pc[t] \in Holding)
         \/ Answer(t, x) /\ x.kind # "state" /\ \A u \in Slot \ {t} : seen'[u] = seen[u]
  PROVE  TurnsPast'
<1>1. CASE /\ pc' = [pc EXCEPT ![t] = x] /\ UNCHANGED <<reply, seen>>
           /\ x # "answered" /\ (x \in Holding => pc[t] \in Holding)
  <2>1. pc'[t] = x /\ \A u \in Slot \ {t} : pc'[u] = pc[u]
    BY <1>1 DEF IInv, TypeOK
  <2>2. QED BY <1>1, <2>1, TurnsPastKept
<1>2. CASE Answer(t, x) /\ x.kind # "state" /\ \A u \in Slot \ {t} : seen'[u] = seen[u]
  <2>1. /\ pc'[t] = "answered" /\ reply'[t] = x
        /\ \A u \in Slot \ {t} : pc'[u] = pc[u] /\ reply'[u] = reply[u]
    BY <1>2 DEF Answer, IInv, TypeOK
  <2>2. \A u \in Slot : pc'[u] \in Holding => pc[u] \in Holding /\ seen'[u] = seen[u]
    BY <1>2, <2>1 DEF Holding
  <2>3. \A u \in Slot : pc'[u] = "answered" /\ reply'[u].kind = "state" =>
          pc[u] = "answered" /\ reply'[u] = reply[u]
    BY <1>2, <2>1
  <2>4. QED BY <2>2, <2>3, TurnsPastKept
<1>3. QED BY <1>1, <1>2

\* A result is recorded with a state that is not ahead of the game.
LEMMA TurnsPastFinish ==
  ASSUME IInv, TurnsPast, NEW t \in Slot, pc[t] \in Holding, NEW status, NEW after,
         Finish(t, status, after), after.turn <= game.turn
  PROVE  TurnsPast'
<1> DEFINE res == [status |-> status, before |-> seen[t].before, after |-> after]
           e == [act |-> job[t].act, res |-> res]
<1>1. /\ completed' = [completed EXCEPT ![KeyOf(t)] = e] /\ game' = game
      /\ Answer(t, [kind |-> "result", res |-> res])
  BY DEF Finish
<1>2. e.res.after = after
  OBVIOUS
<1>3. \A k \in Key : completed'[k] = completed[k] \/ completed'[k].res.after.turn <= game.turn
  <2> HIDE DEF e
  <2>1. QED BY <1>1, <1>2, Executing DEF IInv, TypeOK
<1>4. /\ pc'[t] = "answered" /\ reply'[t].kind = "result"
      /\ \A u \in Slot \ {t} : pc'[u] = pc[u] /\ reply'[u] = reply[u] /\ seen'[u] = seen[u]
  BY <1>1 DEF Finish, Answer, Unlock, IInv, TypeOK
<1>5. \A u \in Slot : pc'[u] \in Holding => pc[u] \in Holding /\ seen'[u] = seen[u]
  BY <1>4 DEF Holding
<1>6. \A u \in Slot : pc'[u] = "answered" /\ reply'[u].kind = "state" =>
        pc[u] = "answered" /\ reply'[u] = reply[u]
  BY <1>4
<1>7. QED BY <1>1, <1>3, <1>5, <1>6, TurnsPastKept

\* A thread reads the state of the game.
LEMMA TurnsPastReads ==
  ASSUME IInv, TurnsPast, NEW t \in Slot, ReadState(t) \/ Begin(t) \/ ReadBefore(t) \/ Poll(t)
  PROVE  TurnsPast'
<1>1. game.turn <= game.turn /\ game' = game /\ game \in State
  BY DEF ReadState, Begin, ReadBefore, Poll, Finish, IInv, TypeOK, State
<1>2. CASE ReadState(t)
  <2>1. PICK r : Answer(t, r) /\ (r.kind = "state" => r.state = game)
    BY <1>2 DEF ReadState
  <2>2. /\ pc'[t] = "answered" /\ reply'[t] = r /\ UNCHANGED <<seen, completed>>
        /\ \A u \in Slot \ {t} : pc'[u] = pc[u] /\ reply'[u] = reply[u]
    BY <1>2, <2>1 DEF ReadState, Answer, IInv, TypeOK
  <2>3. \A u \in Slot : pc'[u] \in Holding => pc[u] \in Holding /\ seen'[u] = seen[u]
    BY <2>2 DEF Holding
  <2>4. \A u \in Slot : pc'[u] = "answered" /\ reply'[u].kind = "state" =>
          (pc[u] = "answered" /\ reply'[u] = reply[u]) \/ reply'[u].state.turn <= game.turn
    BY <1>1, <2>1, <2>2
  <2>5. QED BY <1>1, <2>2, <2>3, <2>4, TurnsPastKept
<1>3. CASE Begin(t) /\ Answer(t, [kind |-> "internal"]) /\ seen' = seen
  BY <1>1, <1>3, TurnsPastPlain DEF Begin
<1>4. ASSUME NEW s \in Seen, s.after = game,
             s.before = game \/ (s.before = seen[t].before /\ pc[t] \in Holding),
             seen' = [seen EXCEPT ![t] = s], UNCHANGED <<reply, completed>>,
             NEW x \in Holding, pc' = [pc EXCEPT ![t] = x]
      PROVE  TurnsPast'
  <2>1. /\ pc'[t] = x /\ seen'[t] = s
        /\ \A u \in Slot \ {t} : pc'[u] = pc[u] /\ seen'[u] = seen[u]
    BY <1>4 DEF IInv, TypeOK
  <2>2. s.before.turn <= game.turn /\ s.after.turn <= game.turn
    BY <1>1, <1>4 DEF TurnsPast
  <2>3. \A u \in Slot : pc'[u] = "answered" => pc[u] = "answered"
    BY <1>4, <2>1 DEF Holding
  <2>4. QED BY <1>1, <1>4, <2>1, <2>2, <2>3, TurnsPastKept
<1>5. CASE Begin(t) /\ ~(Answer(t, [kind |-> "internal"]) /\ seen' = seen)
  <2>1. PICK noted \in BOOLEAN :
          seen' = [seen EXCEPT ![t] = [before |-> game, after |-> game, resp |-> "none", noted |-> noted]]
    BY <1>5, WatcherAssumption DEF Begin
  <2>2. PICK s \in Seen : s = [before |-> game, after |-> game, resp |-> "none", noted |-> noted]
    BY <1>1 DEF Seen
  <2>3. s.before = game /\ s.after = game /\ seen' = [seen EXCEPT ![t] = s]
    BY <2>1, <2>2
  <2>4. "before" \in Holding /\ pc' = [pc EXCEPT ![t] = "before"] /\ UNCHANGED <<reply, completed>>
    BY <1>5 DEF Begin, Holding
  <2>5. QED BY <1>4, <2>3, <2>4
<1>6. CASE ReadBefore(t)
  <2>1. pc[t] \in Holding
    BY <1>6 DEF ReadBefore, Holding
  <2>2. seen[t] \in Seen
    BY <2>1, Executing
  <2>3. PICK s : s = [[seen[t] EXCEPT !.before = game] EXCEPT !.after = game]
    OBVIOUS
  <2>4. s \in Seen /\ s.before = game /\ s.after = game
    BY <1>1, <2>2, <2>3 DEF Seen
  <2>5. seen' = [seen EXCEPT ![t] = s]
    BY <1>6, <2>3 DEF ReadBefore, IInv, TypeOK
  <2>6. "ready" \in Holding /\ pc' = [pc EXCEPT ![t] = "ready"] /\ UNCHANGED <<reply, completed>>
    BY <1>6 DEF ReadBefore, Holding
  <2>7. QED BY <1>4, <2>4, <2>5, <2>6
<1>7. CASE Poll(t)
  <2>1. pc[t] = "polling" /\ pc[t] \in Holding
    BY <1>7 DEF Poll, Holding
  <2>2. CASE \E status : Finish(t, status, game)
    BY <1>1, <2>1, <2>2, TurnsPastFinish
  <2>3. CASE seen' = [seen EXCEPT ![t].after = game] /\ UNCHANGED <<pc, reply, caches>>
    <3>1. seen[t] \in Seen
      BY <2>1, Executing
    <3>2. PICK s : s = [seen[t] EXCEPT !.after = game]
      OBVIOUS
    <3>3. s \in Seen /\ s.before = seen[t].before /\ s.after = game
      BY <1>1, <3>1, <3>2 DEF Seen
    <3>4. seen' = [seen EXCEPT ![t] = s]
      BY <2>3, <3>2
    <3>5. pc' = [pc EXCEPT ![t] = "polling"]
      BY <2>1, <2>3 DEF IInv, TypeOK
    <3>6. QED BY <1>4, <2>1, <2>3, <3>3, <3>4, <3>5
  <2>4. QED BY <1>7, <2>2, <2>3 DEF Poll
<1>8. QED BY <1>2, <1>3, <1>5, <1>6, <1>7

\* The other steps of a thread.
LEMMA TurnsPastThread ==
  ASSUME IInv, TurnsPast, NEW t \in Slot, Handler(t)
  PROVE  TurnsPast'
<1>1. CASE ReadState(t) \/ Begin(t) \/ ReadBefore(t) \/ Poll(t)
  BY <1>1, TurnsPastReads
<1>2. CASE Admit(t) \/ Lookup(t) \/ Replay(t) \/ Submit(t)
  <2>1. UNCHANGED <<game, completed, seen>>
    BY <1>2 DEF Admit, Lookup, Replay, Submit
  <2>2. CASE \E r : Answer(t, r) /\ r.kind # "state"
    BY <2>1, <2>2, TurnsPastPlain
  <2>3. CASE \E x \in {"waiting", "sent"} :
               pc' = [pc EXCEPT ![t] = x] /\ reply' = reply /\ (x = "sent" => pc[t] = "ready")
    BY <2>1, <2>3, TurnsPastPlain DEF Holding
  <2>4. CASE Admit(t)
    <3>1. CASE Answer(t, [kind |-> "rejected"])
      BY <2>2, <3>1
    <3>2. CASE pc' = [pc EXCEPT ![t] = "waiting"] /\ reply' = reply
      BY <2>3, <3>2
    <3>3. QED BY <2>4, <3>1, <3>2 DEF Admit
  <2>5. CASE Lookup(t) \/ Replay(t)
    BY <2>2, <2>5 DEF Lookup, Replay
  <2>6. CASE Submit(t)
    BY <2>3, <2>6 DEF Submit
  <2>7. QED BY <1>2, <2>4, <2>5, <2>6
<1>3. CASE AnswerLocally(t) \/ VerifyTimeout(t) \/ TakeResponse(t)
  <2>1. pc[t] \in Holding
    BY <1>3 DEF AnswerLocally, VerifyTimeout, TakeResponse, Holding
  <2>2. seen[t].before.turn <= game.turn /\ seen[t].after.turn <= game.turn
    BY <2>1 DEF TurnsPast
  <2>3. CASE \E status : Finish(t, status, seen[t].before) \/ Finish(t, status, seen[t].after)
    BY <2>1, <2>2, <2>3, TurnsPastFinish
  <2>4. CASE pc' = [pc EXCEPT ![t] = "polling"] /\ UNCHANGED <<game, completed, reply, seen>>
    BY <2>1, <2>4, TurnsPastPlain
  <2>5. QED BY <1>3, <2>3, <2>4 DEF AnswerLocally, VerifyTimeout, TakeResponse
<1>4. CASE RejectInvalid(t) \/ OutcomeUnknown(t) \/ RuntimeFailure(t)
  <2>1. PICK x \in {"rejected", "unknown", "internal"} : Answer(t, [kind |-> x])
    BY <1>4 DEF RejectInvalid, OutcomeUnknown, RuntimeFailure
  <2>2. UNCHANGED <<game, completed>> /\ \A u \in Slot \ {t} : seen'[u] = seen[u]
    BY <1>4 DEF RejectInvalid, OutcomeUnknown, RuntimeFailure, Unlock, IInv, TypeOK
  <2>3. QED BY <2>1, <2>2, TurnsPastPlain
<1>5. QED
  BY <1>1, <1>2, <1>3, <1>4 DEF Handler, Enter, Progress, ResponseTimeout

\* The game moves on, and programs that run late change no state that was read.
LEMMA TurnsPastGame ==
  ASSUME IInv, TurnsPast, GameSteps
  PROVE  TurnsPast'
<1>1. game.turn <= game'.turn /\ game.turn \in Int /\ game'.turn \in Int
  <2>1. game \in State /\ game' \in State
    BY NextInv DEF IInv, TypeOK, Next
  <2>2. QED BY <2>1, TurnsGrow DEF State
<1>2. UNCHANGED <<pc, completed, reply>>
  BY DEF GameSteps, RunProgram, LoseProgram, GameMoves
<1>3. \A u \in Slot : pc[u] \in Holding =>
        seen'[u].before = seen[u].before /\ seen'[u].after = seen[u].after
  <2>1. TAKE u \in Slot
  <2>2. HAVE pc[u] \in Holding
  <2>3. seen[u] \in Seen
    BY <2>2, Executing
  <2>4. \A x : [seen[u] EXCEPT !.resp = x].before = seen[u].before
               /\ [seen[u] EXCEPT !.resp = x].after = seen[u].after
    BY <2>3 DEF Seen
  <2>5. CASE \E k \in Key, a \in Act : RunProgram(k, a)
    <3>1. PICK x : seen'[u] = seen[u] \/ seen'[u] = [seen[u] EXCEPT !.resp = x]
      BY <2>5 DEF RunProgram
    <3>2. QED BY <2>4, <3>1
  <2>6. CASE seen' = seen
    BY <2>6
  <2>7. QED BY <2>5, <2>6 DEF GameSteps, LoseProgram, GameMoves
<1>4. \A u \in Slot : pc[u] \in Holding => seen[u].before.turn \in Int /\ seen[u].after.turn \in Int
  <2>1. TAKE u \in Slot
  <2>2. HAVE pc[u] \in Holding
  <2>3. seen[u] \in Seen
    BY <2>2, Executing
  <2>4. QED BY <2>3 DEF Seen, State
<1>5. \A k \in Key : completed[k] # None => completed[k].res.after.turn \in Int
  BY DEF IInv, TypeOK, Entry, Result, State
<1>6. \A u \in Slot : reply[u].kind = "state" => reply[u].state.turn \in Int
  BY DEF IInv, TypeOK, Reply, State
<1>7. QED BY <1>1, <1>2, <1>3, <1>4, <1>5, <1>6 DEF TurnsPast

\* The main loop and the clients read nothing.
LEMMA TurnsPastOutside ==
  ASSUME IInv, TurnsPast,
         \/ MainLoop
         \/ \E t \in Slot : Hangup(t) \/ \E op, c, a, s : Connect(t, op, c, a, s)
         \/ UNCHANGED vars
  PROVE  TurnsPast'
<1>1. UNCHANGED <<game, completed>>
  BY DEF MainLoop, OpenSession, RefuseUnsafe, MainLock, MainRead, MainLeave, StopServing,
         CloseTuner, ProcessEnds, Restart, Hangup, Connect, vars
<1>2. CASE UNCHANGED <<pc, seen, reply>>
  BY <1>1, <1>2, TurnsPastKept
<1>3. CASE ProcessEnds
  <2>1. \A u \in Slot : IF pc[u] \in Busy THEN pc'[u] = "answered" /\ reply'[u].kind = "lost"
                                          ELSE pc'[u] = pc[u] /\ reply'[u] = reply[u]
    BY <1>3 DEF ProcessEnds
  <2>2. \A u \in Slot : pc'[u] \notin Holding
    BY <2>1 DEF Busy, Holding
  <2>3. \A u \in Slot : pc'[u] = "answered" /\ reply'[u].kind = "state" =>
          pc[u] = "answered" /\ reply'[u] = reply[u]
    BY <2>1
  <2>4. QED BY <1>1, <2>2, <2>3, TurnsPastKept
<1>4. CASE \E t \in Slot : Hangup(t)
  <2>1. PICK t \in Slot : Hangup(t)
    BY <1>4
  <2>2. seen' = seen /\ \A u \in Slot : u # t => pc'[u] = pc[u] /\ reply'[u] = reply[u]
    BY <2>1 DEF Hangup, IInv, TypeOK
  <2>3. pc'[t] = "idle" /\ pc'[t] \notin Holding
    BY <2>1 DEF Hangup, Holding, IInv, TypeOK
  <2>4. QED BY <1>1, <2>2, <2>3, TurnsPastKept
<1>5. CASE \E t \in Slot : \E op, c, a, s : Connect(t, op, c, a, s)
  <2>1. PICK t \in Slot : \E op, c, a, s : Connect(t, op, c, a, s)
    BY <1>5
  <2>2. pc' = [pc EXCEPT ![t] = "received"] /\ UNCHANGED <<reply, seen>> /\ "received" \notin Holding
    BY <2>1 DEF Connect, Holding
  <2>3. QED BY <1>1, <2>2, TurnsPastPlain
<1>6. QED
  BY <1>2, <1>3, <1>4, <1>5
  DEF MainLoop, OpenSession, RefuseUnsafe, MainLock, MainRead, MainLeave, StopServing,
      CloseTuner, Restart, vars

-----------------------------------------------------------------------------
(* The watcher under the executor.                                         *)

\* The watcher's own steps preserve what is known of the watcher.
LEMMA WatcherInvKept ==
  ASSUME WatcherInv, MainLoop \/ (\E t \in Slot : Handler(t)) \/ GameSteps \/ (\E t \in Slot : Hangup(t)) \/ UNCHANGED vars
  PROVE  WatcherInv' /\ WatcherEffect /\ game.turn <= game'.turn
<1>1. [Next]_vars
  BY DEF Next, Clients
<1>2. IInv' /\ VerdictInv'
  BY <1>1, NextInv, NextVerdicts DEF WatcherInv
<1>3. TurnsPast'
  BY TurnsPastThread, TurnsPastGame, TurnsPastOutside DEF WatcherInv
<1>4. WatcherEffect
  BY EnterEffect, ExecutingEffect, SurroundingsEffect DEF WatcherInv, Handler
<1>5. game.turn <= game'.turn
  <2>1. CASE GameSteps
    BY <2>1, TurnsGrow DEF WatcherInv
  <2>2. CASE game' = game
    BY <2>2 DEF WatcherInv, IInv, TypeOK, State
  <2>3. CASE \E t \in Slot : Handler(t)
    <3>1. PICK t \in Slot : Handler(t)
      BY <2>3
    <3>2. CASE Admit(t) \/ Enter(t) \/ Poll(t) \/ RejectInvalid(t) \/ OutcomeUnknown(t)
      <4>1. game' = game
        BY <3>2 DEF Admit, Enter, ReadState, Lookup, Replay, Begin, Poll, RejectInvalid, OutcomeUnknown, Finish
      <4>. QED BY <2>2, <4>1
    <3>3. CASE Progress(t)
      <4>1. game' = game
        BY <3>3 DEF Progress, ReadBefore, AnswerLocally, Submit, TakeResponse, ResponseTimeout,
           OutcomeUnknown, VerifyTimeout, RuntimeFailure, Finish
      <4>. QED BY <2>2, <4>1
    <3>4. QED BY <3>1, <3>2, <3>3 DEF Handler
  <2>4. QED
    BY <2>1, <2>2, <2>3
    DEF MainLoop, OpenSession, RefuseUnsafe, MainLock, MainRead, MainLeave, StopServing,
        CloseTuner, ProcessEnds, Restart, Hangup, vars
<1>6. QED BY <1>2, <1>3, <1>4, <1>5 DEF WatcherInv

\* So does a request of the executor.
LEMMA ConnectKept ==
  ASSUME WatcherInv, NEW t \in Slot, NEW op \in {"write", "status", "read"}, NEW c \in Command,
         NEW a \in Act, NEW s \in 0..MaxEpoch, Connect(t, op, c, a, s)
  PROVE  WatcherInv'
<1>1. IInv'
  BY ConnectInv DEF WatcherInv
<1>2. VerdictInv'
  BY SurroundingsVerdicts DEF WatcherInv
<1>3. TurnsPast'
  BY TurnsPastOutside DEF WatcherInv
<1>4. QED BY <1>1, <1>2, <1>3 DEF WatcherInv

-----------------------------------------------------------------------------
(* What a step leaves of the plan.                                         *)

\* A plan is not empty, and its positions are the command identifiers.
LEMMA PlanFacts ==
  /\ Len(Plan) \in Nat /\ Len(Plan) >= 1 /\ Command = 1..Len(Plan)
  /\ \A i \in 1..Len(Plan) : Plan[i] \in Act
<1>1. Plan \in Seq(Act) /\ Plan # <<>> /\ Command = DOMAIN Plan
  BY PlanAssumption DEF ValidPlan
<1>2. QED BY <1>1

\* The key of a position is a key.
LEMMA PlanKeyTyped ==
  ASSUME plan \in PlanHeader, NEW i \in 1..Len(Plan)
  PROVE  PlanKey(i) \in Key
  BY PlanFacts DEF PlanKey, PlanHeader, Key

\* What has succeeded stays so.
LEMMA SucceededKept ==
  ASSUME plan \in PlanHeader, WatcherEffect, plan' = plan
  PROVE  \A i \in 1..Len(Plan) : Succeeded(i) => Succeeded(i)'
<1> SUFFICES ASSUME NEW i \in 1..Len(Plan), Succeeded(i) PROVE Succeeded(i)'
  OBVIOUS
<1>1. PlanKey(i) \in Key /\ PlanKey(i)' = PlanKey(i)
  BY PlanKeyTyped DEF PlanKey
<1>2. completed'[PlanKey(i)] = completed[PlanKey(i)]
  BY <1>1 DEF WatcherEffect, Succeeded
<1>3. QED BY <1>1, <1>2 DEF Succeeded

\* What no step of the executor or the watcher disturbs as long as the plan stays.
UnderPlan == Requests /\ SentInOrder

\* A step of the watcher keeps every request a request of the plan, and writes a position
\* only for such a request, in the session of the plan.
LEMMA UnderPlanKept ==
  ASSUME IInv, PlanInv, WatcherEffect, plan' = plan
  PROVE  UnderPlan'
<1>1. CASE phase = "idle"
  <2>1. plan' = None /\ \A t \in Slot : pc'[t] = "idle"
    BY <1>1 DEF PlanInv, Unplanned, WatcherEffect
  <2>2. QED BY <2>1 DEF UnderPlan, Requests, SentInOrder
<1>2. CASE phase # "idle"
  <2>1. plan \in PlanHeader
    BY <1>2 DEF PlanInv, Planned
  <2>2. \A i \in 1..Len(Plan) : Succeeded(i) => Succeeded(i)'
    BY <2>1, SucceededKept
  <2>3. Requests'
    <3>1. SUFFICES ASSUME NEW t \in Slot, pc'[t] # "idle"
                   PROVE  RequestOfPlan(t)'
      BY DEF Requests
    <3>2. pc[t] # "idle" /\ job'[t] = job[t] /\ (Admitted(t)' => Admitted(t) \/ job[t].sess = job[t].epoch)
      BY <3>1 DEF WatcherEffect
    <3>3. RequestOfPlan(t)
      BY <3>2 DEF PlanInv, Requests
    <3>4. job[t].cmd \in 1..Len(Plan)
      BY <3>3, PlanFacts DEF RequestOfPlan, Job
    <3>5. ASSUME NEW i \in 1..job[t].cmd - 1, Succeeded(i) PROVE Succeeded(i)'
      BY <2>2, <3>4, <3>5, PlanFacts
    <3>6. QED BY <3>2, <3>3, <3>5 DEF RequestOfPlan
  <2>4. SentInOrder'
    <3>1. SUFFICES ASSUME NEW i \in 1..Len(Plan), NEW j \in 1..Len(Plan), i < j, writes'[PlanKey(j)] > 0,
                          plan # None
                   PROVE  Succeeded(i)
      BY <2>2 DEF SentInOrder, PlanKey
    <3>2. CASE writes[PlanKey(j)] > 0
      BY <3>1, <3>2 DEF PlanInv, SentInOrder
    <3>3. CASE writes'[PlanKey(j)] # writes[PlanKey(j)]
      <4>1. PICK t \in Slot : pc[t] = "ready" /\ PlanKey(j) = KeyOf(t)
        BY <2>1, <3>3, PlanKeyTyped DEF WatcherEffect
      <4>2. job[t].op = "write" /\ job[t].cmd = j
        BY <4>1, Executing DEF Holding, PlanKey
      <4>3. RequestOfPlan(t)
        BY <4>1 DEF PlanInv, Requests
      <4>4. i \in 1..job[t].cmd - 1
        BY <3>1, <4>2, PlanFacts
      <4>5. QED BY <4>2, <4>3, <4>4 DEF RequestOfPlan
    <3>4. QED BY <3>1, <3>2, <3>3
  <2>5. QED BY <2>3, <2>4 DEF UnderPlan
<1>3. QED BY <1>1, <1>2

\* The history of the turns is typed.
LEMMA AppliedTyped ==
  ASSUME IInv, PlanInv, RecordApplied
  PROVE  applied' \in [Key -> 0..MaxTurn \cup {None}]
<1>1. game.turn \in 0..MaxTurn /\ applied \in [Key -> 0..MaxTurn \cup {None}]
  BY DEF IInv, TypeOK, State, PlanInv, ExecutorTypeOK
<1>2. QED BY <1>1 DEF RecordApplied

\* A thread of the watcher does not free its connection.
LEMMA HandlerStays ==
  ASSUME IInv, NEW t \in Slot, Handler(t), NEW u \in Slot, pc[u] # "idle"
  PROVE  pc'[u] # "idle"
<1>1. CASE \E x : pc' = [pc EXCEPT ![t] = x] /\ x # "idle"
  BY <1>1 DEF IInv, TypeOK
<1>2. CASE pc' = pc
  BY <1>2
<1>3. QED
  BY <1>1, <1>2
  DEF Handler, Admit, Enter, ReadState, Lookup, Replay, Begin, Progress, ReadBefore, AnswerLocally,
      Submit, TakeResponse, ResponseTimeout, OutcomeUnknown, VerifyTimeout, RuntimeFailure, Poll,
      RejectInvalid, Finish, Answer

\* A step of the watcher preserves everything that is known of the executor.
LEMMA ExecutorWaits ==
  ASSUME IInv, PlanInv, WatcherEffect, IInv', game.turn <= game'.turn, UNCHANGED executor, RecordApplied,
         slot \in Slot /\ pc[slot] # "idle" => pc'[slot] # "idle"
  PROVE  PlanInv'
<1> USE DEF executor
<1>1. ExecutorTypeOK'
  BY AppliedTyped DEF PlanInv, ExecutorTypeOK
<1>2. UnderPlan'
  BY UnderPlanKept
<1>3. Planned' /\ StepsOfPhase'
  BY DEF PlanInv, Planned, StepsOfPhase, ValidReport
<1>4. Unplanned'
  <2>1. CASE phase = "idle"
    <3>1. \A t \in Slot : pc[t] = "idle" /\ pc'[t] = "idle"
      BY <2>1 DEF PlanInv, Unplanned, WatcherEffect
    <3>2. \A k \in Key : writes'[k] = writes[k]
      BY <3>1 DEF WatcherEffect
    <3>3. QED BY <3>1, <3>2 DEF PlanInv, Unplanned
  <2>2. CASE phase # "idle"
    BY <2>2 DEF Unplanned
  <2>3. QED BY <2>1, <2>2
<1>5. OwnRequest'
  BY DEF PlanInv, OwnRequest, WatcherEffect
<1>6. Earlier' /\ Recovered' /\ CompletedIsTrue'
  <2>1. CASE phase = "idle"
    BY <2>1 DEF Earlier, Recovered, CompletedIsTrue
  <2>2. CASE phase # "idle"
    <3>1. plan \in PlanHeader /\ cursor \in 1..Len(Plan)
      BY <2>2 DEF PlanInv, Planned, ExecutorTypeOK
    <3>2. \A i \in 1..Len(Plan) : Succeeded(i) => Succeeded(i)'
      BY <3>1, SucceededKept
    <3>3. \A i \in 1..cursor - 1 : i \in 1..Len(Plan)
      BY <3>1, PlanFacts
    <3>4. Earlier' /\ Recovered'
      BY <3>1, <3>2, <3>3 DEF PlanInv, Earlier, Recovered
    <3>5. game.turn \in Int /\ game'.turn \in Int /\ plan.turn \in Int
      BY <3>1 DEF IInv, TypeOK, State, PlanHeader
    <3>6. CompletedIsTrue'
      BY <3>2, <3>5 DEF PlanInv, CompletedIsTrue
    <3>7. QED BY <3>4, <3>6
  <2>3. QED BY <2>1, <2>2
<1>7. QED BY <1>1, <1>2, <1>3, <1>4, <1>5, <1>6 DEF PlanInv, UnderPlan

-----------------------------------------------------------------------------
(* The executor sends.                                                     *)

\* A request of the executor, or one that does not reach the socket.
LEMMA SendKept ==
  ASSUME WatcherInv, PlanInv, RecordApplied, NEW from, NEW to, NEW op,
         <<from, to, op>> \in {<<"toRead", "reading", "read">>, <<"toAct", "acting", "write">>,
                               <<"toLook", "looking", "status">>, <<"toConfirm", "confirming", "read">>},
         SendRequest(from, to, op, plan.sess)
  PROVE  WatcherInv' /\ PlanInv'
<1>1. /\ phase = from /\ phase' = to /\ from \in Sending /\ to \in Receiving
      /\ from = "toConfirm" <=> to = "confirming"
      /\ op \in {"write", "status", "read"}
      /\ UNCHANGED <<plan, cursor, basis, steps, report, runs>>
  BY DEF SendRequest, Sending, Receiving
<1>2. plan \in PlanHeader /\ cursor \in 1..Len(Plan) /\ phase # "idle"
  BY <1>1 DEF PlanInv, Planned, ExecutorTypeOK, Sending
<1>3. \A i \in 1..cursor - 1 : Succeeded(i)
  BY <1>1, <1>2 DEF PlanInv, Earlier, Sending
<1>4. IInv
  BY DEF WatcherInv
<1>5. Planned' /\ Unplanned' /\ StepsOfPhase'
  BY <1>1, <1>2 DEF PlanInv, Planned, Unplanned, StepsOfPhase, Sending, Receiving
<1>6. CompletedIsTrue'
  BY <1>1 DEF CompletedIsTrue, Receiving
<1>7. CASE \E t \in Slot : slot' = t /\ Connect(t, op, cursor, Plan[cursor], plan.sess)
  <2>1. PICK t \in Slot : slot' = t /\ Connect(t, op, cursor, Plan[cursor], plan.sess)
    BY <1>7
  <2>2. cursor \in Command /\ Plan[cursor] \in Act /\ plan.sess \in 0..MaxEpoch
    BY <1>2, PlanFacts DEF PlanHeader, Epoch
  <2>3. WatcherInv'
    BY <1>1, <2>1, <2>2, ConnectKept
  <2>4. PICK new : new = [op |-> op, epoch |-> epoch, cmd |-> cursor, act |-> Plan[cursor], sess |-> plan.sess]
    OBVIOUS
  <2>5. new \in Job
    <3>1. epoch \in Epoch
      BY <1>4, <2>1 DEF Connect, IInv, EpochsInOrder
    <3>2. QED BY <1>1, <2>2, <2>4, <3>1 DEF Job
  <2>6. /\ pc'[t] = "received" /\ job'[t] = new
        /\ \A u \in Slot \ {t} : pc'[u] = pc[u] /\ job'[u] = job[u]
        /\ UNCHANGED <<game, reply, completed, writes>>
    BY <1>4, <2>1, <2>4 DEF Connect, IInv, TypeOK
  <2>7. \A i \in Int : Succeeded(i)' <=> Succeeded(i)
    BY <1>1, <2>6 DEF Succeeded, PlanKey
  <2>8. Requests'
    <3>1. RequestOfPlan(t)'
      <4>1. ~Admitted(t)'
        BY <2>6 DEF Admitted, HasResult, Past, Holding
      <4>2. new.cmd = cursor /\ new.act = Plan[cursor] /\ new.sess = plan.sess
        BY <2>4
      <4>3. QED BY <1>1, <1>2, <1>3, <2>5, <2>6, <2>7, <4>1, <4>2 DEF RequestOfPlan
    <3>2. ASSUME NEW u \in Slot \ {t}, pc'[u] # "idle" PROVE RequestOfPlan(u)'
      <4>1. RequestOfPlan(u)
        BY <2>6, <3>2 DEF PlanInv, Requests
      <4>2. Admitted(u)' <=> Admitted(u)
        BY <2>6 DEF Admitted, HasResult
      <4>3. \A i \in 1..job[u].cmd - 1 : Succeeded(i) => Succeeded(i)'
        BY <2>7
      <4>4. QED BY <1>1, <2>6, <4>1, <4>2, <4>3 DEF RequestOfPlan
    <3>3. QED BY <3>1, <3>2 DEF Requests
  <2>9. OwnRequest'
    <3>1. new.cmd = cursor /\ new.act = Plan[cursor] /\ new.sess = plan.sess
      BY <2>4
    <3>2. QED BY <1>1, <2>1, <2>6, <3>1 DEF OwnRequest
  <2>10. SentInOrder'
    BY <1>1, <2>6, <2>7 DEF PlanInv, SentInOrder, PlanKey
  <2>11. Earlier' /\ Recovered'
    BY <1>1, <1>2, <1>3, <2>7 DEF PlanInv, Earlier, Recovered, Sending
  <2>12. ExecutorTypeOK'
    BY <1>1, <1>4, <2>1, AppliedTyped DEF PlanInv, ExecutorTypeOK
  <2>13. QED BY <1>5, <1>6, <2>3, <2>8, <2>9, <2>10, <2>11, <2>12 DEF PlanInv
<1>8. CASE slot' = None /\ UNCHANGED vars
  <2>1. WatcherInv' /\ WatcherEffect
    BY <1>8, WatcherInvKept
  <2>2. UnderPlan'
    BY <1>1, <1>4, <2>1, UnderPlanKept
  <2>3. \A i \in 1..Len(Plan) : Succeeded(i) => Succeeded(i)'
    BY <1>1, <1>2, <2>1, SucceededKept
  <2>4. Earlier' /\ Recovered'
    BY <1>1, <1>2, <1>3, <2>3, PlanFacts DEF PlanInv, Earlier, Recovered, Sending
  <2>5. OwnRequest'
    BY <1>8 DEF OwnRequest
  <2>6. ExecutorTypeOK'
    BY <1>1, <1>4, <1>8, AppliedTyped DEF PlanInv, ExecutorTypeOK
  <2>7. QED BY <1>5, <1>6, <2>1, <2>2, <2>4, <2>5, <2>6 DEF PlanInv, UnderPlan
<1>9. QED BY <1>7, <1>8 DEF SendRequest

-----------------------------------------------------------------------------
(* The executor starts: the plan, an execution, a reconciliation.          *)

\* The plan is made before any request, in the session that is open.
LEMMA MakePlanKept ==
  ASSUME WatcherInv, PlanInv, RecordApplied, MakePlan
  PROVE  WatcherInv' /\ PlanInv'
<1>1. /\ UNCHANGED <<vars, slot, cursor, basis, steps, report, runs>>
      /\ phase = "idle" /\ phase' = "planned"
      /\ plan' = [sess |-> epoch, turn |-> game.turn, basis |-> game]
  BY DEF MakePlan
<1>2. WatcherInv'
  BY <1>1, WatcherInvKept
<1>3. (\A t \in Slot : pc'[t] = "idle") /\ (\A k \in Key : writes'[k] = 0)
  BY <1>1 DEF PlanInv, Unplanned, vars
<1>4. plan' \in PlanHeader
  <2>1. epoch \in Epoch
    BY DEF MakePlan, WatcherInv, IInv, EpochsInOrder
  <2>2. game \in State /\ game.turn \in 0..MaxTurn
    BY DEF WatcherInv, IInv, TypeOK, State
  <2>3. QED BY <1>1, <2>1, <2>2 DEF PlanHeader
<1>5. SentInOrder'
  <2>1. \A j \in 1..Len(Plan) : PlanKey(j)' \in Key
    BY <1>4, PlanFacts DEF PlanKey, PlanHeader, Key
  <2>2. \A j \in 1..Len(Plan) : ~(writes'[PlanKey(j)'] > 0)
    BY <1>3, <2>1
  <2>3. QED BY <2>2 DEF SentInOrder
<1>6. ExecutorTypeOK'
  BY <1>1, <1>4, AppliedTyped DEF WatcherInv, PlanInv, ExecutorTypeOK
<1>7. Requests'
  BY <1>3 DEF Requests
<1>8. Planned' /\ Unplanned' /\ OwnRequest' /\ Earlier' /\ Recovered' /\ CompletedIsTrue' /\ StepsOfPhase'
  BY <1>1, <1>4
  DEF Planned, Unplanned, OwnRequest, Earlier, Recovered, CompletedIsTrue, StepsOfPhase, Sending, Receiving
<1>9. QED BY <1>2, <1>5, <1>6, <1>7, <1>8 DEF PlanInv

\* An execution begins at the first position, with no steps.
LEMMA ExecuteKept ==
  ASSUME WatcherInv, PlanInv, RecordApplied, Execute
  PROVE  WatcherInv' /\ PlanInv'
<1>1. /\ UNCHANGED <<vars, slot, plan>> /\ phase \in {"planned", "reported"} /\ runs < MaxRuns
      /\ phase' = "toRead" /\ cursor' = 1 /\ basis' = plan.basis /\ steps' = <<>> /\ report' = None
      /\ runs' = runs + 1
  BY DEF Execute
<1>2. WatcherInv' /\ WatcherEffect
  BY <1>1, WatcherInvKept
<1>3. plan \in PlanHeader
  BY <1>1 DEF PlanInv, Planned
<1>4. ExecutorTypeOK'
  <2>1. 1 \in 1..Len(Plan) /\ Len(Plan) \in Nat /\ plan.basis \in State
    BY <1>3, PlanFacts DEF PlanHeader
  <2>2. runs' \in 0..MaxRuns
    BY <1>1, PlanAssumption DEF PlanInv, ExecutorTypeOK
  <2>3. steps' \in Seq({"success", "error"}) /\ Len(steps') = 0
    BY <1>1
  <2>4. phase' \in Sending
    BY <1>1 DEF Sending
  <2>5. slot' \in Slot \cup {None} /\ plan' \in PlanHeader \cup {None}
    BY <1>1, <1>3 DEF PlanInv, ExecutorTypeOK
  <2>6. applied' \in [Key -> 0..MaxTurn \cup {None}]
    BY AppliedTyped DEF WatcherInv
  <2>7. QED BY <1>1, <2>1, <2>2, <2>3, <2>4, <2>5, <2>6 DEF ExecutorTypeOK
<1>5. UnderPlan'
  BY <1>1, <1>2, UnderPlanKept DEF WatcherInv
<1>6. Planned' /\ Unplanned' /\ OwnRequest' /\ Earlier' /\ Recovered' /\ CompletedIsTrue'
  BY <1>1, <1>3
  DEF Planned, Unplanned, OwnRequest, Earlier, Recovered, CompletedIsTrue, Receiving
<1>7. StepsOfPhase'
  BY <1>1 DEF StepsOfPhase
<1>8. QED BY <1>2, <1>4, <1>5, <1>6, <1>7 DEF PlanInv, UnderPlan

\* A reconciliation goes on where the report left off.
LEMMA ReconcileKept ==
  ASSUME WatcherInv, PlanInv, RecordApplied, Reconcile
  PROVE  WatcherInv' /\ PlanInv'
<1>1. /\ UNCHANGED <<vars, slot, plan, cursor, basis, steps, report>> /\ runs < MaxRuns
      /\ phase = "reported" /\ report.status = "recovery_required"
      /\ phase' = "toLook" /\ runs' = runs + 1
  BY DEF Reconcile
<1>2. WatcherInv' /\ WatcherEffect
  BY <1>1, WatcherInvKept
<1>3. plan \in PlanHeader /\ cursor \in 1..Len(Plan)
  BY <1>1 DEF PlanInv, Planned, ExecutorTypeOK
<1>4. ExecutorTypeOK'
  <2>1. runs' \in 0..MaxRuns
    BY <1>1, PlanAssumption DEF PlanInv, ExecutorTypeOK
  <2>2. applied' \in [Key -> 0..MaxTurn \cup {None}]
    BY AppliedTyped DEF WatcherInv
  <2>3. QED BY <1>1, <2>1, <2>2 DEF PlanInv, ExecutorTypeOK, Sending
<1>5. UnderPlan'
  BY <1>1, <1>2, UnderPlanKept DEF WatcherInv
<1>6. Earlier'
  <2>1. \A i \in 1..Len(Plan) : Succeeded(i) => Succeeded(i)'
    BY <1>1, <1>2, <1>3, SucceededKept
  <2>2. \A i \in 1..cursor - 1 : i \in 1..Len(Plan) /\ Succeeded(i)
    BY <1>1, <1>3, PlanFacts DEF PlanInv, Earlier
  <2>3. QED BY <1>1, <2>1, <2>2 DEF Earlier
<1>7. Planned' /\ Unplanned' /\ OwnRequest' /\ Recovered' /\ CompletedIsTrue'
  BY <1>1, <1>3
  DEF Planned, Unplanned, OwnRequest, Recovered, CompletedIsTrue, Receiving
<1>8. StepsOfPhase'
  BY <1>1 DEF PlanInv, StepsOfPhase, ValidReport
<1>9. QED BY <1>2, <1>4, <1>5, <1>6, <1>7, <1>8 DEF PlanInv, UnderPlan

-----------------------------------------------------------------------------
(* The executor receives.                                                  *)

\* An answer is that of the executor's own request, whose thread ends, or it is lost.
LEMMA Received ==
  ASSUME WatcherInv, PlanInv, phase \in Receiving, NEW r, Receive(r)
  PROVE  /\ WatcherInv' /\ WatcherEffect /\ game' = game /\ slot' = None
         /\ plan \in PlanHeader /\ cursor \in 1..Len(Plan)
         /\ \A i \in 1..cursor - 1 : i \in 1..Len(Plan) /\ Succeeded(i)
         /\ r.kind # "lost" =>
              slot \in Slot /\ slot # None /\ pc[slot] = "answered" /\ r = reply[slot]
<1>1. slot # None => slot \in Slot
  BY DEF PlanInv, OwnRequest
<1>2. slot' = None /\ ((slot \in Slot /\ Hangup(slot)) \/ UNCHANGED vars) /\ game' = game
  BY <1>1 DEF Receive, Hangup, vars
<1>3. WatcherInv' /\ WatcherEffect
  BY <1>2, WatcherInvKept
<1>4. plan \in PlanHeader /\ cursor \in 1..Len(Plan)
  BY DEF PlanInv, Planned, ExecutorTypeOK, Receiving
<1>5. \A i \in 1..cursor - 1 : i \in 1..Len(Plan) /\ Succeeded(i)
  BY <1>4, PlanFacts DEF PlanInv, Earlier, Receiving
<1>6. Lost.kind = "lost"
  BY DEF Lost
<1>7. r.kind # "lost" => slot \in Slot /\ slot # None /\ pc[slot] = "answered" /\ r = reply[slot]
  BY <1>1, <1>6 DEF Receive
<1>8. QED BY <1>2, <1>3, <1>4, <1>5, <1>7

\* A result is the verdict of the watcher on the position of the executor, in the plan's
\* session, and its after-state is not ahead of the game.
LEMMA ResultIsOwn ==
  ASSUME WatcherInv, PlanInv, phase \in Receiving, NEW r, Receive(r),
         r.kind \in {"result", "found"}
  PROVE  /\ completed[PlanKey(cursor)] # None
         /\ completed[PlanKey(cursor)] = [act |-> Plan[cursor], res |-> r.res]
         /\ r.res.after \in State /\ r.res.after.turn <= game.turn
         /\ r.res.status = "success" => Succeeded(cursor)
<1>1. /\ slot \in Slot /\ slot # None /\ pc[slot] = "answered" /\ r = reply[slot]
      /\ plan \in PlanHeader /\ cursor \in 1..Len(Plan)
  BY Received
<1>2. job[slot].cmd = cursor /\ job[slot].act = Plan[cursor] /\ job[slot].sess = plan.sess
  BY <1>1 DEF PlanInv, OwnRequest
<1>3. job[slot].epoch = plan.sess
  <2>1. RequestOfPlan(slot)
    BY <1>1 DEF PlanInv, Requests
  <2>2. Admitted(slot)
    BY <1>1 DEF Admitted, HasResult
  <2>3. QED BY <1>2, <2>1, <2>2 DEF RequestOfPlan
<1>4. KeyOf(slot) = PlanKey(cursor) /\ PlanKey(cursor) \in Key
  BY <1>1, <1>2, <1>3, PlanKeyTyped DEF PlanKey
<1>5. /\ completed[PlanKey(cursor)] # None
      /\ completed[PlanKey(cursor)] = [act |-> Plan[cursor], res |-> r.res]
  BY <1>1, <1>2, <1>4 DEF WatcherInv, VerdictInv, Told
<1>6. completed[PlanKey(cursor)].res = r.res /\ completed[PlanKey(cursor)].act = Plan[cursor]
  BY <1>5
<1>7. r.res.after \in State
  <2>1. completed[PlanKey(cursor)] \in Entry
    BY <1>4, <1>5 DEF WatcherInv, IInv, TypeOK
  <2>2. QED BY <1>6, <2>1 DEF Entry, Result
<1>8. r.res.after.turn <= game.turn
  BY <1>4, <1>5, <1>6 DEF WatcherInv, TurnsPast
<1>9. QED BY <1>5, <1>6, <1>7, <1>8 DEF Succeeded

\* Appending a step.
LEMMA Appended ==
  ASSUME NEW st \in Seq({"success", "error"}), NEW x \in {"success", "error"}
  PROVE  /\ Append(st, x) \in Seq({"success", "error"}) /\ Len(Append(st, x)) = Len(st) + 1
         /\ Append(st, x)[Len(st) + 1] = x /\ DOMAIN Append(st, x) = 1..Len(st) + 1
         /\ \A i \in 1..Len(st) : Append(st, x)[i] = st[i]
  OBVIOUS

\* A report after an answer.
LEMMA FinishedKept ==
  ASSUME WatcherInv, PlanInv, RecordApplied, phase \in Receiving, NEW r, Receive(r),
         NEW status \in Status, NEW next \in 0..Len(Plan), NEW st \in Seq({"success", "error"}),
         Finished(status, next, st), ValidReport(st, [status |-> status, next |-> next]),
         status = "recovery_required" => Len(st) = cursor - 1,
         status = "completed" => game.turn > plan.turn /\ \A i \in 1..Len(Plan) : Succeeded(i)
  PROVE  WatcherInv' /\ PlanInv'
<1>1. /\ WatcherInv' /\ WatcherEffect /\ game' = game /\ slot' = None
      /\ plan \in PlanHeader /\ cursor \in 1..Len(Plan)
      /\ \A i \in 1..cursor - 1 : i \in 1..Len(Plan) /\ Succeeded(i)
  BY Received
<1>2. /\ phase' = "reported" /\ report' = [status |-> status, next |-> next] /\ steps' = st
      /\ UNCHANGED <<plan, cursor, basis, runs>>
  BY DEF Finished
<1>3. \A i \in 1..Len(Plan) : Succeeded(i) => Succeeded(i)'
  BY <1>1, <1>2, SucceededKept
<1>4. report' \in Report /\ report'.status = status
  BY <1>2 DEF Report
<1>5. ExecutorTypeOK'
  <2>1. applied' \in [Key -> 0..MaxTurn \cup {None}]
    BY AppliedTyped DEF WatcherInv
  <2>2. Len(steps') <= Len(Plan)
    BY <1>2 DEF ValidReport
  <2>3. QED BY <1>1, <1>2, <1>4, <2>1, <2>2 DEF PlanInv, ExecutorTypeOK
<1>6. UnderPlan'
  BY <1>1, <1>2, UnderPlanKept DEF WatcherInv
<1>7. Planned' /\ Unplanned' /\ OwnRequest' /\ Earlier' /\ Recovered'
  BY <1>1, <1>2, <1>3
  DEF Planned, Unplanned, OwnRequest, Earlier, Recovered, Receiving
<1>8. CompletedIsTrue'
  BY <1>1, <1>2, <1>3, <1>4 DEF CompletedIsTrue
<1>9. StepsOfPhase'
  BY <1>2, <1>4 DEF StepsOfPhase, Sending, Receiving
<1>10. QED BY <1>1, <1>5, <1>6, <1>7, <1>8, <1>9 DEF PlanInv, UnderPlan

\* The steps while a position is read, sent or looked up: as many as are behind it.
LEMMA StepsBehind ==
  ASSUME WatcherInv, PlanInv, phase \in {"reading", "acting", "looking", "confirming"}
  PROVE  /\ steps \in Seq({"success", "error"}) /\ \A i \in DOMAIN steps : steps[i] = "success"
         /\ Len(steps) = IF phase = "confirming" THEN cursor ELSE cursor - 1
         /\ cursor \in 1..Len(Plan) /\ Len(Plan) \in Nat /\ Len(steps) \in Nat
         /\ cursor - 1 \in 0..Len(Plan) /\ cursor \in 0..Len(Plan)
<1>1. steps \in Seq({"success", "error"}) /\ cursor \in 1..Len(Plan)
  BY DEF PlanInv, ExecutorTypeOK
<1>2. \A i \in DOMAIN steps : steps[i] = "success"
  BY DEF PlanInv, StepsOfPhase, Receiving
<1>3. Len(steps) = IF phase = "confirming" THEN cursor ELSE cursor - 1
  BY DEF PlanInv, StepsOfPhase, Receiving
<1>4. QED BY <1>1, <1>2, <1>3, PlanFacts

\* Reports that pause, ask for recovery or find the plan stale add no step.
LEMMA StoppedKept ==
  ASSUME WatcherInv, PlanInv, RecordApplied, phase \in Receiving, NEW r, Receive(r),
         NEW status \in {"paused", "stale", "recovery_required"},
         status = "recovery_required" => phase # "confirming",
         Finished(status, IF phase = "confirming" THEN cursor ELSE cursor - 1, steps)
  PROVE  WatcherInv' /\ PlanInv'
<1> DEFINE next == IF phase = "confirming" THEN cursor ELSE cursor - 1
<1>1. /\ steps \in Seq({"success", "error"}) /\ \A i \in DOMAIN steps : steps[i] = "success"
      /\ Len(steps) = next /\ next \in 0..Len(Plan) /\ Len(Plan) \in Nat
  BY StepsBehind DEF Receiving
<1>2. ValidReport(steps, [status |-> status, next |-> next])
  BY <1>1 DEF ValidReport
<1>3. status \in Status /\ status # "completed"
  BY DEF Status
<1>4. status = "recovery_required" => Len(steps) = cursor - 1
  BY <1>1
<1> HIDE DEF next
<1>5. Finished(status, next, steps)
  BY DEF next
<1>6. QED BY <1>1, <1>2, <1>3, <1>4, <1>5, FinishedKept

\* A failure adds the failed step.
LEMMA FailedKept ==
  ASSUME WatcherInv, PlanInv, RecordApplied, phase \in {"acting", "looking"}, NEW r, Receive(r), Failed
  PROVE  WatcherInv' /\ PlanInv'
<1> DEFINE st == Append(steps, "error")
<1>1. /\ steps \in Seq({"success", "error"}) /\ \A i \in DOMAIN steps : steps[i] = "success"
      /\ Len(steps) = cursor - 1 /\ cursor \in 1..Len(Plan) /\ Len(Plan) \in Nat
      /\ cursor - 1 \in 0..Len(Plan)
  BY StepsBehind
<1>2. /\ st \in Seq({"success", "error"}) /\ Len(st) = cursor /\ st[cursor] = "error"
      /\ \A i \in 1..cursor - 1 : st[i] = "success"
  BY <1>1, Appended
<1> HIDE DEF st
<1>3. ValidReport(st, [status |-> "failed", next |-> cursor - 1])
  BY <1>1, <1>2 DEF ValidReport
<1>4. "failed" \in Status /\ phase \in Receiving
  BY DEF Status, Receiving
<1>5. Finished("failed", cursor - 1, st)
  BY DEF Failed, st
<1>6. QED BY <1>1, <1>2, <1>3, <1>4, <1>5, FinishedKept

\* A completion that all positions and the game back.
LEMMA CompletedKept ==
  ASSUME WatcherInv, PlanInv, RecordApplied, phase \in Receiving, NEW r, Receive(r),
         NEW st \in Seq({"success", "error"}), Len(st) = cursor, \A i \in DOMAIN st : st[i] = "success",
         cursor = Len(Plan), Finished("completed", cursor, st),
         game.turn > plan.turn, Succeeded(cursor)
  PROVE  WatcherInv' /\ PlanInv'
<1>1. cursor \in 1..Len(Plan) /\ Len(Plan) \in Nat /\ \A i \in 1..cursor - 1 : Succeeded(i)
  BY Received, PlanFacts
<1>2. \A i \in 1..Len(Plan) : Succeeded(i)
  <2>1. \A i \in 1..Len(Plan) : i = cursor \/ i \in 1..cursor - 1
    BY <1>1
  <2>2. QED BY <1>1, <2>1
<1>3. ValidReport(st, [status |-> "completed", next |-> cursor])
  BY <1>1 DEF ValidReport
<1>4. "completed" \in Status /\ cursor \in 0..Len(Plan)
  BY <1>1 DEF Status
<1>5. QED BY <1>2, <1>3, <1>4, FinishedKept

\* An answer after which the executor goes on to send.
LEMMA GoesOnKept ==
  ASSUME WatcherInv, PlanInv, RecordApplied, phase \in Receiving, NEW r, Receive(r),
         phase' \in {"toAct", "toRead", "toConfirm"}, UNCHANGED <<plan, report, runs>>,
         basis' \in State \cup {None}, NEW n \in 1..Len(Plan), cursor' = n,
         NEW st \in Seq({"success", "error"}), steps' = st,
         Len(st) = IF phase' = "toConfirm" THEN n ELSE n - 1,
         \A i \in DOMAIN st : st[i] = "success", \A i \in 1..Len(st) : Succeeded(i)
  PROVE  WatcherInv' /\ PlanInv'
<1>1. WatcherInv' /\ WatcherEffect /\ game' = game /\ slot' = None /\ plan \in PlanHeader
  BY Received
<1>2. \A i \in 1..Len(Plan) : Succeeded(i) => Succeeded(i)'
  BY <1>1, SucceededKept
<1>3. Len(st) \in Nat /\ Len(st) <= Len(Plan) /\ Len(Plan) \in Nat /\ n \in Nat
  BY PlanFacts
<1>4. phase' \in Sending
  BY DEF Sending
<1>5. ExecutorTypeOK'
  <2>1. applied' \in [Key -> 0..MaxTurn \cup {None}]
    BY AppliedTyped DEF WatcherInv
  <2>2. QED BY <1>1, <1>3, <1>4, <2>1 DEF PlanInv, ExecutorTypeOK
<1>6. UnderPlan'
  BY <1>1, UnderPlanKept DEF WatcherInv
<1>7. Earlier' /\ Recovered'
  <2>1. \A i \in 1..n - 1 : i \in 1..Len(st)
    BY <1>3
  <2>2. phase' = "toConfirm" => n \in 1..Len(st)
    BY <1>3
  <2>3. \A i \in 1..Len(st) : Succeeded(i)'
    BY <1>2, <1>3
  <2>4. QED BY <2>1, <2>2, <2>3 DEF Earlier, Recovered
<1>8. Planned' /\ Unplanned' /\ OwnRequest' /\ CompletedIsTrue'
  BY <1>1 DEF Planned, Unplanned, OwnRequest, CompletedIsTrue
<1>9. StepsOfPhase'
  BY DEF StepsOfPhase, Receiving
<1>10. QED BY <1>1, <1>5, <1>6, <1>7, <1>8, <1>9 DEF PlanInv, UnderPlan

\* The state before a position.
LEMMA OnStateKept ==
  ASSUME WatcherInv, PlanInv, RecordApplied, NEW r, OnState(r)
  PROVE  WatcherInv' /\ PlanInv'
<1>1. phase = "reading" /\ phase \in Receiving /\ Receive(r)
  BY DEF OnState, Receiving
<1>2. CASE Finished("paused", cursor - 1, steps) \/ Finished("stale", cursor - 1, steps)
  BY <1>1, <1>2, StoppedKept
<1>3. CASE phase' = "toAct" /\ UNCHANGED <<plan, cursor, basis, steps, report, runs>>
  <2>1. /\ steps \in Seq({"success", "error"}) /\ \A i \in DOMAIN steps : steps[i] = "success"
        /\ Len(steps) = cursor - 1 /\ cursor \in 1..Len(Plan)
    BY <1>1, StepsBehind
  <2>2. \A i \in 1..Len(steps) : Succeeded(i)
    BY <1>1, <2>1, Received
  <2>3. basis \in State \cup {None}
    BY DEF PlanInv, ExecutorTypeOK
  <2>4. QED BY <1>1, <1>3, <2>1, <2>2, <2>3, GoesOnKept
<1>4. QED BY <1>2, <1>3 DEF OnState

\* The result of a position.
LEMMA OnResultKept ==
  ASSUME WatcherInv, PlanInv, RecordApplied, NEW r, OnResult(r)
  PROVE  WatcherInv' /\ PlanInv'
<1>1. phase = "acting" /\ phase \in Receiving /\ Receive(r)
  BY DEF OnResult, Receiving
<1>2. CASE Finished("recovery_required", cursor - 1, steps)
  BY <1>1, <1>2, StoppedKept
<1>3. CASE Failed
  BY <1>1, <1>3, FailedKept
<1>4. CASE r.kind = "result" /\ Advance(r.res) /\ ~Failed
  <2>1. r.res.status = "success" /\ ~PostconditionError(r.res.after)
    BY <1>4 DEF Advance
  <2>2. Succeeded(cursor) /\ r.res.after \in State /\ r.res.after.turn <= game.turn
    BY <1>1, <1>4, <2>1, ResultIsOwn
  <2>3. PICK st : st = Append(steps, "success")
    OBVIOUS
  <2>4. /\ steps \in Seq({"success", "error"}) /\ \A i \in DOMAIN steps : steps[i] = "success"
        /\ Len(steps) = cursor - 1 /\ cursor \in 1..Len(Plan) /\ Len(Plan) \in Nat
    BY <1>1, StepsBehind, PlanFacts
  <2>5. /\ st \in Seq({"success", "error"}) /\ Len(st) = cursor /\ st[cursor] = "success"
        /\ DOMAIN st = 1..cursor /\ \A i \in 1..cursor - 1 : st[i] = steps[i]
    BY <2>3, <2>4, Appended
  <2>6. \A i \in DOMAIN st : st[i] = "success"
    BY <2>4, <2>5
  <2>7. CASE cursor = Len(Plan) /\ Finished("completed", cursor, st)
    <3>1. game.turn > plan.turn
      <4>1. plan \in PlanHeader /\ game.turn \in Int /\ r.res.after.turn \in Int
        <5>1. plan \in PlanHeader
          BY <1>1, Received
        <5>2. game \in State
          BY DEF WatcherInv, IInv, TypeOK
        <5>3. QED BY <2>2, <5>1, <5>2 DEF State
      <4>2. plan.turn \in Int /\ ~(r.res.after.turn <= plan.turn)
        BY <2>1, <2>7, <4>1 DEF PostconditionError, PlanHeader
      <4>3. QED BY <2>2, <4>1, <4>2
    <3>2. QED BY <1>1, <2>2, <2>5, <2>6, <2>7, <3>1, CompletedKept
  <2>8. CASE /\ cursor # Len(Plan) /\ phase' = "toRead" /\ cursor' = cursor + 1
             /\ steps' = st /\ basis' = r.res.after /\ UNCHANGED <<plan, report, runs>>
    <3>1. cursor + 1 \in 1..Len(Plan)
      BY <2>4, <2>8
    <3>2. \A i \in 1..cursor - 1 : Succeeded(i)
      BY <1>1, Received
    <3>3. \A i \in 1..Len(st) : i = cursor \/ i \in 1..cursor - 1
      BY <2>4, <2>5
    <3>4. \A i \in 1..Len(st) : Succeeded(i)
      BY <2>2, <3>2, <3>3
    <3>5. Len(st) = (cursor + 1) - 1
      BY <2>4, <2>5
    <3>6. QED BY <1>1, <2>2, <2>5, <2>6, <2>8, <3>1, <3>4, <3>5, GoesOnKept
  <2>9. QED BY <1>4, <2>3, <2>7, <2>8 DEF Advance
<1>5. QED BY <1>2, <1>3, <1>4 DEF OnResult

\* The record of an uncertain position.
LEMMA OnLookupKept ==
  ASSUME WatcherInv, PlanInv, RecordApplied, NEW r, OnLookup(r)
  PROVE  WatcherInv' /\ PlanInv'
<1>1. phase = "looking" /\ phase \in Receiving /\ Receive(r)
  BY DEF OnLookup, Receiving
<1>2. CASE StillUncertain
  BY <1>1, <1>2, StoppedKept DEF StillUncertain
<1>3. CASE Failed
  BY <1>1, <1>3, FailedKept
<1>4. CASE /\ r.kind = "found" /\ r.res.status = "success"
           /\ phase' = "toConfirm" /\ basis' = r.res.after /\ steps' = Append(steps, "success")
           /\ UNCHANGED <<plan, cursor, report, runs>>
  <2>1. Succeeded(cursor) /\ r.res.after \in State
    BY <1>1, <1>4, ResultIsOwn
  <2>2. PICK st : st = Append(steps, "success")
    OBVIOUS
  <2>3. /\ steps \in Seq({"success", "error"}) /\ \A i \in DOMAIN steps : steps[i] = "success"
        /\ Len(steps) = cursor - 1 /\ cursor \in 1..Len(Plan) /\ Len(Plan) \in Nat
    BY <1>1, StepsBehind, PlanFacts
  <2>4. /\ st \in Seq({"success", "error"}) /\ Len(st) = cursor /\ st[cursor] = "success"
        /\ DOMAIN st = 1..cursor /\ \A i \in 1..cursor - 1 : st[i] = steps[i]
    BY <2>2, <2>3, Appended
  <2>5. \A i \in DOMAIN st : st[i] = "success"
    BY <2>3, <2>4
  <2>6. \A i \in 1..cursor - 1 : Succeeded(i)
    BY <1>1, Received
  <2>7. \A i \in 1..Len(st) : i = cursor \/ i \in 1..cursor - 1
    BY <2>3, <2>4
  <2>8. \A i \in 1..Len(st) : Succeeded(i)
    BY <2>1, <2>6, <2>7
  <2>9. QED BY <1>1, <1>4, <2>1, <2>2, <2>3, <2>4, <2>5, <2>8, GoesOnKept
<1>5. QED BY <1>2, <1>3, <1>4 DEF OnLookup

\* The state that confirms a recovered result.
LEMMA OnConfirmationKept ==
  ASSUME WatcherInv, PlanInv, RecordApplied, NEW r, OnConfirmation(r)
  PROVE  WatcherInv' /\ PlanInv'
<1>1. phase = "confirming" /\ phase \in Receiving /\ Receive(r)
  BY DEF OnConfirmation, Receiving
<1>2. CASE Finished("paused", cursor, steps) \/ Finished("stale", cursor, steps)
  BY <1>1, <1>2, StoppedKept
<1>3. CASE /\ r.kind = "state" /\ ~Unconfirmed(r.sess, r.state)
           /\ cursor = Len(Plan) /\ Finished("completed", cursor, steps)
  <2>1. /\ slot \in Slot /\ pc[slot] = "answered" /\ r = reply[slot] /\ plan \in PlanHeader
    BY <1>1, <1>3, Received
  <2>2. r.state.turn <= game.turn
    BY <1>3, <2>1 DEF WatcherInv, TurnsPast
  <2>3. r.state.turn \in Int /\ game.turn \in Int
    <3>1. r \in Reply
      BY <2>1 DEF WatcherInv, IInv, TypeOK
    <3>2. r.state \in State
      BY <1>3, <3>1 DEF Reply
    <3>3. QED BY <3>2 DEF State, WatcherInv, IInv, TypeOK
  <2>4. game.turn > plan.turn
    BY <1>3, <2>1, <2>2, <2>3 DEF Unconfirmed, PlanHeader
  <2>5. Succeeded(cursor)
    BY <1>1 DEF PlanInv, Recovered
  <2>6. /\ steps \in Seq({"success", "error"}) /\ Len(steps) = cursor
        /\ \A i \in DOMAIN steps : steps[i] = "success"
    BY <1>1, StepsBehind
  <2>7. QED BY <1>1, <1>3, <2>4, <2>5, <2>6, CompletedKept
<1>4. QED BY <1>2, <1>3 DEF OnConfirmation

-----------------------------------------------------------------------------
(* The theorems.                                                           *)

\* No request, no plan, no report at first.
LEMMA ExecutionInitInv == ExecutionInit => ExecutionInv
<1> SUFFICES ASSUME ExecutionInit PROVE ExecutionInv
  OBVIOUS
<1>1. Init /\ ExecutorInit
  BY DEF ExecutionInit
<1>2. IInv /\ VerdictInv
  BY <1>1, InitInv, InitVerdicts
<1>3. TurnsPast
  BY <1>1 DEF Init, TurnsPast, Holding
<1>4. ExecutorTypeOK
  <2>1. 1 \in 1..Len(Plan) /\ Len(<<>>) <= Len(Plan) /\ 0 \in 0..MaxRuns
    BY PlanFacts, PlanAssumption
  <2>2. <<>> \in Seq({"success", "error"})
    OBVIOUS
  <2>3. QED BY <1>1, <2>1, <2>2 DEF ExecutorInit, ExecutorTypeOK
<1>5. Planned /\ Unplanned /\ Requests /\ OwnRequest
  BY <1>1 DEF Init, ExecutorInit, Planned, Unplanned, Requests, OwnRequest, Receiving
<1>6. Earlier /\ Recovered /\ SentInOrder /\ CompletedIsTrue /\ StepsOfPhase
  BY <1>1
  DEF ExecutorInit, Earlier, Recovered, SentInOrder, CompletedIsTrue, StepsOfPhase, Sending, Receiving
<1>7. QED BY <1>2, <1>3, <1>4, <1>5, <1>6 DEF ExecutionInv, WatcherInv, PlanInv

\* Every step of the executor, the watcher and the game keeps the invariant.
LEMMA ExecutionNextInv == ExecutionInv /\ [ExecutionNext]_allVars => ExecutionInv'
<1> SUFFICES ASSUME WatcherInv, PlanInv, [ExecutionNext]_allVars PROVE WatcherInv' /\ PlanInv'
  BY DEF ExecutionInv
<1>1. CASE UNCHANGED allVars
  <2>1. UNCHANGED vars /\ UNCHANGED executor /\ applied' = applied
    BY <1>1 DEF allVars
  <2>2. WatcherInv' /\ WatcherEffect /\ game.turn <= game'.turn
    BY <2>1, WatcherInvKept
  <2>3. RecordApplied
    BY <2>1 DEF RecordApplied, vars, PlanInv, ExecutorTypeOK
  <2>4. pc' = pc
    BY <2>1 DEF vars
  <2>5. QED BY <2>1, <2>2, <2>3, <2>4, ExecutorWaits DEF WatcherInv
<1>2. CASE WatcherSteps /\ RecordApplied
  <2>1. WatcherInv' /\ WatcherEffect /\ game.turn <= game'.turn
    BY <1>2, WatcherInvKept DEF WatcherSteps, AbandonedAnswer
  <2>2. slot \in Slot /\ pc[slot] # "idle" => pc'[slot] # "idle"
    <3>1. CASE AbandonedAnswer
      BY <3>1 DEF AbandonedAnswer, Hangup, WatcherInv, IInv, TypeOK
    <3>2. CASE GameSteps
      BY <3>2 DEF GameSteps, RunProgram, LoseProgram, GameMoves
    <3>3. CASE MainLoop
      <4>1. pc' = pc \/ ProcessEnds
        BY <3>3 DEF MainLoop, OpenSession, RefuseUnsafe, MainLock, MainRead, MainLeave,
           StopServing, CloseTuner, Restart
      <4>2. QED BY <4>1 DEF ProcessEnds
    <3>4. CASE \E t \in Slot : Handler(t)
      BY <3>4, HandlerStays DEF WatcherInv
    <3>5. QED BY <1>2, <3>1, <3>2, <3>3, <3>4 DEF WatcherSteps
  <2>3. QED BY <1>2, <2>1, <2>2, ExecutorWaits DEF WatcherInv, WatcherSteps
<1>3. CASE ExecutorSteps /\ RecordApplied
  <2>1. CASE MakePlan \/ Execute \/ Reconcile
    BY <1>3, <2>1, MakePlanKept, ExecuteKept, ReconcileKept
  <2>2. CASE Sends
    BY <1>3, <2>2, SendKept DEF Sends
  <2>3. CASE Receives
    BY <1>3, <2>3, OnStateKept, OnResultKept, OnLookupKept, OnConfirmationKept DEF Receives
  <2>4. QED BY <1>3, <2>1, <2>2, <2>3 DEF ExecutorSteps
<1>4. QED BY <1>1, <1>2, <1>3 DEF ExecutionNext

\* The invariant of the execution in every reachable state.
LEMMA Execution == ExecutionSpec => []ExecutionInv
  BY ExecutionInitInv, ExecutionNextInv, PTL DEF ExecutionSpec

\* Every state of the execution is well typed.
THEOREM ExecutorTypeTheorem == ExecutionSpec => []ExecutorTypeOK
<1>1. ExecutionInv => ExecutorTypeOK
  BY DEF ExecutionInv, PlanInv
<1>2. QED BY <1>1, Execution, PTL

\* Positions are sent strictly in order, for a plan of any length: also when requests time
\* out and are left in the lock queue, the plan is executed again or reconciled, or the
\* watcher is restarted under it.
THEOREM InOrderTheorem == ExecutionSpec => []SentInOrder
<1>1. ExecutionInv => SentInOrder
  BY DEF ExecutionInv, PlanInv
<1>2. QED BY <1>1, Execution, PTL

\* A completed report is true for a plan of any length: every position succeeded in the
\* plan's session, and the game is past the plan's turn.
THEOREM CompletedTheorem == ExecutionSpec => []CompletedIsTrue
<1>1. ExecutionInv => CompletedIsTrue
  BY DEF ExecutionInv, PlanInv
<1>2. QED BY <1>1, Execution, PTL

\* validate_execution_report accepts every report the executor builds.
THEOREM ReportTheorem == ExecutionSpec => []ReportIsValid
<1>1. ExecutionInv => ReportIsValid
  BY DEF ExecutionInv, PlanInv, StepsOfPhase, ReportIsValid
<1>2. QED BY <1>1, Execution, PTL

-----------------------------------------------------------------------------
(* When the orders of a plan took effect.  An order that is reported a     *)
(* success took effect in the plan's turn: the executor compares the state *)
(* before the command and the one that verified it, the game accepted the  *)
(* command between the two, and both are of the plan's turn.               *)

\* The turn of an acceptance is recorded, and is not ahead of the game.
Recorded(k) ==
  IF accepted[k] = 0 THEN applied[k] = None ELSE applied[k] \in 0..game.turn

\* A command that is being executed was not accepted before its before-state was read.
AcceptedSince(t) ==
  pc[t] \in {"sent", "polling"} /\ accepted[KeyOf(t)] > 0 =>
    seen[t].before.turn <= applied[KeyOf(t)]

\* A success was accepted between its two states.
AcceptedWithin(k) ==
  completed[k] # None /\ completed[k].res.status = "success" /\ accepted[k] > 0 =>
    /\ completed[k].res.before.turn <= applied[k]
    /\ applied[k] <= completed[k].res.after.turn

AcceptedInTime ==
  /\ \A k \in Key : Recorded(k) /\ AcceptedWithin(k)
  /\ \A t \in Slot : AcceptedSince(t)

\* Both states of a success are of the plan's turn.
InTurn(i) ==
  LET c == completed[PlanKey(i)] IN
  Succeeded(i) /\ c.res.before.turn = plan.turn /\ c.res.after.turn = plan.turn

StepsInTurn ==
  phase \notin {"idle", "planned"} =>
    \A i \in DOMAIN steps : steps[i] = "success" /\ i < Len(Plan) => InTurn(i)

\* The state that the next result must start from is of the plan's turn.
Uncertain == phase = "reported" /\ report.status = "recovery_required"

BasisInTurn ==
  /\ phase # "idle" => plan.basis.turn = plan.turn
  /\ phase \in {"toRead", "reading", "toAct", "acting", "toLook", "looking"} \/ Uncertain =>
       basis \in State /\ basis.turn = plan.turn

TurnInv == AcceptedInTime /\ StepsInTurn /\ BasisInTurn

-----------------------------------------------------------------------------
(* Steps of the watcher and the game.                                      *)

\* A step that accepts nothing: no thread comes to wait for a verdict of a command that
\* was accepted, and a new success is of the turns it was accepted in.
LEMMA NothingAccepted ==
  ASSUME IInv, AcceptedInTime, RecordApplied, accepted' = accepted,
         game'.turn \in Nat, game.turn <= game'.turn,
         \A u \in Slot : pc'[u] \in {"sent", "polling"} =>
           /\ job'[u] = job[u] /\ pc[u] \in Holding
           /\ \/ pc[u] \in {"sent", "polling"} /\ seen'[u].before = seen[u].before
              \/ accepted[KeyOf(u)] = 0,
         \A k \in Key : completed'[k] # None =>
           \/ completed'[k] = completed[k]
           \/ completed'[k].res.status # "success"
           \/ accepted[k] = 0
           \/ completed'[k].res.before.turn <= applied[k] /\ applied[k] <= completed'[k].res.after.turn
  PROVE  AcceptedInTime'
<1>1. \A k \in Key : applied'[k] = applied[k]
  BY DEF RecordApplied
<1>2. game.turn \in Nat
  BY DEF IInv, TypeOK, State
<1>3. ASSUME NEW k \in Key PROVE Recorded(k)' /\ AcceptedWithin(k)'
  <2>1. Recorded(k) /\ AcceptedWithin(k)
    BY DEF AcceptedInTime
  <2>2. Recorded(k)'
    BY <1>1, <1>2, <2>1 DEF Recorded
  <2>3. AcceptedWithin(k)'
    BY <1>1, <2>1 DEF AcceptedWithin
  <2>4. QED BY <2>2, <2>3
<1>4. ASSUME NEW u \in Slot PROVE AcceptedSince(u)'
  <2> SUFFICES ASSUME pc'[u] \in {"sent", "polling"}, accepted'[KeyOf(u)'] > 0
               PROVE  seen'[u].before.turn <= applied'[KeyOf(u)']
    BY DEF AcceptedSince
  <2>1. KeyOf(u) \in Key /\ KeyOf(u)' = KeyOf(u)
    BY Executing
  <2>2. accepted[KeyOf(u)] > 0 /\ pc[u] \in {"sent", "polling"} /\ seen'[u].before = seen[u].before
    BY <2>1
  <2>3. QED BY <1>1, <2>1, <2>2 DEF AcceptedInTime, AcceptedSince
<1>5. QED BY <1>3, <1>4 DEF AcceptedInTime

\* A terminal result.
LEMMA FinishInTime ==
  ASSUME IInv, AcceptedInTime, RecordApplied, NEW t \in Slot, pc[t] \in Holding,
         NEW status, NEW after, Finish(t, status, after), game' = game,
         status = "success" =>
           \/ accepted[KeyOf(t)] = 0
           \/ seen[t].before.turn <= applied[KeyOf(t)] /\ applied[KeyOf(t)] <= after.turn
  PROVE  AcceptedInTime'
<1> PICK e : e = [act |-> job[t].act,
                  res |-> [status |-> status, before |-> seen[t].before, after |-> after]]
  OBVIOUS
<1>1. /\ completed' = [completed EXCEPT ![KeyOf(t)] = e]
      /\ accepted' = accepted /\ job' = job /\ pc' = [pc EXCEPT ![t] = "answered"]
      /\ seen' = [seen EXCEPT ![t] = None]
  BY DEF Finish, Answer, Unlock
<1>2. KeyOf(t) \in Key
  BY Executing
<1>3. e.res.status = status /\ e.res.before = seen[t].before /\ e.res.after = after
  OBVIOUS
<1>4. \A k \in Key : completed'[k] # completed[k] => k = KeyOf(t) /\ completed'[k] = e
  BY <1>1, <1>2 DEF IInv, TypeOK
<1>5. \A u \in Slot : pc'[u] \in {"sent", "polling"} => u # t /\ pc'[u] = pc[u] /\ seen'[u] = seen[u]
  BY <1>1 DEF IInv, TypeOK
<1>6. game'.turn \in Nat /\ game.turn <= game'.turn
  BY DEF IInv, TypeOK, State
<1>7. QED BY <1>1, <1>3, <1>4, <1>5, <1>6, NothingAccepted DEF Holding

\* A step of a thread that moves on or answers, and gives no verdict.
LEMMA PlainInTime ==
  ASSUME IInv, AcceptedInTime, RecordApplied, NEW t \in Slot, NEW x, pc' = [pc EXCEPT ![t] = x],
         UNCHANGED <<game, job, completed, accepted>>,
         \A u \in Slot \ {t} : seen'[u] = seen[u],
         x \in {"sent", "polling"} =>
           /\ pc[t] \in Holding
           /\ \/ pc[t] \in {"sent", "polling"} /\ seen'[t].before = seen[t].before
              \/ accepted[KeyOf(t)] = 0
  PROVE  AcceptedInTime'
<1>1. \A u \in Slot : pc'[u] = IF u = t THEN x ELSE pc[u]
  BY DEF IInv, TypeOK
<1>2. game'.turn \in Nat /\ game.turn <= game'.turn
  BY DEF IInv, TypeOK, State
<1>3. \A u \in Slot : pc'[u] \in {"sent", "polling"} =>
        /\ pc[u] \in Holding
        /\ \/ pc[u] \in {"sent", "polling"} /\ seen'[u].before = seen[u].before
           \/ accepted[KeyOf(u)] = 0
  BY <1>1 DEF Holding
<1>4. QED BY <1>2, <1>3, NothingAccepted

\* Nothing of a command is accepted before it is submitted.
LEMMA NotYetAccepted ==
  ASSUME IInv, NEW t \in Slot, pc[t] = "ready"
  PROVE  accepted[KeyOf(t)] = 0
<1>1. KeyOf(t) \in Key
  BY Executing DEF Holding
<1>2. writes[KeyOf(t)] = 0
  BY DEF IInv, InProgress
<1>3. accepted[KeyOf(t)] \in Nat /\ accepted[KeyOf(t)] <= writes[KeyOf(t)]
  BY <1>1 DEF IInv, TypeOK, AtMostOnce
<1>4. QED BY <1>2, <1>3

\* Before the critical section, and on the way out of it without a verdict.
LEMMA OutsideInTime ==
  ASSUME IInv, AcceptedInTime, RecordApplied, NEW t \in Slot,
         Admit(t) \/ Enter(t) \/ ReadBefore(t) \/ RejectInvalid(t) \/ OutcomeUnknown(t) \/ RuntimeFailure(t)
  PROVE  AcceptedInTime'
<1>1. UNCHANGED <<game, job, completed, accepted>>
  BY DEF Admit, Enter, ReadState, Lookup, Replay, Begin, ReadBefore, RejectInvalid, OutcomeUnknown,
         RuntimeFailure
<1>2. PICK x : pc' = [pc EXCEPT ![t] = x] /\ x \notin {"sent", "polling"}
  <2>1. CASE Admit(t)
    BY <2>1 DEF Admit, Answer
  <2>2. CASE Enter(t)
    BY <2>2 DEF Enter, ReadState, Lookup, Replay, Begin, Answer
  <2>3. CASE ReadBefore(t) \/ RejectInvalid(t) \/ OutcomeUnknown(t) \/ RuntimeFailure(t)
    BY <2>3 DEF ReadBefore, RejectInvalid, OutcomeUnknown, RuntimeFailure, Answer
  <2>4. QED BY <2>1, <2>2, <2>3
<1>3. \A u \in Slot \ {t} : seen'[u] = seen[u]
  BY DEF Admit, Enter, ReadState, Lookup, Replay, Begin, ReadBefore, RejectInvalid, OutcomeUnknown,
         RuntimeFailure, Unlock, IInv, TypeOK
<1>4. QED BY <1>1, <1>2, <1>3, PlainInTime

\* The critical section.
LEMMA ExecutingInTime ==
  ASSUME IInv, AcceptedInTime, RecordApplied, NEW t \in Slot,
         AnswerLocally(t) \/ Submit(t) \/ TakeResponse(t) \/ VerifyTimeout(t) \/ Poll(t)
  PROVE  AcceptedInTime'
<1>1. pc[t] \in {"ready", "sent", "polling"} /\ pc[t] \in Holding /\ game' = game
  BY DEF AnswerLocally, Submit, TakeResponse, VerifyTimeout, Poll, Finish, Holding
<1>2. CASE AnswerLocally(t)
  BY <1>1, <1>2, NotYetAccepted, FinishInTime DEF AnswerLocally
<1>3. CASE Submit(t)
  <2>1. accepted[KeyOf(t)] = 0 /\ pc' = [pc EXCEPT ![t] = "sent"]
    BY <1>3, NotYetAccepted DEF Submit
  <2>2. UNCHANGED <<game, job, completed, accepted>> /\ \A u \in Slot \ {t} : seen'[u] = seen[u]
    BY <1>3 DEF Submit
  <2>3. QED BY <1>1, <2>1, <2>2, PlainInTime
<1>4. CASE TakeResponse(t)
  <2>1. CASE Finish(t, "error", seen[t].before)
    BY <1>1, <2>1, FinishInTime
  <2>2. CASE pc[t] = "sent" /\ pc' = [pc EXCEPT ![t] = "polling"]
             /\ UNCHANGED <<arrived, game, wire, mainVars, lock, job, seen, reply, caches, history>>
    BY <1>1, <2>2, PlainInTime
  <2>3. QED BY <1>4, <2>1, <2>2 DEF TakeResponse
<1>5. CASE VerifyTimeout(t)
  BY <1>1, <1>5, FinishInTime DEF VerifyTimeout
<1>6. CASE Poll(t)
  <2>1. CASE Finish(t, "success", game)
    <3>1. pc[t] = "polling" /\ KeyOf(t) \in Key
      BY <1>1, <1>6, Executing DEF Poll
    <3>2. accepted[KeyOf(t)] > 0 /\ accepted[KeyOf(t)] # 0
      BY <3>1 DEF IInv, InProgress
    <3>3. seen[t].before.turn <= applied[KeyOf(t)]
      BY <3>1, <3>2 DEF AcceptedInTime, AcceptedSince
    <3>4. applied[KeyOf(t)] <= game.turn
      BY <3>1, <3>2 DEF AcceptedInTime, Recorded, IInv, TypeOK, State
    <3>5. QED BY <1>1, <2>1, <3>3, <3>4, FinishInTime
  <2>2. CASE Finish(t, "error", game)
    BY <1>1, <2>2, FinishInTime
  <2>3. CASE seen' = [seen EXCEPT ![t].after = game]
             /\ UNCHANGED <<game, wire, mainVars, arrived, lock, pc, job, reply, caches, history>>
    <3>1. seen[t] \in Seen
      BY <1>1, Executing
    <3>2. seen'[t].before = seen[t].before /\ \A u \in Slot \ {t} : seen'[u] = seen[u]
      BY <2>3, <3>1 DEF IInv, TypeOK, Seen
    <3>3. pc' = [pc EXCEPT ![t] = "polling"] /\ pc[t] = "polling"
      BY <1>6, <2>3 DEF Poll, IInv, TypeOK
    <3>4. QED BY <1>1, <2>3, <3>2, <3>3, PlainInTime
  <2>4. QED BY <1>6, <2>1, <2>2, <2>3 DEF Poll
<1>7. QED BY <1>2, <1>3, <1>4, <1>5, <1>6

\* The game runs a program: it is accepted in the turn of that moment.
LEMMA RunProgramInTime ==
  ASSUME IInv, WatcherInv, AcceptedInTime, RecordApplied, NEW k \in Key, NEW a \in Act, RunProgram(k, a)
  PROVE  AcceptedInTime'
<1>1. PICK ok \in BOOLEAN :
        /\ game' = IF ok THEN Effect(a, game) ELSE game
        /\ accepted' = [accepted EXCEPT ![k] = @ + (IF ok THEN 1 ELSE 0)]
        /\ seen' = [t \in Slot |-> IF pc[t] = "sent" /\ KeyOf(t) = k
                                   THEN [seen[t] EXCEPT !.resp = IF ok THEN "accepted" ELSE "refused"]
                                   ELSE seen[t]]
  BY DEF RunProgram
<1>2. <<k, a>> \in wire /\ UNCHANGED <<pc, job, completed, writes>>
  BY DEF RunProgram
<1>3. writes[k] = 1 /\ accepted[k] = 0
  BY <1>2 DEF IInv, WireFresh
<1>4. game'.turn = game.turn /\ game.turn \in Nat
  BY <1>1 DEF Effect, IInv, TypeOK, State
<1>5. \A t \in Slot : pc[t] \in Holding => seen'[t].before = seen[t].before
  <2> TAKE t \in Slot
  <2> SUFFICES ASSUME pc[t] \in Holding PROVE seen'[t].before = seen[t].before
    OBVIOUS
  <2>1. seen[t] \in Seen
    BY Executing
  <2>2. QED BY <1>1, <2>1 DEF Seen
<1>6. CASE ~ok
  <2>1. accepted' = accepted
    BY <1>1, <1>6 DEF IInv, TypeOK
  <2>2. QED BY <1>2, <1>4, <1>5, <2>1, NothingAccepted DEF Holding
<1>7. CASE ok
  <2>1. accepted'[k] = 1 /\ \A j \in Key \ {k} : accepted'[j] = accepted[j]
    BY <1>1, <1>3, <1>7 DEF IInv, TypeOK
  <2>2. applied'[k] = game.turn /\ \A j \in Key \ {k} : applied'[j] = applied[j]
    BY <1>3, <2>1 DEF RecordApplied
  <2>3. ASSUME NEW j \in Key PROVE Recorded(j)'
    BY <1>4, <2>1, <2>2 DEF AcceptedInTime, Recorded
  <2>4. ASSUME NEW j \in Key PROVE AcceptedWithin(j)'
    <3>1. CASE j = k
      BY <1>2, <1>3, <3>1 DEF AcceptedWithin, WatcherInv, VerdictInv, SuccessIsBacked
    <3>2. CASE j # k
      BY <1>2, <2>1, <2>2, <3>2 DEF AcceptedInTime, AcceptedWithin
    <3>3. QED BY <3>1, <3>2
  <2>5. ASSUME NEW t \in Slot PROVE AcceptedSince(t)'
    <3> SUFFICES ASSUME pc[t] \in {"sent", "polling"}, accepted'[KeyOf(t)] > 0
                 PROVE  seen[t].before.turn <= applied'[KeyOf(t)]
      BY <1>2, <1>5 DEF AcceptedSince, Holding
    <3>1. KeyOf(t) \in Key
      BY Executing DEF Holding
    <3>2. CASE KeyOf(t) = k
      BY <2>2, <3>2 DEF WatcherInv, TurnsPast, Holding
    <3>3. CASE KeyOf(t) # k
      BY <2>1, <2>2, <3>1, <3>3 DEF AcceptedInTime, AcceptedSince
    <3>4. QED BY <3>2, <3>3
  <2>6. QED BY <2>3, <2>4, <2>5 DEF AcceptedInTime
<1>8. QED BY <1>6, <1>7

\* Everything around the threads.
LEMMA SurroundingsInTime ==
  ASSUME IInv, AcceptedInTime, RecordApplied, game'.turn \in Nat, game.turn <= game'.turn,
         \/ MainLoop
         \/ \E k \in Key, a \in Act : LoseProgram(k, a)
         \/ GameMoves
         \/ \E t \in Slot : Hangup(t) \/ \E op, c, a, s : Connect(t, op, c, a, s)
         \/ UNCHANGED vars
  PROVE  AcceptedInTime'
<1>1. UNCHANGED <<completed, accepted>>
  BY DEF MainLoop, OpenSession, RefuseUnsafe, MainLock, MainRead, MainLeave, StopServing, CloseTuner,
         ProcessEnds, Restart, LoseProgram, GameMoves, Hangup, Connect, vars
<1>2. \A u \in Slot : pc'[u] \in {"sent", "polling"} => pc'[u] = pc[u] /\ job'[u] = job[u] /\ seen'[u] = seen[u]
  <2>1. CASE MainLoop
    BY <2>1 DEF MainLoop, OpenSession, RefuseUnsafe, MainLock, MainRead, MainLeave, StopServing,
                CloseTuner, ProcessEnds, Restart, IInv, TypeOK, Busy, Holding
  <2>2. CASE \/ \E k \in Key, a \in Act : LoseProgram(k, a)
             \/ GameMoves \/ UNCHANGED vars
    BY <2>2 DEF LoseProgram, GameMoves, vars
  <2>3. CASE \E t \in Slot : Hangup(t) \/ \E op, c, a, s : Connect(t, op, c, a, s)
    BY <2>3 DEF Hangup, Connect, IInv, TypeOK
  <2>4. QED BY <2>1, <2>2, <2>3
<1>3. QED BY <1>1, <1>2, NothingAccepted DEF Holding

\* Every step of the watcher, the game and the threads.
LEMMA WatcherInTime ==
  ASSUME WatcherInv, AcceptedInTime, RecordApplied,
         \/ MainLoop \/ (\E t \in Slot : Handler(t)) \/ GameSteps
         \/ \E t \in Slot : Hangup(t)
         \/ UNCHANGED vars
  PROVE  AcceptedInTime'
<1>1. IInv /\ IInv' /\ game.turn <= game'.turn /\ game'.turn \in Nat
  <2>1. WatcherInv' /\ game.turn <= game'.turn
    BY WatcherInvKept
  <2>2. QED BY <2>1 DEF WatcherInv, IInv, TypeOK, State
<1>2. CASE \E t \in Slot : Handler(t)
  <2>1. PICK t \in Slot : Handler(t)
    BY <1>2
  <2>2. CASE \/ Admit(t) \/ Enter(t) \/ ReadBefore(t) \/ RejectInvalid(t) \/ OutcomeUnknown(t)
             \/ RuntimeFailure(t)
    BY <1>1, <2>2, OutsideInTime
  <2>3. CASE AnswerLocally(t) \/ Submit(t) \/ TakeResponse(t) \/ VerifyTimeout(t) \/ Poll(t)
    BY <1>1, <2>3, ExecutingInTime
  <2>4. QED BY <2>1, <2>2, <2>3 DEF Handler, Progress, ResponseTimeout
<1>3. CASE \E k \in Key, a \in Act : RunProgram(k, a)
  BY <1>1, <1>3, RunProgramInTime
<1>4. CASE \/ MainLoop
           \/ \E k \in Key, a \in Act : LoseProgram(k, a)
           \/ GameMoves
           \/ \E t \in Slot : Hangup(t)
           \/ UNCHANGED vars
  BY <1>1, <1>4, SurroundingsInTime
<1>5. QED BY <1>2, <1>3, <1>4 DEF GameSteps

-----------------------------------------------------------------------------
(* Steps of the executor.                                                  *)

\* A step of the watcher keeps the verdicts that are recorded.
VerdictsKept == \A k \in Key : completed[k] # None => completed'[k] = completed[k]

\* With the verdicts stay the positions that are in the plan's turn.
LEMMA InTurnKept ==
  ASSUME plan \in PlanHeader, VerdictsKept, plan' = plan
  PROVE  \A i \in 1..Len(Plan) : InTurn(i) => InTurn(i)'
<1> SUFFICES ASSUME NEW i \in 1..Len(Plan), InTurn(i) PROVE InTurn(i)'
  OBVIOUS
<1>1. PlanKey(i) \in Key /\ PlanKey(i)' = PlanKey(i)
  BY PlanKeyTyped DEF PlanKey
<1>2. completed[PlanKey(i)] # None /\ completed'[PlanKey(i)] = completed[PlanKey(i)]
  BY <1>1 DEF InTurn, Succeeded, VerdictsKept
<1>3. Succeeded(i)'
  BY <1>1, <1>2 DEF InTurn, Succeeded
<1>4. QED BY <1>1, <1>2, <1>3 DEF InTurn

\* The executor waits, or sends.
LEMMA WaitingInTurn ==
  ASSUME ExecutorTypeOK, Planned, StepsInTurn, BasisInTurn, VerdictsKept,
         UNCHANGED <<plan, basis, steps, report>>,
         \/ phase' = phase
         \/ <<phase, phase'>> \in {<<"toRead", "reading">>, <<"toAct", "acting">>,
                                   <<"toLook", "looking">>, <<"toConfirm", "confirming">>}
  PROVE  StepsInTurn' /\ BasisInTurn'
<1>1. /\ phase' \notin {"idle", "planned"} => phase \notin {"idle", "planned"} /\ plan \in PlanHeader
      /\ phase' # "idle" => phase # "idle"
      /\ phase' \in {"toRead", "reading", "toAct", "acting", "toLook", "looking"} \/ Uncertain'
           => phase \in {"toRead", "reading", "toAct", "acting", "toLook", "looking"} \/ Uncertain
  BY DEF Planned, Uncertain
<1>2. \A i \in DOMAIN steps : i \in 1..Len(Plan)
  BY PlanFacts DEF ExecutorTypeOK
<1>3. StepsInTurn'
  BY <1>1, <1>2, InTurnKept DEF StepsInTurn
<1>4. BasisInTurn'
  BY <1>1 DEF BasisInTurn
<1>5. QED BY <1>3, <1>4

\* A plan is made, executed or reconciled.
LEMMA InvokedInTurn ==
  ASSUME WatcherInv, PlanInv, StepsInTurn, BasisInTurn, MakePlan \/ Execute \/ Reconcile
  PROVE  StepsInTurn' /\ BasisInTurn'
<1>1. CASE MakePlan
  BY <1>1 DEF MakePlan, StepsInTurn, BasisInTurn, Uncertain
<1>2. CASE Execute
  <2>1. plan' = plan /\ phase # "idle" /\ phase' = "toRead" /\ basis' = plan.basis /\ steps' = <<>>
    BY <1>2 DEF Execute
  <2>2. plan \in PlanHeader
    BY <2>1 DEF PlanInv, Planned
  <2>3. QED BY <2>1, <2>2 DEF StepsInTurn, BasisInTurn, PlanHeader, Uncertain
<1>3. CASE Reconcile
  <2>1. UNCHANGED <<vars, plan, basis, steps>> /\ Uncertain /\ phase' = "toLook"
    BY <1>3 DEF Reconcile, Uncertain
  <2>2. plan \in PlanHeader /\ VerdictsKept
    BY <2>1 DEF PlanInv, Planned, Uncertain, VerdictsKept, vars
  <2>3. \A i \in DOMAIN steps : i \in 1..Len(Plan)
    BY PlanFacts DEF PlanInv, ExecutorTypeOK
  <2>4. StepsInTurn'
    BY <2>1, <2>2, <2>3, InTurnKept DEF StepsInTurn, Uncertain
  <2>5. BasisInTurn'
    BY <2>1 DEF BasisInTurn, Uncertain
  <2>6. QED BY <2>4, <2>5
<1>4. QED BY <1>1, <1>2, <1>3

\* The answer ends the invocation, or the executor goes on with it.
LEMMA AnsweredInTurn ==
  ASSUME WatcherInv, PlanInv, BasisInTurn, phase \in Receiving, NEW r, Receive(r), plan' = plan,
         NEW st \in Seq({"success", "error"}), steps' = st, Len(st) <= Len(Plan),
         \A i \in DOMAIN st : st[i] = "success" /\ i < Len(Plan) => InTurn(i),
         phase' \in {"toRead", "toAct"} \/ Uncertain' => basis' \in State /\ basis'.turn = plan.turn,
         phase' \in {"toRead", "toAct", "toConfirm", "reported"}
  PROVE  StepsInTurn' /\ BasisInTurn'
<1>1. plan \in PlanHeader /\ VerdictsKept
  BY Received DEF WatcherEffect, VerdictsKept
<1>2. \A i \in DOMAIN st : i \in 1..Len(Plan)
  BY PlanFacts
<1>3. StepsInTurn'
  BY <1>1, <1>2, InTurnKept DEF StepsInTurn
<1>4. phase # "idle"
  BY DEF Receiving
<1>5. BasisInTurn'
  BY <1>4 DEF BasisInTurn
<1>6. QED BY <1>3, <1>5

\* A report without a new step: only one that asks for recovery keeps a basis to go on from.
LEMMA StoppedInTurn ==
  ASSUME WatcherInv, PlanInv, StepsInTurn, BasisInTurn, phase \in Receiving, NEW r, Receive(r),
         NEW status, NEW next, Finished(status, next, steps),
         status = "recovery_required" => phase # "confirming"
  PROVE  StepsInTurn' /\ BasisInTurn'
<1>1. /\ phase' = "reported" /\ report'.status = status /\ steps' = steps
      /\ UNCHANGED <<plan, basis>>
  BY DEF Finished
<1>2. steps \in Seq({"success", "error"}) /\ Len(steps) <= Len(Plan)
  BY DEF PlanInv, ExecutorTypeOK
<1>3. \A i \in DOMAIN steps : steps[i] = "success" /\ i < Len(Plan) => InTurn(i)
  BY DEF StepsInTurn, Receiving
<1>4. Uncertain' => basis' \in State /\ basis'.turn = plan.turn
  BY <1>1 DEF BasisInTurn, Uncertain, Receiving
<1>5. QED BY <1>1, <1>2, <1>3, <1>4, AnsweredInTurn

\* The steps with one more.
LEMMA OneMoreStep ==
  ASSUME WatcherInv, PlanInv, StepsInTurn, phase \in {"acting", "looking"},
         NEW x \in {"success", "error"}, NEW st, st = Append(steps, x),
         x = "success" /\ cursor < Len(Plan) => InTurn(cursor)
  PROVE  /\ st \in Seq({"success", "error"}) /\ Len(st) <= Len(Plan)
         /\ \A i \in DOMAIN st : st[i] = "success" /\ i < Len(Plan) => InTurn(i)
<1>1. /\ steps \in Seq({"success", "error"}) /\ Len(steps) = cursor - 1
      /\ cursor \in 1..Len(Plan) /\ Len(Plan) \in Nat
  BY StepsBehind
<1>2. /\ st \in Seq({"success", "error"}) /\ Len(st) = cursor /\ DOMAIN st = 1..cursor
      /\ st[cursor] = x /\ \A i \in 1..cursor - 1 : st[i] = steps[i]
  BY <1>1, Appended
<1>3. \A i \in DOMAIN st : i = cursor \/ (i \in DOMAIN steps /\ i \in 1..cursor - 1)
  BY <1>1, <1>2
<1>4. \A i \in DOMAIN steps : steps[i] = "success" /\ i < Len(Plan) => InTurn(i)
  BY DEF StepsInTurn
<1>5. \A i \in DOMAIN st : st[i] = "success" /\ i < Len(Plan) => InTurn(i)
  BY <1>2, <1>3, <1>4
<1>6. QED BY <1>1, <1>2, <1>5

\* A failure.
LEMMA FailedInTurn ==
  ASSUME WatcherInv, PlanInv, StepsInTurn, BasisInTurn, phase \in {"acting", "looking"},
         NEW r, Receive(r), Failed
  PROVE  StepsInTurn' /\ BasisInTurn'
<1>1. PICK st : st = Append(steps, "error")
  OBVIOUS
<1>2. /\ st \in Seq({"success", "error"}) /\ Len(st) <= Len(Plan)
      /\ \A i \in DOMAIN st : st[i] = "success" /\ i < Len(Plan) => InTurn(i)
  BY <1>1, OneMoreStep
<1>3. phase' = "reported" /\ report'.status = "failed" /\ steps' = st /\ plan' = plan
  BY <1>1 DEF Failed, Finished
<1>4. ~Uncertain' /\ phase \in Receiving
  BY <1>3 DEF Uncertain, Receiving
<1>5. QED BY <1>2, <1>3, <1>4, AnsweredInTurn

\* A success that is believed: it starts from the basis and passes the postcondition.
LEMMA BelievedInTurn ==
  ASSUME WatcherInv, PlanInv, BasisInTurn, phase \in {"acting", "looking"}, NEW r, Receive(r),
         r.kind \in {"result", "found"}, r.res.status = "success", r.res.before = basis,
         ~PostconditionError(r.res.after), cursor # Len(Plan)
  PROVE  InTurn(cursor) /\ r.res.after \in State /\ r.res.after.turn = plan.turn
<1>1. phase \in Receiving
  BY DEF Receiving
<1>2. /\ completed[PlanKey(cursor)] = [act |-> Plan[cursor], res |-> r.res]
      /\ Succeeded(cursor) /\ r.res.after \in State
  BY <1>1, ResultIsOwn
<1>3. basis.turn = plan.turn /\ r.res.after.turn = plan.turn
  BY DEF BasisInTurn, PostconditionError
<1>4. QED BY <1>2, <1>3 DEF InTurn

\* The four answers.
LEMMA ReceivedInTurn ==
  ASSUME WatcherInv, PlanInv, StepsInTurn, BasisInTurn, NEW r,
         OnState(r) \/ OnResult(r) \/ OnLookup(r) \/ OnConfirmation(r)
  PROVE  StepsInTurn' /\ BasisInTurn'
<1>1. /\ Receive(r) /\ phase \in Receiving
      /\ (OnResult(r) => phase = "acting") /\ (OnLookup(r) => phase = "looking")
  BY DEF OnState, OnResult, OnLookup, OnConfirmation, Receiving
<1>2. CASE OnState(r)
  <2>1. CASE phase' = "toAct" /\ UNCHANGED <<plan, cursor, basis, steps, report, runs>>
    <3>1. steps \in Seq({"success", "error"}) /\ Len(steps) <= Len(Plan)
      BY DEF PlanInv, ExecutorTypeOK
    <3>2. \A i \in DOMAIN steps : steps[i] = "success" /\ i < Len(Plan) => InTurn(i)
      BY <1>1 DEF StepsInTurn, Receiving
    <3>3. basis \in State /\ basis.turn = plan.turn
      BY <1>2 DEF OnState, BasisInTurn
    <3>4. QED BY <1>1, <2>1, <3>1, <3>2, <3>3, AnsweredInTurn
  <2>2. CASE Finished("paused", cursor - 1, steps) \/ Finished("stale", cursor - 1, steps)
    BY <1>1, <2>2, StoppedInTurn
  <2>3. QED BY <1>2, <2>1, <2>2 DEF OnState
<1>3. CASE OnResult(r)
  <2>1. phase = "acting"
    BY <1>3 DEF OnResult
  <2>2. CASE Finished("recovery_required", cursor - 1, steps)
    BY <1>1, <2>1, <2>2, StoppedInTurn
  <2>3. CASE Failed
    BY <1>1, <2>1, <2>3, FailedInTurn
  <2>4. CASE r.kind = "result" /\ Advance(r.res) /\ ~Failed
    <3>1. r.res.before = basis /\ r.res.status = "success" /\ ~PostconditionError(r.res.after)
      BY <2>4 DEF Advance
    <3>2. cursor # Len(Plan) => InTurn(cursor) /\ r.res.after \in State /\ r.res.after.turn = plan.turn
      BY <1>1, <2>1, <2>4, <3>1, BelievedInTurn
    <3>3. PICK st : st = Append(steps, "success")
      OBVIOUS
    <3>4. cursor < Len(Plan) => cursor # Len(Plan)
      BY <1>1, PlanFacts, Received
    <3>5. /\ st \in Seq({"success", "error"}) /\ Len(st) <= Len(Plan)
          /\ \A i \in DOMAIN st : st[i] = "success" /\ i < Len(Plan) => InTurn(i)
      BY <2>1, <3>2, <3>3, <3>4, OneMoreStep
    <3>6. CASE cursor = Len(Plan) /\ Finished("completed", cursor, st)
      <4>1. phase' = "reported" /\ steps' = st /\ plan' = plan /\ ~Uncertain'
        BY <3>6 DEF Finished, Uncertain
      <4>2. QED BY <1>1, <3>5, <4>1, AnsweredInTurn
    <3>7. CASE cursor # Len(Plan) /\ phase' = "toRead" /\ steps' = st /\ basis' = r.res.after
               /\ UNCHANGED <<plan, report, runs>>
      BY <1>1, <3>2, <3>5, <3>7, AnsweredInTurn
    <3>8. QED BY <2>4, <3>3, <3>6, <3>7 DEF Advance
  <2>5. QED BY <1>3, <2>2, <2>3, <2>4 DEF OnResult
<1>4. CASE OnLookup(r)
  <2>1. phase = "looking"
    BY <1>4 DEF OnLookup
  <2>2. CASE StillUncertain
    BY <1>1, <2>1, <2>2, StoppedInTurn DEF StillUncertain
  <2>3. CASE Failed
    BY <1>1, <2>1, <2>3, FailedInTurn
  <2>4. CASE /\ r.kind = "found" /\ r.res.before = basis /\ r.res.status = "success"
             /\ ~PostconditionError(r.res.after)
             /\ phase' = "toConfirm" /\ steps' = Append(steps, "success")
             /\ UNCHANGED <<plan, cursor, report, runs>>
    <3>1. cursor < Len(Plan) => InTurn(cursor)
      <4>1. cursor < Len(Plan) => cursor # Len(Plan)
        BY <1>1, PlanFacts, Received
      <4>2. QED BY <1>1, <2>1, <2>4, <4>1, BelievedInTurn
    <3>2. PICK st : st = Append(steps, "success")
      OBVIOUS
    <3>3. /\ st \in Seq({"success", "error"}) /\ Len(st) <= Len(Plan)
          /\ \A i \in DOMAIN st : st[i] = "success" /\ i < Len(Plan) => InTurn(i)
      BY <2>1, <3>1, <3>2, OneMoreStep
    <3>4. ~Uncertain'
      BY <2>4 DEF Uncertain
    <3>5. QED BY <1>1, <2>4, <3>2, <3>3, <3>4, AnsweredInTurn
  <2>5. QED BY <1>4, <2>2, <2>3, <2>4 DEF OnLookup
<1>5. CASE OnConfirmation(r)
  <2>1. PICK status \in {"paused", "stale", "completed"} : Finished(status, cursor, steps)
    BY <1>5 DEF OnConfirmation
  <2>2. QED BY <1>1, <2>1, StoppedInTurn
<1>6. QED BY <1>2, <1>3, <1>4, <1>5

-----------------------------------------------------------------------------
(* The theorem.                                                            *)

\* Nothing is accepted at first, and no plan is made.
LEMMA TurnsInitially == ExecutionInit => TurnInv
<1> SUFFICES ASSUME ExecutionInit PROVE TurnInv
  OBVIOUS
<1>1. Init /\ ExecutorInit
  BY DEF ExecutionInit
<1>2. AcceptedInTime
  BY <1>1 DEF Init, ExecutorInit, AcceptedInTime, Recorded, AcceptedWithin, AcceptedSince
<1>3. StepsInTurn /\ BasisInTurn
  BY <1>1 DEF ExecutorInit, StepsInTurn, BasisInTurn, Uncertain
<1>4. QED BY <1>2, <1>3 DEF TurnInv

\* What each step of the execution does to the watcher.
LEMMA ExecutionSteps ==
  ASSUME ExecutionInv, ExecutionNext
  PROVE  \/ MainLoop \/ (\E t \in Slot : Handler(t)) \/ GameSteps
         \/ \E t \in Slot : Hangup(t)
         \/ \E t \in Slot : \E op, c, a, s : Connect(t, op, c, a, s)
         \/ UNCHANGED vars
<1>1. CASE WatcherSteps
  BY <1>1 DEF WatcherSteps, AbandonedAnswer
<1>2. CASE MakePlan \/ Execute \/ Reconcile
  BY <1>2 DEF MakePlan, Execute, Reconcile
<1>3. CASE Sends
  BY <1>3 DEF Sends, SendRequest
<1>4. CASE Receives
  <2>1. PICK r : OnState(r) \/ OnResult(r) \/ OnLookup(r) \/ OnConfirmation(r)
    BY <1>4 DEF Receives
  <2>2. Receive(r) /\ phase \in Receiving
    BY <2>1 DEF OnState, OnResult, OnLookup, OnConfirmation, Receiving
  <2>3. slot # None => slot \in Slot
    BY <2>2 DEF ExecutionInv, PlanInv, OwnRequest
  <2>4. QED BY <2>2, <2>3 DEF Receive
<1>5. QED BY <1>1, <1>2, <1>3, <1>4 DEF ExecutionNext, ExecutorSteps

\* Every step of the execution keeps the turns.
LEMMA TurnsKept == ExecutionInv /\ ExecutionInv' /\ TurnInv /\ [ExecutionNext]_allVars => TurnInv'
<1> SUFFICES ASSUME ExecutionInv, ExecutionInv', TurnInv, [ExecutionNext]_allVars PROVE TurnInv'
  OBVIOUS
<1>1. WatcherInv /\ PlanInv /\ AcceptedInTime /\ StepsInTurn /\ BasisInTurn /\ IInv /\ IInv'
  BY DEF ExecutionInv, TurnInv, WatcherInv
<1>2. ExecutorTypeOK /\ Planned
  BY <1>1 DEF PlanInv
<1>3. CASE UNCHANGED allVars
  <2>1. UNCHANGED vars /\ UNCHANGED executor /\ applied' = applied
    BY <1>3 DEF allVars
  <2>2. RecordApplied
    BY <1>2, <2>1 DEF RecordApplied, vars, ExecutorTypeOK
  <2>3. AcceptedInTime'
    BY <1>1, <2>1, <2>2, WatcherInTime
  <2>4. VerdictsKept
    BY <2>1 DEF VerdictsKept, vars
  <2>5. StepsInTurn' /\ BasisInTurn'
    BY <1>1, <1>2, <2>1, <2>4, WaitingInTurn DEF executor
  <2>6. QED BY <2>3, <2>5 DEF TurnInv
<1>4. CASE ExecutionNext
  <2>1. RecordApplied
    BY <1>4 DEF ExecutionNext
  <2>2. AcceptedInTime'
    <3>1. CASE \E t \in Slot : \E op, c, a, s : Connect(t, op, c, a, s)
      <4>1. game' = game /\ game.turn \in Nat
        BY <1>1, <3>1 DEF Connect, IInv, TypeOK, State
      <4>2. game'.turn \in Nat /\ game.turn <= game'.turn
        BY <4>1
      <4>3. QED BY <1>1, <2>1, <3>1, <4>2, SurroundingsInTime
    <3>2. CASE \/ MainLoop \/ (\E t \in Slot : Handler(t)) \/ GameSteps
               \/ \E t \in Slot : Hangup(t)
               \/ UNCHANGED vars
      BY <1>1, <2>1, <3>2, WatcherInTime
    <3>3. QED BY <1>4, <3>1, <3>2, ExecutionSteps
  <2>3. CASE WatcherSteps
    <3>1. VerdictsKept
      BY <1>1, <2>3, WatcherInvKept DEF WatcherSteps, AbandonedAnswer, WatcherEffect, VerdictsKept
    <3>2. StepsInTurn' /\ BasisInTurn'
      BY <1>1, <1>2, <2>3, <3>1, WaitingInTurn DEF WatcherSteps, executor
    <3>3. QED BY <2>2, <3>2 DEF TurnInv
  <2>4. CASE MakePlan \/ Execute \/ Reconcile
    BY <1>1, <2>2, <2>4, InvokedInTurn DEF TurnInv
  <2>5. CASE Sends
    <3>1. PICK from, to, op :
            /\ <<from, to>> \in {<<"toRead", "reading">>, <<"toAct", "acting">>,
                                 <<"toLook", "looking">>, <<"toConfirm", "confirming">>}
            /\ SendRequest(from, to, op, plan.sess)
      BY <2>5 DEF Sends
    <3>2. VerdictsKept
      BY <3>1 DEF SendRequest, Connect, VerdictsKept, vars
    <3>3. <<phase, phase'>> \in {<<"toRead", "reading">>, <<"toAct", "acting">>,
                                 <<"toLook", "looking">>, <<"toConfirm", "confirming">>}
          /\ UNCHANGED <<plan, basis, steps, report>>
      BY <3>1 DEF SendRequest
    <3>4. QED BY <1>1, <1>2, <2>2, <3>2, <3>3, WaitingInTurn DEF TurnInv
  <2>6. CASE Receives
    BY <1>1, <2>2, <2>6, ReceivedInTurn DEF Receives, TurnInv
  <2>7. QED BY <1>4, <2>3, <2>4, <2>5, <2>6 DEF ExecutionNext, ExecutorSteps
<1>5. QED BY <1>3, <1>4

\* An order that a report calls a success took effect in the plan's turn, or in none: for a
\* plan of any length, although it was written after its turn was checked, the human plays
\* on, and the answer may have been looked up later (turn_executor.py 309-344).
THEOREM InTurnTheorem == ExecutionSpec => []OrdersInPlanTurn
<1>1. ExecutionInv /\ TurnInv => OrdersInPlanTurn
  <2> SUFFICES ASSUME ExecutionInv, TurnInv, phase = "reported",
                      NEW i \in DOMAIN steps, steps[i] = "success", i < Len(Plan)
               PROVE  applied[PlanKey(i)] \in {plan.turn, None}
    BY DEF OrdersInPlanTurn, TookEffectInPlanTurn
  <2>1. InTurn(i)
    BY DEF TurnInv, StepsInTurn
  <2>2. i \in 1..Len(Plan) /\ plan \in PlanHeader
    BY PlanFacts DEF ExecutionInv, PlanInv, ExecutorTypeOK, Planned
  <2>3. PlanKey(i) \in Key
    BY <2>2, PlanKeyTyped
  <2>4. Recorded(PlanKey(i)) /\ AcceptedWithin(PlanKey(i))
    BY <2>3 DEF TurnInv, AcceptedInTime
  <2>5. accepted[PlanKey(i)] \in Nat /\ plan.turn \in Int
    BY <2>2, <2>3 DEF ExecutionInv, WatcherInv, IInv, TypeOK, PlanHeader
  <2>6. CASE accepted[PlanKey(i)] = 0
    BY <2>4, <2>6 DEF Recorded
  <2>7. CASE accepted[PlanKey(i)] # 0
    <3>1. applied[PlanKey(i)] \in Int
      BY <2>4, <2>7 DEF Recorded
    <3>2. plan.turn <= applied[PlanKey(i)] /\ applied[PlanKey(i)] <= plan.turn
      BY <2>1, <2>4, <2>5, <2>7 DEF AcceptedWithin, InTurn, Succeeded
    <3>3. QED BY <2>5, <3>1, <3>2
  <2>8. QED BY <2>6, <2>7
<1>2. ExecutionSpec => [](ExecutionInv /\ TurnInv)
  BY ExecutionInitInv, ExecutionNextInv, TurnsInitially, TurnsKept, PTL DEF ExecutionSpec
<1>3. QED BY <1>1, <1>2, PTL

-----------------------------------------------------------------------------
(* The watcher under the executor.  It asks for the session of its plan,   *)
(* whichever session is served by then, so this is not the client of Next, *)
(* and what Spec implies does not carry over by itself.                    *)

\* A plan is executed through the ledger of the watcher: each of its commands is written
\* and accepted at most once and settled once, whatever the executor gives up on, asks
\* for again after a restart or looks up (turn_executor.py 309-344, watch.py 197-225).
THEOREM ExecutionLedgerTheorem == ExecutionSpec => ImplementsLedger
<1>1. ExecutionInv /\ [ExecutionNext]_allVars => [Ledger!LedgerNext]_Ledger!ledger
  <2> SUFFICES ASSUME ExecutionInv, [ExecutionNext]_allVars PROVE [Ledger!LedgerNext]_Ledger!ledger
    OBVIOUS
  <2>1. IInv
    BY DEF ExecutionInv, WatcherInv
  <2>2. CASE \E t \in Slot : Handler(t)
    BY <2>1, <2>2, HandlerLedgerStep
  <2>3. CASE MainLoop
    BY <2>3, LedgerStutter
    DEF MainLoop, OpenSession, RefuseUnsafe, MainLock, MainRead, MainLeave, StopServing, CloseTuner,
        ProcessEnds, Restart
  <2>4. CASE GameSteps
    <3>1. CASE \E k \in Key, a \in Act : RunProgram(k, a)
      BY <2>1, <3>1, RunAccepts
    <3>2. CASE (\E k \in Key, a \in Act : LoseProgram(k, a)) \/ GameMoves
      BY <3>2, LedgerStutter DEF LoseProgram, GameMoves
    <3>3. QED BY <2>4, <3>1, <3>2 DEF GameSteps
  <2>5. CASE \/ \E t \in Slot : Hangup(t)
             \/ \E t \in Slot : \E op, c, a, s : Connect(t, op, c, a, s)
    BY <2>5, LedgerStutter DEF Hangup, Connect
  <2>6. CASE UNCHANGED vars
    BY <2>6, LedgerStutter DEF vars
  <2>7. UNCHANGED allVars => UNCHANGED vars
    BY DEF allVars
  <2>8. QED BY <2>2, <2>3, <2>4, <2>5, <2>6, <2>7, ExecutionSteps
<1>2. ExecutionInit => Ledger!LedgerInit
  BY LedgerInitially DEF ExecutionInit
<1>3. QED BY <1>1, <1>2, ExecutionInitInv, ExecutionNextInv, PTL
          DEF ExecutionSpec, ImplementsLedger, Ledger!LedgerSpec

\* What the watcher promises its clients holds under the executor as well: the verdicts are
\* unambiguous, told only for the action that was asked for, and a success is one of the
\* game (watch.py 197-300).
THEOREM ExecutionVerdictsTheorem ==
  ExecutionSpec => [](AtMostOnce /\ OneVerdict /\ AnswersOwnAction /\ SuccessIsBacked)
<1>1. ExecutionInv => AtMostOnce /\ OneVerdict /\ AnswersOwnAction /\ SuccessIsBacked
  <2> SUFFICES ASSUME IInv, VerdictInv PROVE AtMostOnce /\ OneVerdict /\ AnswersOwnAction /\ SuccessIsBacked
    BY DEF ExecutionInv, WatcherInv
  <2>1. AtMostOnce
    BY DEF IInv
  <2>2. OneVerdict /\ AnswersOwnAction /\ SuccessIsBacked
    BY DEF VerdictInv, Told, AnswersOwnAction
  <2>3. QED BY <2>1, <2>2
<1>2. QED BY <1>1, ExecutionInitInv, ExecutionNextInv, PTL DEF ExecutionSpec

=============================================================================
