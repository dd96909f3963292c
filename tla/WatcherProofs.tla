---------------------------- MODULE WatcherProofs ---------------------------
(***************************************************************************)
(* Proofs about the watcher for any number of commands, slots, sessions,   *)
(* requests and turns.  The type invariant and at-most-once submission     *)
(* follow from the inductive invariant IInv of Watcher.tla: lemmas about   *)
(* the helpers, one lemma per group of actions with a step per conjunct,   *)
(* then Next.  Then the refinement of the ledger, and what the watcher     *)
(* tells its clients, with VerdictInv on top of IInv.                      *)
(***************************************************************************)
EXTENDS Watcher, TLAPS

USE DEF caches, history, KeyOf, Settled

-----------------------------------------------------------------------------
(* Types of what the helpers write.                                        *)

\* The answers without a result are replies.
LEMMA PlainReplies ==
  \A x \in {"none", "missing", "unknown", "rejected", "internal", "lost"} : [kind |-> x] \in Reply
  BY DEF Reply

\* So are the answers that carry a result.
LEMMA ResultReplies ==
  \A r \in Result, x \in {"result", "found"} : [kind |-> x, res |-> r] \in Reply
  BY DEF Reply

\* An answer is typed when its reply is.
LEMMA AnswerTyped ==
  ASSUME TypeOK, NEW t \in Slot, NEW r \in Reply, Answer(t, r)
  PROVE  pc' \in [Slot -> Busy \cup {"idle", "answered"}] /\ reply' \in [Slot -> Reply]
  BY DEF TypeOK, Answer

\* The key of a request is a key.
LEMMA KeyTyped ==
  ASSUME NEW t \in Slot, job[t] \in Job
  PROVE  KeyOf(t) \in Key /\ KeyOf(t)[1] = job[t].epoch /\ job[t].epoch \in Epoch
  BY DEF Job, Key

\* Releasing the lock frees the lock of the request's epoch and no other.
LEMMA UnlockTyped ==
  ASSUME TypeOK, NEW t \in Slot, job[t] \in Job, Unlock(t)
  PROVE  lock' \in [Epoch -> Slot \cup {"free", "main"}] /\ seen' \in [Slot -> Seen \cup {None}]
  BY KeyTyped DEF TypeOK, Unlock

\* Two threads that execute commands of one epoch are the same thread.
LEMMA OneExecutes ==
  ASSUME LockOwners, NEW t \in Slot, NEW u \in Slot, pc[t] \in Holding, pc[u] \in Holding,
         job[t].epoch = job[u].epoch
  PROVE  t = u
  BY DEF LockOwners

-----------------------------------------------------------------------------
(* The initial states.                                                     *)

\* The invariant holds when the first process starts.
LEMMA InitInv == Init => IInv
<1> SUFFICES ASSUME Init PROVE IInv
  OBVIOUS
<1>1. TypeOK
  <2>1. game \in State
    <3>1. PICK d \in SUBSET Order : game = [turn |-> 0, active |-> TRUE, done |-> d]
      BY DEF Init
    <3>2. 0 \in 0..MaxTurn
      BY GameAssumption
    <3>3. QED BY <3>1, <3>2 DEF State
  <2>2. reply \in [Slot -> Reply]
    BY PlainReplies DEF Init
  <2>3. epoch \in 0..MaxEpoch /\ arrived \in 0..MaxRequest
    BY WatcherAssumption DEF Init
  <2>4. wire \subseteq Key \X Act /\ journal \subseteq {"submitted", "result", "unknown"} \X Key
    BY DEF Init
  <2>5. pc \in [Slot -> Busy \cup {"idle", "answered"}]
    BY DEF Init
  <2>6. writes \in [Key -> Nat] /\ accepted \in [Key -> Nat]
    BY DEF Init
  <2>7. QED BY <2>1, <2>2, <2>3, <2>4, <2>5, <2>6 DEF Init, TypeOK
<1>2. EpochsInOrder
  BY DEF Init, EpochsInOrder, Epoch
<1>3. JobsKnown /\ InProgress
  BY DEF Init, JobsKnown, InProgress, Busy, Holding
<1>4. LockOwners
  BY WatcherAssumption DEF Init, LockOwners, Holding
<1>5. WrittenAccounted /\ WireFresh /\ AtMostOnce /\ OneCache
  BY DEF Init, WrittenAccounted, WireFresh, AtMostOnce, OneCache
<1>6. QED BY <1>1, <1>2, <1>3, <1>4, <1>5 DEF IInv

-----------------------------------------------------------------------------
(* The main loop.                                                          *)

\* The steps that only move the main loop disturb nothing.
LEMMA MainMovesInv ==
  ASSUME IInv, RefuseUnsafe \/ MainLeave \/ StopServing \/ Restart
  PROVE  IInv'
<1> USE DEF RefuseUnsafe, MainLeave, StopServing, Restart
<1>1. TypeOK'
  BY DEF IInv, TypeOK
<1>2. EpochsInOrder' /\ JobsKnown' /\ LockOwners'
  BY DEF IInv, EpochsInOrder, JobsKnown, LockOwners
<1>3. InProgress' /\ WrittenAccounted' /\ WireFresh' /\ AtMostOnce' /\ OneCache'
  BY DEF IInv, InProgress, WrittenAccounted, WireFresh, AtMostOnce, OneCache
<1>4. QED BY <1>1, <1>2, <1>3 DEF IInv

\* The main loop takes a free lock, and gives back its own.
LEMMA MainLocksInv ==
  ASSUME IInv, MainLock \/ MainRead
  PROVE  IInv'
<1> USE WatcherAssumption DEF MainLock, MainRead
<1>1. TypeOK'
  BY DEF IInv, TypeOK
<1>2. EpochsInOrder' /\ JobsKnown'
  BY DEF IInv, EpochsInOrder, JobsKnown
<1>3. LockOwners'
  <2>1. epoch \in Epoch /\ lock[epoch] \notin Slot
    BY DEF IInv, LockOwners, TypeOK, EpochsInOrder
  <2>2. QED BY <2>1 DEF IInv, LockOwners, TypeOK, JobsKnown, Busy, Holding, Job
<1>4. InProgress' /\ WrittenAccounted' /\ WireFresh' /\ AtMostOnce' /\ OneCache'
  BY DEF IInv, InProgress, WrittenAccounted, WireFresh, AtMostOnce, OneCache
<1>5. QED BY <1>1, <1>2, <1>3, <1>4 DEF IInv

\* A new session opens a connection that was never open and has no commands.
LEMMA OpenSessionInv ==
  ASSUME IInv, OpenSession
  PROVE  IInv'
<1>1. CASE captured
  <2> USE <1>1 DEF OpenSession
  <2>1. TypeOK'
    BY DEF IInv, TypeOK, mainVars
  <2>2. EpochsInOrder' /\ JobsKnown' /\ LockOwners'
    BY DEF IInv, EpochsInOrder, JobsKnown, LockOwners
  <2>3. InProgress' /\ WrittenAccounted' /\ WireFresh' /\ AtMostOnce' /\ OneCache'
    BY DEF IInv, InProgress, WrittenAccounted, WireFresh, AtMostOnce, OneCache
  <2>4. QED BY <2>1, <2>2, <2>3 DEF IInv
<1>2. CASE ~captured
  <2> USE <1>2 DEF OpenSession
  <2>1. epoch' = epoch + 1 /\ epoch + 1 \in Epoch /\ epoch \in Nat
    BY WatcherAssumption DEF IInv, TypeOK, Epoch
  <2>2. tuner' = [tuner EXCEPT ![epoch + 1] = "open"] /\ tuner \in [Epoch -> {"new", "open", "closed"}]
    BY DEF IInv, TypeOK
  <2>3. TypeOK'
    BY <2>1, <2>2, WatcherAssumption DEF IInv, TypeOK, Epoch
  <2>4. EpochsInOrder'
    BY <2>1, <2>2 DEF IInv, EpochsInOrder, Epoch
  <2>5. \A e \in Epoch : tuner'[e] = "new" => tuner[e] = "new"
    BY <2>1, <2>2
  <2>6. JobsKnown'
    BY <2>5 DEF IInv, JobsKnown, Job
  <2>7. LockOwners'
    BY DEF IInv, LockOwners
  <2>8. InProgress' /\ WireFresh' /\ AtMostOnce' /\ OneCache'
    BY DEF IInv, InProgress, WireFresh, AtMostOnce, OneCache
  <2>9. WrittenAccounted'
    <3>1. \A e \in Epoch : tuner[e] = "closed" => tuner'[e] = "closed"
      BY <2>1, <2>2, WatcherAssumption DEF IInv, EpochsInOrder, Epoch
    <3>2. \A k \in Key : k[1] \in Epoch
      BY DEF Key
    <3>3. QED BY <2>5, <3>1, <3>2 DEF IInv, WrittenAccounted
  <2>10. QED BY <2>3, <2>4, <2>6, <2>7, <2>8, <2>9 DEF IInv
<1>3. QED BY <1>1, <1>2

\* Closing the connection of the last epoch: its commands stay accounted for.
LEMMA CloseTunerInv ==
  ASSUME IInv, CloseTuner
  PROVE  IInv'
<1> USE DEF CloseTuner
<1>1. TypeOK'
  BY DEF IInv, TypeOK
<1>2. \A e \in Epoch : (tuner'[e] = "new" <=> tuner[e] = "new") /\ (tuner[e] = "closed" => tuner'[e] = "closed")
  BY DEF IInv, TypeOK, EpochsInOrder, Epoch
<1>3. EpochsInOrder' /\ JobsKnown' /\ LockOwners'
  BY <1>2 DEF IInv, EpochsInOrder, JobsKnown, LockOwners, Job
<1>4. WrittenAccounted'
  <2>1. \A k \in Key : k[1] \in Epoch
    BY DEF Key
  <2>2. QED BY <1>2, <2>1 DEF IInv, WrittenAccounted
<1>5. InProgress' /\ WireFresh' /\ AtMostOnce' /\ OneCache'
  BY DEF IInv, InProgress, WireFresh, AtMostOnce, OneCache
<1>6. QED BY <1>1, <1>3, <1>4, <1>5 DEF IInv

\* The end of the process closes every connection and ends every thread.
LEMMA ProcessEndsInv ==
  ASSUME IInv, ProcessEnds
  PROVE  IInv'
<1> USE DEF ProcessEnds
<1>1. \A e \in Epoch : (tuner'[e] = "new" <=> tuner[e] = "new") /\ tuner'[e] # "open"
  BY DEF IInv, TypeOK
<1>2. \A t \in Slot : pc'[t] \notin Busy
  BY DEF IInv, TypeOK, Busy, Holding
<1>3. TypeOK'
  <2>1. reply' \in [Slot -> Reply]
    BY PlainReplies DEF IInv, TypeOK
  <2>2. pc' \in [Slot -> Busy \cup {"idle", "answered"}]
    BY DEF IInv, TypeOK
  <2>3. tuner' \in [Epoch -> {"new", "open", "closed"}]
    BY DEF IInv, TypeOK
  <2>4. QED BY <2>1, <2>2, <2>3 DEF IInv, TypeOK
<1>4. EpochsInOrder' /\ JobsKnown'
  BY <1>1, <1>2 DEF IInv, EpochsInOrder, JobsKnown, Busy
<1>5. LockOwners' /\ InProgress'
  BY <1>2, WatcherAssumption DEF LockOwners, InProgress, Busy, Holding
<1>6. WrittenAccounted'
  <2>1. \A k \in Key : k[1] \in Epoch
    BY DEF Key
  <2>2. tuner' \in [Epoch -> {"new", "open", "closed"}]
    BY DEF IInv, TypeOK
  <2>3. QED BY <1>1, <2>1, <2>2 DEF IInv, WrittenAccounted
<1>7. WireFresh' /\ AtMostOnce' /\ OneCache'
  BY DEF IInv, WireFresh, AtMostOnce, OneCache
<1>8. QED BY <1>3, <1>4, <1>5, <1>6, <1>7 DEF IInv

-----------------------------------------------------------------------------
(* The handler threads.                                                    *)

\* What holds of a thread that executes a command.
LEMMA Executing ==
  ASSUME IInv, NEW t \in Slot, pc[t] \in Holding
  PROVE  /\ job[t] \in Job /\ job[t].op = "write" /\ seen[t] \in Seen
         /\ KeyOf(t) \in Key /\ KeyOf(t)[1] = job[t].epoch /\ job[t].epoch \in Epoch
         /\ ~Settled(KeyOf(t)) /\ lock[job[t].epoch] = t
         /\ \A u \in Slot : pc[u] \in Holding /\ KeyOf(u) = KeyOf(t) => u = t
<1>1. job[t] \in Job /\ job[t].op = "write" /\ seen[t] \in Seen
  BY DEF IInv, JobsKnown, Busy
<1>2. KeyOf(t) \in Key /\ KeyOf(t)[1] = job[t].epoch /\ job[t].epoch \in Epoch
  BY <1>1, KeyTyped
<1>3. ~Settled(KeyOf(t)) /\ lock[job[t].epoch] = t
  BY DEF IInv, InProgress, LockOwners
<1>4. ASSUME NEW u \in Slot, pc[u] \in Holding, KeyOf(u) = KeyOf(t) PROVE u = t
  BY <1>4, OneExecutes DEF IInv
<1>5. QED BY <1>1, <1>2, <1>3, <1>4

\* A thread that leaves the critical section with its key settled, or without a
\* write on an open connection, keeps the invariant: what remains to show of a step
\* is the type invariant and what it does to the caches.
LEMMA LeavingInv ==
  ASSUME IInv, NEW t \in Slot, pc[t] \in Holding, TypeOK', OneCache', Unlock(t),
         NEW r, Answer(t, r), UNCHANGED <<game, wire, mainVars, arrived, job, history>>,
         \A k \in Key : k # KeyOf(t) => (Settled(k)' <=> Settled(k)),
         writes[KeyOf(t)] > 0 => Settled(KeyOf(t))' \/ tuner[job[t].epoch] = "closed"
  PROVE  IInv'
<1> USE DEF Unlock, Answer, mainVars
<1>1. \A u \in Slot : u # t => pc'[u] = pc[u] /\ seen'[u] = seen[u]
  BY DEF IInv, TypeOK
<1>2. pc'[t] = "answered" /\ \A u \in Slot : pc'[u] \in Holding => u # t /\ pc[u] \in Holding
  BY <1>1 DEF IInv, TypeOK, Holding
<1>3. EpochsInOrder'
  BY DEF IInv, EpochsInOrder
<1>4. JobsKnown'
  BY <1>1, <1>2 DEF IInv, JobsKnown, Busy, Holding
<1>5. LockOwners'
  BY <1>1, <1>2, Executing, WatcherAssumption DEF IInv, LockOwners, TypeOK
<1>6. InProgress'
  <2>1. \A u \in Slot : pc'[u] \in Holding => KeyOf(u) # KeyOf(t) /\ KeyOf(u) \in Key
    BY <1>2, Executing
  <2>2. QED BY <1>1, <1>2, <2>1 DEF IInv, InProgress, Holding
<1>7. WrittenAccounted'
  <2>1. ASSUME NEW k \in Key, writes[k] > 0, k # KeyOf(t), ~Settled(k)', tuner[k[1]] # "closed"
        PROVE  \E u \in Slot : pc'[u] \in {"sent", "polling"} /\ KeyOf(u)' = k
    BY <2>1, <1>1 DEF IInv, WrittenAccounted
  <2>2. KeyOf(t) \in Key /\ KeyOf(t)[1] = job[t].epoch
    BY Executing
  <2>3. QED BY <2>1, <2>2 DEF IInv, WrittenAccounted
<1>8. WireFresh' /\ AtMostOnce'
  BY DEF IInv, WireFresh, AtMostOnce
<1>9. QED BY <1>3, <1>4, <1>5, <1>6, <1>7, <1>8 DEF IInv

\* A terminal result settles the key.
LEMMA FinishInv ==
  ASSUME IInv, NEW t \in Slot, pc[t] \in Holding, NEW after \in State,
         NEW status \in {"success", "error"}, Finish(t, status, after)
  PROVE  IInv'
<1> DEFINE res == [status |-> status, before |-> seen[t].before, after |-> after]
<1>1. res \in Result /\ [act |-> job[t].act, res |-> res] \in Entry
  BY Executing DEF Result, Entry, Seen, Job
<1>2. TypeOK'
  <2>1. pc' \in [Slot -> Busy \cup {"idle", "answered"}] /\ reply' \in [Slot -> Reply]
    BY <1>1, AnswerTyped, ResultReplies DEF Finish, IInv
  <2>2. lock' \in [Epoch -> Slot \cup {"free", "main"}] /\ seen' \in [Slot -> Seen \cup {None}]
    BY Executing, UnlockTyped DEF Finish, IInv
  <2>3. completed' \in [Key -> Entry \cup {None}]
    BY <1>1 DEF Finish, IInv, TypeOK
  <2>4. journal' \subseteq {"submitted", "result", "unknown"} \X Key
    BY Executing DEF Finish, IInv, TypeOK
  <2>5. QED BY <2>1, <2>2, <2>3, <2>4 DEF Finish, IInv, TypeOK, mainVars
<1>3. OneCache' /\ Settled(KeyOf(t))' /\ \A k \in Key : k # KeyOf(t) => (Settled(k)' <=> Settled(k))
  <2>1. KeyOf(t) \in Key /\ uncertain[KeyOf(t)] = None /\ UNCHANGED <<uncertain, job>>
    BY Executing DEF Finish
  <2>2. completed' = [completed EXCEPT ![KeyOf(t)] = [act |-> job[t].act, res |-> res]]
    BY DEF Finish
  <2>3. QED BY <1>1, <2>1, <2>2, WatcherAssumption DEF IInv, OneCache, TypeOK
<1>4. QED
  BY <1>2, <1>3, LeavingInv DEF Finish

\* An unknown outcome settles the key.
LEMMA OutcomeUnknownInv ==
  ASSUME IInv, NEW t \in Slot, OutcomeUnknown(t)
  PROVE  IInv'
<1>1. pc[t] \in Holding /\ job[t].act \in Act
  BY Executing DEF OutcomeUnknown, Job
<1>2. TypeOK'
  <2>1. pc' \in [Slot -> Busy \cup {"idle", "answered"}] /\ reply' \in [Slot -> Reply]
    BY AnswerTyped, PlainReplies DEF OutcomeUnknown, IInv
  <2>2. lock' \in [Epoch -> Slot \cup {"free", "main"}] /\ seen' \in [Slot -> Seen \cup {None}]
    BY <1>1, Executing, UnlockTyped DEF OutcomeUnknown, IInv
  <2>3. uncertain' \in [Key -> Act \cup {None}]
    BY <1>1 DEF OutcomeUnknown, IInv, TypeOK
  <2>4. journal' \subseteq {"submitted", "result", "unknown"} \X Key
    BY <1>1, Executing DEF OutcomeUnknown, IInv, TypeOK
  <2>5. QED BY <2>1, <2>2, <2>3, <2>4 DEF OutcomeUnknown, IInv, TypeOK, mainVars
<1>3. OneCache' /\ Settled(KeyOf(t))' /\ \A k \in Key : k # KeyOf(t) => (Settled(k)' <=> Settled(k))
  <2>1. KeyOf(t) \in Key /\ completed[KeyOf(t)] = None /\ UNCHANGED <<completed, job>>
    BY <1>1, Executing DEF OutcomeUnknown
  <2>2. uncertain' = [uncertain EXCEPT ![KeyOf(t)] = job[t].act]
    BY DEF OutcomeUnknown
  <2>3. QED BY <1>1, <2>1, <2>2, WatcherAssumption DEF IInv, OneCache, TypeOK
<1>4. QED
  BY <1>1, <1>2, <1>3, LeavingInv DEF OutcomeUnknown

\* A thread that stops without a verdict: its key was not written, or never will be again.
LEMMA StoppedInv ==
  ASSUME IInv, NEW t \in Slot, RejectInvalid(t) \/ RuntimeFailure(t)
  PROVE  IInv'
<1> USE DEF RejectInvalid, RuntimeFailure
<1>1. pc[t] \in Holding
  BY DEF Holding
<1>2. PICK x \in {"rejected", "internal"} : Answer(t, [kind |-> x]) /\ Unlock(t)
  OBVIOUS
<1>3. TypeOK'
  <2>1. pc' \in [Slot -> Busy \cup {"idle", "answered"}] /\ reply' \in [Slot -> Reply]
    BY <1>2, AnswerTyped, PlainReplies DEF IInv
  <2>2. lock' \in [Epoch -> Slot \cup {"free", "main"}] /\ seen' \in [Slot -> Seen \cup {None}]
    BY <1>1, <1>2, Executing, UnlockTyped DEF IInv
  <2>3. QED BY <2>1, <2>2 DEF IInv, TypeOK, mainVars
<1>4. OneCache' /\ \A k \in Key : Settled(k)' <=> Settled(k)
  BY DEF IInv, OneCache
<1>5. writes[KeyOf(t)] > 0 => tuner[job[t].epoch] = "closed"
  <2>1. CASE pc[t] = "before"
    BY <1>1, <2>1, Executing DEF IInv, WrittenAccounted, Holding
  <2>2. CASE tuner[job[t].epoch] = "closed"
    BY <2>2
  <2>3. QED BY <2>1, <2>2
<1>6. QED
  BY <1>1, <1>2, <1>3, <1>4, <1>5, LeavingInv

\* A thread that stays outside the critical section disturbs only its own request.
LEMMA OutsideInv ==
  ASSUME IInv, NEW t \in Slot, pc[t] \notin Holding, TypeOK', JobsKnown',
         NEW x, x \notin Holding, pc' = [pc EXCEPT ![t] = x],
         \A u \in Slot \ {t} : job'[u] = job[u],
         UNCHANGED <<wire, mainVars, lock, seen, completed, uncertain, history>>
  PROVE  IInv'
<1> USE DEF mainVars
<1>1. \A u \in Slot : pc'[u] \in Holding \/ pc[u] \in Holding => u # t /\ pc'[u] = pc[u]
  BY DEF IInv, TypeOK
<1>2. EpochsInOrder'
  BY DEF IInv, EpochsInOrder
<1>3. LockOwners'
  BY <1>1 DEF IInv, LockOwners
<1>4. InProgress'
  BY <1>1 DEF IInv, InProgress, Holding
<1>5. WrittenAccounted'
  BY <1>1 DEF IInv, WrittenAccounted, Holding
<1>6. WireFresh' /\ AtMostOnce' /\ OneCache'
  BY DEF IInv, WireFresh, AtMostOnce, OneCache
<1>7. QED BY <1>2, <1>3, <1>4, <1>5, <1>6 DEF IInv

\* A waiting request that is answered without executing anything.
LEMMA AnsweredOutsideInv ==
  ASSUME IInv, NEW t \in Slot, pc[t] \in {"received", "waiting"}, NEW r \in Reply, Answer(t, r),
         UNCHANGED <<arrived, game, wire, mainVars, lock, job, seen, caches, history>>
  PROVE  IInv'
<1>1. pc[t] \notin Holding /\ "answered" \notin Holding
  BY DEF Holding
<1>2. pc' = [pc EXCEPT ![t] = "answered"]
  BY DEF Answer
<1>3. TypeOK'
  <2>1. pc' \in [Slot -> Busy \cup {"idle", "answered"}] /\ reply' \in [Slot -> Reply]
    BY AnswerTyped DEF IInv
  <2>2. QED BY <2>1 DEF IInv, TypeOK, mainVars
<1>4. JobsKnown'
  BY <1>2 DEF IInv, JobsKnown, TypeOK, mainVars, Busy, Holding
<1>5. QED BY <1>1, <1>2, <1>3, <1>4, OutsideInv

\* Requests are admitted, or answered before they reach the lock.
LEMMA AdmitInv ==
  ASSUME IInv, NEW t \in Slot, Admit(t)
  PROVE  IInv'
<1>1. CASE Answer(t, [kind |-> "rejected"])
  BY <1>1, AnsweredOutsideInv, PlainReplies DEF Admit
<1>2. CASE pc' = [pc EXCEPT ![t] = "waiting"] /\ UNCHANGED reply
  <2> USE <1>2 DEF Admit
  <2>1. pc[t] \notin Holding /\ "waiting" \notin Holding
    BY DEF Holding
  <2>2. TypeOK'
    BY DEF IInv, TypeOK, mainVars, Busy
  <2>3. JobsKnown'
    BY DEF IInv, JobsKnown, TypeOK, mainVars, Busy, Holding
  <2>4. QED BY <2>1, <2>2, <2>3, OutsideInv
<1>3. QED BY <1>1, <1>2 DEF Admit

\* read_state, command_status and the replay of a known id only answer.
LEMMA EnterOnlyAnswersInv ==
  ASSUME IInv, NEW t \in Slot, ReadState(t) \/ Lookup(t) \/ Replay(t)
  PROVE  IInv'
<1>1. job[t] \in Job /\ KeyOf(t) \in Key /\ pc[t] \in {"received", "waiting"}
  <2>1. pc[t] = "waiting"
    BY DEF ReadState, Lookup, Replay, LockFree
  <2>2. QED BY <2>1, KeyTyped DEF IInv, JobsKnown, Busy
<1>2. game \in State /\ job[t].epoch \in Epoch
  BY <1>1, KeyTyped DEF IInv, TypeOK
<1>3. [kind |-> "state", sess |-> job[t].epoch, state |-> game] \in Reply
  BY <1>2 DEF Reply
<1>4. completed[KeyOf(t)] # None => completed[KeyOf(t)].res \in Result
  BY <1>1 DEF IInv, TypeOK, Entry
<1>5. CASE ReadState(t)
  BY <1>1, <1>3, <1>5, AnsweredOutsideInv, PlainReplies DEF ReadState
<1>6. CASE Lookup(t)
  <2>1. PICK r \in Reply : Answer(t, r)
    BY <1>4, <1>6, PlainReplies, ResultReplies DEF Lookup
  <2>2. QED BY <1>1, <1>6, <2>1, AnsweredOutsideInv DEF Lookup
<1>7. CASE Replay(t)
  <2>1. PICK r \in Reply : Answer(t, r)
    BY <1>4, <1>7, PlainReplies, ResultReplies DEF Replay
  <2>2. QED BY <1>1, <1>7, <2>1, AnsweredOutsideInv DEF Replay
<1>8. QED BY <1>5, <1>6, <1>7

\* A request arrives on the connection that is served now.
LEMMA ConnectInv ==
  ASSUME IInv, NEW t \in Slot, NEW op \in {"write", "status", "read"}, NEW c \in Command,
         NEW a \in Act, NEW s \in 0..MaxEpoch, Connect(t, op, c, a, s)
  PROVE  IInv'
<1> DEFINE new == [op |-> op, epoch |-> epoch, cmd |-> c, act |-> a, sess |-> s]
<1>1. epoch \in Epoch /\ tuner[epoch] # "new"
  BY DEF Connect, IInv, EpochsInOrder, Epoch
<1>2. new \in Job
  BY <1>1 DEF Job
<1>3. job' = [job EXCEPT ![t] = new] /\ pc' = [pc EXCEPT ![t] = "received"]
  BY DEF Connect
<1>4. TypeOK'
  <2>1. job' \in [Slot -> Job \cup {None}] /\ pc' \in [Slot -> Busy \cup {"idle", "answered"}]
    BY <1>2, <1>3 DEF IInv, TypeOK, Busy
  <2>2. arrived' \in 0..MaxRequest
    BY WatcherAssumption DEF Connect, IInv, TypeOK
  <2>3. QED BY <2>1, <2>2 DEF Connect, IInv, TypeOK, mainVars
<1>5. JobsKnown'
  <2>1. \A u \in Slot : u # t => job'[u] = job[u] /\ pc'[u] = pc[u]
    BY <1>3 DEF IInv, TypeOK
  <2>2. job'[t] = new /\ pc'[t] = "received" /\ UNCHANGED <<tuner, seen>>
    BY <1>3 DEF Connect, IInv, TypeOK, mainVars
  <2>3. QED BY <1>1, <1>2, <2>1, <2>2 DEF IInv, JobsKnown, Holding
<1>6. pc[t] \notin Holding /\ "received" \notin Holding
  BY DEF Connect, Holding
<1>7. \A u \in Slot \ {t} : job'[u] = job[u]
  BY <1>3 DEF IInv, TypeOK
<1>8. UNCHANGED <<wire, mainVars, lock, seen, completed, uncertain, history>>
  BY DEF Connect
<1>9. QED BY <1>3, <1>4, <1>5, <1>6, <1>7, <1>8, OutsideInv

\* The answer is read or lost, and the slot is free again.
LEMMA HangupInv ==
  ASSUME IInv, NEW t \in Slot, Hangup(t)
  PROVE  IInv'
<1> USE DEF Hangup
<1>1. TypeOK'
  BY PlainReplies DEF IInv, TypeOK, mainVars
<1>2. \A u \in Slot : u # t => job'[u] = job[u] /\ pc'[u] = pc[u]
  BY DEF IInv, TypeOK
<1>3. JobsKnown'
  BY <1>2 DEF IInv, JobsKnown, TypeOK, mainVars, Busy, Holding
<1>4. pc[t] \notin Holding /\ "idle" \notin Holding
  BY DEF Holding
<1>5. QED BY <1>1, <1>2, <1>3, <1>4, OutsideInv

\* A new command is begun by the thread that takes the free lock.
LEMMA BeginInv ==
  ASSUME IInv, NEW t \in Slot, Begin(t)
  PROVE  IInv'
<1>1. pc[t] = "waiting" /\ lock[job[t].epoch] = "free" /\ ~Settled(KeyOf(t))
  BY DEF Begin, LockFree
<1>2. job[t] \in Job /\ KeyOf(t) \in Key /\ job[t].epoch \in Epoch /\ tuner[job[t].epoch] # "new"
  BY <1>1, KeyTyped DEF IInv, JobsKnown, Busy
<1>3. CASE Answer(t, [kind |-> "internal"]) /\ UNCHANGED <<lock, seen, journal>>
  BY <1>1, <1>3, AnsweredOutsideInv, PlainReplies DEF Begin
<1>4. CASE ~Answer(t, [kind |-> "internal"]) \/ ~UNCHANGED <<lock, seen, journal>>
  <2>1. /\ lock' = [lock EXCEPT ![job[t].epoch] = t] /\ pc' = [pc EXCEPT ![t] = "before"]
        /\ UNCHANGED <<arrived, game, wire, mainVars, job, reply, completed, uncertain, history>>
        /\ journal' \subseteq journal \cup {<<"submitted", KeyOf(t)>>}
    BY <1>4 DEF Begin
  <2>2. PICK noted \in BOOLEAN :
          seen' = [seen EXCEPT ![t] = [before |-> game, after |-> game, resp |-> "none", noted |-> noted]]
    BY <1>4, WatcherAssumption DEF Begin
  <2>3. [before |-> game, after |-> game, resp |-> "none", noted |-> noted] \in Seen
    BY DEF IInv, TypeOK, Seen
  <2>4. \A u \in Slot : u # t => pc'[u] = pc[u] /\ seen'[u] = seen[u]
    BY <2>1, <2>2 DEF IInv, TypeOK
  <2>5. pc'[t] = "before" /\ seen'[t] \in Seen /\ seen'[t].resp = "none"
    BY <2>1, <2>2, <2>3 DEF IInv, TypeOK
  <2>6. \A u \in Slot : pc[u] \in Holding => u # t /\ job[u].epoch # job[t].epoch
    <3>1. "before" \in Holding /\ pc[t] \notin Holding
      BY <1>1 DEF Holding
    <3>2. \A u \in Slot : pc[u] \in Holding => lock[job[u].epoch] = u
      BY Executing
    <3>3. QED BY <1>1, <3>1, <3>2, WatcherAssumption
  <2>7. TypeOK'
    <3>1. lock' \in [Epoch -> Slot \cup {"free", "main"}] /\ pc' \in [Slot -> Busy \cup {"idle", "answered"}]
      BY <2>1 DEF IInv, TypeOK, Busy, Holding
    <3>2. seen' \in [Slot -> Seen \cup {None}]
      BY <2>2, <2>3 DEF IInv, TypeOK
    <3>3. journal' \subseteq {"submitted", "result", "unknown"} \X Key
      BY <1>2, <2>1 DEF IInv, TypeOK
    <3>4. QED BY <2>1, <3>1, <3>2, <3>3 DEF IInv, TypeOK, mainVars
  <2>8. EpochsInOrder'
    BY <2>1 DEF IInv, EpochsInOrder, mainVars
  <2>9. JobsKnown'
    <3>1. job[t].op = "write" /\ UNCHANGED <<job, tuner>>
      BY <2>1 DEF Begin, mainVars
    <3>2. QED BY <1>2, <2>4, <2>5, <3>1 DEF IInv, JobsKnown
  <2>10. LockOwners'
    <3>1. UNCHANGED <<job, main, epoch>>
      BY <2>1 DEF mainVars
    <3>2. \A e \in Epoch : lock'[e] = IF e = job[t].epoch THEN t ELSE lock[e]
      BY <2>1 DEF IInv, TypeOK
    <3>3. main = "reading" => epoch # job[t].epoch /\ epoch \in Epoch
      BY <1>1, <1>2 DEF IInv, LockOwners, EpochsInOrder
    <3>4. \A u \in Slot : pc[u] \in Holding => job[u].epoch \in Epoch
      BY Executing
    <3>5. \A e \in Epoch, u \in Slot : lock[e] = u => pc[u] \in Holding /\ job[u].epoch = e
      BY DEF IInv, LockOwners
    <3>6. main' = "reading" => lock'[epoch'] = "main"
      BY <3>1, <3>2, <3>3 DEF IInv, LockOwners
    <3>7. \A u \in Slot : pc'[u] \in Holding => lock'[job'[u].epoch] = u
      BY <1>2, <2>4, <2>6, <3>1, <3>2, <3>4 DEF IInv, LockOwners
    <3>8. ASSUME NEW e \in Epoch, NEW u \in Slot, lock'[e] = u
          PROVE  pc'[u] \in Holding /\ job'[u].epoch = e
      BY <2>4, <2>5, <2>6, <3>1, <3>2, <3>5, <3>8 DEF Holding
    <3>9. QED BY <3>6, <3>7, <3>8 DEF LockOwners
  <2>11. InProgress'
    <3>1. UNCHANGED <<job, completed, uncertain, writes, accepted>>
      BY <2>1
    <3>2. QED BY <1>1, <2>4, <2>5, <3>1 DEF IInv, InProgress
  <2>12. WrittenAccounted'
    BY <1>1, <2>1, <2>4 DEF IInv, WrittenAccounted, mainVars
  <2>13. WireFresh' /\ AtMostOnce' /\ OneCache'
    BY <2>1 DEF IInv, WireFresh, AtMostOnce, OneCache
  <2>14. QED BY <2>7, <2>8, <2>9, <2>10, <2>11, <2>12, <2>13 DEF IInv
<1>5. QED BY <1>3, <1>4

\* A step inside the critical section that leaves the caches alone: what remains to
\* show is what it does to the thread's own state and to the write counters.
LEMMA InsideInv ==
  ASSUME IInv, NEW t \in Slot, pc[t] \in Holding, NEW x \in Holding,
         pc' = [pc EXCEPT ![t] = x],
         UNCHANGED <<arrived, game, mainVars, lock, job, reply, caches>>,
         seen' \in [Slot -> Seen \cup {None}], seen'[t] \in Seen,
         \A u \in Slot \ {t} : seen'[u] = seen[u]
  PROVE  /\ pc'[t] = x /\ pc' \in [Slot -> Busy \cup {"idle", "answered"}]
         /\ \A u \in Slot \ {t} : pc'[u] = pc[u]
         /\ EpochsInOrder' /\ JobsKnown' /\ LockOwners' /\ OneCache'
<1> USE DEF mainVars
<1>1. pc'[t] = x /\ \A u \in Slot \ {t} : pc'[u] = pc[u]
  BY DEF IInv, TypeOK
<1>2. pc' \in [Slot -> Busy \cup {"idle", "answered"}]
  BY DEF IInv, TypeOK, Busy
<1>3. EpochsInOrder' /\ OneCache'
  BY DEF IInv, EpochsInOrder, OneCache
<1>4. JobsKnown'
  BY <1>1 DEF IInv, JobsKnown, Busy
<1>5. LockOwners'
  BY <1>1 DEF IInv, LockOwners
<1>6. QED BY <1>1, <1>2, <1>3, <1>4, <1>5

\* The before-state is read on an open connection: the key was not written yet.
LEMMA ReadBeforeInv ==
  ASSUME IInv, NEW t \in Slot, ReadBefore(t)
  PROVE  IInv'
<1>1. /\ pc[t] = "before" /\ pc[t] \in Holding /\ "ready" \in Holding
      /\ tuner[job[t].epoch] = "open" /\ pc' = [pc EXCEPT ![t] = "ready"]
      /\ UNCHANGED <<arrived, game, wire, mainVars, lock, job, reply, caches, history>>
  BY DEF ReadBefore, Holding
<1>2. seen[t] \in Seen /\ KeyOf(t) \in Key /\ KeyOf(t)[1] = job[t].epoch /\ ~Settled(KeyOf(t))
  BY <1>1, Executing
<1>3. /\ seen' \in [Slot -> Seen \cup {None}] /\ seen'[t] \in Seen /\ seen'[t].resp = seen[t].resp
      /\ \A u \in Slot \ {t} : seen'[u] = seen[u]
  <2>1. /\ [[seen[t] EXCEPT !.before = game] EXCEPT !.after = game] \in Seen
        /\ [[seen[t] EXCEPT !.before = game] EXCEPT !.after = game].resp = seen[t].resp
    BY <1>2 DEF Seen, IInv, TypeOK
  <2>2. seen' = [seen EXCEPT ![t] = [[seen[t] EXCEPT !.before = game] EXCEPT !.after = game]]
    BY DEF ReadBefore, IInv, TypeOK
  <2>3. QED BY <2>1, <2>2 DEF IInv, TypeOK
<1>4. /\ pc'[t] = "ready" /\ pc' \in [Slot -> Busy \cup {"idle", "answered"}]
      /\ \A u \in Slot \ {t} : pc'[u] = pc[u]
      /\ EpochsInOrder' /\ JobsKnown' /\ LockOwners' /\ OneCache'
  BY <1>1, <1>3, InsideInv
<1>5. TypeOK'
  BY <1>1, <1>3, <1>4 DEF IInv, TypeOK, mainVars
<1>6. writes[KeyOf(t)] = 0
  <2>1. \A u \in Slot : pc[u] \in {"sent", "polling"} => KeyOf(u) # KeyOf(t)
    BY <1>1, Executing DEF Holding
  <2>2. QED BY <1>1, <1>2, <2>1 DEF IInv, WrittenAccounted, TypeOK
<1>7. InProgress'
  BY <1>1, <1>2, <1>3, <1>4, <1>6 DEF IInv, InProgress
<1>8. WrittenAccounted'
  BY <1>1, <1>4 DEF IInv, WrittenAccounted, mainVars
<1>9. WireFresh' /\ AtMostOnce'
  BY <1>1 DEF IInv, WireFresh, AtMostOnce
<1>10. QED BY <1>4, <1>5, <1>7, <1>8, <1>9 DEF IInv

\* The one write of a key.
LEMMA SubmitInv ==
  ASSUME IInv, NEW t \in Slot, Submit(t)
  PROVE  IInv'
<1> DEFINE k == KeyOf(t)
<1>1. /\ pc[t] = "ready" /\ pc[t] \in Holding /\ "sent" \in Holding
      /\ tuner[job[t].epoch] = "open" /\ pc' = [pc EXCEPT ![t] = "sent"]
      /\ UNCHANGED <<arrived, game, mainVars, lock, job, seen, reply, caches, accepted>>
      /\ wire' = wire \cup {<<k, job[t].act>>} /\ writes' = [writes EXCEPT ![k] = @ + 1]
  BY DEF Submit, Holding
<1>2. /\ seen[t] \in Seen /\ k \in Key /\ k[1] = job[t].epoch /\ ~Settled(k) /\ job[t] \in Job
      /\ \A u \in Slot \ {t} : pc[u] \in Holding => KeyOf(u) # k
  BY <1>1, Executing
<1>3. /\ pc'[t] = "sent" /\ pc' \in [Slot -> Busy \cup {"idle", "answered"}]
      /\ \A u \in Slot \ {t} : pc'[u] = pc[u]
      /\ EpochsInOrder' /\ JobsKnown' /\ LockOwners' /\ OneCache'
  <2>1. seen' \in [Slot -> Seen \cup {None}] /\ seen'[t] \in Seen /\ \A u \in Slot \ {t} : seen'[u] = seen[u]
    BY <1>1, <1>2 DEF IInv, TypeOK
  <2>2. QED BY <1>1, <2>1, InsideInv
<1>4. writes[k] = 0 /\ accepted[k] = 0 /\ writes'[k] = 1 /\ \A j \in Key \ {k} : writes'[j] = writes[j]
  BY <1>1, <1>2 DEF IInv, InProgress, AtMostOnce, TypeOK
<1>5. TypeOK'
  <2>1. writes' \in [Key -> Nat]
    BY <1>1, <1>2 DEF IInv, TypeOK
  <2>2. wire' \subseteq Key \X Act
    BY <1>1, <1>2 DEF IInv, TypeOK, Job
  <2>3. QED BY <1>1, <1>3, <2>1, <2>2 DEF IInv, TypeOK, mainVars
<1>6. InProgress'
  <2>1. seen[t].resp # "accepted"
    BY <1>1, <1>2 DEF IInv, InProgress
  <2>2. ASSUME NEW u \in Slot \ {t}, pc[u] \in Holding PROVE KeyOf(u) \in Key \ {k}
    BY <1>2, <2>2, Executing
  <2>3. QED BY <1>1, <1>2, <1>3, <1>4, <2>1, <2>2 DEF IInv, InProgress, Holding
<1>7. WrittenAccounted'
  BY <1>1, <1>2, <1>3, <1>4 DEF IInv, WrittenAccounted, mainVars
<1>8. WireFresh'
  <2>1. \A w \in wire : w[1] \in Key \ {k}
    BY <1>4 DEF IInv, TypeOK, WireFresh
  <2>2. QED BY <1>1, <1>2, <1>4, <2>1 DEF IInv, WireFresh
<1>9. AtMostOnce'
  BY <1>1, <1>4 DEF IInv, AtMostOnce
<1>10. QED BY <1>3, <1>5, <1>6, <1>7, <1>8, <1>9 DEF IInv

\* The response of the game: an acceptance was counted when the program ran.
LEMMA TakeResponseInv ==
  ASSUME IInv, NEW t \in Slot, TakeResponse(t)
  PROVE  IInv'
<1>1. pc[t] = "sent" /\ pc[t] \in Holding /\ "polling" \in Holding
  BY DEF TakeResponse, Holding
<1>2. seen[t] \in Seen
  BY <1>1, Executing
<1>3. CASE Finish(t, "error", seen[t].before)
  BY <1>1, <1>2, <1>3, FinishInv DEF Seen
<1>4. CASE /\ seen[t].resp = "accepted" /\ pc' = [pc EXCEPT ![t] = "polling"]
           /\ UNCHANGED <<arrived, game, wire, mainVars, lock, job, seen, reply, caches, history>>
  <2>1. /\ pc'[t] = "polling" /\ pc' \in [Slot -> Busy \cup {"idle", "answered"}]
        /\ \A u \in Slot \ {t} : pc'[u] = pc[u]
        /\ EpochsInOrder' /\ JobsKnown' /\ LockOwners' /\ OneCache'
    <3>1. seen' \in [Slot -> Seen \cup {None}] /\ seen'[t] \in Seen /\ \A u \in Slot \ {t} : seen'[u] = seen[u]
      BY <1>2, <1>4 DEF IInv, TypeOK
    <3>2. QED BY <1>1, <1>4, <3>1, InsideInv
  <2>2. TypeOK'
    BY <1>4, <2>1 DEF IInv, TypeOK, mainVars
  <2>3. InProgress'
    BY <1>1, <1>4, <2>1 DEF IInv, InProgress, Holding
  <2>4. WrittenAccounted'
    <3>1. \A u \in Slot : pc[u] \in {"sent", "polling"} => pc'[u] \in {"sent", "polling"}
      BY <1>1, <2>1
    <3>2. QED BY <1>4, <3>1 DEF IInv, WrittenAccounted, mainVars
  <2>5. WireFresh' /\ AtMostOnce'
    BY <1>4 DEF IInv, WireFresh, AtMostOnce
  <2>6. QED BY <2>1, <2>2, <2>3, <2>4, <2>5 DEF IInv
<1>5. QED BY <1>3, <1>4 DEF TakeResponse

\* A poll verifies, gives up, or remembers the state it saw.
LEMMA PollInv ==
  ASSUME IInv, NEW t \in Slot, Poll(t)
  PROVE  IInv'
<1>1. pc[t] = "polling" /\ pc[t] \in Holding /\ game \in State
  BY DEF Poll, Holding, IInv, TypeOK
<1>2. seen[t] \in Seen
  BY <1>1, Executing
<1>3. CASE \E status \in {"success", "error"} : Finish(t, status, game)
  BY <1>1, <1>3, FinishInv
<1>4. CASE /\ seen' = [seen EXCEPT ![t].after = game]
           /\ UNCHANGED <<game, wire, mainVars, arrived, lock, pc, job, reply, caches, history>>
  <2>1. /\ seen' \in [Slot -> Seen \cup {None}] /\ seen'[t] \in Seen
        /\ \A u \in Slot \ {t} : seen'[u] = seen[u]
    <3>1. [seen[t] EXCEPT !.after = game] \in Seen
      BY <1>1, <1>2 DEF Seen
    <3>2. QED BY <1>4, <3>1 DEF IInv, TypeOK
  <2>2. pc' = [pc EXCEPT ![t] = "polling"]
    BY <1>1, <1>4 DEF IInv, TypeOK
  <2>3. EpochsInOrder' /\ JobsKnown' /\ LockOwners' /\ OneCache'
    BY <1>1, <1>4, <2>1, <2>2, InsideInv
  <2>4. TypeOK'
    BY <1>4, <2>1 DEF IInv, TypeOK, mainVars
  <2>5. InProgress'
    BY <1>1, <1>4, <2>1 DEF IInv, InProgress, Holding
  <2>6. WrittenAccounted' /\ WireFresh' /\ AtMostOnce'
    BY <1>4 DEF IInv, WrittenAccounted, WireFresh, AtMostOnce, mainVars
  <2>7. QED BY <2>3, <2>4, <2>5, <2>6 DEF IInv
<1>5. QED BY <1>3, <1>4 DEF Poll

\* An answer from the before-state, or the last state polled at the deadline.
LEMMA FinishedFromSeenInv ==
  ASSUME IInv, NEW t \in Slot, AnswerLocally(t) \/ VerifyTimeout(t)
  PROVE  IInv'
<1>1. pc[t] \in Holding
  BY DEF AnswerLocally, VerifyTimeout, Holding
<1>2. seen[t].before \in State /\ seen[t].after \in State
  BY <1>1, Executing DEF Seen
<1>3. CASE AnswerLocally(t)
  <2>1. PICK status \in {"success", "error"} : Finish(t, status, seen[t].before)
    BY <1>3 DEF AnswerLocally
  <2>2. QED BY <1>1, <1>2, <2>1, FinishInv
<1>4. CASE VerifyTimeout(t)
  BY <1>1, <1>2, <1>4, FinishInv DEF VerifyTimeout
<1>5. QED BY <1>3, <1>4

-----------------------------------------------------------------------------
(* The game.                                                               *)

\* What commands do to a state gives a state.
LEMMA EffectTyped ==
  ASSUME NEW a \in Act, NEW s \in State
  PROVE  Effect(a, s) \in State
  BY DEF Effect, State, Act

\* So does what the game does by itself.
LEMMA GameMovesTyped ==
  ASSUME game \in State, GameMoves
  PROVE  game' \in State
<1>1. CASE game' \in Drift(game)
  <2>1. EndTurn \in Act
    BY DEF Act
  <2>2. CASE game' = Effect(EndTurn, game)
    BY <2>1, <2>2, EffectTyped
  <2>3. CASE \E d \in SUBSET Order : game' = [game EXCEPT !.done = d]
    BY <2>3 DEF State
  <2>4. QED
    <3>1. \A o \in Order : game.done \cup {o} \in SUBSET Order /\ game.done \ {o} \in SUBSET Order
      BY DEF State
    <3>2. QED BY <1>1, <2>2, <2>3, <3>1 DEF Drift
<1>2. CASE game.turn < MaxTurn /\ game' \in NextTurn(game)
  <2>1. PICK d \in SUBSET game.done : game' = [turn |-> game.turn + 1, active |-> TRUE, done |-> d]
    BY <1>2 DEF NextTurn
  <2>2. game.turn + 1 \in 0..MaxTurn /\ d \in SUBSET Order
    BY <1>2, <2>1, GameAssumption DEF State
  <2>3. QED BY <2>1, <2>2 DEF State
<1>3. QED BY <1>1, <1>2 DEF GameMoves

\* The game changes without a command.
LEMMA GameMovesInv ==
  ASSUME IInv, GameMoves
  PROVE  IInv'
<1>1. game' \in State
  BY GameMovesTyped DEF IInv, TypeOK
<1>2. UNCHANGED <<arrived, wire, mainVars, lock, pc, job, seen, reply, caches, history>>
  BY DEF GameMoves
<1> USE <1>2 DEF mainVars
<1>3. TypeOK'
  BY <1>1 DEF IInv, TypeOK
<1>4. EpochsInOrder' /\ JobsKnown' /\ LockOwners'
  BY DEF IInv, EpochsInOrder, JobsKnown, LockOwners
<1>5. InProgress' /\ WrittenAccounted' /\ WireFresh' /\ AtMostOnce' /\ OneCache'
  BY DEF IInv, InProgress, WrittenAccounted, WireFresh, AtMostOnce, OneCache
<1>6. QED BY <1>3, <1>4, <1>5 DEF IInv

\* A program on the wire is lost: nothing else is waiting for it to be counted.
LEMMA LoseProgramInv ==
  ASSUME IInv, NEW k \in Key, NEW a \in Act, LoseProgram(k, a)
  PROVE  IInv'
<1> USE DEF LoseProgram, mainVars
<1>1. TypeOK'
  BY DEF IInv, TypeOK
<1>2. EpochsInOrder' /\ JobsKnown' /\ LockOwners'
  BY DEF IInv, EpochsInOrder, JobsKnown, LockOwners
<1>3. InProgress' /\ WrittenAccounted' /\ AtMostOnce' /\ OneCache'
  BY DEF IInv, InProgress, WrittenAccounted, AtMostOnce, OneCache
<1>4. WireFresh'
  BY DEF IInv, WireFresh
<1>5. QED BY <1>1, <1>2, <1>3, <1>4 DEF IInv

\* The game runs a program: the only one of its key, accepted at most this once.
LEMMA RunProgramInv ==
  ASSUME IInv, NEW k \in Key, NEW a \in Act, RunProgram(k, a)
  PROVE  IInv'
<1>1. PICK ok \in BOOLEAN :
        /\ game' = IF ok THEN Effect(a, game) ELSE game
        /\ accepted' = [accepted EXCEPT ![k] = @ + (IF ok THEN 1 ELSE 0)]
        /\ seen' = [t \in Slot |-> IF pc[t] = "sent" /\ KeyOf(t) = k
                                   THEN [seen[t] EXCEPT !.resp = IF ok THEN "accepted" ELSE "refused"]
                                   ELSE seen[t]]
  BY DEF RunProgram, Accepts
<1>2. /\ <<k, a>> \in wire /\ wire' = wire \ {<<k, a>>}
      /\ UNCHANGED <<arrived, mainVars, lock, pc, job, reply, caches, writes>>
  BY DEF RunProgram
<1>3. writes[k] = 1 /\ accepted[k] = 0
  BY <1>2 DEF IInv, WireFresh
<1>4. accepted'[k] = (IF ok THEN 1 ELSE 0) /\ \A j \in Key \ {k} : accepted'[j] = accepted[j]
  BY <1>1, <1>3 DEF IInv, TypeOK
<1>5. \A t \in Slot : pc[t] \in Holding => seen[t] \in Seen /\ seen'[t] \in Seen
  <2>1. TAKE t \in Slot
  <2>2. HAVE pc[t] \in Holding
  <2>3. seen[t] \in Seen
    BY <2>2, Executing
  <2>4. \A x \in {"accepted", "refused"} : [seen[t] EXCEPT !.resp = x] \in Seen
    BY <2>3 DEF Seen
  <2>5. QED BY <1>1, <2>3, <2>4
<1>6. TypeOK'
  <2>1. seen' \in [Slot -> Seen \cup {None}]
    <3>1. \A t \in Slot : pc[t] = "sent" => pc[t] \in Holding
      BY DEF Holding
    <3>2. \A t \in Slot : seen'[t] \in Seen \cup {None}
      BY <1>1, <1>5, <3>1 DEF IInv, TypeOK
    <3>3. QED BY <1>1, <3>2
  <2>2. game' \in State
    BY <1>1, EffectTyped DEF IInv, TypeOK
  <2>3. accepted' \in [Key -> Nat]
    BY <1>1, <1>3 DEF IInv, TypeOK
  <2>4. QED BY <1>2, <2>1, <2>2, <2>3 DEF IInv, TypeOK, mainVars
<1>7. EpochsInOrder' /\ OneCache'
  BY <1>2 DEF IInv, EpochsInOrder, OneCache, mainVars
<1>8. JobsKnown'
  BY <1>2, <1>5 DEF IInv, JobsKnown, mainVars
<1>9. LockOwners'
  BY <1>2 DEF IInv, LockOwners, mainVars
<1>10. InProgress'
  <2>1. \A t \in Slot : pc[t] \in Holding => KeyOf(t) \in Key
    BY Executing
  <2>2. ASSUME NEW t \in Slot, pc[t] = "polling" PROVE KeyOf(t) # k
    BY <1>3, <2>2 DEF IInv, InProgress
  <2>3. ASSUME NEW t \in Slot, pc[t] = "sent", KeyOf(t) # k PROVE seen'[t] = seen[t]
    BY <1>1, <2>3
  <2>4. ASSUME NEW t \in Slot, pc[t] = "sent", KeyOf(t) = k, seen'[t].resp = "accepted" PROVE ok
    <3>1. seen[t] \in Seen
      BY <1>5, <2>4 DEF Holding
    <3>2. QED BY <1>1, <2>4, <3>1 DEF Seen
  <2>5. \A t \in Slot : pc[t] # "sent" => seen'[t] = seen[t]
    BY <1>1
  <2>6. QED BY <1>2, <1>3, <1>4, <2>1, <2>2, <2>3, <2>4, <2>5 DEF IInv, InProgress, Holding
<1>11. WrittenAccounted'
  BY <1>2 DEF IInv, WrittenAccounted, mainVars
<1>12. WireFresh'
  <2>1. \A w \in wire' : w \in wire /\ w[1] \in Key \ {k}
    BY <1>2 DEF IInv, TypeOK, WireFresh
  <2>2. QED BY <1>2, <1>4, <2>1 DEF IInv, WireFresh
<1>13. AtMostOnce'
  BY <1>2, <1>3, <1>4 DEF IInv, AtMostOnce
<1>14. QED BY <1>6, <1>7, <1>8, <1>9, <1>10, <1>11, <1>12, <1>13 DEF IInv

-----------------------------------------------------------------------------
(* The specification.                                                      *)

\* Every step of the specification keeps the invariant.
LEMMA NextInv == IInv /\ [Next]_vars => IInv'
<1> SUFFICES ASSUME IInv, [Next]_vars PROVE IInv'
  OBVIOUS
<1>1. CASE MainLoop
  BY <1>1, MainMovesInv, MainLocksInv, OpenSessionInv, CloseTunerInv, ProcessEndsInv DEF MainLoop
<1>2. CASE \E t \in Slot : Handler(t)
  <2>1. PICK t \in Slot : Handler(t)
    BY <1>2
  <2>2. CASE Admit(t) \/ Enter(t)
    BY <2>2, AdmitInv, EnterOnlyAnswersInv, BeginInv DEF Enter
  <2>3. CASE Progress(t)
    BY <2>3, ReadBeforeInv, FinishedFromSeenInv, SubmitInv, TakeResponseInv, StoppedInv, OutcomeUnknownInv
    DEF Progress, ResponseTimeout
  <2>4. CASE Poll(t) \/ RejectInvalid(t) \/ OutcomeUnknown(t)
    BY <2>4, PollInv, StoppedInv, OutcomeUnknownInv
  <2>5. QED BY <2>1, <2>2, <2>3, <2>4 DEF Handler
<1>3. CASE GameSteps
  BY <1>3, RunProgramInv, LoseProgramInv, GameMovesInv DEF GameSteps
<1>4. CASE Clients
  <2>1. PICK t \in Slot :
          \/ Hangup(t)
          \/ \E c \in Command, a \in Act, op \in {"write", "status"} : Connect(t, op, c, a, epoch)
          \/ Connect(t, "write", AnyCommand, EndTurn, epoch - 1)
          \/ Connect(t, "read", AnyCommand, EndTurn, epoch)
    BY <1>4 DEF Clients
  <2>2. CASE Hangup(t)
    BY <2>2, HangupInv
  <2>3. CASE \E op, c, a, s : Connect(t, op, c, a, s)
    <3>1. serving /\ epoch \in 0..MaxEpoch /\ epoch - 1 \in 0..MaxEpoch
      BY <2>3, WatcherAssumption DEF Connect, IInv, TypeOK, EpochsInOrder, Epoch
    <3>2. EndTurn \in Act /\ AnyCommand \in Command
      BY WatcherAssumption DEF Act, AnyCommand
    <3>3. CASE \E c \in Command, a \in Act, op \in {"write", "status"} : Connect(t, op, c, a, epoch)
      BY <3>1, <3>3, ConnectInv
    <3>4. CASE Connect(t, "write", AnyCommand, EndTurn, epoch - 1)
      BY <3>1, <3>2, <3>4, ConnectInv
    <3>5. CASE Connect(t, "read", AnyCommand, EndTurn, epoch)
      BY <3>1, <3>2, <3>5, ConnectInv
    <3>6. CASE Hangup(t)
      BY <3>6, HangupInv
    <3>7. QED BY <2>1, <3>3, <3>4, <3>5, <3>6
  <2>4. QED BY <2>1, <2>2, <2>3
<1>5. CASE UNCHANGED vars
  <2> USE <1>5 DEF vars, mainVars
  <2>1. TypeOK'
    BY DEF IInv, TypeOK
  <2>2. EpochsInOrder' /\ JobsKnown' /\ LockOwners'
    BY DEF IInv, EpochsInOrder, JobsKnown, LockOwners
  <2>3. InProgress' /\ WrittenAccounted' /\ WireFresh' /\ AtMostOnce' /\ OneCache'
    BY DEF IInv, InProgress, WrittenAccounted, WireFresh, AtMostOnce, OneCache
  <2>4. QED BY <2>1, <2>2, <2>3 DEF IInv
<1>6. QED BY <1>1, <1>2, <1>3, <1>4, <1>5 DEF Next

\* The inductive invariant of the watcher holds in every reachable state.
THEOREM Invariant == Spec => []IInv
  BY InitInv, NextInv, PTL DEF Spec

\* Every state the watcher reaches is well typed: the type invariant of Watcher.tla.
THEOREM TypeCorrect == Spec => []TypeOK
<1>1. IInv => TypeOK
  BY DEF IInv
<1>2. QED BY <1>1, Invariant, PTL

\* A command is sent to the game at most once per session and accepted at most as
\* often as sent, for any number of clients, retries, sessions and restarts: the
\* caches of make_control_handler and the once-opened connections are enough.
THEOREM SubmittedAtMostOnce == Spec => []AtMostOnce
<1>1. IInv => AtMostOnce
  BY DEF IInv
<1>2. QED BY <1>1, Invariant, PTL

-----------------------------------------------------------------------------
(* The watcher implements the command ledger.                              *)

\* A step that leaves the caches and the counters alone is a stutter of the ledger.
LEMMA LedgerStutter ==
  ASSUME UNCHANGED <<completed, uncertain, history>>
  PROVE  UNCHANGED Ledger!ledger
  BY DEF Ledger!ledger, Verdicts

\* An open key given a verdict is settled in the ledger.
LEMMA LedgerSettles ==
  ASSUME NEW k \in Key, NEW v \in {"success", "error", "unknown"}, Verdicts[k] = "open",
         Verdicts' = [Verdicts EXCEPT ![k] = v], UNCHANGED history,
         v = "success" => writes[k] = accepted[k]
  PROVE  Ledger!LedgerNext
<1>1. Ledger!Settle(k)
  BY DEF Ledger!Settle
<1>2. QED BY <1>1 DEF Ledger!LedgerNext

\* A terminal result is the settling of an open key; a success is one whose write,
\* if there was one, the game accepted.
LEMMA FinishSettles ==
  ASSUME IInv, NEW t \in Slot, pc[t] \in Holding, NEW after \in State,
         NEW status \in {"success", "error"}, Finish(t, status, after),
         status = "success" => writes[KeyOf(t)] = accepted[KeyOf(t)]
  PROVE  Ledger!LedgerNext
<1> DEFINE k == KeyOf(t)
           e == [act |-> job[t].act, res |-> [status |-> status, before |-> seen[t].before, after |-> after]]
<1>1. k \in Key /\ ~Settled(k) /\ e \in Entry
  BY Executing DEF Entry, Result, Seen, Job
<1>2. completed' = [completed EXCEPT ![k] = e] /\ UNCHANGED <<uncertain, history>>
  BY DEF Finish
<1>3. completed'[k] = e /\ e # None /\ e.res.status = status
  BY <1>1, <1>2, WatcherAssumption DEF IInv, TypeOK
<1>4. \A j \in Key \ {k} : completed'[j] = completed[j]
  BY <1>2 DEF IInv, TypeOK
<1>5. Verdicts[k] = "open" /\ Verdicts' = [Verdicts EXCEPT ![k] = status]
  <2> HIDE DEF e, k
  <2>1. Verdicts[k] = "open"
    BY <1>1 DEF Verdicts
  <2>2. \A j \in Key : Verdicts'[j] = IF j = k THEN status ELSE Verdicts[j]
    BY <1>1, <1>2, <1>3, <1>4 DEF Verdicts
  <2>3. Verdicts' = [Verdicts EXCEPT ![k] = status]
    BY <1>1, <2>2 DEF Verdicts
  <2>4. QED BY <2>1, <2>3
<1>6. QED BY <1>1, <1>2, <1>5, LedgerSettles

\* So is an outcome that stays unknown.
LEMMA OutcomeUnknownSettles ==
  ASSUME IInv, NEW t \in Slot, OutcomeUnknown(t)
  PROVE  Ledger!LedgerNext
<1> DEFINE k == KeyOf(t)
<1>1. k \in Key /\ ~Settled(k) /\ job[t].act \in Act /\ job[t].act # None
  BY Executing, WatcherAssumption DEF OutcomeUnknown, Job
<1>2. uncertain' = [uncertain EXCEPT ![k] = job[t].act] /\ UNCHANGED <<completed, history>>
  BY DEF OutcomeUnknown
<1>3. uncertain'[k] # None /\ \A j \in Key \ {k} : uncertain'[j] = uncertain[j]
  BY <1>1, <1>2 DEF IInv, TypeOK
<1>4. Verdicts[k] = "open" /\ Verdicts' = [Verdicts EXCEPT ![k] = "unknown"]
  <2> HIDE DEF k
  <2>1. QED BY <1>1, <1>2, <1>3 DEF Verdicts
<1>5. QED BY <1>1, <1>2, <1>4, LedgerSettles

\* The write of an open key that was not written.
LEMMA SubmitWrites ==
  ASSUME IInv, NEW t \in Slot, Submit(t)
  PROVE  Ledger!LedgerNext
<1> DEFINE k == KeyOf(t)
<1>1. pc[t] = "ready" /\ pc[t] \in Holding
  BY DEF Submit, Holding
<1>2. k \in Key /\ ~Settled(k) /\ writes[k] = 0
  BY <1>1, Executing DEF IInv, InProgress
<1>3. writes' = [writes EXCEPT ![k] = 1] /\ UNCHANGED <<completed, uncertain, accepted>>
  BY <1>2 DEF Submit
<1>4. UNCHANGED Verdicts /\ Verdicts[k] = "open"
  BY <1>2, <1>3 DEF Verdicts
<1>5. Ledger!Write(k)
  BY <1>2, <1>3, <1>4 DEF Ledger!Write
<1>6. QED BY <1>2, <1>5 DEF Ledger!LedgerNext

\* The game accepts a program that was written and not accepted yet, or refuses it.
LEMMA RunAccepts ==
  ASSUME IInv, NEW k \in Key, NEW a \in Act, RunProgram(k, a)
  PROVE  [Ledger!LedgerNext]_Ledger!ledger
<1>1. writes[k] = 1 /\ accepted[k] = 0
  BY DEF RunProgram, IInv, WireFresh
<1>2. accepted' = accepted \/ accepted' = [accepted EXCEPT ![k] = @ + 1]
  <2>1. PICK ok \in BOOLEAN : accepted' = [accepted EXCEPT ![k] = @ + (IF ok THEN 1 ELSE 0)]
    BY DEF RunProgram, Accepts
  <2>2. CASE ok
    BY <2>1, <2>2
  <2>3. CASE ~ok
    BY <1>1, <2>1, <2>3 DEF IInv, TypeOK
  <2>4. QED BY <2>2, <2>3
<1>3. UNCHANGED <<completed, uncertain, writes>> /\ UNCHANGED Verdicts
  BY DEF RunProgram, Verdicts
<1>4. CASE accepted' = accepted
  BY <1>3, <1>4, LedgerStutter
<1>5. CASE accepted' = [accepted EXCEPT ![k] = @ + 1]
  <2>1. Ledger!Accept(k)
    BY <1>1, <1>3, <1>5 DEF Ledger!Accept
  <2>2. QED BY <2>1 DEF Ledger!LedgerNext
<1>6. QED BY <1>2, <1>4, <1>5

\* Initially every key is open and unwritten.
LEMMA LedgerInitially == Init => Ledger!LedgerInit
<1> SUFFICES ASSUME Init PROVE Ledger!LedgerInit
  OBVIOUS
<1>1. Verdicts = [k \in Key |-> "open"]
  BY DEF Init, Verdicts
<1>2. QED BY <1>1 DEF Init, Ledger!LedgerInit

\* A handler step writes, settles or stutters.
LEMMA HandlerLedgerStep ==
  ASSUME IInv, NEW t \in Slot, Handler(t)
  PROVE  [Ledger!LedgerNext]_Ledger!ledger
<1>1. CASE Admit(t) \/ Enter(t) \/ ReadBefore(t) \/ RejectInvalid(t) \/ RuntimeFailure(t)
  BY <1>1, LedgerStutter
  DEF Admit, Enter, ReadState, Lookup, Replay, Begin, ReadBefore, RejectInvalid, RuntimeFailure
<1>2. CASE AnswerLocally(t)
  <2>1. /\ pc[t] = "ready" /\ pc[t] \in Holding /\ seen[t].before \in State
        /\ writes[KeyOf(t)] = 0 /\ accepted[KeyOf(t)] = 0
    <3>1. pc[t] = "ready" /\ pc[t] \in Holding
      BY <1>2 DEF AnswerLocally, Holding
    <3>2. KeyOf(t) \in Key /\ seen[t].before \in State
      BY <3>1, Executing DEF Seen
    <3>3. QED BY <3>1, <3>2 DEF IInv, InProgress, AtMostOnce, TypeOK
  <2>2. PICK status \in {"success", "error"} : Finish(t, status, seen[t].before)
    BY <1>2 DEF AnswerLocally
  <2>3. QED BY <2>1, <2>2, FinishSettles
<1>3. CASE Submit(t)
  BY <1>3, SubmitWrites
<1>4. CASE TakeResponse(t)
  <2>1. pc[t] \in Holding /\ seen[t].before \in State
    BY <1>4, Executing DEF TakeResponse, Holding, Seen
  <2>2. CASE Finish(t, "error", seen[t].before)
    BY <2>1, <2>2, FinishSettles
  <2>3. CASE UNCHANGED <<completed, uncertain, history>>
    BY <2>3, LedgerStutter
  <2>4. QED BY <1>4, <2>2, <2>3 DEF TakeResponse
<1>5. CASE Poll(t)
  <2>1. pc[t] = "polling" /\ pc[t] \in Holding /\ game \in State
    BY <1>5 DEF Poll, Holding, IInv, TypeOK
  <2>2. writes[KeyOf(t)] = accepted[KeyOf(t)]
    BY <2>1 DEF IInv, InProgress
  <2>3. CASE \E status \in {"success", "error"} : Finish(t, status, game)
    BY <2>1, <2>2, <2>3, FinishSettles
  <2>4. CASE UNCHANGED <<completed, uncertain, history>>
    BY <2>4, LedgerStutter
  <2>5. QED BY <1>5, <2>3, <2>4 DEF Poll
<1>6. CASE VerifyTimeout(t)
  <2>1. pc[t] \in Holding /\ seen[t].after \in State /\ Finish(t, "error", seen[t].after)
    BY <1>6, Executing DEF VerifyTimeout, Holding, Seen
  <2>2. QED BY <2>1, FinishSettles
<1>7. CASE OutcomeUnknown(t)
  BY <1>7, OutcomeUnknownSettles
<1>8. QED
  BY <1>1, <1>2, <1>3, <1>4, <1>5, <1>6, <1>7 DEF Handler, Progress, ResponseTimeout

\* The watcher implements the command ledger: every step of the threads, the main
\* loop, the game and the clients is a ledger step on the keys' verdicts and counters,
\* or none.
THEOREM LedgerRefined == Spec => ImplementsLedger
<1>1. IInv /\ [Next]_vars => [Ledger!LedgerNext]_Ledger!ledger
  <2> SUFFICES ASSUME IInv, [Next]_vars PROVE [Ledger!LedgerNext]_Ledger!ledger
    OBVIOUS
  <2>1. CASE \E t \in Slot : Handler(t)
    BY <2>1, HandlerLedgerStep
  <2>2. CASE MainLoop
    BY <2>2, LedgerStutter
    DEF MainLoop, OpenSession, RefuseUnsafe, MainLock, MainRead, MainLeave, StopServing, CloseTuner,
        ProcessEnds, Restart
  <2>3. CASE GameSteps
    <3>1. CASE \E k \in Key, a \in Act : RunProgram(k, a)
      BY <3>1, RunAccepts
    <3>2. CASE (\E k \in Key, a \in Act : LoseProgram(k, a)) \/ GameMoves
      BY <3>2, LedgerStutter DEF LoseProgram, GameMoves
    <3>3. QED BY <2>3, <3>1, <3>2 DEF GameSteps
  <2>4. CASE Clients \/ UNCHANGED vars
    BY <2>4, LedgerStutter DEF Clients, Hangup, Connect, vars
  <2>5. QED BY <2>1, <2>2, <2>3, <2>4 DEF Next
<1>2. QED BY <1>1, LedgerInitially, Invariant, PTL DEF Spec, ImplementsLedger, Ledger!LedgerSpec
-----------------------------------------------------------------------------
(* Verdicts and answers: one verdict per command, told only for the action *)
(* that was asked for, and a success only if the game backs it.  The three *)
(* properties are proved together, on top of IInv: one lemma for each way  *)
(* a step can touch verdicts and answers, then the actions.                *)

\* AnswersOwnAction, and what makes it inductive: a thread that has answered has a
\* request, and a key whose verdict it told has that verdict.
Told ==
  \A t \in Slot :
    pc[t] = "answered" =>
      /\ job[t] \in Job
      /\ reply[t].kind \in {"result", "found"} =>
           /\ completed[KeyOf(t)] # None
           /\ completed[KeyOf(t)] = [act |-> job[t].act, res |-> reply[t].res]
      /\ reply[t].kind = "unknown" =>
           uncertain[KeyOf(t)] # None /\ uncertain[KeyOf(t)] = job[t].act

VerdictInv == OneVerdict /\ Told /\ SuccessIsBacked

-----------------------------------------------------------------------------
(* Steps that give no verdict.                                             *)

\* A request that has answered belongs to a key.
LEMMA ToldKey ==
  ASSUME Told, NEW t \in Slot, pc[t] = "answered"
  PROVE  KeyOf(t) \in Key
  BY KeyTyped DEF Told

\* While the caches stay, the journal may grow by submissions.
LEMMA OneVerdictKept ==
  ASSUME OneVerdict, UNCHANGED <<completed, uncertain>>,
         \A r \in journal' \ journal : r[1] = "submitted"
  PROVE  OneVerdict'
<1> SUFFICES ASSUME NEW k \in Key
             PROVE  /\ completed'[k] = None \/ uncertain'[k] = None
                    /\ <<"result", k>> \in journal' => completed'[k] # None
                    /\ <<"unknown", k>> \in journal' => uncertain'[k] # None
  BY DEF OneVerdict
<1>1. <<"result", k>>[1] # "submitted" /\ <<"unknown", k>>[1] # "submitted"
  OBVIOUS
<1>2. QED BY <1>1 DEF OneVerdict

\* While caches, requests and the answers of those who had answered stay, nobody who
\* answered is contradicted.
LEMMA ToldKept ==
  ASSUME Told, UNCHANGED <<completed, uncertain>>,
         \A u \in Slot : pc'[u] = "answered" =>
           pc[u] = "answered" /\ job'[u] = job[u] /\ reply'[u] = reply[u]
  PROVE  Told'
  BY DEF Told

\* Nor is anybody by a thread that answers without a verdict.
LEMMA ToldNothing ==
  ASSUME TypeOK, Told, UNCHANGED <<job, completed, uncertain>>,
         NEW t \in Slot, job[t] \in Job, NEW r, Answer(t, r),
         r.kind \notin {"result", "found", "unknown"}
  PROVE  Told'
<1>1. reply'[t] = r /\ \A u \in Slot \ {t} : pc'[u] = pc[u] /\ reply'[u] = reply[u]
  BY DEF Answer, TypeOK
<1>2. QED BY <1>1 DEF Told

\* What was backed stays backed while caches and counters stay.
LEMMA BackedKept ==
  ASSUME SuccessIsBacked, UNCHANGED <<completed, history>>
  PROVE  SuccessIsBacked'
  BY DEF SuccessIsBacked

\* The main loop gives no verdict; when the process ends, the threads it ends with
\* leave their clients without one.
LEMMA MainLoopVerdicts ==
  ASSUME IInv, VerdictInv, MainLoop
  PROVE  VerdictInv'
<1>1. UNCHANGED <<completed, uncertain, journal, history, job>>
  BY DEF MainLoop, OpenSession, RefuseUnsafe, MainLock, MainRead, MainLeave, StopServing,
         CloseTuner, ProcessEnds, Restart
<1>2. OneVerdict' /\ SuccessIsBacked'
  BY <1>1, OneVerdictKept, BackedKept DEF VerdictInv
<1>3. CASE ProcessEnds
  <2>1. ASSUME NEW u \in Slot, pc'[u] = "answered", pc[u] # "answered"
        PROVE  job[u] \in Job /\ reply'[u].kind = "lost"
    <3>1. pc[u] \in Busy
      BY <1>3, <2>1 DEF ProcessEnds
    <3>2. QED BY <1>3, <3>1 DEF ProcessEnds, IInv, JobsKnown
  <2>2. ASSUME NEW u \in Slot, pc'[u] = "answered", pc[u] = "answered"
        PROVE  reply'[u] = reply[u]
    BY <1>3, <2>2 DEF ProcessEnds, Busy, Holding
  <2>3. Told'
    BY <1>1, <2>1, <2>2 DEF VerdictInv, Told
  <2>4. QED BY <1>2, <2>3 DEF VerdictInv
<1>4. CASE ~ProcessEnds
  <2>1. UNCHANGED <<pc, reply>>
    BY <1>4 DEF MainLoop, OpenSession, RefuseUnsafe, MainLock, MainRead, MainLeave, StopServing,
                CloseTuner, Restart
  <2>2. QED BY <1>1, <1>2, <2>1, ToldKept DEF VerdictInv
<1>5. QED BY <1>3, <1>4

\* A request that is refused before the lock gets no verdict.
LEMMA AdmitVerdicts ==
  ASSUME IInv, VerdictInv, NEW t \in Slot, Admit(t)
  PROVE  VerdictInv'
<1>1. UNCHANGED <<job, completed, uncertain, journal, history>> /\ job[t] \in Job
  BY DEF Admit, IInv, JobsKnown, Busy
<1>2. CASE Answer(t, [kind |-> "rejected"])
  BY <1>1, <1>2, ToldNothing, OneVerdictKept, BackedKept DEF VerdictInv, IInv
<1>3. CASE pc' = [pc EXCEPT ![t] = "waiting"] /\ reply' = reply
  <2>1. \A u \in Slot : pc'[u] = "answered" => pc[u] = "answered"
    BY <1>3 DEF IInv, TypeOK
  <2>2. QED BY <1>1, <1>3, <2>1, ToldKept, OneVerdictKept, BackedKept DEF VerdictInv
<1>4. QED BY <1>2, <1>3 DEF Admit

\* A replayed verdict, or one that is looked up, is that of the key, told only for the
\* action it is about.
LEMMA EnterVerdicts ==
  ASSUME IInv, VerdictInv, NEW t \in Slot, ReadState(t) \/ Lookup(t) \/ Replay(t)
  PROVE  VerdictInv'
<1>1. UNCHANGED <<job, completed, uncertain, journal, history>>
  BY DEF ReadState, Lookup, Replay
<1>2. job[t] \in Job /\ KeyOf(t) \in Key
  <2>1. pc[t] = "waiting"
    BY DEF ReadState, Lookup, Replay, LockFree
  <2>2. QED BY <2>1, KeyTyped DEF IInv, JobsKnown, Busy
<1>3. OneVerdict' /\ SuccessIsBacked'
  BY <1>1, OneVerdictKept, BackedKept DEF VerdictInv
<1>4. ASSUME NEW r, Answer(t, r),
             /\ r.kind \in {"result", "found"} =>
                  completed[KeyOf(t)] # None /\ completed[KeyOf(t)] = [act |-> job[t].act, res |-> r.res]
             /\ r.kind = "unknown" =>
                  uncertain[KeyOf(t)] # None /\ uncertain[KeyOf(t)] = job[t].act
      PROVE  Told'
  <2>1. reply'[t] = r /\ \A u \in Slot \ {t} : pc'[u] = pc[u] /\ reply'[u] = reply[u]
    BY <1>4 DEF Answer, IInv, TypeOK
  <2>2. QED BY <1>1, <1>2, <1>4, <2>1 DEF VerdictInv, Told
<1>5. completed[KeyOf(t)] # None /\ completed[KeyOf(t)].act = job[t].act =>
        completed[KeyOf(t)] = [act |-> job[t].act, res |-> completed[KeyOf(t)].res]
  BY <1>2 DEF IInv, TypeOK, Entry
<1>6. Told'
  <2>1. CASE ReadState(t)
    <3>1. PICK r : Answer(t, r) /\ r.kind \in {"state", "rejected", "internal"}
      BY <2>1 DEF ReadState
    <3>2. QED BY <1>4, <3>1
  <2>2. CASE Lookup(t)
    BY <1>4, <1>5, <2>2 DEF Lookup
  <2>3. CASE Replay(t)
    BY <1>4, <1>5, <2>3 DEF Replay
  <2>4. QED BY <2>1, <2>2, <2>3
<1>7. QED BY <1>3, <1>6 DEF VerdictInv

\* A command that begins is at most recorded as submitted.
LEMMA BeginVerdicts ==
  ASSUME IInv, VerdictInv, NEW t \in Slot, Begin(t)
  PROVE  VerdictInv'
<1>1. UNCHANGED <<job, completed, uncertain, history>> /\ job[t] \in Job
  BY DEF Begin, LockFree, IInv, JobsKnown, Busy
<1>2. \A r \in journal' \ journal : r[1] = "submitted"
  BY DEF Begin
<1>3. OneVerdict' /\ SuccessIsBacked'
  BY <1>1, <1>2, OneVerdictKept, BackedKept DEF VerdictInv
<1>4. CASE Answer(t, [kind |-> "internal"])
  BY <1>1, <1>3, <1>4, ToldNothing DEF VerdictInv, IInv
<1>5. CASE pc' = [pc EXCEPT ![t] = "before"] /\ reply' = reply
  <2>1. \A u \in Slot : pc'[u] = "answered" => pc[u] = "answered"
    BY <1>5 DEF IInv, TypeOK
  <2>2. QED BY <1>1, <1>3, <1>5, <2>1, ToldKept DEF VerdictInv
<1>6. QED BY <1>4, <1>5 DEF Begin

-----------------------------------------------------------------------------
(* Steps that give a verdict.                                              *)

\* Nobody was told a verdict on a command that a thread is still executing.
LEMMA NotYetTold ==
  ASSUME IInv, Told, NEW t \in Slot, pc[t] \in Holding,
         NEW u \in Slot, pc[u] = "answered", reply[u].kind \in {"result", "found", "unknown"}
  PROVE  KeyOf(u) # KeyOf(t) /\ KeyOf(u) \in Key /\ job[u] \in Job
<1>1. completed[KeyOf(t)] = None /\ uncertain[KeyOf(t)] = None
  BY Executing
<1>2. completed[KeyOf(u)] # None \/ uncertain[KeyOf(u)] # None
  BY DEF Told
<1>3. KeyOf(u) # KeyOf(t)
  <2> HIDE DEF KeyOf
  <2>1. QED BY <1>1, <1>2
<1>4. QED BY <1>3, ToldKey DEF Told

\* A terminal result is the only verdict of its key; when it is a success, what is
\* shown of the counters backs it.
LEMMA FinishVerdicts ==
  ASSUME IInv, VerdictInv, NEW t \in Slot, pc[t] \in Holding, NEW after \in State,
         NEW status \in {"success", "error"}, Finish(t, status, after),
         status = "success" =>
           \/ writes[KeyOf(t)] = 1 /\ accepted[KeyOf(t)] = 1
           \/ writes[KeyOf(t)] = 0 /\ Satisfied(job[t].act, seen[t].before)
  PROVE  VerdictInv'
<1> DEFINE k == KeyOf(t)
           res == [status |-> status, before |-> seen[t].before, after |-> after]
           e == [act |-> job[t].act, res |-> res]
<1>1. k \in Key /\ uncertain[k] = None /\ completed[k] = None /\ e \in Entry /\ job[t] \in Job
  BY Executing DEF Entry, Result, Seen, Job
<1>2. /\ completed' = [completed EXCEPT ![k] = e]
      /\ UNCHANGED <<uncertain, job, history>>
      /\ Answer(t, [kind |-> "result", res |-> res])
      /\ \A r \in journal' \ journal : r = <<"result", k>>
  BY DEF Finish
<1>3. completed'[k] = e /\ e # None /\ \A j \in Key \ {k} : completed'[j] = completed[j]
  BY <1>1, <1>2, WatcherAssumption DEF IInv, TypeOK
<1>4. e.act = job[t].act /\ e.res = res /\ res.status = status /\ res.before = seen[t].before
  OBVIOUS
<1>5. OneVerdict'
  <2> HIDE DEF e, k, res
  <2>1. SUFFICES ASSUME NEW j \in Key
                 PROVE  /\ completed'[j] = None \/ uncertain'[j] = None
                        /\ <<"result", j>> \in journal' => completed'[j] # None
                        /\ <<"unknown", j>> \in journal' => uncertain'[j] # None
    BY DEF OneVerdict
  <2>2. completed'[j] = None \/ uncertain'[j] = None
    BY <1>1, <1>2, <1>3 DEF VerdictInv, OneVerdict
  <2>3. <<"result", j>> \in journal' => completed'[j] # None
    <3>1. CASE j = k
      BY <1>3, <3>1
    <3>2. CASE j # k
      BY <1>2, <1>3, <3>2 DEF VerdictInv, OneVerdict
    <3>3. QED BY <3>1, <3>2
  <2>4. <<"unknown", j>> \in journal' => uncertain'[j] # None
    <3>1. <<"unknown", j>> # <<"result", k>>
      OBVIOUS
    <3>2. QED BY <1>2, <3>1 DEF VerdictInv, OneVerdict
  <2>5. QED BY <2>2, <2>3, <2>4
<1>6. Told'
  <2>1. reply'[t] = [kind |-> "result", res |-> res] /\ \A u \in Slot \ {t} : pc'[u] = pc[u] /\ reply'[u] = reply[u]
    BY <1>2 DEF Answer, IInv, TypeOK
  <2>2. reply'[t].kind = "result" /\ reply'[t].res = res
    BY <2>1
  <2>3. SUFFICES ASSUME NEW u \in Slot, pc'[u] = "answered"
                 PROVE  /\ job[u] \in Job
                        /\ reply'[u].kind \in {"result", "found"} =>
                             /\ completed'[KeyOf(u)] # None
                             /\ completed'[KeyOf(u)] = [act |-> job[u].act, res |-> reply'[u].res]
                        /\ reply'[u].kind = "unknown" =>
                             uncertain[KeyOf(u)] # None /\ uncertain[KeyOf(u)] = job[u].act
    BY <1>2 DEF Told
  <2>4. CASE u = t
    BY <1>1, <1>3, <2>2, <2>4
  <2>5. CASE u # t /\ reply[u].kind \in {"result", "found", "unknown"}
    <3>1. pc[u] = "answered" /\ reply'[u] = reply[u]
      BY <2>1, <2>3, <2>5
    <3>2. KeyOf(u) # KeyOf(t) /\ KeyOf(u) \in Key
      BY <2>5, <3>1, NotYetTold DEF VerdictInv
    <3>3. completed'[KeyOf(u)] = completed[KeyOf(u)]
      BY <1>3, <3>2
    <3>4. QED BY <3>1, <3>3 DEF VerdictInv, Told
  <2>6. CASE u # t /\ reply[u].kind \notin {"result", "found", "unknown"}
    BY <2>1, <2>3, <2>6 DEF VerdictInv, Told
  <2>7. QED BY <2>4, <2>5, <2>6
<1>7. SuccessIsBacked'
  <2> HIDE DEF e, k, res
  <2>1. SUFFICES ASSUME NEW j \in Key, completed'[j] # None, completed'[j].res.status = "success"
                 PROVE  \/ writes[j] = 1 /\ accepted[j] = 1
                        \/ writes[j] = 0 /\ Satisfied(completed'[j].act, completed'[j].res.before)
    BY <1>2 DEF SuccessIsBacked
  <2>2. CASE j = k
    BY <1>3, <1>4, <2>1, <2>2 DEF k
  <2>3. CASE j # k
    BY <1>3, <2>1, <2>3 DEF VerdictInv, SuccessIsBacked
  <2>4. QED BY <2>2, <2>3
<1>8. QED BY <1>5, <1>6, <1>7 DEF VerdictInv

\* So is an unknown outcome.
LEMMA OutcomeUnknownVerdicts ==
  ASSUME IInv, VerdictInv, NEW t \in Slot, OutcomeUnknown(t)
  PROVE  VerdictInv'
<1> DEFINE k == KeyOf(t)
<1>1. /\ pc[t] \in Holding /\ k \in Key /\ uncertain[k] = None /\ completed[k] = None
      /\ job[t] \in Job /\ job[t].act \in Act /\ job[t].act # None
  BY Executing, WatcherAssumption DEF OutcomeUnknown, Job
<1>2. /\ uncertain' = [uncertain EXCEPT ![k] = job[t].act]
      /\ UNCHANGED <<completed, job, history>>
      /\ Answer(t, [kind |-> "unknown"])
      /\ \A r \in journal' \ journal : r = <<"unknown", k>>
  BY DEF OutcomeUnknown
<1>3. uncertain'[k] = job[t].act /\ \A j \in Key \ {k} : uncertain'[j] = uncertain[j]
  BY <1>1, <1>2 DEF IInv, TypeOK
<1>4. OneVerdict'
  <2> HIDE DEF k
  <2>1. SUFFICES ASSUME NEW j \in Key
                 PROVE  /\ completed'[j] = None \/ uncertain'[j] = None
                        /\ <<"result", j>> \in journal' => completed'[j] # None
                        /\ <<"unknown", j>> \in journal' => uncertain'[j] # None
    BY DEF OneVerdict
  <2>2. completed'[j] = None \/ uncertain'[j] = None
    BY <1>1, <1>2, <1>3 DEF VerdictInv, OneVerdict
  <2>3. <<"unknown", j>> \in journal' => uncertain'[j] # None
    <3>1. CASE j = k
      BY <1>1, <1>3, <3>1
    <3>2. CASE j # k
      BY <1>2, <1>3, <3>2 DEF VerdictInv, OneVerdict
    <3>3. QED BY <3>1, <3>2
  <2>4. <<"result", j>> \in journal' => completed'[j] # None
    <3>1. <<"result", j>> # <<"unknown", k>>
      OBVIOUS
    <3>2. QED BY <1>2, <3>1 DEF VerdictInv, OneVerdict
  <2>5. QED BY <2>2, <2>3, <2>4
<1>5. Told'
  <2>1. reply'[t].kind = "unknown" /\ \A u \in Slot \ {t} : pc'[u] = pc[u] /\ reply'[u] = reply[u]
    BY <1>2 DEF Answer, IInv, TypeOK
  <2>2. SUFFICES ASSUME NEW u \in Slot, pc'[u] = "answered"
                 PROVE  /\ job[u] \in Job
                        /\ reply'[u].kind \in {"result", "found"} =>
                             /\ completed[KeyOf(u)] # None
                             /\ completed[KeyOf(u)] = [act |-> job[u].act, res |-> reply'[u].res]
                        /\ reply'[u].kind = "unknown" =>
                             uncertain'[KeyOf(u)] # None /\ uncertain'[KeyOf(u)] = job[u].act
    BY <1>2 DEF Told
  <2>3. CASE u = t
    BY <1>1, <1>3, <2>1, <2>3
  <2>4. CASE u # t /\ reply[u].kind = "unknown"
    <3>1. pc[u] = "answered" /\ reply'[u] = reply[u]
      BY <2>1, <2>2, <2>4
    <3>2. KeyOf(u) # KeyOf(t) /\ KeyOf(u) \in Key
      BY <1>1, <2>4, <3>1, NotYetTold DEF VerdictInv
    <3>3. uncertain'[KeyOf(u)] = uncertain[KeyOf(u)]
      BY <1>3, <3>2
    <3>4. QED BY <2>4, <3>1, <3>3 DEF VerdictInv, Told
  <2>5. CASE u # t /\ reply[u].kind # "unknown"
    BY <2>1, <2>2, <2>5 DEF VerdictInv, Told
  <2>6. QED BY <2>3, <2>4, <2>5
<1>6. SuccessIsBacked'
  BY <1>2, BackedKept DEF VerdictInv
<1>7. QED BY <1>4, <1>5, <1>6 DEF VerdictInv

\* The verdicts given from the before-state, from the game's refusal and by the deadline.
LEMMA EndedVerdicts ==
  ASSUME IInv, VerdictInv, NEW t \in Slot, AnswerLocally(t) \/ VerifyTimeout(t)
  PROVE  VerdictInv'
<1>1. pc[t] \in {"ready", "polling"} /\ pc[t] \in Holding
  BY DEF AnswerLocally, VerifyTimeout, Holding
<1>2. seen[t].before \in State /\ seen[t].after \in State
  BY <1>1, Executing DEF Seen
<1>3. CASE AnswerLocally(t)
  <2>1. writes[KeyOf(t)] = 0
    BY <1>3 DEF AnswerLocally, IInv, InProgress
  <2>2. CASE Satisfied(job[t].act, seen[t].before) /\ Finish(t, "success", seen[t].before)
    BY <1>1, <1>2, <2>1, <2>2, FinishVerdicts
  <2>3. CASE Finish(t, "error", seen[t].before)
    BY <1>1, <1>2, <2>3, FinishVerdicts
  <2>4. QED BY <1>3, <2>2, <2>3 DEF AnswerLocally
<1>4. CASE VerifyTimeout(t)
  BY <1>1, <1>2, <1>4, FinishVerdicts DEF VerifyTimeout
<1>5. QED BY <1>3, <1>4

\* A thread goes on inside the critical section: nothing of a verdict changes.
LEMMA InsideVerdicts ==
  ASSUME IInv, VerdictInv, NEW t \in Slot, NEW x, x # "answered",
         pc' = [pc EXCEPT ![t] = x],
         UNCHANGED <<job, reply, completed, uncertain, journal, history>>
  PROVE  VerdictInv'
<1>1. \A u \in Slot : pc'[u] = "answered" => pc[u] = "answered"
  BY DEF IInv, TypeOK
<1>2. QED BY <1>1, ToldKept, OneVerdictKept, BackedKept DEF VerdictInv

\* A response ends the command or starts the polling.
LEMMA TakeResponseVerdicts ==
  ASSUME IInv, VerdictInv, NEW t \in Slot, TakeResponse(t)
  PROVE  VerdictInv'
<1>1. pc[t] \in Holding
  BY DEF TakeResponse, Holding
<1>2. seen[t].before \in State
  BY <1>1, Executing DEF Seen
<1>3. CASE Finish(t, "error", seen[t].before)
  BY <1>1, <1>2, <1>3, FinishVerdicts
<1>4. CASE pc' = [pc EXCEPT ![t] = "polling"] /\ UNCHANGED <<job, reply, caches, history>>
  BY <1>4, InsideVerdicts
<1>5. QED BY <1>3, <1>4 DEF TakeResponse

\* A poll that verifies the command does so after the one accepted write.
LEMMA PollVerdicts ==
  ASSUME IInv, VerdictInv, NEW t \in Slot, Poll(t)
  PROVE  VerdictInv'
<1>1. pc[t] = "polling" /\ pc[t] \in Holding /\ game \in State
  BY DEF Poll, Holding, IInv, TypeOK
<1>2. writes[KeyOf(t)] = 1 /\ accepted[KeyOf(t)] = 1
  BY <1>1 DEF IInv, InProgress
<1>3. CASE Finish(t, "success", game) \/ Finish(t, "error", game)
  BY <1>1, <1>2, <1>3, FinishVerdicts
<1>4. CASE UNCHANGED <<pc, job, reply, caches, history>>
  BY <1>4, ToldKept, OneVerdictKept, BackedKept DEF VerdictInv
<1>5. QED BY <1>3, <1>4 DEF Poll

\* A thread that stops without a verdict tells none.
LEMMA StoppedVerdicts ==
  ASSUME IInv, VerdictInv, NEW t \in Slot, RejectInvalid(t) \/ RuntimeFailure(t)
  PROVE  VerdictInv'
<1>1. pc[t] \in Holding /\ UNCHANGED <<job, completed, uncertain, journal, history>>
  BY DEF RejectInvalid, RuntimeFailure, Holding
<1>2. job[t] \in Job
  BY <1>1, Executing
<1>3. PICK x \in {"rejected", "internal"} : Answer(t, [kind |-> x])
  BY DEF RejectInvalid, RuntimeFailure
<1>4. Told'
  BY <1>1, <1>2, <1>3, ToldNothing DEF VerdictInv, IInv
<1>5. QED BY <1>1, <1>4, OneVerdictKept, BackedKept DEF VerdictInv

-----------------------------------------------------------------------------
(* Steps that touch what a success rests on, clients and the game.         *)

\* A command is written before it has a verdict.
LEMMA SubmitVerdicts ==
  ASSUME IInv, VerdictInv, NEW t \in Slot, Submit(t)
  PROVE  VerdictInv'
<1>1. UNCHANGED <<job, reply, completed, uncertain, journal, accepted>>
  BY DEF Submit
<1>2. KeyOf(t) \in Key /\ completed[KeyOf(t)] = None
  BY Executing DEF Submit, Holding
<1>3. \A k \in Key : k # KeyOf(t) => writes'[k] = writes[k]
  BY DEF Submit, IInv, TypeOK
<1>4. SuccessIsBacked'
  BY <1>1, <1>2, <1>3 DEF VerdictInv, SuccessIsBacked
<1>5. \A u \in Slot : pc'[u] = "answered" => pc[u] = "answered"
  BY DEF Submit, IInv, TypeOK
<1>6. QED BY <1>1, <1>4, <1>5, ToldKept, OneVerdictKept DEF VerdictInv

\* A program that is run late belongs to a command without a success: one that had
\* nothing to write has no program, one that was verified had its program accepted.
LEMMA RunProgramVerdicts ==
  ASSUME IInv, VerdictInv, NEW k \in Key, NEW a \in Act, RunProgram(k, a)
  PROVE  VerdictInv'
<1>1. UNCHANGED <<pc, job, reply, completed, uncertain, journal, writes>>
  BY DEF RunProgram
<1>2. writes[k] = 1 /\ accepted[k] = 0
  <2>1. <<k, a>> \in wire
    BY DEF RunProgram
  <2>2. <<k, a>>[1] = k
    OBVIOUS
  <2>3. QED BY <2>1, <2>2 DEF IInv, WireFresh
<1>3. \A j \in Key : j # k => accepted'[j] = accepted[j]
  BY DEF RunProgram, IInv, TypeOK
<1>4. SuccessIsBacked'
  BY <1>1, <1>2, <1>3 DEF VerdictInv, SuccessIsBacked
<1>5. QED BY <1>1, <1>4, ToldKept, OneVerdictKept DEF VerdictInv

\* A client that connects or leaves, and the game, touch no verdict.
LEMMA SurroundingsVerdicts ==
  ASSUME IInv, VerdictInv,
         \/ \E k \in Key, a \in Act : LoseProgram(k, a)
         \/ GameMoves
         \/ \E t \in Slot : Hangup(t) \/ \E op, c, a, s : Connect(t, op, c, a, s)
         \/ UNCHANGED vars
  PROVE  VerdictInv'
<1>1. UNCHANGED <<completed, uncertain, journal, history>>
  BY DEF LoseProgram, GameMoves, Hangup, Connect, vars
<1>2. \A u \in Slot : pc'[u] = "answered" =>
        pc[u] = "answered" /\ job'[u] = job[u] /\ reply'[u] = reply[u]
  <2>1. CASE \E t \in Slot : Hangup(t)
    BY <2>1 DEF Hangup, IInv, TypeOK
  <2>2. CASE \E t \in Slot : \E op, c, a, s : Connect(t, op, c, a, s)
    BY <2>2 DEF Connect, IInv, TypeOK
  <2>3. CASE UNCHANGED <<pc, job, reply>>
    BY <2>3
  <2>4. QED BY <2>1, <2>2, <2>3 DEF LoseProgram, GameMoves, vars
<1>3. QED BY <1>1, <1>2, ToldKept, OneVerdictKept, BackedKept DEF VerdictInv

-----------------------------------------------------------------------------
(* The theorems.                                                           *)

\* No command has a verdict, and no client an answer, when the first process starts.
LEMMA InitVerdicts == Init => VerdictInv
  BY DEF Init, VerdictInv, OneVerdict, Told, SuccessIsBacked

\* Every step of the watcher, its clients and the game preserves the verdicts.
LEMMA NextVerdicts == IInv /\ VerdictInv /\ [Next]_vars => VerdictInv'
<1> SUFFICES ASSUME IInv, VerdictInv, [Next]_vars PROVE VerdictInv'
  OBVIOUS
<1>1. CASE MainLoop
  BY <1>1, MainLoopVerdicts
<1>2. CASE \E t \in Slot : Handler(t)
  <2>1. PICK t \in Slot : Handler(t)
    BY <1>2
  <2>2. CASE Admit(t) \/ Enter(t)
    BY <2>2, AdmitVerdicts, EnterVerdicts, BeginVerdicts DEF Enter
  <2>3. CASE ReadBefore(t)
    BY <2>3, InsideVerdicts DEF ReadBefore
  <2>4. CASE AnswerLocally(t) \/ VerifyTimeout(t)
    BY <2>4, EndedVerdicts
  <2>5. CASE Submit(t) \/ TakeResponse(t) \/ Poll(t)
    BY <2>5, SubmitVerdicts, TakeResponseVerdicts, PollVerdicts
  <2>6. CASE OutcomeUnknown(t) \/ RejectInvalid(t) \/ RuntimeFailure(t)
    BY <2>6, OutcomeUnknownVerdicts, StoppedVerdicts
  <2>7. QED BY <2>1, <2>2, <2>3, <2>4, <2>5, <2>6 DEF Handler, Progress, ResponseTimeout
<1>3. CASE GameSteps
  BY <1>3, RunProgramVerdicts, SurroundingsVerdicts DEF GameSteps
<1>4. CASE Clients
  BY <1>4, SurroundingsVerdicts DEF Clients
<1>5. CASE UNCHANGED vars
  BY <1>5, SurroundingsVerdicts
<1>6. QED BY <1>1, <1>2, <1>3, <1>4, <1>5 DEF Next

\* All three together, in every reachable state.
LEMMA Verdictful == Spec => []VerdictInv
<1>1. Init => IInv /\ VerdictInv
  BY InitInv, InitVerdicts
<1>2. IInv /\ VerdictInv /\ [Next]_vars => IInv' /\ VerdictInv'
  BY NextInv, NextVerdicts
<1>3. QED BY <1>1, <1>2, PTL DEF Spec

\* A command has one verdict: the two caches of make_control_handler and the records of
\* the journal never hold both a result and an unknown outcome of one id, whatever
\* fails, is retried or is appended, in any number of sessions.
THEOREM OneVerdictTheorem == Spec => []OneVerdict
<1>1. VerdictInv => OneVerdict
  BY DEF VerdictInv
<1>2. QED BY <1>1, Verdictful, PTL

\* A client that uses an id again with other arguments is never told a result or an
\* unknown outcome of the first use, by a replay or by a lookup (watch.py 199-225).
THEOREM OwnActionTheorem == Spec => []AnswersOwnAction
<1>1. VerdictInv => AnswersOwnAction
  BY DEF VerdictInv, Told, AnswersOwnAction
<1>2. QED BY <1>1, Verdictful, PTL

\* A success in completed_commands is backed by one write that the game accepted, or by
\* a before-state in which nothing was left to do; a program that the game runs late,
\* after its command was given up, never adds to a success.
THEOREM BackedTheorem == Spec => []SuccessIsBacked
<1>1. VerdictInv => SuccessIsBacked
  BY DEF VerdictInv
<1>2. QED BY <1>1, Verdictful, PTL
=============================================================================
