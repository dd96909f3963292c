------------------------------- MODULE Watcher ------------------------------
(***************************************************************************)
(* The watcher process: its main loop (watch.py, _watch_tuner), the        *)
(* handler threads of its local control server (ipc.py) running            *)
(* make_control_handler, and the FireTuner connection they share.  Every   *)
(* connection to the game is an epoch with its own bridge-session          *)
(* identity, lock and command caches (the closure of make_control_handler).*)
(* Clients are free: any request may arrive on any slot, with any command  *)
(* id, any action and any session, and any client may stop waiting.        *)
(***************************************************************************)
EXTENDS Civ5Game

CONSTANTS Command,     \* command UUIDs
          Slot,        \* client connections served at once, a handler thread each
          MaxEpoch,    \* bound: connections to the game
          MaxRequest,  \* bound: requests that arrive
          Journaling,  \* whether the watcher was started with --journal
          None

Epoch == 1..MaxEpoch
Key == Epoch \X Command

VARIABLES
  game,        \* the live state of the game
  wire,        \* keys and actions of programs sent to the game and not yet run
  epoch,       \* the last epoch opened
  main,        \* control state of the main loop
  leaving,     \* the main loop is on its way out of the process
  captured,    \* this process already holds a journal_capture
  serving,     \* the control socket accepts connections
  tuner,       \* [Epoch -> the FireTuner client of the epoch]
  lock,        \* [Epoch -> the owner of connection_lock]
  arrived,     \* requests received so far
  pc,          \* [Slot -> control state of the handler thread]
  job,         \* [Slot -> the request being handled]
  seen,        \* [Slot -> before and last polled state, the game's response]
  reply,       \* [Slot -> the answer]
  completed,   \* [Key -> completed_commands]
  uncertain,   \* [Key -> uncertain_commands]
  journal,     \* the lifecycle records appended to the journal
  writes,      \* history: [Key -> times the command was sent to the game]
  accepted     \* history: [Key -> times the game accepted it]

mainVars == <<epoch, main, leaving, captured, serving, tuner>>
caches == <<completed, uncertain, journal>>
history == <<writes, accepted>>
vars == <<game, wire, mainVars, arrived, lock, pc, job, seen, reply, caches, history>>

Result == [status : {"success", "error"}, before : State, after : State]
Reply ==
  [kind : {"none", "missing", "unknown", "rejected", "internal", "lost"}]
    \cup [kind : {"result", "found"}, res : Result]
    \cup [kind : {"state"}, sess : Epoch, state : State]
Job == [op : {"write", "status", "read"}, epoch : Epoch, cmd : Command,
        act : Act, sess : 0..MaxEpoch]
Seen == [before : State, after : State, resp : {"none", "accepted", "refused"},
         noted : BOOLEAN]
Entry == [act : Act, res : Result]

ASSUME WatcherAssumption ==
  /\ MaxEpoch \in Nat /\ MaxRequest \in Nat
  /\ Journaling \in BOOLEAN
  /\ Command # {} /\ Slot \cap {"free", "main"} = {}
  /\ None \notin Act \cup Job \cup Seen \cup Entry

Holding == {"before", "ready", "sent", "polling"}
Busy == {"received", "waiting"} \cup Holding

KeyOf(t) == <<job[t].epoch, job[t].cmd>>
Settled(k) == completed[k] # None \/ uncertain[k] # None

TypeOK ==
  /\ game \in State
  /\ wire \subseteq Key \X Act
  /\ epoch \in 0..MaxEpoch
  /\ main \in {"down", "idle", "reading", "closing", "stopping", "dying", "exited"}
  /\ leaving \in BOOLEAN /\ captured \in BOOLEAN /\ serving \in BOOLEAN
  /\ tuner \in [Epoch -> {"new", "open", "closed"}]
  /\ lock \in [Epoch -> Slot \cup {"free", "main"}]
  /\ arrived \in 0..MaxRequest
  /\ pc \in [Slot -> Busy \cup {"idle", "answered"}]
  /\ job \in [Slot -> Job \cup {None}]
  /\ seen \in [Slot -> Seen \cup {None}]
  /\ reply \in [Slot -> Reply]
  /\ completed \in [Key -> Entry \cup {None}]
  /\ uncertain \in [Key -> Act \cup {None}]
  /\ journal \subseteq {"submitted", "result", "unknown"} \X Key
  /\ writes \in [Key -> Nat]
  /\ accepted \in [Key -> Nat]

Init ==
  /\ game \in {[turn |-> 0, active |-> TRUE, done |-> d] : d \in SUBSET Order}
  /\ wire = {}
  /\ epoch = 0
  /\ main = "down"
  /\ leaving = FALSE /\ captured = FALSE /\ serving = FALSE
  /\ tuner = [e \in Epoch |-> "new"]
  /\ lock = [e \in Epoch |-> "free"]
  /\ arrived = 0
  /\ pc = [t \in Slot |-> "idle"]
  /\ job = [t \in Slot |-> None]
  /\ seen = [t \in Slot |-> None]
  /\ reply = [t \in Slot |-> [kind |-> "none"]]
  /\ completed = [k \in Key |-> None]
  /\ uncertain = [k \in Key |-> None]
  /\ journal = {}
  /\ writes = [k \in Key |-> 0]
  /\ accepted = [k \in Key |-> 0]

-----------------------------------------------------------------------------
(* The main loop.                                                          *)

\* Preflight, connect and handshake succeed.  A process that already captures
\* a journal refuses to go on under a new identity.
OpenSession ==
  /\ main = "down" /\ epoch < MaxEpoch
  /\ IF captured
     THEN /\ main' = "dying" /\ leaving' = TRUE
          /\ UNCHANGED <<epoch, serving, tuner, captured>>
     ELSE /\ epoch' = epoch + 1
          /\ tuner' = [tuner EXCEPT ![epoch + 1] = "open"]
          /\ serving' = TRUE /\ main' = "idle" /\ captured' = Journaling
          /\ UNCHANGED leaving
  /\ UNCHANGED <<arrived, game, wire, lock, pc, job, seen, reply, caches, history>>

\* require_safe_tuner_session fails: the process ends with status 1.
RefuseUnsafe ==
  /\ main = "down" /\ main' = "dying" /\ leaving' = TRUE
  /\ UNCHANGED <<arrived, game, wire, epoch, captured, serving, tuner, lock, pc, job,
                 seen, reply, caches, history>>

MainLock ==
  /\ main = "idle" /\ lock[epoch] = "free"
  /\ lock' = [lock EXCEPT ![epoch] = "main"]
  /\ main' = "reading"
  /\ UNCHANGED <<arrived, game, wire, epoch, leaving, captured, serving, tuner, pc, job,
                 seen, reply, caches, history>>

\* The read returns a state or no active match; or it desynchronizes or the
\* connection is lost, and the session is closed.
MainRead ==
  /\ main = "reading"
  /\ main' \in {"idle", "closing"}
  /\ lock' = [lock EXCEPT ![epoch] = "free"]
  /\ UNCHANGED <<arrived, game, wire, epoch, leaving, captured, serving, tuner, pc, job,
                 seen, reply, caches, history>>

\* Outside the lock: the journal refuses the snapshot, or the operator interrupts.
MainLeave ==
  /\ main = "idle" /\ main' = "closing" /\ leaving' = TRUE
  /\ UNCHANGED <<arrived, game, wire, epoch, captured, serving, tuner, lock, pc, job,
                 seen, reply, caches, history>>

\* LocalControlServer.close: no new connection; handler threads are not joined.
StopServing ==
  /\ main = "closing" /\ main' = "stopping" /\ serving' = FALSE
  /\ UNCHANGED <<arrived, game, wire, epoch, leaving, captured, tuner, lock, pc, job,
                 seen, reply, caches, history>>

CloseTuner ==
  /\ main = "stopping"
  /\ tuner' = [tuner EXCEPT ![epoch] = "closed"]
  /\ main' = IF leaving THEN "dying" ELSE "down"
  /\ UNCHANGED <<arrived, game, wire, epoch, leaving, captured, serving, lock, pc, job,
                 seen, reply, caches, history>>

\* The process ends, from its own return or killed: daemon threads end with
\* it and their clients see the connection close.
ProcessEnds ==
  /\ main # "exited" /\ main' = "exited"
  /\ serving' = FALSE /\ leaving' = FALSE /\ captured' = FALSE
  /\ tuner' = [e \in Epoch |-> IF tuner[e] = "open" THEN "closed" ELSE tuner[e]]
  /\ lock' = [e \in Epoch |-> "free"]
  /\ pc' = [t \in Slot |-> IF pc[t] \in Busy THEN "answered" ELSE pc[t]]
  /\ reply' = [t \in Slot |-> IF pc[t] \in Busy THEN [kind |-> "lost"] ELSE reply[t]]
  /\ seen' = [t \in Slot |-> None]
  /\ UNCHANGED <<arrived, game, wire, epoch, job, caches, history>>

Restart ==
  /\ main = "exited" /\ main' = "down"
  /\ UNCHANGED <<arrived, game, wire, epoch, leaving, captured, serving, tuner, lock, pc, job, seen, reply, caches, history>>

-----------------------------------------------------------------------------
(* The handler threads.  A step ends with Answer, or moves pc on.          *)

Answer(t, r) ==
  /\ pc' = [pc EXCEPT ![t] = "answered"]
  /\ reply' = [reply EXCEPT ![t] = r]

Unlock(t) ==
  /\ lock' = [lock EXCEPT ![job[t].epoch] = "free"]
  /\ seen' = [seen EXCEPT ![t] = None]

\* A client connects and its request line is read.
Connect(t, op, c, a, s) ==
  /\ pc[t] = "idle" /\ serving /\ arrived < MaxRequest
  /\ arrived' = arrived + 1
  /\ pc' = [pc EXCEPT ![t] = "received"]
  /\ job' = [job EXCEPT ![t] = [op |-> op, epoch |-> epoch, cmd |-> c, act |-> a, sess |-> s]]
  /\ UNCHANGED <<game, wire, mainVars, lock, seen, reply, caches, history>>

\* Before the lock: the session check of writes and lookups, then for a write
\* the safety check and the checks of the envelope, any of which rejects it.
Admit(t) ==
  /\ pc[t] = "received"
  /\ \/ /\ job[t].op # "read" /\ job[t].sess # job[t].epoch
        /\ Answer(t, [kind |-> "rejected"])
     \/ /\ job[t].op = "write" /\ job[t].sess = job[t].epoch
        /\ Answer(t, [kind |-> "rejected"])
     \/ /\ job[t].op # "read" => job[t].sess = job[t].epoch
        /\ pc' = [pc EXCEPT ![t] = "waiting"]
        /\ UNCHANGED reply
  /\ UNCHANGED <<arrived, game, wire, mainVars, lock, job, seen, caches, history>>

LockFree(t) == pc[t] = "waiting" /\ lock[job[t].epoch] = "free"

\* read_state, all of it under the lock.
ReadState(t) ==
  /\ LockFree(t) /\ job[t].op = "read"
  /\ \/ /\ tuner[job[t].epoch] = "open"
        /\ Answer(t, [kind |-> "state", sess |-> job[t].epoch, state |-> game])
     \/ Answer(t, [kind |-> "rejected"])
     \/ tuner[job[t].epoch] = "closed" /\ Answer(t, [kind |-> "internal"])
  /\ UNCHANGED <<arrived, game, wire, mainVars, lock, job, seen, caches, history>>

\* command_status: completed commands only.
Lookup(t) ==
  LET k == KeyOf(t) IN
  /\ LockFree(t) /\ job[t].op = "status"
  /\ Answer(t, IF completed[k] = None THEN [kind |-> "missing"]
               ELSE IF completed[k].act # job[t].act THEN [kind |-> "rejected"]
               ELSE [kind |-> "found", res |-> completed[k].res])
  /\ UNCHANGED <<arrived, game, wire, mainVars, lock, job, seen, caches, history>>

\* Mutant of Replay: the arguments are not compared.
ReplayAnyArguments(t) ==
  LET k == KeyOf(t) IN
  /\ LockFree(t) /\ job[t].op = "write"
  /\ \/ completed[k] # None /\ Answer(t, [kind |-> "result", res |-> completed[k].res])
     \/ completed[k] = None /\ uncertain[k] # None /\ Answer(t, [kind |-> "unknown"])
  /\ UNCHANGED <<arrived, game, wire, mainVars, lock, job, seen, caches, history>>

\* A write whose id is in a cache: replayed, or rejected for its arguments.
Replay(t) ==
  LET k == KeyOf(t) IN
  /\ LockFree(t) /\ job[t].op = "write"
  /\ \/ /\ completed[k] # None
        /\ Answer(t, IF completed[k].act # job[t].act THEN [kind |-> "rejected"]
                     ELSE [kind |-> "result", res |-> completed[k].res])
     \/ /\ completed[k] = None /\ uncertain[k] # None
        /\ Answer(t, IF uncertain[k] # job[t].act THEN [kind |-> "rejected"]
                     ELSE [kind |-> "unknown"])
  /\ UNCHANGED <<arrived, game, wire, mainVars, lock, job, seen, caches, history>>

\* Mutant of Begin: uncertain_commands is not consulted.
BeginIgnoringUncertain(t) ==
  /\ LockFree(t) /\ job[t].op = "write" /\ completed[KeyOf(t)] = None
  /\ lock' = [lock EXCEPT ![job[t].epoch] = t]
  /\ pc' = [pc EXCEPT ![t] = "before"]
  /\ seen' = [seen EXCEPT ![t] = [before |-> game, after |-> game,
                                  resp |-> "none", noted |-> Journaling]]
  /\ UNCHANGED <<arrived, game, wire, mainVars, job, reply, caches, history>>

\* A new id: take the lock; with a journal, read the state and append
\* command_submitted, and go on if either fails.  A closed client ends the
\* thread with a RuntimeError, which nothing below ipc.py catches.
Begin(t) ==
  LET k == KeyOf(t) IN
  /\ LockFree(t) /\ job[t].op = "write" /\ ~Settled(k)
  /\ \/ /\ Journaling => tuner[job[t].epoch] = "open"
        /\ lock' = [lock EXCEPT ![job[t].epoch] = t]
        /\ pc' = [pc EXCEPT ![t] = "before"]
        /\ \E noted \in {FALSE, Journaling}, appended \in {FALSE, Journaling} :
             /\ appended => noted
             /\ seen' = [seen EXCEPT ![t] = [before |-> game, after |-> game,
                                             resp |-> "none", noted |-> noted]]
             /\ journal' = journal \cup (IF appended THEN {<<"submitted", k>>} ELSE {})
        /\ UNCHANGED reply
     \/ /\ Journaling /\ tuner[job[t].epoch] = "closed"
        /\ Answer(t, [kind |-> "internal"])
        /\ UNCHANGED <<lock, seen, journal>>
  /\ UNCHANGED <<arrived, game, wire, mainVars, job, completed, uncertain, history>>

\* A terminal result: audited, journaled if that succeeds, cached, answered.
Finish(t, status, after) ==
  LET k == KeyOf(t)
      res == [status |-> status, before |-> seen[t].before, after |-> after] IN
  /\ completed' = [completed EXCEPT ![k] = [act |-> job[t].act, res |-> res]]
  /\ \E appended \in {FALSE, Journaling} :
       journal' = journal \cup (IF appended THEN {<<"result", k>>} ELSE {})
  /\ Unlock(t)
  /\ Answer(t, [kind |-> "result", res |-> res])
  /\ UNCHANGED <<arrived, game, wire, mainVars, job, uncertain, history>>

\* The tuner is open: read the state, and answer from it or go on to submit.
ReadBefore(t) ==
  /\ pc[t] = "before" /\ tuner[job[t].epoch] = "open"
  /\ seen' = [seen EXCEPT ![t].before = game, ![t].after = game]
  /\ pc' = [pc EXCEPT ![t] = "ready"]
  /\ UNCHANGED <<arrived, game, wire, mainVars, lock, job, reply, caches, history>>

AnswerLocally(t) ==
  LET before == seen[t].before IN
  /\ pc[t] = "ready"
  /\ \/ Satisfied(job[t].act, before) /\ Finish(t, "success", before)
     \/ /\ \E gone \in BOOLEAN : Inadmissible(job[t].act, before, gone)
        /\ Finish(t, "error", before)

\* CommandValidationError, from a malformed before-state: answered, not cached.
RejectInvalid(t) ==
  /\ pc[t] = "before" /\ job[t].act \in Consuming
  /\ Unlock(t) /\ Answer(t, [kind |-> "rejected"])
  /\ UNCHANGED <<arrived, game, wire, mainVars, job, caches, history>>

Submit(t) ==
  LET k == KeyOf(t) IN
  /\ pc[t] = "ready" /\ tuner[job[t].epoch] = "open"
  /\ ~Satisfied(job[t].act, seen[t].before)
  /\ ~Inadmissible(job[t].act, seen[t].before, FALSE)
  /\ wire' = wire \cup {<<k, job[t].act>>}
  /\ writes' = [writes EXCEPT ![k] = @ + 1]
  /\ pc' = [pc EXCEPT ![t] = "sent"]
  /\ UNCHANGED <<arrived, game, mainVars, lock, job, seen, reply, caches, accepted>>

\* Mutant of TakeResponse: a refusal is polled like an acceptance.
TakeAnyResponse(t) ==
  /\ pc[t] = "sent" /\ tuner[job[t].epoch] = "open" /\ seen[t].resp # "none"
  /\ pc' = [pc EXCEPT ![t] = "polling"]
  /\ UNCHANGED <<arrived, game, wire, mainVars, lock, job, seen, reply, caches, history>>

\* The game answered: refused ends the command, accepted starts the polling.
TakeResponse(t) ==
  /\ pc[t] = "sent" /\ tuner[job[t].epoch] = "open"
  /\ \/ seen[t].resp = "refused" /\ Finish(t, "error", seen[t].before)
     \/ /\ seen[t].resp = "accepted"
        /\ pc' = [pc EXCEPT ![t] = "polling"]
        /\ UNCHANGED <<arrived, game, wire, mainVars, lock, job, seen, reply, caches, history>>

Poll(t) ==
  LET before == seen[t].before
      a == job[t].act IN
  /\ pc[t] = "polling" /\ tuner[job[t].epoch] = "open"
  /\ \/ Verified(a, before, game) /\ Finish(t, "success", game)
     \/ Abandoned(a, before, game) /\ Finish(t, "error", game)
     \/ /\ ~Verified(a, before, game) /\ ~Abandoned(a, before, game)
        /\ seen' = [seen EXCEPT ![t].after = game]
        /\ UNCHANGED <<game, wire, mainVars, arrived, lock, pc, job, reply, caches, history>>

\* Mutant of VerifyTimeout: the deadline is only looked at when the turn is over.
VerifyTimeoutAfterTurn(t) ==
  pc[t] = "polling" /\ ~game.active /\ Finish(t, "error", seen[t].after)

\* verify_timeout: the last state polled is the evidence.
VerifyTimeout(t) == pc[t] = "polling" /\ Finish(t, "error", seen[t].after)

\* Mutant of OutcomeUnknown: the outcome is journaled and answered, not remembered.
OutcomeForgotten(t) ==
  /\ pc[t] \in Holding
  /\ journal' = journal \cup (IF seen[t].noted THEN {<<"unknown", KeyOf(t)>>} ELSE {})
  /\ Unlock(t)
  /\ Answer(t, [kind |-> "unknown"])
  /\ UNCHANGED <<arrived, game, wire, mainVars, job, completed, uncertain, history>>

\* ConnectionError, OSError, TimeoutError or (outside the polls) ValueError:
\* journaled if the submission was, remembered, answered outcome_unknown.
OutcomeUnknown(t) ==
  LET k == KeyOf(t) IN
  /\ pc[t] \in Holding
  /\ uncertain' = [uncertain EXCEPT ![k] = job[t].act]
  /\ \E appended \in {FALSE, seen[t].noted} :
       journal' = journal \cup (IF appended THEN {<<"unknown", k>>} ELSE {})
  /\ Unlock(t)
  /\ Answer(t, [kind |-> "unknown"])
  /\ UNCHANGED <<arrived, game, wire, mainVars, job, completed, history>>

\* Mutant of RuntimeFailure: the lock is not released on the way out.
RuntimeFailureHolding(t) ==
  /\ pc[t] \in Holding /\ tuner[job[t].epoch] = "closed"
  /\ Answer(t, [kind |-> "internal"])
  /\ UNCHANGED <<arrived, game, wire, mainVars, lock, job, seen, caches, history>>

\* The main loop closed the client under the thread: _require_socket raises
\* RuntimeError, ipc.py answers "internal bridge error" and nothing is cached.
RuntimeFailure(t) ==
  /\ pc[t] \in Holding /\ tuner[job[t].epoch] = "closed"
  /\ Unlock(t)
  /\ Answer(t, [kind |-> "internal"])
  /\ UNCHANGED <<arrived, game, wire, mainVars, job, caches, history>>

-----------------------------------------------------------------------------
(* Clients and the game.                                                   *)

\* The client reads the answer, or has left (the timeout of ipc.request does not
\* stop the thread) and the answer goes nowhere; the thread ends.
Hangup(t) ==
  /\ pc[t] = "answered"
  /\ pc' = [pc EXCEPT ![t] = "idle"]
  /\ job' = [job EXCEPT ![t] = None]
  /\ reply' = [reply EXCEPT ![t] = [kind |-> "none"]]
  /\ UNCHANGED <<arrived, game, wire, mainVars, lock, seen, caches, history>>

\* The game runs a program it received.  It may refuse an order it could
\* accept (messages being processed, an illegal tech or item).
RunProgram(k, a) ==
  /\ <<k, a>> \in wire
  /\ wire' = wire \ {<<k, a>>}
  /\ \E ok \in {FALSE, Accepts(a, game)} :
       /\ game' = IF ok THEN Effect(a, game) ELSE game
       /\ accepted' = [accepted EXCEPT ![k] = @ + (IF ok THEN 1 ELSE 0)]
       /\ seen' = [t \in Slot |-> IF pc[t] = "sent" /\ KeyOf(t) = k
                                  THEN [seen[t] EXCEPT !.resp = IF ok THEN "accepted" ELSE "refused"]
                                  ELSE seen[t]]
  /\ UNCHANGED <<arrived, mainVars, lock, pc, job, reply, caches, writes>>

\* A program still in the socket when its connection is closed may be lost.
LoseProgram(k, a) ==
  /\ <<k, a>> \in wire /\ tuner[k[1]] = "closed"
  /\ wire' = wire \ {<<k, a>>}
  /\ UNCHANGED <<arrived, game, mainVars, lock, pc, job, seen, reply, caches, history>>

GameMoves ==
  /\ \/ game' \in Drift(game)
     \/ ~game.active /\ game.turn < MaxTurn /\ game' \in NextTurn(game)
  /\ UNCHANGED <<arrived, wire, mainVars, lock, pc, job, seen, reply, caches, history>>

-----------------------------------------------------------------------------
MainLoop ==
  OpenSession \/ RefuseUnsafe \/ MainLock \/ MainRead \/ MainLeave \/ StopServing
    \/ CloseTuner \/ ProcessEnds \/ Restart

\* The steps a thread that holds the lock takes by itself: every read, every
\* response and the whole verification have a timeout in the code.
ResponseTimeout(t) == pc[t] \in {"before", "sent"} /\ OutcomeUnknown(t)

Progress(t) ==
  \/ ReadBefore(t) \/ AnswerLocally(t) \/ Submit(t) \/ TakeResponse(t)
  \/ ResponseTimeout(t) \/ VerifyTimeout(t) \/ RuntimeFailure(t)

Enter(t) == ReadState(t) \/ Lookup(t) \/ Replay(t) \/ Begin(t)

Handler(t) ==
  Admit(t) \/ Enter(t) \/ Progress(t) \/ Poll(t) \/ RejectInvalid(t) \/ OutcomeUnknown(t)

GameSteps == (\E k \in Key, a \in Act : RunProgram(k, a) \/ LoseProgram(k, a)) \/ GameMoves

AnyCommand == CHOOSE c \in Command : TRUE

\* Every client behaviour: used alone, the watcher faces all of them.
Clients ==
  \E t \in Slot :
    \/ Hangup(t)
    \/ \E c \in Command, a \in Act, op \in {"write", "status"} : Connect(t, op, c, a, epoch)
    \/ Connect(t, "write", AnyCommand, EndTurn, epoch - 1)   \* a session of the past
    \/ Connect(t, "read", AnyCommand, EndTurn, epoch)

Next == MainLoop \/ (\E t \in Slot : Handler(t)) \/ GameSteps \/ Clients

Spec == Init /\ [][Next]_vars

\* Threads and the main loop run and their timeouts expire.  A thread that finds
\* the lock free again and again gets it in the end: the main loop sleeps with the
\* lock free between two reads.  Nothing is assumed of the game, of the clients, or
\* of connections being made or lost.
Fairness ==
  /\ \A t \in Slot : WF_vars(Admit(t)) /\ WF_vars(Progress(t)) /\ SF_vars(Enter(t))
  /\ WF_vars(MainRead)

FairSpec == Spec /\ Fairness

-----------------------------------------------------------------------------
(* Safety.                                                                 *)

\* A command is sent to the game at most once per session, whatever clients
\* retry or give up and whatever fails: the promise of the two caches
\* (watch.py 197-225) although a RuntimeError leaves neither of them filled.
AtMostOnce == \A k \in Key : writes[k] <= 1 /\ accepted[k] <= writes[k]

\* A command has one verdict: never both a terminal result and an unknown
\* outcome, in the caches (command_status must not find an uncertain command)
\* or in the journal, and the journal never outruns the caches.
OneVerdict ==
  \A k \in Key :
    /\ completed[k] = None \/ uncertain[k] = None
    /\ <<"result", k>> \in journal => completed[k] # None
    /\ <<"unknown", k>> \in journal => uncertain[k] # None

\* Whoever is told a result is told the verdict on the action they asked for,
\* not on another action sent under the same id.
AnswersOwnAction ==
  \A t \in Slot :
    pc[t] = "answered" =>
      /\ reply[t].kind \in {"result", "found"} =>
           completed[KeyOf(t)] = [act |-> job[t].act, res |-> reply[t].res]
      /\ reply[t].kind = "unknown" => uncertain[KeyOf(t)] = job[t].act

\* A success is backed by the game: it accepted the one write, or nothing was
\* written because the before-state already showed the postcondition.
SuccessIsBacked ==
  \A k \in Key :
    completed[k] # None /\ completed[k].res.status = "success" =>
      \/ writes[k] = 1 /\ accepted[k] = 1
      \/ writes[k] = 0 /\ Satisfied(completed[k].act, completed[k].res.before)

\* The watcher implements the command ledger: a verdict is given once and never
\* revised, and no key is written after its verdict or twice before it.
Verdicts ==
  [k \in Key |-> IF completed[k] # None THEN completed[k].res.status
                 ELSE IF uncertain[k] # None THEN "unknown" ELSE "open"]

Ledger == INSTANCE CommandLedger WITH Keys <- Key, verdict <- Verdicts, written <- writes

ImplementsLedger == Ledger!LedgerSpec

\* docs/contracts/command.md 64-66: "A watcher failure after submission without a
\* validated terminal result is an unknown transport outcome".  The code answers
\* "internal bridge error" instead when the connection was closed under the thread.
FailureAfterSubmissionIsUnknown ==
  \A t \in Slot :
    pc[t] = "answered" /\ reply[t].kind = "internal" =>
      writes[KeyOf(t)] = 0 \/ Settled(KeyOf(t))

(* Liveness.                                                               *)

\* No request waits for ever, whoever holds the lock and however the main loop
\* and the connection come and go.
EveryRequestAnswered == \A t \in Slot : pc[t] \in Busy ~> pc[t] = "answered"

\* A command that was sent gets its verdict, unless its session is over.
WrittenIsSettled ==
  \A k \in Key : writes[k] > 0 ~> Settled(k) \/ tuner[k[1]] = "closed"

-----------------------------------------------------------------------------
(* The inductive invariant behind AtMostOnce and ImplementsLedger.         *)

\* Connections are opened in order and never reopened.
EpochsInOrder ==
  /\ \A e \in Epoch : tuner[e] = "new" <=> e > epoch
  /\ serving \/ main \in {"idle", "reading"} => epoch \in Epoch

\* A request in progress belongs to a connection that was opened.
JobsKnown ==
  \A t \in Slot :
    /\ pc[t] \in Busy => job[t] \in Job /\ tuner[job[t].epoch] # "new"
    /\ pc[t] \in Holding => job[t].op = "write" /\ seen[t] \in Seen

\* A thread executes a command exactly while it owns the lock of its epoch, and
\* the main loop reads only under the lock.
LockOwners ==
  /\ main = "reading" => lock[epoch] = "main"
  /\ \A t \in Slot : pc[t] \in Holding => lock[job[t].epoch] = t
  /\ \A e \in Epoch, t \in Slot : lock[e] = t => pc[t] \in Holding /\ job[t].epoch = e

\* What a thread in the critical section knows of its command.
InProgress ==
  \A t \in Slot :
    /\ pc[t] \in Holding => ~Settled(KeyOf(t))
    /\ pc[t] \in {"before", "ready"} => seen[t].resp = "none"
    /\ pc[t] = "ready" => writes[KeyOf(t)] = 0
    /\ pc[t] = "sent" => writes[KeyOf(t)] = 1
    /\ pc[t] = "polling" \/ (pc[t] = "sent" /\ seen[t].resp = "accepted")
         => writes[KeyOf(t)] = 1 /\ accepted[KeyOf(t)] = 1

\* A written command is settled, still being executed, or its connection is
\* closed for good: the case that covers the RuntimeError no cache records.
WrittenAccounted ==
  \A k \in Key :
    writes[k] > 0 =>
      /\ tuner[k[1]] # "new"
      /\ \/ Settled(k)
         \/ tuner[k[1]] = "closed"
         \/ \E t \in Slot : pc[t] \in {"sent", "polling"} /\ KeyOf(t) = k

\* A program on the wire is the only one of its key, and was not run yet.
WireFresh ==
  /\ \A w \in wire : writes[w[1]] = 1 /\ accepted[w[1]] = 0
  /\ \A v, w \in wire : v[1] = w[1] => v = w

\* A key is in one cache at most.
OneCache == \A k \in Key : completed[k] = None \/ uncertain[k] = None

IInv ==
  /\ TypeOK /\ EpochsInOrder /\ JobsKnown /\ LockOwners /\ InProgress
  /\ WrittenAccounted /\ WireFresh /\ AtMostOnce /\ OneCache
=============================================================================
