------------------------------- MODULE Journal ------------------------------
(***************************************************************************)
(* The turn journal: the store (journal/store.py) and the capture of a     *)
(* watcher (journal/integration.py, watch.py).  The file is a sequence of  *)
(* records; a record's sequence number is its place, and its hash chain    *)
(* follows from that, as nothing but the store writes the file.  A watcher *)
(* is a process with one bridge session.  Its main loop records snapshots  *)
(* without holding connection_lock; its handler thread, the one that holds *)
(* that lock, records the lifecycle of a command.  An append is one step:  *)
(* it runs under the exclusive lock of the file.                           *)
(***************************************************************************)
EXTENDS Naturals, Sequences

CONSTANTS Session,     \* the bridge sessions: one for each start of a watcher
          None,        \* no session, turn, or reference
          Overlap,     \* whether watchers may run at the same time
          MaxTurn, MaxCommand, MaxCorrection,  \* bounds: of the game, of the commands of
                       \* a watcher, of corrections
          MaxFault     \* bound: how often an append may fail

ASSUME JournalAssumption ==
  /\ None \notin Session /\ None \notin Nat
  /\ Overlap \in BOOLEAN
  /\ MaxTurn \in Nat /\ MaxCommand \in Nat /\ MaxCorrection \in Nat /\ MaxFault \in Nat

VARIABLES
  created,    \* whether the file exists
  file,       \* its records
  turn,       \* the turn of the game
  proc,       \* the start and the end of each watcher
  main,       \* its main loop
  previous,   \* the turn of the snapshot it recorded last, or None
  seen,       \* the turn of the state it has just read
  handler,    \* its handler thread
  command,    \* the number of the command it executes
  submitted,  \* submission_turn, or None
  result,     \* what the execution ended with
  errors,     \* whether journal_errors is not empty
  claims,     \* history: the answers that report no journal error
  corrections, faults

mainLoop == <<main, previous, seen>>
handlerThread == <<handler, command, submitted, result, errors, claims>>
watchers == <<proc, mainLoop, handlerThread>>
vars == <<created, file, turn, watchers, corrections, faults>>

Live == {"snapshot", "turn_transition", "command_submitted", "command_result", "verification_error"}
Binding == {"journal_started", "session_binding"}
Kind == Live \cup Binding \cup {"correction", "torn"}
Turn == 0..MaxTurn

\* ref: the turn a transition starts from, the command of a lifecycle record, the
\* record a correction supersedes.
Line == [kind : Kind, session : Session \cup {None}, turn : Turn \cup {None}, ref : Nat \cup {None}]
Torn == [kind |-> "torn", session |-> None, turn |-> None, ref |-> None]

Rec(kind, session, t, ref) == [kind |-> kind, session |-> session, turn |-> t, ref |-> ref]

\* How an execution ends: with a result (a success, or with status "error" a refusal or
\* a failure), with a malformed one (the error for arguments that are refused before any
\* state is read, so without a turn), with an unknown outcome, or with an answer that is
\* not journaled at all (an invalid command, a RuntimeError).
Outcome == {"result", "error", "malformed", "unknown", "silent"}
Nothing == [outcome |-> "none", turn |-> None]

TypeOK ==
  /\ created \in BOOLEAN /\ file \in Seq(Line) /\ turn \in Turn
  /\ proc \in [Session -> {"off", "created", "opened", "running", "ended"}]
  /\ main \in [Session -> {"loop", "transition", "snapshot", "leaving"}]
  /\ previous \in [Session -> Turn \cup {None}] /\ seen \in [Session -> Turn]
  /\ handler \in [Session -> {"idle", "submit", "execute", "result", "verification", "answer"}]
  /\ command \in [Session -> 0..MaxCommand] /\ submitted \in [Session -> Turn \cup {None}]
  /\ result \in [Session -> [outcome : Outcome \cup {"none"}, turn : Turn \cup {None}]]
  /\ errors \in [Session -> BOOLEAN]
  /\ claims \subseteq [session : Session, command : 1..MaxCommand, outcome : Outcome]
  /\ corrections \in 0..MaxCorrection /\ faults \in 0..MaxFault

Init ==
  /\ created = FALSE /\ file = <<>> /\ turn = 0
  /\ proc = [s \in Session |-> "off"]
  /\ main = [s \in Session |-> "loop"]
  /\ previous = [s \in Session |-> None] /\ seen = [s \in Session |-> 0]
  /\ handler = [s \in Session |-> "idle"] /\ command = [s \in Session |-> 0]
  /\ submitted = [s \in Session |-> None] /\ result = [s \in Session |-> Nothing]
  /\ errors = [s \in Session |-> FALSE] /\ claims = {}
  /\ corrections = 0 /\ faults = 0

-----------------------------------------------------------------------------
(* The store.                                                              *)

Bound(f) == {f[i].session : i \in {j \in DOMAIN f : f[j].kind \in Binding}}

\* decode_record: a line is whole, or no record; only the store writes the file, so that
\* its fields, its hash and its place in the chain are right whenever it is whole.
Decodes(line) == line.kind # "torn"

\* _read_verified.
Readable(f) ==
  /\ f # <<>>
  /\ \A i \in DOMAIN f :
       /\ Decodes(f[i])
       /\ f[i].kind = "journal_started" <=> i = 1
       /\ f[i].kind \in Binding => f[i].turn = None
       /\ f[i].kind = "correction" => f[i].ref \in Nat /\ f[i].ref < i - 1
       /\ f[i].kind \in Live =>
            /\ f[i].turn # None
            /\ \E j \in 1..(i - 1) : f[j].kind \in Binding /\ f[j].session = f[i].session
       /\ \A j \in 1..(i - 1) :
            /\ f[i].kind = "session_binding" /\ f[j].kind \in Binding => f[j].session # f[i].session
            /\ f[i].turn # None /\ f[j].turn # None => f[j].turn <= f[i].turn

\* Mutant of Accepts: only the end of the file is looked at.
AcceptsAnyTurn(r) ==
  /\ Readable(file)
  /\ IF r.kind = "session_binding" THEN r.session \notin Bound(file)
                                   ELSE r.session # None => r.session \in Bound(file)
  /\ r.kind = "correction" => r.ref < Len(file)

\* _append_locked: what is checked of a new record.  The turns of a readable file never
\* fall, so its last turn, which the code compares, is its highest.
Accepts(r) ==
  /\ Readable(file)
  /\ IF r.kind = "session_binding" THEN r.session \notin Bound(file)
                                   ELSE r.session # None => r.session \in Bound(file)
  /\ r.turn # None =>
       \A i \in DOMAIN file : file[i].turn # None => file[i].turn <= r.turn
  /\ r.kind = "correction" => r.ref < Len(file)

\* Writing and fsync may fail with nothing, a part of the record, or all of it written.
WriteFails(r) ==
  /\ faults < MaxFault /\ faults' = faults + 1
  /\ file' \in {file, Append(file, Torn), Append(file, r)}

\* An append ends with success (ok), or with an exception (failed).
Store(r, ok, failed) ==
  \/ Accepts(r) /\ file' = Append(file, r) /\ UNCHANGED faults /\ ok
  \/ ~Accepts(r) /\ UNCHANGED <<file, faults>> /\ failed
  \/ Accepts(r) /\ WriteFails(r) /\ failed

\* The file never has to be long: bounds the corrections an operator appends.
Correct ==
  /\ corrections < MaxCorrection /\ corrections' = corrections + 1
  /\ created /\ \E i \in 0..Len(file) : Store(Rec("correction", None, None, i), TRUE, TRUE)
  /\ UNCHANGED <<created, turn, watchers>>

-----------------------------------------------------------------------------
(* The start and the end of a watcher.                                     *)

Running(s) == proc[s] \notin {"off", "ended"}

MayStart(s) == proc[s] = "off" /\ (Overlap \/ \A q \in Session : ~Running(q))

\* The local variables of a handler thread that has answered, or is dead.
Forget(s) ==
  /\ submitted' = [submitted EXCEPT ![s] = None]
  /\ result' = [result EXCEPT ![s] = Nothing] /\ errors' = [errors EXCEPT ![s] = FALSE]

To(f, s, v) == f' = [f EXCEPT ![s] = v]

\* --journal-mode new: the file must not exist.
CreateFile(s) ==
  /\ MayStart(s) /\ ~created /\ created' = TRUE /\ To(proc, s, "created")
  /\ UNCHANGED <<file, turn, mainLoop, handlerThread, corrections, faults>>

WriteStart(s) ==
  /\ proc[s] = "created"
  /\ LET r == Rec("journal_started", s, None, None) IN
     \/ file' = Append(file, r) /\ To(proc, s, "running") /\ UNCHANGED faults
     \/ WriteFails(r) /\ To(proc, s, "ended")
  /\ UNCHANGED <<created, turn, mainLoop, handlerThread, corrections>>

\* --journal-mode resume: opening reads the file, binding the session appends to it.
OpenFile(s) ==
  /\ MayStart(s) /\ created /\ Readable(file) /\ To(proc, s, "opened")
  /\ UNCHANGED <<created, file, turn, mainLoop, handlerThread, corrections, faults>>

BindSession(s) ==
  /\ proc[s] = "opened"
  /\ Store(Rec("session_binding", s, None, None), To(proc, s, "running"), To(proc, s, "ended"))
  /\ UNCHANGED <<created, turn, mainLoop, handlerThread, corrections>>

\* The main loop leaves: the connection failed (a journal is not carried over to the
\* next one).  Its threads run until the process ends, of this or of a signal.
LeaveLoop(s) ==
  /\ proc[s] = "running" /\ main[s] = "loop" /\ To(main, s, "leaving")
  /\ UNCHANGED <<created, file, turn, proc, previous, seen, handlerThread, corrections, faults>>

ProcessEnds(s) ==
  /\ Running(s) /\ To(proc, s, "ended")
  /\ To(main, s, "loop") /\ To(previous, s, None) /\ To(seen, s, 0)
  /\ To(handler, s, "idle") /\ To(command, s, 0) /\ Forget(s)
  /\ UNCHANGED <<created, file, turn, claims, corrections, faults>>

-----------------------------------------------------------------------------
(* The main loop.                                                          *)

\* Mutant of ReadState: without connection_lock.
ReadStateUnlocked(s) ==
  /\ proc[s] = "running" /\ main[s] = "loop" /\ previous[s] # turn
  /\ To(seen, s, turn)
  /\ To(main, s, IF previous[s] = None THEN "snapshot" ELSE "transition")
  /\ UNCHANGED <<created, file, turn, proc, previous, handlerThread, corrections, faults>>

\* read_game_state, under connection_lock.  States are told apart by their turn; one that
\* is not new is not recorded.  A turn never falls here: no save is loaded.
ReadState(s) ==
  /\ proc[s] = "running" /\ main[s] = "loop" /\ handler[s] = "idle" /\ previous[s] # turn
  /\ To(seen, s, turn)
  /\ To(main, s, IF previous[s] = None THEN "snapshot" ELSE "transition")
  /\ UNCHANGED <<created, file, turn, proc, previous, handlerThread, corrections, faults>>

RecordTransition(s) ==
  /\ proc[s] = "running" /\ main[s] = "transition"
  /\ Store(Rec("turn_transition", s, seen[s], previous[s]), To(main, s, "snapshot"), To(main, s, "leaving"))
  /\ UNCHANGED <<created, turn, proc, previous, seen, handlerThread, corrections>>

\* Mutant of RecordSnapshot: previous is kept from the session's first snapshot.
RecordSnapshotStale(s) ==
  /\ proc[s] = "running" /\ main[s] = "snapshot"
  /\ Store(Rec("snapshot", s, seen[s], None),
           /\ To(main, s, "loop")
           /\ previous' = IF previous[s] = None THEN [previous EXCEPT ![s] = seen[s]] ELSE previous,
           To(main, s, "leaving") /\ UNCHANGED previous)
  /\ UNCHANGED <<created, turn, proc, seen, handlerThread, corrections>>

RecordSnapshot(s) ==
  /\ proc[s] = "running" /\ main[s] = "snapshot"
  /\ Store(Rec("snapshot", s, seen[s], None),
           To(main, s, "loop") /\ To(previous, s, seen[s]),
           To(main, s, "leaving") /\ UNCHANGED previous)
  /\ UNCHANGED <<created, turn, proc, seen, handlerThread, corrections>>

-----------------------------------------------------------------------------
(* The handler thread that holds connection_lock.                          *)

\* Mutant of BeginCommand: commands are not told apart.
BeginSameCommand(s) ==
  /\ proc[s] = "running" /\ handler[s] = "idle"
  /\ To(submitted, s, turn) /\ To(handler, s, "submit") /\ To(errors, s, FALSE)
  /\ UNCHANGED <<created, file, turn, proc, mainLoop, command, result, claims, corrections, faults>>

\* The read for the submission record may fail; the command is executed all the same.
BeginCommand(s) ==
  /\ proc[s] = "running" /\ handler[s] = "idle" /\ command[s] < MaxCommand
  /\ To(command, s, command[s] + 1)
  /\ \/ To(submitted, s, turn) /\ To(handler, s, "submit") /\ To(errors, s, FALSE)
     \/ To(submitted, s, None) /\ To(handler, s, "execute") /\ To(errors, s, TRUE)
  /\ UNCHANGED <<created, file, turn, proc, mainLoop, result, claims, corrections, faults>>

KeepCommand == UNCHANGED <<created, turn, proc, mainLoop, command, submitted, result, claims, corrections>>

RecordSubmitted(s) ==
  /\ proc[s] = "running" /\ handler[s] = "submit"
  /\ To(handler, s, "execute")
  /\ Store(Rec("command_submitted", s, submitted[s], command[s]), UNCHANGED errors, To(errors, s, TRUE))
  /\ KeepCommand

\* The turn of a result is the latest one read while executing.
Execute(s) ==
  /\ proc[s] = "running" /\ handler[s] = "execute"
  /\ \E o \in Outcome :
       /\ To(result, s, [outcome |-> o, turn |-> IF o = "malformed" THEN None ELSE turn])
       /\ To(handler, s, IF \/ o = "silent"
                            \/ o = "unknown" /\ submitted[s] = None
                         THEN "answer"
                         ELSE IF o = "unknown" THEN "verification" ELSE "result")
  /\ UNCHANGED <<created, file, turn, proc, mainLoop, command, submitted, errors, claims, corrections, faults>>

\* A result without a turn is passed over: no record, and no error either.
RecordResult(s) ==
  /\ proc[s] = "running" /\ handler[s] = "result"
  /\ \/ /\ result[s].turn = None /\ To(handler, s, "answer")
        /\ UNCHANGED <<file, errors, faults>>
     \/ /\ result[s].turn # None
        /\ Store(Rec("command_result", s, result[s].turn, command[s]),
                 /\ To(handler, s, IF result[s].outcome = "error" THEN "verification" ELSE "answer")
                 /\ UNCHANGED errors,
                 To(handler, s, "answer") /\ To(errors, s, TRUE))
  /\ KeepCommand

\* The second record of a result that is an error, or the record of an unknown outcome.
Verification(s) ==
  Rec("verification_error", s,
      IF result[s].outcome = "unknown" THEN submitted[s] ELSE result[s].turn, command[s])

\* Mutant of RecordVerification: a failure here is not reported.
RecordVerificationSilently(s) ==
  /\ proc[s] = "running" /\ handler[s] = "verification" /\ To(handler, s, "answer")
  /\ Store(Verification(s), TRUE, TRUE)
  /\ UNCHANGED errors /\ KeepCommand

RecordVerification(s) ==
  /\ proc[s] = "running" /\ handler[s] = "verification" /\ To(handler, s, "answer")
  /\ Store(Verification(s), UNCHANGED errors, To(errors, s, TRUE))
  /\ KeepCommand

\* An answer that is not journaled does not report the errors met before it either.
Answer(s) ==
  /\ proc[s] = "running" /\ handler[s] = "answer" /\ To(handler, s, "idle") /\ Forget(s)
  /\ claims' = IF errors[s] /\ result[s].outcome # "silent" THEN claims
               ELSE claims \cup {[session |-> s, command |-> command[s], outcome |-> result[s].outcome]}
  /\ UNCHANGED <<created, file, turn, proc, mainLoop, command, corrections, faults>>

NextTurn ==
  /\ turn < MaxTurn /\ turn' = turn + 1
  /\ UNCHANGED <<created, file, watchers, corrections, faults>>

-----------------------------------------------------------------------------
Lifetime(s) ==
  CreateFile(s) \/ WriteStart(s) \/ OpenFile(s) \/ BindSession(s) \/ LeaveLoop(s) \/ ProcessEnds(s)

MainLoop(s) == ReadState(s) \/ RecordTransition(s) \/ RecordSnapshot(s)

Handler(s) ==
  \/ BeginCommand(s) \/ RecordSubmitted(s) \/ Execute(s)
  \/ RecordResult(s) \/ RecordVerification(s) \/ Answer(s)

Next ==
  \/ \E s \in Session : Lifetime(s) \/ MainLoop(s) \/ Handler(s)
  \/ Correct
  \/ NextTurn

Spec == Init /\ [][Next]_vars

-----------------------------------------------------------------------------
(* Properties.                                                             *)

Whole == IF file # <<>> /\ file[Len(file)].kind = "torn" THEN SubSeq(file, 1, Len(file) - 1) ELSE file

\* Whatever the processes append in whatever order, and whatever fails, the next reader
\* accepts all of the file but a last record that was cut off, and nothing ever
\* follows such a record.
Intact == Whole # <<>> => Readable(Whole)

\* The inductive invariant of the proofs: besides, only the process that has created the
\* file is going to write its first record, and a thread has what its next record needs.
Creating ==
  /\ ~created => file = <<>>
  /\ \A s \in Session : proc[s] = "created" =>
       created /\ file = <<>> /\ \A q \in Session \ {s} : proc[q] # "created"

Executing ==
  \A s \in Session :
    /\ handler[s] = "submit" => submitted[s] # None
    /\ handler[s] = "verification" =>
         IF result[s].outcome = "unknown" THEN submitted[s] # None ELSE result[s].turn # None
    /\ handler[s] # "idle" => command[s] # 0
    /\ handler[s] \in {"result", "verification", "answer"} => result[s].outcome # "none"

IInv == TypeOK /\ Creating /\ Executing /\ Intact

Holds(kind, s, c, i) == file[i].kind = kind /\ file[i].session = s /\ file[i].ref = c

Journaled(a) ==
  a.outcome # "silent" =>
    \E i \in DOMAIN file :
      /\ Holds("command_submitted", a.session, a.command, i)
      /\ a.outcome # "malformed" =>
           \E j \in DOMAIN file :
             /\ i < j
             /\ Holds(IF a.outcome = "unknown" THEN "verification_error" ELSE "command_result",
                      a.session, a.command, j)
             /\ a.outcome = "error" =>
                  \E k \in DOMAIN file : j < k /\ Holds("verification_error", a.session, a.command, k)

\* An answer without journal_error is about a command whose whole lifecycle is in the
\* file, in its order; if its arguments were malformed, at least its submission is.
ClaimsJournaled == \A a \in claims : Journaled(a)

Snapshots(s) == {j \in DOMAIN file : file[j].kind = "snapshot" /\ file[j].session = s}

\* j is the last of the snapshots before i; k is the first one after it.
Before(i, j, s) == j \in Snapshots(s) /\ j < i /\ \A k \in Snapshots(s) : k < i => k <= j
After(i, k, s) == k \in Snapshots(s) /\ i < k /\ \A j \in Snapshots(s) : i < j => k <= j

\* A transition starts from the latest snapshot of its session, and the next snapshot of
\* the session is the one it leads to, whatever the handler thread records in between.
TransitionsJoinSnapshots ==
  \A i \in DOMAIN file : file[i].kind = "turn_transition" =>
    LET s == file[i].session IN
    /\ file[i].ref < file[i].turn
    /\ \E j \in DOMAIN file : Before(i, j, s) /\ file[j].turn = file[i].ref
    /\ \A k \in DOMAIN file : After(i, k, s) => file[k].turn = file[i].turn

\* With one watcher at a time, the records of a command are never refused: they are
\* written under connection_lock, and nobody reads a later turn meanwhile.
CommandRecordsAccepted ==
  \A s \in Session : proc[s] = "running" /\ Readable(file) =>
    /\ handler[s] = "submit" => Accepts(Rec("command_submitted", s, submitted[s], command[s]))
    /\ handler[s] = "result" /\ result[s].turn # None =>
         Accepts(Rec("command_result", s, result[s].turn, command[s]))
    /\ handler[s] = "verification" => Accepts(Verification(s))
=============================================================================
