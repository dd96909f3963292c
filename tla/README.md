# Verification of civ5-agent

civ5-agent lets a program play a running game of Civilization V over the FireTuner port, next to a
human who can play the same game at the same keyboard. A long-running *watcher* owns the connection
to the game and serves a local Unix socket; clients ask it to read the state, to execute one command,
or to look up what became of one; a *turn executor* runs a whole plan of commands as such a client.
Nothing in the chain may send a command to the game twice, call an unverified command a success, or
carry on with a plan when it does not know what happened.

This directory holds TLA+ models of that code, TLC configurations that check them, and proofs for
TLAPS. Paths below are relative to `src/src/civ5_agent/` unless they start with `docs/` (under `src/`).

## 1. Inventory

| Component | State it keeps | Operations | Hard behaviour | What makes it correct |
|---|---|---|---|---|
| Watcher main loop (`watch.py` 402-503) | the connection, its bridge-session id, the last snapshot, whether a journal is captured | connect, read under the lock, journal the change, leave, reconnect | runs next to the handler threads; reconnects under them; a new session forgets the caches | a key of an old session is never written again; the loop cannot starve a request |
| Control handler (`watch.py` 44-371, `ipc.py` 48-85) | `completed_commands`, `uncertain_commands`, `connection_lock` | ping, read_state, command_status, six writes | a thread per client, clients that time out and leave their thread queued, failures at any point of an execution | at most one write per id; one verdict, never revised; an answer is about the action that was asked for |
| Command execution (`command.py`) | the before-state, the last polled state | the six `execute_*` | states that a human changes between two polls, or while one is read; deadlines | a success is backed by an accepted write or by a postcondition that already held, and the executor agrees that it is one |
| FireTuner client (`tuner.py`) | one socket | `execute_collect`, snapshot programs, `request_*`, close | asynchronous frames, idle timeouts, a socket closed by another thread | an answer belongs to the program that was sent |
| Turn plan and executor (`turn_plan.py`, `turn_executor.py`) | plan, cursor, basis digest, steps | execute, reconcile | the state is read in one request and used in another; lost answers; repeated invocations | strictly ordered sends, a true report, no report the validator refuses |
| Watcher client, adapter (`watcher_client.py`, `turn_executor_adapter.py`) | none | request, translate the answer | a timeout says nothing of the command | a lost answer is recovery, never success or failure |
| Journal (`journal/`) | an append-only hash-chained file | create, open, append, bind a session, replay, export | two threads, failing and torn appends, turn order | the file always verifies; records agree with what the clients were told |
| Live session, hardening, preflight (`live_session.py`, `preflight.py`) | state files, a config backup, firewall and config of the host | prepare, restore, harden, unharden, inspect | a crash or a failing tool between any two steps | the host can always be restored to its baseline |
| Grants and challenges (`play_session_grant.py`, `checkpoint_authorization.py`) | one private file each | create, consume | two consumers, replacement of the file, a killed creator, a wall clock that is set back | never more authorizations than files consumed; within all three limits; a challenge only on the operator's answer to it |
| Control socket (`ipc.py` 91-141) | a path in the file system | start, stale-socket removal, close | several watchers at one path, a late answer to a ping, a kill | a server is the one its path leads to; a stale socket goes away |
| Read-only probe (`read_only_integration.py`) | a report | ping, then one read | another watcher takes the path over in between | only a read-only watcher is summarised |
| Validation, identity (`validation.py`, `identity.py`) | none | total checks on one value | a state is joined from programs that ran at different moments | what it accepts was true at one moment, and nothing true is refused |
| Controller, API, audit, storage | none or an append-only file | wrappers of one request | none of their own | - |
| Knowledge base (`knowledge/`) | none | offline import, lookup | none | covered by unit tests |

Interaction: a client (the executor through its adapter, the controller, the CLI) connects to the
control socket; `ipc.py` runs the callback in a thread of its own; the callback takes the
`connection_lock` that it shares with the main loop and drives the one FireTuner connection of its
session; the main loop may close that connection, and start the next session with new caches, while
threads of the old session are still running. The journal is written from both kinds of thread.

The hazards that follow from this, each with its line and the properties that cover it, are listed in
`PROJECT.json` under `hazards`.

## 2. Modules

| Module | What it models |
|---|---|
| `Civ5Game` | The game as far as the bridge can see it, what the six Lua programs do to it, and what each `execute_*` function concludes from two states. Extended by everything else. |
| `CommandLedger` | Abstract: what the watcher promises of a command, with no thread, lock, session or cache. |
| `Watcher` | Main loop, handler threads, caches, journal records, connection; free clients. Implements `CommandLedger`. |
| `WatcherProofs` | Theorems about `Watcher`: submission, refinement, verdicts and answers. |
| `TurnExecution` | A plan, the executor and its client, composed with the watcher, the game and the human. |
| `TurnExecutionProofs` | Theorems about `TurnExecution`, on top of those about `Watcher`. |
| `TunerFraming` | One connection to the game: the programs of a read or a command, the frames that answer them, and which of them are taken for whose answer. |
| `TunerFramingProofs` | Theorems about `TunerFraming`. |
| `LiveState` | What one state says, field by field: the programs, parser and validator that make it while the human plays, and what a command and the executor conclude from two of them. |
| `LiveStateProofs` | Theorems about `LiveState`. |
| `Journal` | The store of the turn journal and the capture of each watcher that writes to it. |
| `JournalProofs` | Theorems about `Journal`. |
| `LiveSession` | The host's firewall and configuration under prepare, restore, harden and unharden. |
| `LiveSessionProofs` | Theorems about `LiveSession`. |
| `OneUseTicket` | The files of grants and challenges under invocations that nothing serialises. |
| `OneUseTicketProofs` | Theorems about `OneUseTicket`. |
| `ControlSocket` | The path that several watchers serve on, and the read-only probe that asks there. |
| `ControlSocketProofs` | Theorems about `ControlSocket`. |
| `MCWatcher`, `MCTurnExecution`, `MCJournal`, `MCLiveState`, `MCOneUseTicket` | Symmetry, the plans, the map and the technology tree that the configurations use. |

`Civ5Game`, `Watcher` and `TurnExecution` build on each other. `Journal` looks at the same watcher from
the side of its file and abstracts the execution of a command to its outcome; `LiveSession` stands
beside both, since its commands run while no watcher does. Two modules look below the watcher, at what
`Watcher` takes for one step (a read of a state, or a program and its response): `TunerFraming` at which
frames are taken for whose answer, `LiveState` at what the answers say when the game moved in between.
`ControlSocket` is what lies between a client and its watcher before `Watcher` begins, and `OneUseTicket`
the authorizations of an external session, which share no state with the rest.

### The game (`Civ5Game`)

A state is a turn number, whether the turn is active, and the set of *orders* that already hold
(research selected, production set, unit skipped, moved or building). An order that does not hold is a
mandatory choice still open (`turn_requirements.py`). The commands are grouped by how their
`execute_*` function behaves: `Selecting` answers success without a write when the postcondition
already holds; `Setting` always writes; `Consuming` is inadmissible once done, and its verification
fails as soon as the turn changes; `EndTurn` is verified by the turn number alone. `Accepts` and
`Effect` are what the Lua program does in the game, `Satisfied`, `Inadmissible`, `Verified` and
`Abandoned` what the Python does with the states. `Drift` and `NextTurn` are everything the human and
the game may do in between; they are external.

### The watcher (`Watcher`)

Every connection is an *epoch*: it has its own bridge-session id, lock and caches, since
`make_control_handler` is called again for each. A key is an epoch and a command id. `pc[t]` is where
the handler thread of slot `t` is:

    idle -> received -> waiting -> before -> ready -> sent -> polling -> answered -> idle
             (Admit)   (Enter)   (ReadBefore) (Submit)(TakeResponse)(Poll)    (Hangup)

The steps `before` to `polling` are inside `with connection_lock`. They are separate actions because
the main loop, the game, the human and the other threads run in between: `Submit` puts a program on
the wire, the game runs it whenever it likes (`RunProgram`), and the thread may by then have given up.
Every exit of the handler is an action: `AnswerLocally`, `TakeResponse` (refused), `Poll` (verified,
abandoned), `VerifyTimeout` end in `Finish`, which audits, journals and caches; `OutcomeUnknown` is
the except clause of 296-325; `RejectInvalid` is the one of 290-295; `RuntimeFailure` is the exception
no clause names, answered by `ipc.py` 69-73. `main` is the control state of the main loop: `StopServing`
and `CloseTuner` are the two `__exit__` calls, in their order, with threads still running in between
and after; `ProcessEnds` is the end of the process, from a return or a kill, with its daemon threads.

The read of a snapshot is atomic in this model: the values are attributed to one moment (`TunerFraming` and
`LiveState` are about what that leaves out). The audit log is left out (its failure changes one warning field). `writes` and `accepted` are history variables.

### The executor (`TurnExecution`)

The commands are the positions of the plan: position *i* has its own command id for good, as in
`PlannedAction`. A digest is the state itself, since digests are only compared. `SendRequest` connects
to the watcher or fails to; `Receive` takes the answer, or gives up on it while the thread runs on.
`Execute` may be invoked again with the same plan, and `Reconcile` after a recovery report. The branch
`turn_not_ready` (`turn_executor.py` 331-339) is not modelled: an `end_turn` is always the last action,
so any open requirement was already reported by the lines above it. Execution events are left out.
`ValidPlan` is what `_validate_plan` and the envelope demand of a plan, `TransportError` and `ProtocolError`
are how the client and the adapter classify an answer that does not come or does not parse.

### The connection (`TunerFraming`)

A read of a state is twelve Lua programs: a header, then the parts. A command is a read, one program, and a
read per poll. The game answers each program with output frames and an acknowledgement, and neither names
the program. `programs` is everything sent since the game last owed nothing; `ran` and `acked` say how far the
game has got, `outbox` and `stream` are the frames it has printed and those it has sent. The holder of
`connection_lock` is the only client: `doing` says whether it is the main loop (`watch`), the read of a client
(`read`), or a command, whose kind is `kind`, in its first read (`before`), its program (`ask`) or a poll
(`poll`), with `ready` and `verify` between them.

`Start` sends the first program of a request, `NextPart` the next one of a read, `Receive` and `Deadline` are
the loop of `execute_collect`, and `Parses` and `HasResponse` what the parsers want of the lines in `got`: one
header and it first, every part once and of the header's turn, the runtime context; a response of the
command's own kind (exactly one for `worker_build`, the first one otherwise). `ReturnState` and `TakeResponse`
are the returns, `FailRead` and `FailResponse` the errors: the main loop replaces the connection for a part
before the header (`Reconnect`) and goes on with the same one after anything else, a request of a client or a
command ends, a poll is ignored.

What is assumed of the game: it runs programs in the order in which they were sent, its frames keep their
order, and an acknowledgement comes before or after all the output of its program, as ADR-0042 and ADR-0043
describe; nothing says when. `late` is a history variable: a deadline has given up on an answer that has not
all come since. A frame carries one line, and a line of a part other than the first stands for its records;
`RESEARCH_CANDIDATE` lines count as records of the part before them. A frame is read whole, lifecycle updates
(which are skipped wherever they are read) do not enter the stream, and a match does not begin or end within
the programs of one read. With one part program instead of eleven the model keeps what the parser
distinguishes: a first, a following and a last program.

### One state (`LiveState`)

`world` is the game: turn, window, units, improvements, research. A read is `StartRead` and then `RunProgram`
once for each entry of `Programs`, each of which prints `Output` of the world it runs in; `GameMoves` and
`CarryOut` come in between. `Parses` is what `parse_snapshot` wants of the parts together, `Accepted` adds
`validate_live_state`; both keep only the conditions that relate two parts, as the types and ranges of single
fields are right in whatever the programs print. `Decide` is an `execute_*` function up to its write
(`AlreadyDone`, `Admissible`), `RunOrder` the Lua program (`GameAccepts`), `Judge` a poll (`Verified`,
`Unchanged`, or an error), and `ExecutorAccepts` what `turn_executor.py` asks of a success: that its before-state is the state
the executor observed itself (of the plan's turn, and active), the postconditions of a move and a build, and that
the state after is still of that turn.
`pending` is an order the game has accepted and carries out later, or not at all. `moments` is a history of
the worlds since the read began.

The human may give any order a unit or a player may have, lose, gain, wake or upgrade a unit, discover a
technology, be offered a free one, and let the turn pass. The turn stands for turn and active player; the
parts that nothing else is compared with (cities, diplomacy, victory) are left out; plots are land.

### The journal (`Journal`)

`file` is the sequence of records. A record's `sequence` is its place, and `previous_hash` is right as long
as only the store writes the file, so neither is a field; the payload is reduced to what links records to
each other (`ref`). `Readable` is `_read_verified`, with `Decodes` for what the codec wants of one record, `Accepts` the checks of `_append_locked` under the
exclusive lock, `Store` the whole append: refused, written, or failed with nothing, a part (`Torn`) or all
of the record in the file. A start of a watcher creates the file and writes its first record, or opens it
and binds its session, with room for a failure, a kill or another process between the two. `ReadState`,
`RecordTransition`, `RecordSnapshot` are the main loop, which holds `connection_lock` for the first only;
`BeginCommand` to `Answer` are the handler thread that holds the lock, with up to three records for one
command. An execution ends with one of five outcomes; a `malformed` result, of arguments that are refused before
any state is read, has no turn, and `RecordResult` passes over it as `record_command_result` does, without a record
and without an error. `claims` is a history of the answers without `journal_error`; a `silent` answer (an invalid
command, a `RuntimeError`) never carries one, whatever failed before it.

Left out: a new snapshot of the same turn (it adds a record with the same turn and session), a turn that
falls because a save was loaded (`record_snapshot` and the store both refuse it, and the watcher ends),
size limits, and the identity of the match (nobody replaces the file). Once every session has ended nothing
happens any more, so these configurations do not check for deadlock.

### The host (`LiveSession`)

`tuner` is `EnableTuner` in the configuration file, `guard` the firewall and the rule for the game,
`session` and `hardening` are the two state files, `backup` the copy of the configuration. A command begins
with its inspection and its refusals in one action, and then takes one step for each file it writes and
each `socketfilterfw` it calls:

    prepare   backup record | add block checkRule firewall tuner check promote
    harden           record | add block checkRule firewall       check promote
    rollback, restore         [rollback] config readd mode refirewall [verify] forget forgetBackup
    rollback of harden,       [rollback]        readd mode refirewall [verify] forget
      unharden

`Raise` is an exception: between the bars and the end of `prepare` and `harden` it leads to the rollback,
elsewhere it ends the command with its records kept. At most `MaxFault` times in a behaviour something goes
wrong: a command is killed, interrupted by Ctrl-C or by an exception outside its `try` blocks, at any step
(`Interrupted`; a copy may be left torn); a tool fails with or without its effect, or a file cannot be
written (`Tool`, `TunerOn`, `Promote`, `RestoreConfig`); an inspection cannot read the firewall (`Look`:
`inspect_safety` leaves the fields at `None` and adds an issue). `Drift` is the operator who changes the
firewall by hand, without a bound. `pristine`, `blinded` and `drifted` are history variables: the guard as
it was when there was no record, whether a rollback has acted on an inspection that failed, and whether the
guard was changed by hand since FireTuner was enabled.

Abstractions: one command runs at a time, and the game, the watcher and the settings change only between
commands. The code checks that game and watcher are down when a command begins, and `restore` and `unharden`
again when they end; nothing keeps two commands apart, which is left out. A configuration file has one
`EnableTuner` line. Writing a record is atomic, as `_write_state` replaces the file.

### Grants and challenges (`OneUseTicket`)

A ticket stands for a file: its inode and, for a challenge, its nonce. `at` is what the two paths lead to,
`content` what each file holds (`whole` or half-written). An invocation that creates goes through `Create`
(`O_CREAT | O_EXCL`), `Write`, and `Created` or `CreateFails`, which unlinks whatever is at the path by then;
one that consumes through `Open` (open, fstat, read), `Check` (`Valid`), `Compare` (lstat against fstat) and
`Consume` (unlink). Invocations interleave freely and are killed anywhere (`Die`); `CleanUp` is a person who
removes a file, `Reply` the operator who answers a prompt. The clock moves in both directions. The bound
fields of a ticket are its checkpoint; a caller may hand over any answer the operator ever gave. `passes` is
a history of the authorizations.

### The control socket (`ControlSocket`)

`path` is whose socket is there, `server[w]` where each watcher is in `LocalControlServer.start` and `close`:

    down -> pinging -> refused -> free -> bound -> serving -> closing -> down
       (Look) (Ping*) (TakeOver) (Bind) (Serve) (Close)  (Leave)

Every arrow is a system call that sees the path as it is by then. A ping is answered, refused, or late
(`PingIsLate`: a quarter of a second has passed at a watcher that lives). `Die` leaves the socket behind,
`Restart` starts the program with or without `--read-only`. `ProbePing` and `ProbeRead` are the two requests
of `read_sanitized_summary`. `calm` is a history: no two watchers have started or left at the same time and
no ping was late. An identity is one that neither another watcher nor the probe remembers, so that the set
of identities can be finite.

## 3. Runs

Bounds are the constants whose names begin with `Max` (sessions of the watcher, requests, turns, executions
and reconciliations, commands, corrections, faults) and the sizes of the sets of threads, commands, sessions, watchers, invocations and files.

| Run | Question | Bounds, and why they are enough |
|---|---|---|
| `WatcherSessions` | who is answered what; what a success is worth; journal against caches | two epochs (the least with an old and a new session), two threads, one id for a consuming order and `end_turn`, two requests (one lost, and its retry), journaling on with any append failing |
| `WatcherLiveness` | the inductive invariant; one write at most; refinement of the ledger; requests are answered, written commands are settled | two threads that compete for the lock with each other and the main loop; an order that is always written, and `end_turn`, in one turn of one session; no symmetry. The proofs cover more sessions, ids and requests |
| `WatcherUnknownOutcome` | expected violation, see section 6 | one request |
| `TurnExecution` | ordering, timing, form and truth of the reports, with lost answers, a second execution, and a restart under the plan | an order and `end_turn`; two sessions, two invocations, five requests (an execution uses four) of which at most three come before or during the second session (`RestartsUnderThePlan`, a constraint: sessions without a plan of the first one are cut off, and the second session does not end). The proofs cover plans of any length and any number of sessions |
| `LiveSession` | the baseline is never lost; FireTuner is never without the guard; records can always be cleared | three faults of any kind (one in a command, one in its rollback or recovery, one in the next), changes by hand at any time |
| `JournalCommands` | what an answer without `journal_error` is worth; command records are never refused; transitions join snapshots | one watcher, two commands (the second after the first was answered), three turns (two transitions in a row), one failing append |
| `JournalWriters` | the file stays readable; the inductive invariant | two watchers at the same time, two turns, a correction, one failing append; no commands, whose records differ from snapshots only in name there |
| `TunerFraming` | which answer is taken for whose | a header and one part of up to two lines (the least that can be torn apart), two kinds of commands, one of them with the strict parser, two turns, five programs before the game owes nothing again (two reads and a command, or a read left behind and a command with its first read) |
| `TunerFramingLateRead` | expected violation, see section 6 | four programs: two reads |
| `LiveState` | whether what is read is a state the game was in, and what a success says | one unit that may be lost and come back as another, two plots, one improvement, two technologies of which one needs the other; one command; two changes by the human while a state is read or between states, so that a value can change and change back, and the command's own effect |
| `OneUseTicket` | what an authorization costs and says | two invocations (two creators, two consumers, or one of each), two tickets (one and its replacement), a checkpoint of each kind, a clock of four moments with limits of 3, 2 and 1 |
| `ControlSocket` | whom the path leads to, and whom the probe asks | three watchers (one serves, one takes over, one comes or goes meanwhile), one death, both modes, one probe after the other |

Only the two configurations of `Journal` do without the deadlock check. Elsewhere no state is a deadlock: the
process may always end or be restarted, the operator may always begin something, a clock may always tick.

Properties, in words:

- `AtMostOnce`, `ImplementsLedger`: per session and id, one write at most, one verdict for ever, no
  write after the verdict, and success only if everything written was accepted.
- `AnswersOwnAction`: an id reused with other arguments gets neither a result nor "unknown".
- `SuccessIsBacked`: a success means one accepted write, or a postcondition read beforehand.
- `OneVerdict`: caches and journal never hold both a result and an unknown outcome.
- `EveryRequestAnswered`, `WrittenIsSettled`: no thread waits for ever; a written command gets a verdict
  unless its session is over (the exception is the finding of section 6).
- `SentInOrder`: no position is sent before every earlier one has succeeded, under lost answers,
  late threads, repeated executions and reconciliation.
- `CompletedIsTrue`: a completed report means a recorded success of every position and a later turn.
- `OrdersInPlanTurn`: an order reported successful took effect in the plan's turn.
- `ReportIsValid`: no path builds a report that `validate_execution_report` would refuse.

- `Recoverable`: while the host may differ from what it was, a record holds its baseline; with no record
  left it is back at it, until a rollback acts on a failed inspection. A session on a hardened host has the hardened guard as its own baseline.
- `NeverExposed`: neither FireTuner is enabled nor does the game listen without the firewall and the
  blocking rule, unless these were changed by hand meanwhile.
- `RecordsCleared`: repeated restores and unhardenings end with no record and FireTuner off, whatever
  happened before. (That the *guard* is back as well is `Recoverable`.)
- `Intact`: what the next reader sees is a valid journal, up to a torn last record, and nothing follows one.
- `ClaimsJournaled`: an answer without `journal_error` has its whole lifecycle in the file, in order; a result
  without a turn has its submission there, and no more is claimed of it.
- `CommandRecordsAccepted`: with one watcher at a time, the store refuses no record of a command, be it the
  submission, the result or the verification record.
- `SnapshotIsOneRead`: an accepted snapshot is all that the programs of one read printed, in one turn,
  however late and however divided the frames came.
- `PromptAnswersAreOwn`: as long as no deadline gave up on an answer, states and responses are those of the
  request that returns them, on whichever side of the output the acknowledgements come.
- `TransitionsJoinSnapshots`: a transition starts from the last snapshot and leads to the next.
- `QuietReadIsAccepted`: a state during whose read nothing changed is never refused.
- `ResearchOfOneMoment`: the research of an accepted state, read by four programs, was true all at once.
- `SuccessPassesExecutor`: a success of the watcher that started from the state the executor observed passes the
  executor's second look at it, postcondition and turn. Excepted are research chosen and units skipped that
  were seen done when the turn was over, which the executor does refuse (section 6).
- `BuildIsTrue`: a `worker_build` success is true if the unit stood still during the read.
- `TicketsPayForPasses`: callers are not authorized more often than files have disappeared.
- `ConfirmedInPerson`: a gate passes only on the operator's answer to the very challenge that is consumed.
- `GrantsStayWithinLimits`: a grant that passes is within all three limits, wherever the clock has been.
- `ServingIsReachable`: while `calm`, a watcher that serves is the one its path leads to.
- `SummaryIsReadOnly`: the summary is that of a read-only watcher.
- `StaleIsTakenOver`: a stale socket does not keep a watcher that goes on trying from serving.

Every property has a mutant (`PROJECT.json`): an operator that changes one mapped definition the way a
plausible bug would, and under which the property fails.

### Fairness

`Fairness` in `Watcher` asks three things. Threads that hold the lock make progress (`WF Progress`):
every socket operation of `tuner.py` has a timeout, and every verification a deadline. The main loop
finishes a read it began (`WF MainRead`), for the same reason. A thread that finds the lock free again
and again gets it (`SF Enter`): the main loop sleeps with the lock free for `--interval` between two
reads, so a waiting thread is not shut out by it, and the requests ahead of it are finite in number in
any bounded run. Nothing is assumed of the game, the human, the clients, or of connections. Polling
itself (`Poll`) is not fair: the game may never reach the postcondition, and the deadline ends the wait.

`OperatorFairness` in `LiveSession`: a command that runs takes its next step (`WF (Guards \/ Restores)`;
nothing in it waits for anybody), and the operator wants the host back: quits the game and the watcher,
asks again for `restore` and `unharden` while there is something to restore, and from some time on opens
nothing any more. Nothing is assumed of when a fault happens, except that the bound ends them; with a tool
that fails for ever there is nothing to be had.

In `ControlSocket` one watcher keeps trying: `WF (Start(Steady) \/ Leave(Steady))`. The main loop catches the
`RuntimeError` of a server that could not start and connects again, for ever (`watch.py` 413-503), and no
step of starting or closing waits for anybody but the ping, which has a timeout. Nothing is assumed of the
other watchers, nor that a server which serves ever closes.

## 4. Proofs

`WatcherProofs` proves, for every value of the constants that satisfies `GameAssumption` and
`WatcherAssumption` (non-empty command set, slots distinct from the names `free` and `main`, `None` not a
value):

| Theorem | Statement |
|---|---|
| `Invariant` | `Spec => []IInv` |
| `TypeCorrect` | `Spec => []TypeOK` |
| `SubmittedAtMostOnce` | `Spec => []AtMostOnce` |
| `LedgerRefined` | `Spec => ImplementsLedger` |

`AtMostOnce` is not inductive. A second write can only come from a thread in `ready` whose key is already
written, so the invariant must say where a written key can be: it is settled in a cache, its connection
is closed for good, or some thread is still executing it (`WrittenAccounted`). The third case excludes a
second thread because executing threads own the lock of their epoch (`LockOwners`), the second because a
closed client cannot send and epochs are never reopened (`EpochsInOrder`): this case is what saves the
code from the `RuntimeError` that fills no cache. `WireFresh` says that a program still on the wire has
not been accepted, `InProgress` ties the control state of a thread to `writes`, `accepted` and the caches.
The module has one lemma per action or group of actions, and one step per conjunct that the action can
disturb. The refinement uses the invariant twice: a `Write` step needs an open, unwritten key, and a
success needs `written = accepted`, which `InProgress` gives for a polling thread.

The second half of `WatcherProofs` proves three more, with `VerdictInv` on top of `IInv`:

| Theorem | Statement |
|---|---|
| `OneVerdictTheorem` | `Spec => []OneVerdict` |
| `OwnActionTheorem` | `Spec => []AnswersOwnAction` |
| `BackedTheorem` | `Spec => []SuccessIsBacked` |

`VerdictInv` adds to the three properties what a thread that is about to answer holds (`Told`): a replay, a
lookup and an uncertain answer each carry the arguments of the entry they were made from, and a settled key
has one entry. That a thread in the middle of an execution cannot meet a verdict of its own key is
`WrittenAccounted` of `IInv` again.

`TurnExecutionProofs` proves, for every plan, with `ExecutionInv` on top of both:

| Theorem | Statement |
|---|---|
| `ExecutorTypeTheorem` | `ExecutionSpec => []ExecutorTypeOK` |
| `InOrderTheorem` | `ExecutionSpec => []SentInOrder` |
| `CompletedTheorem` | `ExecutionSpec => []CompletedIsTrue` |
| `ReportTheorem` | `ExecutionSpec => []ReportIsValid` |

A plan is sent in order although the executor forgets its requests: what it gives up on stays in the lock
queue of the watcher. So the invariant speaks of all threads, not of the current request: whatever request
is under way is for a position whose predecessors have succeeded, and if it is past the session check it is
one of the plan's session (`Requests`). This needs that the executor asks for a position only after a success
of the one before (`Earlier`), that the answer it takes is the one to its own request (`OwnRequest`), that a
success which is answered or looked up is in `completed_commands` and stays there (`Told`), and that a
recovery counts only results of the plan's session (`Recovered`). `Planned` and `Unplanned` tie the cursor and
the report to the plan, and `StepsOfPhase` says which steps each exit of the executor has collected, which is
`ReportIsValid`. `TurnsPast`, an invariant of the watcher, says that turns do not fall, for the later turn of
a completed report. The invariant was first checked by TLC on the instance of the run.

The end of the module adds three, the first with `TurnInv` on top of `ExecutionInv`:

| Theorem | Statement |
|---|---|
| `InTurnTheorem` | `ExecutionSpec => []OrdersInPlanTurn` |
| `ExecutionLedgerTheorem` | `ExecutionSpec => ImplementsLedger` |
| `ExecutionVerdictsTheorem` | `ExecutionSpec => [](AtMostOnce /\ OneVerdict /\ AnswersOwnAction /\ SuccessIsBacked)` |

The executor compares two states, the one before the command and the one that verified it, and never learns
when the game accepted the command. The invariant says that it was between the two (`AcceptedSince` while the
handler executes, `AcceptedWithin` once the success is recorded) and that for every order counted as a
success both are of the plan's turn: the state before is the `basis`, which an order hands on (`BasisInTurn`),
and the postcondition of an order refuses a later turn (`StepsInTurn`). The program of a command whose
handler has ended in a success is no longer on the wire (`SuccessIsBacked`), which is why a late program
cannot move the turn of an acceptance.

The last two say that the watcher keeps its promises under the executor. They do not follow from the theorems
about `Spec`: the executor asks for the session of its plan, which after several reconnections is none that a
client of `Next` names, so `ExecutionSpec` is no refinement of `Spec`. The lemmas about the steps of the watcher
hold for every client, and each step of the composition is one of them (`ExecutionSteps`).

`LiveSessionProofs`, from `LiveSessionAssumption` (`None` is none of the values it is mixed with), for every
`MaxFault`:

| Theorem | Statement |
|---|---|
| `Invariant` | `Spec => []IInv` |
| `HostRecoverable` | `Spec => []Recoverable` |
| `FireTunerGuarded` | `Spec => []NeverExposed` |
| `TypeCorrect` | `Spec => []TypeOK` |

Neither property says anything of the middle of a command, so the invariant says for each step what is
already there: which record holds `base` (`Held`), how far the guard has been raised before FireTuner goes on
(`Opening`), and how far it is back at the baseline before the record goes (`Returning`). For a rollback,
`Returning` compares the guard with `view`, what the inspection at its beginning showed, and is lost when
that showed nothing, as nothing verifies the result (see section 6);
`restore` and `unharden` may begin blind, as their `Verify` lets the record go only when the guard is seen to
be back. There is one lemma per conjunct, with a case per action. The run checks the two properties, not the
invariant, which only says more about the steps of a command.

`JournalProofs`, from `JournalAssumption`, for any set of sessions and all bounds:

| Theorem | Statement |
|---|---|
| `Invariant` | `Spec => []IInv` |
| `TypesTheorem` | `Spec => []TypeOK` |
| `FileIntact` | `Spec => []Intact` |
| `ClaimsTheorem` | `Spec => []ClaimsJournaled` |
| `TransitionsTheorem` | `Spec => []TransitionsJoinSnapshots` |
| `CommandRecordsTheorem` | `Overlap = FALSE` implies `Spec => []CommandRecordsAccepted` |

Behind `Intact` are one lemma about the store (`AcceptedIsReadable`: a readable file that accepts a well-formed
record is readable with it) and one about a torn end (`WrittenIsIntact`: nothing is accepted after it). The
rest of the invariant says that the records are well-formed when they are written: a thread that is about
to append has a turn for it (`Executing`), and only one process writes the first record, into an empty file
(`Creating`).

The three that follow look back into the file, so they rest on `AppendGrows`: a step leaves every record where
it is and adds one record at most, which its writer has composed (`EveryStepGrows`, `StepRecords`). Each has a
strengthening of its own on top of `IInv`:

- `ClaimsJournaled`: a handler thread that has met no journal error has the records of its command so far in the
  file (`Lifecycle`), at every point between the first append and the answer; a
  result without a turn can only be a malformed one.
- `TransitionsJoinSnapshots`: no record is ahead of the game (`TurnsRead`), the turn a main loop remembers is
  that of the last snapshot of its session, and a transition that no snapshot follows yet leads to the state the
  main loop is about to record (`Leads`). Only a session's own main loop writes either kind (`MarksOf`).
- `CommandRecordsAccepted`: one watcher runs (`OneRuns`), its session is bound (`Bindings`), and while its handler
  is about to append any of its three records, the turn of that record is behind neither the file's nor that of the state the main loop has
  read (`Current`). The hypothesis is that of the property: with two watchers the store may refuse the record
  of the slower one, which `JournalWriters` leaves to happen.

`LiveStateProofs`, from `LiveStateAssumption` (the map has no plot next to itself, `None` is no value), for any
units, plots, builds and technologies, any map, and any number of turns, changes and commands:

| Theorem | Statement |
|---|---|
| `Invariant` | `Spec => []IInv` |
| `LiveStateTypeTheorem` | `Spec => []TypeOK` |
| `QuietReadTheorem` | `Spec => []QuietReadIsAccepted` |
| `ResearchTheorem` | `Spec => []ResearchOfOneMoment` |
| `ExecutorTheorem` | `Spec => []SuccessPassesExecutor` |
| `BuildTheorem` | `Spec => []BuildIsTrue` |

Every part of a state was printed of some world the read passed through (`Printed`). For a quiet read that is
one world, and the validator accepts it because what is being researched can be (`Researching`). For
`ResearchOfOneMoment` it is not enough, as four programs may have seen four worlds. The argument is
`ResearchRead`: discovering a technology is the only way the list of researchable ones changes, and the one
discovered was in the list. So as long as nothing of the list is known, the technologies that were read are
those of the world as it is (`ReadOf`), and the facts, read later, of a world with the same
(`ReadTogether`); once something of it is known, it is missing from the candidates read after that, and the
validator wants every researchable technology among them. That a change discovers at most one technology, one
that could be researched, is `Follows`, shown for every action of the game and the human (`ChangeFollows`,
`TimeFollows`). `Chosen` says that the order under way is admissible in the state it was decided in, which the
executor's checks rely on; the turn it needs no invariant for, as `execute_move_unit` and `execute_worker_build`
compare the same two turns (`SameTurn`). TLC checked the invariant on the instance of the run first.

`ControlSocketProofs`, from `SocketAssumption` and `FreshAssumption` (an identity that nobody remembers can be
drawn), for any number of watchers and deaths:

| Theorem | Statement |
|---|---|
| `SocketTypeTheorem` | `Spec => []TypeOK` |
| `ReachableTheorem` | `Spec => []ServingIsReachable` |
| `SummaryTheorem` | `Spec => []SummaryIsReadOnly` |

As long as it is calm one watcher at most is on its way, and the invariant says what the path is in each of
its steps; identities are distinct, and the one the probe remembers is that of a read-only watcher or of none
(`Distinct`, `Probed`).

`OneUseTicketProofs`, from `TicketAssumption` and `NoneAssumption`, for any number of invocations and files:

| Theorem | Statement |
|---|---|
| `TicketTypeTheorem` | `Spec => []TypeOK` |
| `ConfirmedTheorem` | `Spec => []ConfirmedInPerson` |
| `LimitsTheorem` | `Spec => GrantsStayWithinLimits` |
| `TicketsPayTheorem` | `Spec => []TicketsPayForPasses` |

The invariant says that a file has one writer (`OneWriter`), that the expiry of a grant is within the limits
of its checkpoint (`Backed`), and that a consumer past its check holds what it checked (`Holds`). For
`TicketsPayForPasses` the proof pairs each authorization with the file that was unlinked for it: a file that is
gone stays gone (`GoneForever`), and a pass finds one that pays for no other (`PassIsPaid`).

`TunerFramingProofs`, from `FramingAssumption` (a read has a part program, parts may print more than one line,
commands are not part numbers, the bound has room for the programs of one request), for any number of parts, records, commands, turns
and programs that are owed:

| Theorem | Statement |
|---|---|
| `Invariant` | `Spec => []IInv` |
| `TypeTheorem` | `Spec => []TypeOK` |
| `SnapshotTheorem` | `Spec => []SnapshotIsOneRead` |
| `PromptTheorem` | `Spec => []PromptAnswersAreOwn` |

No frame names its program, so the invariant says what can be concluded from the order alone. The lines that
were printed and are not forgotten (collected, on the wire, still in the game) are in the order in which they
were printed (`InOrder`), none is lost before the ones that follow it from the same program (`Printed`), and a
part that printed anything stands behind a header that did, whose line is forgotten only with all that was
printed before it (`Headed`). From this follows `SnapshotIsOneRead`, with or without late answers: were the
header of an accepted snapshot not that of its parts, the right one would stand among them and be a second
header (`OneRead`); then every part is there once (`WholeRead`), and nothing is missing between two lines that
stand side by side (`NextLine`) or after the last one (`LastLine`). `PromptAnswersAreOwn` needs that as long as
no deadline gave up on an answer only the last program is unanswered (`OnlyLastOwed`), that an acknowledgement
which would end the answer has all of the output before it (`AckInPlace`, the argument of ADR-0042 and ADR-0043),
and that what is collected was printed for this request (`OwnCollected`). Each step either runs a program,
begins anew, or moves lines without adding any (`Effects`), so the conjuncts about lines have three cases and
not one per action. TLC checked the invariant first, on the instance of the run and with two parts.

Only model-checked: the four liveness properties (`EveryRequestAnswered`, `WrittenIsSettled`, `RecordsCleared`,
`StaleIsTakenOver`), as liveness under fairness and `ENABLED` are out of the prover's reach. Every other
property of the passing runs is stated by a theorem.

## 5. Not modelled, and the plan

Left out: the knowledge base (an offline, pure and sequential import and lookup), the release scripts, the
controller, API and CLI wrappers (one request each), types, ranges and formats of single values, identifiers,
the database transport, `--once` and `--read-only` of a watcher itself, and the texts of messages.

What would come next:

1. `TunerFraming` with frames that arrive in pieces, of which a deadline drops the first. What the rest is
   taken for depends on its bytes (printable text read as a length is oversized and ends the read with a
   `ValueError`; after a cut within a header, or before the last two bytes of a payload, a plausible length
   swallows frames that follow), so the model would have to count bytes, and the proofs of `TunerFramingProofs`
   would have to say which frames are whole.
2. `Watcher` composed with the guard of `LiveSession`: the safety check runs before the lock is taken, so the
   host may have been changed when the program is sent. `NeverExposed` says of every moment that a game which
   listens is guarded unless the guard was changed by hand; what the watcher answers in between is not modelled.
3. The fields of `set_city_production`, and the parts of a state that `LiveState` leaves out.

## 6. Findings

- `FailureAfterSubmissionIsUnknown` (run `WatcherUnknownOutcome`): `docs/contracts/command.md` 64-66 calls a
  failure after submission without a result an unknown outcome. If the main loop closes the client under a
  handler thread, the thread ends with a `RuntimeError` that no clause catches: the client is told
  "internal bridge error", nothing is cached, and the executor reports the action as rejected.
- `StatesAreOwn` (run `TunerFramingLateRead`): `docs/planning/RISK_REGISTER.md` 26 (R-019) says that late frames
  are drained to bounded deadlines, and that the bridge fails closed and replaces the session if any remain.
  Only a part before its header is noticed. A read none of whose programs was answered in time is an ordinary
  error after which the same connection is read again; if its frames then arrive, the next read returns that
  snapshot as the current state.

Six more disagreements were met while modelling. No run is kept for them, because the properties above are
stated around them:

- A blind rollback. `docs/modules/cli.md` 82-85 says that prepare and restore verify every boundary after
  mutation and roll back a failed preparation. A rollback acts on an inspection whose issues it ignores
  (`live_session.py` 115): if the firewall could not be read, a rule that prepare added is not removed, the
  baseline is deleted without a check, and the message says "rolled back". `Recoverable` holds until then
  (`blinded`).
- A snapshot that was overtaken. `docs/modules/journal.md` 7-9 promises to preserve every captured and
  validated fact. A snapshot is read under `connection_lock` and recorded after its release (`watch.py` 475);
  if the result of an `end_turn` comes in between, the store refuses the snapshot because its turn is lower,
  the fact is lost, and the watcher ends. `Journal` has this behaviour; `CommandRecordsAccepted` and
  `TransitionsJoinSnapshots` say what does not suffer from it.
- One file, two passes. The consumer of a grant compares the file at the path with the one it read, and then
  unlinks the path (`play_session_grant.py` 169-231). If two consumers have compared
  the same file, the first unlinks it, and another file is created there before the second unlinks, both pass,
  the second at the cost of the other file: `TicketsPayForPasses` counts files, since "one pass per file" does not hold.
- A `worker_build` success of a unit that moved. Where the unit stands and what is being built there are read
  by two programs (`tuner.py` 353-397), and `execute_worker_build` compares them as one
  (`command.py` 546-636): a unit that leaves a plot while it is read may show the order as completed from an
  improvement elsewhere. `BuildIsTrue` asks that the unit stood still.
- A result that is not recorded. `docs/contracts/journal.md` 98 says that the journal records submissions and
  unsuccessful results. A command whose arguments are refused before any state is read (no `tech_type`, a
  `unit_id` that is no number: `command.py` 78, 137, 139, 204, 295, 450, 452) has a result with no state and so
  no turn; `record_command_result` returns without a record or an error (`journal/integration.py` 90-92), and
  nobody looks at what it returns (`watch.py` 349). The file holds a submission that nothing follows, and the
  answer, for this and every retry, no `journal_error`. `Journal` has this behaviour (`malformed`);
  `ClaimsJournaled` claims no more than the submission for it.
- A success that is reported as a failure. `execute_choose_research` and `execute_skip_unit` look at the research
  and the unit only (`command.py` 108, 258-271), `execute_move_unit` and `execute_worker_build` also at the turn. If
  the human ends the turn before the poll that sees it done, the watcher answers success, as
  `docs/contracts/command.md` 63-64 has it ("`success` requires the action-specific postcondition"),
  and the executor reports the plan as failed (`postcondition_failed`, `turn_executor.py` 421-441), or keeps
  it in recovery if it looked the result up (180-193, 533-548). `SuccessPassesExecutor` excepts this case;
  `OrdersInPlanTurn` says that no report counts such an order as done.
