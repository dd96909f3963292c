---------------------------- MODULE TunerFraming ----------------------------
(***************************************************************************)
(* How the watcher decides which program an output of the game belongs to  *)
(* (tuner.py).  A snapshot is read by a header program and several part    *)
(* programs, a command by one program.  The game answers a program with    *)
(* output frames and an acknowledgement, and neither names the program:    *)
(* execute_collect decides when an answer is complete, parse_snapshot and  *)
(* the response parsers decide whether it makes sense.                     *)
(* connection_lock serializes the main loop, the reads of clients and the  *)
(* commands, so the client is one process.  Frames are read whole;         *)
(* lifecycle updates, skipped wherever they are read, never enter the      *)
(* stream.                                                                 *)
(***************************************************************************)
EXTENDS Integers, Sequences

CONSTANTS Parts,       \* part programs that follow the header (11 at schema 8)
          Kind,        \* commands, by the marker of their response
          Single,      \* those whose parser wants exactly one marker (worker_build)
          MaxFrames,   \* bound: output frames of a program
          MaxProgram,  \* bound: programs sent since the game last owed nothing
          MaxTurn,     \* bound: the last turn
          None

Program == 0..Parts \cup Kind      \* 0 is the header

ASSUME FramingAssumption ==
  /\ Parts \in Nat \ {0} /\ MaxFrames \in Nat \ {0, 1}
  /\ MaxProgram \in Nat /\ MaxProgram >= Parts + 2 /\ MaxTurn \in Nat
  /\ Single \subseteq Kind /\ Kind \cap (0..Parts) = {} /\ None \notin Program

VARIABLES
  turn,      \* the turn of the game
  programs,  \* what was sent on this connection since nothing was owed
  match,     \* whether the last header program found a match
  ran,       \* how many of them the game has run
  acked,     \* how many of them it has acknowledged
  outbox,    \* printed by the last one run, not yet on the wire
  stream,    \* frames on the wire, not yet read
  doing,     \* what the holder of connection_lock is doing
  kind,      \* the command it executes
  step,      \* "collect" while execute_collect runs, "send" between two programs
  seen,      \* output_seen of execute_collect
  got,       \* the output collected for the current request
  late       \* history: a deadline gave up on an answer, and not all has come since

wire == <<match, ran, acked, outbox, stream>>
client == <<doing, kind, step, seen, got>>
vars == <<turn, programs, wire, client, late>>

\* The nth of the lines a program printed; the first is the header, the PART line or
\* the response, the others are records.
Line == [from : 1..MaxProgram, nth : 1..MaxFrames, of : 1..MaxFrames, turn : 0..MaxTurn]
Frame == [tag : {"ack", "closing"}] \cup [tag : {"output"}, line : Line]
Reading == {"watch", "read", "before", "poll"}

TypeOK ==
  /\ turn \in 0..MaxTurn
  /\ programs \in Seq(Program) /\ Len(programs) <= MaxProgram
  /\ match \in BOOLEAN
  /\ ran \in 0..Len(programs) /\ acked \in 0..Len(programs)
  /\ outbox \in Seq(Line) /\ stream \in Seq(Frame)
  /\ doing \in Reading \cup {"none", "ready", "ask", "verify"}
  /\ kind \in Kind \cup {None} /\ (kind = None <=> doing \in {"none", "watch", "read"})
  /\ step \in {"send", "collect"} /\ seen \in BOOLEAN
  /\ got \in Seq(Line) /\ late \in BOOLEAN

Init ==
  /\ turn = 0 /\ programs = <<>> /\ match = FALSE /\ ran = 0 /\ acked = 0 /\ outbox = <<>> /\ stream = <<>>
  /\ doing = "none" /\ kind = None /\ step = "send" /\ seen = FALSE /\ got = <<>>
  /\ late = FALSE

-----------------------------------------------------------------------------
(* The game.  It runs the programs in the order in which they were sent,   *)
(* and its frames keep their order.  The acknowledgement of a program      *)
(* comes before or after all of its output (ADR-0042, ADR-0043), and       *)
(* nothing says when.                                                      *)

\* A game that announced that it is closing sends nothing more.
Closing == \E i \in DOMAIN stream : stream[i].tag = "closing"

\* The header and a response are one line, a part its PART line and any number of
\* records; the last part always ends with the record of the runtime context.  Without
\* a match no program of a read prints anything; a match does not begin or end within
\* the programs of a read.
Prints(p) ==
  IF p = 0 \/ p \in Kind THEN {0, 1}
  ELSE IF ~match THEN {0} ELSE IF p = Parts THEN 2..MaxFrames ELSE 1..MaxFrames

RunProgram ==
  LET p == programs[ran + 1] IN
  /\ ~Closing /\ ran < Len(programs) /\ outbox = <<>>
  /\ ran' = ran + 1
  /\ \E n \in Prints(p) :
       /\ outbox' = [i \in 1..n |-> [from |-> ran + 1, nth |-> i, of |-> n, turn |-> turn]]
       /\ match' = IF p = 0 THEN n = 1 ELSE match
  /\ UNCHANGED <<turn, programs, acked, stream, client, late>>

SendOutput ==
  /\ ~Closing /\ outbox # <<>> /\ outbox' = Tail(outbox)
  /\ stream' = Append(stream, [tag |-> "output", line |-> Head(outbox)])
  /\ UNCHANGED <<turn, programs, match, ran, acked, client, late>>

Acknowledge ==
  /\ ~Closing /\ acked < Len(programs) /\ (outbox # <<>> => acked + 1 # ran)
  /\ acked' = acked + 1
  /\ stream' = Append(stream, [tag |-> "ack"])
  /\ UNCHANGED <<turn, programs, match, ran, outbox, client, late>>

AnnounceClosing ==
  /\ ~Closing
  /\ stream' = Append(stream, [tag |-> "closing"])
  /\ UNCHANGED <<turn, programs, match, ran, acked, outbox, client, late>>

NextTurn ==
  /\ turn < MaxTurn /\ turn' = turn + 1
  /\ UNCHANGED <<programs, wire, client, late>>

-----------------------------------------------------------------------------
(* execute_collect.                                                        *)

EndCollect == step' = "send" /\ seen' = FALSE

\* Mutant of Receive: the acknowledgement ends the answer (before ADR-0042).
ReceiveUntilAck ==
  /\ step = "collect" /\ stream # <<>> /\ stream' = Tail(stream)
  /\ \/ /\ Head(stream).tag = "output"
        /\ got' = Append(got, Head(stream).line) /\ seen' = TRUE /\ UNCHANGED step
     \/ Head(stream).tag = "ack" /\ EndCollect /\ UNCHANGED got
  /\ UNCHANGED <<turn, programs, match, ran, acked, outbox, doing, kind, late>>

\* An acknowledgement ends the answer if some output came before it; one that
\* comes first only starts the drain.  (command_ack_preceded_output adds nothing:
\* the break that tests it is never taken.)
Receive ==
  /\ step = "collect" /\ stream # <<>> /\ stream' = Tail(stream)
  /\ \/ /\ Head(stream).tag = "output"
        /\ got' = Append(got, Head(stream).line) /\ seen' = TRUE /\ UNCHANGED step
     \/ Head(stream).tag = "ack" /\ seen /\ EndCollect /\ UNCHANGED got
     \/ Head(stream).tag = "ack" /\ ~seen /\ UNCHANGED <<step, got, seen>>
  /\ UNCHANGED <<turn, programs, match, ran, acked, outbox, doing, kind, late>>

Owed == ran < Len(programs) \/ acked < Len(programs) \/ outbox # <<>> \/ stream # <<>>

\* The idle deadline expires with nothing to read, the total one at any time.
Deadline ==
  /\ step = "collect" /\ EndCollect
  /\ late' = (late \/ Owed)
  /\ UNCHANGED <<turn, programs, wire, doing, kind, got>>

-----------------------------------------------------------------------------
(* parse_snapshot and the response parsers.                                *)

Of(l) == programs[l.from]
IsPart(l) == Of(l) \in 1..Parts /\ l.nth = 1

\* The lines parse_snapshot looks at: responses of commands have other markers.
SnapshotAt == {i \in DOMAIN got : Of(got[i]) \in 0..Parts}
FirstIn(S, i) == i \in S /\ \A j \in S : i <= j

\* A part before the header: SnapshotStreamDesynchronizedError.  A record before
\* the header is an ordinary ValueError.
Desynchronized == \E i \in SnapshotAt : FirstIn(SnapshotAt, i) /\ IsPart(got[i])

OneHeaderFirst ==
  \E i \in SnapshotAt : FirstIn(SnapshotAt, i) /\ \A j \in SnapshotAt : Of(got[j]) = 0 <=> j = i

EveryPartOnce ==
  \A p \in 1..Parts :
    \E i \in SnapshotAt : \A j \in SnapshotAt : IsPart(got[j]) /\ Of(got[j]) = p <=> j = i

PartsOfHeaderTurn ==
  \A i, j \in SnapshotAt : Of(got[i]) = 0 /\ IsPart(got[j]) => got[j].turn = got[i].turn

\* The runtime context is there.
EndsWithContext == \E i \in SnapshotAt : Of(got[i]) = Parts /\ got[i].nth = got[i].of

\* Mutant of Parses: parts of any turn.
ParsesAnyTurn == OneHeaderFirst /\ EveryPartOnce /\ EndsWithContext

Parses == OneHeaderFirst /\ EveryPartOnce /\ PartsOfHeaderTurn /\ EndsWithContext

\* The responses of the command's own kind; no marker names the command.
MatchAt == {i \in DOMAIN got : Of(got[i]) = kind}

HasResponse == MatchAt # {} /\ (kind \in Single => \A i, j \in MatchAt : i = j)

-----------------------------------------------------------------------------
(* The requests of whoever holds the lock.  The main loop reconnects when  *)
(* it sees a desynchronization and reads on after any other ValueError;    *)
(* for a client's read and a command's first read every ValueError ends    *)
(* the request, for a poll it is ignored: all on the same connection.      *)

\* Mutant of Idle: the command that ended is not forgotten.
IdleKeepsKind == doing' = "none" /\ got' = <<>> /\ UNCHANGED kind

Idle == doing' = "none" /\ kind' = None /\ got' = <<>>
Continue(next) == doing' = next /\ got' = <<>> /\ UNCHANGED kind

\* A request starts with an empty collection.  If nothing is owed, the count of
\* programs starts anew; the bound leaves room for the n programs of the request.
Start(what, k, p, n) ==
  /\ doing' = what /\ kind' = k /\ got' = <<>>
  /\ step' = "collect" /\ seen' = FALSE
  /\ IF Owed
     THEN /\ Len(programs) + n <= MaxProgram
          /\ programs' = Append(programs, p) /\ UNCHANGED <<ran, acked, late>>
     ELSE programs' = <<p>> /\ ran' = 0 /\ acked' = 0 /\ late' = FALSE
  /\ UNCHANGED <<turn, match, outbox, stream>>

Watch == doing = "none" /\ Start("watch", None, 0, Parts + 1)
ReadState == doing = "none" /\ Start("read", None, 0, Parts + 1)
BeginCommand(k) == doing = "none" /\ Start("before", k, 0, Parts + 2)
Submit == doing = "ready" /\ Start("ask", kind, kind, 1)
Poll == doing = "verify" /\ Start("poll", kind, 0, Parts + 1)

\* The before-state already decides, or the verification has lasted long enough.
EndCommand ==
  /\ doing \in {"ready", "verify"} /\ Idle
  /\ UNCHANGED <<turn, programs, wire, step, seen, late>>

LastSent == programs[Len(programs)]

NextPart ==
  /\ doing \in Reading /\ step = "send" /\ LastSent < Parts
  /\ programs' = Append(programs, LastSent + 1) /\ step' = "collect"
  /\ UNCHANGED <<turn, wire, doing, kind, seen, got, late>>

ReadComplete == doing \in Reading /\ step = "send" /\ LastSent = Parts

ReturnsState == ReadComplete /\ Parses

After == [before |-> "ready", poll |-> "verify"]

ReturnState ==
  /\ ReturnsState
  /\ \/ doing \in {"watch", "read", "poll"} /\ Idle
     \/ doing \in {"before", "poll"} /\ Continue(After[doing])
  /\ UNCHANGED <<turn, programs, wire, step, seen, late>>

FailRead ==
  /\ ReadComplete /\ ~ReturnsState /\ ~(doing = "watch" /\ Desynchronized)
  /\ IF doing = "poll" THEN Continue("verify") ELSE Idle
  /\ UNCHANGED <<turn, programs, wire, step, seen, late>>

ReturnsResponse == doing = "ask" /\ step = "send" /\ HasResponse

\* The response: accepted and to be verified, or the end of the command.
TakeResponse ==
  /\ ReturnsResponse
  /\ (Idle \/ Continue("verify"))
  /\ UNCHANGED <<turn, programs, wire, step, seen, late>>

FailResponse ==
  /\ doing = "ask" /\ step = "send" /\ ~ReturnsResponse /\ Idle
  /\ UNCHANGED <<turn, programs, wire, step, seen, late>>

\* ConnectionError: the game is closing, and from then on the socket is at its end.
ConnectionEnds ==
  /\ step = "collect" /\ stream # <<>> /\ Head(stream).tag = "closing"
  /\ doing # "watch" /\ Idle /\ EndCollect
  /\ UNCHANGED <<turn, programs, wire, late>>

NewConnection ==
  /\ programs' = <<>> /\ match' = FALSE /\ ran' = 0 /\ acked' = 0 /\ outbox' = <<>> /\ stream' = <<>>
  /\ Idle /\ EndCollect
  /\ late' = FALSE
  /\ UNCHANGED turn

\* A new connection, with a new session identity, in place of one that is lost or
\* desynchronized; or the watcher ends, whatever it does, and is started again.
Reconnect ==
  /\ \/ doing = "watch" /\ step = "collect" /\ stream # <<>> /\ Head(stream).tag = "closing"
     \/ doing = "watch" /\ ReadComplete /\ Desynchronized
  /\ NewConnection

Restart == NewConnection

Game == RunProgram \/ SendOutput \/ Acknowledge \/ AnnounceClosing \/ NextTurn

Client ==
  \/ Receive \/ Deadline \/ NextPart \/ ReturnState \/ FailRead
  \/ Submit \/ TakeResponse \/ FailResponse \/ Poll \/ EndCommand
  \/ ConnectionEnds \/ Reconnect \/ Restart

Next == Game \/ Client \/ Watch \/ ReadState \/ \E k \in Kind : BeginCommand(k)

Spec == Init /\ [][Next]_vars

-----------------------------------------------------------------------------
(* Safety.                                                                 *)

\* A snapshot that is accepted is everything that the programs of one read printed,
\* in one turn: no record of a unit or city is missing or repeated and no part is of
\* another read, however late and however divided the frames came.  The record that
\* closes the last part stands for all that was printed before it.
SnapshotIsOneRead ==
  ReturnsState =>
    /\ \A i, j \in SnapshotAt :
         i < j /\ (\A k \in SnapshotAt : k <= i \/ j <= k) =>
           IF got[i].nth < got[i].of THEN got[j] = [got[i] EXCEPT !.nth = @ + 1]
                                     ELSE got[j].from = got[i].from + 1 /\ got[j].nth = 1
    /\ \A i \in SnapshotAt : (\A j \in SnapshotAt : j <= i) => got[i].nth = got[i].of
    /\ \A i, j \in SnapshotAt : got[i].turn = got[j].turn

\* The state that is returned begins with the header of this read, the response that is
\* taken is that of this command.
StateIsOwn ==
  ReturnsState => \A i \in SnapshotAt : FirstIn(SnapshotAt, i) => got[i].from = Len(programs) - Parts
ResponseIsOwn ==
  ReturnsResponse => \A i \in MatchAt : FirstIn(MatchAt, i) => got[i].from = Len(programs)

\* As long as every answer came before a deadline gave up on it, states and responses
\* are those of the request that returns them, whether acknowledgements come before
\* or after the output: what ADR-0042 and ADR-0043 changed execute_collect for.
PromptAnswersAreOwn == ~late => StateIsOwn /\ ResponseIsOwn

\* docs/modules/bridge.md 50-55, docs/planning/RISK_REGISTER.md 26 (R-019): late frames
\* are drained, and a connection that cannot attribute them is replaced.  A read none of
\* whose frames came in time is noticed by nothing: the next read returns its state.
StatesAreOwn == StateIsOwn
=============================================================================
