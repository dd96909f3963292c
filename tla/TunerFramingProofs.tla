------------------------- MODULE TunerFramingProofs -------------------------
(***************************************************************************)
(* Proofs about TunerFraming, for any number of part programs and records, *)
(* any set of commands and any number of programs and turns.               *)
(***************************************************************************)
EXTENDS TunerFraming, TLAPS

-----------------------------------------------------------------------------
(* The inductive invariant.                                                *)

\* What was printed and is not forgotten: collected, on the wire, in the game.
Outputs == {i \in DOMAIN stream : stream[i].tag = "output"}
Got == {got[i] : i \in DOMAIN got}
Sent == {stream[i].line : i \in Outputs}
Held == {outbox[i] : i \in DOMAIN outbox}
Pending == Sent \cup Held
Lines == Got \cup Pending

\* Lines are kept in the order in which they were printed.
Prior(a, b) == a.from < b.from \/ (a.from = b.from /\ a.nth < b.nth)

InOrder ==
  /\ \A i, j \in DOMAIN got : i < j => Prior(got[i], got[j])
  /\ \A i, j \in Outputs : i < j => Prior(stream[i].line, stream[j].line)
  /\ \A i, j \in DOMAIN outbox : i < j => Prior(outbox[i], outbox[j])
  /\ \A a \in Got, b \in Pending : Prior(a, b)
  /\ \A a \in Sent, b \in Held : Prior(a, b)

\* The lines of a program agree on it, and none is lost before the ones that follow it.
Following(l) == [l EXCEPT !.nth = @ + 1]

Printed ==
  /\ \A l \in Lines : l.from \in 1..ran /\ l.nth <= l.of
  /\ \A a, b \in Lines : a.from = b.from => a.of = b.of /\ a.turn = b.turn
  /\ \A l \in Lines : l.nth < l.of => Following(l) \in Lines

\* The programs of a read are sent one after the other.
Sequenced ==
  \A i \in DOMAIN programs : \A p \in 1..Parts :
    programs[i] = p => p < i /\ \A q \in 0..p : programs[i - q] = p - q

\* A part that printed anything follows a header that did, which is forgotten only with
\* all that was printed before it.
HeaderPassed(h) == (\E l \in Lines : l.from = h) \/ (\A l \in Lines : l.from >= h)

Headed ==
  /\ \A l \in Lines : Of(l) \in 1..Parts => HeaderPassed(l.from - Of(l))
  /\ match => \A h \in 1..ran :
       programs[h] = 0 /\ (\A i \in h + 1..ran : programs[i] # 0) => HeaderPassed(h)

\* What is sent belongs to a request that has room for it.
Requests ==
  /\ doing \in {"none", "ready", "verify"} => step = "send"
  /\ step = "send" => ~seen
  /\ doing \notin {"none", "ready", "verify"} => programs # <<>>
  /\ doing \in Reading =>
       LastSent \in 0..Parts /\ Len(programs) + Parts - LastSent <= MaxProgram
  /\ \A i \in DOMAIN stream : stream[i].tag = "closing" => i = Len(stream)

\* As long as no deadline gave up on an answer, only the last program is unanswered, and
\* its acknowledgement ends the answer only if it stands after all of the output.
OnlyLastOwed ==
  /\ step = "send" => \A i \in DOMAIN stream : stream[i].tag = "closing"
  /\ step = "collect" => \A l \in Sent : l.from = Len(programs)
  /\ ~Closing /\ step = "send" => ran = Len(programs) /\ acked = Len(programs) /\ outbox = <<>>
  /\ ~Closing /\ step = "collect" =>
       /\ Len(programs) - 1 <= ran /\ Len(programs) - 1 <= acked
       /\ \A l \in Held : l.from = Len(programs)

AckInPlace ==
  step = "collect" =>
    /\ seen => ran = Len(programs)
    /\ \A k \in DOMAIN stream : stream[k].tag = "ack" =>
         /\ acked = Len(programs)
         /\ \A i \in DOMAIN stream : stream[i].tag = "ack" => i = k
         /\ \/ ~seen /\ \A i \in Outputs : i > k
            \/ /\ \A i \in Outputs : i < k
               /\ Closing \/ (ran = Len(programs) /\ outbox = <<>>)

OwnCollected ==
  /\ doing \in Reading => \A l \in Got : l.from >= Len(programs) - LastSent
  /\ doing = "ask" => \A l \in Got : l.from >= Len(programs)

Prompt == ~late => OnlyLastOwed /\ AckInPlace /\ OwnCollected

IInv == TypeOK /\ InOrder /\ Printed /\ Sequenced /\ Headed /\ Requests /\ Prompt

USE FramingAssumption

-----------------------------------------------------------------------------
(* The frames on the wire and the lines in them.                           *)

LEMMA FrameFacts ==
  ASSUME NEW f \in Frame
  PROVE  f.tag \in {"ack", "closing", "output"} /\ (f.tag = "output" => f.line \in Line)
BY DEF Frame

LEMMA LinesTyped == TypeOK => Lines \subseteq Line
<1> SUFFICES ASSUME TypeOK PROVE Lines \subseteq Line
  OBVIOUS
<1>1. Got \subseteq Line /\ Held \subseteq Line
  BY DEF TypeOK, Got, Held
<1>2. Sent \subseteq Line
  BY FrameFacts DEF TypeOK, Sent, Outputs
<1>. QED
  BY <1>1, <1>2 DEF Lines, Pending

LEMMA FrameAppended ==
  ASSUME TypeOK, NEW f \in Frame, stream' = Append(stream, f)
  PROVE  /\ stream' \in Seq(Frame) /\ DOMAIN stream' = 1..Len(stream) + 1
         /\ stream'[Len(stream) + 1] = f /\ \A i \in 1..Len(stream) : stream'[i] = stream[i]
         /\ f.tag # "output" => Outputs' = Outputs /\ Sent' = Sent
         /\ f.tag = "output" => Outputs' = Outputs \cup {Len(stream) + 1} /\ Sent' = Sent \cup {f.line}
<1>1. /\ stream \in Seq(Frame) /\ stream' \in Seq(Frame) /\ DOMAIN stream = 1..Len(stream)
      /\ DOMAIN stream' = 1..Len(stream) + 1
      /\ stream'[Len(stream) + 1] = f /\ \A i \in 1..Len(stream) : stream'[i] = stream[i]
  BY DEF TypeOK
<1>2. f.tag # "output" => Outputs' = Outputs
  BY <1>1 DEF Outputs
<1>3. f.tag = "output" => Outputs' = Outputs \cup {Len(stream) + 1}
  BY <1>1 DEF Outputs
<1>4. \A i \in Outputs : stream'[i] = stream[i]
  BY <1>1 DEF Outputs
<1>5. f.tag # "output" => Sent' = Sent
  BY <1>2, <1>4 DEF Sent
<1>6. f.tag = "output" => Sent' = Sent \cup {f.line}
  <2> SUFFICES ASSUME f.tag = "output" PROVE Sent' = Sent \cup {f.line}
    OBVIOUS
  <2>1. ASSUME NEW l \in Sent' PROVE l \in Sent \cup {f.line}
    BY <1>1, <1>3, <1>4, <2>1 DEF Sent
  <2>2. f.line \in Sent'
    BY <1>1, <1>3 DEF Sent
  <2>3. ASSUME NEW l \in Sent PROVE l \in Sent'
    <3>1. PICK i \in Outputs : l = stream[i].line
      BY DEF Sent
    <3>2. i \in Outputs' /\ stream'[i].line = l
      BY <1>3, <1>4, <3>1
    <3>. QED
      BY <3>2 DEF Sent
  <2>. QED
    BY <2>1, <2>2, <2>3
<1>. QED
  BY <1>1, <1>2, <1>3, <1>5, <1>6

LEMMA FrameRead ==
  ASSUME TypeOK, stream # <<>>, stream' = Tail(stream)
  PROVE  /\ stream' \in Seq(Frame) /\ Head(stream) \in Frame /\ stream[1] = Head(stream)
         /\ DOMAIN stream' = 1..Len(stream) - 1 /\ Len(stream') = Len(stream) - 1
         /\ Len(stream) \in Nat \ {0} /\ DOMAIN stream = 1..Len(stream)
         /\ \A i \in DOMAIN stream' : i + 1 \in 1..Len(stream) /\ stream'[i] = stream[i + 1]
         /\ Head(stream).tag # "output" => Sent' = Sent
         /\ Head(stream).tag = "output" => 1 \in Outputs /\ Sent = Sent' \cup {Head(stream).line}
<1>1. /\ stream' \in Seq(Frame) /\ Head(stream) \in Frame /\ stream[1] = Head(stream)
      /\ DOMAIN stream' = 1..Len(stream) - 1 /\ Len(stream') = Len(stream) - 1
      /\ Len(stream) \in Nat \ {0} /\ DOMAIN stream = 1..Len(stream)
      /\ \A i \in DOMAIN stream' : i + 1 \in 1..Len(stream) /\ stream'[i] = stream[i + 1]
  BY DEF TypeOK
<1>2. \A i \in Outputs' : i + 1 \in Outputs /\ stream'[i].line = stream[i + 1].line
  BY <1>1 DEF Outputs
<1>3. \A i \in Outputs : i # 1 => i - 1 \in Outputs' /\ stream'[i - 1].line = stream[i].line
  <2> SUFFICES ASSUME NEW i \in 1..Len(stream), stream[i].tag = "output", i # 1
               PROVE  i - 1 \in Outputs' /\ stream'[i - 1].line = stream[i].line
    BY <1>1 DEF Outputs
  <2>1. i - 1 \in DOMAIN stream' /\ (i - 1) + 1 = i
    BY <1>1
  <2>. QED
    BY <1>1, <2>1 DEF Outputs
<1>4. Sent' \subseteq Sent
  BY <1>2 DEF Sent
<1>5. ASSUME NEW l \in Sent PROVE l \in Sent' \/ (1 \in Outputs /\ l = stream[1].line)
  <2>1. PICK i \in Outputs : l = stream[i].line
    BY DEF Sent
  <2>2. CASE i # 1
    <3>1. i - 1 \in Outputs' /\ stream'[i - 1].line = l
      BY <1>3, <2>1, <2>2
    <3>. QED
      BY <3>1 DEF Sent
  <2>. QED
    BY <2>1, <2>2
<1>6. 1 \in Outputs <=> Head(stream).tag = "output"
  BY <1>1 DEF Outputs
<1>7. 1 \in Outputs => stream[1].line \in Sent
  BY DEF Sent
<1>. QED
  BY <1>1, <1>4, <1>5, <1>6, <1>7

LEMMA LineCollected ==
  ASSUME TypeOK, NEW l \in Line, got' = Append(got, l)
  PROVE  /\ got' \in Seq(Line) /\ DOMAIN got' = 1..Len(got) + 1 /\ DOMAIN got = 1..Len(got)
         /\ got'[Len(got) + 1] = l /\ \A i \in 1..Len(got) : got'[i] = got[i]
         /\ Got' = Got \cup {l} /\ Len(got) \in Nat
<1>1. /\ got' \in Seq(Line) /\ DOMAIN got' = 1..Len(got) + 1 /\ DOMAIN got = 1..Len(got)
      /\ got'[Len(got) + 1] = l /\ \A i \in 1..Len(got) : got'[i] = got[i] /\ Len(got) \in Nat
  BY DEF TypeOK
<1>. QED
  BY <1>1 DEF Got

\* A program prints lines that agree on it, in their order.
LEMMA ProgramRun ==
  ASSUME TypeOK, RunProgram
  PROVE  \E k \in 0..MaxFrames :
           /\ outbox' \in Seq(Line) /\ DOMAIN outbox' = 1..k
           /\ \A i \in 1..k : outbox'[i] = [from |-> ran + 1, nth |-> i, of |-> k, turn |-> turn]
           /\ k \in Prints(programs[ran + 1])
           /\ match' = IF programs[ran + 1] = 0 THEN k = 1 ELSE match
           /\ outbox = <<>> /\ ran' = ran + 1 /\ ran + 1 \in 1..Len(programs) /\ ran + 1 \in 1..MaxProgram
<1>1. PICK k \in Prints(programs[ran + 1]) :
        /\ outbox' = [i \in 1..k |-> [from |-> ran + 1, nth |-> i, of |-> k, turn |-> turn]]
        /\ match' = IF programs[ran + 1] = 0 THEN k = 1 ELSE match
  BY DEF RunProgram
<1>2. k \in 0..MaxFrames
  BY <1>1 DEF Prints
<1>3. ran' = ran + 1 /\ ran + 1 \in 1..Len(programs) /\ ran + 1 \in 1..MaxProgram /\ outbox = <<>>
  BY DEF RunProgram, TypeOK
<1>4. \A i \in 1..k : [from |-> ran + 1, nth |-> i, of |-> k, turn |-> turn] \in Line
  BY <1>2, <1>3 DEF Line, TypeOK
<1>5. outbox' \in Seq(Line)
  BY <1>1, <1>2, <1>4
<1>. QED
  BY <1>1, <1>2, <1>3, <1>5

-----------------------------------------------------------------------------
(* What a step does to the lines and the programs.                         *)

\* No line is printed, sent or collected.
StaysPut ==
  /\ UNCHANGED <<got, outbox>>
  /\ \/ stream' = stream
     \/ \E f \in Frame : f.tag # "output" /\ stream' = Append(stream, f)
     \/ stream # <<>> /\ Head(stream).tag # "output" /\ stream' = Tail(stream)

Collects(l) ==
  /\ stream # <<>> /\ Head(stream).tag = "output" /\ l = Head(stream).line
  /\ got' = Append(got, l) /\ stream' = Tail(stream) /\ outbox' = outbox

Forgets == got' = <<>> /\ UNCHANGED <<stream, outbox>>

ProgramsGrow == programs' = programs \/ \E p \in Program : programs' = Append(programs, p)

Resets ==
  /\ ~Owed /\ Forgets /\ ran' = 0 /\ acked' = 0 /\ match' = match
  /\ \E p \in Program : programs' = <<p>>

GoesOn ==
  /\ UNCHANGED <<ran, match>> /\ ProgramsGrow
  /\ StaysPut \/ (\E l : Collects(l)) \/ SendOutput \/ Forgets

\* A request begins with a program of its own, and none of the lines so far.
LEMMA StartEffect ==
  ASSUME NEW what, NEW k, NEW p \in Program, NEW m, Start(what, k, p, m)
  PROVE  /\ Resets \/ GoesOn
         /\ step' = "collect" /\ seen' = FALSE /\ doing' = what /\ got' = <<>>
         /\ UNCHANGED <<turn, match, outbox, stream>>
         /\ \/ /\ Owed /\ Len(programs) + m <= MaxProgram /\ programs' = Append(programs, p)
               /\ UNCHANGED <<ran, acked, late>>
            \/ ~Owed /\ programs' = <<p>> /\ ran' = 0 /\ acked' = 0 /\ late' = FALSE
BY DEF Start, Resets, GoesOn, Forgets, ProgramsGrow

LEMMA Requested ==
  ASSUME TypeOK, Watch \/ ReadState \/ (\E k \in Kind : BeginCommand(k)) \/ Submit \/ Poll
  PROVE  \E what, k, m : \E p \in Program :
           /\ Start(what, k, p, m) /\ doing \in {"none", "ready", "verify"}
           /\ \/ what \in Reading /\ p = 0 /\ m \in {Parts + 1, Parts + 2}
              \/ what = "ask" /\ p = kind /\ p \in Kind /\ m = 1
           /\ (k = None <=> what \in {"watch", "read"}) /\ k \in Kind \cup {None}
<1>1. 0 \in Program
  BY DEF Program
<1>2. CASE Watch
  <2>1. Start("watch", None, 0, Parts + 1) /\ doing = "none"
    BY <1>2 DEF Watch
  <2>. QED
    BY <1>1, <2>1 DEF Reading
<1>3. CASE ReadState
  <2>1. Start("read", None, 0, Parts + 1) /\ doing = "none"
    BY <1>3 DEF ReadState
  <2>. QED
    BY <1>1, <2>1 DEF Reading
<1>4. ASSUME NEW k \in Kind, BeginCommand(k)
      PROVE  Start("before", k, 0, Parts + 2) /\ doing = "none" /\ k # None
  BY <1>4 DEF BeginCommand, Program
<1>5. CASE Submit
  <2>1. Start("ask", kind, kind, 1) /\ doing = "ready" /\ kind \in Kind /\ kind \in Program
    BY <1>5 DEF Submit, TypeOK, Program
  <2>. QED
    BY <2>1 DEF Program
<1>6. CASE Poll
  <2>1. Start("poll", kind, 0, Parts + 1) /\ doing = "verify" /\ kind \in Kind /\ kind # None
    BY <1>6 DEF Poll, TypeOK, Program
  <2>. QED
    BY <1>1, <2>1 DEF Reading
<1>. QED
  BY <1>1, <1>2, <1>3, <1>4, <1>5, <1>6 DEF Reading

LEMMA RequestEffect ==
  ASSUME TypeOK, Watch \/ ReadState \/ (\E k \in Kind : BeginCommand(k)) \/ Submit \/ Poll
  PROVE  Resets \/ GoesOn
BY Requested, StartEffect

LEMMA GameEffect ==
  ASSUME TypeOK, SendOutput \/ Acknowledge \/ AnnounceClosing \/ NextTurn
  PROVE  GoesOn
<1>1. CASE SendOutput
  BY <1>1 DEF SendOutput, GoesOn, ProgramsGrow
<1>2. CASE Acknowledge
  BY <1>2 DEF Acknowledge, GoesOn, ProgramsGrow, StaysPut, Frame, client
<1>3. CASE AnnounceClosing
  BY <1>3 DEF AnnounceClosing, GoesOn, ProgramsGrow, StaysPut, Frame, client
<1>4. CASE NextTurn
  BY <1>4 DEF NextTurn, GoesOn, ProgramsGrow, StaysPut, wire, client
<1>. QED
  BY <1>1, <1>2, <1>3, <1>4

LEMMA ClientEffect ==
  ASSUME TypeOK, Requests,
         \/ Receive \/ Deadline \/ NextPart \/ ReturnState \/ FailRead
         \/ TakeResponse \/ FailResponse \/ EndCommand \/ ConnectionEnds
  PROVE  GoesOn
<1>1. CASE Receive
  <2>1. CASE Head(stream).tag = "output"
    BY <1>1, <2>1 DEF Receive, GoesOn, ProgramsGrow, Collects
  <2>2. CASE Head(stream).tag # "output"
    BY <1>1, <2>2 DEF Receive, GoesOn, ProgramsGrow, StaysPut
  <2>. QED
    BY <2>1, <2>2
<1>2. CASE Deadline
  BY <1>2 DEF Deadline, GoesOn, ProgramsGrow, StaysPut, wire
<1>3. CASE NextPart
  <2>1. LastSent + 1 \in Program
    BY <1>3 DEF NextPart, Requests, Program
  <2>. QED
    BY <1>3, <2>1 DEF NextPart, GoesOn, ProgramsGrow, StaysPut, wire
<1>4. CASE ReturnState \/ FailRead \/ TakeResponse \/ FailResponse \/ EndCommand \/ ConnectionEnds
  BY <1>4 DEF ReturnState, FailRead, TakeResponse, FailResponse, EndCommand, ConnectionEnds, Idle, Continue,
              GoesOn, ProgramsGrow, Forgets, wire
<1>. QED
  BY <1>1, <1>2, <1>3, <1>4

LEMMA Effects ==
  ASSUME TypeOK, Requests, [Next]_vars
  PROVE  RunProgram \/ NewConnection \/ Resets \/ GoesOn
<1>1. CASE UNCHANGED vars
  BY <1>1 DEF vars, wire, client, GoesOn, ProgramsGrow, StaysPut
<1>2. CASE Reconnect \/ Restart
  BY <1>2 DEF Reconnect, Restart
<1>. QED
  BY <1>1, <1>2, GameEffect, ClientEffect, RequestEffect DEF Next, Game, Client

-----------------------------------------------------------------------------
(* The lines keep their order, and stay together.                          *)

\* The first of the outbox is sent.
LEMMA OutputSent ==
  ASSUME TypeOK, SendOutput
  PROVE  /\ Head(outbox) \in Line /\ Head(outbox) = outbox[1] /\ Len(outbox) \in Nat \ {0}
         /\ DOMAIN outbox = 1..Len(outbox) /\ DOMAIN outbox' = 1..Len(outbox) - 1 /\ outbox' \in Seq(Line)
         /\ \A i \in DOMAIN outbox' : i + 1 \in DOMAIN outbox /\ outbox'[i] = outbox[i + 1]
         /\ Held = Held' \cup {Head(outbox)}
         /\ stream' = Append(stream, [tag |-> "output", line |-> Head(outbox)])
         /\ [tag |-> "output", line |-> Head(outbox)] \in Frame
         /\ Sent' = Sent \cup {Head(outbox)} /\ Outputs' = Outputs \cup {Len(stream) + 1}
         /\ got' = got
<1> DEFINE b == Head(outbox)
           f == [tag |-> "output", line |-> b]
<1>1. /\ b \in Line /\ b = outbox[1] /\ Len(outbox) \in Nat \ {0}
      /\ DOMAIN outbox = 1..Len(outbox) /\ DOMAIN outbox' = 1..Len(outbox) - 1 /\ outbox' \in Seq(Line)
      /\ \A i \in DOMAIN outbox' : i + 1 \in DOMAIN outbox /\ outbox'[i] = outbox[i + 1]
      /\ stream' = Append(stream, f) /\ got' = got
  BY DEF SendOutput, TypeOK, client
<1>2. f \in Frame /\ f.tag = "output" /\ f.line = b
  BY <1>1 DEF Frame
<1>3. Sent' = Sent \cup {b} /\ Outputs' = Outputs \cup {Len(stream) + 1}
  <2> HIDE DEF f, b
  <2>. QED
    BY <1>1, <1>2, FrameAppended
<1>4. \A i \in DOMAIN outbox : i # 1 => i - 1 \in DOMAIN outbox' /\ outbox'[i - 1] = outbox[i]
  BY <1>1
<1>5. Held' \subseteq Held /\ b \in Held
  BY <1>1 DEF Held
<1>6. ASSUME NEW l \in Held PROVE l \in Held' \cup {b}
  <2>1. PICK i \in DOMAIN outbox : l = outbox[i]
    BY DEF Held
  <2>2. CASE i # 1
    <3>1. i - 1 \in DOMAIN outbox' /\ outbox'[i - 1] = l
      BY <1>4, <2>1, <2>2
    <3>. QED
      BY <3>1 DEF Held
  <2>. QED
    BY <1>1, <2>1, <2>2
<1>. QED
  BY <1>1, <1>2, <1>3, <1>5, <1>6

LEMMA StaysPutLines ==
  ASSUME TypeOK, StaysPut
  PROVE  Got' = Got /\ Sent' = Sent /\ Held' = Held
<1>1. Got' = Got /\ Held' = Held
  BY DEF StaysPut, Got, Held
<1>2. CASE stream' = stream
  <2>1. Outputs' = Outputs
    BY <1>2 DEF Outputs
  <2>. QED
    BY <1>1, <1>2, <2>1 DEF Sent
<1>3. ASSUME NEW f \in Frame, f.tag # "output", stream' = Append(stream, f) PROVE Sent' = Sent
  BY <1>3, FrameAppended
<1>4. CASE stream # <<>> /\ Head(stream).tag # "output" /\ stream' = Tail(stream)
  BY <1>1, <1>4, FrameRead, Zenon
<1>. QED
  BY <1>1, <1>2, <1>3, <1>4 DEF StaysPut

LEMMA CollectsLines ==
  ASSUME TypeOK, NEW l, Collects(l)
  PROVE  /\ l \in Line /\ l \in Sent /\ Got' = Got \cup {l} /\ Sent = Sent' \cup {l} /\ Held' = Held
         /\ 1 \in Outputs /\ l = stream[1].line
<1>1. l \in Line /\ 1 \in Outputs /\ l = stream[1].line /\ Sent = Sent' \cup {l}
  BY FrameRead, FrameFacts DEF Collects
<1>2. Got' = Got \cup {l} /\ Held' = Held
  BY <1>1, LineCollected DEF Collects, Held
<1>. QED
  BY <1>1, <1>2

LEMMA ForgetsLines ==
  ASSUME Forgets
  PROVE  Got' = {} /\ Sent' = Sent /\ Held' = Held
BY DEF Forgets, Got, Sent, Held, Outputs

LEMMA RunLines ==
  ASSUME TypeOK, RunProgram
  PROVE  Got' = Got /\ Sent' = Sent /\ Held = {}
<1>1. UNCHANGED <<got, stream>> /\ outbox = <<>>
  BY DEF RunProgram, client
<1>. QED
  BY <1>1 DEF Got, Sent, Held, Outputs

LEMMA NewLines ==
  ASSUME NewConnection
  PROVE  Got' = {} /\ Sent' = {} /\ Held' = {} /\ Lines' = {}
<1>1. got' = <<>> /\ stream' = <<>> /\ outbox' = <<>>
  BY DEF NewConnection, Idle
<1>. QED
  BY <1>1 DEF Got, Sent, Held, Outputs, Lines, Pending

LEMMA NothingOwed ==
  ASSUME ~Owed
  PROVE  Sent = {} /\ Held = {}
BY DEF Owed, Sent, Held, Outputs

\* The frames on the wire stay in order.
LEMMA WireOrder ==
  ASSUME TypeOK, InOrder, StaysPut \/ \E l : Collects(l)
  PROVE  \A i, j \in Outputs' : i < j => Prior(stream'[i].line, stream'[j].line)
<1>1. CASE stream' = stream
  BY <1>1 DEF InOrder, Outputs
<1>2. ASSUME NEW f \in Frame, f.tag # "output", stream' = Append(stream, f)
      PROVE  \A i, j \in Outputs' : i < j => Prior(stream'[i].line, stream'[j].line)
  <2>1. Outputs' = Outputs /\ \A i \in Outputs : stream'[i] = stream[i]
    BY <1>2, FrameAppended DEF Outputs, TypeOK
  <2>. QED
    BY <2>1 DEF InOrder
<1>3. CASE stream # <<>> /\ stream' = Tail(stream)
  <2>1. \A i \in Outputs' : i \in Int /\ i + 1 \in Outputs /\ stream'[i] = stream[i + 1]
    BY <1>3, FrameRead DEF Outputs
  <2>. QED
    BY <2>1 DEF InOrder
<1>. QED
  BY <1>1, <1>2, <1>3 DEF StaysPut, Collects

LEMMA OrderKept ==
  ASSUME TypeOK, Requests, InOrder, Printed, [Next]_vars
  PROVE  InOrder'
<1>1. CASE RunProgram
  <2>1. UNCHANGED <<got, stream>> /\ Got' = Got /\ Sent' = Sent
    BY <1>1, RunLines DEF RunProgram, client
  <2> PICK k \in 0..MaxFrames :
        /\ DOMAIN outbox' = 1..k
        /\ \A i \in 1..k : outbox'[i] = [from |-> ran + 1, nth |-> i, of |-> k, turn |-> turn]
    BY <1>1, ProgramRun, Zenon
  <2>2. \A i, j \in DOMAIN outbox' : i < j => Prior(outbox'[i], outbox'[j])
    BY DEF Prior
  <2>3. \A b \in Held' : b.from = ran + 1
    BY DEF Held
  <2>4. \A a \in Got \cup Sent : a.from \in Int /\ a.from < ran + 1
    BY DEF Printed, Lines, Pending, TypeOK
  <2>5. Outputs' = Outputs
    BY <2>1 DEF Outputs
  <2>. QED
    BY <2>1, <2>2, <2>3, <2>4, <2>5 DEF InOrder, Prior, Pending
<1>2. CASE NewConnection
  <2>1. got' = <<>> /\ stream' = <<>> /\ outbox' = <<>>
    BY <1>2 DEF NewConnection, Idle
  <2>. QED
    BY <1>2, <2>1, NewLines DEF InOrder, Pending, Outputs
<1>3. CASE Forgets
  <2>1. got' = <<>> /\ UNCHANGED <<stream, outbox>>
    BY <1>3 DEF Forgets
  <2>. QED
    BY <1>3, <2>1, ForgetsLines DEF InOrder, Pending, Outputs
<1>4. CASE StaysPut
  <2>1. UNCHANGED <<got, outbox>>
    BY <1>4 DEF StaysPut
  <2>. QED
    BY <1>4, <2>1, StaysPutLines, WireOrder DEF InOrder, Pending
<1>5. ASSUME NEW l, Collects(l) PROVE InOrder'
  <2>1. outbox' = outbox /\ got' = Append(got, l)
    BY <1>5 DEF Collects
  <2>2. /\ l \in Line /\ l \in Sent /\ Got' = Got \cup {l} /\ Sent = Sent' \cup {l} /\ Held' = Held
        /\ 1 \in Outputs /\ l = stream[1].line
    BY <1>5, CollectsLines
  <2>3. \A i, j \in DOMAIN got' : i < j => Prior(got'[i], got'[j])
    <3>1. \A i \in DOMAIN got : Prior(got[i], l)
      BY <2>2 DEF InOrder, Got, Pending
    <3>. QED
      BY <2>1, <2>2, <3>1, LineCollected DEF InOrder
  <2>4. \A b \in Sent' : Prior(l, b)
    <3> SUFFICES ASSUME NEW i \in Outputs' PROVE Prior(l, stream'[i].line)
      BY DEF Sent
    <3>1. i + 1 \in Outputs /\ stream'[i] = stream[i + 1] /\ 1 < i + 1
      BY <1>5, FrameRead DEF Collects, Outputs
    <3>. QED
      BY <2>2, <3>1 DEF InOrder
  <2>5. \A i, j \in Outputs' : i < j => Prior(stream'[i].line, stream'[j].line)
    BY <1>5, WireOrder
  <2>. QED
    BY <2>1, <2>2, <2>3, <2>4, <2>5 DEF InOrder, Pending
<1>6. CASE SendOutput
  <2> DEFINE b == Head(outbox)
  <2>1. /\ b = outbox[1] /\ Held = Held' \cup {b} /\ Sent' = Sent \cup {b} /\ got' = got /\ Got' = Got
        /\ b \in Held
    BY <1>6, OutputSent DEF Got
  <2>2. \A i, j \in DOMAIN outbox' : i < j => Prior(outbox'[i], outbox'[j])
    BY <1>6, OutputSent DEF InOrder
  <2>3. \A c \in Held' : Prior(b, c)
    <3> SUFFICES ASSUME NEW i \in DOMAIN outbox' PROVE Prior(b, outbox'[i])
      BY DEF Held
    <3>1. i + 1 \in DOMAIN outbox /\ outbox'[i] = outbox[i + 1] /\ 1 \in DOMAIN outbox /\ 1 < i + 1
      BY <1>6, OutputSent
    <3>. QED
      BY <2>1, <3>1 DEF InOrder
  <2>4. \A i, j \in Outputs' : i < j => Prior(stream'[i].line, stream'[j].line)
    <3>1. /\ Outputs' = Outputs \cup {Len(stream) + 1} /\ Len(stream) \in Nat
          /\ \A i \in Outputs : i \in 1..Len(stream) /\ stream'[i] = stream[i]
          /\ stream'[Len(stream) + 1].line = b
      <4> DEFINE f == [tag |-> "output", line |-> b]
      <4>1. stream' = Append(stream, f) /\ f \in Frame /\ f.line = b /\ Outputs' = Outputs \cup {Len(stream) + 1}
        BY <1>6, OutputSent
      <4> HIDE DEF f
      <4>. QED
        BY <4>1, FrameAppended DEF Outputs, TypeOK
    <3>2. \A i \in Outputs : Prior(stream[i].line, b)
      BY <2>1 DEF InOrder, Sent
    <3>. QED
      BY <3>1, <3>2 DEF InOrder
  <2> HIDE DEF b
  <2>. QED
    BY <2>1, <2>2, <2>3, <2>4 DEF InOrder, Pending
<1>. QED
  BY <1>1, <1>2, <1>3, <1>4, <1>5, <1>6, Effects DEF Resets, GoesOn

\* Only a program that is run adds lines, and only a new request forgets some.
LEMMA LinesKept ==
  ASSUME TypeOK, GoesOn
  PROVE  Lines' = Lines \/ (Forgets /\ Lines' = Pending)
<1>1. CASE StaysPut
  BY <1>1, StaysPutLines DEF Lines, Pending
<1>2. ASSUME NEW l, Collects(l) PROVE Lines' = Lines
  BY <1>2, CollectsLines DEF Lines, Pending
<1>3. CASE SendOutput
  <2>1. Got' = Got /\ Held = Held' \cup {Head(outbox)} /\ Sent' = Sent \cup {Head(outbox)}
    BY <1>3, OutputSent DEF Got
  <2>. QED
    BY <2>1 DEF Lines, Pending
<1>4. CASE Forgets
  BY <1>4, ForgetsLines DEF Lines, Pending
<1>. QED
  BY <1>1, <1>2, <1>3, <1>4 DEF GoesOn

LEMMA ResetLines ==
  ASSUME Resets
  PROVE  Lines' = {}
BY NothingOwed, ForgetsLines DEF Resets, Lines, Pending

LEMMA ProgramsKept ==
  ASSUME TypeOK, ProgramsGrow
  PROVE  /\ programs' \in Seq(Program) /\ Len(programs) \in Nat /\ ran \in 0..Len(programs)
         /\ \A i \in 1..Len(programs) : i \in DOMAIN programs' /\ programs'[i] = programs[i]
<1>1. programs \in Seq(Program) /\ Len(programs) \in Nat /\ ran \in 0..Len(programs)
  BY DEF TypeOK
<1>2. CASE programs' = programs
  BY <1>1, <1>2
<1>3. ASSUME NEW p \in Program, programs' = Append(programs, p)
      PROVE  /\ programs' \in Seq(Program)
             /\ \A i \in 1..Len(programs) : i \in DOMAIN programs' /\ programs'[i] = programs[i]
  BY <1>1, <1>3
<1>. QED
  BY <1>1, <1>2, <1>3 DEF ProgramsGrow

\* What a program prints when it is run.
LEMMA RunAdds ==
  ASSUME TypeOK, RunProgram
  PROVE  \E k \in 0..MaxFrames :
           /\ Lines' = Lines \cup Held'
           /\ \A l \in Held' : l \in Line /\ l.from = ran + 1 /\ l.of = k /\ l.turn = turn /\ l.nth <= k
           /\ \A l \in Held' : l.nth < k => Following(l) \in Held'
           /\ k > 0 => \E l \in Held' : l.from = ran + 1
           /\ k \in Prints(programs[ran + 1])
           /\ match' = IF programs[ran + 1] = 0 THEN k = 1 ELSE match
<1>1. PICK k \in 0..MaxFrames :
        /\ outbox' \in Seq(Line) /\ DOMAIN outbox' = 1..k
        /\ \A i \in 1..k : outbox'[i] = [from |-> ran + 1, nth |-> i, of |-> k, turn |-> turn]
        /\ k \in Prints(programs[ran + 1])
        /\ match' = IF programs[ran + 1] = 0 THEN k = 1 ELSE match
  BY ProgramRun, Zenon
<1>2. Lines' = Lines \cup Held'
  BY RunLines DEF Lines, Pending
<1>3. \A l \in Held' : l \in Line /\ l.from = ran + 1 /\ l.of = k /\ l.turn = turn /\ l.nth <= k
  BY <1>1 DEF Held
<1>4. ASSUME NEW l \in Held', l.nth < k PROVE Following(l) \in Held'
  <2>1. PICK i \in 1..k : l = outbox'[i]
    BY <1>1 DEF Held
  <2>2. i + 1 \in 1..k /\ Following(l) = outbox'[i + 1]
    BY <1>1, <1>4, <2>1 DEF Following
  <2>. QED
    BY <1>1, <2>2 DEF Held
<1>5. k > 0 => outbox'[1] \in Held' /\ outbox'[1].from = ran + 1
  BY <1>1 DEF Held
<1>. QED
  BY <1>1, <1>2, <1>3, <1>4, <1>5

LEMMA PrintedKept ==
  ASSUME TypeOK, Requests, InOrder, Printed, [Next]_vars
  PROVE  Printed'
<1>1. CASE RunProgram
  <2>1. PICK k \in 0..MaxFrames :
          /\ Lines' = Lines \cup Held'
          /\ \A l \in Held' : l \in Line /\ l.from = ran + 1 /\ l.of = k /\ l.turn = turn /\ l.nth <= k
          /\ \A l \in Held' : l.nth < k => Following(l) \in Held'
    BY <1>1, RunAdds, Zenon
  <2>2. ran' = ran + 1 /\ ran \in Nat
    BY <1>1 DEF RunProgram, TypeOK
  <2>3. \A l \in Lines : l.from \in 1..ran
    BY DEF Printed
  <2>. QED
    BY <2>1, <2>2, <2>3 DEF Printed
<1>2. CASE NewConnection \/ Resets
  <2>1. Lines' = {}
    BY <1>2, NewLines, ResetLines
  <2>. QED
    BY <2>1 DEF Printed
<1>3. CASE GoesOn
  <2>1. ran' = ran
    BY <1>3 DEF GoesOn
  <2>2. CASE Lines' = Lines
    BY <2>1, <2>2 DEF Printed
  <2>3. CASE Lines' = Pending
    <3>1. Pending \subseteq Lines
      BY DEF Lines
    <3>2. ASSUME NEW l \in Pending, l.nth < l.of PROVE Following(l) \in Pending
      <4>1. Following(l) \in Lines
        BY <3>1, <3>2 DEF Printed
      <4>2. l \in Line
        BY <3>1, LinesTyped
      <4>3. Following(l).from = l.from /\ Following(l).nth = l.nth + 1 /\ l.nth \in Int /\ l.from \in Int
        BY <4>2 DEF Following, Line
      <4>4. Following(l) \notin Got
        BY <4>3 DEF InOrder, Prior
      <4>. QED
        BY <4>1, <4>4 DEF Lines
    <3>. QED
      BY <2>1, <2>3, <3>1, <3>2 DEF Printed
  <2>. QED
    BY <1>3, <2>2, <2>3, LinesKept
<1>. QED
  BY <1>1, <1>2, <1>3, Effects

-----------------------------------------------------------------------------
(* A part follows the header of its read.                                  *)

LEMMA SequencedKept ==
  ASSUME TypeOK, Requests, Sequenced, [Next]_vars
  PROVE  Sequenced'
<1>1. CASE UNCHANGED programs
  BY <1>1 DEF Sequenced
<1>2. ASSUME NEW p \in {0} \cup Kind, programs' = <<p>> \/ programs' = Append(programs, p)
      PROVE  Sequenced'
  <2>1. p \notin 1..Parts
    BY <1>2
  <2>2. CASE programs' = <<p>>
    BY <2>1, <2>2 DEF Sequenced
  <2>3. CASE programs' = Append(programs, p)
    <3>1. /\ DOMAIN programs' = 1..Len(programs) + 1 /\ Len(programs) \in Nat /\ DOMAIN programs = 1..Len(programs)
          /\ programs'[Len(programs) + 1] = p /\ \A i \in 1..Len(programs) : programs'[i] = programs[i]
      BY <2>3 DEF TypeOK
    <3>2. ASSUME NEW i \in 1..Len(programs), NEW q \in 1..Parts, programs[i] = q
          PROVE  q < i /\ \A d \in 0..q : programs'[i - d] = q - d
      <4>1. q < i /\ \A d \in 0..q : programs[i - d] = q - d
        BY <3>1, <3>2 DEF Sequenced
      <4>2. \A d \in 0..q : i - d \in 1..Len(programs)
        BY <4>1
      <4>. QED
        BY <3>1, <4>1, <4>2
    <3>. QED
      BY <2>1, <3>1, <3>2 DEF Sequenced
  <2>. QED
    BY <1>2, <2>2, <2>3
<1>3. CASE NextPart
  <2>1. /\ programs' = Append(programs, LastSent + 1) /\ LastSent \in 0..Parts /\ programs \in Seq(Program)
        /\ Len(programs) \in Nat \ {0} /\ LastSent = programs[Len(programs)]
    BY <1>3 DEF NextPart, Requests, TypeOK, LastSent, Reading
  <2>2. ASSUME NEW i \in DOMAIN programs, NEW p \in 1..Parts, programs'[i] = p
        PROVE  p < i /\ \A q \in 0..p : programs'[i - q] = p - q
    <3>1. i \in 1..Len(programs) /\ \A j \in 1..Len(programs) : programs'[j] = programs[j]
      BY <2>1
    <3>2. p < i /\ \A q \in 0..p : programs[i - q] = p - q
      BY <2>2, <3>1 DEF Sequenced
    <3>3. \A q \in 0..p : i - q \in 1..Len(programs)
      BY <3>1, <3>2
    <3>. QED
      BY <3>1, <3>2, <3>3
  <2>3. ASSUME NEW p \in 1..Parts, p = LastSent + 1
        PROVE  p < Len(programs) + 1 /\ \A q \in 0..p : programs'[Len(programs) + 1 - q] = p - q
    <3>1. LastSent # 0 => LastSent < Len(programs)
                          /\ \A q \in 0..LastSent : programs[Len(programs) - q] = LastSent - q
      <4>1. Len(programs) \in DOMAIN programs
        BY <2>1
      <4>2. LastSent # 0 => LastSent \in 1..Parts
        BY <2>1
      <4>. QED
        BY <2>1, <4>1, <4>2 DEF Sequenced
    <3>2. \A q \in 0..LastSent : programs[Len(programs) - q] = LastSent - q /\ LastSent < Len(programs)
      BY <2>1, <3>1
    <3>3. ASSUME NEW q \in 1..p PROVE programs'[Len(programs) + 1 - q] = p - q
      <4>1. q - 1 \in 0..LastSent /\ Len(programs) + 1 - q \in 1..Len(programs)
        BY <2>1, <2>3, <3>2
      <4>2. programs'[Len(programs) + 1 - q] = programs[Len(programs) - (q - 1)]
        BY <2>1, <4>1
      <4>. QED
        BY <2>1, <2>3, <3>2, <4>1, <4>2
    <3>. QED
      BY <2>1, <2>3, <3>2, <3>3
  <2>4. DOMAIN programs' = DOMAIN programs \cup {Len(programs) + 1} /\ programs'[Len(programs) + 1] = LastSent + 1
    BY <2>1
  <2>. QED
    BY <2>2, <2>3, <2>4 DEF Sequenced
<1>4. CASE NewConnection
  BY <1>4 DEF NewConnection, Sequenced
<1>5. CASE Watch \/ ReadState \/ (\E k \in Kind : BeginCommand(k)) \/ Submit \/ Poll
  BY <1>2, <1>5 DEF Watch, ReadState, BeginCommand, Submit, Poll, Start, TypeOK
<1>6. CASE Game \/ UNCHANGED vars
  BY <1>1, <1>6 DEF Game, RunProgram, SendOutput, Acknowledge, AnnounceClosing, NextTurn, vars
<1>7. CASE \/ Receive \/ Deadline \/ ReturnState \/ FailRead
           \/ TakeResponse \/ FailResponse \/ EndCommand \/ ConnectionEnds
  BY <1>1, <1>7 DEF Receive, Deadline, ReturnState, FailRead, TakeResponse, FailResponse, EndCommand, ConnectionEnds
<1>8. CASE Reconnect \/ Restart
  BY <1>4, <1>8 DEF Reconnect, Restart
<1>. QED
  BY <1>3, <1>5, <1>6, <1>7, <1>8 DEF Next, Client

PassedNext(h) == (\E l \in Lines' : l.from = h) \/ (\A l \in Lines' : l.from >= h)

LEMMA PassedStays ==
  ASSUME TypeOK, InOrder, NEW h \in Int, HeaderPassed(h),
         \/ Lines' = Lines
         \/ Lines' = Pending
         \/ Lines \subseteq Lines' /\ \A l \in Lines' \ Lines : l.from >= h
  PROVE  PassedNext(h)
<1>1. CASE Lines' = Lines
  BY <1>1 DEF HeaderPassed, PassedNext
<1>2. CASE Lines' = Pending
  <2>1. ASSUME NEW l \in Got, l.from = h PROVE \A m \in Pending : m.from >= h
    <3> SUFFICES ASSUME NEW m \in Pending PROVE m.from >= h
      OBVIOUS
    <3>1. m \in Line /\ l \in Line /\ Prior(l, m)
      BY LinesTyped DEF InOrder, Lines
    <3>. QED
      BY <2>1, <3>1 DEF Prior, Line
  <2>2. Pending \subseteq Lines
    BY DEF Lines
  <2>. QED
    BY <1>2, <2>1, <2>2 DEF HeaderPassed, PassedNext, Lines
<1>3. CASE Lines \subseteq Lines' /\ \A l \in Lines' \ Lines : l.from >= h
  BY <1>3 DEF HeaderPassed, PassedNext
<1>. QED
  BY <1>1, <1>2, <1>3

LEMMA HeadedNext ==
  ASSUME \A l \in Lines' : programs'[l.from] \in 1..Parts => PassedNext(l.from - programs'[l.from]),
         match' => \A h \in 1..ran' :
           programs'[h] = 0 /\ (\A i \in h + 1..ran' : programs'[i] # 0) => PassedNext(h)
  PROVE  Headed'
BY DEF Headed, HeaderPassed, PassedNext, Of

\* When a part is run, its header is the last that was run.
LEMMA HeaderOfPart ==
  ASSUME TypeOK, Sequenced, NEW i \in DOMAIN programs, programs[i] \in 1..Parts
  PROVE  /\ i - programs[i] \in 1..i - 1 /\ programs[i - programs[i]] = 0
         /\ \A j \in i - programs[i] + 1..i - 1 : programs[j] # 0
<1>1. i \in Nat \ {0}
  BY DEF TypeOK
<1> DEFINE p == programs[i]
<1>2. p \in 1..Parts /\ p < i /\ \A q \in 0..p : programs[i - q] = p - q
  BY DEF Sequenced
<1> HIDE DEF p
<1>3. i - p \in 1..i - 1 /\ programs[i - p] = 0
  BY <1>1, <1>2
<1>4. ASSUME NEW j \in i - p + 1..i - 1 PROVE programs[j] # 0
  <2>1. i - j \in 0..p /\ i - (i - j) = j /\ p - (i - j) # 0
    BY <1>1, <1>2
  <2>2. programs[i - (i - j)] = p - (i - j)
    BY <1>2, <2>1
  <2>. QED
    BY <2>1, <2>2
<1>. QED
  BY <1>3, <1>4 DEF p

\* The header of a line that is part of a read.
LEMMA HeaderOfLine ==
  ASSUME TypeOK, Printed, Sequenced, Headed, NEW l \in Lines, programs[l.from] \in 1..Parts
  PROVE  l.from - programs[l.from] \in 1..ran /\ HeaderPassed(l.from - programs[l.from])
<1>1. l.from \in 1..ran /\ l.from \in DOMAIN programs /\ ran \in Nat
  BY DEF Printed, TypeOK
<1>2. l.from - programs[l.from] \in 1..l.from - 1
  BY <1>1, HeaderOfPart
<1>3. HeaderPassed(l.from - programs[l.from])
  BY DEF Headed, Of
<1>. QED
  BY <1>1, <1>2, <1>3

LEMMA HeadedByRun ==
  ASSUME TypeOK, InOrder, Printed, Sequenced, Headed, RunProgram
  PROVE  Headed'
<1>1. PICK k \in 0..MaxFrames :
        /\ Lines' = Lines \cup Held'
        /\ \A l \in Held' : l \in Line /\ l.from = ran + 1 /\ l.nth <= k
        /\ k > 0 => \E l \in Held' : l.from = ran + 1
        /\ k \in Prints(programs[ran + 1])
        /\ match' = IF programs[ran + 1] = 0 THEN k = 1 ELSE match
  BY RunAdds, Zenon
<1>2. ran' = ran + 1 /\ ran \in Nat /\ ran + 1 \in DOMAIN programs /\ programs' = programs
  BY DEF RunProgram, TypeOK
<1>3. ASSUME NEW h \in 1..ran + 1, HeaderPassed(h) PROVE PassedNext(h)
  <2>1. Lines \subseteq Lines' /\ \A l \in Lines' \ Lines : l.from >= h
    BY <1>1, <1>2
  <2>. QED
    BY <1>3, <2>1, PassedStays
<1>4. ASSUME NEW l \in Lines, programs[l.from] \in 1..Parts
      PROVE  PassedNext(l.from - programs[l.from])
  <2>1. l.from - programs[l.from] \in 1..ran + 1 /\ HeaderPassed(l.from - programs[l.from])
    BY <1>2, <1>4, HeaderOfLine
  <2>. QED
    BY <1>3, <2>1
<1>5. CASE programs[ran + 1] \in 1..Parts
  <2> DEFINE h == ran + 1 - programs[ran + 1]
  <2>1. h \in 1..ran /\ programs[h] = 0 /\ \A j \in h + 1..ran : programs[j] # 0
    <3>1. ran + 1 - 1 = ran
      BY <1>2
    <3>. QED
      BY <1>2, <1>5, <3>1, HeaderOfPart
  <2>2. match' = match /\ (k > 0 => match)
    BY <1>1, <1>5 DEF Prints
  <2>3. match => PassedNext(h)
    <3>1. match => HeaderPassed(h)
      BY <2>1 DEF Headed
    <3>2. h \in 1..ran + 1
      BY <1>2, <2>1
    <3> HIDE DEF h
    <3>. QED
      BY <1>3, <3>1, <3>2
  <2>4. \A l \in Held' : match /\ l.from - programs[l.from] = h
    <3> SUFFICES ASSUME NEW l \in Held' PROVE match /\ l.from - programs[l.from] = h
      OBVIOUS
    <3>1. k > 0 /\ l.from = ran + 1
      BY <1>1 DEF Line
    <3>2. match
      BY <2>2, <3>1
    <3>3. l.from - programs[l.from] = h
      BY <1>2, <1>5, <3>1 DEF h
    <3>. QED
      BY <3>2, <3>3
  <2>5. \A g \in 1..ran + 1 : programs[g] = 0 /\ (\A i \in g + 1..ran + 1 : programs[i] # 0) => g = h
    BY <1>2, <1>5, <2>1
  <2> HIDE DEF h
  <2>6. \A l \in Lines' : programs'[l.from] \in 1..Parts => PassedNext(l.from - programs'[l.from])
    BY <1>1, <1>2, <1>4, <2>3, <2>4
  <2>7. match' => \A g \in 1..ran' :
          programs'[g] = 0 /\ (\A i \in g + 1..ran' : programs'[i] # 0) => PassedNext(g)
    BY <1>2, <2>2, <2>3, <2>5
  <2>. QED
    BY <2>6, <2>7, HeadedNext
<1>6. CASE programs[ran + 1] \notin 1..Parts
  <2>1. \A l \in Lines' : programs'[l.from] \in 1..Parts => PassedNext(l.from - programs'[l.from])
    BY <1>1, <1>2, <1>4, <1>6
  <2>2. ASSUME NEW g \in 1..ran + 1, match', programs[g] = 0, \A i \in g + 1..ran + 1 : programs[i] # 0
        PROVE  PassedNext(g)
    <3>1. CASE programs[ran + 1] = 0
      <4>1. k = 1
        BY <1>1, <2>2, <3>1
      <4>2. g = ran + 1
        BY <1>2, <2>2, <3>1
      <4>. QED
        BY <1>1, <4>1, <4>2 DEF PassedNext
    <3>2. CASE programs[ran + 1] # 0
      <4>1. match /\ g \in 1..ran /\ \A i \in g + 1..ran : programs[i] # 0
        BY <1>1, <1>2, <2>2, <3>2
      <4>. QED
        BY <1>3, <2>2, <4>1 DEF Headed
    <3>. QED
      BY <3>1, <3>2
  <2>. QED
    BY <1>2, <2>1, <2>2, HeadedNext
<1>. QED
  BY <1>5, <1>6

LEMMA HeadedKept ==
  ASSUME TypeOK, Requests, InOrder, Printed, Sequenced, Headed, [Next]_vars
  PROVE  Headed'
<1>1. CASE NewConnection \/ Resets
  <2>1. Lines' = {} /\ ran' = 0
    BY <1>1, NewLines, ResetLines DEF NewConnection, Resets
  <2>. QED
    BY <2>1, HeadedNext
<1>2. CASE GoesOn
  <2>1. /\ ran' = ran /\ match' = match /\ ran \in Nat
        /\ \A i \in 1..ran : programs'[i] = programs[i]
    <3>1. ran' = ran /\ match' = match /\ ProgramsGrow /\ ran \in Nat /\ ran <= Len(programs)
      BY <1>2 DEF GoesOn, TypeOK
    <3>. QED
      BY <3>1, ProgramsKept
  <2>2. Lines' = Lines \/ Lines' = Pending
    BY <1>2, LinesKept
  <2>3. Lines' \subseteq Lines /\ \A l \in Lines : l.from \in 1..ran
    BY <2>2 DEF Lines, Printed
  <2>4. ASSUME NEW h \in 1..ran, HeaderPassed(h) PROVE PassedNext(h)
    BY <2>2, <2>4, PassedStays
  <2>5. ASSUME NEW l \in Lines', programs'[l.from] \in 1..Parts
        PROVE  PassedNext(l.from - programs'[l.from])
    <3>1. l \in Lines /\ programs'[l.from] = programs[l.from]
      BY <2>1, <2>3
    <3>2. l.from - programs[l.from] \in 1..ran /\ HeaderPassed(l.from - programs[l.from])
      BY <2>5, <3>1, HeaderOfLine
    <3>. QED
      BY <2>4, <3>1, <3>2
  <2>6. ASSUME match', NEW h \in 1..ran', programs'[h] = 0, \A i \in h + 1..ran' : programs'[i] # 0
        PROVE  PassedNext(h)
    <3>1. match /\ h \in 1..ran /\ programs[h] = 0 /\ \A i \in h + 1..ran : programs[i] # 0
      BY <2>1, <2>6
    <3>. QED
      BY <2>4, <3>1 DEF Headed
  <2>. QED
    BY <2>5, <2>6, HeadedNext
<1>. QED
  BY <1>1, <1>2, HeadedByRun, Effects

-----------------------------------------------------------------------------
(* What is sent belongs to a request.                                      *)

\* The announcement of the game is its last frame.
LEMMA ClosingLast ==
  ASSUME TypeOK, Requests, [Next]_vars
  PROVE  \A i \in DOMAIN stream' : stream'[i].tag = "closing" => i = Len(stream')
<1>1. CASE UNCHANGED stream
  BY <1>1 DEF Requests
<1>2. ASSUME ~Closing, NEW f \in Frame, stream' = Append(stream, f)
      PROVE  \A i \in DOMAIN stream' : stream'[i].tag = "closing" => i = Len(stream')
  <2>1. /\ DOMAIN stream' = 1..Len(stream) + 1 /\ Len(stream') = Len(stream) + 1 /\ Len(stream) \in Nat
        /\ \A i \in 1..Len(stream) : stream'[i] = stream[i] /\ i \in DOMAIN stream
    BY <1>2 DEF TypeOK
  <2>. QED
    BY <1>2, <2>1 DEF Closing
<1>3. CASE SendOutput
  <2>1. ~Closing
    BY <1>3 DEF SendOutput
  <2> DEFINE f == [tag |-> "output", line |-> Head(outbox)]
  <2>2. f \in Frame /\ stream' = Append(stream, f)
    BY <1>3, OutputSent
  <2> HIDE DEF f
  <2>. QED
    BY <1>2, <2>1, <2>2
<1>4. CASE Acknowledge \/ AnnounceClosing
  BY <1>2, <1>4 DEF Acknowledge, AnnounceClosing, Frame
<1>5. CASE Receive
  BY <1>5, FrameRead DEF Receive, Requests
<1>6. CASE NewConnection
  BY <1>6 DEF NewConnection
<1>7. CASE Watch \/ ReadState \/ (\E k \in Kind : BeginCommand(k)) \/ Submit \/ Poll
  BY <1>1, <1>7 DEF Watch, ReadState, BeginCommand, Submit, Poll, Start
<1>8. CASE RunProgram \/ NextTurn \/ UNCHANGED vars
  BY <1>1, <1>8 DEF RunProgram, NextTurn, vars, wire
<1>9. CASE \/ Deadline \/ NextPart \/ ReturnState \/ FailRead
           \/ TakeResponse \/ FailResponse \/ EndCommand \/ ConnectionEnds
  BY <1>1, <1>9 DEF Deadline, NextPart, ReturnState, FailRead, TakeResponse, FailResponse, EndCommand, ConnectionEnds, wire
<1>10. CASE Reconnect \/ Restart
  BY <1>6, <1>10 DEF Reconnect, Restart
<1>. QED
  BY <1>3, <1>4, <1>5, <1>7, <1>8, <1>9, <1>10 DEF Next, Game, Client

\* A request that starts, with room for what it sends.
LEMMA StartRoom ==
  ASSUME TypeOK, NEW what, NEW k, NEW m, NEW p \in Program, Start(what, k, p, m),
         \/ what \in Reading /\ p = 0 /\ m \in {Parts + 1, Parts + 2}
         \/ what = "ask" /\ p \in Kind /\ m = 1
  PROVE  /\ programs' \in Seq(Program) /\ programs' # <<>> /\ LastSent' = p /\ Len(programs') \in 1..MaxProgram
         /\ what \in Reading => Len(programs') + Parts <= MaxProgram
         /\ ran' \in 0..Len(programs') /\ acked' \in 0..Len(programs')
<1>1. /\ programs \in Seq(Program) /\ Len(programs) \in Nat /\ ran \in 0..Len(programs) /\ acked \in 0..Len(programs)
      /\ Parts \in Nat \ {0} /\ MaxProgram \in Nat /\ MaxProgram >= Parts + 2
  BY DEF TypeOK
<1>2. CASE Owed /\ Len(programs) + m <= MaxProgram /\ programs' = Append(programs, p) /\ UNCHANGED <<ran, acked>>
  <2>1. programs' \in Seq(Program) /\ Len(programs') = Len(programs) + 1 /\ programs'[Len(programs')] = p
    BY <1>1, <1>2
  <2>2. LastSent' = p
    BY <2>1 DEF LastSent
  <2>3. programs' # <<>> /\ Len(programs') \in 1..MaxProgram
    BY <1>1, <1>2, <2>1
  <2>4. what \in Reading => Len(programs') + Parts <= MaxProgram
    BY <1>1, <1>2, <2>1 DEF Reading
  <2>5. ran' \in 0..Len(programs') /\ acked' \in 0..Len(programs')
    BY <1>1, <1>2, <2>1
  <2>. QED
    BY <2>1, <2>2, <2>3, <2>4, <2>5
<1>3. CASE programs' = <<p>> /\ ran' = 0 /\ acked' = 0
  <2>1. programs' \in Seq(Program) /\ Len(programs') = 1 /\ programs'[1] = p
    BY <1>3
  <2>. QED
    BY <1>1, <1>3, <2>1 DEF LastSent
<1>. QED
  BY <1>2, <1>3 DEF Start

LEMMA RequestsKept ==
  ASSUME TypeOK, Requests, [Next]_vars
  PROVE  Requests'
<1> DEFINE Room == /\ doing \in {"none", "ready", "verify"} => step = "send"
                   /\ step = "send" => ~seen
                   /\ doing \notin {"none", "ready", "verify"} => programs # <<>>
                   /\ doing \in Reading =>
                        LastSent \in 0..Parts /\ Len(programs) + Parts - LastSent <= MaxProgram
<1> SUFFICES Room'
  BY ClosingLast DEF Requests
<1>1. Room
  BY DEF Requests
<1>2. CASE UNCHANGED <<doing, step, seen, programs>>
  <2>1. LastSent' = LastSent
    BY <1>2 DEF LastSent
  <2>. QED
    BY <1>1, <1>2, <2>1
<1>3. CASE Watch \/ ReadState \/ (\E k \in Kind : BeginCommand(k)) \/ Submit \/ Poll
  <2>1. PICK what, k, m : \E p \in Program :
           /\ Start(what, k, p, m)
           /\ \/ what \in Reading /\ p = 0 /\ m \in {Parts + 1, Parts + 2}
              \/ what = "ask" /\ p = kind /\ p \in Kind /\ m = 1
    BY <1>3, Requested, Zenon
  <2>2. PICK p \in Program :
           /\ Start(what, k, p, m)
           /\ \/ what \in Reading /\ p = 0 /\ m \in {Parts + 1, Parts + 2}
              \/ what = "ask" /\ p \in Kind /\ m = 1
    BY <2>1
  <2>3. /\ programs' # <<>> /\ LastSent' = p /\ Len(programs') \in 1..MaxProgram
        /\ what \in Reading => Len(programs') + Parts <= MaxProgram
    BY <2>2, StartRoom, Zenon
  <2>4. doing' = what /\ step' = "collect"
    BY <2>2 DEF Start
  <2>. QED
    BY <2>2, <2>3, <2>4 DEF Reading
<1>4. CASE NextPart
  <2>1. /\ programs' = Append(programs, LastSent + 1) /\ doing' = doing /\ doing \in Reading /\ step' = "collect"
        /\ LastSent < Parts
    BY <1>4 DEF NextPart
  <2>2. Len(programs') = Len(programs) + 1 /\ programs'[Len(programs')] = LastSent + 1 /\ Len(programs) \in Nat
    BY <2>1 DEF TypeOK
  <2>3. LastSent' = LastSent + 1
    BY <2>2 DEF LastSent
  <2>. QED
    BY <1>1, <2>1, <2>2, <2>3 DEF Reading
<1>5. CASE NewConnection
  BY <1>5 DEF NewConnection, Idle, EndCollect, Reading
<1>6. CASE Receive \/ Deadline
  <2>1. programs' = programs /\ doing' = doing /\ doing \notin {"none", "ready", "verify"}
    BY <1>1, <1>6 DEF Receive, Deadline
  <2>2. step' = "send" => ~seen'
    BY <1>1, <1>6 DEF Receive, Deadline, EndCollect
  <2>3. LastSent' = LastSent
    BY <2>1 DEF LastSent
  <2>. QED
    BY <1>1, <2>1, <2>2, <2>3
<1>7. CASE ReturnState \/ FailRead \/ TakeResponse \/ FailResponse \/ EndCommand \/ ConnectionEnds
  <2>1. doing' \in {"none", "ready", "verify"}
    BY <1>7 DEF ReturnState, FailRead, TakeResponse, FailResponse, EndCommand, ConnectionEnds, Idle, Continue, After
  <2>2. step' = "send" /\ ~seen'
    BY <1>1, <1>7 DEF ReturnState, FailRead, TakeResponse, FailResponse, EndCommand, ConnectionEnds, EndCollect,
                      ReadComplete, ReturnsState, ReturnsResponse
  <2>. QED
    BY <2>1, <2>2 DEF Reading
<1>8. CASE Reconnect \/ Restart
  BY <1>5, <1>8 DEF Reconnect, Restart
<1>9. CASE Game \/ UNCHANGED vars
  BY <1>2, <1>9 DEF Game, RunProgram, SendOutput, Acknowledge, AnnounceClosing, NextTurn, vars, client
<1>. QED
  BY <1>3, <1>4, <1>6, <1>7, <1>8, <1>9 DEF Next, Client

-----------------------------------------------------------------------------
(* As long as every answer came in time, what comes is the request's own.  *)

\* Without a program of its own, the connection owes nothing but its end.
LEMMA NothingComes ==
  ASSUME TypeOK, OnlyLastOwed, step = "send"
  PROVE  /\ Outputs = {} /\ Sent = {} /\ \A i \in DOMAIN stream : stream[i].tag # "ack"
         /\ Owed => Closing
         /\ ~Closing => ran = Len(programs) /\ acked = Len(programs) /\ Held = {}
<1>1. \A i \in DOMAIN stream : stream[i].tag = "closing"
  BY DEF OnlyLastOwed
<1>2. Outputs = {} /\ Sent = {}
  BY <1>1 DEF Outputs, Sent
<1>3. ASSUME ~Closing PROVE ran = Len(programs) /\ acked = Len(programs) /\ outbox = <<>> /\ stream = <<>>
  <2>1. DOMAIN stream = {}
    BY <1>1, <1>3 DEF Closing
  <2>2. stream = <<>>
    BY <2>1 DEF TypeOK
  <2>. QED
    BY <1>3, <2>2 DEF OnlyLastOwed
<1>4. ~Closing => Held = {}
  BY <1>3 DEF Held
<1>5. Owed => Closing
  BY <1>3 DEF Owed, TypeOK
<1>. QED
  BY <1>1, <1>2, <1>3, <1>4, <1>5

\* A request that begins, and a program sent within it: nothing else is to come.
LEMMA PromptSend ==
  ASSUME step' = "collect", ~seen',
         Outputs = {}, \A i \in DOMAIN stream : stream[i].tag # "ack",
         stream' = stream, outbox' = outbox, ran' \in Int, acked' \in Int, Len(programs') \in Int,
         \/ Closing
         \/ Held = {} /\ Len(programs') - 1 = ran' /\ Len(programs') - 1 = acked'
  PROVE  OnlyLastOwed' /\ AckInPlace'
<1>1. Outputs' = {} /\ Sent' = {} /\ (Closing' <=> Closing) /\ Held' = Held
  BY DEF Outputs, Sent, Closing, Held
<1>2. OnlyLastOwed'
  BY <1>1 DEF OnlyLastOwed
<1>3. AckInPlace'
  BY DEF AckInPlace
<1>. QED
  BY <1>2, <1>3

LEMMA PromptRun ==
  ASSUME TypeOK, OnlyLastOwed, AckInPlace, RunProgram
  PROVE  OnlyLastOwed' /\ AckInPlace'
<1>1. /\ ~Closing /\ ran < Len(programs) /\ ran' = ran + 1 /\ UNCHANGED <<programs, acked, stream, step, seen>>
  BY DEF RunProgram, client
<1>2. Outputs' = Outputs /\ Sent' = Sent /\ Closing' = Closing
  BY <1>1 DEF Outputs, Sent, Closing
<1>3. step = "collect" /\ ran \in Int /\ Len(programs) \in Int /\ acked \in Int
  BY <1>1 DEF OnlyLastOwed, TypeOK
<1>4. ran = Len(programs) - 1
  BY <1>1, <1>3 DEF OnlyLastOwed
<1>5. \A l \in Held' : l.from = Len(programs)
  BY <1>3, <1>4, RunAdds
<1>6. OnlyLastOwed'
  BY <1>1, <1>2, <1>3, <1>4, <1>5 DEF OnlyLastOwed
<1>7. ~seen /\ \A i \in DOMAIN stream : stream[i].tag = "ack" =>
                 /\ acked = Len(programs) /\ \A j \in Outputs : j > i
                 /\ \A j \in DOMAIN stream : stream[j].tag = "ack" => j = i
  BY <1>1, <1>3, <1>4 DEF AckInPlace
<1>8. AckInPlace'
  BY <1>1, <1>2, <1>7 DEF AckInPlace
<1>. QED
  BY <1>6, <1>8

LEMMA PromptOutput ==
  ASSUME TypeOK, OnlyLastOwed, AckInPlace, SendOutput
  PROVE  OnlyLastOwed' /\ AckInPlace'
<1> DEFINE f == [tag |-> "output", line |-> Head(outbox)]
<1>1. /\ ~Closing /\ outbox # <<>> /\ UNCHANGED <<programs, ran, acked, step, seen>>
  BY DEF SendOutput, client
<1>2. /\ Held = Held' \cup {Head(outbox)} /\ f.tag = "output"
      /\ stream' = Append(stream, f) /\ f \in Frame
      /\ Sent' = Sent \cup {Head(outbox)} /\ Outputs' = Outputs \cup {Len(stream) + 1}
  BY OutputSent
<1>3. step = "collect" /\ \A l \in Held : l.from = Len(programs)
  BY <1>1 DEF OnlyLastOwed, TypeOK
<1> HIDE DEF f
<1>4. /\ DOMAIN stream' = 1..Len(stream) + 1 /\ DOMAIN stream = 1..Len(stream) /\ Len(stream) \in Nat
      /\ stream'[Len(stream) + 1] = f /\ \A i \in 1..Len(stream) : stream'[i] = stream[i]
  BY <1>2, FrameAppended DEF TypeOK
<1>5. ~Closing'
  BY <1>1, <1>2, <1>4 DEF Closing
<1>6. OnlyLastOwed'
  BY <1>1, <1>2, <1>3, <1>5 DEF OnlyLastOwed
<1>7. \A k \in DOMAIN stream : stream[k].tag = "ack" =>
        /\ acked = Len(programs) /\ ~seen /\ \A i \in Outputs : i > k
        /\ \A i \in DOMAIN stream : stream[i].tag = "ack" => i = k
  BY <1>1, <1>3 DEF AckInPlace
<1>8. seen => ran = Len(programs)
  BY <1>3 DEF AckInPlace
<1>9. \A k \in DOMAIN stream' : stream'[k].tag = "ack" => k \in DOMAIN stream /\ stream[k].tag = "ack" /\ k < Len(stream) + 1
  BY <1>2, <1>4
<1>10. AckInPlace'
  BY <1>1, <1>2, <1>7, <1>8, <1>9 DEF AckInPlace
<1>. QED
  BY <1>6, <1>10

\* An acknowledgement comes after all of the output, or before any of it.
LEMMA PromptAck ==
  ASSUME TypeOK, Printed, OnlyLastOwed, AckInPlace, Acknowledge
  PROVE  OnlyLastOwed' /\ AckInPlace'
<1> DEFINE f == [tag |-> "ack"]
<1>1. /\ ~Closing /\ acked < Len(programs) /\ (outbox # <<>> => acked + 1 # ran) /\ acked' = acked + 1
      /\ stream' = Append(stream, f) /\ f \in Frame /\ f.tag = "ack"
      /\ UNCHANGED <<programs, ran, outbox, step, seen>>
  BY DEF Acknowledge, client, Frame
<1> HIDE DEF f
<1>2. /\ DOMAIN stream' = 1..Len(stream) + 1 /\ DOMAIN stream = 1..Len(stream) /\ Len(stream) \in Nat
      /\ stream'[Len(stream) + 1] = f /\ \A i \in 1..Len(stream) : stream'[i] = stream[i]
      /\ Outputs' = Outputs /\ Sent' = Sent /\ \A i \in Outputs : i < Len(stream) + 1
  BY <1>1, FrameAppended DEF TypeOK, Outputs
<1>3. ~Closing' /\ Held' = Held
  BY <1>1, <1>2 DEF Closing, Held
<1>4. /\ step = "collect" /\ acked = Len(programs) - 1 /\ ran \in Int /\ Len(programs) \in Int
      /\ ran <= Len(programs) /\ Len(programs) - 1 <= ran
  BY <1>1 DEF OnlyLastOwed, TypeOK
<1>5. OnlyLastOwed'
  BY <1>1, <1>2, <1>3, <1>4 DEF OnlyLastOwed
<1>6. \A k \in DOMAIN stream : stream[k].tag # "ack"
  BY <1>4 DEF AckInPlace
<1>7. outbox = <<>>
  <2>1. outbox # <<>> => outbox[1] \in Held
    BY DEF TypeOK, Held
  <2>2. \A l \in Held : l.from = Len(programs) /\ l.from <= ran
    BY <1>1, <1>4 DEF OnlyLastOwed, Printed, Lines, Pending
  <2>. QED
    BY <1>1, <1>4, <2>1, <2>2
<1>8. ran = Len(programs) \/ (~seen /\ Outputs = {})
  <2>1. Outputs # {} => \E l \in Sent : TRUE
    BY DEF Sent
  <2>2. \A l \in Sent : l.from = Len(programs) /\ l.from <= ran
    BY <1>4 DEF OnlyLastOwed, Printed, Lines, Pending
  <2>3. seen => ran = Len(programs)
    BY <1>4 DEF AckInPlace
  <2>. QED
    BY <1>4, <2>1, <2>2, <2>3
<1>9. \A k \in DOMAIN stream' : stream'[k].tag = "ack" => k = Len(stream) + 1
  BY <1>2, <1>6
<1>10. AckInPlace'
  BY <1>1, <1>2, <1>4, <1>7, <1>8, <1>9 DEF AckInPlace, TypeOK
<1>. QED
  BY <1>5, <1>10

LEMMA PromptClosing ==
  ASSUME TypeOK, OnlyLastOwed, AckInPlace, AnnounceClosing
  PROVE  OnlyLastOwed' /\ AckInPlace'
<1> DEFINE f == [tag |-> "closing"]
<1>1. /\ stream' = Append(stream, f) /\ f \in Frame /\ f.tag = "closing"
      /\ UNCHANGED <<programs, ran, acked, step, seen>>
  BY DEF AnnounceClosing, client, Frame
<1> HIDE DEF f
<1>2. /\ DOMAIN stream' = 1..Len(stream) + 1 /\ DOMAIN stream = 1..Len(stream) /\ Len(stream) \in Nat
      /\ stream'[Len(stream) + 1] = f /\ \A i \in 1..Len(stream) : stream'[i] = stream[i]
      /\ Outputs' = Outputs /\ Sent' = Sent
  BY <1>1, FrameAppended DEF TypeOK
<1>3. Closing'
  BY <1>1, <1>2 DEF Closing
<1>4. OnlyLastOwed'
  BY <1>1, <1>2, <1>3 DEF OnlyLastOwed
<1>5. \A k \in DOMAIN stream' : stream'[k].tag = "ack" => k \in DOMAIN stream /\ stream[k].tag = "ack"
  BY <1>1, <1>2
<1>6. AckInPlace'
  BY <1>1, <1>2, <1>3, <1>5 DEF AckInPlace
<1>. QED
  BY <1>4, <1>6

\* An output is of the last program; an acknowledgement that comes after one ends the answer.
LEMMA PromptReceive ==
  ASSUME TypeOK, Printed, OnlyLastOwed, AckInPlace, Receive
  PROVE  OnlyLastOwed' /\ AckInPlace'
<1>1. /\ step = "collect" /\ stream # <<>> /\ stream' = Tail(stream)
      /\ UNCHANGED <<programs, ran, acked, outbox>>
  BY DEF Receive
<1>2. /\ Head(stream) \in Frame /\ stream[1] = Head(stream)
      /\ DOMAIN stream' = 1..Len(stream) - 1 /\ Len(stream) \in Nat \ {0} /\ DOMAIN stream = 1..Len(stream)
      /\ \A i \in DOMAIN stream' : i + 1 \in 1..Len(stream) /\ stream'[i] = stream[i + 1]
  BY <1>1, FrameRead, Zenon
<1>3. Sent' \subseteq Sent /\ Held' = Held
  BY <1>1, FrameRead DEF Held
<1>4. \A i \in Outputs' : i + 1 \in Outputs
  BY <1>2 DEF Outputs
<1>5. Head(stream).tag # "closing" => (Closing' <=> Closing)
  <2>1. Closing' => Closing
    BY <1>2 DEF Closing
  <2>2. ASSUME Head(stream).tag # "closing", NEW i \in DOMAIN stream, stream[i].tag = "closing" PROVE Closing'
    <3>1. i - 1 \in DOMAIN stream' /\ stream'[i - 1] = stream[i]
      <4>1. i # 1
        BY <1>2, <2>2
      <4>2. i - 1 \in DOMAIN stream' /\ (i - 1) + 1 = i
        BY <1>2, <4>1
      <4>. QED
        BY <1>2, <4>2
    <3>. QED
      BY <2>2, <3>1 DEF Closing
  <2>. QED
    BY <2>1, <2>2 DEF Closing
<1>6. ran \in Int /\ Len(programs) \in Int /\ ran <= Len(programs) /\ acked \in Int
  BY DEF TypeOK
<1>7. CASE Head(stream).tag = "output" /\ seen' = TRUE /\ step' = step
  <2>1. 1 \in Outputs /\ Head(stream).line \in Sent
    BY <1>1, <1>7, FrameRead
  <2>2. ran = Len(programs)
    BY <1>1, <1>6, <2>1 DEF OnlyLastOwed, Printed, Lines, Pending
  <2>3. \A k \in DOMAIN stream : stream[k].tag = "ack" =>
          /\ acked = Len(programs) /\ \A i \in DOMAIN stream : stream[i].tag = "ack" => i = k
          /\ \A i \in Outputs : i < k
          /\ Closing \/ (ran = Len(programs) /\ outbox = <<>>)
    BY <1>1, <1>2, <2>1 DEF AckInPlace
  <2>4. OnlyLastOwed'
    BY <1>1, <1>3, <1>5, <1>7 DEF OnlyLastOwed
  <2>5. ASSUME NEW k \in DOMAIN stream', stream'[k].tag = "ack"
        PROVE  /\ acked' = Len(programs') /\ \A i \in DOMAIN stream' : stream'[i].tag = "ack" => i = k
               /\ \A i \in Outputs' : i < k
               /\ Closing' \/ (ran' = Len(programs') /\ outbox' = <<>>)
    <3>1. k + 1 \in DOMAIN stream /\ stream[k + 1].tag = "ack"
      BY <1>2, <2>5
    <3>2. \A i \in DOMAIN stream' : stream'[i].tag = "ack" => i = k
      BY <1>2, <2>3, <3>1
    <3>3. \A i \in Outputs' : i < k
      <4>1. \A i \in Outputs' : i + 1 < k + 1
        BY <1>4, <2>3, <3>1
      <4>2. \A i \in Outputs' : i \in Int
        BY <1>2 DEF Outputs
      <4>. QED
        BY <1>2, <4>1, <4>2
    <3>. QED
      BY <1>1, <1>5, <1>7, <2>3, <3>1, <3>2, <3>3
  <2>6. AckInPlace'
    BY <1>1, <1>7, <2>2, <2>5 DEF AckInPlace
  <2>. QED
    BY <2>4, <2>6
<1>8. ASSUME Head(stream).tag = "ack"
      PROVE  /\ acked = Len(programs) /\ \A i \in DOMAIN stream' : stream'[i].tag # "ack"
             /\ \/ ~seen
                \/ Outputs' = {} /\ (Closing \/ (ran = Len(programs) /\ outbox = <<>>))
  <2>1. 1 \in DOMAIN stream /\ stream[1].tag = "ack"
    BY <1>2, <1>8
  <2>2. \A i \in DOMAIN stream : stream[i].tag = "ack" => i = 1
    BY <1>1, <2>1 DEF AckInPlace
  <2>3. \A i \in DOMAIN stream' : stream'[i].tag # "ack"
    <3> SUFFICES ASSUME NEW i \in DOMAIN stream', stream'[i].tag = "ack" PROVE FALSE
      OBVIOUS
    <3>1. i + 1 \in DOMAIN stream /\ stream[i + 1].tag = "ack" /\ i + 1 # 1
      BY <1>2
    <3>. QED
      BY <2>2, <3>1
  <2>4. (\A i \in Outputs : i < 1) => Outputs' = {}
    <3>1. \A i \in Outputs' : ~(i + 1 < 1)
      BY <1>2 DEF Outputs
    <3>. QED
      BY <1>4, <3>1
  <2>5. seen => (\A i \in Outputs : i < 1) /\ (Closing \/ (ran = Len(programs) /\ outbox = <<>>))
    BY <1>1, <2>1 DEF AckInPlace
  <2>. QED
    BY <1>1, <2>1, <2>3, <2>4, <2>5 DEF AckInPlace
<1>9. CASE Head(stream).tag = "ack" /\ seen /\ step' = "send" /\ seen' = FALSE
  <2>1. /\ acked = Len(programs) /\ Outputs' = {} /\ \A i \in DOMAIN stream' : stream'[i].tag # "ack"
        /\ Closing \/ (ran = Len(programs) /\ outbox = <<>>)
    BY <1>8, <1>9
  <2>2. \A i \in DOMAIN stream' : stream'[i].tag = "closing"
    <3> SUFFICES ASSUME NEW i \in DOMAIN stream' PROVE stream'[i].tag = "closing"
      OBVIOUS
    <3>1. stream'[i] \in Frame
      BY <1>1, <1>2, FrameRead
    <3>2. stream'[i].tag # "output"
      BY <2>1 DEF Outputs
    <3>. QED
      BY <2>1, <3>1, <3>2 DEF Frame
  <2>3. OnlyLastOwed'
    BY <1>1, <1>5, <1>9, <2>1, <2>2 DEF OnlyLastOwed
  <2>4. AckInPlace'
    BY <1>9 DEF AckInPlace
  <2>. QED
    BY <2>3, <2>4
<1>10. CASE Head(stream).tag = "ack" /\ ~seen /\ UNCHANGED <<step, seen>>
  <2>1. OnlyLastOwed'
    BY <1>1, <1>3, <1>5, <1>10 DEF OnlyLastOwed
  <2>2. AckInPlace'
    BY <1>1, <1>8, <1>10 DEF AckInPlace
  <2>. QED
    BY <2>1, <2>2
<1>. QED
  BY <1>7, <1>9, <1>10 DEF Receive, EndCollect

LEMMA PromptDeadline ==
  ASSUME TypeOK, Deadline, ~late'
  PROVE  OnlyLastOwed' /\ AckInPlace'
<1>1. ~Owed /\ step' = "send" /\ UNCHANGED <<programs, ran, acked, outbox, stream>>
  BY DEF Deadline, EndCollect, wire
<1>2. stream' = <<>> /\ outbox' = <<>> /\ ran' = Len(programs') /\ acked' = Len(programs')
  BY <1>1 DEF Owed, TypeOK
<1>. QED
  BY <1>1, <1>2 DEF OnlyLastOwed, AckInPlace

LEMMA PromptStart ==
  ASSUME TypeOK, Requests, Prompt, ~late',
         Watch \/ ReadState \/ (\E k \in Kind : BeginCommand(k)) \/ Submit \/ Poll
  PROVE  OnlyLastOwed' /\ AckInPlace' /\ OwnCollected'
<1>1. PICK what, k, m : \E p \in Program : Start(what, k, p, m) /\ doing \in {"none", "ready", "verify"}
  BY Requested, Zenon
<1>2. PICK p \in Program : Start(what, k, p, m)
  BY <1>1
<1>3. step = "send"
  BY <1>1 DEF Requests
<1>4. /\ step' = "collect" /\ ~seen' /\ got' = <<>> /\ UNCHANGED <<outbox, stream>>
      /\ \/ Owed /\ programs' = Append(programs, p) /\ UNCHANGED <<ran, acked, late>>
         \/ ~Owed /\ programs' = <<p>> /\ ran' = 0 /\ acked' = 0
  BY <1>2 DEF Start
<1>5. OwnCollected'
  BY <1>4 DEF OwnCollected, Got
<1>6. CASE Owed /\ programs' = Append(programs, p) /\ UNCHANGED <<ran, acked, late>>
  <2>1. OnlyLastOwed
    BY <1>6 DEF Prompt
  <2>2. Closing /\ Outputs = {} /\ \A i \in DOMAIN stream : stream[i].tag # "ack"
    BY <1>3, <1>6, <2>1, NothingComes
  <2>3. ran' \in Int /\ acked' \in Int /\ Len(programs') \in Int
    BY <1>6 DEF TypeOK
  <2>. QED
    BY <1>4, <1>5, <2>2, <2>3, PromptSend
<1>7. CASE ~Owed /\ programs' = <<p>> /\ ran' = 0 /\ acked' = 0
  <2>1. stream = <<>> /\ outbox = <<>>
    BY <1>7 DEF Owed
  <2>2. Outputs = {} /\ Held = {} /\ \A i \in DOMAIN stream : stream[i].tag # "ack"
    BY <2>1 DEF Outputs, Held
  <2>3. Len(programs') = 1
    BY <1>7
  <2>. QED
    BY <1>4, <1>5, <1>7, <2>2, <2>3, PromptSend
<1>. QED
  BY <1>4, <1>6, <1>7

LEMMA PromptPart ==
  ASSUME TypeOK, Requests, Prompt, ~late', NextPart
  PROVE  OnlyLastOwed' /\ AckInPlace' /\ OwnCollected'
<1>1. /\ doing \in Reading /\ step = "send" /\ step' = "collect" /\ LastSent \in 0..Parts /\ ~seen
      /\ programs' = Append(programs, LastSent + 1) /\ ~late
      /\ UNCHANGED <<ran, acked, outbox, stream, doing, got, seen>>
  BY DEF NextPart, wire, Requests
<1>2. OnlyLastOwed /\ OwnCollected
  BY <1>1 DEF Prompt
<1>3. /\ Len(programs') = Len(programs) + 1 /\ Len(programs) \in Nat /\ LastSent' = LastSent + 1
      /\ ran' \in Int /\ acked' \in Int
  <2>1. Len(programs') = Len(programs) + 1 /\ Len(programs) \in Nat /\ programs'[Len(programs')] = LastSent + 1
    BY <1>1 DEF TypeOK
  <2>. QED
    BY <1>1, <2>1 DEF LastSent, TypeOK
<1>4. /\ Outputs = {} /\ \A i \in DOMAIN stream : stream[i].tag # "ack"
      /\ ~Closing => ran = Len(programs) /\ acked = Len(programs) /\ Held = {}
  BY <1>1, <1>2, NothingComes
<1>5. Closing \/ (Held = {} /\ Len(programs') - 1 = ran' /\ Len(programs') - 1 = acked')
  BY <1>1, <1>3, <1>4
<1>6. OnlyLastOwed' /\ AckInPlace'
  BY <1>1, <1>3, <1>4, <1>5, PromptSend
<1>7. OwnCollected'
  <2>1. Got' = Got /\ Len(programs') - LastSent' = Len(programs) - LastSent /\ doing' \in Reading
    BY <1>1, <1>3 DEF Got
  <2>. QED
    BY <1>1, <1>2, <2>1 DEF OwnCollected, Reading
<1>. QED
  BY <1>6, <1>7

\* The request that collects keeps what it has collected, or collects more of its own.
LEMMA OwnKept ==
  ASSUME TypeOK, Requests, OnlyLastOwed, OwnCollected, UNCHANGED <<programs, doing>>,
         \/ got' = got
         \/ step = "collect" /\ \E l : Collects(l)
  PROVE  OwnCollected'
<1>1. LastSent' = LastSent
  BY DEF LastSent
<1>2. CASE got' = got
  BY <1>1, <1>2 DEF OwnCollected, Got
<1>3. ASSUME step = "collect", NEW l, Collects(l) PROVE OwnCollected'
  <2>1. l \in Sent /\ Got' = Got \cup {l}
    BY <1>3, CollectsLines
  <2>2. l.from = Len(programs) /\ Len(programs) \in Nat
    BY <1>3, <2>1 DEF OnlyLastOwed, TypeOK
  <2>3. doing \in Reading => LastSent \in Nat
    BY DEF Requests
  <2>4. doing \in Reading => l.from >= Len(programs) - LastSent
    BY <2>2, <2>3
  <2>5. l.from >= Len(programs)
    BY <2>2
  <2>. QED
    BY <1>1, <2>1, <2>4, <2>5 DEF OwnCollected
<1>. QED
  BY <1>2, <1>3

LEMMA PromptKept ==
  ASSUME IInv, [Next]_vars
  PROVE  Prompt'
<1> USE DEF IInv
<1> DEFINE Mine == OnlyLastOwed /\ AckInPlace /\ OwnCollected
<1> SUFFICES ASSUME ~late' PROVE Mine'
  BY DEF Prompt
<1>1. CASE Game
  <2>1. ~late /\ UNCHANGED <<programs, doing, got>>
    BY <1>1 DEF Game, RunProgram, SendOutput, Acknowledge, AnnounceClosing, NextTurn, client
  <2>2. OnlyLastOwed /\ AckInPlace /\ OwnCollected
    BY <2>1 DEF Prompt
  <2>3. OwnCollected'
    BY <2>1, <2>2, OwnKept
  <2>4. CASE NextTurn
    BY <2>2, <2>4 DEF NextTurn, wire, client, OnlyLastOwed, AckInPlace, OwnCollected, Closing, Outputs, Sent, Held,
                      Got, LastSent
  <2>. QED
    BY <1>1, <2>2, <2>3, <2>4, PromptRun, PromptOutput, PromptAck, PromptClosing DEF Game
<1>2. CASE Receive
  <2>1. ~late /\ UNCHANGED <<programs, doing>> /\ step = "collect" /\ (got' = got \/ \E l : Collects(l))
    BY <1>2 DEF Receive, Collects
  <2>2. OnlyLastOwed /\ AckInPlace /\ OwnCollected
    BY <2>1 DEF Prompt
  <2>. QED
    BY <1>2, <2>1, <2>2, OwnKept, PromptReceive
<1>3. CASE Deadline
  <2>1. ~late /\ UNCHANGED <<programs, doing, got>>
    BY <1>3 DEF Deadline, TypeOK
  <2>2. OnlyLastOwed /\ AckInPlace /\ OwnCollected
    BY <2>1 DEF Prompt
  <2>. QED
    BY <1>3, <2>1, <2>2, OwnKept, PromptDeadline
<1>4. CASE NextPart
  BY <1>4, PromptPart
<1>5. CASE ReturnState \/ FailRead \/ TakeResponse \/ FailResponse \/ EndCommand
  <2>1. ~late /\ got' = <<>> /\ UNCHANGED <<programs, wire, step, seen>>
    BY <1>5 DEF ReturnState, FailRead, TakeResponse, FailResponse, EndCommand, Idle, Continue
  <2>2. OnlyLastOwed /\ AckInPlace
    BY <2>1 DEF Prompt
  <2>. QED
    BY <2>1, <2>2 DEF wire, OnlyLastOwed, AckInPlace, OwnCollected, Closing, Outputs, Sent, Held, Got
<1>6. CASE ConnectionEnds
  <2>1. /\ ~late /\ got' = <<>> /\ step' = "send" /\ stream # <<>> /\ Head(stream).tag = "closing"
        /\ UNCHANGED <<stream>>
    BY <1>6 DEF ConnectionEnds, EndCollect, Idle, wire
  <2>2. 1 \in DOMAIN stream /\ stream[1].tag = "closing" /\ DOMAIN stream = 1..Len(stream)
    BY <2>1 DEF TypeOK
  <2>3. \A i \in DOMAIN stream' : stream'[i].tag = "closing"
    BY <2>1, <2>2 DEF Requests
  <2>4. Closing'
    BY <2>1, <2>2 DEF Closing
  <2>. QED
    BY <2>1, <2>3, <2>4 DEF OnlyLastOwed, AckInPlace, OwnCollected, Got
<1>7. CASE NewConnection
  BY <1>7 DEF NewConnection, Idle, EndCollect, OnlyLastOwed, AckInPlace, OwnCollected, Got
<1>8. CASE Watch \/ ReadState \/ (\E k \in Kind : BeginCommand(k)) \/ Submit \/ Poll
  BY <1>8, PromptStart
<1>9. CASE UNCHANGED vars
  <2>1. OnlyLastOwed /\ AckInPlace /\ OwnCollected
    BY <1>9 DEF Prompt, vars
  <2>. QED
    BY <1>9, <2>1 DEF vars, wire, client, OnlyLastOwed, AckInPlace, OwnCollected, Closing, Outputs, Sent, Held,
                      Got, LastSent
<1>. QED
  BY <1>1, <1>2, <1>3, <1>4, <1>5, <1>6, <1>7, <1>8, <1>9 DEF Next, Client, Reconnect, Restart

-----------------------------------------------------------------------------
(* The types, and the invariant.                                           *)

LEMMA ReadingFacts ==
  /\ Reading \cap {"none", "ready", "ask", "verify"} = {}
  /\ Reading = {"watch", "read", "before", "poll"}
  /\ None \notin Kind /\ None \notin Program
BY DEF Reading, Program

\* The lines and frames are what they should be.
LEMMA LinesTypeKept ==
  ASSUME TypeOK, RunProgram \/ NewConnection \/ Resets \/ GoesOn
  PROVE  outbox' \in Seq(Line) /\ stream' \in Seq(Frame) /\ got' \in Seq(Line)
<1>0. outbox \in Seq(Line) /\ stream \in Seq(Frame) /\ got \in Seq(Line)
  BY DEF TypeOK
<1>1. CASE RunProgram
  <2>1. outbox' \in Seq(Line)
    BY <1>1, ProgramRun, Zenon
  <2>. QED
    BY <1>0, <1>1, <2>1 DEF RunProgram, client
<1>2. CASE NewConnection
  BY <1>2 DEF NewConnection, Idle
<1>3. CASE Forgets
  BY <1>0, <1>3 DEF Forgets
<1>4. CASE StaysPut
  <2>1. CASE \E f \in Frame : stream' = Append(stream, f)
    BY <1>0, <1>4, <2>1 DEF StaysPut
  <2>2. CASE stream # <<>> /\ stream' = Tail(stream)
    <3>1. stream' \in Seq(Frame)
      BY <2>2, FrameRead
    <3>. QED
      BY <1>0, <1>4, <3>1 DEF StaysPut
  <2>3. CASE stream' = stream
    BY <1>0, <1>4, <2>3 DEF StaysPut
  <2>. QED
    BY <1>4, <2>1, <2>2, <2>3 DEF StaysPut
<1>5. ASSUME NEW l, Collects(l) PROVE outbox' \in Seq(Line) /\ stream' \in Seq(Frame) /\ got' \in Seq(Line)
  <2>1. l \in Line
    BY <1>5, CollectsLines
  <2>. QED
    BY <1>0, <1>5, <2>1 DEF Collects
<1>6. CASE SendOutput
  <2> DEFINE f == [tag |-> "output", line |-> Head(outbox)]
  <2>1. f \in Frame /\ stream' = Append(stream, f) /\ got' = got /\ outbox' \in Seq(Line)
    BY <1>6, OutputSent
  <2> HIDE DEF f
  <2>. QED
    BY <1>0, <2>1
<1>. QED
  BY <1>1, <1>2, <1>3, <1>4, <1>5, <1>6 DEF Resets, GoesOn

\* The counts of programs, and who holds the lock.
CountsOK ==
  /\ turn \in 0..MaxTurn
  /\ programs \in Seq(Program) /\ Len(programs) <= MaxProgram
  /\ match \in BOOLEAN
  /\ ran \in 0..Len(programs) /\ acked \in 0..Len(programs)

HolderOK ==
  /\ doing \in Reading \cup {"none", "ready", "ask", "verify"}
  /\ kind \in Kind \cup {None} /\ (kind = None <=> doing \in {"none", "watch", "read"})
  /\ step \in {"send", "collect"} /\ seen \in BOOLEAN
  /\ late \in BOOLEAN

LEMMA CountsKept ==
  ASSUME TypeOK, Requests, [Next]_vars
  PROVE  CountsOK'
<1>0. CountsOK
  BY DEF TypeOK, CountsOK
<1>1. CASE UNCHANGED <<turn, programs, match, ran, acked>>
  BY <1>0, <1>1 DEF CountsOK
<1>2. CASE RunProgram
  <2>1. match' \in BOOLEAN
    BY <1>0, <1>2 DEF RunProgram, CountsOK
  <2>. QED
    BY <1>0, <1>2, <2>1 DEF RunProgram, CountsOK
<1>3. CASE Acknowledge
  BY <1>0, <1>3 DEF Acknowledge, CountsOK
<1>4. CASE NextTurn
  BY <1>0, <1>4 DEF NextTurn, CountsOK, wire, TypeOK
<1>5. CASE NextPart
  <2>1. /\ programs' = Append(programs, LastSent + 1) /\ LastSent + 1 \in Program
        /\ Len(programs) + 1 <= MaxProgram /\ UNCHANGED <<turn, match, ran, acked>>
    <3>1. /\ LastSent < Parts /\ LastSent \in 0..Parts /\ Len(programs) + Parts - LastSent <= MaxProgram
          /\ Len(programs) \in Nat
      BY <1>5 DEF NextPart, Requests, TypeOK
    <3>. QED
      BY <1>5, <3>1 DEF NextPart, wire, Program
  <2>. QED
    BY <1>0, <2>1 DEF CountsOK
<1>6. CASE NewConnection
  <2>1. programs' \in Seq(Program) /\ Len(programs') = 0 /\ turn' \in 0..MaxTurn /\ ran' = 0 /\ acked' = 0
    BY <1>0, <1>6 DEF NewConnection, CountsOK
  <2>2. match' \in BOOLEAN
    BY <1>6 DEF NewConnection
  <2>. QED
    BY <2>1, <2>2 DEF CountsOK
<1>7. CASE Watch \/ ReadState \/ (\E k \in Kind : BeginCommand(k)) \/ Submit \/ Poll
  <2>1. PICK what, k, m : \E p \in Program :
           /\ Start(what, k, p, m)
           /\ \/ what \in Reading /\ p = 0 /\ m \in {Parts + 1, Parts + 2}
              \/ what = "ask" /\ p = kind /\ p \in Kind /\ m = 1
    BY <1>7, Requested, Zenon
  <2>2. PICK p \in Program :
           /\ Start(what, k, p, m)
           /\ \/ what \in Reading /\ p = 0 /\ m \in {Parts + 1, Parts + 2}
              \/ what = "ask" /\ p \in Kind /\ m = 1
    BY <2>1
  <2>3. /\ programs' \in Seq(Program) /\ Len(programs') \in 1..MaxProgram
        /\ ran' \in 0..Len(programs') /\ acked' \in 0..Len(programs')
    BY <2>2, StartRoom, Zenon
  <2>4. UNCHANGED <<turn, match>>
    BY <2>2 DEF Start
  <2>. QED
    BY <1>0, <2>3, <2>4 DEF CountsOK
<1>8. CASE SendOutput \/ AnnounceClosing \/ UNCHANGED vars
  BY <1>1, <1>8 DEF SendOutput, AnnounceClosing, vars, wire
<1>9. CASE \/ Receive \/ Deadline \/ ReturnState \/ FailRead
           \/ TakeResponse \/ FailResponse \/ EndCommand \/ ConnectionEnds
  BY <1>1, <1>9 DEF Receive, Deadline, ReturnState, FailRead, TakeResponse, FailResponse, EndCommand, ConnectionEnds, wire
<1>. QED
  BY <1>2, <1>3, <1>4, <1>5, <1>6, <1>7, <1>8, <1>9 DEF Next, Game, Client, Reconnect, Restart

LEMMA HolderKept ==
  ASSUME TypeOK, [Next]_vars
  PROVE  HolderOK'
<1>0. HolderOK
  BY DEF TypeOK, HolderOK
<1>1. CASE Game \/ UNCHANGED vars
  BY <1>0, <1>1 DEF Game, RunProgram, SendOutput, Acknowledge, AnnounceClosing, NextTurn, vars, client, HolderOK
<1>2. CASE Receive
  BY <1>0, <1>2 DEF Receive, EndCollect, HolderOK
<1>3. CASE Deadline
  BY <1>0, <1>3 DEF Deadline, EndCollect, HolderOK
<1>4. CASE NextPart
  BY <1>0, <1>4 DEF NextPart, HolderOK
<1>5. CASE ReturnState \/ FailRead \/ TakeResponse \/ FailResponse \/ EndCommand
  <2>1. UNCHANGED <<step, seen, late>>
    BY <1>5 DEF ReturnState, FailRead, TakeResponse, FailResponse, EndCommand
  <2>2. (doing' = "none" /\ kind' = None) \/ (doing' \in {"ready", "verify"} /\ doing \in {"before", "poll", "ask"} /\ kind' = kind)
    BY <1>5 DEF ReturnState, FailRead, TakeResponse, FailResponse, EndCommand, Idle, Continue, After, ReturnsResponse
  <2>. QED
    BY <1>0, <2>1, <2>2, ReadingFacts DEF HolderOK
<1>6. CASE ConnectionEnds \/ NewConnection
  BY <1>0, <1>6 DEF ConnectionEnds, NewConnection, Idle, EndCollect, HolderOK
<1>7. CASE Watch \/ ReadState \/ (\E k \in Kind : BeginCommand(k)) \/ Submit \/ Poll
  <2>1. PICK what, k, m : \E p \in Program :
           /\ Start(what, k, p, m)
           /\ what \in Reading \/ what = "ask"
           /\ (k = None <=> what \in {"watch", "read"}) /\ k \in Kind \cup {None}
    BY <1>7, Requested, Zenon
  <2>2. PICK p \in Program : Start(what, k, p, m)
    BY <2>1
  <2>3. doing' = what /\ kind' = k /\ step' = "collect" /\ seen' = FALSE /\ (late' = late \/ late' = FALSE)
    BY <2>2 DEF Start
  <2>. QED
    BY <1>0, <2>1, <2>3, ReadingFacts DEF HolderOK
<1>. QED
  BY <1>1, <1>2, <1>3, <1>4, <1>5, <1>6, <1>7 DEF Next, Client, Reconnect, Restart

LEMMA TypeKept ==
  ASSUME TypeOK, Requests, [Next]_vars
  PROVE  TypeOK'
BY CountsKept, HolderKept, LinesTypeKept, Effects DEF TypeOK, CountsOK, HolderOK, Reading

LEMMA InitInv == Init => IInv
<1> SUFFICES ASSUME Init PROVE IInv
  OBVIOUS
<1>1. TypeOK
  <2>1. programs \in Seq(Program) /\ Len(programs) = 0 /\ outbox \in Seq(Line) /\ stream \in Seq(Frame) /\ got \in Seq(Line)
    BY DEF Init
  <2>2. turn \in 0..MaxTurn /\ ran = 0 /\ acked = 0 /\ doing = "none" /\ kind = None /\ step = "send"
    BY DEF Init
  <2>3. match \in BOOLEAN /\ seen \in BOOLEAN /\ late \in BOOLEAN
    BY DEF Init
  <2>. QED
    BY <2>1, <2>2, <2>3 DEF TypeOK
<1>2. Outputs = {} /\ Got = {} /\ Sent = {} /\ Held = {} /\ Lines = {}
  BY DEF Init, Outputs, Got, Sent, Held, Lines, Pending
<1>3. InOrder /\ Printed /\ Headed
  BY <1>2 DEF Init, InOrder, Printed, Headed, Pending
<1>4. Sequenced /\ Requests
  BY DEF Init, Sequenced, Requests, Reading
<1>5. Prompt
  BY <1>2 DEF Init, Prompt, OnlyLastOwed, AckInPlace, OwnCollected, Reading
<1>. QED
  BY <1>1, <1>3, <1>4, <1>5 DEF IInv

LEMMA StepInv == IInv /\ [Next]_vars => IInv'
<1> SUFFICES ASSUME IInv, [Next]_vars PROVE IInv'
  OBVIOUS
<1>1. TypeOK' /\ Requests'
  BY TypeKept, RequestsKept DEF IInv
<1>2. InOrder' /\ Printed' /\ Sequenced' /\ Headed'
  BY OrderKept, PrintedKept, SequencedKept, HeadedKept DEF IInv
<1>3. Prompt'
  BY PromptKept
<1>. QED
  BY <1>1, <1>2, <1>3 DEF IInv

\* Lines are kept in the order and with the company in which they were printed, and a
\* request that no deadline disturbed collects only what its own programs printed.
THEOREM Invariant == Spec => []IInv
BY InitInv, StepInv, PTL DEF Spec

\* The variables keep their types: the count of programs stays within its bound.
THEOREM TypeTheorem == Spec => []TypeOK
<1>1. IInv => TypeOK
  BY DEF IInv
<1>. QED
  BY <1>1, Invariant, PTL

-----------------------------------------------------------------------------
(* An accepted snapshot.                                                   *)

LEMMA SnapshotFacts ==
  ASSUME TypeOK, Printed
  PROVE  /\ \A i \in SnapshotAt : /\ i \in Nat \ {0} /\ i \in DOMAIN got /\ got[i] \in Got /\ got[i] \in Lines
                                  /\ got[i].from \in 1..ran /\ got[i].from \in DOMAIN programs
                                  /\ got[i].nth \in Nat \ {0} /\ got[i].of \in Nat /\ got[i].nth <= got[i].of
                                  /\ Of(got[i]) \in 0..Parts /\ Of(got[i]) = programs[got[i].from]
         /\ ran \in Nat
<1>1. \A i \in SnapshotAt : i \in Nat \ {0} /\ i \in DOMAIN got /\ got[i] \in Got /\ got[i] \in Line
  BY DEF TypeOK, SnapshotAt, Got
<1>2. \A i \in SnapshotAt : got[i] \in Lines
  BY <1>1 DEF Lines
<1>3. \A l \in Line : l.nth \in Nat \ {0} /\ l.of \in Nat
  BY DEF Line
<1>4. \A i \in SnapshotAt : got[i].from \in 1..ran /\ got[i].nth <= got[i].of
  BY <1>2 DEF Printed
<1>5. ran \in Nat /\ ran <= Len(programs) /\ DOMAIN programs = 1..Len(programs) /\ Len(programs) \in Nat
  BY DEF TypeOK
<1>6. \A i \in SnapshotAt : Of(got[i]) \in 0..Parts /\ Of(got[i]) = programs[got[i].from]
  BY DEF SnapshotAt, Of
<1>. QED
  BY <1>1, <1>2, <1>3, <1>4, <1>5, <1>6

\* All of the lines of an accepted snapshot are of the read of its header: another header
\* would stand among them, or between them and what is still to come.
LEMMA OneRead ==
  ASSUME IInv, NEW f \in SnapshotAt, FirstIn(SnapshotAt, f),
         \A j \in SnapshotAt : Of(got[j]) = 0 <=> j = f,
         NEW j \in SnapshotAt
  PROVE  got[j].from - Of(got[j]) = got[f].from
<1> USE DEF IInv
<1> DEFINE l == got[j]
           h == l.from - programs[l.from]
<1>1. /\ l \in Lines /\ l \in Got /\ l.from \in 1..ran /\ l.from \in DOMAIN programs /\ Of(l) \in 0..Parts
      /\ Of(l) = programs[l.from] /\ j \in DOMAIN got /\ j \in Nat \ {0} /\ ran \in Nat
      /\ f \in DOMAIN got /\ f \in Nat \ {0} /\ got[f] \in Lines /\ got[f] \in Got /\ got[f].from \in 1..ran
      /\ Of(got[f]) = programs[got[f].from]
  BY SnapshotFacts
<1>2. CASE Of(l) = 0
  <2>1. j = f
    BY <1>2
  <2>. QED
    BY <1>1, <1>2, <2>1
<1>3. CASE Of(l) # 0
  <2>1. programs[l.from] \in 1..Parts /\ j # f
    BY <1>1, <1>3
  <2>2. h \in 1..l.from - 1 /\ programs[h] = 0 /\ \A i \in h + 1..l.from - 1 : programs[i] # 0
    BY <1>1, <2>1, HeaderOfPart
  <2>3. h \in 1..ran /\ HeaderPassed(h)
    BY <1>1, <2>1, HeaderOfLine
  <2> HIDE DEF h
  <2>4. f < j
    BY <1>1, <2>1 DEF FirstIn
  <2>5. Prior(got[f], l)
    BY <1>1, <2>4 DEF InOrder
  <2>6. programs[got[f].from] = 0
    BY <1>1
  <2>7. got[f].from < l.from
    BY <1>1, <2>1, <2>5, <2>6 DEF Prior
  <2>8. ~(h < got[f].from)
    BY <1>1, <2>2, <2>6, <2>7
  <2>9. ~(got[f].from < h)
    <3> SUFFICES ASSUME got[f].from < h PROVE FALSE
      OBVIOUS
    <3>1. PICK m \in Lines : m.from = h
      BY <1>1, <2>3 DEF HeaderPassed
    <3>2. m \notin Pending
      BY <1>1, <2>2, <3>1 DEF InOrder, Prior
    <3>3. PICK i \in DOMAIN got : m = got[i]
      BY <3>1, <3>2 DEF Lines, Got
    <3>4. i \in SnapshotAt /\ Of(got[i]) = 0
      BY <2>2, <3>1, <3>3 DEF SnapshotAt, Of
    <3>5. i = f
      BY <3>4
    <3>. QED
      BY <1>1, <2>2, <3>1, <3>3, <3>5
  <2>10. h = got[f].from
    BY <1>1, <2>2, <2>8, <2>9
  <2>. QED
    BY <1>1, <2>10 DEF h
<1>. QED
  BY <1>2, <1>3

\* What is accepted has every part, in the turn of the header.
LEMMA WholeRead ==
  ASSUME IInv, Parses
  PROVE  \E f \in SnapshotAt :
           /\ \A j \in SnapshotAt : Of(got[j]) = got[j].from - got[f].from
           /\ \A p \in 1..Parts : \E i \in SnapshotAt : got[i].from = got[f].from + p /\ got[i].nth = 1
           /\ \A j \in SnapshotAt : got[j].turn = got[f].turn
<1> USE DEF IInv
<1>1. PICK f \in SnapshotAt : FirstIn(SnapshotAt, f) /\ \A j \in SnapshotAt : Of(got[j]) = 0 <=> j = f
  BY DEF Parses, OneHeaderFirst
<1>2. \A j \in SnapshotAt : Of(got[j]) = got[j].from - got[f].from
  <2> SUFFICES ASSUME NEW j \in SnapshotAt PROVE Of(got[j]) = got[j].from - got[f].from
    OBVIOUS
  <2>1. got[j].from - Of(got[j]) = got[f].from
    BY <1>1, OneRead
  <2>2. got[j].from \in Int /\ Of(got[j]) \in Int /\ got[f].from \in Int
    BY SnapshotFacts
  <2>. QED
    BY <2>1, <2>2
<1>3. ASSUME NEW p \in 1..Parts
      PROVE  \E i \in SnapshotAt : IsPart(got[i]) /\ got[i].from = got[f].from + p /\ got[i].nth = 1
  <2>1. PICK i \in SnapshotAt : IsPart(got[i]) /\ Of(got[i]) = p
    BY DEF Parses, EveryPartOnce
  <2>2. got[i].nth = 1 /\ got[i].from \in Int /\ got[f].from \in Int
    BY <2>1, SnapshotFacts DEF IsPart
  <2>3. got[i].from = got[f].from + p
    BY <1>2, <2>1, <2>2
  <2>. QED
    BY <2>1, <2>2, <2>3
<1>4. ASSUME NEW j \in SnapshotAt PROVE got[j].turn = got[f].turn
  <2>1. CASE Of(got[j]) = 0
    BY <1>1, <2>1
  <2>2. CASE Of(got[j]) # 0
    <3>1. Of(got[j]) \in 1..Parts
      BY <2>2, SnapshotFacts
    <3>2. PICK i \in SnapshotAt : IsPart(got[i]) /\ got[i].from = got[f].from + Of(got[j])
      BY <1>3, <3>1
    <3>3. got[i].from = got[j].from
      <4>1. got[j].from \in Int /\ got[f].from \in Int
        BY SnapshotFacts
      <4>. QED
        BY <1>2, <3>2, <4>1
    <3>4. got[i].turn = got[j].turn
      BY <3>3, SnapshotFacts DEF Printed
    <3>5. got[i].turn = got[f].turn
      BY <1>1, <3>2 DEF Parses, PartsOfHeaderTurn
    <3>. QED
      BY <3>4, <3>5
  <2>. QED
    BY <2>1, <2>2
<1>. QED
  BY <1>2, <1>3, <1>4

\* Two lines that stand side by side in an accepted snapshot.
LEMMA NextLine ==
  ASSUME IInv, Parses, NEW i \in SnapshotAt, NEW j \in SnapshotAt, i < j,
         \A k \in SnapshotAt : k <= i \/ j <= k
  PROVE  IF got[i].nth < got[i].of THEN got[j] = [got[i] EXCEPT !.nth = @ + 1]
                                   ELSE got[j].from = got[i].from + 1 /\ got[j].nth = 1
<1> USE DEF IInv
<1>1. \A a, b \in SnapshotAt : a < b => Prior(got[a], got[b])
  BY SnapshotFacts DEF InOrder
<1>2. \A a \in SnapshotAt : /\ a \in Int /\ got[a].from \in Int /\ got[a].nth \in Int /\ got[a].of \in Int
                            /\ got[a].nth >= 1 /\ got[a].nth <= got[a].of
  BY SnapshotFacts
<1>3. Prior(got[i], got[j])
  BY <1>1
<1>4. CASE got[i].nth < got[i].of
  <2> DEFINE n == Following(got[i])
  <2>1. n \in Lines
    BY <1>4, SnapshotFacts DEF Printed
  <2>2. n.from = got[i].from /\ n.nth = got[i].nth + 1
    <3>1. got[i] \in Line
      BY LinesTyped, SnapshotFacts
    <3>. QED
      BY <3>1 DEF Following, Line
  <2>3. n = [got[i] EXCEPT !.nth = @ + 1]
    BY DEF Following
  <2> HIDE DEF n
  <2>4. ~Prior(got[j], n)
    BY <1>2, <1>3, <2>2 DEF Prior
  <2>5. n \notin Pending
    BY <2>4, SnapshotFacts DEF InOrder
  <2>6. PICK k \in DOMAIN got : n = got[k]
    BY <2>1, <2>5 DEF Lines, Got
  <2>7. k \in SnapshotAt
    BY <2>2, <2>6 DEF SnapshotAt, Of
  <2>8. ~(k <= i)
    <3>1. k # i
      BY <1>2, <2>2, <2>6
    <3>2. ~(k < i)
      BY <1>1, <1>2, <2>2, <2>6, <2>7 DEF Prior
    <3>. QED
      BY <1>2, <2>7, <3>1, <3>2
  <2>9. k = j
    BY <1>1, <1>2, <2>4, <2>6, <2>7, <2>8
  <2>. QED
    BY <1>4, <2>3, <2>6, <2>9
<1>5. CASE ~(got[i].nth < got[i].of)
  <2>1. PICK f \in SnapshotAt :
          /\ \A a \in SnapshotAt : Of(got[a]) = got[a].from - got[f].from
          /\ \A p \in 1..Parts : \E a \in SnapshotAt : got[a].from = got[f].from + p /\ got[a].nth = 1
    BY WholeRead, Zenon
  <2>2. got[i].from < got[j].from
    <3>1. got[i].from = got[j].from => got[i].of = got[j].of
      BY SnapshotFacts DEF Printed
    <3>. QED
      BY <1>2, <1>3, <1>5, <3>1 DEF Prior
  <2>3. Of(got[i]) + 1 \in 1..Parts /\ Of(got[i]) \in Int
    <3>1. Of(got[i]) \in 0..Parts /\ Of(got[j]) \in 0..Parts
      BY SnapshotFacts
    <3>2. Of(got[i]) < Of(got[j])
      BY <1>2, <2>1, <2>2
    <3>. QED
      BY <3>1, <3>2
  <2>4. PICK k \in SnapshotAt : got[k].from = got[f].from + (Of(got[i]) + 1) /\ got[k].nth = 1
    BY <2>1, <2>3
  <2>5. got[k].from = got[i].from + 1
    BY <1>2, <2>1, <2>3, <2>4
  <2>6. ~(k <= i)
    BY <1>1, <1>2, <2>5 DEF Prior
  <2>7. ~(j < k)
    BY <1>1, <1>2, <2>2, <2>4, <2>5 DEF Prior
  <2>8. k = j
    BY <1>2, <2>6, <2>7
  <2>. QED
    BY <1>5, <2>4, <2>5, <2>8
<1>. QED
  BY <1>4, <1>5

LEMMA LastLine ==
  ASSUME IInv, Parses, NEW i \in SnapshotAt, \A j \in SnapshotAt : j <= i
  PROVE  got[i].nth = got[i].of
<1> USE DEF IInv
<1>1. PICK k \in SnapshotAt : Of(got[k]) = Parts /\ got[k].nth = got[k].of
  BY DEF Parses, EndsWithContext
<1>2. PICK f \in SnapshotAt : \A a \in SnapshotAt : Of(got[a]) = got[a].from - got[f].from
  BY WholeRead, Zenon
<1>3. \A a \in SnapshotAt : /\ a \in Int /\ got[a].from \in Int /\ got[a].nth \in Int /\ got[a].of \in Int
                            /\ got[a].nth <= got[a].of /\ Of(got[a]) \in 0..Parts
  BY SnapshotFacts
<1>4. CASE k < i
  <2>1. Prior(got[k], got[i])
    BY <1>4, SnapshotFacts DEF InOrder
  <2>2. Of(got[i]) <= Of(got[k])
    BY <1>1, <1>3
  <2>3. got[i].from <= got[k].from
    BY <1>2, <1>3, <2>2
  <2>4. got[i].from = got[k].from /\ got[k].nth < got[i].nth
    BY <1>3, <2>1, <2>3 DEF Prior
  <2>5. got[i].of = got[k].of
    BY <2>4, SnapshotFacts DEF Printed
  <2>. QED
    BY <1>1, <1>3, <2>4, <2>5
<1>. QED
  BY <1>1, <1>3, <1>4

\* A snapshot that parse_snapshot accepts is all that the programs of one read printed,
\* in one turn, whatever was delayed, given up or left over from other requests.
THEOREM SnapshotTheorem == Spec => []SnapshotIsOneRead
<1>1. IInv => SnapshotIsOneRead
  <2> SUFFICES ASSUME IInv, ReturnsState PROVE SnapshotIsOneRead
    BY DEF SnapshotIsOneRead
  <2>1. Parses
    BY DEF ReturnsState
  <2>2. \A i, j \in SnapshotAt : got[i].turn = got[j].turn
    BY <2>1, WholeRead
  <2>. QED
    BY <2>1, <2>2, NextLine, LastLine DEF SnapshotIsOneRead
<1>. QED
  BY <1>1, Invariant, PTL

-----------------------------------------------------------------------------
(* The answers of a request that no deadline disturbed.                    *)

LEMMA OwnState ==
  ASSUME IInv, ~late
  PROVE  StateIsOwn
<1> USE DEF IInv
<1> SUFFICES ASSUME ReturnsState, NEW i \in SnapshotAt, FirstIn(SnapshotAt, i)
             PROVE  got[i].from = Len(programs) - Parts
  BY DEF StateIsOwn
<1>1. /\ doing \in Reading /\ programs # <<>> /\ programs[Len(programs)] = Parts /\ LastSent = Parts
      /\ Len(programs) \in Nat \ {0} /\ Len(programs) \in DOMAIN programs
  <2>1. doing \in Reading /\ LastSent = Parts
    BY DEF ReturnsState, ReadComplete
  <2>2. programs # <<>>
    BY <2>1 DEF Requests, Reading
  <2>. QED
    BY <2>1, <2>2 DEF LastSent, TypeOK
<1>2. programs[got[i].from] = 0
  <2>1. PICK f \in SnapshotAt : FirstIn(SnapshotAt, f) /\ \A j \in SnapshotAt : Of(got[j]) = 0 <=> j = f
    BY DEF ReturnsState, Parses, OneHeaderFirst
  <2>2. f = i
    BY <2>1, SnapshotFacts DEF FirstIn
  <2>. QED
    BY <2>1, <2>2, SnapshotFacts
<1>3. got[i].from >= Len(programs) - Parts
  BY <1>1, SnapshotFacts DEF Prompt, OwnCollected
<1>4. got[i].from \in Int /\ got[i].from <= Len(programs)
  BY SnapshotFacts DEF TypeOK
<1>5. \A q \in 0..Parts : programs[Len(programs) - q] = Parts - q
  BY <1>1 DEF Sequenced
<1>6. ~(got[i].from > Len(programs) - Parts)
  <2> SUFFICES ASSUME got[i].from > Len(programs) - Parts PROVE FALSE
    OBVIOUS
  <2> DEFINE q == Len(programs) - got[i].from
  <2>1. q \in 0..Parts /\ q < Parts /\ Len(programs) - q = got[i].from
    BY <1>1, <1>4
  <2>2. programs[Len(programs) - q] = Parts - q
    BY <1>5, <2>1
  <2> HIDE DEF q
  <2>. QED
    BY <1>2, <2>1, <2>2
<1>. QED
  BY <1>1, <1>3, <1>4, <1>6

LEMMA OwnResponse ==
  ASSUME IInv, ~late
  PROVE  ResponseIsOwn
<1> USE DEF IInv
<1> SUFFICES ASSUME ReturnsResponse, NEW i \in MatchAt PROVE got[i].from = Len(programs)
  BY DEF ResponseIsOwn
<1>1. got[i] \in Got /\ got[i] \in Lines
  BY DEF MatchAt, Got, Lines
<1>2. got[i].from >= Len(programs)
  BY <1>1 DEF Prompt, OwnCollected, ReturnsResponse
<1>. QED
  BY <1>1, <1>2 DEF Printed, TypeOK

\* A state or response that is returned while no deadline gave up on an answer is that of
\* the request that returns it, wherever the acknowledgements came.
THEOREM PromptTheorem == Spec => []PromptAnswersAreOwn
<1>1. IInv => PromptAnswersAreOwn
  BY OwnState, OwnResponse DEF PromptAnswersAreOwn
<1>. QED
  BY <1>1, Invariant, PTL
=============================================================================
