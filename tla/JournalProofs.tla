---------------------------- MODULE JournalProofs ---------------------------
(***************************************************************************)
(* Proofs about Journal, for any number of watchers at the same time, of   *)
(* turns, commands, corrections and failing appends.                       *)
(***************************************************************************)
EXTENDS Journal, TLAPS

\* What the callers of an append pass to it.
Proper(r) ==
  /\ r \in Line /\ r.kind \in Live \cup {"session_binding", "correction"}
  /\ r.kind \in Live => r.turn # None /\ r.session # None
  /\ r.kind = "session_binding" => r.turn = None
  /\ r.kind = "correction" => r.ref \in Nat

\* A record that is accepted can be read back, with all that was there before.
LEMMA AcceptedIsReadable ==
  ASSUME file \in Seq(Line), NEW r, Proper(r), Accepts(r)
  PROVE  Readable(Append(file, r))
<1> DEFINE f == Append(file, r)
<1>1. /\ f # <<>> /\ Len(f) = Len(file) + 1 /\ f[Len(file) + 1] = r
      /\ \A i \in DOMAIN file : f[i] = file[i]
      /\ DOMAIN f = DOMAIN file \cup {Len(file) + 1}
      /\ DOMAIN file = 1..Len(file) /\ Len(file) \in Nat /\ Len(file) # 0
  BY DEF Accepts, Readable, Decodes, Proper
<1> HIDE DEF f
<1>2. ASSUME NEW i \in DOMAIN file
      PROVE  /\ f[i].kind # "torn"
             /\ f[i].kind = "journal_started" <=> i = 1
             /\ f[i].kind \in Binding => f[i].turn = None
             /\ f[i].kind = "correction" => f[i].ref \in Nat /\ f[i].ref < i - 1
             /\ f[i].kind \in Live =>
                  /\ f[i].turn # None
                  /\ \E j \in 1..(i - 1) : f[j].kind \in Binding /\ f[j].session = f[i].session
             /\ \A j \in 1..(i - 1) :
                  /\ f[i].kind = "session_binding" /\ f[j].kind \in Binding => f[j].session # f[i].session
                  /\ f[i].turn # None /\ f[j].turn # None => f[j].turn <= f[i].turn
  <2>1. \A j \in 1..(i - 1) : j \in DOMAIN file /\ f[j] = file[j]
    BY <1>1
  <2>2. f[i] = file[i]
    BY <1>1
  <2>. QED
    BY <2>1, <2>2 DEF Accepts, Readable, Decodes
<1>3. LET i == Len(file) + 1 IN
      /\ f[i].kind # "torn"
      /\ f[i].kind = "journal_started" <=> i = 1
      /\ f[i].kind \in Binding => f[i].turn = None
      /\ f[i].kind = "correction" => f[i].ref \in Nat /\ f[i].ref < i - 1
      /\ f[i].kind \in Live =>
           /\ f[i].turn # None
           /\ \E j \in 1..(i - 1) : f[j].kind \in Binding /\ f[j].session = f[i].session
      /\ \A j \in 1..(i - 1) :
           /\ f[i].kind = "session_binding" /\ f[j].kind \in Binding => f[j].session # f[i].session
           /\ f[i].turn # None /\ f[j].turn # None => f[j].turn <= f[i].turn
  <2>1. f[Len(file) + 1] = r /\ \A j \in 1..Len(file) : f[j] = file[j] /\ j \in DOMAIN file
    BY <1>1
  <2>2. r.kind \in Live => \E j \in 1..Len(file) : file[j].kind \in Binding /\ file[j].session = r.session
    BY <1>1 DEF Accepts, Bound, Proper, Live
  <2>3. r.kind = "session_binding" =>
          \A j \in 1..Len(file) : file[j].kind \in Binding => file[j].session # r.session
    BY <1>1 DEF Accepts, Bound
  <2>4. r.turn # None => \A j \in 1..Len(file) : file[j].turn # None => file[j].turn <= r.turn
    BY <1>1 DEF Accepts
  <2>5. /\ r.kind # "torn" /\ r.kind # "journal_started" /\ Len(file) + 1 # 1
        /\ r.kind \in Binding => r.turn = None
        /\ r.kind = "correction" => r.ref \in Nat /\ r.ref < Len(file)
        /\ r.kind \in Live => r.turn # None
    BY <1>1 DEF Proper, Accepts, Binding, Live
  <2>. QED
    BY <1>1, <2>1, <2>2, <2>3, <2>4, <2>5
<1>4. Readable(f)
  BY <1>1, <1>2, <1>3 DEF Readable, Decodes
<1>. QED
  BY <1>4 DEF f

\* What an append leaves behind, whether it succeeds or fails.
Written(r) ==
  \/ file' = file
  \/ Accepts(r) /\ file' \in {Append(file, Torn), Append(file, r)}

LEMMA StoreWrites ==
  ASSUME NEW r, NEW ACTION ok, NEW ACTION failed, Store(r, ok, failed)
  PROVE  Written(r)
BY DEF Store, WriteFails, Written

\* A readable file is whole.
LEMMA ReadableIsWhole ==
  ASSUME file \in Seq(Line), Readable(file)
  PROVE  Whole = file
BY DEF Readable, Decodes, Whole

\* An append keeps the file intact.
LEMMA WrittenIsIntact ==
  ASSUME file \in Seq(Line), Intact, NEW r, Proper(r), Written(r), None \notin Nat
  PROVE  file' \in Seq(Line) /\ Intact'
<1>1. CASE file' = file
  BY <1>1 DEF Intact, Whole
<1>2. CASE Accepts(r) /\ file' = Append(file, r)
  <2>1. Readable(file')
    BY <1>2, AcceptedIsReadable
  <2>2. file' \in Seq(Line)
    BY <1>2 DEF Proper
  <2>3. Whole' = file'
    <3>1. file' # <<>> /\ file'[Len(file')].kind # "torn"
      BY <2>1, <2>2 DEF Readable, Decodes
    <3>. QED
      BY <3>1 DEF Whole
  <2>4. Readable(Whole)'
    BY <2>1, <2>3 DEF Readable, Decodes
  <2>. QED
    BY <2>2, <2>4 DEF Intact
<1>3. CASE Accepts(r) /\ file' = Append(file, Torn)
  <2>1. Torn \in Line
    BY DEF Torn, Line, Kind
  <2>2. /\ file' \in Seq(Line) /\ file' # <<>> /\ Len(file') = Len(file) + 1
        /\ file'[Len(file')] = Torn
    BY <1>3, <2>1
  <2>3. SubSeq(file', 1, Len(file') - 1) = file
    BY <1>3, <2>1, <2>2
  <2>4. Whole' = file
    BY <2>2, <2>3 DEF Whole, Torn
  <2>5. Readable(Whole)'
    BY <1>3, <2>4 DEF Accepts, Readable, Decodes
  <2>. QED
    BY <2>2, <2>5 DEF Intact
<1>. QED
  BY <1>1, <1>2, <1>3 DEF Written

-----------------------------------------------------------------------------
(* The invariant.                                                          *)

\* Every record that a step of a watcher or an operator appends is a proper one.
LEMMA ProperRecords ==
  ASSUME TypeOK, Executing
  PROVE  /\ \A i \in 0..Len(file) : Proper(Rec("correction", None, None, i))
         /\ \A s \in Session :
              /\ Proper(Rec("session_binding", s, None, None))
              /\ Proper(Rec("snapshot", s, seen[s], None))
              /\ Proper(Rec("turn_transition", s, seen[s], previous[s]))
              /\ handler[s] = "submit" => Proper(Rec("command_submitted", s, submitted[s], command[s]))
              /\ result[s].turn # None => Proper(Rec("command_result", s, result[s].turn, command[s]))
              /\ handler[s] = "verification" => Proper(Verification(s))
<1> USE JournalAssumption DEF TypeOK, Executing, Proper, Rec, Line, Kind, Live, Binding, Turn
<1>1. \A i \in 0..Len(file) : Proper(Rec("correction", None, None, i))
  OBVIOUS
<1>2. ASSUME NEW s \in Session
      PROVE  /\ Proper(Rec("session_binding", s, None, None))
             /\ Proper(Rec("snapshot", s, seen[s], None))
             /\ Proper(Rec("turn_transition", s, seen[s], previous[s]))
             /\ result[s].turn # None => Proper(Rec("command_result", s, result[s].turn, command[s]))
  OBVIOUS
<1>3. ASSUME NEW s \in Session, handler[s] = "submit"
      PROVE  Proper(Rec("command_submitted", s, submitted[s], command[s]))
  BY <1>3
<1>4. ASSUME NEW s \in Session, handler[s] = "verification"
      PROVE  Proper(Verification(s))
  BY <1>4 DEF Verification
<1>. QED
  BY <1>1, <1>2, <1>3, <1>4

\* The file stays intact whatever step is taken.
LEMMA FileStep ==
  ASSUME TypeOK, Executing, Creating, Intact, [Next]_vars
  PROVE  file' \in Seq(Line) /\ Intact'
<1> USE JournalAssumption
<1>1. ASSUME file' = file PROVE file' \in Seq(Line) /\ Intact'
  BY <1>1 DEF TypeOK, Intact, Whole
<1>2. ASSUME NEW r, Proper(r), Written(r) PROVE file' \in Seq(Line) /\ Intact'
  BY <1>2, WrittenIsIntact DEF TypeOK
<1>3. ASSUME NEW s \in Session, WriteStart(s) PROVE file' \in Seq(Line) /\ Intact'
  <2> DEFINE r == Rec("journal_started", s, None, None)
  <2>1. file = <<>> /\ r \in Line /\ Torn \in Line
    BY <1>3 DEF WriteStart, Creating, Rec, Torn, Line, Kind, Binding
  <2>2. file' \in {<<>>, <<r>>, <<Torn>>}
    BY <1>3, <2>1 DEF WriteStart, WriteFails
  <2>3. Readable(<<r>>)
    BY DEF Readable, Decodes, Rec, Live, Binding
  <2>4. CASE file' = <<r>>
    <3>1. Whole' = <<r>>
      BY <2>4 DEF Whole, Rec
    <3>2. Readable(Whole)'
      BY <2>3, <3>1 DEF Readable, Decodes
    <3>. QED
      BY <2>1, <2>4, <3>2 DEF Intact
  <2>5. CASE file' = <<Torn>>
    <3>1. Whole' = <<>>
      BY <2>5 DEF Whole, Torn
    <3>. QED
      BY <2>1, <2>5, <3>1 DEF Intact
  <2>6. CASE file' = <<>>
    BY <2>6 DEF Intact, Whole
  <2>. QED
    BY <2>2, <2>4, <2>5, <2>6
<1>4. ASSUME NEW s \in Session, Lifetime(s) PROVE file' \in Seq(Line) /\ Intact'
  <2>1. CASE BindSession(s)
    BY <1>2, <2>1, ProperRecords, StoreWrites DEF BindSession
  <2>2. CASE CreateFile(s) \/ OpenFile(s) \/ LeaveLoop(s) \/ ProcessEnds(s)
    BY <1>1, <2>2 DEF CreateFile, OpenFile, LeaveLoop, ProcessEnds
  <2>. QED
    BY <1>3, <1>4, <2>1, <2>2 DEF Lifetime
<1>5. ASSUME NEW s \in Session, MainLoop(s) PROVE file' \in Seq(Line) /\ Intact'
  <2>1. CASE RecordTransition(s)
    BY <1>2, <2>1, ProperRecords, StoreWrites DEF RecordTransition
  <2>2. CASE RecordSnapshot(s)
    BY <1>2, <2>2, ProperRecords, StoreWrites DEF RecordSnapshot
  <2>3. CASE ReadState(s)
    BY <1>1, <2>3 DEF ReadState
  <2>. QED
    BY <1>5, <2>1, <2>2, <2>3 DEF MainLoop
<1>6. ASSUME NEW s \in Session, Handler(s) PROVE file' \in Seq(Line) /\ Intact'
  <2>1. CASE RecordSubmitted(s)
    BY <1>2, <2>1, ProperRecords, StoreWrites DEF RecordSubmitted
  <2>2. CASE RecordResult(s)
    BY <1>1, <1>2, <2>2, ProperRecords, StoreWrites DEF RecordResult
  <2>3. CASE RecordVerification(s)
    BY <1>2, <2>3, ProperRecords, StoreWrites DEF RecordVerification
  <2>4. CASE BeginCommand(s) \/ Execute(s) \/ Answer(s)
    BY <1>1, <2>4 DEF BeginCommand, Execute, Answer
  <2>. QED
    BY <1>6, <2>1, <2>2, <2>3, <2>4 DEF Handler
<1>7. CASE Correct
  BY <1>2, <1>7, ProperRecords, StoreWrites DEF Correct
<1>8. CASE NextTurn \/ UNCHANGED vars
  BY <1>1, <1>8 DEF NextTurn, vars
<1>. QED
  BY <1>4, <1>5, <1>6, <1>7, <1>8 DEF Next

\* Nothing is appended to a file that has no first record yet.
LEMMA EmptyStays ==
  ASSUME NEW r, NEW ACTION ok, NEW ACTION failed, Store(r, ok, failed), file = <<>>
  PROVE  file' = <<>>
BY DEF Store, Accepts, Readable, Decodes

\* How an append ends.
LEMMA StoreEnds ==
  ASSUME NEW r, NEW ACTION ok, NEW ACTION failed, Store(r, ok, failed), faults \in 0..MaxFault
  PROVE  faults' \in 0..MaxFault /\ (ok \/ failed)
BY JournalAssumption DEF Store, WriteFails

\* A thread that is about to write a record that needs a turn has one.
LEMMA ExecutingStep ==
  ASSUME TypeOK, Executing, [Next]_vars
  PROVE  Executing'
<1> USE DEF TypeOK, Executing, To
<1>1. ASSUME UNCHANGED <<handler, command, submitted, result>> PROVE Executing'
  BY <1>1
<1>2. ASSUME NEW s \in Session, Lifetime(s) PROVE Executing'
  <2>1. CASE ProcessEnds(s)
    BY <2>1 DEF ProcessEnds, Forget
  <2>2. CASE ~ProcessEnds(s)
    BY <1>1, <1>2, <2>2
       DEF Lifetime, CreateFile, WriteStart, OpenFile, BindSession, LeaveLoop, handlerThread
  <2>. QED
    BY <2>1, <2>2
<1>3. ASSUME NEW s \in Session, MainLoop(s) PROVE Executing'
  BY <1>1, <1>3 DEF MainLoop, ReadState, RecordTransition, RecordSnapshot, handlerThread
<1>4. ASSUME NEW s \in Session, Handler(s) PROVE Executing'
  <2>1. CASE BeginCommand(s)
    <3>1. UNCHANGED result /\ turn # None /\ command'[s] # 0 /\ \A q \in Session \ {s} : command'[q] = command[q]
      BY <2>1, JournalAssumption DEF BeginCommand, Turn
    <3>2. CASE To(submitted, s, turn) /\ To(handler, s, "submit")
      BY <3>1, <3>2
    <3>3. CASE To(submitted, s, None) /\ To(handler, s, "execute")
      BY <3>1, <3>3
    <3>. QED
      BY <2>1, <3>2, <3>3 DEF BeginCommand
  <2>2. CASE Execute(s)
    BY <2>2 DEF Execute, Outcome
  <2>3. CASE Answer(s)
    BY <2>3 DEF Answer, Forget
  <2>4. CASE RecordSubmitted(s)
    BY <2>4 DEF RecordSubmitted, KeepCommand
  <2>5. CASE RecordVerification(s)
    BY <2>5 DEF RecordVerification, KeepCommand
  <2>6. CASE RecordResult(s)
    <3>1. /\ UNCHANGED <<command, submitted, result>> /\ handler[s] = "result"
          /\ \/ To(handler, s, "answer")
             \/ To(handler, s, "verification") /\ result[s].outcome = "error" /\ result[s].turn # None
      <4>1. \/ /\ To(handler, s, IF result[s].outcome = "error" THEN "verification" ELSE "answer")
               /\ result[s].turn # None
            \/ To(handler, s, "answer")
        BY <2>6, StoreEnds DEF RecordResult
      <4>. QED
        BY <2>6, <4>1 DEF RecordResult, KeepCommand
    <3>. QED
      BY <3>1
  <2>. QED
    BY <1>4, <2>1, <2>2, <2>3, <2>4, <2>5, <2>6 DEF Handler
<1>5. CASE Correct \/ NextTurn \/ UNCHANGED vars
  BY <1>1, <1>5 DEF Correct, NextTurn, vars, watchers, handlerThread
<1>. QED
  BY <1>2, <1>3, <1>4, <1>5 DEF Next

\* Nobody else writes the file before its first record is there.
LEMMA CreatingStep ==
  ASSUME TypeOK, Creating, [Next]_vars
  PROVE  Creating'
<1> USE DEF TypeOK, Creating, To
<1>1. ASSUME UNCHANGED created, file = <<>> => file' = <<>>,
             \A q \in Session : proc'[q] = "created" => proc[q] = "created"
      PROVE  Creating'
  BY <1>1
<1>2. ASSUME NEW s \in Session, Lifetime(s) PROVE Creating'
  <2>1. CASE CreateFile(s)
    BY <2>1 DEF CreateFile, MayStart
  <2>2. CASE WriteStart(s)
    <3>1. created' /\ \A q \in Session : proc'[q] # "created"
      BY <2>2 DEF WriteStart
    <3>. QED
      BY <3>1
  <2>3. CASE BindSession(s)
    <3>1. UNCHANGED created /\ (file = <<>> => file' = <<>>)
      BY <2>3, EmptyStays DEF BindSession
    <3>2. To(proc, s, "running") \/ To(proc, s, "ended")
      BY <2>3, StoreEnds DEF BindSession
    <3>. QED
      BY <1>1, <3>1, <3>2
  <2>4. CASE OpenFile(s) \/ LeaveLoop(s) \/ ProcessEnds(s)
    BY <1>1, <2>4 DEF OpenFile, LeaveLoop, ProcessEnds
  <2>. QED
    BY <1>2, <2>1, <2>2, <2>3, <2>4 DEF Lifetime
<1>3. ASSUME NEW s \in Session, MainLoop(s) PROVE Creating'
  BY <1>1, <1>3, EmptyStays DEF MainLoop, ReadState, RecordTransition, RecordSnapshot
<1>4. ASSUME NEW s \in Session, Handler(s) PROVE Creating'
  BY <1>1, <1>4, EmptyStays
     DEF Handler, BeginCommand, RecordSubmitted, Execute, RecordResult, RecordVerification, Answer, KeepCommand
<1>5. CASE Correct
  BY <1>1, <1>5, EmptyStays DEF Correct, watchers
<1>6. CASE NextTurn \/ UNCHANGED vars
  BY <1>1, <1>6 DEF NextTurn, vars, watchers
<1>. QED
  BY <1>2, <1>3, <1>4, <1>5, <1>6 DEF Next

\* The types of the variables.
LEMMA TypesStep ==
  ASSUME TypeOK, Executing, file' \in Seq(Line), [Next]_vars
  PROVE  TypeOK'
<1> USE JournalAssumption DEF TypeOK, To
<1>1. ASSUME NEW s \in Session, Lifetime(s) PROVE TypeOK'
  <2>1. CASE CreateFile(s)
    BY <2>1 DEF CreateFile, mainLoop, handlerThread
  <2>2. CASE WriteStart(s)
    <3>1. faults' \in 0..MaxFault /\ (To(proc, s, "running") \/ To(proc, s, "ended"))
      BY <2>2 DEF WriteStart, WriteFails
    <3>. QED
      BY <2>2, <3>1 DEF WriteStart, mainLoop, handlerThread
  <2>3. CASE OpenFile(s)
    BY <2>3 DEF OpenFile, mainLoop, handlerThread
  <2>4. CASE BindSession(s)
    <3>1. faults' \in 0..MaxFault /\ (To(proc, s, "running") \/ To(proc, s, "ended"))
      BY <2>4, StoreEnds DEF BindSession
    <3>. QED
      BY <2>4, <3>1 DEF BindSession, mainLoop, handlerThread
  <2>5. CASE LeaveLoop(s)
    BY <2>5 DEF LeaveLoop, handlerThread
  <2>6. CASE ProcessEnds(s)
    BY <2>6 DEF ProcessEnds, Forget, Nothing, Turn
  <2>. QED
    BY <1>1, <2>1, <2>2, <2>3, <2>4, <2>5, <2>6 DEF Lifetime
<1>2. ASSUME NEW s \in Session, MainLoop(s) PROVE TypeOK'
  <2>1. CASE ReadState(s)
    BY <2>1 DEF ReadState, handlerThread
  <2>2. CASE RecordTransition(s)
    <3>1. faults' \in 0..MaxFault /\ (To(main, s, "snapshot") \/ To(main, s, "leaving"))
      BY <2>2, StoreEnds DEF RecordTransition
    <3>. QED
      BY <2>2, <3>1 DEF RecordTransition, handlerThread
  <2>3. CASE RecordSnapshot(s)
    <3>1. /\ faults' \in 0..MaxFault
          /\ \/ To(main, s, "loop") /\ To(previous, s, seen[s])
             \/ To(main, s, "leaving") /\ UNCHANGED previous
      BY <2>3, StoreEnds DEF RecordSnapshot
    <3>2. main' \in [Session -> {"loop", "transition", "snapshot", "leaving"}]
      BY <3>1
    <3>3. previous' \in [Session -> Turn \cup {None}]
      <4>1. previous \in [Session -> Turn \cup {None}] /\ seen[s] \in Turn \cup {None}
        OBVIOUS
      <4>. HIDE DEF TypeOK
      <4>. QED
        BY <3>1, <4>1
    <3>. QED
      BY <2>3, <3>1, <3>2, <3>3 DEF RecordSnapshot, handlerThread
  <2>. QED
    BY <1>2, <2>1, <2>2, <2>3 DEF MainLoop
<1>3. ASSUME NEW s \in Session, Handler(s) PROVE TypeOK'
  <2>1. CASE BeginCommand(s)
    <3>1. command' \in [Session -> 0..MaxCommand]
      BY <2>1 DEF BeginCommand
    <3>2. /\ submitted' \in [Session -> Turn \cup {None}]
          /\ handler' \in [Session -> {"idle", "submit", "execute", "result", "verification", "answer"}]
      <4>1. \/ To(submitted, s, turn) /\ To(handler, s, "submit")
            \/ To(submitted, s, None) /\ To(handler, s, "execute")
        BY <2>1 DEF BeginCommand
      <4>2. submitted' \in [Session -> Turn \cup {None}]
        BY <4>1 DEF Turn
      <4>3. handler' \in [Session -> {"idle", "submit", "execute", "result", "verification", "answer"}]
        BY <4>1
      <4>. QED
        BY <4>2, <4>3
    <3>3. errors' \in [Session -> BOOLEAN]
      BY <2>1, Zenon DEF BeginCommand
    <3>. QED
      BY <2>1, <3>1, <3>2, <3>3 DEF BeginCommand, mainLoop
  <2>2. CASE Execute(s)
    BY <2>2 DEF Execute, mainLoop, Outcome
  <2>3. CASE Answer(s)
    <3>1. claims' \subseteq [session : Session, command : 1..MaxCommand, outcome : Outcome]
      BY <2>3 DEF Answer, Executing
    <3>. QED
      BY <2>3, <3>1 DEF Answer, Forget, mainLoop, Nothing, Turn
  <2>4. CASE RecordSubmitted(s)
    <3>1. faults' \in 0..MaxFault /\ (UNCHANGED errors \/ To(errors, s, TRUE))
      BY <2>4, StoreEnds DEF RecordSubmitted
    <3>2. errors' \in [Session -> BOOLEAN]
      BY <3>1, Zenon
    <3>. QED
      BY <2>4, <3>1, <3>2 DEF RecordSubmitted, KeepCommand, mainLoop
  <2>5. CASE RecordResult(s)
    <3>1. /\ faults' \in 0..MaxFault /\ (UNCHANGED errors \/ To(errors, s, TRUE))
          /\ To(handler, s, "answer") \/ To(handler, s, "verification")
      BY <2>5, StoreEnds DEF RecordResult
    <3>2. errors' \in [Session -> BOOLEAN]
      BY <3>1, Zenon
    <3>. QED
      BY <2>5, <3>1, <3>2 DEF RecordResult, KeepCommand, mainLoop
  <2>6. CASE RecordVerification(s)
    <3>1. faults' \in 0..MaxFault /\ (UNCHANGED errors \/ To(errors, s, TRUE))
      BY <2>6, StoreEnds DEF RecordVerification
    <3>2. errors' \in [Session -> BOOLEAN]
      BY <3>1, Zenon
    <3>. QED
      BY <2>6, <3>1, <3>2 DEF RecordVerification, KeepCommand, mainLoop
  <2>. QED
    BY <1>3, <2>1, <2>2, <2>3, <2>4, <2>5, <2>6 DEF Handler
<1>4. CASE Correct
  <2>1. faults' \in 0..MaxFault
    BY <1>4, StoreEnds DEF Correct
  <2>. QED
    BY <1>4, <2>1 DEF Correct, watchers, mainLoop, handlerThread
<1>5. CASE NextTurn
  BY <1>5 DEF NextTurn, watchers, mainLoop, handlerThread, Turn
<1>6. CASE UNCHANGED vars
  BY <1>6 DEF vars, watchers, mainLoop, handlerThread
<1>. QED
  BY <1>1, <1>2, <1>3, <1>4, <1>5, <1>6 DEF Next

-----------------------------------------------------------------------------
\* Spec => []IInv.
THEOREM Invariant == Spec => []IInv
<1>1. Init => IInv
  <2> SUFFICES ASSUME Init PROVE IInv
    OBVIOUS
  <2>1. TypeOK
    <3>1. errors \in [Session -> BOOLEAN]
      BY Zenon DEF Init
    <3>2. result \in [Session -> [outcome : Outcome \cup {"none"}, turn : Turn \cup {None}]]
      BY DEF Init, Nothing
    <3>3. file \in Seq(Line) /\ turn \in Turn
      BY JournalAssumption DEF Init, Turn
    <3>4. created \in BOOLEAN
      BY Zenon DEF Init
    <3>5. /\ claims \subseteq [session : Session, command : 1..MaxCommand, outcome : Outcome]
          /\ command \in [Session -> 0..MaxCommand] /\ seen \in [Session -> Turn]
          /\ corrections \in 0..MaxCorrection /\ faults \in 0..MaxFault
      BY JournalAssumption DEF Init, Turn
    <3>. QED
      BY <3>1, <3>2, <3>3, <3>4, <3>5 DEF Init, TypeOK
  <2>2. Intact
    BY DEF Init, Intact, Whole
  <2>. QED
    BY <2>1, <2>2 DEF Init, IInv, Creating, Executing
<1>2. IInv /\ [Next]_vars => IInv'
  <2> SUFFICES ASSUME IInv, [Next]_vars PROVE IInv'
    OBVIOUS
  <2>1. TypeOK /\ Creating /\ Executing /\ Intact
    BY DEF IInv
  <2>2. file' \in Seq(Line) /\ Intact'
    BY <2>1, FileStep
  <2>3. TypeOK' /\ Executing' /\ Creating'
    BY <2>1, <2>2, TypesStep, ExecutingStep, CreatingStep
  <2>. QED
    BY <2>2, <2>3 DEF IInv
<1>. QED
  BY <1>1, <1>2, PTL DEF Spec

\* The file can always be read back, up to a record that was cut off at its end, whichever
\* watchers append to it, in whatever order and wherever they fail (Journal!Intact).
THEOREM FileIntact == Spec => []Intact
<1>1. IInv => Intact
  BY DEF IInv
<1>. QED
  BY <1>1, Invariant, PTL

\* The types of the variables (Journal!TypeOK).
THEOREM TypesTheorem == Spec => []TypeOK
<1>1. IInv => TypeOK
  BY DEF IInv
<1>. QED
  BY <1>1, Invariant, PTL

-----------------------------------------------------------------------------
(* The records of a command.                                               *)

\* Nothing is ever taken out of the file or changed in it.
Grows == \A i \in DOMAIN file : i \in DOMAIN file' /\ file'[i] = file[i]

\* What an append adds: the record, or a part of it, at the end.
LEMMA AppendGrows ==
  ASSUME file \in Seq(Line), NEW r \in Line, Written(r)
  PROVE  /\ Grows
         /\ \A i \in DOMAIN file' :
              i \in DOMAIN file \/ (i = Len(file) + 1 /\ file'[i] \in {r, Torn})
<1>1. Torn \in Line
  BY DEF Torn, Line, Kind
<1>2. file' = file \/ \E x \in {r, Torn} : file' = Append(file, x)
  BY DEF Written
<1>3. ASSUME NEW x \in {r, Torn}, file' = Append(file, x)
      PROVE  /\ Grows
             /\ \A i \in DOMAIN file' :
                  i \in DOMAIN file \/ (i = Len(file) + 1 /\ file'[i] \in {r, Torn})
  <2>1. /\ DOMAIN file = 1..Len(file) /\ DOMAIN file' = 1..Len(file) + 1 /\ Len(file) \in Nat
        /\ file'[Len(file) + 1] = x /\ \A i \in 1..Len(file) : file'[i] = file[i]
    BY <1>1, <1>3
  <2>. QED
    BY <2>1 DEF Grows
<1>. QED
  BY <1>2, <1>3 DEF Grows

\* An append that ends with success is at the end of the file.
LEMMA StoreOutcome ==
  ASSUME file \in Seq(Line), NEW r \in Line, NEW ACTION ok, NEW ACTION failed, Store(r, ok, failed)
  PROVE  \/ ok /\ Len(file) + 1 \in DOMAIN file' /\ file'[Len(file) + 1] = r
         \/ failed
<1>1. CASE file' = Append(file, r) /\ ok
  BY <1>1
<1>. QED
  BY <1>1 DEF Store

\* Every step appends one of the records of ProperRecords, the first record, or nothing.
LEMMA EveryStepGrows ==
  ASSUME TypeOK, Executing, [Next]_vars
  PROVE  Grows
<1> USE JournalAssumption
<1>1. ASSUME file' = file PROVE Grows
  BY <1>1 DEF Grows
<1>2. ASSUME NEW r, Proper(r), Written(r) PROVE Grows
  BY <1>2, AppendGrows DEF TypeOK, Proper
<1>3. ASSUME NEW s \in Session, WriteStart(s) PROVE Grows
  <2>1. Rec("journal_started", s, None, None) \in Line /\ Torn \in Line
    BY DEF Rec, Torn, Line, Kind, Binding
  <2>2. \/ file' = file \/ file' = Append(file, Torn)
        \/ file' = Append(file, Rec("journal_started", s, None, None))
    BY <1>3 DEF WriteStart, WriteFails
  <2>3. ASSUME NEW x \in Line, file' = Append(file, x) PROVE Grows
    BY <2>3 DEF Grows, TypeOK
  <2>. QED
    BY <1>1, <2>1, <2>2, <2>3
<1>4. ASSUME NEW s \in Session, Lifetime(s) PROVE Grows
  <2>1. CASE BindSession(s)
    BY <1>2, <2>1, ProperRecords, StoreWrites DEF BindSession
  <2>2. CASE CreateFile(s) \/ OpenFile(s) \/ LeaveLoop(s) \/ ProcessEnds(s)
    BY <1>1, <2>2 DEF CreateFile, OpenFile, LeaveLoop, ProcessEnds
  <2>. QED
    BY <1>3, <1>4, <2>1, <2>2 DEF Lifetime
<1>5. ASSUME NEW s \in Session, MainLoop(s) PROVE Grows
  <2>1. CASE RecordTransition(s)
    BY <1>2, <2>1, ProperRecords, StoreWrites DEF RecordTransition
  <2>2. CASE RecordSnapshot(s)
    BY <1>2, <2>2, ProperRecords, StoreWrites DEF RecordSnapshot
  <2>3. CASE ReadState(s)
    BY <1>1, <2>3 DEF ReadState
  <2>. QED
    BY <1>5, <2>1, <2>2, <2>3 DEF MainLoop
<1>6. ASSUME NEW s \in Session, Handler(s) PROVE Grows
  <2>1. CASE RecordSubmitted(s)
    BY <1>2, <2>1, ProperRecords, StoreWrites DEF RecordSubmitted
  <2>2. CASE RecordResult(s)
    BY <1>1, <1>2, <2>2, ProperRecords, StoreWrites DEF RecordResult
  <2>3. CASE RecordVerification(s)
    BY <1>2, <2>3, ProperRecords, StoreWrites DEF RecordVerification
  <2>4. CASE BeginCommand(s) \/ Execute(s) \/ Answer(s)
    BY <1>1, <2>4 DEF BeginCommand, Execute, Answer
  <2>. QED
    BY <1>6, <2>1, <2>2, <2>3, <2>4 DEF Handler
<1>7. CASE Correct
  BY <1>2, <1>7, ProperRecords, StoreWrites DEF Correct
<1>8. CASE NextTurn \/ UNCHANGED vars
  BY <1>1, <1>8 DEF NextTurn, vars
<1>. QED
  BY <1>4, <1>5, <1>6, <1>7, <1>8 DEF Next

Submitted(s, c) == \E i \in DOMAIN file : Holds("command_submitted", s, c, i)

\* What the result of command c of session s leaves in the file, if it has a turn.
Resulted(s, c) ==
  \E i, j \in DOMAIN file : i < j /\ Holds("command_submitted", s, c, i) /\ Holds("command_result", s, c, j)

\* What a handler thread without a journal error has in the file.
LifecycleOf(s) ==
  handler[s] \notin {"idle", "submit"} /\ errors[s] = FALSE =>
    /\ submitted[s] # None /\ Submitted(s, command[s])
    /\ handler[s] = "result" =>
         /\ result[s].outcome \in {"result", "error", "malformed"}
         /\ result[s].turn = None => result[s].outcome = "malformed"
    /\ handler[s] = "verification" /\ result[s].outcome # "unknown" =>
         result[s].outcome = "error" /\ Resulted(s, command[s])
    /\ handler[s] = "answer" =>
         Journaled([session |-> s, command |-> command[s], outcome |-> result[s].outcome])

Lifecycle == \A s \in Session : LifecycleOf(s)

\* What is in the file stays there.
LEMMA HeldStays ==
  ASSUME Grows
  PROVE  /\ \A s, c : Submitted(s, c) => Submitted(s, c)'
         /\ \A s, c : Resulted(s, c) => Resulted(s, c)'
         /\ \A a : Journaled(a) => Journaled(a)'
<1>1. \A kind, s, c : \A i \in DOMAIN file : Holds(kind, s, c, i) => Holds(kind, s, c, i)' /\ i \in DOMAIN file'
  BY DEF Grows, Holds
<1>2. ASSUME NEW s, NEW c, Submitted(s, c) PROVE Submitted(s, c)'
  BY <1>1, <1>2 DEF Submitted
<1>3. ASSUME NEW s, NEW c, Resulted(s, c) PROVE Resulted(s, c)'
  BY <1>1, <1>3 DEF Resulted
<1>4. ASSUME NEW a, Journaled(a) PROVE Journaled(a)'
  <2>1. CASE a.outcome = "silent"
    BY <2>1 DEF Journaled
  <2>2. CASE a.outcome # "silent"
    <3>1. PICK i \in DOMAIN file :
            /\ Holds("command_submitted", a.session, a.command, i)
            /\ a.outcome # "malformed" =>
                 \E j \in DOMAIN file :
                   /\ i < j
                   /\ Holds(IF a.outcome = "unknown" THEN "verification_error" ELSE "command_result",
                            a.session, a.command, j)
                   /\ a.outcome = "error" =>
                        \E k \in DOMAIN file : j < k /\ Holds("verification_error", a.session, a.command, k)
      BY <1>4, <2>2 DEF Journaled
    <3>2. i \in DOMAIN file' /\ Holds("command_submitted", a.session, a.command, i)'
      BY <1>1, <3>1
    <3>3. ASSUME a.outcome # "malformed"
          PROVE  \E j \in DOMAIN file' :
                   /\ i < j
                   /\ Holds(IF a.outcome = "unknown" THEN "verification_error" ELSE "command_result",
                            a.session, a.command, j)'
                   /\ a.outcome = "error" =>
                        \E k \in DOMAIN file' : j < k /\ Holds("verification_error", a.session, a.command, k)'
      <4>1. PICK j \in DOMAIN file :
              /\ i < j
              /\ Holds(IF a.outcome = "unknown" THEN "verification_error" ELSE "command_result",
                       a.session, a.command, j)
              /\ a.outcome = "error" =>
                   \E k \in DOMAIN file : j < k /\ Holds("verification_error", a.session, a.command, k)
        BY <3>1, <3>3
      <4>2. /\ j \in DOMAIN file'
            /\ Holds(IF a.outcome = "unknown" THEN "verification_error" ELSE "command_result",
                     a.session, a.command, j)'
        BY <1>1, <4>1
      <4>3. a.outcome = "error" =>
              \E k \in DOMAIN file' : j < k /\ Holds("verification_error", a.session, a.command, k)'
        BY <1>1, <4>1
      <4>. QED
        BY <4>1, <4>2, <4>3
    <3>. QED
      BY <3>2, <3>3 DEF Journaled
  <2>. QED
    BY <2>1, <2>2
<1>. QED
  BY <1>2, <1>3, <1>4

\* A handler thread that does not move.
LEMMA LifecycleKept ==
  ASSUME Grows, NEW s \in Session, LifecycleOf(s),
         UNCHANGED <<handler[s], command[s], submitted[s], result[s], errors[s]>>
  PROVE  LifecycleOf(s)'
BY HeldStays DEF LifecycleOf

\* A handler thread that moves.
LEMMA LifecycleHandler ==
  ASSUME TypeOK, Executing, Lifecycle, Grows, NEW s \in Session, Handler(s)
  PROVE  LifecycleOf(s)'
<1> USE JournalAssumption
<1>1. /\ LifecycleOf(s) /\ errors[s] \in BOOLEAN /\ file \in Seq(Line)
      /\ DOMAIN file = 1..Len(file) /\ Len(file) \in Nat
  <2>1. errors[s] \in BOOLEAN
    BY ZenonT(20) DEF TypeOK
  <2>. QED
    BY <2>1 DEF Lifecycle, TypeOK
<1>2. CASE BeginCommand(s)
  <2>1. handler'[s] = "submit" \/ errors'[s] = TRUE
    BY <1>2 DEF BeginCommand, To, TypeOK
  <2>. QED
    BY <2>1 DEF LifecycleOf
<1>3. CASE RecordSubmitted(s)
  <2> DEFINE r == Rec("command_submitted", s, submitted[s], command[s])
  <2>1. r \in Line /\ handler[s] = "submit" /\ submitted[s] # None
    BY <1>3, ProperRecords DEF RecordSubmitted, Proper, Executing
  <2>2. /\ handler'[s] = "execute" /\ UNCHANGED <<submitted, command>>
        /\ Store(r, UNCHANGED errors, To(errors, s, TRUE))
    BY <1>3 DEF RecordSubmitted, KeepCommand, To, TypeOK
  <2>3. CASE errors'[s] = TRUE
    BY <2>3 DEF LifecycleOf
  <2>4. CASE Len(file) + 1 \in DOMAIN file' /\ file'[Len(file) + 1] = r
    <3>1. Submitted(s, command[s])'
      BY <2>2, <2>4 DEF Submitted, Holds, Rec
    <3>. QED
      BY <2>1, <2>2, <3>1 DEF LifecycleOf
  <2>. QED
    BY <1>1, <2>1, <2>2, <2>3, <2>4, StoreOutcome DEF To, TypeOK
<1>4. CASE Execute(s)
  <2>1. /\ handler[s] = "execute" /\ UNCHANGED <<submitted, command, errors>>
        /\ \E o \in Outcome :
             /\ result'[s] = [outcome |-> o, turn |-> IF o = "malformed" THEN None ELSE turn]
             /\ handler'[s] = IF o = "silent" \/ (o = "unknown" /\ submitted[s] = None) THEN "answer"
                              ELSE IF o = "unknown" THEN "verification" ELSE "result"
    BY <1>4 DEF Execute, To, TypeOK
  <2>2. PICK o \in Outcome :
             /\ result'[s] = [outcome |-> o, turn |-> IF o = "malformed" THEN None ELSE turn]
             /\ handler'[s] = IF o = "silent" \/ (o = "unknown" /\ submitted[s] = None) THEN "answer"
                              ELSE IF o = "unknown" THEN "verification" ELSE "result"
    BY <2>1
  <2>3. CASE errors[s] = TRUE
    BY <2>1, <2>3 DEF LifecycleOf
  <2>4. CASE errors[s] = FALSE
    <3>1. submitted[s] # None /\ Submitted(s, command[s])'
      BY <1>1, <2>1, <2>4, HeldStays DEF LifecycleOf
    <3>2. result'[s].outcome = o
      BY <2>2
    <3>3. handler'[s] = "answer" =>
            Journaled([session |-> s, command |-> command[s], outcome |-> result[s].outcome])'
      BY <2>2, <3>1, <3>2 DEF Journaled
    <3>4. handler'[s] = "result" =>
            /\ o \in {"result", "error", "malformed"}
            /\ result'[s].turn = None => o = "malformed"
      <4>1. turn # None
        BY DEF TypeOK, Turn
      <4>. QED
        BY <2>2, <4>1 DEF Outcome
    <3>5. handler'[s] = "verification" => o = "unknown"
      BY <2>2
    <3>. QED
      BY <2>1, <3>1, <3>2, <3>3, <3>4, <3>5 DEF LifecycleOf
  <2>. QED
    BY <1>1, <2>3, <2>4
<1>5. CASE RecordResult(s) /\ result[s].turn = None
  <2>1. /\ handler[s] = "result" /\ handler'[s] = "answer"
        /\ UNCHANGED <<submitted, command, result, errors>>
    BY <1>5 DEF RecordResult, KeepCommand, To, TypeOK
  <2>2. CASE errors[s] = TRUE
    BY <2>1, <2>2 DEF LifecycleOf
  <2>3. CASE errors[s] = FALSE
    <3>1. submitted[s] # None /\ Submitted(s, command[s])' /\ result'[s].outcome = "malformed"
      BY <1>1, <1>5, <2>1, <2>3, HeldStays DEF LifecycleOf
    <3>2. PICK c : c = command[s]
      OBVIOUS
    <3>3. PICK i \in DOMAIN file' : Holds("command_submitted", s, c, i)'
      BY <2>1, <3>1, <3>2 DEF Submitted
    <3>4. Journaled([session |-> s, command |-> command[s], outcome |-> result[s].outcome])'
      BY <2>1, <3>1, <3>2, <3>3 DEF Journaled
    <3>. QED
      BY <2>1, <3>1, <3>4 DEF LifecycleOf
  <2>. QED
    BY <1>1, <2>2, <2>3
<1>6. CASE RecordResult(s) /\ result[s].turn # None
  <2> DEFINE r == Rec("command_result", s, result[s].turn, command[s])
             next == IF result[s].outcome = "error" THEN "verification" ELSE "answer"
  <2>1. r \in Line /\ handler[s] = "result"
    BY <1>6, ProperRecords DEF RecordResult, Proper
  <2>2. /\ UNCHANGED <<submitted, command, result>>
        /\ Store(r, To(handler, s, next) /\ UNCHANGED errors, To(handler, s, "answer") /\ To(errors, s, TRUE))
    BY <1>6 DEF RecordResult, KeepCommand
  <2>3. CASE errors'[s] = TRUE
    BY <2>3 DEF LifecycleOf
  <2>4. CASE errors[s] = TRUE /\ UNCHANGED errors
    BY <2>4 DEF LifecycleOf
  <2>5. CASE /\ errors[s] = FALSE /\ handler'[s] = next
             /\ Len(file) + 1 \in DOMAIN file' /\ file'[Len(file) + 1] = r
    <3>1. /\ submitted[s] # None /\ Submitted(s, command[s]) /\ Submitted(s, command[s])'
          /\ result[s].outcome \in {"result", "error", "malformed"}
      BY <1>1, <2>1, <2>2, <2>5, HeldStays DEF LifecycleOf
    <3>2. PICK c, n : c = command[s] /\ n = Len(file) + 1
      OBVIOUS
    <3>3. PICK i \in DOMAIN file : Holds("command_submitted", s, c, i)
      BY <3>1, <3>2 DEF Submitted
    <3>4. i \in DOMAIN file' /\ i < n /\ Holds("command_submitted", s, c, i)'
      BY <1>1, <3>2, <3>3 DEF Grows, Holds
    <3>5. n \in DOMAIN file' /\ Holds("command_result", s, c, n)' /\ command'[s] = c
      BY <2>2, <2>5, <3>2 DEF Holds, Rec
    <3>6. Resulted(s, command[s])'
      BY <3>4, <3>5 DEF Resulted
    <3>7. handler'[s] = "answer" =>
            Journaled([session |-> s, command |-> command[s], outcome |-> result[s].outcome])'
      <4>1. handler'[s] = "answer" => result'[s].outcome \in {"result", "malformed"}
        BY <2>2, <2>5, <3>1
      <4>. QED
        BY <3>4, <3>5, <4>1 DEF Journaled
    <3>8. handler'[s] = "verification" => result'[s].outcome = "error"
      BY <2>2, <2>5
    <3>9. handler'[s] # "result"
      BY <2>5
    <3>. QED
      BY <2>2, <3>1, <3>6, <3>7, <3>8, <3>9 DEF LifecycleOf
  <2>6. CASE handler'[s] = next /\ UNCHANGED errors
             /\ Len(file) + 1 \in DOMAIN file' /\ file'[Len(file) + 1] = r
    BY <1>1, <2>4, <2>5, <2>6
  <2>. QED
    BY <1>1, <2>1, <2>2, <2>3, <2>6, StoreOutcome DEF To, TypeOK
<1>7. CASE RecordVerification(s)
  <2> DEFINE r == Verification(s)
  <2>1. r \in Line /\ handler[s] = "verification"
    BY <1>7, ProperRecords DEF RecordVerification, Proper
  <2>2. /\ UNCHANGED <<submitted, command, result>> /\ handler'[s] = "answer"
        /\ Store(r, UNCHANGED errors, To(errors, s, TRUE))
    BY <1>7 DEF RecordVerification, KeepCommand, To, TypeOK
  <2>3. CASE errors'[s] = TRUE
    BY <2>3 DEF LifecycleOf
  <2>4. CASE errors[s] = TRUE /\ UNCHANGED errors
    BY <2>4 DEF LifecycleOf
  <2>5. CASE /\ errors[s] = FALSE /\ Len(file) + 1 \in DOMAIN file' /\ file'[Len(file) + 1] = r
    <3>1. PICK c, n : c = command[s] /\ n = Len(file) + 1
      OBVIOUS
    <3>2. n \in DOMAIN file' /\ Holds("verification_error", s, c, n)' /\ command'[s] = c
      BY <2>2, <2>5, <3>1 DEF Holds, Rec, Verification
    <3>3. /\ submitted[s] # None /\ Submitted(s, c)
          /\ result[s].outcome # "unknown" => result[s].outcome = "error" /\ Resulted(s, c)
      BY <1>1, <2>1, <2>5, <3>1 DEF LifecycleOf
    <3>4. \A i \in DOMAIN file : i \in DOMAIN file' /\ i < n /\ \A kind :
            Holds(kind, s, c, i) => Holds(kind, s, c, i)'
      BY <1>1, <3>1 DEF Grows, Holds
    <3>5. CASE result[s].outcome = "unknown"
      <4>1. PICK i \in DOMAIN file : Holds("command_submitted", s, c, i)
        BY <3>3 DEF Submitted
      <4>2. Journaled([session |-> s, command |-> command[s], outcome |-> result[s].outcome])'
        BY <2>2, <3>2, <3>4, <3>5, <4>1 DEF Journaled
      <4>. QED
        BY <2>2, <3>2, <3>3, <4>2, HeldStays DEF LifecycleOf
    <3>6. CASE result[s].outcome = "error"
      <4>1. Resulted(s, c)
        BY <3>3, <3>6
      <4>2. PICK i, j \in DOMAIN file :
              i < j /\ Holds("command_submitted", s, c, i) /\ Holds("command_result", s, c, j)
        BY <4>1 DEF Resulted
      <4>3. Journaled([session |-> s, command |-> command[s], outcome |-> result[s].outcome])'
        BY <2>2, <3>2, <3>4, <3>6, <4>2 DEF Journaled
      <4>. QED
        BY <2>2, <3>2, <3>3, <4>3, HeldStays DEF LifecycleOf
    <3>. QED
      BY <3>3, <3>5, <3>6
  <2>6. CASE UNCHANGED errors /\ Len(file) + 1 \in DOMAIN file' /\ file'[Len(file) + 1] = r
    BY <1>1, <2>4, <2>5, <2>6
  <2>. QED
    BY <1>1, <2>1, <2>2, <2>3, <2>6, StoreOutcome DEF To, TypeOK
<1>8. CASE Answer(s)
  BY <1>8 DEF Answer, To, TypeOK, LifecycleOf
<1>. QED
  BY <1>2, <1>3, <1>4, <1>5, <1>6, <1>7, <1>8 DEF Handler

\* Every step keeps what the threads have in the file.
LEMMA LifecycleStep ==
  ASSUME TypeOK, Executing, Lifecycle, [Next]_vars
  PROVE  Lifecycle'
<1>1. Grows
  BY EveryStepGrows
<1> SUFFICES ASSUME NEW q \in Session PROVE LifecycleOf(q)'
  BY DEF Lifecycle
<1>2. LifecycleOf(q)
  BY DEF Lifecycle
<1>3. CASE UNCHANGED handlerThread
  BY <1>1, <1>2, <1>3, LifecycleKept DEF handlerThread
<1>4. ASSUME NEW s \in Session, Lifetime(s) PROVE LifecycleOf(q)'
  <2>1. CASE ProcessEnds(s) /\ q = s
    BY <2>1 DEF ProcessEnds, To, TypeOK, LifecycleOf
  <2>2. CASE ProcessEnds(s) /\ q # s
    <3>1. UNCHANGED <<handler[q], command[q], submitted[q], result[q], errors[q]>>
      BY <2>2 DEF ProcessEnds, Forget, To, TypeOK
    <3>. QED
      BY <1>1, <1>2, <3>1, LifecycleKept
  <2>3. CASE ~ProcessEnds(s)
    BY <1>3, <1>4, <2>3 DEF Lifetime, CreateFile, WriteStart, OpenFile, BindSession, LeaveLoop
  <2>. QED
    BY <2>1, <2>2, <2>3
<1>5. ASSUME NEW s \in Session, MainLoop(s) PROVE LifecycleOf(q)'
  BY <1>3, <1>5 DEF MainLoop, ReadState, RecordTransition, RecordSnapshot
<1>6. ASSUME NEW s \in Session, Handler(s), q # s PROVE LifecycleOf(q)'
  <2>1. UNCHANGED <<handler[q], command[q], submitted[q]>>
    BY <1>6, StoreEnds DEF Handler, BeginCommand, RecordSubmitted, Execute, RecordResult, RecordVerification,
       Answer, KeepCommand, Forget, To, TypeOK
  <2>2. UNCHANGED <<result[q], errors[q]>>
    BY <1>6, StoreEnds DEF Handler, BeginCommand, RecordSubmitted, Execute, RecordResult, RecordVerification,
       Answer, KeepCommand, Forget, To, TypeOK
  <2>. QED
    BY <1>1, <1>2, <2>1, <2>2, LifecycleKept
<1>7. CASE Correct \/ NextTurn \/ UNCHANGED vars
  BY <1>3, <1>7 DEF Correct, NextTurn, vars, watchers
<1>. QED
  BY <1>1, <1>4, <1>5, <1>6, <1>7, LifecycleHandler DEF Next

\* An answer claims what its thread has in the file.
LEMMA ClaimsStep ==
  ASSUME TypeOK, Executing, Lifecycle, ClaimsJournaled, [Next]_vars
  PROVE  ClaimsJournaled'
<1>1. \A a : Journaled(a) => Journaled(a)'
  BY EveryStepGrows, HeldStays
<1>2. CASE UNCHANGED claims
  BY <1>1, <1>2 DEF ClaimsJournaled
<1>3. ASSUME NEW s \in Session, Answer(s) PROVE ClaimsJournaled'
  <2> DEFINE a == [session |-> s, command |-> command[s], outcome |-> result[s].outcome]
  <2>1. /\ handler[s] = "answer"
        /\ claims' = IF errors[s] /\ result[s].outcome # "silent" THEN claims ELSE claims \cup {a}
    BY <1>3 DEF Answer
  <2>2. CASE errors[s] = TRUE /\ result[s].outcome # "silent"
    BY <1>2, <2>1, <2>2
  <2>3. CASE errors[s] = FALSE \/ result[s].outcome = "silent"
    <3>1. Journaled(a)
      <4>1. CASE errors[s] = FALSE
        BY <2>1, <4>1 DEF Lifecycle, LifecycleOf
      <4>2. CASE result[s].outcome = "silent"
        BY <4>2 DEF Journaled
      <4>. QED
        BY <2>3, <4>1, <4>2
    <3>2. PICK b : b = a
      OBVIOUS
    <3>. QED
      BY <1>1, <2>1, <2>3, <3>1, <3>2 DEF ClaimsJournaled
  <2>. QED
    BY <2>2, <2>3 DEF TypeOK
<1>4. ASSUME NEW s \in Session, Lifetime(s) \/ MainLoop(s) \/ Handler(s), ~Answer(s) PROVE ClaimsJournaled'
  BY <1>2, <1>4 DEF Lifetime, CreateFile, WriteStart, OpenFile, BindSession, LeaveLoop, ProcessEnds,
     MainLoop, ReadState, RecordTransition, RecordSnapshot, handlerThread,
     Handler, BeginCommand, RecordSubmitted, Execute, RecordResult, RecordVerification, KeepCommand
<1>5. CASE Correct \/ NextTurn \/ UNCHANGED vars
  BY <1>2, <1>5 DEF Correct, NextTurn, vars, watchers, handlerThread
<1>. QED
  BY <1>3, <1>4, <1>5 DEF Next

\* An answer that reports no journal error is about a command whose whole lifecycle is in
\* the file in its order, whatever other watchers append and whichever appends fail
\* (journal/integration.py 66-139, watch.py 312-368).
THEOREM ClaimsTheorem == Spec => []ClaimsJournaled
<1>1. Init => Lifecycle /\ ClaimsJournaled
  BY DEF Init, Lifecycle, LifecycleOf, ClaimsJournaled
<1>2. IInv /\ Lifecycle /\ ClaimsJournaled /\ [Next]_vars => (Lifecycle /\ ClaimsJournaled)'
  BY LifecycleStep, ClaimsStep DEF IInv
<1>. QED
  BY <1>1, <1>2, Invariant, PTL DEF Spec

-----------------------------------------------------------------------------
(* What each step appends.                                                 *)

\* A record that a step has appended is of a live kind only when it is the one that the
\* main loop, or the handler thread, of its session was about to write.
LEMMA StepRecords ==
  ASSUME TypeOK, Executing, [Next]_vars, NEW i \in DOMAIN file', i \notin DOMAIN file
  PROVE  /\ i = Len(file) + 1
         /\ \/ file'[i].kind \notin Live /\ file'[i].turn = None
            \/ \E s \in Session :
                 \/ RecordTransition(s) /\ file'[i] = Rec("turn_transition", s, seen[s], previous[s])
                 \/ RecordSnapshot(s) /\ file'[i] = Rec("snapshot", s, seen[s], None)
                 \/ RecordSubmitted(s) /\ file'[i] = Rec("command_submitted", s, submitted[s], command[s])
                 \/ RecordResult(s) /\ file'[i] = Rec("command_result", s, result[s].turn, command[s])
                 \/ RecordVerification(s) /\ file'[i] = Verification(s)
<1> DEFINE Goal ==
         /\ i = Len(file) + 1
         /\ \/ file'[i].kind \notin Live /\ file'[i].turn = None
            \/ \E s \in Session :
                 \/ RecordTransition(s) /\ file'[i] = Rec("turn_transition", s, seen[s], previous[s])
                 \/ RecordSnapshot(s) /\ file'[i] = Rec("snapshot", s, seen[s], None)
                 \/ RecordSubmitted(s) /\ file'[i] = Rec("command_submitted", s, submitted[s], command[s])
                 \/ RecordResult(s) /\ file'[i] = Rec("command_result", s, result[s].turn, command[s])
                 \/ RecordVerification(s) /\ file'[i] = Verification(s)
<1> USE JournalAssumption
<1>1. Torn.kind \notin Live /\ Torn.turn = None
  BY DEF Torn, Live
<1>2. ASSUME file' = file PROVE FALSE
  BY <1>2
<1>3. ASSUME NEW r, Proper(r), Written(r) PROVE i = Len(file) + 1 /\ file'[i] \in {r, Torn}
  BY <1>3, AppendGrows DEF TypeOK, Proper
<1>4. ASSUME NEW s \in Session, WriteStart(s) PROVE Goal
  <2>1. Rec("journal_started", s, None, None) \in Line /\ Torn \in Line
    BY DEF Rec, Torn, Line, Kind, Binding
  <2>2. \/ file' = Append(file, Torn)
        \/ file' = Append(file, Rec("journal_started", s, None, None))
    BY <1>2, <1>4 DEF WriteStart, WriteFails
  <2>3. ASSUME NEW x \in Line, file' = Append(file, x) PROVE i = Len(file) + 1 /\ file'[i] = x
    BY <2>3 DEF TypeOK
  <2>. QED
    BY <1>1, <2>1, <2>2, <2>3 DEF Rec, Live
<1>5. ASSUME NEW s \in Session, Lifetime(s) PROVE Goal
  <2>1. CASE BindSession(s)
    <3>1. i = Len(file) + 1 /\ file'[i] \in {Rec("session_binding", s, None, None), Torn}
      BY <1>3, <2>1, ProperRecords, StoreWrites DEF BindSession
    <3>. QED
      BY <1>1, <3>1 DEF Rec, Live
  <2>2. CASE CreateFile(s) \/ OpenFile(s) \/ LeaveLoop(s) \/ ProcessEnds(s)
    BY <1>2, <2>2 DEF CreateFile, OpenFile, LeaveLoop, ProcessEnds
  <2>. QED
    BY <1>4, <1>5, <2>1, <2>2 DEF Lifetime
<1>6. ASSUME NEW s \in Session, MainLoop(s) PROVE Goal
  <2>1. CASE RecordTransition(s)
    <3>1. i = Len(file) + 1 /\ file'[i] \in {Rec("turn_transition", s, seen[s], previous[s]), Torn}
      BY <1>3, <2>1, ProperRecords, StoreWrites DEF RecordTransition
    <3>. QED
      BY <1>1, <2>1, <3>1
  <2>2. CASE RecordSnapshot(s)
    <3>1. i = Len(file) + 1 /\ file'[i] \in {Rec("snapshot", s, seen[s], None), Torn}
      BY <1>3, <2>2, ProperRecords, StoreWrites DEF RecordSnapshot
    <3>. QED
      BY <1>1, <2>2, <3>1
  <2>3. CASE ReadState(s)
    BY <1>2, <2>3 DEF ReadState
  <2>. QED
    BY <1>6, <2>1, <2>2, <2>3 DEF MainLoop
<1>7. ASSUME NEW s \in Session, Handler(s) PROVE Goal
  <2>1. CASE RecordSubmitted(s)
    <3>1. i = Len(file) + 1 /\ file'[i] \in {Rec("command_submitted", s, submitted[s], command[s]), Torn}
      BY <1>3, <2>1, ProperRecords, StoreWrites DEF RecordSubmitted
    <3>. QED
      BY <1>1, <2>1, <3>1
  <2>2. CASE RecordResult(s)
    <3>1. i = Len(file) + 1 /\ file'[i] \in {Rec("command_result", s, result[s].turn, command[s]), Torn}
      BY <1>2, <1>3, <2>2, ProperRecords, StoreWrites DEF RecordResult
    <3>. QED
      BY <1>1, <2>2, <3>1
  <2>3. CASE RecordVerification(s)
    <3>1. i = Len(file) + 1 /\ file'[i] \in {Verification(s), Torn}
      BY <1>3, <2>3, ProperRecords, StoreWrites DEF RecordVerification
    <3>. QED
      BY <1>1, <2>3, <3>1
  <2>4. CASE BeginCommand(s) \/ Execute(s) \/ Answer(s)
    BY <1>2, <2>4 DEF BeginCommand, Execute, Answer
  <2>. QED
    BY <1>7, <2>1, <2>2, <2>3, <2>4 DEF Handler
<1>8. CASE Correct
  <2>1. PICK n \in 0..Len(file) : Store(Rec("correction", None, None, n), TRUE, TRUE)
    BY <1>8 DEF Correct
  <2>2. Proper(Rec("correction", None, None, n)) /\ Written(Rec("correction", None, None, n))
    BY <2>1, ProperRecords, StoreWrites
  <2>3. i = Len(file) + 1 /\ file'[i] \in {Rec("correction", None, None, n), Torn}
    BY <1>3, <2>2
  <2>. QED
    BY <1>1, <2>3 DEF Rec, Live
<1>9. CASE NextTurn \/ UNCHANGED vars
  BY <1>2, <1>9 DEF NextTurn, vars
<1>. QED
  BY <1>5, <1>6, <1>7, <1>8, <1>9 DEF Next

-----------------------------------------------------------------------------
(* Turns only go forward.                                                  *)

\* No record is of a later turn than t.
Past(t) == \A i \in DOMAIN file : file[i].turn # None => file[i].turn <= t

\* Nothing that was read of the game, and nothing in the file, is ahead of the game.
TurnsRead ==
  /\ Past(turn)
  /\ \A s \in Session :
       /\ seen[s] <= turn
       /\ previous[s] # None => previous[s] <= turn
       /\ submitted[s] # None => submitted[s] <= turn
       /\ result[s].turn # None => result[s].turn <= turn

LEMMA TurnsReadStep ==
  ASSUME TypeOK, Executing, TurnsRead, [Next]_vars
  PROVE  TurnsRead'
<1> USE JournalAssumption
<1>1. turn \in Nat /\ turn' \in Nat /\ turn <= turn'
  <2>1. CASE NextTurn
    BY <2>1 DEF NextTurn, TypeOK, Turn
  <2>2. CASE UNCHANGED turn
    BY <2>2 DEF TypeOK, Turn
  <2>3. ~NextTurn => UNCHANGED turn
    BY DEF Next, vars, Lifetime, CreateFile, WriteStart, OpenFile, BindSession, LeaveLoop, ProcessEnds,
       MainLoop, ReadState, RecordTransition, RecordSnapshot, Correct, KeepCommand,
       Handler, BeginCommand, RecordSubmitted, Execute, RecordResult, RecordVerification, Answer
  <2>. QED
    BY <2>1, <2>2, <2>3
<1>2. Past(turn)'
  <2> SUFFICES ASSUME NEW i \in DOMAIN file', file'[i].turn # None PROVE file'[i].turn <= turn'
    BY DEF Past
  <2>1. CASE i \in DOMAIN file
    <3>1. file'[i] = file[i] /\ file[i] \in Line /\ file[i].turn <= turn
      BY <2>1, EveryStepGrows DEF Grows, TypeOK, TurnsRead, Past
    <3>. QED
      BY <1>1, <3>1 DEF Line, Turn
  <2>2. CASE i \notin DOMAIN file
    <3>1. \E s \in Session : file'[i].turn \in {seen[s], submitted[s], result[s].turn}
      BY <2>2, StepRecords DEF Rec, Verification
    <3>2. PICK s \in Session : file'[i].turn \in {seen[s], submitted[s], result[s].turn}
      BY <3>1
    <3>3. file'[i].turn \in Nat /\ file'[i].turn <= turn
      BY <3>2 DEF TurnsRead, TypeOK, Turn
    <3>. QED
      BY <1>1, <3>3
  <2>. QED
    BY <2>1, <2>2
<1>3. ASSUME NEW q \in Session
      PROVE  /\ seen'[q] <= turn'
             /\ previous'[q] # None => previous'[q] <= turn'
             /\ submitted'[q] # None => submitted'[q] <= turn'
             /\ result'[q].turn # None => result'[q].turn <= turn'
  <2>1. /\ seen'[q] \in {seen[q], turn, 0} /\ previous'[q] \in {previous[q], seen[q], None}
        /\ submitted'[q] \in {submitted[q], turn, None} /\ result'[q].turn \in {result[q].turn, turn, None}
    <3>1. ASSUME NEW s \in Session, Lifetime(s)
          PROVE  /\ seen'[q] \in {seen[q], 0} /\ previous'[q] \in {previous[q], None}
                 /\ submitted'[q] \in {submitted[q], None} /\ result'[q] \in {result[q], Nothing}
      BY <3>1, StoreEnds DEF Lifetime, CreateFile, WriteStart, OpenFile, BindSession, LeaveLoop, ProcessEnds,
         mainLoop, handlerThread, To, Forget, TypeOK
    <3>2. ASSUME NEW s \in Session, MainLoop(s)
          PROVE  /\ seen'[q] \in {seen[q], turn} /\ previous'[q] \in {previous[q], seen[q]}
                 /\ UNCHANGED <<submitted, result>>
      <4>1. CASE RecordSnapshot(s)
        <5>1. To(previous, s, seen[s]) \/ UNCHANGED previous
          BY <4>1, StoreEnds DEF RecordSnapshot, TypeOK
        <5>. QED
          BY <4>1, <5>1 DEF RecordSnapshot, handlerThread, To, TypeOK
      <4>2. CASE ReadState(s) \/ RecordTransition(s)
        BY <4>2 DEF ReadState, RecordTransition, handlerThread, To, TypeOK
      <4>. QED
        BY <3>2, <4>1, <4>2 DEF MainLoop
    <3>3. ASSUME NEW s \in Session, Handler(s)
          PROVE  /\ UNCHANGED <<seen, previous>>
                 /\ submitted'[q] \in {submitted[q], turn, None}
                 /\ result'[q].turn \in {result[q].turn, turn, None}
      <4>1. UNCHANGED <<seen, previous>>
        BY <3>3 DEF Handler, BeginCommand, RecordSubmitted, Execute, RecordResult, RecordVerification, Answer,
           KeepCommand, mainLoop
      <4>2. submitted'[q] \in {submitted[q], turn, None}
        BY <3>3 DEF Handler, BeginCommand, RecordSubmitted, Execute, RecordResult, RecordVerification, Answer,
           KeepCommand, Forget, To, TypeOK
      <4>3. result'[q].turn \in {result[q].turn, turn, None}
        <5>1. CASE Execute(s)
          <6>1. \E o \in Outcome :
                  result' = [result EXCEPT ![s] =
                               [outcome |-> o, turn |-> IF o = "malformed" THEN None ELSE turn]]
            BY <5>1 DEF Execute, To
          <6>. QED
            BY <6>1 DEF TypeOK
        <5>2. CASE Answer(s)
          BY <5>2 DEF Answer, Forget, Nothing, TypeOK
        <5>3. CASE ~Execute(s) /\ ~Answer(s)
          BY <3>3, <5>3 DEF Handler, BeginCommand, RecordSubmitted, RecordResult, RecordVerification, KeepCommand
        <5>. QED
          BY <5>1, <5>2, <5>3
      <4>. QED
        BY <4>1, <4>2, <4>3
    <3>4. CASE Correct \/ NextTurn \/ UNCHANGED vars
      BY <3>4 DEF Correct, NextTurn, vars, watchers, mainLoop, handlerThread
    <3>. QED
      BY <3>1, <3>2, <3>3, <3>4 DEF Next, Nothing
  <2>2. /\ seen[q] \in Nat /\ previous[q] \in Nat \cup {None} /\ submitted[q] \in Nat \cup {None}
        /\ result[q].turn \in Nat \cup {None}
    BY DEF TypeOK, Turn
  <2>3. /\ seen[q] <= turn
        /\ result[q].turn # None => result[q].turn <= turn
        /\ previous[q] # None => previous[q] <= turn
        /\ submitted[q] # None => submitted[q] <= turn
    BY DEF TurnsRead
  <2>4. seen'[q] <= turn' /\ (result'[q].turn # None => result'[q].turn <= turn')
    BY <1>1, <2>1, <2>2, <2>3
  <2>5. previous'[q] # None => previous'[q] <= turn'
    <3>1. CASE previous'[q] = previous[q]
      BY <1>1, <2>2, <2>3, <3>1
    <3>2. CASE previous'[q] = seen[q]
      BY <1>1, <2>2, <2>3, <3>2
    <3>. QED
      BY <2>1, <3>1, <3>2
  <2>6. submitted'[q] # None => submitted'[q] <= turn'
    <3>1. CASE submitted'[q] = submitted[q]
      BY <1>1, <2>2, <2>3, <3>1
    <3>2. CASE submitted'[q] = turn
      BY <1>1, <3>2
    <3>. QED
      BY <2>1, <3>1, <3>2
  <2>. QED
    BY <2>4, <2>5, <2>6
<1>. QED
  BY <1>2, <1>3 DEF TurnsRead

-----------------------------------------------------------------------------
(* Transitions.                                                            *)

Recording(s) == proc[s] = "running" /\ main[s] # "leaving"
Fresh(s) == proc[s] \in {"off", "created", "opened"}

Transitions(s) == {i \in DOMAIN file : file[i].kind = "turn_transition" /\ file[i].session = s}

\* A watcher that may still record has the turn of its last snapshot, and a transition that no
\* snapshot follows is the one that leads to the state it has just read.
LeadsOf(s) ==
  /\ Fresh(s) => main[s] = "loop" /\ previous[s] = None /\ Snapshots(s) = {} /\ Transitions(s) = {}
  /\ Recording(s) =>
       /\ main[s] = "transition" => previous[s] # None /\ previous[s] < seen[s]
       /\ previous[s] # None =>
            \E j \in Snapshots(s) : file[j].turn = previous[s] /\ \A k \in Snapshots(s) : k <= j
       /\ \A i \in Transitions(s) :
            \/ \E k \in Snapshots(s) : i < k
            \/ main[s] = "snapshot" /\ file[i].turn = seen[s]

Leads == \A s \in Session : LeadsOf(s)

\* Only a session's main loop records snapshots and transitions of it.
LEMMA MarksOf ==
  ASSUME TypeOK, Executing, [Next]_vars, NEW q \in Session
  PROVE  /\ ~RecordSnapshot(q) => Snapshots(q)' = Snapshots(q)
         /\ ~RecordTransition(q) => Transitions(q)' = Transitions(q)
         /\ \A i \in Snapshots(q)' : i \in Snapshots(q) \/ (i = Len(file) + 1 /\ file'[i].turn = seen[q])
         /\ \A i \in Transitions(q)' :
              i \in Transitions(q)
              \/ (i = Len(file) + 1 /\ file'[i].turn = seen[q] /\ file'[i].ref = previous[q])
         /\ Snapshots(q) \subseteq Snapshots(q)' /\ Transitions(q) \subseteq Transitions(q)'
<1>1. \A i \in DOMAIN file : i \in DOMAIN file' /\ file'[i] = file[i]
  BY EveryStepGrows DEF Grows
<1>2. ASSUME NEW i \in DOMAIN file', i \notin DOMAIN file, file'[i].session = q,
             file'[i].kind \in {"snapshot", "turn_transition"}
      PROVE  /\ i = Len(file) + 1
             /\ \/ RecordTransition(q) /\ file'[i] = Rec("turn_transition", q, seen[q], previous[q])
                \/ RecordSnapshot(q) /\ file'[i] = Rec("snapshot", q, seen[q], None)
  <2>1. \E s \in Session :
          \/ RecordTransition(s) /\ file'[i] = Rec("turn_transition", s, seen[s], previous[s])
          \/ RecordSnapshot(s) /\ file'[i] = Rec("snapshot", s, seen[s], None)
    BY <1>2, StepRecords DEF Rec, Live, Verification
  <2>. QED
    BY <1>2, <2>1, StepRecords DEF Rec
<1>3. Snapshots(q) \subseteq Snapshots(q)' /\ Transitions(q) \subseteq Transitions(q)'
  BY <1>1 DEF Snapshots, Transitions
<1>4. \A i \in Snapshots(q)' :
        i \in Snapshots(q) \/ (RecordSnapshot(q) /\ i = Len(file) + 1 /\ file'[i].turn = seen[q])
  BY <1>1, <1>2 DEF Snapshots, Rec
<1>5. \A i \in Transitions(q)' :
        i \in Transitions(q)
        \/ (RecordTransition(q) /\ i = Len(file) + 1 /\ file'[i].turn = seen[q] /\ file'[i].ref = previous[q])
  BY <1>1, <1>2 DEF Transitions, Rec
<1>. QED
  BY <1>3, <1>4, <1>5

\* A main loop that does not move.
LEMMA LeadsKept ==
  ASSUME Grows, NEW q \in Session, LeadsOf(q), Snapshots(q)' = Snapshots(q), Transitions(q)' = Transitions(q),
         UNCHANGED <<proc[q], main[q], previous[q], seen[q]>>
  PROVE  LeadsOf(q)'
<1>1. \A i \in Snapshots(q) \cup Transitions(q) : file'[i] = file[i]
  BY DEF Grows, Snapshots, Transitions
<1>. QED
  BY <1>1 DEF LeadsOf, Fresh, Recording

LEMMA LeadsStep ==
  ASSUME TypeOK, Executing, TurnsRead, Leads, [Next]_vars
  PROVE  Leads'
<1> USE JournalAssumption
<1> SUFFICES ASSUME NEW q \in Session PROVE LeadsOf(q)'
  BY DEF Leads
<1>1. /\ Grows /\ LeadsOf(q) /\ file \in Seq(Line) /\ Len(file) \in Nat /\ DOMAIN file = 1..Len(file)
      /\ \A i \in DOMAIN file : i \in DOMAIN file' /\ file'[i] = file[i]
  BY EveryStepGrows DEF Leads, TypeOK, Grows
<1>2. /\ ~RecordSnapshot(q) => Snapshots(q)' = Snapshots(q)
      /\ ~RecordTransition(q) => Transitions(q)' = Transitions(q)
      /\ \A i \in Transitions(q)' :
              i \in Transitions(q) \/ (i = Len(file) + 1 /\ file'[i].turn = seen[q])
      /\ Snapshots(q) \subseteq Snapshots(q)'
      /\ \A i \in Snapshots(q)' : i \in Snapshots(q) \/ (i = Len(file) + 1 /\ file'[i].turn = seen[q])
  BY MarksOf
<1>3. \A i \in Snapshots(q) \cup Transitions(q) : i \in 1..Len(file)
  BY <1>1 DEF Snapshots, Transitions
<1>4. ASSUME UNCHANGED <<proc[q], main[q], previous[q], seen[q]>>, ~RecordSnapshot(q), ~RecordTransition(q)
      PROVE  LeadsOf(q)'
  BY <1>1, <1>2, <1>4, LeadsKept
<1>5. CASE RecordTransition(q)
  <2>1. /\ proc' = proc /\ previous' = previous /\ seen' = seen /\ Recording(q) /\ main[q] = "transition"
        /\ main'[q] \in {"snapshot", "leaving"} /\ ~RecordSnapshot(q)
    BY <1>5, StoreEnds DEF RecordTransition, RecordSnapshot, To, TypeOK, Recording
  <2>2. CASE main'[q] = "leaving"
    BY <2>1, <2>2 DEF LeadsOf, Fresh, Recording
  <2>3. CASE main'[q] = "snapshot"
    <3>1. Snapshots(q)' = Snapshots(q) /\ ~Fresh(q)'
      BY <1>2, <2>1 DEF Fresh, Recording
    <3>2. \A i \in Transitions(q)' : (\E k \in Snapshots(q) : i < k) \/ file'[i].turn = seen[q]
      BY <1>1, <1>2, <2>1 DEF LeadsOf
    <3>3. previous[q] # None =>
            \E j \in Snapshots(q) : file'[j].turn = previous[q] /\ \A k \in Snapshots(q) : k <= j
      BY <1>1, <2>1 DEF LeadsOf, Snapshots
    <3>. QED
      BY <2>1, <2>3, <3>1, <3>2, <3>3 DEF LeadsOf
  <2>. QED
    BY <2>1, <2>2, <2>3
<1>6. CASE RecordSnapshot(q)
  <2> DEFINE n == Len(file) + 1
  <2>1. /\ proc' = proc /\ seen' = seen /\ Recording(q) /\ main[q] = "snapshot" /\ ~RecordTransition(q)
        /\ Store(Rec("snapshot", q, seen[q], None),
                 To(main, q, "loop") /\ To(previous, q, seen[q]), To(main, q, "leaving") /\ UNCHANGED previous)
    BY <1>6 DEF RecordTransition, RecordSnapshot, Recording
  <2>2. Rec("snapshot", q, seen[q], None) \in Line
    BY DEF Rec, Line, Kind, Live, TypeOK
  <2>3. \/ main'[q] = "leaving"
        \/ /\ main'[q] = "loop" /\ previous'[q] = seen[q]
           /\ n \in DOMAIN file' /\ file'[n] = Rec("snapshot", q, seen[q], None)
    BY <1>1, <2>1, <2>2, StoreOutcome DEF To, TypeOK
  <2>4. CASE main'[q] = "leaving"
    BY <2>1, <2>4 DEF LeadsOf, Fresh, Recording
  <2>5. CASE /\ main'[q] = "loop" /\ previous'[q] = seen[q]
             /\ n \in DOMAIN file' /\ file'[n] = Rec("snapshot", q, seen[q], None)
    <3>1. n \in Snapshots(q)' /\ file'[n].turn = seen[q]
      BY <2>5 DEF Snapshots, Rec
    <3>2. \A k \in Snapshots(q)' : k <= n
      BY <1>1, <1>2, <1>3
    <3>3. \A i \in Transitions(q)' : i < n
      BY <1>1, <1>2, <1>3, <2>1
    <3>4. ~Fresh(q)'
      BY <2>1 DEF Fresh, Recording
    <3>. QED
      BY <2>5, <3>1, <3>2, <3>3, <3>4 DEF LeadsOf
  <2>. QED
    BY <2>3, <2>4, <2>5
<1>7. CASE ReadState(q)
  <2>1. /\ proc' = proc /\ previous' = previous /\ file' = file /\ Recording(q) /\ main[q] = "loop"
        /\ seen'[q] = turn /\ previous[q] # turn
        /\ main'[q] = IF previous[q] = None THEN "snapshot" ELSE "transition"
    BY <1>7 DEF ReadState, Recording, To, TypeOK
  <2>2. /\ ~RecordSnapshot(q) /\ ~RecordTransition(q) /\ ~Fresh(q)'
        /\ Snapshots(q)' = Snapshots(q) /\ Transitions(q)' = Transitions(q)
    BY <2>1 DEF RecordSnapshot, RecordTransition, Recording, Fresh, Snapshots, Transitions
  <2>3. previous[q] # None => previous[q] < turn
    BY <2>1 DEF TypeOK, Turn, TurnsRead
  <2>4. \A i \in Transitions(q) : \E k \in Snapshots(q) : i < k
    BY <1>1, <2>1 DEF LeadsOf
  <2>5. previous[q] # None =>
          \E j \in Snapshots(q) : file[j].turn = previous[q] /\ \A k \in Snapshots(q) : k <= j
    BY <1>1, <2>1 DEF LeadsOf
  <2>. QED
    BY <2>1, <2>2, <2>3, <2>4, <2>5 DEF LeadsOf
<1>8. CASE Lifetime(q)
  <2>2. CASE ProcessEnds(q)
    BY <2>2 DEF ProcessEnds, To, TypeOK, LeadsOf, Fresh, Recording
  <2>3. CASE LeaveLoop(q)
    BY <2>3 DEF LeaveLoop, To, TypeOK, LeadsOf, Fresh, Recording
  <2>4. CASE CreateFile(q) \/ WriteStart(q) \/ OpenFile(q) \/ BindSession(q)
    <3>1. /\ Fresh(q) /\ UNCHANGED <<main, previous, seen>>
      BY <2>4 DEF CreateFile, WriteStart, OpenFile, BindSession, MayStart, Fresh, mainLoop
    <3>2. /\ main[q] = "loop" /\ previous[q] = None /\ Snapshots(q) = {} /\ Transitions(q) = {}
      BY <1>1, <3>1 DEF LeadsOf
    <3>3. Snapshots(q)' = {} /\ Transitions(q)' = {}
      <4>1. ~RecordSnapshot(q) /\ ~RecordTransition(q)
        BY <3>2 DEF RecordSnapshot, RecordTransition
      <4>. QED
        BY <1>2, <3>2, <4>1
    <3>. QED
      BY <3>1, <3>2, <3>3 DEF LeadsOf
  <2>. QED
    BY <1>8, <2>2, <2>3, <2>4 DEF Lifetime
<1>9. ASSUME NEW s \in Session, Lifetime(s) \/ MainLoop(s), s # q PROVE LeadsOf(q)'
  <2>1. UNCHANGED <<proc[q], main[q], previous[q], seen[q]>>
    <3>1. CASE Lifetime(s)
      <4>1. /\ \E v \in {previous[s], None} : UNCHANGED previous \/ To(previous, s, v)
            /\ \E v \in {seen[s], 0} : UNCHANGED seen \/ To(seen, s, v)
            /\ UNCHANGED main \/ To(main, s, "loop") \/ To(main, s, "leaving")
            /\ UNCHANGED proc \/ \E v \in {"created", "opened", "running", "ended"} : To(proc, s, v)
        <5>1. CASE CreateFile(s) \/ WriteStart(s) \/ OpenFile(s)
          BY <5>1 DEF CreateFile, WriteStart, OpenFile, mainLoop
        <5>2. CASE BindSession(s)
          BY <5>2, StoreEnds DEF BindSession, mainLoop, TypeOK
        <5>3. CASE LeaveLoop(s)
          BY <5>3 DEF LeaveLoop, mainLoop
        <5>4. CASE ProcessEnds(s)
          BY <5>4 DEF ProcessEnds
        <5>. QED
          BY <3>1, <5>1, <5>2, <5>3, <5>4 DEF Lifetime
      <4>2. main'[q] = main[q]
        BY <1>9, <4>1 DEF To, TypeOK
      <4>3. proc'[q] = proc[q]
        BY <1>9, <4>1 DEF To, TypeOK
      <4>4. previous'[q] = previous[q]
        BY <1>9, <4>1 DEF To, TypeOK
      <4>5. seen'[q] = seen[q]
        BY <1>9, <4>1 DEF To, TypeOK
      <4>. QED
        BY <4>2, <4>3, <4>4, <4>5
    <3>2. CASE ReadState(s)
      BY <1>9, <3>2 DEF ReadState, To, TypeOK
    <3>3. CASE RecordTransition(s)
      <4>1. UNCHANGED <<proc, previous, seen>> /\ (To(main, s, "snapshot") \/ To(main, s, "leaving"))
        BY <3>3, StoreEnds DEF RecordTransition, TypeOK
      <4>. QED
        BY <1>9, <4>1 DEF To, TypeOK
    <3>4. CASE RecordSnapshot(s)
      <4>1. /\ UNCHANGED <<proc, seen>>
            /\ \/ To(main, s, "loop") /\ To(previous, s, seen[s])
               \/ To(main, s, "leaving") /\ UNCHANGED previous
        BY <3>4, StoreEnds DEF RecordSnapshot, TypeOK
      <4>. QED
        BY <1>9, <4>1 DEF To, TypeOK
    <3>. QED
      BY <1>9, <3>1, <3>2, <3>3, <3>4 DEF MainLoop
  <2>. QED
    BY <1>4, <1>5, <1>6, <2>1
<1>10. ASSUME NEW s \in Session, Handler(s) PROVE LeadsOf(q)'
  <2>1. UNCHANGED <<proc[q], main[q], previous[q], seen[q]>>
    BY <1>10 DEF Handler, BeginCommand, RecordSubmitted, Execute, RecordResult, RecordVerification, Answer,
       KeepCommand, mainLoop
  <2>. QED
    BY <1>4, <1>5, <1>6, <2>1
<1>11. CASE Correct \/ NextTurn \/ UNCHANGED vars
  <2>1. UNCHANGED <<proc[q], main[q], previous[q], seen[q]>>
    BY <1>11 DEF Correct, NextTurn, vars, watchers, mainLoop
  <2>. QED
    BY <1>4, <1>5, <1>6, <2>1
<1>. QED
  BY <1>5, <1>6, <1>7, <1>8, <1>9, <1>10, <1>11 DEF Next, MainLoop

\* The transitions of one session, and that every transition is some session's.
JoinsOf(s) ==
  \A i \in Transitions(s) :
    /\ file[i].ref < file[i].turn
    /\ \E j \in Snapshots(s) :
         j < i /\ file[j].turn = file[i].ref /\ \A k \in Snapshots(s) : k < i => k <= j
    /\ \A k \in Snapshots(s) :
         i < k /\ (\A j \in Snapshots(s) : i < j => k <= j) => file[k].turn = file[i].turn

Owned == \A i \in DOMAIN file : file[i].kind = "turn_transition" => file[i].session \in Session

Joins == Owned /\ \A s \in Session : JoinsOf(s)

LEMMA OwnedStep ==
  ASSUME TypeOK, Executing, Owned, [Next]_vars
  PROVE  Owned'
<1> SUFFICES ASSUME NEW i \in DOMAIN file', file'[i].kind = "turn_transition" PROVE file'[i].session \in Session
  BY DEF Owned
<1>1. CASE i \in DOMAIN file
  BY <1>1, EveryStepGrows DEF Owned, Grows
<1>2. CASE i \notin DOMAIN file
  BY <1>2, StepRecords DEF Rec, Live, Verification
<1>. QED
  BY <1>1, <1>2

LEMMA JoinsStep ==
  ASSUME TypeOK, Executing, Leads, NEW q \in Session, JoinsOf(q), [Next]_vars
  PROVE  JoinsOf(q)'
<1> DEFINE n == Len(file) + 1
<1>1. /\ LeadsOf(q) /\ Len(file) \in Nat /\ DOMAIN file = 1..Len(file)
      /\ \A i \in DOMAIN file : i \in DOMAIN file' /\ file'[i] = file[i]
  BY EveryStepGrows DEF Leads, TypeOK, Grows
<1>2. /\ ~RecordSnapshot(q) => Snapshots(q)' = Snapshots(q)
      /\ ~RecordTransition(q) => Transitions(q)' = Transitions(q)
      /\ \A i \in Transitions(q)' :
           i \in Transitions(q) \/ (i = n /\ file'[i].turn = seen[q] /\ file'[i].ref = previous[q])
      /\ Snapshots(q) \subseteq Snapshots(q)'
      /\ \A i \in Snapshots(q)' : i \in Snapshots(q) \/ (i = n /\ file'[i].turn = seen[q])
  BY MarksOf
<1>3. \A i \in Snapshots(q) \cup Transitions(q) : i \in 1..Len(file) /\ i # n /\ i < n /\ file'[i] = file[i]
  BY <1>1 DEF Snapshots, Transitions
<1> SUFFICES ASSUME NEW i \in Transitions(q)'
             PROVE  /\ file'[i].ref < file'[i].turn
                    /\ \E j \in Snapshots(q)' :
                         /\ j < i /\ file'[j].turn = file'[i].ref
                         /\ \A k \in Snapshots(q)' : k < i => k <= j
                    /\ \A k \in Snapshots(q)' :
                         i < k /\ (\A j \in Snapshots(q)' : i < j => k <= j) => file'[k].turn = file'[i].turn
  BY DEF JoinsOf
\* A transition that was there.
<1>4. CASE i \in Transitions(q)
  <2>1. /\ file'[i] = file[i] /\ file[i].ref < file[i].turn /\ i \in 1..Len(file)
        /\ \E j \in Snapshots(q) :
             j < i /\ file[j].turn = file[i].ref /\ \A k \in Snapshots(q) : k < i => k <= j
    BY <1>3, <1>4 DEF JoinsOf
  <2>2. PICK j \in Snapshots(q) :
             j < i /\ file[j].turn = file[i].ref /\ \A k \in Snapshots(q) : k < i => k <= j
    BY <2>1
  <2>3. \A k \in Snapshots(q)' : k < i => k \in Snapshots(q)
    BY <1>2, <2>1
  <2>4. j \in Snapshots(q)' /\ file'[j].turn = file'[i].ref /\ \A k \in Snapshots(q)' : k < i => k <= j
    BY <1>2, <1>3, <2>1, <2>2, <2>3
  <2>5. ASSUME NEW k \in Snapshots(q)', i < k, \A m \in Snapshots(q)' : i < m => k <= m
        PROVE  file'[k].turn = file'[i].turn
    <3>1. CASE k \in Snapshots(q)
      <4>1. \A m \in Snapshots(q) : i < m => k <= m
        BY <1>2, <2>5
      <4>. QED
        BY <1>3, <1>4, <2>1, <2>5, <3>1, <4>1 DEF JoinsOf
    <3>2. CASE k \notin Snapshots(q)
      <4>1. k = n /\ file'[k].turn = seen[q] /\ RecordSnapshot(q)
        BY <1>2, <3>2
      <4>2. Recording(q)
        BY <4>1 DEF RecordSnapshot, Recording
      <4>3. ~\E m \in Snapshots(q) : i < m
        <5>1. SUFFICES ASSUME NEW m \in Snapshots(q), i < m PROVE FALSE
          OBVIOUS
        <5>2. k <= m /\ m \in 1..Len(file)
          BY <1>2, <1>3, <2>5, <5>1
        <5>. QED
          BY <1>1, <4>1, <5>2
      <4>4. file[i].turn = seen[q]
        BY <1>1, <1>4, <4>2, <4>3 DEF LeadsOf
      <4>. QED
        BY <2>1, <4>1, <4>4
    <3>. QED
      BY <3>1, <3>2
  <2>. QED
    BY <2>1, <2>2, <2>4, <2>5
\* A transition that this step appends.
<1>5. CASE i \notin Transitions(q)
  <2>1. i = n /\ file'[i].turn = seen[q] /\ file'[i].ref = previous[q] /\ RecordTransition(q)
    BY <1>2, <1>5
  <2>2. main[q] = "transition" /\ Recording(q) /\ ~RecordSnapshot(q)
    BY <2>1 DEF RecordTransition, RecordSnapshot, Recording
  <2>3. Snapshots(q)' = Snapshots(q) /\ previous[q] # None /\ previous[q] < seen[q]
    BY <1>1, <1>2, <2>2 DEF LeadsOf
  <2>4. PICK j \in Snapshots(q) : file[j].turn = previous[q] /\ \A k \in Snapshots(q) : k <= j
    BY <1>1, <2>2, <2>3 DEF LeadsOf
  <2>5. \A k \in Snapshots(q)' : k < i /\ ~(i < k) /\ k <= j
    BY <1>1, <1>3, <2>1, <2>3, <2>4
  <2>. QED
    BY <1>3, <2>1, <2>3, <2>4, <2>5
<1>. QED
  BY <1>4, <1>5

\* A transition starts from the latest snapshot of its session, and the next snapshot of the
\* session is the one it leads to, whatever the handler thread, the other watchers and the
\* operator append in between and whichever appends fail (journal/integration.py 33-64).
THEOREM TransitionsTheorem == Spec => []TransitionsJoinSnapshots
<1> DEFINE I == TurnsRead /\ Leads /\ Joins
<1>1. Init => I
  BY JournalAssumption DEF Init, TurnsRead, Past, Nothing, Leads, LeadsOf, Fresh, Recording, Snapshots,
     Transitions, Joins, JoinsOf, Owned
<1>2. IInv /\ I /\ [Next]_vars => I'
  BY TurnsReadStep, LeadsStep, OwnedStep, JoinsStep DEF IInv, Joins
<1>3. IInv /\ I => TransitionsJoinSnapshots
  <2> SUFFICES ASSUME IInv, I, NEW i \in DOMAIN file, file[i].kind = "turn_transition",
                      NEW s, s = file[i].session
               PROVE  /\ file[i].ref < file[i].turn
                      /\ \E j \in DOMAIN file : Before(i, j, s) /\ file[j].turn = file[i].ref
                      /\ \A k \in DOMAIN file : After(i, k, s) => file[k].turn = file[i].turn
    BY DEF TransitionsJoinSnapshots
  <2>1. i \in Transitions(s) /\ JoinsOf(s)
    BY DEF Joins, Owned, Transitions
  <2>. QED
    BY <2>1 DEF JoinsOf, Before, After, Snapshots
<1>. QED
  BY <1>1, <1>2, <1>3, Invariant, PTL DEF Spec

-----------------------------------------------------------------------------
(* One watcher at a time.                                                  *)

\* A watcher that runs has bound its session, and only then executes commands.
Bindings ==
  \A s \in Session : IF proc[s] = "running" THEN s \in Bound(file) ELSE handler[s] = "idle"

\* No other watcher runs meanwhile.
OneRuns == \A s, q \in Session : Running(s) /\ Running(q) => s = q

\* The turn of the next record of the command that the handler thread executes.
Pending(s) ==
  IF \/ handler[s] \in {"submit", "execute"}
     \/ handler[s] = "verification" /\ result[s].outcome = "unknown"
  THEN submitted[s] ELSE result[s].turn

\* Until the handler thread has written its last record, the turn of the next one is not
\* behind the file's, nor behind that of the state that the main loop has read.
CurrentOf(s) ==
  handler[s] \notin {"idle", "answer"} /\ Pending(s) # None => Past(Pending(s)) /\ seen[s] <= Pending(s)

Current == \A s \in Session : CurrentOf(s)

LEMMA BindingsStep ==
  ASSUME TypeOK, Executing, Bindings, [Next]_vars
  PROVE  Bindings'
<1> USE JournalAssumption
<1>1. Bound(file) \subseteq Bound(file')
  <2>1. \A i \in DOMAIN file : i \in DOMAIN file' /\ file'[i] = file[i]
    BY EveryStepGrows DEF Grows
  <2>. QED
    BY <2>1 DEF Bound
<1> SUFFICES ASSUME NEW q \in Session
             PROVE  IF proc'[q] = "running" THEN q \in Bound(file') ELSE handler'[q] = "idle"
  BY DEF Bindings, Bound
<1>2. IF proc[q] = "running" THEN q \in Bound(file) ELSE handler[q] = "idle"
  BY DEF Bindings
<1>3. CASE proc'[q] = proc[q] /\ handler'[q] = handler[q]
  BY <1>1, <1>2, <1>3
<1>4. CASE proc[q] = "running" /\ proc'[q] = proc[q]
  BY <1>1, <1>2, <1>4
<1>5. CASE WriteStart(q)
  <2> DEFINE r == Rec("journal_started", q, None, None)
  <2>1. proc[q] = "created" /\ handler' = handler
    BY <1>5 DEF WriteStart, handlerThread
  <2>2. proc'[q] = "ended" \/ (proc'[q] = "running" /\ file' = Append(file, r))
    BY <1>5 DEF WriteStart, To, TypeOK
  <2>3. file \in Seq(Line) /\ r \in Line /\ r.kind \in Binding /\ r.session = q
    BY DEF TypeOK, Rec, Line, Kind, Binding
  <2> HIDE DEF r
  <2>4. CASE file' = Append(file, r)
    <3>1. Len(file) + 1 \in DOMAIN file' /\ file'[Len(file) + 1] = r
      BY <2>3, <2>4
    <3>. QED
      BY <1>2, <2>1, <2>2, <2>3, <3>1 DEF Bound
  <2>. QED
    BY <1>2, <2>1, <2>2, <2>4
<1>6. CASE BindSession(q)
  <2> DEFINE r == Rec("session_binding", q, None, None)
  <2>1. proc[q] = "opened" /\ handler' = handler /\ Store(r, To(proc, q, "running"), To(proc, q, "ended"))
    BY <1>6 DEF BindSession, handlerThread
  <2>2. file \in Seq(Line) /\ r \in Line /\ r.kind \in Binding /\ r.session = q
    BY DEF TypeOK, Rec, Line, Kind, Binding
  <2> HIDE DEF r
  <2>3. \/ proc'[q] = "ended"
        \/ proc'[q] = "running" /\ Len(file) + 1 \in DOMAIN file' /\ file'[Len(file) + 1] = r
    BY <2>1, <2>2, StoreOutcome DEF To, TypeOK
  <2>4. handler'[q] = "idle"
    BY <1>2, <2>1
  <2>. QED
    BY <2>2, <2>3, <2>4 DEF Bound
<1>7. CASE ProcessEnds(q)
  BY <1>7 DEF ProcessEnds, To, TypeOK
<1>8. CASE CreateFile(q) \/ OpenFile(q) \/ LeaveLoop(q)
  <2>1. handler' = handler
    BY <1>8 DEF CreateFile, OpenFile, LeaveLoop, handlerThread
  <2>2. proc'[q] = proc[q] \/ (proc[q] = "off" /\ proc'[q] # "running")
    BY <1>8 DEF CreateFile, OpenFile, LeaveLoop, MayStart, To, TypeOK
  <2>. QED
    BY <1>2, <1>3, <2>1, <2>2
<1>9. ASSUME NEW s \in Session, Lifetime(s), s # q PROVE proc'[q] = proc[q] /\ handler'[q] = handler[q]
  BY <1>9, StoreEnds DEF Lifetime, CreateFile, WriteStart, OpenFile, BindSession, LeaveLoop, ProcessEnds,
     handlerThread, To, TypeOK
<1>10. ASSUME NEW s \in Session, MainLoop(s) PROVE proc'[q] = proc[q] /\ handler'[q] = handler[q]
  BY <1>10 DEF MainLoop, ReadState, RecordTransition, RecordSnapshot, handlerThread
<1>11. ASSUME NEW s \in Session, Handler(s)
       PROVE  proc'[q] = proc[q] /\ (handler'[q] = handler[q] \/ proc[q] = "running")
  <2>1. proc' = proc /\ proc[s] = "running"
    BY <1>11 DEF Handler, BeginCommand, RecordSubmitted, Execute, RecordResult, RecordVerification, Answer,
       KeepCommand
  <2>2. q # s => handler'[q] = handler[q]
    BY <1>11, StoreEnds DEF Handler, BeginCommand, RecordSubmitted, Execute, RecordResult, RecordVerification,
       Answer, To, TypeOK
  <2>. QED
    BY <2>1, <2>2
<1>12. CASE Correct \/ NextTurn \/ UNCHANGED vars
  BY <1>3, <1>12 DEF Correct, NextTurn, vars, watchers, handlerThread
<1>. QED
  BY <1>3, <1>4, <1>5, <1>6, <1>7, <1>8, <1>9, <1>10, <1>11, <1>12 DEF Next, Lifetime

LEMMA OneRunsStep ==
  ASSUME Overlap = FALSE, TypeOK, OneRuns, [Next]_vars
  PROVE  OneRuns'
<1>1. ASSUME NEW s \in Session, CreateFile(s) \/ OpenFile(s) PROVE OneRuns'
  <2>1. \A q \in Session \ {s} : ~Running(q) /\ proc'[q] = proc[q]
    BY <1>1 DEF CreateFile, OpenFile, MayStart, To, TypeOK
  <2>. QED
    BY <2>1 DEF OneRuns, Running
<1>2. ASSUME \A q \in Session : proc'[q] = proc[q] \/ Running(q) PROVE OneRuns'
  BY <1>2 DEF OneRuns, Running
<1>3. ASSUME NEW s \in Session, Lifetime(s), ~CreateFile(s), ~OpenFile(s) PROVE OneRuns'
  <2>1. Running(s) /\ \A q \in Session \ {s} : proc'[q] = proc[q]
    BY <1>3, StoreEnds DEF Lifetime, WriteStart, BindSession, LeaveLoop, ProcessEnds, To, TypeOK, Running
  <2>. QED
    BY <1>2, <2>1
<1>4. ASSUME UNCHANGED proc PROVE OneRuns'
  BY <1>2, <1>4
<1>5. ASSUME NEW s \in Session, MainLoop(s) \/ Handler(s) PROVE UNCHANGED proc
  BY <1>5 DEF MainLoop, ReadState, RecordTransition, RecordSnapshot,
     Handler, BeginCommand, RecordSubmitted, Execute, RecordResult, RecordVerification, Answer, KeepCommand
<1>6. CASE Correct \/ NextTurn \/ UNCHANGED vars
  BY <1>4, <1>6 DEF Correct, NextTurn, vars, watchers
<1>. QED
  BY <1>1, <1>3, <1>4, <1>5, <1>6 DEF Next

LEMMA CurrentStep ==
  ASSUME Overlap = FALSE, TypeOK, Executing, TurnsRead, Bindings, OneRuns, Current, [Next]_vars
  PROVE  Current'
<1> USE JournalAssumption
<1> SUFFICES ASSUME NEW q \in Session, handler'[q] \notin {"idle", "answer"}, Pending(q)' # None
             PROVE  Past(Pending(q))' /\ seen'[q] <= Pending(q)'
  BY DEF Current, CurrentOf
<1>1. /\ Past(turn) /\ seen[q] <= turn /\ seen[q] \in Nat /\ turn \in Nat
      /\ handler[q] \notin {"idle", "answer"} /\ Pending(q) # None => Past(Pending(q)) /\ seen[q] <= Pending(q)
  BY DEF TurnsRead, Current, CurrentOf, TypeOK, Turn
\* The turn has just been read.
<1>2. ASSUME Pending(q)' = turn, seen' = seen, file' = file PROVE Past(Pending(q))' /\ seen'[q] <= Pending(q)'
  BY <1>1, <1>2 DEF Past
<1>3. ASSUME handler[q] \notin {"idle", "answer"}, Pending(q)' = Pending(q), UNCHANGED seen[q]
      PROVE  Past(Pending(q))' /\ seen'[q] <= Pending(q)'
  <2>1. Running(q)
    BY <1>3 DEF Bindings, Running
  <2>2. PICK t : t = Pending(q)
    OBVIOUS
  <2>3. Past(t) /\ seen[q] <= t /\ t # None
    BY <1>1, <1>3, <2>2
  <2>4. ASSUME NEW i \in DOMAIN file', file'[i].turn # None PROVE file'[i].turn <= t
    <3>1. CASE i \in DOMAIN file
      BY <2>3, <2>4, <3>1, EveryStepGrows DEF Grows, Past
    <3>2. CASE i \notin DOMAIN file
      <4>1. PICK s \in Session :
              \/ RecordTransition(s) /\ file'[i] = Rec("turn_transition", s, seen[s], previous[s])
              \/ RecordSnapshot(s) /\ file'[i] = Rec("snapshot", s, seen[s], None)
              \/ RecordSubmitted(s) /\ file'[i] = Rec("command_submitted", s, submitted[s], command[s])
              \/ RecordResult(s) /\ file'[i] = Rec("command_result", s, result[s].turn, command[s])
              \/ RecordVerification(s) /\ file'[i] = Verification(s)
        BY <2>4, <3>2, StepRecords
      <4>2. Running(s)
        BY <4>1 DEF RecordTransition, RecordSnapshot, RecordSubmitted, RecordResult, RecordVerification, Running
      <4>3. s = q
        BY <2>1, <4>2 DEF OneRuns
      <4>4. ~RecordVerification(q)
        BY DEF RecordVerification, To, TypeOK
      <4>5. RecordSubmitted(q) => Pending(q) = submitted[q]
        BY DEF RecordSubmitted, Pending
      <4>6. RecordResult(q) => Pending(q) = result[q].turn
        BY DEF RecordResult, Pending
      <4>7. file'[i].turn = seen[q] \/ file'[i].turn = t
        BY <2>2, <4>1, <4>3, <4>4, <4>5, <4>6 DEF Rec
      <4>8. t \in Nat
        BY <2>2, <2>3 DEF Pending, TypeOK, Turn
      <4>. QED
        BY <2>3, <4>7, <4>8
    <3>. QED
      BY <3>1, <3>2
  <2>. QED
    BY <1>3, <2>2, <2>3, <2>4 DEF Past
<1>4. ASSUME UNCHANGED <<handler[q], submitted[q], result[q], seen[q]>>
      PROVE  Past(Pending(q))' /\ seen'[q] <= Pending(q)'
  <2>1. Pending(q)' = Pending(q)
    BY <1>4 DEF Pending
  <2>. QED
    BY <1>4, <1>3, <2>1
<1>5. CASE Lifetime(q)
  <2>1. ~ProcessEnds(q)
    BY DEF ProcessEnds, To, TypeOK
  <2>2. UNCHANGED <<handler[q], submitted[q], result[q], seen[q]>>
    BY <1>5, <2>1 DEF Lifetime, CreateFile, WriteStart, OpenFile, BindSession, LeaveLoop, mainLoop, handlerThread
  <2>. QED
    BY <1>4, <2>2
<1>6. CASE MainLoop(q)
  <2>1. handler' = handler /\ submitted' = submitted /\ result' = result
    BY <1>6 DEF MainLoop, ReadState, RecordTransition, RecordSnapshot, handlerThread
  <2>2. ~ReadState(q)
    BY <2>1 DEF ReadState
  <2>3. seen' = seen
    BY <1>6, <2>2 DEF MainLoop, RecordTransition, RecordSnapshot
  <2>. QED
    BY <1>4, <2>1, <2>3
<1>7. CASE Handler(q)
  <2>1. CASE BeginCommand(q)
    <3>1. seen' = seen /\ file' = file
      BY <2>1 DEF BeginCommand, mainLoop
    <3>2. \/ handler'[q] = "submit" /\ submitted'[q] = turn
          \/ handler'[q] = "execute" /\ submitted'[q] = None
      BY <2>1 DEF BeginCommand, To, TypeOK
    <3>3. Pending(q)' = turn
      BY <3>2 DEF Pending
    <3>. QED
      BY <1>2, <3>1, <3>3
  <2>2. CASE RecordSubmitted(q)
    <3>1. /\ handler[q] = "submit" /\ handler'[q] = "execute"
          /\ UNCHANGED <<submitted, result, seen>>
      BY <2>2 DEF RecordSubmitted, KeepCommand, mainLoop, To, TypeOK
    <3>. QED
      BY <1>3, <3>1 DEF Pending
  <2>3. CASE Execute(q)
    <3>1. seen' = seen /\ file' = file /\ submitted' = submitted /\ handler[q] = "execute"
      BY <2>3 DEF Execute, mainLoop
    <3>2. PICK o \in Outcome :
            /\ result' = [result EXCEPT ![q] = [outcome |-> o, turn |-> IF o = "malformed" THEN None ELSE turn]]
            /\ handler' = [handler EXCEPT ![q] = IF \/ o = "silent"
                                                    \/ o = "unknown" /\ submitted[q] = None
                                                 THEN "answer"
                                                 ELSE IF o = "unknown" THEN "verification" ELSE "result"]
      BY <2>3 DEF Execute, To
    <3>3. /\ result'[q] = [outcome |-> o, turn |-> IF o = "malformed" THEN None ELSE turn]
          /\ handler'[q] = IF o = "unknown" THEN "verification" ELSE "result"
      BY <3>2 DEF TypeOK
    <3>4. CASE o = "unknown"
      BY <1>3, <3>1, <3>3, <3>4 DEF Pending
    <3>5. CASE o # "unknown"
      <4>1. Pending(q)' = turn
        BY <3>3, <3>5 DEF Pending
      <4>. QED
        BY <1>2, <3>1, <4>1
    <3>. QED
      BY <3>4, <3>5
  <2>4. CASE RecordResult(q)
    <3>1. UNCHANGED <<submitted, result, seen>> /\ handler[q] = "result"
      BY <2>4 DEF RecordResult, KeepCommand, mainLoop
    <3>2. \/ To(handler, q, "answer")
          \/ To(handler, q, IF result[q].outcome = "error" THEN "verification" ELSE "answer")
      BY <2>4, StoreEnds DEF RecordResult, TypeOK
    <3>3. handler'[q] = "verification" /\ result[q].outcome = "error"
      BY <3>2 DEF To, TypeOK
    <3>. QED
      BY <1>3, <3>1, <3>3 DEF Pending
  <2>5. ~RecordVerification(q) /\ ~Answer(q)
    BY DEF RecordVerification, Answer, To, TypeOK
  <2>. QED
    BY <1>7, <2>1, <2>2, <2>3, <2>4, <2>5 DEF Handler
<1>8. ASSUME NEW s \in Session, Lifetime(s) \/ MainLoop(s), s # q
      PROVE  Past(Pending(q))' /\ seen'[q] <= Pending(q)'
  <2>1. UNCHANGED <<handler[q], submitted[q], result[q], seen[q]>>
    BY <1>8, StoreEnds DEF Lifetime, CreateFile, WriteStart, OpenFile, BindSession, LeaveLoop, ProcessEnds,
       MainLoop, ReadState, RecordTransition, RecordSnapshot, mainLoop, handlerThread, To, Forget, TypeOK
  <2>. QED
    BY <1>4, <2>1
<1>9. ASSUME NEW s \in Session, Handler(s), s # q
      PROVE  Past(Pending(q))' /\ seen'[q] <= Pending(q)'
  <2>1. UNCHANGED <<handler[q], submitted[q], seen[q]>>
    <3>1. CASE BeginCommand(s) \/ Execute(s) \/ Answer(s)
      BY <1>9, <3>1 DEF BeginCommand, Execute, Answer, mainLoop, Forget, To, TypeOK
    <3>2. CASE RecordSubmitted(s) \/ RecordVerification(s)
      BY <1>9, <3>2 DEF RecordSubmitted, RecordVerification, KeepCommand, mainLoop, To, TypeOK
    <3>3. CASE RecordResult(s)
      <4>1. To(handler, s, "answer") \/ To(handler, s, "verification")
        BY <3>3, StoreEnds DEF RecordResult, TypeOK
      <4>. QED
        BY <1>9, <3>3, <4>1 DEF RecordResult, KeepCommand, mainLoop, To, TypeOK
    <3>. QED
      BY <1>9, <3>1, <3>2, <3>3 DEF Handler
  <2>2. UNCHANGED result[q]
    BY <1>9 DEF Handler, BeginCommand, RecordSubmitted, Execute, RecordResult, RecordVerification, Answer,
       KeepCommand, Forget, To, TypeOK
  <2>. QED
    BY <1>4, <2>1, <2>2
<1>10. CASE Correct \/ NextTurn \/ UNCHANGED vars
  BY <1>4, <1>10 DEF Correct, NextTurn, vars, watchers, mainLoop, handlerThread
<1>. QED
  BY <1>5, <1>6, <1>7, <1>8, <1>9, <1>10 DEF Next

\* With one watcher at a time the records of a command are never refused: they are written
\* under connection_lock, and nobody reads a later turn meanwhile (watch.py 312-368).
THEOREM CommandRecordsTheorem ==
  ASSUME Overlap = FALSE
  PROVE  Spec => []CommandRecordsAccepted
<1> DEFINE I == TurnsRead /\ Bindings /\ OneRuns /\ Current
<1>1. Init => I
  BY JournalAssumption DEF Init, TurnsRead, Past, Nothing, Bindings, OneRuns, Running, Current, CurrentOf
<1>2. IInv /\ I /\ [Next]_vars => I'
  BY TurnsReadStep, BindingsStep, OneRunsStep, CurrentStep DEF IInv
<1>3. IInv /\ I => CommandRecordsAccepted
  <2> SUFFICES ASSUME IInv, I, NEW s \in Session, proc[s] = "running", Readable(file)
               PROVE  /\ handler[s] = "submit" => Accepts(Rec("command_submitted", s, submitted[s], command[s]))
                      /\ handler[s] = "result" /\ result[s].turn # None =>
                           Accepts(Rec("command_result", s, result[s].turn, command[s]))
                      /\ handler[s] = "verification" => Accepts(Verification(s))
    BY DEF CommandRecordsAccepted
  <2>1. s \in Bound(file) /\ (handler[s] \notin {"idle", "answer"} /\ Pending(s) # None => Past(Pending(s)))
    BY DEF Bindings, Current, CurrentOf
  <2>2. CASE handler[s] = "submit"
    BY <2>1, <2>2 DEF Pending, Past, Accepts, Rec
  <2>3. CASE handler[s] = "result"
    BY <2>1, <2>3 DEF Pending, Past, Accepts, Rec
  <2>4. CASE handler[s] = "verification"
    BY <2>1, <2>4 DEF Pending, Past, Accepts, Rec, Verification
  <2>. QED
    BY <2>2, <2>3, <2>4
<1>. QED
  BY <1>1, <1>2, <1>3, Invariant, PTL DEF Spec

=============================================================================
