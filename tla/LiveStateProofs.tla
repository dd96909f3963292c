--------------------------- MODULE LiveStateProofs --------------------------
(***************************************************************************)
(* Proofs about LiveState, for any units, plots, builds and technologies,  *)
(* any map, and any number of turns, changes and commands.                 *)
(***************************************************************************)
EXTENDS LiveState, TLAPS

-----------------------------------------------------------------------------
(* Types of the worlds that the game and the human make.                   *)

Fleet == UNION {[us -> OwnedUnit] : us \in SUBSET Unit}

LEMMA FleetOf ==
  ASSUME NEW us \in SUBSET Unit, NEW f \in [us -> OwnedUnit]
  PROVE  f \in Fleet
BY DEF Fleet

LEMMA UnitsTyped ==
  ASSUME NEW w \in World, NEW u \in DOMAIN w.units
  PROVE  /\ u \in Unit /\ w.units[u] \in OwnedUnit /\ w.units \in [DOMAIN w.units -> OwnedUnit]
         /\ DOMAIN w.units \in SUBSET Unit
         /\ (w.units[u].moves > 0) \in BOOLEAN /\ (w.units[u].moves > 1) \in BOOLEAN
<1>1. PICK us \in SUBSET Unit : w.units \in [us -> OwnedUnit]
  BY DEF World
<1>2. w.units[u] \in OwnedUnit
  BY <1>1
<1>3. (w.units[u].moves > 0) \in BOOLEAN /\ (w.units[u].moves > 1) \in BOOLEAN
  BY <1>2, LiveStateAssumption, SMT DEF OwnedUnit
<1>. QED
  BY <1>1, <1>2, <1>3

LEMMA RestedTyped ==
  ASSUME NEW x \in OwnedUnit, NEW r \in BOOLEAN
  PROVE  [x EXCEPT !.moves = MaxMoves, !.ready = r] \in OwnedUnit
<1>1. MaxMoves \in 0..MaxMoves
  BY LiveStateAssumption
<1>. QED
  BY <1>1 DEF OwnedUnit

LEMMA FleetWritten ==
  ASSUME NEW w \in World, NEW f \in Fleet
  PROVE  [w EXCEPT !.units = f] \in World
BY DEF World, Fleet

LEMMA UnitWritten ==
  ASSUME NEW w \in World, NEW u \in DOMAIN w.units, NEW n \in OwnedUnit
  PROVE  [w EXCEPT !.units[u] = n] \in World
<1>1. PICK us \in SUBSET Unit : w.units \in [us -> OwnedUnit]
  BY DEF World
<1>2. [w.units EXCEPT ![u] = n] \in Fleet
  BY <1>1, FleetOf
<1>. QED
  BY <1>2, FleetWritten DEF World

LEMMA MovedTyped ==
  ASSUME NEW w \in World, NEW u \in DOMAIN w.units, NEW p \in Plot, w.units[u].moves > 0
  PROVE  Moved(w, u, p) \in World /\ Moved(w, u, p).current = w.current /\ Moved(w, u, p).known = w.known
<1> DEFINE n == [w.units[u] EXCEPT !.at = p, !.moves = @ - 1, !.ready = w.units[u].moves > 1, !.build = None]
<1>1. n \in OwnedUnit
  <2>1. w.units[u].moves - 1 \in 0..MaxMoves
    BY UnitsTyped, LiveStateAssumption DEF OwnedUnit
  <2>. QED
    BY <2>1, UnitsTyped DEF OwnedUnit
<1>2. Moved(w, u, p) = [w EXCEPT !.units[u] = n]
  BY DEF Moved
<1> HIDE DEF n
<1>3. Moved(w, u, p) \in World
  BY <1>1, <1>2, UnitWritten
<1>. QED
  BY <1>2, <1>3 DEF World

LEMMA WorkingTyped ==
  ASSUME NEW w \in World, NEW u \in DOMAIN w.units, NEW b \in Build, w.units[u].moves > 0
  PROVE  /\ Working(w, u, b) \in World
         /\ Working(w, u, b).current = w.current /\ Working(w, u, b).known = w.known
<1> DEFINE n == [w.units[u] EXCEPT !.build = b, !.moves = @ - 1, !.ready = FALSE]
<1>1. n \in OwnedUnit
  <2>1. w.units[u].moves - 1 \in 0..MaxMoves
    BY UnitsTyped, LiveStateAssumption DEF OwnedUnit
  <2>. QED
    BY <2>1, UnitsTyped DEF OwnedUnit
<1>2. Working(w, u, b) = [w EXCEPT !.units[u] = n]
  BY DEF Working
<1> HIDE DEF n
<1>3. Working(w, u, b) \in World
  BY <1>1, <1>2, UnitWritten
<1>. QED
  BY <1>2, <1>3 DEF World

LEMMA ImprovedTyped ==
  ASSUME NEW w \in World, NEW u \in DOMAIN w.units, NEW b \in Build, w.units[u].moves > 0
  PROVE  /\ Improved(w, u, b) \in World
         /\ Improved(w, u, b).current = w.current /\ Improved(w, u, b).known = w.known
<1> DEFINE v == [w EXCEPT !.improved[w.units[u].at] = b]
           n == [w.units[u] EXCEPT !.moves = @ - 1, !.ready = w.units[u].moves > 1]
<1>1. v \in World /\ v.units = w.units /\ v.current = w.current /\ v.known = w.known
  BY DEF World
<1>2. n \in OwnedUnit
  <2>1. w.units[u].moves - 1 \in 0..MaxMoves
    BY UnitsTyped, LiveStateAssumption DEF OwnedUnit
  <2>. QED
    BY <2>1, UnitsTyped DEF OwnedUnit
<1>3. Improved(w, u, b) = [v EXCEPT !.units = [w.units EXCEPT ![u] = n]]
  BY <1>1 DEF Improved
<1> HIDE DEF n, v
<1>4. [w.units EXCEPT ![u] = n] \in Fleet
  BY <1>2, UnitsTyped, FleetOf
<1>5. Improved(w, u, b) \in World
  BY <1>1, <1>3, <1>4, FleetWritten
<1>. QED
  BY <1>1, <1>3, <1>5 DEF World

-----------------------------------------------------------------------------
(* What a change of the world leaves true.                                 *)

\* What is being researched can be: it is not known, and all it needs is.
Researching(w) == w.current # None => w.current \in CanResearch(w)

\* A change discovers at most one technology, and one that could be researched.
Discovers(w, v) == \/ v.known = w.known
                   \/ \E t \in CanResearch(w) : v.known = w.known \cup {t}

Follows(w, v) == v \in World /\ Researching(v) /\ Discovers(w, v)

LEMMA SameResearch ==
  ASSUME NEW w, Researching(w), NEW v \in World, v.current = w.current, v.known = w.known
  PROVE  Follows(w, v)
BY DEF Follows, Researching, Discovers, CanResearch

LEMMA EffectsFollow ==
  ASSUME NEW w \in World, Researching(w), NEW o \in Order, NEW v \in Effects(o, w)
  PROVE  Follows(w, v)
<1>1. CASE o.action = "choose_research"
  <2>1. o.tech \in CanResearch(w) /\ v = [w EXCEPT !.current = o.tech]
    BY <1>1 DEF Effects
  <2>. QED
    BY <2>1 DEF Follows, Researching, Discovers, CanResearch, World
<1>2. CASE o.action = "skip_unit"
  <2>1. PICK u \in DOMAIN w.units : v = [w EXCEPT !.units[u].ready = FALSE]
    BY <1>2 DEF Effects
  <2> DEFINE n == [w.units[u] EXCEPT !.ready = FALSE]
  <2>2. n \in OwnedUnit
    BY <2>1, UnitsTyped DEF OwnedUnit
  <2>3. v = [w EXCEPT !.units[u] = n]
    BY <2>1, UnitsTyped DEF World, OwnedUnit
  <2> HIDE DEF n
  <2>4. v \in World
    BY <2>2, <2>3, UnitWritten
  <2>5. v.current = w.current /\ v.known = w.known
    BY <2>3 DEF World
  <2>. QED
    BY <2>4, <2>5, SameResearch
<1>3. CASE o.action = "move_unit"
  <2>1. o.unit \in DOMAIN w.units /\ w.units[o.unit].moves > 0 /\ o.to \in Plot /\ v = Moved(w, o.unit, o.to)
    BY <1>3 DEF Effects, CanMove, CanAct, Order
  <2>. QED
    BY <2>1, MovedTyped, SameResearch
<1>4. CASE o.action = "worker_build"
  <2>1. /\ o.unit \in DOMAIN w.units /\ w.units[o.unit].moves > 0 /\ o.build \in Build
        /\ v \in {Working(w, o.unit, o.build), Improved(w, o.unit, o.build)}
    BY <1>4 DEF Effects, CanBuild, CanAct, Order
  <2>. QED
    BY <2>1, WorkingTyped, ImprovedTyped, SameResearch
<1>. QED
  BY <1>1, <1>2, <1>3, <1>4 DEF Order

LEMMA UnitEventsFollow ==
  ASSUME NEW w \in World, Researching(w), NEW v \in UnitEvents(w)
  PROVE  Follows(w, v)
<1>1. ASSUME NEW f \in Fleet, v = [w EXCEPT !.units = f] PROVE Follows(w, v)
  <2>1. v \in World /\ v.current = w.current /\ v.known = w.known
    BY <1>1, FleetWritten DEF World
  <2>. QED
    BY <2>1, SameResearch
<1>2. ASSUME NEW u \in DOMAIN w.units, NEW n \in OwnedUnit, v = [w EXCEPT !.units[u] = n] PROVE Follows(w, v)
  <2>1. v \in World /\ v.current = w.current /\ v.known = w.known
    BY <1>2, UnitWritten DEF World
  <2>. QED
    BY <2>1, SameResearch
<1>3. ASSUME NEW u \in DOMAIN w.units, v = Woken(w, u) PROVE Follows(w, v)
  <2> DEFINE n == [w.units[u] EXCEPT !.build = None, !.ready = w.units[u].moves > 0]
  <2>1. n \in OwnedUnit
    BY UnitsTyped DEF OwnedUnit
  <2>2. v = [w EXCEPT !.units[u] = n]
    BY <1>3, UnitsTyped DEF Woken, World, OwnedUnit
  <2> HIDE DEF n
  <2>. QED
    BY <1>2, <2>1, <2>2
<1>4. ASSUME NEW u \in DOMAIN w.units, v = Lost(w, u) PROVE Follows(w, v)
  <2> DEFINE f == [q \in DOMAIN w.units \ {u} |-> w.units[q]]
  <2>1. f \in Fleet
    BY UnitsTyped, FleetOf
  <2>2. v = [w EXCEPT !.units = f]
    BY <1>4 DEF Lost
  <2> HIDE DEF f
  <2>. QED
    BY <1>1, <2>1, <2>2
<1>5. ASSUME NEW u \in DOMAIN w.units, v = Upgraded(w, u) PROVE Follows(w, v)
  <2> DEFINE n == [w.units[u] EXCEPT !.type = "other"]
  <2>1. n \in OwnedUnit
    BY UnitsTyped DEF OwnedUnit
  <2>2. v = [w EXCEPT !.units[u] = n]
    BY <1>5, UnitsTyped DEF Upgraded, World, OwnedUnit
  <2> HIDE DEF n
  <2>. QED
    BY <1>2, <2>1, <2>2
<1>6. ASSUME NEW u \in Unit \ DOMAIN w.units, NEW p \in Plot, v = Gained(w, u, p) PROVE Follows(w, v)
  <2> DEFINE n == [type |-> "worker", at |-> p, moves |-> MaxMoves, ready |-> TRUE, build |-> None]
             f == [q \in DOMAIN w.units \cup {u} |-> IF q = u THEN n ELSE w.units[q]]
  <2>1. n \in OwnedUnit
    BY LiveStateAssumption DEF OwnedUnit
  <2>2. v = [w EXCEPT !.units = f]
    BY <1>6 DEF Gained
  <2> HIDE DEF n
  <2>3. PICK us \in SUBSET Unit : w.units \in [us -> OwnedUnit]
    BY DEF World
  <2>4. f \in [us \cup {u} -> OwnedUnit] /\ us \cup {u} \in SUBSET Unit
    BY <2>1, <2>3
  <2> HIDE DEF f
  <2>5. f \in Fleet
    BY <2>4, FleetOf
  <2>. QED
    BY <1>1, <2>2, <2>5
<1>. QED
  BY <1>3, <1>4, <1>5, <1>6 DEF UnitEvents

LEMMA ResearchEventsFollow ==
  ASSUME NEW w \in World, Researching(w), NEW v \in ResearchEvents(w)
  PROVE  Follows(w, v)
<1>1. ASSUME NEW t \in CanResearch(w), v = [w EXCEPT !.known = @ \cup {t}, !.current = IF @ = t THEN None ELSE @]
      PROVE  Follows(w, v)
  <2>1. /\ v \in World /\ v.known = w.known \cup {t}
        /\ v.current = IF w.current = t THEN None ELSE w.current
    BY <1>1 DEF World, CanResearch
  <2>. QED
    BY <2>1 DEF Follows, Discovers, Researching, CanResearch
<1>2. ASSUME NEW m \in {"normal", "free_technology", "unsupported"}, v = [w EXCEPT !.mode = m]
      PROVE  Follows(w, v)
  <2>1. v \in World /\ v.current = w.current /\ v.known = w.known
    BY <1>2 DEF World
  <2>. QED
    BY <2>1, SameResearch
<1>. QED
  BY <1>1, <1>2 DEF ResearchEvents

LEMMA TimeFollows ==
  ASSUME NEW w \in World, Researching(w), NEW v \in Time(w)
  PROVE  Follows(w, v)
<1>1. ASSUME NEW x \in {"open", "processing", "over"}, v = [w EXCEPT !.window = x] PROVE Follows(w, v)
  <2>1. v \in World /\ v.current = w.current /\ v.known = w.known
    BY <1>1 DEF World
  <2>. QED
    BY <2>1, SameResearch
<1>2. ASSUME w.turn < MaxTurn, v = NewTurn(w) PROVE Follows(w, v)
  <2> DEFINE f == [u \in DOMAIN w.units |->
                     [w.units[u] EXCEPT !.moves = MaxMoves, !.ready = w.units[u].build = None]]
  <2>1. ASSUME NEW u \in DOMAIN w.units
        PROVE  [w.units[u] EXCEPT !.moves = MaxMoves, !.ready = w.units[u].build = None] \in OwnedUnit
    <3>1. (w.units[u].build = None) \in BOOLEAN /\ w.units[u] \in OwnedUnit
      BY UnitsTyped, SMT
    <3>. QED
      BY <3>1, RestedTyped, Zenon
  <2>2. PICK us \in SUBSET Unit : w.units \in [us -> OwnedUnit]
    BY DEF World
  <2>3. f \in [us -> OwnedUnit]
    BY <2>1, <2>2
  <2>4. w.turn + 1 \in 0..MaxTurn
    BY <1>2, LiveStateAssumption DEF World
  <2>5. v = [w EXCEPT !.turn = @ + 1, !.window = "open", !.units = f]
    BY <1>2 DEF NewTurn
  <2> HIDE DEF f
  <2>6. f \in Fleet
    BY <2>3, FleetOf
  <2>7. v \in World /\ v.current = w.current /\ v.known = w.known
    BY <2>4, <2>5, <2>6 DEF World, Fleet
  <2>. QED
    BY <2>7, SameResearch
<1>. QED
  BY <1>1, <1>2 DEF Time

\* The worlds a step leads to follow the one before.
LEMMA ChangeFollows ==
  ASSUME NEW w \in World, Researching(w)
  PROVE  /\ \A v \in Change(w) : Follows(w, v)
         /\ \A o \in Order : \A v \in Effects(o, w) \cup {w} : Follows(w, v)
<1>1. Follows(w, w)
  BY SameResearch
<1>2. ASSUME NEW v \in Change(w) PROVE Follows(w, v)
  <2>1. CASE \E o \in Order : v \in Effects(o, w)
    BY <2>1, EffectsFollow
  <2>2. CASE v \in UnitEvents(w) \cup ResearchEvents(w) \cup Time(w)
    BY <2>2, UnitEventsFollow, ResearchEventsFollow, TimeFollows
  <2>3. v \in UNION {Effects(o, w) : o \in Order} \/ v \in UnitEvents(w) \cup ResearchEvents(w) \cup Time(w)
    BY DEF Change
  <2>4. ASSUME v \in UNION {Effects(o, w) : o \in Order} PROVE \E o \in Order : v \in Effects(o, w)
    BY <2>4
  <2>. QED
    BY <2>1, <2>2, <2>3, <2>4
<1>. QED
  BY <1>1, <1>2, EffectsFollow

-----------------------------------------------------------------------------
(* The inductive invariant.                                                *)

\* What has been printed was printed of a world the read has passed through.
Printed ==
  /\ pc \notin Reading => cursor = 0
  /\ \A p \in DOMAIN snap : \E w \in moments : snap[p] = Output(w)[p]

\* The technologies were read as if of this world.
ReadOf(w) ==
  LET t == snap.technologies IN
  w.known = t.researched /\ CanResearch(w) = t.researchable

\* The facts were read, in a normal choice, of a world with the technologies that were read.
ReadTogether ==
  \E w \in moments :
    ReadOf(w) /\ w.current = snap.facts.current /\ w.mode = "normal" /\ w.window = "open"

\* While the technologies are those of the world as it is, or one of them has been discovered
\* since, the same can be said of the facts, and a candidate is missing then.
ResearchRead ==
  LET able == snap.technologies.researchable
      normal == snap.technologies.mode = "normal" /\ snap.facts.status = "supported" IN
  /\ cursor >= 3 /\ snap.technologies.mode # "unsupported" => ReadOf(world) \/ able \cap world.known # {}
  /\ cursor >= 7 /\ normal => ReadTogether \/ able \cap world.known # {}
  /\ cursor >= 8 /\ normal => ReadTogether \/ ~(able \subseteq snap.candidates)

\* The command that was sent is admissible in the state it was decided in, and a move
\* that the game accepted leads to another plot.
Chosen ==
  /\ pc \in {"sent", "accepted", "polling"} => order \in Order /\ Admissible(order, before)
  /\ pc \in {"accepted", "polling"} /\ order.action = "move_unit" =>
       UnitIn(before, order.unit).at # order.to

IInv == TypeOK /\ Researching(world) /\ Printed /\ ResearchRead /\ Chosen

LEMMA ProgramFacts ==
  /\ Len(Programs) = 9
  /\ Programs[1] = "header" /\ Programs[2] = "units" /\ Programs[3] = "technologies"
  /\ Programs[4] = "targets" /\ Programs[5] = "context" /\ Programs[6] = "builds"
  /\ Programs[7] = "facts" /\ Programs[8] = "candidates" /\ Programs[9] = "runtime"
BY DEF Programs

\* The programs that have printed are the first ones.
LEMMA PrintedSoFar ==
  ASSUME TypeOK
  PROVE  /\ cursor \in 0..9
         /\ cursor >= 3 => "technologies" \in DOMAIN snap
         /\ cursor >= 7 => "facts" \in DOMAIN snap
         /\ cursor >= 8 => "candidates" \in DOMAIN snap
         /\ cursor = 9 =>
              /\ {"header", "units", "technologies", "targets", "context", "builds",
                  "facts", "candidates", "runtime"} \subseteq DOMAIN snap
              /\ Parts \subseteq DOMAIN snap
<1>1. cursor \in 0..9 /\ DOMAIN snap = {Programs[i] : i \in 1..cursor}
  BY ProgramFacts DEF TypeOK
<1>2. \A i \in 1..9 : i <= cursor => Programs[i] \in DOMAIN snap
  BY <1>1
<1>3. cursor = 9 => Parts \subseteq DOMAIN snap
  BY <1>1, ProgramFacts DEF Parts, Programs
<1>. QED
  BY <1>1, <1>2, <1>3, ProgramFacts

LEMMA InitInv == Init => IInv
<1> SUFFICES ASSUME Init PROVE IInv
  OBVIOUS
<1>1. snap = [p \in {} |-> None] /\ cursor = 0 /\ pc = "idle" /\ order = None /\ pending = None
  BY DEF Init
<1>2. DOMAIN snap = {} /\ DOMAIN snap = {Programs[i] : i \in 1..cursor}
  <2>1. 1..0 = {}
    OBVIOUS
  <2>. QED
    BY <1>1, <2>1
<1>3. PICK at \in [Unit -> Plot], improved \in [Plot -> Build \cup {None}],
           current \in {t \in Tech : Requires[t] = {}} \cup {None}, api \in BOOLEAN :
        world = [turn |-> 0, window |-> "open",
                 units |-> [u \in Unit |-> [type |-> "worker", at |-> at[u], moves |-> MaxMoves,
                                             ready |-> TRUE, build |-> None]],
                 improved |-> improved, current |-> current, known |-> {}, mode |-> "normal",
                 api |-> api]
  BY DEF Init
<1>4. world.units \in Fleet
  <2>1. MaxMoves \in 0..MaxMoves
    BY LiveStateAssumption
  <2>2. world.units \in [Unit -> OwnedUnit]
    BY <1>3, <2>1 DEF OwnedUnit
  <2>. QED
    BY <2>2, FleetOf
<1>5. world \in World
  <2>1. 0 \in 0..MaxTurn
    BY LiveStateAssumption
  <2>. QED
    BY <1>3, <1>4, <2>1 DEF World, Fleet
<1>6. Researching(world)
  BY <1>3 DEF Researching, CanResearch
<1>7. TypeOK
  BY <1>1, <1>2, <1>5, LiveStateAssumption, ProgramFacts DEF TypeOK, Init, Reading
<1>8. Printed /\ ResearchRead /\ Chosen
  BY <1>1, <1>2 DEF Printed, ResearchRead, Chosen, Reading
<1>. QED
  BY <1>6, <1>7, <1>8 DEF IInv

-----------------------------------------------------------------------------
(* Steps of the game.                                                      *)

\* The world changes as it may, and a read remembers it.
LEMMA GameStep ==
  ASSUME TypeOK, Researching(world), GameMoves \/ CarryOut
  PROVE  /\ Follows(world, world') /\ Remember /\ UNCHANGED reader
         /\ changes' \in 0..MaxChange /\ pending' \in Order \cup {None}
<1>1. CASE GameMoves
  <2>1. world' \in Change(world)
    BY <1>1 DEF GameMoves
  <2>2. changes' \in 0..MaxChange
    BY <1>1, LiveStateAssumption DEF GameMoves, TypeOK
  <2>. QED
    BY <1>1, <2>1, <2>2, ChangeFollows DEF GameMoves, TypeOK
<1>2. CASE CarryOut
  <2>1. pending \in Order /\ world' \in Effects(pending, world) \cup {world}
    BY <1>2 DEF CarryOut, TypeOK
  <2>2. Follows(world, world')
    BY <2>1, ChangeFollows DEF TypeOK
  <2>. QED
    BY <1>2, <2>2 DEF CarryOut, TypeOK
<1>. QED
  BY <1>1, <1>2

LEMMA GameInv ==
  ASSUME IInv, GameMoves \/ CarryOut
  PROVE  IInv'
<1>1. /\ Follows(world, world') /\ Remember /\ UNCHANGED <<pc, cursor, snap, order, orders, before, result>>
      /\ changes' \in 0..MaxChange /\ pending' \in Order \cup {None}
  BY GameStep DEF IInv, reader
<1>2. world' \in World /\ Researching(world)' /\ Discovers(world, world')
  BY <1>1 DEF Follows, Researching, CanResearch
<1>3. IF pc \in Reading THEN moments' = moments \cup {world'} ELSE moments' = {}
  BY <1>1 DEF Remember
<1>4. TypeOK'
  BY <1>1, <1>2, <1>3 DEF IInv, TypeOK, Accepted, Parses, PartsMatchHeader, UnitRowsMatch, FactsMatchCandidates,
     TechnologiesValid, FactsValid, Owned
<1>5. Printed'
  <2>1. pc' \notin Reading => cursor' = 0
    BY <1>1 DEF IInv, Printed
  <2>2. ASSUME NEW p \in DOMAIN snap PROVE \E w \in moments' : snap[p] = Output(w)[p]
    <3>1. CASE pc \in Reading
      BY <1>3, <2>2, <3>1 DEF IInv, Printed
    <3>2. CASE pc \notin Reading
      BY <2>2, <3>2 DEF IInv, Printed, TypeOK
    <3>. QED
      BY <3>1, <3>2
  <2>. QED
    BY <1>1, <2>1, <2>2 DEF Printed
<1>6. ResearchRead'
  <2>1. CASE pc \notin Reading
    BY <1>1, <2>1 DEF IInv, Printed, ResearchRead
  <2>2. CASE pc \in Reading
    <3>1. moments \subseteq moments' /\ world.known \subseteq world'.known
      BY <1>2, <1>3, <2>2 DEF Discovers
    <3>2. ReadTogether => ReadTogether'
      BY <1>1, <3>1 DEF ReadTogether, ReadOf
    <3>3. ASSUME ReadOf(world) PROVE ReadOf(world)' \/ snap.technologies.researchable \cap world'.known # {}
      BY <1>1, <1>2, <3>3 DEF ReadOf, Discovers, CanResearch
    <3>. QED
      BY <1>1, <3>1, <3>2, <3>3 DEF IInv, ResearchRead
  <2>. QED
    BY <2>1, <2>2
<1>7. Chosen'
  BY <1>1 DEF IInv, Chosen
<1>. QED
  BY <1>2, <1>4, <1>5, <1>6, <1>7 DEF IInv

-----------------------------------------------------------------------------
(* Steps of the reader.                                                    *)

\* A program prints of the world as it is, and what was printed before stays.
LEMMA RunProgramSnap ==
  ASSUME TypeOK, RunProgram
  PROVE  /\ cursor \in 0..8 /\ cursor' = cursor + 1 /\ cursor' \in 1..9
         /\ DOMAIN snap' = DOMAIN snap \cup {Programs[cursor']}
         /\ snap'[Programs[cursor']] = Output(world)[Programs[cursor']]
         /\ \A p \in DOMAIN snap : p # Programs[cursor'] => snap'[p] = snap[p]
         /\ Programs[cursor'] \notin DOMAIN snap
<1>1. cursor \in 0..9 /\ cursor < 9 /\ cursor' = cursor + 1
  BY PrintedSoFar, ProgramFacts DEF RunProgram
<1>2. cursor \in 0..8 /\ cursor' \in 1..9
  BY <1>1
<1>3. snap' = [q \in DOMAIN snap \cup {Programs[cursor']} |->
                 IF q = Programs[cursor'] THEN Output(world)[Programs[cursor']] ELSE snap[q]]
  BY DEF RunProgram
<1>4. DOMAIN snap = {Programs[i] : i \in 1..cursor}
  BY DEF TypeOK
<1>5. \A i, j \in 1..9 : Programs[i] = Programs[j] => i = j
  BY DEF Programs
<1>6. Programs[cursor'] \notin DOMAIN snap
  <2>1. \A i \in 1..cursor : i \in 1..9 /\ i # cursor'
    BY <1>1
  <2>. QED
    BY <1>2, <1>4, <1>5, <2>1
<1>. QED
  BY <1>1, <1>2, <1>3, <1>6

LEMMA RunProgramInv ==
  ASSUME IInv, RunProgram
  PROVE  IInv'
<1>1. /\ cursor \in 0..8 /\ cursor' = cursor + 1 /\ cursor' \in 1..9
      /\ DOMAIN snap' = DOMAIN snap \cup {Programs[cursor']}
      /\ snap'[Programs[cursor']] = Output(world)[Programs[cursor']]
      /\ \A p \in DOMAIN snap : p # Programs[cursor'] => snap'[p] = snap[p]
      /\ Programs[cursor'] \notin DOMAIN snap
  BY RunProgramSnap DEF IInv
<1>2. /\ pc \in Reading /\ world \in moments
      /\ UNCHANGED <<world, pending, changes, pc, order, orders, before, result, moments>>
  BY DEF RunProgram, IInv, TypeOK
<1>3. TypeOK'
  <2>1. DOMAIN snap' = {Programs[i] : i \in 1..cursor'}
    <3>1. DOMAIN snap = {Programs[i] : i \in 1..cursor}
      BY DEF IInv, TypeOK
    <3>2. \A i : i \in 1..cursor' <=> i \in 1..cursor \/ i = cursor'
      BY <1>1
    <3>. QED
      BY <1>1, <3>1, <3>2
  <2>2. cursor' \in 0..Len(Programs)
    BY <1>1, ProgramFacts
  <2>3. pc' \in {"sent", "accepted", "polling"} => Accepted(before)'
    BY <1>2 DEF IInv, TypeOK, Accepted, Parses, PartsMatchHeader, UnitRowsMatch, FactsMatchCandidates,
       TechnologiesValid, FactsValid, Owned
  <2>. QED
    BY <1>2, <2>1, <2>2, <2>3 DEF IInv, TypeOK
<1>4. Researching(world)'
  BY <1>2 DEF IInv, Researching, CanResearch
<1>5. Printed'
  BY <1>1, <1>2 DEF IInv, Printed
<1>6. ResearchRead'
  <2>1. cursor >= 3 => "technologies" \in DOMAIN snap
    BY PrintedSoFar DEF IInv
  <2>2. cursor >= 7 => "facts" \in DOMAIN snap
    BY PrintedSoFar DEF IInv
  <2>3. cursor >= 8 => "candidates" \in DOMAIN snap
    BY PrintedSoFar DEF IInv
  <2>4. ASSUME cursor >= 3
        PROVE  snap'["technologies"] = snap["technologies"]
    BY <1>1, <2>1, <2>4
  <2>5. ASSUME cursor >= 7
        PROVE  snap'["facts"] = snap["facts"]
    BY <1>1, <2>2, <2>5
  <2>6. ASSUME cursor >= 8
        PROVE  snap'["candidates"] = snap["candidates"]
    BY <1>1, <2>3, <2>6
  <2>7. CASE cursor < 2
    BY <1>1, <2>7 DEF ResearchRead
  <2>8. CASE cursor = 2
    <3>1. snap'["technologies"] = TechnologiesOf(world)
      BY <1>1, <2>8, ProgramFacts DEF Output
    <3>2. snap'.technologies.mode # "unsupported" => ReadOf(world)'
      BY <1>2, <3>1 DEF ReadOf, TechnologiesOf, CanResearch
    <3>. QED
      BY <1>1, <2>8, <3>2 DEF ResearchRead
  <2>9. CASE cursor \in 3..5
    <3>1. snap'.technologies = snap.technologies
      BY <2>4, <2>9
    <3>2. ReadOf(world) => ReadOf(world)'
      BY <1>2, <3>1 DEF ReadOf, CanResearch
    <3>. QED
      BY <1>1, <1>2, <2>9, <3>1, <3>2 DEF IInv, ResearchRead
  <2>10. CASE cursor = 6
    <3>1. snap'.technologies = snap.technologies
      BY <2>4, <2>10
    <3>2. ReadOf(world) => ReadOf(world)'
      BY <1>2, <3>1 DEF ReadOf, CanResearch
    <3>3. snap'["facts"] = FactsOf(world)
      BY <1>1, <2>10, ProgramFacts DEF Output
    <3>4. snap'.facts.status = "supported" =>
            world.mode = "normal" /\ world.window = "open" /\ snap'.facts.current = world.current
      BY <3>3 DEF FactsOf
    <3>5. snap'.facts.status = "supported" /\ ReadOf(world)' => ReadTogether'
      BY <1>2, <3>4 DEF ReadTogether
    <3>6. snap.technologies.mode # "unsupported" =>
            ReadOf(world) \/ snap.technologies.researchable \cap world.known # {}
      BY <2>10 DEF IInv, ResearchRead
    <3>. QED
      BY <1>1, <1>2, <2>10, <3>1, <3>2, <3>5, <3>6 DEF ResearchRead
  <2>11. CASE cursor >= 7
    <3>1. snap'.technologies = snap.technologies /\ snap'.facts = snap.facts
      BY <1>1, <2>4, <2>5, <2>11
    <3>2. (ReadOf(world) => ReadOf(world)') /\ (ReadTogether => ReadTogether')
      BY <1>2, <3>1 DEF ReadOf, ReadTogether, CanResearch
    <3>3. CASE cursor = 7
      <4>1. snap'["candidates"] = CandidatesOf(world)
        BY <1>1, <3>3, ProgramFacts DEF Output
      <4>2. snap'.candidates \cap world.known = {}
        BY <4>1 DEF CandidatesOf, CanResearch
      <4>3. snap.technologies.researchable \cap world.known # {} =>
              ~(snap.technologies.researchable \subseteq snap'.candidates)
        BY <4>2
      <4>. QED
        BY <1>1, <1>2, <3>1, <3>2, <3>3, <4>3 DEF IInv, ResearchRead
    <3>4. CASE cursor = 8
      <4>1. snap'.candidates = snap.candidates
        BY <2>6, <3>4
      <4>. QED
        BY <1>1, <1>2, <3>1, <3>2, <3>4, <4>1 DEF IInv, ResearchRead
    <3>. QED
      BY <1>1, <2>11, <3>3, <3>4
  <2>. QED
    BY <1>1, <2>7, <2>8, <2>9, <2>10, <2>11
<1>7. Chosen'
  BY <1>2 DEF IInv, Chosen
<1>. QED
  BY <1>3, <1>4, <1>5, <1>6, <1>7 DEF IInv

\* A read that begins has printed nothing, and one that is left leaves nothing.
LEMMA NothingRead ==
  ASSUME TypeOK, Researching(world), snap' = [p \in {} |-> None], cursor' = 0, world' = world,
         moments' \in {{}, {world}}, changes' = changes, orders' \in 0..MaxOrder,
         pending' \in Order \cup {None}, order' \in Order \cup {None},
         pc' \in {"idle", "sent", "accepted"} \/ (pc' \in Reading /\ moments' = {world}),
         result' \in {"none", "success", "error", "invalid"},
         pc' \in {"sent", "accepted", "polling"} => Accepted(before')
  PROVE  TypeOK' /\ Researching(world)' /\ Printed' /\ ResearchRead'
<1>1. DOMAIN snap' = {} /\ DOMAIN snap' = {Programs[i] : i \in 1..cursor'}
  <2>1. 1..0 = {}
    OBVIOUS
  <2>. QED
    BY <2>1
<1>2. pc' \in {"sent", "accepted", "polling"} => Accepted(before)'
  BY DEF Accepted, Parses, PartsMatchHeader, UnitRowsMatch, FactsMatchCandidates, TechnologiesValid, FactsValid,
     Owned
<1>3. TypeOK'
  BY <1>1, <1>2, ProgramFacts DEF TypeOK, Reading
<1>4. Researching(world)'
  BY DEF Researching, CanResearch
<1>5. Printed' /\ ResearchRead'
  BY <1>1 DEF Printed, ResearchRead
<1>. QED
  BY <1>3, <1>4, <1>5

LEMMA ReadPollInv ==
  ASSUME IInv, Read \/ Poll
  PROVE  IInv'
<1>1. /\ snap' = [p \in {} |-> None] /\ cursor' = 0 /\ world' = world /\ moments' = {world}
      /\ changes' = changes /\ orders' = orders /\ pending' = pending
  BY DEF Read, Poll, StartRead
<1>2. /\ order' \in Order \cup {None} /\ pc' \in Reading /\ result' \in {"none", "success", "error", "invalid"}
      /\ pc' \in {"sent", "accepted", "polling"} =>
           /\ Accepted(before') /\ pc = "accepted" /\ order' = order /\ before' = before
  BY DEF Read, Poll, Reading, IInv, TypeOK
<1>3. TypeOK' /\ Researching(world)' /\ Printed' /\ ResearchRead'
  BY <1>1, <1>2, NothingRead DEF IInv, TypeOK
<1>4. Chosen'
  BY <1>2 DEF IInv, Chosen
<1>. QED
  BY <1>3, <1>4 DEF IInv

LEMMA LeaveInv ==
  ASSUME IInv, Watched \/ (\E o \in Order : Decide(o)) \/ RunOrder \/ Judge \/ VerifyTimeout
  PROVE  IInv'
<1>1. /\ snap' = [p \in {} |-> None] /\ cursor' = 0 /\ world' = world /\ moments' = {}
      /\ changes' = changes
  BY DEF Watched, Decide, RunOrder, Judge, VerifyTimeout, End, Leave
<1>2. ASSUME End("none") \/ End("success") \/ End("error") PROVE IInv'
  <2>1. /\ pc' = "idle" /\ order' = order /\ orders' = orders /\ pending' = pending
        /\ result' \in {"none", "success", "error"}
    BY <1>2 DEF End, Leave
  <2>2. TypeOK' /\ Researching(world)' /\ Printed' /\ ResearchRead'
    BY <1>1, <2>1, NothingRead DEF IInv, TypeOK
  <2>. QED
    BY <2>1, <2>2 DEF IInv, Chosen
<1>3. ASSUME NEW o \in Order, Decide(o) PROVE IInv'
  <2>1. /\ order' = o /\ orders' \in 0..MaxOrder /\ pending' = pending
    <3>1. orders \in Nat /\ orders < MaxOrder /\ orders' = orders + 1
      BY <1>3, LiveStateAssumption DEF Decide, IInv, TypeOK
    <3>2. orders' \in 0..MaxOrder
      BY <3>1, LiveStateAssumption
    <3>. QED
      BY <1>3, <3>2 DEF Decide
  <2>2. /\ pc' \in {"idle", "sent"} /\ result' \in {"none", "success", "error", "invalid"}
        /\ pc' = "sent" => Accepted(before') /\ Admissible(o, before')
    BY <1>3 DEF Decide, Leave, IInv, TypeOK
  <2>3. TypeOK' /\ Researching(world)' /\ Printed' /\ ResearchRead'
    BY <1>1, <2>1, <2>2, NothingRead DEF IInv, TypeOK
  <2>4. Chosen'
    <3>1. pc' \in {"sent", "accepted", "polling"} => order' \in Order /\ Admissible(order', before')
      BY <2>1, <2>2
    <3>. QED
      BY <2>2, <3>1 DEF Chosen, Admissible, Owned, UnitIn, BuildState
  <2>. QED
    BY <2>3, <2>4 DEF IInv
<1>4. ASSUME Leave("accepted"), UNCHANGED <<order, orders, before, result>>, pending' \in {order, pending},
             pc \in {"sent", "polling"},
             order.action = "move_unit" => UnitIn(before, order.unit).at # order.to
      PROVE  IInv'
  <2>1. pc' = "accepted" /\ Accepted(before') /\ order \in Order /\ Admissible(order, before)
    BY <1>4 DEF Leave, IInv, TypeOK, Chosen
  <2>2. TypeOK' /\ Researching(world)' /\ Printed' /\ ResearchRead'
    BY <1>1, <1>4, <2>1, NothingRead DEF IInv, TypeOK
  <2>3. Chosen'
    BY <1>4, <2>1 DEF Chosen, Admissible, Owned, UnitIn, BuildState
  <2>. QED
    BY <2>2, <2>3 DEF IInv
<1>5. CASE RunOrder
  <2>1. CASE /\ GameAccepts(order, before, world) /\ Leave("accepted") /\ pending' = order
             /\ UNCHANGED <<order, orders, before, result>>
    <3>1. ASSUME order.action = "move_unit" PROVE UnitIn(before, order.unit).at # order.to
      <4>1. CanMove(world, order.unit, order.to) /\ world.units[order.unit].at = UnitIn(before, order.unit).at
        BY <2>1, <3>1 DEF GameAccepts
      <4>2. <<world.units[order.unit].at, order.to>> \in Adjacent
        BY <4>1 DEF CanMove
      <4>. QED
        BY <4>1, <4>2, LiveStateAssumption
    <3>. QED
      BY <1>4, <1>5, <2>1, <3>1 DEF RunOrder
  <2>2. CASE End("error")
    BY <1>2, <2>2
  <2>. QED
    BY <1>5, <2>1, <2>2 DEF RunOrder
<1>6. CASE Judge
  <2>1. /\ pc = "polling"
        /\ \/ Leave("accepted") /\ UNCHANGED <<pending, order, orders, before, result>>
           \/ End("success") \/ End("error")
    BY <1>6 DEF Judge
  <2>2. order.action = "move_unit" => UnitIn(before, order.unit).at # order.to
    BY <2>1 DEF IInv, Chosen
  <2>. QED
    BY <1>2, <1>4, <2>1, <2>2
<1>7. CASE Watched \/ VerifyTimeout
  BY <1>2, <1>7 DEF Watched, VerifyTimeout
<1>. QED
  BY <1>3, <1>5, <1>6, <1>7

LEMMA StutterInv == IInv /\ UNCHANGED vars => IInv'
<1> SUFFICES ASSUME IInv, UNCHANGED vars PROVE IInv'
  OBVIOUS
<1>0. UNCHANGED <<world, pending, changes, pc, cursor, snap, order, orders, before, result, moments>>
  BY DEF vars, reader
<1>1. TypeOK'
  <2>1. Accepted(before) => Accepted(before)'
    BY <1>0 DEF Accepted, Parses, PartsMatchHeader, UnitRowsMatch, FactsMatchCandidates, TechnologiesValid,
                FactsValid, Owned
  <2>. QED
    BY <1>0, <2>1 DEF IInv, TypeOK
<1>2. Researching(world)'
  BY <1>0 DEF IInv, Researching, CanResearch
<1>3. Printed'
  BY <1>0 DEF IInv, Printed
<1>4. ResearchRead'
  BY <1>0 DEF IInv, ResearchRead, ReadTogether, ReadOf, CanResearch
<1>5. Chosen'
  BY <1>0 DEF IInv, Chosen
<1>. QED
  BY <1>1, <1>2, <1>3, <1>4, <1>5 DEF IInv

\* The inductive invariant, for any units, plots, builds and technologies, and any number of
\* turns, changes and commands.
THEOREM Invariant == Spec => []IInv
<1>1. IInv /\ [Next]_vars => IInv'
  BY GameInv, RunProgramInv, ReadPollInv, LeaveInv, StutterInv DEF Next
<1>. QED
  BY <1>1, InitInv, PTL DEF Spec

\* Types, and that a command is executed from an accepted state only.
THEOREM LiveStateTypeTheorem == Spec => []TypeOK
<1>1. IInv => TypeOK
  BY DEF IInv
<1>. QED
  BY <1>1, Invariant, PTL

\* A read during which nothing changes is accepted: the programs, the parser and the validator
\* agree on what a state is, whatever mode, phase and orders the game is in
\* (tuner.py snapshot_lua_programs and parse_snapshot, validation.py).
THEOREM QuietReadTheorem == Spec => []QuietReadIsAccepted
<1>1. IInv => QuietReadIsAccepted
  <2> SUFFICES ASSUME IInv, Complete, moments = {world} PROVE Accepted(snap)
    BY DEF QuietReadIsAccepted
  <2>1. \A p \in {"header", "units", "technologies", "targets", "context", "builds",
                  "facts", "candidates", "runtime"} : snap[p] = Output(world)[p]
    BY PrintedSoFar, ProgramFacts DEF Complete, IInv, Printed
  <2>2. /\ snap["header"] = HeaderOf(world) /\ snap["units"] = UnitsOf(world)
        /\ snap["technologies"] = TechnologiesOf(world) /\ snap["targets"] = TargetsOf(world)
        /\ snap["context"] = ContextOf(world) /\ snap["builds"] = BuildsOf(world)
        /\ snap["facts"] = FactsOf(world) /\ snap["candidates"] = CandidatesOf(world)
        /\ snap["runtime"] = [turn |-> world.turn]
    BY <2>1 DEF Output
  <2>3. Researching(world) /\ world \in World
    BY DEF IInv, TypeOK
  <2>4. PartsMatchHeader(snap)
    <3>1. Parts \subseteq {"units", "technologies", "targets", "context", "builds", "facts", "runtime"}
      BY DEF Parts, Programs
    <3>2. \A p \in {"units", "technologies", "targets", "context", "builds", "facts", "runtime"} :
            snap[p].turn = world.turn
      BY <2>2 DEF UnitsOf, TechnologiesOf, TargetsOf, ContextOf, BuildsOf, FactsOf
    <3>. QED
      BY <2>2, <3>1, <3>2 DEF PartsMatchHeader, HeaderOf
  <2>5. UnitRowsMatch(snap)
    BY <2>2 DEF UnitRowsMatch, Owned, UnitsOf, TargetsOf, ContextOf, BuildsOf
  <2>6. FactsMatchCandidates(snap)
    BY <2>2, <2>3 DEF FactsMatchCandidates, FactsOf, CandidatesOf, Researching
  <2>7. TechnologiesValid(snap)
    <3> DEFINE able == IF world.mode = "unsupported" THEN {} ELSE CanResearch(world)
    <3>1. /\ snap.technologies.researched = world.known /\ snap.technologies.researchable = able
          /\ snap.technologies.mode = world.mode /\ snap.header.current = world.current
          /\ snap.technologies.required = (world.mode # "normal" \/ (world.current = None /\ able # {}))
      BY <2>2 DEF TechnologiesOf, HeaderOf
    <3>2. world.known \cap able = {} /\ world.current \notin world.known
      BY <2>3, LiveStateAssumption DEF Researching, CanResearch, World
    <3>3. ~snap.technologies.required => snap.technologies.mode = "normal"
      BY <3>1
    <3>4. snap.technologies.mode = "normal" =>
            snap.technologies.required = (snap.header.current = None /\ snap.technologies.researchable # {})
      BY <3>1
    <3>. QED
      BY <3>1, <3>2, <3>3, <3>4 DEF TechnologiesValid
  <2>8. FactsValid(snap)
    BY <2>2, <2>3 DEF FactsValid, FactsOf, CandidatesOf, TechnologiesOf, HeaderOf, Researching, World
  <2>. QED
    BY <2>4, <2>5, <2>6, <2>7, <2>8 DEF Accepted, Parses
<1>. QED
  BY <1>1, Invariant, PTL

\* The research of an accepted state whose facts are supported was true all at once at one
\* moment of the read, although four programs read it (tuner.py snapshot_lua_programs,
\* validation.py).
THEOREM ResearchTheorem == Spec => []ResearchOfOneMoment
<1>1. IInv => ResearchOfOneMoment
  <2> SUFFICES ASSUME IInv, Complete, Accepted(snap), snap.facts.status = "supported"
               PROVE  \E w \in moments :
                        /\ w.current = snap.header.current /\ w.known = snap.technologies.researched
                        /\ snap.technologies.researchable = CanResearch(w)
                        /\ w.mode = "normal" /\ w.window = "open"
    BY DEF ResearchOfOneMoment
  <2>1. /\ snap.technologies.mode = "normal" /\ snap.facts.current = snap.header.current
        /\ snap.technologies.researchable \subseteq snap.candidates
    BY DEF Accepted, FactsValid
  <2>2. ReadTogether
    BY <2>1, ProgramFacts DEF IInv, ResearchRead, Complete
  <2>. QED
    BY <2>1, <2>2 DEF ReadTogether, ReadOf
<1>. QED
  BY <1>1, Invariant, PTL

\* The executor accepts every success of the watcher about the state it has observed, but
\* that of research or a skip seen when the turn was over (command.py 108, 258-264 and
\* execute_move_unit, execute_worker_build; turn_executor.py 498-548).
THEOREM ExecutorTheorem == Spec => []SuccessPassesExecutor
<1>1. IInv => SuccessPassesExecutor
  <2> SUFFICES ASSUME IInv, Succeeds,
                      order.action \in {"choose_research", "skip_unit"} => SameTurn(before, snap)
               PROVE  ExecutorAccepts(order, before, before, snap)
    BY DEF SuccessPassesExecutor
  <2>1. /\ pc = "polling" /\ Verified(order, before, snap) /\ order \in Order /\ Admissible(order, before)
        /\ order.action = "move_unit" => UnitIn(before, order.unit).at # order.to
    BY DEF Succeeds, IInv, Chosen
  <2>2. ASSUME order.action = "move_unit" PROVE MovePostcondition(order, before, snap)
    BY <2>1, <2>2 DEF Verified, Admissible, MovePostcondition
  <2>3. ASSUME order.action = "worker_build" PROVE BuildPostcondition(order, before, snap)
    BY <2>1, <2>3 DEF Verified, Admissible, BuildPostcondition
  <2>4. SameTurn(before, snap)
    BY <2>1 DEF Verified
  <2>. QED
    BY <2>2, <2>3, <2>4 DEF ExecutorAccepts
<1>. QED
  BY <1>1, Invariant, PTL

\* A worker_build success is true if the unit stood still during the read (command.py
\* execute_worker_build).
THEOREM BuildTheorem == Spec => []BuildIsTrue
<1>1. IInv => BuildIsTrue
  <2> SUFFICES ASSUME IInv, Succeeds, order.action = "worker_build", Stayed(order.unit, order.from)
               PROVE  \E w \in moments :
                        w.units[order.unit].build = order.build \/ w.improved[order.from] = order.build
    BY DEF BuildIsTrue
  <2>1. order.unit \in Owned(snap) /\ BuildOutcome(order, UnitIn(snap, order.unit))
    BY DEF Succeeds, Verified, Built
  <2>2. "context" \in DOMAIN snap
    BY PrintedSoFar, ProgramFacts DEF Succeeds, Complete, IInv
  <2>3. PICK w \in moments : snap["context"] = Output(w)["context"]
    BY <2>2 DEF IInv, Printed
  <2>4. snap.context = ContextOf(w) /\ order.unit \in DOMAIN w.units /\ w.units[order.unit].at = order.from
    BY <2>3 DEF Output, Stayed
  <2>5. /\ UnitIn(snap, order.unit).build = w.units[order.unit].build
        /\ UnitIn(snap, order.unit).improvement = w.improved[order.from]
    BY <2>4 DEF UnitIn, ContextOf
  <2>. QED
    BY <2>1, <2>5 DEF BuildOutcome
<1>. QED
  BY <1>1, Invariant, PTL

=============================================================================
