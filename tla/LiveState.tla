------------------------------ MODULE LiveState -----------------------------
(***************************************************************************)
(* What one live state says, field by field, and what a command concludes  *)
(* from two of them.  A state is not read at once: the game runs a header  *)
(* program and the part programs (tuner.py, snapshot_lua_programs) one     *)
(* after the other while the human plays on.  parse_snapshot joins their   *)
(* rows, validate_live_state judges the join, the execute_* functions of   *)
(* command.py compare the state before a command with the states polled    *)
(* after it, and turn_executor.py checks their result once more.           *)
(* The turn stands for turn and active player, which are always compared   *)
(* together.  The parts without a relation to another one (cities,         *)
(* diplomacy, victory) are left out; runtime_context comes last and stands *)
(* for their turn check.  Every plot is land without a feature; Terrain is *)
(* all that a build leaves as it is.  A build names its improvement.       *)
(***************************************************************************)
EXTENDS Integers, Sequences, FiniteSets

CONSTANTS Unit, Plot, Build, Tech,
          Adjacent,    \* pairs of plots at distance one
          Terrain,     \* [Plot -> the fields of a plot other than its improvement]
          Requires,    \* [Tech -> the technologies it needs]
          MaxMoves,    \* bound: movement points of a unit
          MaxTurn,     \* bound: the last turn
          MaxChange,   \* bound: changes made by the human and the game
          MaxOrder,    \* bound: commands executed
          None

ASSUME LiveStateAssumption ==
  /\ MaxMoves \in Nat /\ MaxTurn \in Nat /\ MaxChange \in Nat /\ MaxOrder \in Nat
  /\ Adjacent \subseteq Plot \X Plot /\ \A p \in Plot : <<p, p>> \notin Adjacent
  /\ DOMAIN Terrain = Plot
  /\ Requires \in [Tech -> SUBSET Tech]
  /\ None \notin Unit \cup Plot \cup Build \cup Tech

Programs == <<"header", "units", "technologies", "targets", "context", "builds",
              "facts", "candidates", "runtime">>

OwnedUnit == [type : {"worker", "other"}, at : Plot, moves : 0..MaxMoves,
              ready : BOOLEAN, build : Build \cup {None}]

World ==
  [turn : 0..MaxTurn, window : {"open", "processing", "over"},
   units : UNION {[us -> OwnedUnit] : us \in SUBSET Unit},
   improved : [Plot -> Build \cup {None}],
   current : Tech \cup {None}, known : SUBSET Tech,
   mode : {"normal", "free_technology", "unsupported"}, api : BOOLEAN]

Order ==
  [action : {"choose_research"}, tech : Tech]
    \cup [action : {"skip_unit"}, unit : Unit]
    \cup [action : {"move_unit"}, unit : Unit, to : Plot]
    \cup [action : {"worker_build"}, unit : Unit, from : Plot, build : Build]

VARIABLES
  world,     \* the game
  pending,   \* the order it accepted and has not carried out
  changes,   \* changes made so far
  pc,        \* what the state being read is for: idle, reading or polling; or sent, accepted
  cursor,    \* programs of the read that were run
  snap,      \* [program -> its output]
  order,     \* the command being executed
  orders,    \* commands so far
  before,    \* the state it read first
  result,    \* its status
  moments    \* history: the worlds there were since the read began

reader == <<pc, cursor, snap, order, orders, before, result>>
vars == <<world, pending, changes, reader, moments>>

Reading == {"reading", "polling"}

-----------------------------------------------------------------------------
(* What each program prints of the world it runs in.                       *)

CanAct(w, u) ==
  u \in DOMAIN w.units /\ w.window = "open" /\ w.units[u].ready /\ w.units[u].moves > 0

Empty(w, p) == \A u \in DOMAIN w.units : w.units[u].at # p

CanMove(w, u, p) == CanAct(w, u) /\ <<w.units[u].at, p>> \in Adjacent /\ Empty(w, p)

CanBuild(w, u, b) ==
  /\ CanAct(w, u) /\ w.units[u].type = "worker"
  /\ w.units[u].build = None /\ w.improved[w.units[u].at] = None

CanResearch(w) == {t \in Tech \ w.known : Requires[t] \subseteq w.known}

HeaderOf(w) == [turn |-> w.turn, active |-> w.window # "over", current |-> w.current]

UnitsOf(w) ==
  [turn |-> w.turn,
   of |-> [u \in DOMAIN w.units |->
             [type |-> w.units[u].type, at |-> w.units[u].at,
              moves |-> w.units[u].moves, ready |-> w.units[u].ready]]]

TechnologiesOf(w) ==
  LET able == IF w.mode = "unsupported" THEN {} ELSE CanResearch(w) IN
  [turn |-> w.turn, researched |-> w.known, researchable |-> able, mode |-> w.mode,
   required |-> w.mode # "normal" \/ (w.current = None /\ able # {})]

TargetsOf(w) ==
  [turn |-> w.turn,
   rows |-> {r \in (DOMAIN w.units) \X Plot : CanMove(w, r[1], r[2])}]

ContextOf(w) ==
  [turn |-> w.turn,
   of |-> [u \in DOMAIN w.units |->
             [terrain |-> Terrain[w.units[u].at],
              improvement |-> w.improved[w.units[u].at], build |-> w.units[u].build]]]

BuildsOf(w) ==
  [turn |-> w.turn,
   rows |-> {r \in (DOMAIN w.units) \X Build : CanBuild(w, r[1], r[2])}]

FactsOf(w) ==
  LET supported == w.mode = "normal" /\ w.window = "open" /\ w.api IN
  [turn |-> w.turn,
   status |-> IF supported THEN "supported"
              ELSE IF w.mode = "free_technology" THEN "free_technology_mode"
              ELSE IF w.mode = "unsupported" THEN "technology_steal_mode"
              ELSE IF w.api THEN "outside_action_window"
              ELSE "runtime_api_binding_unavailable",
   current |-> IF supported THEN w.current ELSE None]

\* Mutant of CandidatesOf: the mode of the research choice is not looked at.
CandidatesInAnyMode(w) ==
  IF w.window = "open" /\ w.api THEN CanResearch(w) ELSE {}

\* The rows follow the facts without a part marker, so without a turn.
CandidatesOf(w) ==
  IF w.window = "open" /\ w.api /\ w.mode = "normal" THEN CanResearch(w) ELSE {}

Output(w) ==
  [header |-> HeaderOf(w), units |-> UnitsOf(w), technologies |-> TechnologiesOf(w),
   targets |-> TargetsOf(w), context |-> ContextOf(w), builds |-> BuildsOf(w),
   facts |-> FactsOf(w), candidates |-> CandidatesOf(w), runtime |-> [turn |-> w.turn]]

-----------------------------------------------------------------------------
(* parse_snapshot and validate_live_state.                                 *)

Parts == {Programs[i] : i \in DOMAIN Programs} \ {"header", "candidates"}

Owned(s) == DOMAIN s.units.of

PartsMatchHeader(s) == \A p \in Parts : s[p].turn = s.header.turn

UnitRowsMatch(s) ==
  /\ \A r \in s.targets.rows \cup s.builds.rows : r[1] \in Owned(s)
  /\ DOMAIN s.context.of = Owned(s)

FactsMatchCandidates(s) ==
  /\ s.facts.current # None => s.facts.current \in s.candidates
  /\ s.facts.status # "supported" => s.candidates = {}

Parses(s) == PartsMatchHeader(s) /\ UnitRowsMatch(s) /\ FactsMatchCandidates(s)

TechnologiesValid(s) ==
  LET t == s.technologies IN
  /\ t.researched \cap t.researchable = {}
  /\ s.header.current \notin t.researched
  /\ ~t.required => t.mode = "normal"
  /\ t.mode = "normal" => t.required = (s.header.current = None /\ t.researchable # {})

\* Mutant of FactsValid: the current research of the facts is not compared.
FactsValidForMode(s) ==
  s.facts.status = "supported" =>
    /\ s.technologies.mode = "normal" /\ s.header.active
    /\ s.technologies.researchable \subseteq s.candidates

FactsValid(s) ==
  LET status == s.facts.status
      mode == s.technologies.mode IN
  /\ status = "supported" =>
       /\ mode = "normal" /\ s.header.active
       /\ s.candidates = s.technologies.researchable \cup ({s.header.current} \ {None})
       /\ s.facts.current = s.header.current
  /\ status = "free_technology_mode" => mode = "free_technology"
  /\ status = "technology_steal_mode" => mode = "unsupported"

\* The types and ranges of single fields are right in whatever the programs print.
Accepted(s) == Parses(s) /\ TechnologiesValid(s) /\ FactsValid(s)

\* The record of a unit, joined from four programs.
UnitIn(s, u) ==
  [type |-> s.units.of[u].type, at |-> s.units.of[u].at,
   moves |-> s.units.of[u].moves, ready |-> s.units.of[u].ready,
   terrain |-> s.context.of[u].terrain, improvement |-> s.context.of[u].improvement,
   build |-> s.context.of[u].build,
   targets |-> {p \in Plot : <<u, p>> \in s.targets.rows},
   builds |-> {b \in Build : <<u, b>> \in s.builds.rows}]

-----------------------------------------------------------------------------
(* The execute_* functions: before, after, and the Lua program between.    *)

AlreadyDone(o, s) ==
  \/ o.action = "choose_research" /\ s.header.current = o.tech
  \/ o.action = "skip_unit" /\ o.unit \in Owned(s) /\ ~UnitIn(s, o.unit).ready

BuildState(v) == v.build = None /\ v.improvement = None /\ v.ready /\ v.moves > 0

Admissible(o, s) ==
  o.action # "choose_research" =>
    /\ o.unit \in Owned(s)
    /\ LET v == UnitIn(s, o.unit) IN
       /\ o.action = "move_unit" => o.to \in v.targets
       /\ o.action = "worker_build" => v.at = o.from /\ BuildState(v) /\ o.build \in v.builds

\* Mutant of GameAccepts: the distance from the recorded source is not measured.
GameAcceptsAnyDistance(o, s, w) ==
  \/ /\ o.action = "choose_research"
     /\ w.current = o.tech \/ (w.window = "open" /\ o.tech \in CanResearch(w))
  \/ /\ o.action = "skip_unit" /\ o.unit \in DOMAIN w.units
     /\ w.window = "open" /\ w.units[o.unit].moves > 0
  \/ /\ o.action = "move_unit" /\ CanAct(w, o.unit)
     /\ w.units[o.unit].at = UnitIn(s, o.unit).at
  \/ /\ o.action = "worker_build" /\ CanBuild(w, o.unit, o.build)
     /\ w.units[o.unit].at = o.from

\* The guards of the four Lua programs; the source of a move is that of the before-state.
GameAccepts(o, s, w) ==
  \/ /\ o.action = "choose_research"
     /\ w.current = o.tech \/ (w.window = "open" /\ o.tech \in CanResearch(w))
  \/ /\ o.action = "skip_unit" /\ o.unit \in DOMAIN w.units
     /\ w.window = "open" /\ w.units[o.unit].moves > 0
  \/ /\ o.action = "move_unit" /\ CanMove(w, o.unit, o.to)
     /\ w.units[o.unit].at = UnitIn(s, o.unit).at
  \/ /\ o.action = "worker_build" /\ CanBuild(w, o.unit, o.build)
     /\ w.units[o.unit].at = o.from

SameTurn(b, s) == s.header.turn = b.header.turn /\ s.header.active

\* Mutant of BuildOutcome: an ended build counts as completed.
BuildEnded(o, v) == v.build \in {o.build, None}

BuildOutcome(o, v) ==
  \/ v.build = o.build /\ v.improvement = None
  \/ v.build = None /\ v.improvement = o.build

Reached(o, b, s) ==
  LET was == UnitIn(b, o.unit)
      is == UnitIn(s, o.unit) IN
  is.type = was.type /\ is.at = o.to /\ is.moves < was.moves

Built(o, b, s) ==
  LET was == UnitIn(b, o.unit)
      is == UnitIn(s, o.unit) IN
  is.type = was.type /\ is.at = o.from /\ is.terrain = was.terrain
    /\ is.moves < was.moves /\ BuildOutcome(o, is)

Skipped(o, b, s) ==
  LET was == UnitIn(b, o.unit)
      is == UnitIn(s, o.unit) IN
  ~is.ready /\ is.at = was.at /\ is.moves = was.moves

\* A polled state that ends the verification with success.
Verified(o, b, s) ==
  \/ o.action = "choose_research" /\ s.header.current = o.tech
  \/ /\ o.action # "choose_research" /\ o.unit \in Owned(s)
     /\ \/ o.action = "skip_unit" /\ Skipped(o, b, s)
        \/ o.action = "move_unit" /\ SameTurn(b, s) /\ Reached(o, b, s)
        \/ o.action = "worker_build" /\ SameTurn(b, s) /\ Built(o, b, s)

\* A polled state that shows nothing yet: the other ones end it with an error.
Unchanged(o, b, s) ==
  \/ o.action \in {"choose_research", "skip_unit"}
  \/ /\ SameTurn(b, s) /\ o.unit \in Owned(s)
     /\ LET was == UnitIn(b, o.unit)
            is == UnitIn(s, o.unit) IN
        /\ is.type = was.type /\ is.at = was.at /\ is.moves = was.moves
        /\ o.action = "move_unit" => is.at # o.to
        /\ o.action = "worker_build" => is.terrain = was.terrain

-----------------------------------------------------------------------------
(* turn_executor.py: the checks of a result that claims success, for an    *)
(* action other than end_turn.                                             *)

MovePostcondition(o, b, s) ==
  /\ o.unit \in Owned(b) \cap Owned(s)
  /\ o.to \in UnitIn(b, o.unit).targets
  /\ UnitIn(b, o.unit).at # o.to
  /\ Reached(o, b, s) /\ SameTurn(b, s)

BuildPostcondition(o, b, s) ==
  /\ o.unit \in Owned(b) \cap Owned(s)
  /\ UnitIn(b, o.unit).at = o.from /\ BuildState(UnitIn(b, o.unit))
  /\ o.build \in UnitIn(b, o.unit).builds
  /\ Built(o, b, s) /\ SameTurn(b, s)

\* The executor sends an action only in a state it has observed itself to be of the turn
\* of its plan, and active.  The state before must be that one; the state after must
\* be of the plan's turn, and active, whatever the action.
ExecutorAccepts(o, observed, b, s) ==
  /\ b = observed
  /\ o.action = "move_unit" => MovePostcondition(o, b, s)
  /\ o.action = "worker_build" => BuildPostcondition(o, b, s)
  /\ SameTurn(observed, s)

-----------------------------------------------------------------------------
(* The game and the human.                                                 *)

Moved(w, u, p) ==
  [w EXCEPT !.units[u] =
     [w.units[u] EXCEPT !.at = p, !.moves = @ - 1, !.ready = w.units[u].moves > 1, !.build = None]]

Working(w, u, b) ==
  [w EXCEPT !.units[u] = [w.units[u] EXCEPT !.build = b, !.moves = @ - 1, !.ready = FALSE]]

Improved(w, u, b) ==
  [w EXCEPT !.improved[w.units[u].at] = b,
            !.units[u] = [w.units[u] EXCEPT !.moves = @ - 1, !.ready = w.units[u].moves > 1]]

\* An order carried out by the game: none if it is not legal any more.
Effects(o, w) ==
  CASE o.action = "choose_research" ->
         IF o.tech \in CanResearch(w) THEN {[w EXCEPT !.current = o.tech]} ELSE {}
    [] o.action = "skip_unit" ->
         IF o.unit \in DOMAIN w.units THEN {[w EXCEPT !.units[o.unit].ready = FALSE]} ELSE {}
    [] o.action = "move_unit" ->
         IF CanMove(w, o.unit, o.to) THEN {Moved(w, o.unit, o.to)} ELSE {}
    [] o.action = "worker_build" ->
         IF CanBuild(w, o.unit, o.build)
         THEN {Working(w, o.unit, o.build), Improved(w, o.unit, o.build)} ELSE {}

\* What happens to units beside orders: woken, lost, upgraded, gained.
Woken(w, u) ==
  [w EXCEPT !.units[u] = [w.units[u] EXCEPT !.build = None, !.ready = w.units[u].moves > 0]]

Lost(w, u) == [w EXCEPT !.units = [v \in DOMAIN @ \ {u} |-> @[v]]]

Upgraded(w, u) == [w EXCEPT !.units[u].type = "other"]

Gained(w, u, p) ==
  [w EXCEPT !.units =
     [v \in DOMAIN @ \cup {u} |->
        IF v = u THEN [type |-> "worker", at |-> p, moves |-> MaxMoves, ready |-> TRUE, build |-> None]
                 ELSE @[v]]]

UnitEvents(w) ==
  {Woken(w, u) : u \in DOMAIN w.units} \cup {Lost(w, u) : u \in DOMAIN w.units}
    \cup {Upgraded(w, u) : u \in DOMAIN w.units}
    \cup {Gained(w, u, p) : u \in Unit \ DOMAIN w.units, p \in {p \in Plot : Empty(w, p)}}

\* A technology is found, a free or stolen one has to be chosen, or was.
ResearchEvents(w) ==
  {[w EXCEPT !.known = @ \cup {t}, !.current = IF @ = t THEN None ELSE @] : t \in CanResearch(w)}
    \cup {[w EXCEPT !.mode = m] : m \in {"normal", "free_technology", "unsupported"}}

NewTurn(w) ==
  [w EXCEPT !.turn = @ + 1, !.window = "open",
            !.units = [u \in DOMAIN w.units |->
                         [w.units[u] EXCEPT !.moves = MaxMoves, !.ready = w.units[u].build = None]]]

\* Messages are processed, the turn ends, the next one begins.
Time(w) ==
  CASE w.window = "open" -> {[w EXCEPT !.window = "processing"], [w EXCEPT !.window = "over"]}
    [] w.window = "processing" -> {[w EXCEPT !.window = "open"]}
    [] w.window = "over" /\ w.turn < MaxTurn -> {NewTurn(w)}
    [] OTHER -> {}

Change(w) == (UNION {Effects(o, w) : o \in Order}) \cup UnitEvents(w) \cup ResearchEvents(w) \cup Time(w)

\* Every world a read passes through is remembered until it ends.
Remember == moments' = IF pc \in Reading THEN moments \cup {world'} ELSE {}

GameMoves ==
  /\ changes < MaxChange /\ changes' = changes + 1
  /\ world' \in Change(world) \ {world}
  /\ Remember
  /\ UNCHANGED <<pending, reader>>

CarryOut ==
  /\ pending # None /\ pending' = None
  /\ world' \in Effects(pending, world) \cup {world}
  /\ Remember
  /\ UNCHANGED <<changes, reader>>

-----------------------------------------------------------------------------
(* The reader, alone on the connection: the main loop or a command.        *)

StartRead ==
  /\ snap' = [p \in {} |-> None] /\ cursor' = 0 /\ moments' = {world}
  /\ UNCHANGED <<world, pending, changes>>

\* A snapshot of the main loop, or the state before a command.
Read ==
  /\ pc = "idle" /\ pc' = "reading" /\ before' = None /\ order' = None /\ result' = "none"
  /\ StartRead /\ UNCHANGED orders

Poll ==
  /\ pc = "accepted" /\ pc' = "polling" /\ StartRead
  /\ UNCHANGED <<order, orders, before, result>>

RunProgram ==
  /\ pc \in Reading /\ cursor < Len(Programs) /\ cursor' = cursor + 1
  /\ LET p == Programs[cursor'] IN
     snap' = [q \in DOMAIN snap \cup {p} |-> IF q = p THEN Output(world)[p] ELSE snap[q]]
  /\ UNCHANGED <<world, pending, changes, pc, order, orders, before, result, moments>>

Complete == pc \in Reading /\ cursor = Len(Programs)

\* Mutant of Leave: the messages of the read are not given up.
LeaveWithMessages(next) ==
  /\ pc' = next /\ cursor' = 0 /\ moments' = {}
  /\ UNCHANGED <<world, changes, snap>>

Leave(next) ==
  /\ pc' = next /\ cursor' = 0 /\ snap' = [p \in {} |-> None] /\ moments' = {}
  /\ UNCHANGED <<world, changes>>

End(status) ==
  Leave("idle") /\ result' = status /\ before' = None /\ UNCHANGED <<pending, order, orders>>

Watched == pc = "reading" /\ Complete /\ End("none")

\* The state before a command is refused, is the answer already, or the order is sent.
Decide(o) ==
  /\ pc = "reading" /\ Complete /\ orders < MaxOrder
  /\ orders' = orders + 1 /\ order' = o /\ UNCHANGED pending
  /\ \/ /\ Accepted(snap) /\ ~AlreadyDone(o, snap) /\ Admissible(o, snap)
        /\ Leave("sent") /\ before' = snap /\ UNCHANGED result
     \/ /\ Leave("idle") /\ UNCHANGED before
        /\ result' = IF ~Accepted(snap) THEN "invalid"
                     ELSE IF AlreadyDone(o, snap) THEN "success" ELSE "error"
        /\ ~Accepted(snap) \/ AlreadyDone(o, snap) \/ ~Admissible(o, snap)

RunOrder ==
  /\ pc = "sent"
  /\ \/ /\ GameAccepts(order, before, world)
        /\ Leave("accepted") /\ pending' = order /\ UNCHANGED <<order, orders, before, result>>
     \/ End("error")

\* A polled state that does not parse or validate is skipped.
Judge ==
  /\ pc = "polling" /\ Complete
  /\ IF ~Accepted(snap) THEN Leave("accepted") /\ UNCHANGED <<pending, order, orders, before, result>>
     ELSE IF Verified(order, before, snap) THEN End("success")
     ELSE IF Unchanged(order, before, snap)
          THEN Leave("accepted") /\ UNCHANGED <<pending, order, orders, before, result>>
     ELSE End("error")

VerifyTimeout == pc = "accepted" /\ End("error")

Init ==
  /\ world \in
       {[turn |-> 0, window |-> "open",
         units |-> [u \in Unit |-> [type |-> "worker", at |-> at[u], moves |-> MaxMoves,
                                     ready |-> TRUE, build |-> None]],
         improved |-> improved, current |-> current, known |-> {}, mode |-> "normal",
         api |-> api] :
          at \in [Unit -> Plot], improved \in [Plot -> Build \cup {None}],
          current \in {t \in Tech : Requires[t] = {}} \cup {None}, api \in BOOLEAN}
  /\ pending = None /\ changes = 0
  /\ pc = "idle" /\ cursor = 0 /\ snap = [p \in {} |-> None]
  /\ order = None /\ orders = 0 /\ before = None /\ result = "none" /\ moments = {}

Next ==
  \/ GameMoves \/ CarryOut
  \/ Read \/ Poll \/ RunProgram
  \/ Watched \/ (\E o \in Order : Decide(o)) \/ RunOrder \/ Judge \/ VerifyTimeout

Spec == Init /\ [][Next]_vars

-----------------------------------------------------------------------------
TypeOK ==
  /\ world \in World
  /\ pending \in Order \cup {None} /\ order \in Order \cup {None}
  /\ changes \in 0..MaxChange /\ orders \in 0..MaxOrder
  /\ pc \in Reading \cup {"idle", "sent", "accepted"}
  /\ cursor \in 0..Len(Programs)
  /\ DOMAIN snap = {Programs[i] : i \in 1..cursor}
  /\ result \in {"none", "success", "error", "invalid"}
  /\ moments \subseteq World /\ (pc \in Reading => world \in moments)
  /\ pc \in {"sent", "accepted", "polling"} => Accepted(before)

\* A read during which nothing changes is accepted: the programs, the parser
\* and the validator agree on what a state is, whatever mode, phase and orders it is in.
QuietReadIsAccepted == Complete /\ moments = {world} => Accepted(snap)

\* The research of an accepted state whose runtime facts are supported (what is known,
\* what can be chosen, what is being researched, that it is the ordinary choice of an open
\* turn) was true all at once at one moment of the read, although four programs read it.
ResearchOfOneMoment ==
  Complete /\ Accepted(snap) /\ snap.facts.status = "supported" =>
    \E w \in moments :
      /\ w.current = snap.header.current /\ w.known = snap.technologies.researched
      /\ snap.technologies.researchable = CanResearch(w)
      /\ w.mode = "normal" /\ w.window = "open"

Succeeds == pc = "polling" /\ Complete /\ Accepted(snap) /\ Verified(order, before, snap)

\* If the watcher found the state that the executor observed, the executor accepts its
\* success, with one exception: research chosen, or a unit skipped, in a state in which
\* the turn was over, as command.py does not look at the turn of these.  For the other two
\* the checks repeat command.py in other words, but that the unit did not start
\* on its target is guaranteed by the distance in the Lua program alone.
SuccessPassesExecutor ==
  Succeeds =>
    \/ ExecutorAccepts(order, before, before, snap)
    \/ order.action \in {"choose_research", "skip_unit"} /\ ~SameTurn(before, snap)

Stayed(u, p) == \A w \in moments : u \in DOMAIN w.units /\ w.units[u].at = p

\* A worker_build success is true if the unit stood still during the read: it was
\* building, or the improvement was there, on the plot the caller named.
BuildIsTrue ==
  Succeeds /\ order.action = "worker_build" /\ Stayed(order.unit, order.from) =>
    \E w \in moments : w.units[order.unit].build = order.build \/ w.improved[order.from] = order.build
=============================================================================
