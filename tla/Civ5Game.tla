------------------------------ MODULE Civ5Game ------------------------------
(***************************************************************************)
(* What the bridge can see of the game and what its six commands do to it. *)
(* A live state keeps three facts: the turn number, whether the player's   *)
(* turn is active, and which orders already hold in it (the research is    *)
(* selected, the city produces the item, the unit has skipped, moved or    *)
(* started its build).  An order that does not hold is a mandatory choice  *)
(* still open.  The commands fall into classes by what their execute_*     *)
(* function does with the state it reads first:                            *)
(*   Selecting  choose_research, skip_unit: answered "success" without a   *)
(*              write when the postcondition already holds;                *)
(*   Setting    set_city_production: always submitted;                     *)
(*   Consuming  move_unit, worker_build: inadmissible once done, and       *)
(*              verification gives up when the turn changes;               *)
(*   EndTurn    verified by the turn number alone.                         *)
(***************************************************************************)
EXTENDS Integers

CONSTANTS Selecting, Setting, Consuming, EndTurn,
          MaxTurn          \* bound: the last turn number that is played

Order == Selecting \cup Setting \cup Consuming
Act == Order \cup {EndTurn}

ASSUME GameAssumption ==
  /\ MaxTurn \in Nat
  /\ EndTurn \notin Order
  /\ Selecting \cap Setting = {}
  /\ Selecting \cap Consuming = {}
  /\ Setting \cap Consuming = {}

State == [turn : 0..MaxTurn, active : BOOLEAN, done : SUBSET Order]

Requirements(s) == Order \ s.done

-----------------------------------------------------------------------------
(* The Lua programs: what the game accepts, and what an accepted one does. *)

\* "already" needs neither an active turn nor a legal order; a done consuming
\* order has no legal source any more; EndTurn needs every mandatory choice made.
Accepts(a, s) ==
  \/ a \in Selecting \cup Setting /\ (a \in s.done \/ s.active)
  \/ a \in Consuming /\ a \notin s.done /\ s.active
  \/ a = EndTurn /\ s.active /\ Requirements(s) = {}

Effect(a, s) ==
  IF a = EndTurn THEN [s EXCEPT !.active = FALSE]
                 ELSE [s EXCEPT !.done = @ \cup {a}]

(* The execute_* functions: the answer from the before-state alone, and the *)
(* verdict on a state polled after an accepted request.                     *)

Satisfied(a, before) == a \in Selecting /\ a \in before.done

\* The subject of any order may also be gone (city lost, unit killed).
Inadmissible(a, before, gone) == a \in Order /\ (gone \/ a \in Consuming \cap before.done)

TurnAdvanced(before, s) == s.turn > before.turn

Verified(a, before, s) ==
  IF a = EndTurn THEN TurnAdvanced(before, s)
  ELSE /\ a \in s.done
       /\ a \in Consuming => s.turn = before.turn /\ s.active

Abandoned(a, before, s) == a \in Consuming /\ (s.turn # before.turn \/ ~s.active)

-----------------------------------------------------------------------------
(* What the game does by itself: the human plays, and turns pass.          *)

Drift(s) ==
  {[s EXCEPT !.done = d] : d \in {s.done \cup {o} : o \in Order} \cup {s.done \ {o} : o \in Order}}
    \cup (IF s.active THEN {Effect(EndTurn, s)} ELSE {})

NextTurn(s) ==
  {[turn |-> s.turn + 1, active |-> TRUE, done |-> d] : d \in SUBSET s.done}
=============================================================================
