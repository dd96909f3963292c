---------------------------- MODULE CommandLedger ---------------------------
(***************************************************************************)
(* What the watcher promises about commands, without threads, locks,       *)
(* sessions or caches: docs/contracts/command.md, "Retry behavior" and     *)
(* "Result".  A key (a session and a command id) is open until it gets one *)
(* verdict, for ever.  An open key may be written to the game once; a      *)
(* written program is accepted by the game at most once, at any later time;*)
(* and success is recorded only if the game accepted it or nothing had to  *)
(* be written.                                                             *)
(***************************************************************************)
EXTENDS Integers

CONSTANT Keys

VARIABLES verdict,   \* [Keys -> {"open", "success", "error", "unknown"}]
          written,   \* [Keys -> times written to the game]
          accepted   \* [Keys -> times accepted by the game]

ledger == <<verdict, written, accepted>>

LedgerInit ==
  /\ verdict = [k \in Keys |-> "open"]
  /\ written = [k \in Keys |-> 0]
  /\ accepted = [k \in Keys |-> 0]

Write(k) ==
  /\ verdict[k] = "open" /\ written[k] = 0
  /\ written' = [written EXCEPT ![k] = 1]
  /\ UNCHANGED <<verdict, accepted>>

Accept(k) ==
  /\ accepted[k] < written[k]
  /\ accepted' = [accepted EXCEPT ![k] = @ + 1]
  /\ UNCHANGED <<verdict, written>>

Settle(k) ==
  /\ verdict[k] = "open"
  /\ \/ written[k] = accepted[k] /\ verdict' = [verdict EXCEPT ![k] = "success"]
     \/ verdict' = [verdict EXCEPT ![k] = "error"]
     \/ verdict' = [verdict EXCEPT ![k] = "unknown"]
  /\ UNCHANGED <<written, accepted>>

LedgerNext == \E k \in Keys : Write(k) \/ Accept(k) \/ Settle(k)

LedgerSpec == LedgerInit /\ [][LedgerNext]_ledger
=============================================================================
