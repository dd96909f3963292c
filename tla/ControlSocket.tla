---------------------------- MODULE ControlSocket ---------------------------
(***************************************************************************)
(* The Unix socket that watchers serve on (ipc.py, LocalControlServer) and *)
(* the read-only probe that asks there (read_only_integration.py).         *)
(* Several watcher processes may be given one path: each looks at what is  *)
(* there, pings it, unlinks what does not answer within a quarter of a     *)
(* second, binds, listens, serves, and on leaving unlinks whatever socket  *)
(* is at the path by then.  Nothing locks the path between these steps.    *)
(*                                                                         *)
(* A watcher serves one session per attempt to start its server: watch.py  *)
(* draws a new identity for each connection to the game, here one that no  *)
(* other watcher and no probe remembers.                                   *)
(***************************************************************************)
EXTENDS Integers

CONSTANTS
    Watcher,      \* the processes that are started with --socket of one path
    Session,      \* the identities of watch.py
    Steady,       \* one of them that keeps trying
    MaxDeath,     \* bound: watchers that are killed
    None,
    Stale         \* the socket of a process that is dead

ASSUME SocketAssumption ==
    /\ Steady \in Watcher
    /\ MaxDeath \in Nat
    /\ None # Stale /\ {None, Stale} \cap Watcher = {}
    /\ None \notin Session

\* An identity that nobody remembers can always be drawn.
ASSUME FreshAssumption ==
    \A f \in [Watcher -> Session \cup {None}], s \in Session \cup {None}, w \in Watcher :
        \E t \in Session : t # s /\ \A v \in Watcher \ {w} : t # f[v]

VARIABLES
    path,       \* whose socket is there
    server,     \* what each watcher is doing with its server
    session,    \* the session each watcher last began
    readOnly,   \* which watchers run with --read-only
    deaths,     \* how many watchers were killed
    calm,       \* no two watchers have started or left at the same time, and
                \* no watcher that was alive has left a ping unanswered
    probe       \* read_sanitized_summary

vars == <<path, server, session, readOnly, deaths, calm, probe>>

Phase == {"down", "pinging", "refused", "free", "bound", "serving", "closing"}
Busy == Phase \ {"down", "serving"}

Probe(pc, s, mode) == [pc |-> pc, session |-> s, readOnly |-> mode]
Idle == Probe("idle", None, FALSE)
Failed == Probe("failed", None, FALSE)

Init ==
    /\ path \in {None, Stale}
    /\ server = [w \in Watcher |-> "down"]
    /\ session = [w \in Watcher |-> None]
    /\ readOnly \in [Watcher -> BOOLEAN]
    /\ deaths = 0
    /\ calm = TRUE
    /\ probe = Idle

\* new_bridge_session_id
NewSession(w) ==
    CHOOSE t \in Session : t # probe.session /\ \A v \in Watcher \ {w} : t # session[v]

\* The watcher that a connection to the path reaches.
Listening(w) == path = w /\ server[w] = "serving"

Go(w, phase) == server' = [server EXCEPT ![w] = phase]

Stay == UNCHANGED <<session, readOnly, deaths, probe>>

\* What no watcher can see and no step depends on.
Alone == \A v, w \in Watcher : server[v] \in Busy /\ server[w] \in Busy => v = w
Noted == calm' = (calm /\ Alone')

-----------------------------------------------------------------------------
(* LocalControlServer.start and close.                                     *)

\* A watcher has connected to the game: it looks at the path.
Look(w) ==
    /\ server[w] = "down"
    /\ session' = [session EXCEPT ![w] = NewSession(w)]
    /\ Go(w, IF path = None THEN "free" ELSE "pinging")
    /\ Noted
    /\ UNCHANGED <<path, readOnly, deaths, probe>>

\* Mutant of GiveUp: a path in use is taken over like a stale one.
TakeOverAnyway == "refused"

GiveUp == "down"

\* An answer of any kind: another watcher is serving, and this one gives up.
PingIsAnswered(w) ==
    /\ server[w] = "pinging"
    /\ \E v \in Watcher : Listening(v)
    /\ Go(w, GiveUp)
    /\ UNCHANGED path
    /\ Stay /\ Noted

\* Mutant of Silent: a refused connection is an error like any other.
SilentIsAnError == "down"

Silent == "refused"

\* Refused, or nothing there any more.
PingFails(w) ==
    /\ server[w] = "pinging"
    /\ ~ \E v \in Watcher : Listening(v)
    /\ Go(w, Silent)
    /\ UNCHANGED path
    /\ Stay /\ Noted

\* A watcher that serves does not answer within a quarter of a second.
PingIsLate(w) ==
    /\ server[w] = "pinging"
    /\ \E v \in Watcher : Listening(v)
    /\ Go(w, Silent)
    /\ calm' = FALSE
    /\ UNCHANGED path
    /\ Stay

\* unlink of whatever is there by now; nothing there is an error.
TakeOver(w) ==
    /\ server[w] = "refused"
    /\ path' = None
    /\ Go(w, IF path = None THEN "down" ELSE "free")
    /\ Stay /\ Noted

Bind(w) ==
    /\ server[w] = "free"
    /\ IF path = None THEN path' = w /\ Go(w, "bound")
                      ELSE UNCHANGED path /\ Go(w, "down")
    /\ Stay /\ Noted

\* The server listens, chmod finds the path, and the thread is started.
Serve(w) ==
    /\ server[w] = "bound"
    /\ Go(w, IF path = None THEN "down" ELSE "serving")
    /\ UNCHANGED path
    /\ Stay /\ Noted

\* The watcher ends or reconnects: the server is shut down and closed ...
Close(w) ==
    /\ server[w] = "serving"
    /\ Go(w, "closing")
    /\ UNCHANGED path
    /\ Stay /\ Noted

\* Mutant of Unlinked: the socket is left where it is.
LeftBehind == path

Unlinked == None

\* ... and the socket at the path is unlinked, whoever bound it.
Leave(w) ==
    /\ server[w] = "closing"
    /\ path' = Unlinked
    /\ Go(w, "down")
    /\ Stay /\ Noted

\* The process is killed: its socket stays at the path.
Die(w) ==
    /\ deaths < MaxDeath /\ deaths' = deaths + 1
    /\ server[w] # "down"
    /\ path' = IF path = w THEN Stale ELSE path
    /\ Go(w, "down")
    /\ Noted
    /\ UNCHANGED <<session, readOnly, probe>>

\* It has ended and is started again with or without --read-only.
Restart(w) ==
    /\ server[w] = "down"
    /\ readOnly' = [readOnly EXCEPT ![w] = ~readOnly[w]]
    /\ UNCHANGED <<path, server, session, deaths, calm, probe>>

-----------------------------------------------------------------------------
(* read_sanitized_summary: a ping, retried until it is answered, then one  *)
(* read of the state.  Each is a connection of its own to the path.        *)

ProbePing ==
    /\ probe = Idle
    /\ \E w \in Watcher :
          /\ Listening(w)
          /\ probe' = IF readOnly[w] THEN Probe("asked", session[w], FALSE) ELSE Failed
    /\ UNCHANGED <<path, server, session, readOnly, deaths, calm>>

\* Mutant of SameSession: the session of the state is not compared.
AnySession(w) == TRUE

SameSession(w) == session[w] = probe.session

ProbeRead ==
    /\ probe.pc = "asked"
    /\ \E w \in Watcher :
          /\ Listening(w)
          /\ probe' = IF SameSession(w) THEN Probe("summary", None, readOnly[w]) ELSE Failed
    /\ UNCHANGED <<path, server, session, readOnly, deaths, calm>>

\* No answer before the deadline, or none that is valid.
ProbeFails ==
    /\ probe.pc \in {"idle", "asked"}
    /\ probe' = Failed
    /\ UNCHANGED <<path, server, session, readOnly, deaths, calm>>

ProbeAgain ==
    /\ probe.pc \in {"summary", "failed"}
    /\ probe' = Idle
    /\ UNCHANGED <<path, server, session, readOnly, deaths, calm>>

Start(w) ==
    \/ Look(w)
    \/ PingIsAnswered(w) \/ PingFails(w) \/ PingIsLate(w)
    \/ TakeOver(w) \/ Bind(w) \/ Serve(w)

Next ==
    \/ \E w \in Watcher : Start(w) \/ Close(w) \/ Leave(w) \/ Die(w) \/ Restart(w)
    \/ ProbePing \/ ProbeRead \/ ProbeFails \/ ProbeAgain

Spec == Init /\ [][Next]_vars /\ WF_vars(Start(Steady) \/ Leave(Steady))

-----------------------------------------------------------------------------
(* Properties.                                                             *)

\* The shape of the state; a socket at the path is that of a server that was
\* bound and has not left.
TypeOK ==
    /\ path \in Watcher \cup {None, Stale}
    /\ server \in [Watcher -> Phase]
    /\ session \in [Watcher -> Session \cup {None}]
    /\ readOnly \in [Watcher -> BOOLEAN]
    /\ deaths \in 0 .. MaxDeath
    /\ calm \in BOOLEAN
    /\ probe \in [pc : {"idle", "asked", "summary", "failed"},
                  session : Session \cup {None}, readOnly : BOOLEAN]
    /\ path \in Watcher => server[path] \in {"bound", "serving", "closing"}

\* As long as watchers start and leave one after the other and those that serve
\* answer in time, deaths and stale sockets included, a watcher that serves is
\* the one its path leads to, so there is one at most.
ServingIsReachable == calm => \A w \in Watcher : server[w] = "serving" => path = w

\* A summary is the state of a watcher that runs with --read-only, though the
\* mode is asked in one connection and the state in another, and the path may
\* lead to another watcher by then.
SummaryIsReadOnly == probe.pc = "summary" => probe.readOnly

\* The socket that a killed watcher left behind does not keep another one from
\* serving for ever: one that goes on trying gets rid of it, unless it serves by
\* then on a socket that is no longer at the path.
StaleIsTakenOver == path = Stale ~> path # Stale \/ server[Steady] = "serving"

=============================================================================
