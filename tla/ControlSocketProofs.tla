------------------------ MODULE ControlSocketProofs -------------------------
(***************************************************************************)
(* Proofs about ControlSocket, for any number of watchers and of deaths:   *)
(* who serves under calm conditions, and what a summary is worth.          *)
(***************************************************************************)
EXTENDS ControlSocket, TLAPS

Calm ==
    /\ Alone
    /\ \A w \in Watcher : server[w] = "serving" => path = w
    /\ \A v, w \in Watcher : server[w] \in {"refused", "free", "bound", "closing"} =>
            v = w \/ server[v] = "down"
    /\ \A w \in Watcher : server[w] = "bound" => path = w

Probed == probe.pc = "asked" =>
    \A w \in Watcher : session[w] = probe.session /\ server[w] # "down" => readOnly[w]

Distinct ==
    /\ \A v, w \in Watcher : session[v] = session[w] => v = w \/ session[v] = None
    /\ \A w \in Watcher : server[w] # "down" => session[w] # None

IInv == TypeOK /\ (calm => Calm) /\ Distinct /\ Probed /\ SummaryIsReadOnly

-----------------------------------------------------------------------------
\* A new session is one, and nobody remembers it.
LEMMA FreshSession ==
    ASSUME TypeOK, NEW w \in Watcher
    PROVE  /\ NewSession(w) \in Session
           /\ NewSession(w) # probe.session
           /\ \A v \in Watcher \ {w} : NewSession(w) # session[v]
<1>1. \E t \in Session : t # probe.session /\ \A v \in Watcher \ {w} : t # session[v]
  <2>1. session \in [Watcher -> Session \cup {None}] /\ probe.session \in Session \cup {None}
    BY DEF TypeOK
  <2> QED BY <2>1, FreshAssumption
<1> QED BY <1>1 DEF NewSession

LEMMA CalmIsBoolean == Noted => calm' \in BOOLEAN
  BY Zenon DEF Noted

LEMMA CalmLasts == Noted /\ calm' => calm /\ Alone'
  BY Zenon DEF Noted

-----------------------------------------------------------------------------
\* Type correctness.
LEMMA TypeStep == TypeOK /\ [Next]_vars => TypeOK'
<1> SUFFICES ASSUME TypeOK, [Next]_vars PROVE TypeOK'
  OBVIOUS
<1> USE SocketAssumption DEF TypeOK
<1>1. ASSUME NEW w \in Watcher, Look(w) PROVE TypeOK'
  BY <1>1, FreshSession, CalmIsBoolean DEF Look, Go, Phase
<1>2. ASSUME NEW w \in Watcher, PingIsAnswered(w) \/ PingFails(w) \/ PingIsLate(w)
      PROVE TypeOK'
  BY <1>2, CalmIsBoolean DEF PingIsAnswered, PingFails, PingIsLate, Go, Stay, GiveUp, Silent, Phase
<1>3. ASSUME NEW w \in Watcher, TakeOver(w) PROVE TypeOK'
  BY <1>3, CalmIsBoolean DEF TakeOver, Go, Stay, Phase
<1>4. ASSUME NEW w \in Watcher, Bind(w) PROVE TypeOK'
  BY <1>4, CalmIsBoolean DEF Bind, Go, Stay, Phase
<1>5. ASSUME NEW w \in Watcher, Serve(w) \/ Close(w) \/ Leave(w) PROVE TypeOK'
  BY <1>5, CalmIsBoolean DEF Serve, Close, Leave, Go, Stay, Unlinked, Phase
<1>6. ASSUME NEW w \in Watcher, Die(w) PROVE TypeOK'
  BY <1>6, CalmIsBoolean DEF Die, Go, Phase
<1>7. ASSUME NEW w \in Watcher, Restart(w) PROVE TypeOK'
  <2>1. readOnly' \in [Watcher -> BOOLEAN]
    BY <1>7, Zenon DEF Restart
  <2>2. UNCHANGED <<path, server, session, deaths, calm, probe>>
    BY <1>7 DEF Restart
  <2> QED BY <2>1, <2>2, Zenon
<1>8. CASE ProbePing
  <2>1. PICK w \in Watcher :
           probe' = IF readOnly[w] THEN Probe("asked", session[w], FALSE) ELSE Failed
    BY <1>8 DEF ProbePing
  <2>2. UNCHANGED <<path, server, session, readOnly, deaths, calm>>
    BY <1>8 DEF ProbePing
  <2> QED BY <2>1, <2>2 DEF Probe, Failed
<1>9. CASE ProbeFails \/ ProbeAgain
  <2>1. probe' = Idle \/ probe' = Failed
    BY <1>9 DEF ProbeFails, ProbeAgain
  <2>2. UNCHANGED <<path, server, session, readOnly, deaths, calm>>
    BY <1>9 DEF ProbeFails, ProbeAgain
  <2>3. probe' \in [pc : {"idle", "asked", "summary", "failed"},
                   session : Session \cup {None}, readOnly : BOOLEAN]
    <3>1. CASE probe' = Idle
      BY <3>1 DEF Probe, Idle
    <3>2. CASE probe' = Failed
      BY <3>2 DEF Probe, Failed
    <3> QED BY <2>1, <3>1, <3>2
  <2> QED BY <2>2, <2>3
<1>10. CASE ProbeRead
  <2>1. PICK w \in Watcher :
           probe' = IF SameSession(w) THEN Probe("summary", None, readOnly[w]) ELSE Failed
    BY <1>10 DEF ProbeRead
  <2>2. readOnly[w] \in BOOLEAN
    OBVIOUS
  <2>3. Probe("summary", None, readOnly[w])
          \in [pc : {"idle", "asked", "summary", "failed"},
              session : Session \cup {None}, readOnly : BOOLEAN]
    BY <2>2, Zenon DEF Probe
  <2>4. Failed \in [pc : {"idle", "asked", "summary", "failed"},
                   session : Session \cup {None}, readOnly : BOOLEAN]
    BY DEF Probe, Failed
  <2>5. UNCHANGED <<path, server, session, readOnly, deaths, calm>>
    BY <1>10 DEF ProbeRead
  <2> QED BY <2>1, <2>3, <2>4, <2>5
<1>11. CASE UNCHANGED vars
  BY <1>11 DEF vars
<1> QED
  BY <1>1, <1>2, <1>3, <1>4, <1>5, <1>6, <1>7, <1>8, <1>9, <1>10, <1>11 DEF Next, Start

\* Under calm conditions nobody disturbs the watcher that serves.
LEMMA CalmStep == TypeOK /\ (calm => Calm) /\ [Next]_vars => (calm' => Calm')
<1> SUFFICES ASSUME TypeOK, calm => Calm, [Next]_vars, calm' PROVE Calm'
  OBVIOUS
<1> USE SocketAssumption, CalmLasts DEF TypeOK, Calm
<1>1. ASSUME NEW w \in Watcher, Look(w) PROVE Calm'
  BY <1>1 DEF Look, Go, Alone, Busy, Phase
<1>2. ASSUME NEW w \in Watcher, PingIsAnswered(w) PROVE Calm'
  BY <1>2 DEF PingIsAnswered, Go, Stay, GiveUp
<1>3. ASSUME NEW w \in Watcher, PingFails(w) PROVE Calm'
  BY <1>3 DEF PingFails, Go, Stay, Silent, Listening, Alone, Busy, Phase
<1>4. ASSUME NEW w \in Watcher, PingIsLate(w) PROVE Calm'
  BY <1>4 DEF PingIsLate
<1>5. ASSUME NEW w \in Watcher, TakeOver(w) PROVE Calm'
  BY <1>5 DEF TakeOver, Go, Stay
<1>6. ASSUME NEW w \in Watcher, Bind(w) PROVE Calm'
  BY <1>6 DEF Bind, Go, Stay
<1>7. ASSUME NEW w \in Watcher, Serve(w) PROVE Calm'
  BY <1>7 DEF Serve, Go, Stay
<1>8. ASSUME NEW w \in Watcher, Close(w) PROVE Calm'
  BY <1>8 DEF Close, Go, Stay, Alone, Busy, Phase
<1>9. ASSUME NEW w \in Watcher, Leave(w) PROVE Calm'
  BY <1>9 DEF Leave, Go, Stay, Unlinked
<1>10. ASSUME NEW w \in Watcher, Die(w) PROVE Calm'
  BY <1>10 DEF Die, Go
<1>11. ASSUME NEW w \in Watcher, Restart(w) PROVE Calm'
  BY <1>11 DEF Restart, Alone
<1>12. CASE ProbePing \/ ProbeRead \/ ProbeFails \/ ProbeAgain
  BY <1>12 DEF ProbePing, ProbeRead, ProbeFails, ProbeAgain, Alone
<1>13. CASE UNCHANGED vars
  BY <1>13 DEF vars, Alone
<1> QED
  BY <1>1, <1>2, <1>3, <1>4, <1>5, <1>6, <1>7, <1>8, <1>9, <1>10, <1>11, <1>12, <1>13
     DEF Next, Start

\* No two watchers ever serve the same session.
LEMMA DistinctStep == TypeOK /\ Distinct /\ [Next]_vars => Distinct'
<1> SUFFICES ASSUME TypeOK, Distinct, [Next]_vars PROVE Distinct'
  OBVIOUS
<1> USE SocketAssumption DEF TypeOK, Distinct
<1>1. ASSUME NEW w \in Watcher, Look(w) PROVE Distinct'
  BY <1>1, FreshSession DEF Look, Go
<1>2. ASSUME NEW w \in Watcher, PingIsAnswered(w) \/ PingFails(w) \/ PingIsLate(w)
      PROVE Distinct'
  BY <1>2 DEF PingIsAnswered, PingFails, PingIsLate, Go, Stay
<1>3. ASSUME NEW w \in Watcher, TakeOver(w) \/ Bind(w) \/ Serve(w) PROVE Distinct'
  BY <1>3 DEF TakeOver, Bind, Serve, Go, Stay
<1>4. ASSUME NEW w \in Watcher, Close(w) \/ Leave(w) \/ Die(w) \/ Restart(w)
      PROVE Distinct'
  BY <1>4 DEF Close, Leave, Die, Restart, Go, Stay
<1>5. CASE ProbePing \/ ProbeRead \/ ProbeFails \/ ProbeAgain
  BY <1>5 DEF ProbePing, ProbeRead, ProbeFails, ProbeAgain
<1>6. CASE UNCHANGED vars
  BY <1>6 DEF vars
<1> QED BY <1>1, <1>2, <1>3, <1>4, <1>5, <1>6 DEF Next, Start

\* A session that the probe remembers is only ever served in the mode it found.
LEMMA ProbeStep ==
    TypeOK /\ Distinct /\ Probed /\ SummaryIsReadOnly /\ [Next]_vars
        => Probed' /\ SummaryIsReadOnly'
<1> SUFFICES ASSUME TypeOK, Distinct, Probed, SummaryIsReadOnly, [Next]_vars
             PROVE  Probed' /\ SummaryIsReadOnly'
  OBVIOUS
<1> USE SocketAssumption DEF TypeOK, Probed, SummaryIsReadOnly
<1>1. ASSUME NEW w \in Watcher, Look(w) PROVE Probed' /\ SummaryIsReadOnly'
  <2>1. NewSession(w) # probe.session
    BY FreshSession
  <2> QED BY <1>1, <2>1 DEF Look, Go
<1>2. ASSUME NEW w \in Watcher,
             PingIsAnswered(w) \/ PingFails(w) \/ PingIsLate(w) \/ TakeOver(w) \/ Bind(w)
      PROVE Probed' /\ SummaryIsReadOnly'
  BY <1>2 DEF PingIsAnswered, PingFails, PingIsLate, TakeOver, Bind, Go, Stay
<1>3. ASSUME NEW w \in Watcher, Serve(w) \/ Close(w) \/ Leave(w) \/ Die(w) \/ Restart(w)
      PROVE Probed' /\ SummaryIsReadOnly'
  BY <1>3 DEF Serve, Close, Leave, Die, Restart, Go, Stay
<1>4. CASE ProbePing
  BY <1>4 DEF ProbePing, Listening, Probe, Failed, Distinct
<1>5. CASE ProbeRead \/ ProbeFails \/ ProbeAgain
  BY <1>5 DEF ProbeRead, ProbeFails, ProbeAgain, Listening, SameSession, Probe, Idle, Failed
<1>6. CASE UNCHANGED vars
  BY <1>6 DEF vars
<1> QED BY <1>1, <1>2, <1>3, <1>4, <1>5, <1>6 DEF Next, Start

LEMMA Invariance == Spec => []IInv
<1>1. Init => IInv
  BY SocketAssumption
     DEF Init, IInv, TypeOK, Calm, Alone, Busy, Phase, Probe, Idle, Probed, Distinct, SummaryIsReadOnly
<1>2. IInv /\ [Next]_vars => IInv'
  BY TypeStep, CalmStep, DistinctStep, ProbeStep DEF IInv
<1> QED BY <1>1, <1>2, PTL DEF Spec

-----------------------------------------------------------------------------
\* As long as watchers start and leave one after the other and answer in time,
\* the one that serves is the one its path leads to.
THEOREM ReachableTheorem == Spec => []ServingIsReachable
<1>1. IInv => ServingIsReachable
  BY DEF IInv, Calm, ServingIsReachable
<1> QED BY <1>1, Invariance, PTL

\* A summary is never the state of a watcher that can write.
THEOREM SummaryTheorem == Spec => []SummaryIsReadOnly
<1>1. IInv => SummaryIsReadOnly
  BY DEF IInv
<1> QED BY <1>1, Invariance, PTL

\* The state keeps its shape.
THEOREM SocketTypeTheorem == Spec => []TypeOK
<1>1. IInv => TypeOK
  BY DEF IInv
<1> QED BY <1>1, Invariance, PTL

=============================================================================
