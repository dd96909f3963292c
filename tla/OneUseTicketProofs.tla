------------------------- MODULE OneUseTicketProofs -------------------------
(***************************************************************************)
(* Proofs about OneUseTicket, for any number of invocations, files and     *)
(* checkpoints and any limits: what an authorization says about the user's *)
(* own messages.                                                           *)
(***************************************************************************)
EXTENDS OneUseTicket, TLAPS

\* What the creator of a file found is still so: requests are never changed.
Backed(t) ==
    content[t] # None =>
        LET c == content[t].checkpoint IN
            /\ request[c] # None
            /\ c \in Play =>
                  /\ content[t].expires <= request[c].initiated + InitiationAge
                  /\ content[t].expires <= request[c].requested + CheckpointAge
                  /\ content[t].expires <= request[c].expires

\* What an invocation has in hand.
Holds(s) ==
    /\ s.pc # "idle" => s.checkpoint \in Checkpoint /\ s.ticket \in Ticket
                        /\ content[s.ticket] # None
    /\ s.pc = "writing" => content[s.ticket].checkpoint = s.checkpoint
                           /\ prompt[s.ticket] = "hidden"
    /\ s.response # None => prompt[s.response] = "answered"
    /\ s.pc \in {"checked", "same"} =>
          /\ content[s.ticket].checkpoint = s.checkpoint
          /\ s.checkpoint \notin Play => s.response = s.ticket

OneWriter ==
    \A i, j \in Invocation :
        call[i].pc = "writing" /\ call[j].pc = "writing" /\ call[i].ticket = call[j].ticket
            => i = j

IInv ==
    /\ TypeOK
    /\ OneWriter
    /\ \A t \in Ticket : Backed(t)
    /\ \A i \in Invocation : Holds(call[i])
    /\ \A t \in Ticket : passes[t] > 0 => content[t] # None
    /\ ConfirmedInPerson

-----------------------------------------------------------------------------
\* The least of three times is none later than any of them.
LEMMA MinOfThree ==
    ASSUME NEW a \in Int, NEW b \in Int, NEW c \in Int
    PROVE  /\ Min({a, b, c}) \in {a, b, c}
           /\ Min({a, b, c}) <= a /\ Min({a, b, c}) <= b /\ Min({a, b, c}) <= c
<1>1. \E x \in {a, b, c} : \A y \in {a, b, c} : x <= y
  OBVIOUS
<1> QED BY <1>1 DEF Min

\* A grant expires with the first of the three limits.
LEMMA ExpiryBound ==
    ASSUME TypeOK, NEW c \in Play, request[c] # None
    PROVE  /\ Expiry(c) \in Nat
           /\ Expiry(c) <= request[c].initiated + InitiationAge
           /\ Expiry(c) <= request[c].requested + CheckpointAge
           /\ Expiry(c) <= request[c].expires
<1>1. request[c] \in Requested
  BY TicketAssumption, NoneAssumption DEF TypeOK
<1> DEFINE a == request[c].initiated + InitiationAge
           b == request[c].requested + CheckpointAge
           d == request[c].expires
<1>2. a \in Nat /\ b \in Nat /\ d \in Nat
  BY <1>1, TicketAssumption, NoneAssumption DEF Requested, Time
<1>3. Expiry(c) = Min({a, b, d})
  BY DEF Expiry, GrantExpiry
<1> HIDE DEF a, b, d
<1>4. Expiry(c) \in Nat /\ Expiry(c) <= a /\ Expiry(c) <= b /\ Expiry(c) <= d
  <2>1. /\ Min({a, b, d}) \in {a, b, d}
        /\ Min({a, b, d}) <= a /\ Min({a, b, d}) <= b /\ Min({a, b, d}) <= d
    <3>1. a \in Int /\ b \in Int /\ d \in Int
      BY <1>2
    <3> QED BY <3>1, MinOfThree, Zenon
  <2> QED BY <1>2, <1>3, <2>1
<1> QED BY <1>4 DEF a, b, d

\* An invocation that ends holds nothing.
LEMMA ToIdle ==
    ASSUME IInv, NEW i \in Invocation, call' = [call EXCEPT ![i] = Idle],
           content' = content, prompt' = prompt
    PROVE  /\ call' \in [Invocation -> Call]
           /\ \A j \in Invocation : Holds(call[j])'
           /\ OneWriter'
<1>1. Idle \in Call /\ Idle.pc = "idle" /\ Idle.response = None
  BY DEF Idle, Busy, Call
<1>2. call' \in [Invocation -> Call]
  BY <1>1 DEF IInv, TypeOK
<1>3. \A j \in Invocation : call'[j] = Idle \/ call'[j] = call[j]
  BY DEF IInv, TypeOK
<1>4. OneWriter'
  <2>1. \A j \in Invocation : call'[j].pc = "writing" => call'[j] = call[j]
    BY <1>1, <1>3
  <2> QED BY <2>1 DEF IInv, OneWriter
<1> QED BY <1>1, <1>2, <1>3, <1>4 DEF IInv, Holds

\* An invocation that goes on to the next check of its consumption holds what it held,
\* when the file is for its checkpoint and the response is the file's.
LEMMA Advances ==
    ASSUME IInv, NEW i \in Invocation, NEW p \in {"checked", "same"},
           call[i].pc \in {"read", "checked"},
           call[i].pc = "read" =>
             /\ content[call[i].ticket].checkpoint = call[i].checkpoint
             /\ call[i].checkpoint \notin Play => call[i].response = call[i].ticket,
           call' = [call EXCEPT ![i] = [call[i] EXCEPT !.pc = p]],
           content' = content, prompt' = prompt
    PROVE  /\ call' \in [Invocation -> Call]
           /\ \A j \in Invocation : Holds(call[j])'
           /\ OneWriter'
<1> DEFINE s == [call[i] EXCEPT !.pc = p]
<1>1. call \in [Invocation -> Call] /\ call[i] \in Call /\ Holds(call[i])
  BY DEF IInv, TypeOK
<1>2. /\ s \in Call /\ s.pc = p /\ s.checkpoint = call[i].checkpoint
      /\ s.ticket = call[i].ticket /\ s.response = call[i].response
  BY <1>1 DEF Call
<1>3. call' = [call EXCEPT ![i] = s]
  OBVIOUS
<1> HIDE DEF s
<1>4. call' \in [Invocation -> Call] /\ call'[i] = s /\ \A j \in Invocation \ {i} : call'[j] = call[j]
  BY <1>1, <1>2, <1>3
<1>5. Holds(call[i])'
  <2>1. Holds(s)
    BY <1>1, <1>2 DEF Holds
  <2> QED BY <1>4, <2>1 DEF Holds
<1>6. \A j \in Invocation : Holds(call[j])'
  BY <1>4, <1>5 DEF IInv, Holds
<1>7. OneWriter'
  <2>1. \A j \in Invocation : call'[j].pc = "writing" => j # i /\ call'[j] = call[j]
    BY <1>2, <1>4
  <2> QED BY <2>1 DEF IInv, OneWriter
<1> QED BY <1>4, <1>6, <1>7

\* Only the surroundings move: nothing that the invariant is about is lost.
LEMMA SurroundingsStep ==
    ASSUME IInv,
           \/ Tick
           \/ \E c \in Checkpoint : RequestCheckpoint(c)
           \/ \E t \in Ticket : Reply(t)
           \/ \E k \in Kind : CleanUp(k)
    PROVE  IInv'
<1> USE TicketAssumption, NoneAssumption DEF IInv, TypeOK, Backed, Holds, OneWriter, ConfirmedInPerson
<1>1. CASE Tick
  BY <1>1 DEF Tick
<1>2. ASSUME NEW c \in Checkpoint, RequestCheckpoint(c) PROVE IInv'
  <2>1. request' \in [Checkpoint -> Requested \cup {None}]
    BY <1>2 DEF RequestCheckpoint, Requested, Time
  <2>2. \A d \in Checkpoint : request[d] # None => request'[d] = request[d]
    BY <1>2 DEF RequestCheckpoint
  <2>3. UNCHANGED <<clock, at, content, prompt, call, passes>>
    BY <1>2 DEF RequestCheckpoint
  <2>4. \A t \in Ticket : Backed(t)'
    BY <2>1, <2>2, <2>3 DEF Record
  <2> QED BY <2>1, <2>3, <2>4 DEF Holds, OneWriter, ConfirmedInPerson
<1>3. ASSUME NEW t \in Ticket, Reply(t) PROVE IInv'
  <2>1. /\ prompt[t] = "shown" /\ prompt' = [prompt EXCEPT ![t] = "answered"]
        /\ UNCHANGED <<clock, request, at, content, call, passes>>
    BY <1>3 DEF Reply
  <2>2. TypeOK'
    BY <2>1
  <2>3. \A u \in Ticket : prompt[u] \in {"hidden", "answered"} => prompt'[u] = prompt[u]
    BY <2>1
  <2>4. \A i \in Invocation : Holds(call[i])'
    <3>1. \A i \in Invocation : call[i].response \in Ticket \cup {None}
      BY DEF Call
    <3> QED BY <2>1, <2>3, <3>1
  <2>5. OneWriter' /\ \A u \in Ticket : Backed(u)'
    BY <2>1
  <2> QED BY <2>1, <2>2, <2>3, <2>4, <2>5
<1>4. ASSUME NEW k \in Kind, CleanUp(k) PROVE IInv'
  <2>1. at' = [at EXCEPT ![k] = None] /\ UNCHANGED <<clock, request, content, prompt, call, passes>>
    BY <1>4 DEF CleanUp
  <2>2. TypeOK'
    <3>1. at' \in [Kind -> Ticket \cup {None}] /\ \A j \in Kind : at'[j] # None => at'[j] = at[j]
      BY <2>1
    <3> QED BY <2>1, <3>1
  <2> QED BY <2>1, <2>2
<1> QED BY <1>1, <1>2, <1>3, <1>4

LEMMA CreationStep ==
    ASSUME IInv, NEW i \in Invocation,
           (\E c \in Checkpoint : Create(i, c)) \/ Write(i) \/ Created(i) \/ CreateFails(i)
    PROVE  IInv'
<1> USE TicketAssumption, NoneAssumption DEF IInv, TypeOK, Call, Busy, Idle
<1>1. ASSUME NEW c \in Checkpoint, Create(i, c) PROVE IInv'
  <2>1. PICK t \in Ticket :
          /\ content[t] = None
          /\ at' = [at EXCEPT ![KindOf(c)] = t]
          /\ content' = [content EXCEPT ![t] =
                [checkpoint |-> c, created |-> clock, expires |-> Expiry(c), whole |-> FALSE]]
          /\ call' = [call EXCEPT ![i] = Busy("writing", c, t, FALSE, None)]
    BY <1>1 DEF Create
  <2>2. UNCHANGED <<clock, request, prompt, passes>> /\ request[c] # None
    BY <1>1 DEF Create, Allowed
  <2>3. Expiry(c) \in Nat
    BY <2>2, ExpiryBound DEF Expiry, Time
  <2> DEFINE new == [checkpoint |-> c, created |-> clock, expires |-> Expiry(c), whole |-> FALSE]
  <2>4. new \in Record /\ new # None
    <3>1. new \in Record
      BY <2>3 DEF Record
    <3> QED BY <3>1
  <2>10. /\ content' \in [Ticket -> Record \cup {None}]
        /\ content'[t] = new /\ \A u \in Ticket \ {t} : content'[u] = content[u]
    BY <2>1, <2>4
  <2>11. new.checkpoint = c /\ new.expires = Expiry(c)
    OBVIOUS
  <2> HIDE DEF new
  <2>12. call' \in [Invocation -> Call]
    BY <2>1
  <2>13. at' \in [Kind -> Ticket \cup {None}]
    BY <2>1 DEF Kind, KindOf
  <2>5. TypeOK'
    <3>1. ASSUME NEW k \in Kind, at'[k] # None
          PROVE  content'[at'[k]] # None /\ KindOf(content'[at'[k]].checkpoint) = k
      <4>1. CASE k = KindOf(c)
        BY <2>1, <2>4, <2>10, <2>11, <4>1
      <4>2. CASE k # KindOf(c)
        <5>1. at'[k] = at[k] /\ at[k] \in Ticket /\ at[k] # t
          BY <2>1, <3>1, <4>2
        <5> QED BY <2>10, <3>1, <5>1
      <4> QED BY <4>1, <4>2
    <3>2. \A u \in Ticket : prompt[u] # "hidden" => u # t
      BY <2>1
    <3> QED BY <2>2, <2>10, <2>12, <2>13, <3>1, <3>2
  <2>6. \A u \in Ticket : Backed(u)'
    BY <2>2, <2>4, <2>10, <2>11, ExpiryBound DEF Backed
  <2> DEFINE mine == Busy("writing", c, t, FALSE, None)
  <2>15. /\ mine.pc = "writing" /\ mine.checkpoint = c /\ mine.ticket = t /\ mine.response = None
        /\ call'[i] = mine /\ \A j \in Invocation \ {i} : call'[j] = call[j]
    BY <2>1
  <2> HIDE DEF mine
  <2>7. \A j \in Invocation : Holds(call[j])'
    <3>1. Holds(call[i])'
      <4>1. prompt'[t] = "hidden"
        BY <2>1, <2>2
      <4> QED BY <2>4, <2>10, <2>11, <2>15, <4>1 DEF Holds
    <3>2. ASSUME NEW j \in Invocation \ {i} PROVE Holds(call[j])'
      BY <2>1, <2>2, <2>4, <2>10, <2>15 DEF Holds
    <3> QED BY <3>1, <3>2
  <2>14. OneWriter'
    BY <2>1, <2>15 DEF OneWriter, Holds
  <2>8. ConfirmedInPerson'
    BY <2>1, <2>2, <2>10 DEF ConfirmedInPerson
  <2>9. \A u \in Ticket : passes'[u] > 0 => content'[u] # None
    BY <2>2, <2>4, <2>10
  <2> QED BY <2>5, <2>6, <2>7, <2>8, <2>9, <2>14
<1>2. CASE Write(i)
  <2> DEFINE t == call[i].ticket
           new == [content[t] EXCEPT !.whole = TRUE]
  <2>1. /\ t \in Ticket /\ content[t] \in Record
        /\ content' = [content EXCEPT ![t] = new]
        /\ UNCHANGED <<clock, request, at, prompt, call, passes>>
    BY <1>2 DEF Write, Holds
  <2>2. /\ new \in Record /\ new # None /\ new.whole
        /\ new.checkpoint = content[t].checkpoint
        /\ new.expires = content[t].expires
    <3> DEFINE r == content[t]
    <3>1. r \in Record
      BY <2>1
    <3> HIDE DEF r
    <3>2. /\ [r EXCEPT !.whole = TRUE] \in Record /\ [r EXCEPT !.whole = TRUE].whole
          /\ [r EXCEPT !.whole = TRUE].checkpoint = r.checkpoint
          /\ [r EXCEPT !.whole = TRUE].expires = r.expires
      BY <3>1 DEF Record
    <3>3. [r EXCEPT !.whole = TRUE] # None
      BY <3>2, NoneAssumption
    <3> QED BY <3>2, <3>3 DEF r
  <2> HIDE DEF t, new
  <2>3. /\ content' \in [Ticket -> Record \cup {None}]
        /\ content'[t] = new /\ \A u \in Ticket \ {t} : content'[u] = content[u]
    BY <2>1, <2>2
  <2>4. TypeOK'
    BY <2>1, <2>2, <2>3
  <2>5. \A u \in Ticket : Backed(u)'
    BY <2>1, <2>2, <2>3 DEF Backed
  <2>6. \A j \in Invocation : Holds(call[j])'
    BY <2>1, <2>2, <2>3 DEF Holds
  <2>7. ConfirmedInPerson' /\ \A u \in Ticket : passes'[u] > 0 => content'[u] # None
    BY <2>1, <2>2, <2>3 DEF ConfirmedInPerson
  <2>8. OneWriter'
    BY <2>1 DEF OneWriter
  <2> QED BY <2>4, <2>5, <2>6, <2>7, <2>8
<1>3. CASE Created(i)
  <2>1. /\ call' = [call EXCEPT ![i] = Idle]
        /\ call[i].ticket \in Ticket
        /\ content[call[i].ticket].whole
        /\ prompt' = IF content[call[i].ticket].checkpoint \in Play THEN prompt
                     ELSE [prompt EXCEPT ![call[i].ticket] = "shown"]
        /\ UNCHANGED <<clock, request, at, content, passes>>
    BY <1>3 DEF Created, Written, Holds
  <2> DEFINE t == call[i].ticket
  <2>2. prompt[t] = "hidden" /\ content[t] # None
    BY <1>3 DEF Created, Holds
  <2>3. /\ prompt' \in [Ticket -> {"hidden", "shown", "answered"}]
        /\ prompt'[t] = "hidden" \/ (prompt'[t] = "shown" /\ content[t].checkpoint \notin Play)
        /\ \A u \in Ticket \ {t} : prompt'[u] = prompt[u]
    <3>1. prompt' = IF content[t].checkpoint \in Play THEN prompt ELSE [prompt EXCEPT ![t] = "shown"]
      BY <2>1
    <3>2. prompt \in [Ticket -> {"hidden", "shown", "answered"}] /\ t \in Ticket
      BY <2>1
    <3> HIDE DEF t
    <3>3. CASE content[t].checkpoint \in Play
      <4>1. prompt' = prompt
        BY <3>1, <3>3, Zenon
      <4> QED BY <2>2, <3>2, <4>1
    <3>4. CASE content[t].checkpoint \notin Play
      <4>1. prompt' = [prompt EXCEPT ![t] = "shown"]
        BY <3>1, <3>4, Zenon
      <4> QED BY <3>2, <3>4, <4>1
    <3> QED BY <3>3, <3>4
  <2>4. /\ Idle \in Call /\ Idle.pc = "idle" /\ Idle.response = None
        /\ call' \in [Invocation -> Call]
        /\ call'[i] = Idle /\ \A j \in Invocation \ {i} : call'[j] = call[j]
    BY <2>1
  <2>5. \A j \in Invocation \ {i} : call[j].pc = "writing" => call[j].ticket # t
    BY <1>3 DEF Created, OneWriter
  <2> HIDE DEF t
  <2>6. TypeOK'
    BY <2>1, <2>2, <2>3, <2>4 DEF t
  <2>7. \A j \in Invocation : Holds(call[j])'
    <3>1. Holds(call[i])'
      BY <2>4 DEF Holds
    <3>2. ASSUME NEW j \in Invocation \ {i} PROVE Holds(call[j])'
      BY <2>1, <2>2, <2>3, <2>4, <2>5 DEF Holds
    <3> QED BY <3>1, <3>2
  <2>8. OneWriter'
    BY <2>4 DEF OneWriter
  <2>9. ConfirmedInPerson'
    BY <2>1, <2>2, <2>3 DEF ConfirmedInPerson
  <2> QED BY <2>1, <2>6, <2>7, <2>8, <2>9 DEF Backed
<1>4. CASE CreateFails(i)
  <2>1. /\ call' = [call EXCEPT ![i] = Idle]
        /\ at' = [at EXCEPT ![KindOf(call[i].checkpoint)] = None]
        /\ UNCHANGED <<clock, request, content, prompt, passes>>
    BY <1>4 DEF CreateFails
  <2>2. call' \in [Invocation -> Call] /\ (\A j \in Invocation : Holds(call[j])') /\ OneWriter'
    BY <2>1, ToIdle DEF IInv
  <2>3. TypeOK'
    BY <2>1, <2>2 DEF KindOf, Kind
  <2> QED BY <2>1, <2>2, <2>3 DEF Backed, ConfirmedInPerson
<1> QED BY <1>1, <1>2, <1>3, <1>4

LEMMA ConsumptionStep ==
    ASSUME IInv, NEW i \in Invocation,
           \/ \E c \in Checkpoint : Open(i, c)
           \/ Check(i) \/ Compare(i) \/ Consume(i) \/ Die(i)
    PROVE  IInv'
<1> USE TicketAssumption, NoneAssumption DEF IInv, TypeOK, Call, Busy, Idle
<1>1. ASSUME NEW c \in Checkpoint, Open(i, c) PROVE IInv'
  <2>1. PICK answer \in Answers \cup {None} :
          call' = [call EXCEPT ![i] =
              Busy("read", c, at[KindOf(c)], content[at[KindOf(c)]].whole, answer)]
    BY <1>1 DEF Open
  <2>2. at[KindOf(c)] \in Ticket /\ content[at[KindOf(c)]] \in Record
    BY <1>1 DEF Open, KindOf, Kind
  <2>3. UNCHANGED <<clock, request, at, content, prompt, passes>>
    BY <1>1 DEF Open
  <2>4. call' \in [Invocation -> Call]
    BY <2>1, <2>2 DEF Answers, Record
  <2>5. \A j \in Invocation : Holds(call[j])'
    BY <2>1, <2>2, <2>3 DEF Holds, Answers
  <2>6. OneWriter'
    BY <2>1 DEF OneWriter
  <2> QED BY <2>3, <2>4, <2>5, <2>6 DEF Backed, ConfirmedInPerson
<1>2. CASE Check(i)
  <2>1. /\ call[i].pc = "read" /\ call[i] \in Call
        /\ UNCHANGED <<clock, request, at, content, prompt, passes>>
        /\ \/ Valid(call[i]) /\ call' = [call EXCEPT ![i] = [call[i] EXCEPT !.pc = "checked"]]
           \/ call' = [call EXCEPT ![i] = Idle]
    BY <1>2 DEF Check
  <2>2. Valid(call[i]) =>
          /\ content[call[i].ticket].checkpoint = call[i].checkpoint
          /\ call[i].checkpoint \notin Play => call[i].response = call[i].ticket
    BY DEF Valid, Confirms
  <2>3. call' \in [Invocation -> Call] /\ (\A j \in Invocation : Holds(call[j])') /\ OneWriter'
    <3>1. CASE Valid(call[i]) /\ call' = [call EXCEPT ![i] = [call[i] EXCEPT !.pc = "checked"]]
      BY <2>1, <2>2, <3>1, Advances
    <3>2. CASE call' = [call EXCEPT ![i] = Idle]
      BY <2>1, <3>2, ToIdle
    <3> QED BY <2>1, <3>1, <3>2
  <2> QED BY <2>1, <2>3 DEF Backed, ConfirmedInPerson
<1>3. CASE Compare(i)
  <2>1. /\ call[i].pc = "checked" /\ call[i] \in Call
        /\ UNCHANGED <<clock, request, at, content, prompt, passes>>
        /\ \/ call' = [call EXCEPT ![i] = [call[i] EXCEPT !.pc = "same"]]
           \/ call' = [call EXCEPT ![i] = Idle]
    BY <1>3 DEF Compare
  <2>2. call' \in [Invocation -> Call] /\ (\A j \in Invocation : Holds(call[j])') /\ OneWriter'
    <3>1. CASE call' = [call EXCEPT ![i] = [call[i] EXCEPT !.pc = "same"]]
      BY <2>1, <3>1, Advances
    <3>2. CASE call' = [call EXCEPT ![i] = Idle]
      BY <2>1, <3>2, ToIdle
    <3> QED BY <2>1, <3>1, <3>2
  <2> QED BY <2>1, <2>2 DEF Backed, ConfirmedInPerson
<1>4. CASE Consume(i)
  <2>1. /\ call[i].pc = "same" /\ call[i] \in Call /\ call' = [call EXCEPT ![i] = Idle]
        /\ UNCHANGED <<clock, request, content, prompt>>
        /\ at' = [at EXCEPT ![KindOf(call[i].checkpoint)] = None]
        /\ passes' \in {passes, [passes EXCEPT ![call[i].ticket] = @ + 1]}
    BY <1>4 DEF Consume
  <2>2. call' \in [Invocation -> Call] /\ (\A j \in Invocation : Holds(call[j])') /\ OneWriter'
    BY <2>1, ToIdle
  <2>3. /\ call[i].ticket \in Ticket /\ content[call[i].ticket] # None
        /\ content[call[i].ticket].checkpoint \in Play \/ prompt[call[i].ticket] = "answered"
    BY <2>1 DEF Holds
  <2>4. /\ passes' \in [Ticket -> Nat]
        /\ \A t \in Ticket \ {call[i].ticket} : passes'[t] = passes[t]
    BY <2>1, <2>3
  <2>5. (\A t \in Ticket : passes[t] > 0 => content[t] # None)' /\ ConfirmedInPerson'
    BY <2>1, <2>3, <2>4 DEF ConfirmedInPerson
  <2>6. /\ at' \in [Kind -> Ticket \cup {None}]
        /\ \A k \in Kind : at'[k] # None => at'[k] = at[k]
    BY <2>1
  <2>7. TypeOK'
    BY <2>1, <2>2, <2>4, <2>6
  <2> QED BY <2>1, <2>2, <2>5, <2>7 DEF Backed
<1>5. CASE Die(i)
  <2>1. /\ call' = [call EXCEPT ![i] = Idle]
        /\ UNCHANGED <<clock, request, at, content, prompt, passes>>
    BY <1>5 DEF Die
  <2>2. call' \in [Invocation -> Call] /\ (\A j \in Invocation : Holds(call[j])') /\ OneWriter'
    BY <2>1, ToIdle
  <2> QED BY <2>1, <2>2 DEF Backed, ConfirmedInPerson
<1> QED BY <1>1, <1>2, <1>3, <1>4, <1>5

LEMMA NextStep == IInv /\ [Next]_vars => IInv'
<1> SUFFICES ASSUME IInv, [Next]_vars PROVE IInv'
  OBVIOUS
<1>1. CASE UNCHANGED vars
  BY <1>1 DEF vars, IInv, TypeOK, Backed, Holds, OneWriter, ConfirmedInPerson
<1>2. CASE Next
  BY <1>2, SurroundingsStep, CreationStep, ConsumptionStep DEF Next, Invoke
<1> QED BY <1>1, <1>2

LEMMA Invariance == Spec => []IInv
<1>1. Init => IInv
  BY TicketAssumption, NoneAssumption
     DEF Init, IInv, TypeOK, Time, Kind, Call, Busy, Idle, Backed, Holds, OneWriter, ConfirmedInPerson
<1> QED BY <1>1, NextStep, PTL DEF Spec

-----------------------------------------------------------------------------
(* Passes are paid for with files.                                         *)

\* Files that disappear without a pass pay for what they like.
LEMMA NoMorePaid ==
    ASSUME NEW P, NEW G, NEW H, ExistsInjection(P, G), G \subseteq H
    PROVE  ExistsInjection(P, H)
<1>1. PICK paid \in [P -> G] : \A a, b \in P : paid[a] = paid[b] => a = b
  BY DEF ExistsInjection, Injection, IsInjective
<1>2. paid \in [P -> H]
  BY <1>1
<1> QED BY <1>1, <1>2 DEF ExistsInjection, Injection, IsInjective

\* A file that is gone stays gone: nothing puts a file at a path but its creation.
LEMMA GoneForever == IInv /\ [Next]_vars => Gone \subseteq Gone'
<1> SUFFICES ASSUME IInv, [Next]_vars, NEW t \in Gone PROVE t \in Gone'
  OBVIOUS
<1> USE DEF IInv, TypeOK, Gone
<1>1. ASSUME NEW i \in Invocation, NEW c \in Checkpoint, Create(i, c) PROVE t \in Gone'
  <2>1. PICK u \in Ticket :
          /\ content[u] = None
          /\ at' = [at EXCEPT ![KindOf(c)] = u]
          /\ content' = [content EXCEPT ![u] =
                [checkpoint |-> c, created |-> clock, expires |-> Expiry(c), whole |-> FALSE]]
    BY <1>1 DEF Create
  <2>2. t # u /\ content'[t] = content[t] /\ \A k \in Kind : at'[k] \in {at[k], u}
    BY <2>1
  <2> QED BY <2>2
<1>2. ASSUME NEW i \in Invocation, Write(i) PROVE t \in Gone'
  <2>1. content' = [content EXCEPT ![call[i].ticket] = [content[call[i].ticket] EXCEPT !.whole = TRUE]]
        /\ at' = at
    BY <1>2 DEF Write
  <2>2. call[i].ticket \in Ticket /\ content[call[i].ticket] \in Record
    BY <1>2 DEF Write, Holds
  <2>3. [content[call[i].ticket] EXCEPT !.whole = TRUE] \in Record
    BY <2>2 DEF Record
  <2> QED BY <2>1, <2>2, <2>3, NoneAssumption
<1>3. ASSUME NEW i \in Invocation,
             (\E c \in Checkpoint : Open(i, c)) \/ Created(i) \/ Check(i) \/ Compare(i) \/ Die(i)
      PROVE t \in Gone'
  BY <1>3 DEF Open, Created, Check, Compare, Die
<1>4. ASSUME NEW i \in Invocation, CreateFails(i) \/ Consume(i) PROVE t \in Gone'
  BY <1>4, TicketAssumption DEF CreateFails, Consume
<1>5. CASE \/ Tick \/ UNCHANGED vars
           \/ \E c \in Checkpoint : RequestCheckpoint(c)
           \/ \E u \in Ticket : Reply(u)
           \/ \E k \in Kind : CleanUp(k)
  BY <1>5, TicketAssumption DEF Tick, RequestCheckpoint, Reply, CleanUp, vars
<1> QED BY <1>1, <1>2, <1>3, <1>4, <1>5 DEF Next, Invoke

\* The consumer that unlinks a file pays with it: the file was at the path until then.
LEMMA PassIsPaid ==
    ASSUME IInv, NEW i \in Invocation, Consume(i), ExistsInjection(Passes, Gone), Gone \subseteq Gone'
    PROVE  ExistsInjection(Passes', Gone')
<1> USE DEF IInv, TypeOK
<1> DEFINE k == KindOf(call[i].checkpoint)
           t == call[i].ticket
<1>1. /\ at' = [at EXCEPT ![k] = None] /\ content' = content
      /\ passes' = IF at[k] # None THEN [passes EXCEPT ![t] = @ + 1] ELSE passes
      /\ k \in Kind /\ t \in Ticket
  BY DEF Consume, Removable, Holds, Kind, KindOf
<1>2. CASE at[k] = None
  <2>1. Passes' = Passes
    BY <1>1, <1>2 DEF Passes
  <2> QED BY <2>1, NoMorePaid
<1>3. CASE at[k] # None
  <2>1. at[k] \in Ticket /\ content[at[k]] # None /\ KindOf(content[at[k]].checkpoint) = k
    BY <1>1, <1>3
  <2>2. at[k] \notin Gone
    BY <1>1 DEF Gone
  <2>3. at[k] \in Gone'
    <3>1. \A q \in Kind : at'[q] # at[k]
      BY <1>1, <2>1, TicketAssumption
    <3> QED BY <1>1, <2>1, <3>1 DEF Gone
  <2>4. Passes' \subseteq Passes \cup {<<t, passes[t] + 1>>}
    <3>1. passes'[t] = passes[t] + 1 /\ passes[t] \in Nat
          /\ \A u \in Ticket \ {t} : passes'[u] = passes[u]
      BY <1>1, <1>3
    <3>2. 1 .. passes'[t] \subseteq 1 .. passes[t] \cup {passes[t] + 1}
      BY <3>1
    <3> HIDE DEF t
    <3> QED BY <3>1, <3>2 DEF Passes
  <2> DEFINE before == Passes
             after == Passes'
             gone == Gone
             goneNext == Gone'
             file == at[k]
             pass == <<t, passes[t] + 1>>
  <2>5. /\ ExistsInjection(before, gone) /\ after \subseteq before \cup {pass} /\ gone \subseteq goneNext
        /\ file \in goneNext /\ file \notin gone
    BY <2>2, <2>3, <2>4
  <2> HIDE DEF before, after, gone, goneNext, file, pass
  <2>6. PICK paid \in [before -> gone] : \A a, b \in before : paid[a] = paid[b] => a = b
    BY <2>5 DEF ExistsInjection, Injection, IsInjective
  <2> DEFINE more == [a \in after |-> IF a \in before THEN paid[a] ELSE file]
  <2>7. more \in [after -> goneNext] /\ \A a, b \in after : more[a] = more[b] => a = b
    BY <2>5, <2>6
  <2>8. ExistsInjection(after, goneNext)
    BY <2>7 DEF ExistsInjection, Injection, IsInjective
  <2> QED BY <2>8 DEF after, goneNext
<1> QED BY <1>2, <1>3

\* Nothing but a consumer that unlinks lets a caller pass.
LEMMA OnlyConsumersPass ==
    ASSUME IInv, [Next]_vars, \A i \in Invocation : ~Consume(i)
    PROVE  passes' = passes
<1>1. ASSUME NEW i \in Invocation, Invoke(i) PROVE passes' = passes
  BY <1>1 DEF Invoke, Create, Open, Write, Created, CreateFails, Check, Compare, Die
<1> QED BY <1>1 DEF Next, Tick, RequestCheckpoint, Reply, CleanUp, vars

\* For any number of invocations, files, paths taken over and clocks set back: every
\* authorization cost a file of its own (play_session_grant.py 169-231).
THEOREM TicketsPayTheorem == Spec => []TicketsPayForPasses
<1>1. Init => TicketsPayForPasses
  <2> SUFFICES ASSUME Init PROVE ExistsInjection(Passes, Gone)
    BY DEF TicketsPayForPasses
  <2>1. Passes = {}
    BY DEF Init, Passes
  <2>2. [a \in {} |-> a] \in [Passes -> Gone]
    BY <2>1
  <2>3. [a \in {} |-> a] \in Injection(Passes, Gone)
    BY <2>1, <2>2 DEF Injection, IsInjective
  <2> QED BY <2>3 DEF ExistsInjection
<1>2. IInv /\ TicketsPayForPasses /\ [Next]_vars => TicketsPayForPasses'
  <2> SUFFICES ASSUME IInv, ExistsInjection(Passes, Gone), [Next]_vars
               PROVE  ExistsInjection(Passes', Gone')
    BY DEF TicketsPayForPasses
  <2>1. Gone \subseteq Gone'
    BY GoneForever
  <2>2. CASE \E i \in Invocation : Consume(i)
    BY <2>1, <2>2, PassIsPaid
  <2>3. CASE \A i \in Invocation : ~Consume(i)
    <3>1. Passes' = Passes
      BY <2>3, OnlyConsumersPass DEF Passes
    <3> QED BY <2>1, <3>1, NoMorePaid
  <2> QED BY <2>2, <2>3
<1> QED BY <1>1, <1>2, Invariance, PTL DEF Spec

-----------------------------------------------------------------------------
\* The state keeps its shape.
THEOREM TicketTypeTheorem == Spec => []TypeOK
<1>1. IInv => TypeOK
  BY DEF IInv
<1> QED BY <1>1, Invariance, PTL

\* No gate passes without the operator's answer to the very challenge consumed.
THEOREM ConfirmedTheorem == Spec => []ConfirmedInPerson
<1>1. IInv => ConfirmedInPerson
  BY DEF IInv
<1> QED BY <1>1, Invariance, PTL

\* Only a check that found the file valid lets an invocation go on.
LEMMA CheckedIsValid ==
    ASSUME IInv, [Next]_vars, NEW i \in Invocation,
           call[i].pc = "read", call'[i].pc = "checked"
    PROVE  Valid(call[i])
<1> USE DEF IInv, TypeOK, Call, Busy, Idle
<1>1. ASSUME NEW j \in Invocation, Check(j) PROVE Valid(call[i])
  BY <1>1 DEF Check
<1>2. ASSUME NEW j \in Invocation, NEW c \in Checkpoint, Create(j, c) \/ Open(j, c)
      PROVE FALSE
  BY <1>2 DEF Create, Open
<1>3. ASSUME NEW j \in Invocation,
             Write(j) \/ Created(j) \/ CreateFails(j) \/ Compare(j) \/ Consume(j) \/ Die(j)
      PROVE FALSE
  BY <1>3 DEF Write, Created, CreateFails, Compare, Consume, Die
<1>4. CASE \/ Tick \/ UNCHANGED vars
           \/ \E c \in Checkpoint : RequestCheckpoint(c)
           \/ \E t \in Ticket : Reply(t)
           \/ \E k \in Kind : CleanUp(k)
  BY <1>4 DEF Tick, RequestCheckpoint, Reply, CleanUp, vars
<1> QED BY <1>1, <1>2, <1>3, <1>4 DEF Next, Invoke

\* The one expiry that a grant states stands for all three limits.
THEOREM LimitsTheorem == Spec => GrantsStayWithinLimits
<1>1. IInv /\ [Next]_vars =>
        [\A i \in Invocation :
            (call[i].pc = "read" /\ call'[i].pc = "checked" /\ call[i].checkpoint \in Play) =>
                LET r == request[call[i].checkpoint] IN
                    /\ r # None
                    /\ clock - r.initiated < InitiationAge
                    /\ clock - r.requested < CheckpointAge
                    /\ clock < r.expires]_vars
  <2> SUFFICES ASSUME IInv, [Next]_vars, NEW i \in Invocation,
                      call[i].pc = "read", call'[i].pc = "checked", call[i].checkpoint \in Play
               PROVE  LET r == request[call[i].checkpoint] IN
                          /\ r # None
                          /\ clock - r.initiated < InitiationAge
                          /\ clock - r.requested < CheckpointAge
                          /\ clock < r.expires
    OBVIOUS
  <2> DEFINE t == call[i].ticket
             r == request[call[i].checkpoint]
  <2>1. Valid(call[i])
    BY CheckedIsValid
  <2>2. /\ t \in Ticket /\ content[t] # None /\ content[t].checkpoint = call[i].checkpoint
        /\ clock < content[t].expires
    BY <2>1 DEF IInv, Holds, Valid, Fresh
  <2>3. Backed(t)
    BY <2>2 DEF IInv
  <2>4. /\ r # None
        /\ content[t].expires <= r.initiated + InitiationAge
        /\ content[t].expires <= r.requested + CheckpointAge
        /\ content[t].expires <= r.expires
    BY <2>2, <2>3 DEF Backed
  <2>5. r \in Requested /\ content[t] \in Record /\ clock \in Time
    BY <2>2, <2>4, TicketAssumption DEF IInv, TypeOK
  <2> HIDE DEF t, r
  <2> QED BY <2>2, <2>4, <2>5, TicketAssumption DEF Requested, Record, Time, r
<1> QED BY <1>1, Invariance, PTL DEF Spec, GrantsStayWithinLimits

=============================================================================
