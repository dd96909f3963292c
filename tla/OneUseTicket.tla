---------------------------- MODULE OneUseTicket ----------------------------
(***************************************************************************)
(* The private one-use files of an external read-only session: the PLAY    *)
(* grant of play_session_grant.py and the operator challenge of            *)
(* checkpoint_authorization.py.  Each is created with O_EXCL, written,     *)
(* opened, checked and unlinked by separate command invocations that       *)
(* nothing serialises, on a wall clock that may be set back.               *)
(*                                                                         *)
(* A file is named for its inode; its content is a record that is whole or *)
(* torn.  The fields that bind a ticket (session, specification, task,     *)
(* checkpoint, step) are the checkpoint.  The nonce of a challenge is the  *)
(* file itself: eight random hexadecimal digits, never drawn twice here.   *)
(***************************************************************************)
EXTENDS Integers, FiniteSets, FiniteSetsExt

CONSTANTS
    Invocation,     \* runs of the civ5-read-only command, each used again and again
    Ticket,         \* the files that are ever created
    Checkpoint,     \* the checkpoints the framework requests
    Play,           \* those of step press_launcher_play; the others are gates
    InitiationAge,  \* 600 seconds
    CheckpointAge,  \* 300 seconds
    ChallengeAge,   \* --max-age-seconds
    MaxTime,        \* the last moment of the instance
    None

ASSUME TicketAssumption ==
    /\ Play \subseteq Checkpoint
    /\ {InitiationAge, CheckpointAge, ChallengeAge, MaxTime} \subseteq Nat \ {0}
    /\ None \notin Ticket \cup Checkpoint

VARIABLES
    clock,       \* time.time()
    request,     \* per checkpoint: when it was requested, expires, and its session began
    at,          \* the file at the path of the grants, and at that of the challenges
    content,     \* what each file holds
    prompt,      \* what the operator did with the prompt of each challenge
    call,        \* what each invocation is doing
    passes       \* how often each file has authorized

vars == <<clock, request, at, content, prompt, call, passes>>

Time == 0 .. MaxTime
Kind == {"grant", "challenge"}
KindOf(c) == IF c \in Play THEN "grant" ELSE "challenge"

Requested == [initiated : Time, requested : Time, expires : Nat]
Record == [checkpoint : Checkpoint, created : Time, expires : Nat, whole : BOOLEAN]

ASSUME NoneAssumption == None \notin Requested \cup Record

Busy(pc, c, t, whole, answer) ==
    [pc |-> pc, checkpoint |-> c, ticket |-> t, whole |-> whole, response |-> answer]
Idle == Busy("idle", None, None, FALSE, None)
Call == [pc : {"idle", "writing", "read", "checked", "same"}, checkpoint : Checkpoint \cup {None},
         ticket : Ticket \cup {None}, whole : BOOLEAN, response : Ticket \cup {None}]

Init ==
    /\ clock = 0
    /\ request = [c \in Checkpoint |-> None]
    /\ at = [k \in Kind |-> None]
    /\ content = [t \in Ticket |-> None]
    /\ prompt = [t \in Ticket |-> "hidden"]
    /\ call = [i \in Invocation |-> Idle]
    /\ passes = [t \in Ticket |-> 0]

-----------------------------------------------------------------------------
(* The surroundings: the clock, the framework, the operator.               *)

Tick ==
    /\ clock' \in Time \cap {clock - 1, clock + 1}
    /\ UNCHANGED <<request, at, content, prompt, call, passes>>

\* The framework requests a checkpoint of a session that the user began earlier.
RequestCheckpoint(c) ==
    /\ request[c] = None
    /\ \E began \in 0 .. clock, life \in 1 .. CheckpointAge :
          /\ c \notin Play => began = clock /\ life = CheckpointAge   \* not read
          /\ request' = [request EXCEPT ![c] =
              [initiated |-> began, requested |-> clock, expires |-> clock + life]]
    /\ UNCHANGED <<clock, at, content, prompt, call, passes>>

\* The operator copies the phrase of a prompt into a message, once.
Reply(t) ==
    /\ prompt[t] = "shown"
    /\ prompt' = [prompt EXCEPT ![t] = "answered"]
    /\ UNCHANGED <<clock, request, at, content, call, passes>>

\* A file that a dead invocation left behind is removed by hand.
CleanUp(k) ==
    /\ at[k] # None
    /\ at' = [at EXCEPT ![k] = None]
    /\ UNCHANGED <<clock, request, content, prompt, call, passes>>

-----------------------------------------------------------------------------
(* Creation.                                                               *)

GrantAllowed(r) ==
    /\ r.initiated <= r.requested /\ r.requested <= clock /\ clock < r.expires
    /\ r.requested - r.initiated <= InitiationAge
    /\ clock - r.initiated <= InitiationAge
    /\ clock - r.requested <= CheckpointAge

\* Mutant of GrantExpiry: the lifetime counted from the creation.
GrantExpiryFromCreation(r) == Min({clock + CheckpointAge, r.expires})

GrantExpiry(r) == Min({r.initiated + InitiationAge, r.requested + CheckpointAge, r.expires})

\* A challenge states no expiry: its reader bounds its age, inclusively.
Expiry(c) == IF c \in Play THEN GrantExpiry(request[c]) ELSE clock + ChallengeAge + 1

Allowed(c) ==
    /\ request[c] # None
    /\ IF c \in Play THEN GrantAllowed(request[c]) ELSE request[c].requested <= clock
    /\ clock < Expiry(c)

Create(i, c) ==
    /\ call[i] = Idle
    /\ Allowed(c)
    /\ at[KindOf(c)] = None                       \* O_CREAT | O_EXCL
    /\ \E t \in {u \in Ticket : content[u] = None} :
          /\ at' = [at EXCEPT ![KindOf(c)] = t]
          /\ content' = [content EXCEPT ![t] =
                [checkpoint |-> c, created |-> clock, expires |-> Expiry(c), whole |-> FALSE]]
          /\ call' = [call EXCEPT ![i] = Busy("writing", c, t, FALSE, None)]
    /\ UNCHANGED <<clock, request, prompt, passes>>

Write(i) ==
    /\ call[i].pc = "writing"
    /\ ~content[call[i].ticket].whole
    /\ content' = [content EXCEPT ![call[i].ticket].whole = TRUE]
    /\ UNCHANGED <<clock, request, at, prompt, call, passes>>

\* Mutant of Written: one write call that need not write everything.
WrittenInPart(t) == content[t] # None

Written(t) == content[t].whole

\* The file is synced and closed; the prompt of a challenge is printed.
Created(i) ==
    /\ call[i].pc = "writing"
    /\ LET t == call[i].ticket IN
          /\ Written(t)
          /\ prompt' = IF content[t].checkpoint \in Play THEN prompt
                       ELSE [prompt EXCEPT ![t] = "shown"]
    /\ call' = [call EXCEPT ![i] = Idle]
    /\ UNCHANGED <<clock, request, at, content, passes>>

\* A write or the fsync fails: whatever is at the path by now is unlinked.
CreateFails(i) ==
    /\ call[i].pc = "writing"
    /\ at' = [at EXCEPT ![KindOf(call[i].checkpoint)] = None]
    /\ call' = [call EXCEPT ![i] = Idle]
    /\ UNCHANGED <<clock, request, content, prompt, passes>>

-----------------------------------------------------------------------------
(* Consumption: open, fstat and read; check; lstat; unlink.                *)

\* A caller passes on any answer the operator has given, or none.
Answers == {t \in Ticket : prompt[t] = "answered"}

Open(i, c) ==
    /\ call[i] = Idle
    /\ at[KindOf(c)] # None
    /\ \E answer \in Answers \cup {None} :
          /\ c \in Play => answer = None
          /\ call' = [call EXCEPT ![i] =
                Busy("read", c, at[KindOf(c)], content[at[KindOf(c)]].whole, answer)]
    /\ UNCHANGED <<clock, request, at, content, prompt, passes>>

Fresh(r) == r.created <= clock /\ clock < r.expires

\* Mutant of Confirms: a phrase without the nonce.
ConfirmsTheStep(answer, t) == answer # None

\* _authorization_phrase: a response is compared with the phrase of the nonce.
Confirms(answer, t) == answer = t

Valid(s) ==
    /\ s.whole
    /\ content[s.ticket].checkpoint = s.checkpoint
    /\ Fresh(content[s.ticket])
    /\ s.checkpoint \notin Play => Confirms(s.response, s.ticket)

Check(i) ==
    /\ call[i].pc = "read"
    /\ call' = [call EXCEPT ![i] =
          IF Valid(call[i]) THEN [call[i] EXCEPT !.pc = "checked"]
                            ELSE Idle]
    /\ UNCHANGED <<clock, request, at, content, prompt, passes>>

Compare(i) ==
    /\ call[i].pc = "checked"
    /\ call' = [call EXCEPT ![i] =
          IF at[KindOf(call[i].checkpoint)] = call[i].ticket
          THEN [call[i] EXCEPT !.pc = "same"] ELSE Idle]
    /\ UNCHANGED <<clock, request, at, content, prompt, passes>>

\* Mutant of Removable: unlink(missing_ok=True).
RemovableIfMissing(k) == TRUE

\* unlink fails when there is nothing left to remove.
Removable(k) == at[k] # None

Consume(i) ==
    /\ call[i].pc = "same"
    /\ LET k == KindOf(call[i].checkpoint) IN
          /\ passes' = IF Removable(k) THEN [passes EXCEPT ![call[i].ticket] = @ + 1]
                       ELSE passes
          /\ at' = [at EXCEPT ![k] = None]
    /\ call' = [call EXCEPT ![i] = Idle]
    /\ UNCHANGED <<clock, request, content, prompt>>

\* An invocation is killed: a file it created stays as it is.
Die(i) ==
    /\ call[i] # Idle
    /\ call' = [call EXCEPT ![i] = Idle]
    /\ UNCHANGED <<clock, request, at, content, prompt, passes>>

Invoke(i) ==
    \/ \E c \in Checkpoint : Create(i, c) \/ Open(i, c)
    \/ Write(i) \/ Created(i) \/ CreateFails(i)
    \/ Check(i) \/ Compare(i) \/ Consume(i)
    \/ Die(i)

Next ==
    \/ Tick
    \/ \E c \in Checkpoint : RequestCheckpoint(c)
    \/ \E t \in Ticket : Reply(t)
    \/ \E k \in Kind : CleanUp(k)
    \/ \E i \in Invocation : Invoke(i)

Spec == Init /\ [][Next]_vars

-----------------------------------------------------------------------------
(* Properties.                                                             *)

\* The shape of the state; a path leads to a file of its own kind, and a prompt
\* is shown only for a challenge that was written in full.
TypeOK ==
    /\ clock \in Time
    /\ request \in [Checkpoint -> Requested \cup {None}]
    /\ at \in [Kind -> Ticket \cup {None}]
    /\ content \in [Ticket -> Record \cup {None}]
    /\ prompt \in [Ticket -> {"hidden", "shown", "answered"}]
    /\ call \in [Invocation -> Call]
    /\ passes \in [Ticket -> Nat]
    /\ \A k \in Kind : at[k] # None =>
          content[at[k]] # None /\ KindOf(content[at[k]].checkpoint) = k
    /\ \A t \in Ticket : prompt[t] # "hidden" =>
          content[t] # None /\ content[t].whole /\ content[t].checkpoint \notin Play

Gone == {t \in Ticket : content[t] # None /\ \A k \in Kind : at[k] # t}

Passes == UNION {{t} \X (1 .. passes[t]) : t \in Ticket}

\* Each time the callers are authorized, a ticket disappears that no other time is
\* paid with, whatever two consumers do between open, lstat and unlink of one path,
\* and whatever is created there meanwhile: of two that hold the same file, one
\* fails to unlink it or destroys another ticket for it.
TicketsPayForPasses == ExistsInjection(Passes, Gone)

\* A gate passes only on the operator's answer to the prompt of the very file
\* that is consumed: an answer to an earlier challenge of the same step, which
\* a caller may still hand over, does not pass a later one.
ConfirmedInPerson ==
    \A t \in Ticket : passes[t] > 0 =>
        content[t].checkpoint \in Play \/ prompt[t] = "answered"

\* When a grant passes its check, the user's message is younger than its limit,
\* the checkpoint younger than its own and not expired: what the creator found
\* at its time still holds at the consumer's, though the file states one expiry
\* only and the clock may have been set back in between.
GrantsStayWithinLimits ==
    [][\A i \in Invocation :
        (call[i].pc = "read" /\ call'[i].pc = "checked" /\ call[i].checkpoint \in Play) =>
            LET r == request[call[i].checkpoint] IN
                /\ r # None
                /\ clock - r.initiated < InitiationAge
                /\ clock - r.requested < CheckpointAge
                /\ clock < r.expires]_vars

=============================================================================
