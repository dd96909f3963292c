CONSTANTS
    Invocation = {i, j}
    Ticket = {t, u}
    Checkpoint = {play, gate}
    Play = {play}
    InitiationAge = 3
    CheckpointAge = 2
    ChallengeAge = 1
    MaxTime = 3
    None = None
SYMMETRY Interchangeable
SPECIFICATION Spec
INVARIANTS TypeOK TicketsPayForPasses ConfirmedInPerson
PROPERTY GrantsStayWithinLimits
