CONSTANTS
    Ids = {p1, p2, p3}
    Null = Null
    MaxPlayers = 3
    Countdown = 1
    PreStart = 1
    GraceTime = 1
    DiscGrace = 1
    Punctual = FALSE
SPECIFICATION Spec
SYMMETRY Symmetry
INVARIANTS
    TypeOK
    HostSound
    SeatMatchesSocket
    RaceRecordSound
    FinishNoticed
    DrainedIsIdle
PROPERTIES
    HostHandover
    ImplementsLifecycle
    NobodyCutShort
