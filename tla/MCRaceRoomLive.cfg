CONSTANTS
    Ids = {p1, p2}
    Null = Null
    MaxPlayers = 2
    Countdown = 2
    PreStart = 1
    GraceTime = 1
    DiscGrace = 2
    Punctual = TRUE
SPECIFICATION FairSpec
PROPERTIES
    RaceMovesOn
    SeatReleased
