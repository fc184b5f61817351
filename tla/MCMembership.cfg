CONSTANTS
    Ids = {p1, p2}
    Rooms = {r1, r2}
    None = none
    MaxPlayers = 2
    MaxUp = 1
    MaxDown = 2
SYMMETRY Symmetry
SPECIFICATION Spec
INVARIANTS
    TypeOK
    AudienceInStep
    RoomCodeTrue
