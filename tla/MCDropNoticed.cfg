CONSTANTS
    Ids = {p1, p2}
    Rooms = {r1}
    None = none
    MaxPlayers = 2
    MaxUp = 2
    MaxDown = 2
SPECIFICATION Spec
INVARIANTS
    DropNoticed
