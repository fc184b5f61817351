CONSTANTS
    MaxRaces = 2
    MaxAsked = 2
SPECIFICATION Spec
INVARIANTS
    TypeOK
    LatchJustified
    AtMostOneNotice
PROPERTIES
    CleanExit
    Resumes
    ShutdownEnds
