CONSTANTS
    Length = 5
    Spaces <- MCSpaces
    MaxErrors = 2
    MaxKeys = 6
    MaxQueue = 2
SPECIFICATION Spec
INVARIANT BlockedFinishIsFixable
