CONSTANTS
    MaxRaces = 1
    MaxAsked = 1
SPECIFICATION Spec
PROPERTY NeverWedged
