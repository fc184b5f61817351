CONSTANTS
    Skews = {0, 3}
    MaxRoundTrip = 3
    Tolerance = 1
    LastMoment = 9
SPECIFICATION ClockSpec
INVARIANT StartsTogether
