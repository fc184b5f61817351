CONSTANTS
    Tabs = {A, B}
    MaxFrames = 1
    Split = FALSE
SYMMETRY Symmetry
SPECIFICATION MCSpec
INVARIANT ReconnectReturns
