CONSTANTS
    QueueCap = 2
    Events = 4
    Notices = {a, b, c}
    ToastCap = 2
    Creations = {c1, c2, c3}
    MaxCreations = 2
    Window = 3
    BufferSize = 3
    BufferTime = 1
    ExtrapolateMax = 2
    Positions = {0, 1, 3}
    Horizon = 5
    Durations = {1, 2}
    TextLength = 2
    Chunk = 2
    Lookahead = 2
    MaxLength = 6
    Skews <- AheadAndBehind
    MaxRoundTrip = 3
    Tolerance = 1
    LastMoment = 9
    PreStart = 50
    MinInterval = 20
    FinishBonus = 1000
    Slack = 1
    MaxTotal = 6
SPECIFICATION Spec
CHECK_DEADLOCK FALSE
INVARIANTS
    PartsTypeOK
    LinkInOrder
    WindowKept
    CursorOnTheWay
    SoloIsFair
    SyncIsClose
    FinishersFirst
PROPERTIES
    LinkFlushes
    ToastGoes
