SPECIFICATION PartSpec
CONSTANTS
    Nodes <- MCNodes
    Values <- MCValues
    EmptyCollection = "[]"
    Null = Null
    Unknown = Unknown
    NoResponse = NoResponse
    Reads = {r1, r2}
    MaxPending = 2
    Requests = {q1, q2, q3}
    Payloads <- MCPayloads
    PostsCall = posts
    Taps = {tap1, tap2, tap3}
INVARIANTS
    TypeOK
    PartsTypeOK
    AtMostOneCompletion
    FlagsConsistent
    AnswersComeFromTheNode
    IndicatorMeansBusy
    LostOnlyIfOvertaken
PROPERTIES
    OnlyRejectionForgets
    EveryReadAnswered
    EveryRequestCompletes
    HudGoesAway
    PostsReachTheScreen
CHECK_DEADLOCK FALSE
