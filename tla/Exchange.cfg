SPECIFICATION Spec
CONSTANTS
    Conns <- MCConns
    Settings <- MCSettings
    MaxTurns = 3
    MaxTexts = 2
    MaxCalls = 2
    MaxParts = 3
INVARIANTS
    TypeOK
    AnswersReturn
    EverythingAsked
    CallsAnswered
PROPERTIES
    PrefixStable
    BreakpointsAdvance
CHECK_DEADLOCK FALSE
