SPECIFICATION FairSpec
CONSTANTS
    Bits = 2
    Div = 3
    Half = 1
    Typed <- MCTyped
    Enter <- MCEnter
    Response <- MCResponse
    Fallback <- MCFallback
    MaxLine = 3
    MaxResets = 1
INVARIANTS
    HeardAsTyped
    ScreenReadsRight
    AnswerIntact
    CommandAnswered
PROPERTIES
    AnswerEnds
