SPECIFICATION ProbingSpec
CONSTANTS
    BackoffAfter = 2
    Interval = 3
    MaxBackoff = 8
    Timeout = 2
    RefTime = 1
    Slots = 2
    Ahead = 3
    RoundTime = 2
    MaxUnanswered = 5
INVARIANT ProbingTypeOK
INVARIANT SilenceBounded
