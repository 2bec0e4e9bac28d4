\* Chat page and server: two questions.
SPECIFICATION FairSpec
CONSTANTS
    Sends = {s1, s2}
    Old = {}
    Loads = {l1}
    None = None
INVARIANTS
    TypeOK
    Coherent
    CancelReachesAnswer
    NeverLockedForGood
    UsageShown
PROPERTY EveryQuestionSettles
CHECK_DEADLOCK FALSE
