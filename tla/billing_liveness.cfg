SPECIFICATION FairSpec
CONSTANTS
    Subs = {s1}
    Offsets <- One
    EmptyAnswers = {"empty", "none"}
    MaxEvents = 2
    MaxMonth = 1
    MaxFaults = 2
INVARIANT
    RemindedOnce
PROPERTY
    EveryEventSettles
