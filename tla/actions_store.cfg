SPECIFICATION Spec
CONSTANTS
    NRecs = 3
    Topics = {brew, gst, waste}
    NoTopic = NoTopic
    Threads = {t1, t2}
    Cap = 2
    MaxRequests = 3
    MaxPasses = 2
SYMMETRY MCSymmetry
INVARIANTS TypeOK OpenWithinCap OnePerTopic DecisionStands
CHECK_DEADLOCK FALSE
