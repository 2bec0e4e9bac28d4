SPECIFICATION FairSpec
CONSTANT MaxAttempts = 15
PROPERTY ProgressEnds
CHECK_DEADLOCK FALSE
