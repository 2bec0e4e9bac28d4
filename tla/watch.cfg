\* Two jobs of which the page shows the latest, and two requests at a time.
SPECIFICATION FairSpec
CONSTANTS
    MaxJobs = 2
    Limit = 1
    Requests = {q1, q2}
    None = None
ACTION_CONSTRAINT OthersLetBe
INVARIANTS TypeOK ActiveIsWatched ButtonsFollow
PROPERTY ListCatchesUp
