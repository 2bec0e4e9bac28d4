\* Seats: the owner and two others, two invitations, two requests at a time.
SPECIFICATION Spec
CONSTANTS
    Owner = o
    People = {o, p1, p2}
    Invites = {i1, i2}
    Requests = {r1, r2}
    High = 2
    Low = 1
    OwnerRecorded = FALSE
    MaxTorn = 1
    None = None
SYMMETRY Symmetry
INVARIANTS
    TypeOK
    SeatsHold
    LinkReaches
    OneJoinPerInvite
CHECK_DEADLOCK FALSE
