SPECIFICATION Spec
CONSTANTS
    None = None
    Pricing = pricing
    Waste = waste
    Price = r1
    Batch = r2
    Recs = {r1, r2}
    Filters = {pricing, waste}
    Rows <- MCRows
    Calls = {c1, c2}
SYMMETRY MCSymmetry
INVARIANTS TypeOK  HiddenWhileDecided
CHECK_DEADLOCK FALSE
