SPECIFICATION Spec
CONSTANTS
    Subs = {s1}
    Offsets <- One
    EmptyAnswers = {"empty", "none"}
    MaxEvents = 3
    MaxMonth = 2
    MaxFaults = 1
INVARIANTS
    TypeOK
    AppliedOnce
    InvoicedOnce
