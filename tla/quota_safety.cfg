SPECIFICATION Spec
CONSTANTS
    DaysPerMonth = 2
    CopilotLimit = 2
    MonthlyUploads = 3
    DailyUploads = 2
    DailyUndos = 1
    Chats = {c1, c2}
    MaxDone = 5
    MaxSlack = 1
SYMMETRY Interchangeable
INVARIANTS
    TypeOK
    QuotasHold
    NothingForgotten
