SPECIFICATION Spec
CONSTANTS
    s1 = s1
    old = old
    new = new
    NoRow = NoRow
    Sessions = {s1}
    Runs = {old, new}
    SessionOf <- InOneSession
    Made <- CreatedAt
    Old = {old}
    Plans <- AllPlans
    MaxOps = 2
    MaxFaults = 0
    MaxCrashes = 0
CHECK_DEADLOCK FALSE
INVARIANTS
    DeletedRunsStayDeleted
