SPECIFICATION Spec
CONSTANTS
    s1 = s1
    old = old
    new = new
    NoRow = NoRow
    Sessions = {s1}
    Runs = {old, new}
    SessionOf <- InOneSession
    Made <- CreatedAt
    Old = {old}
    Plans <- AllPlans
    MaxOps = 3
    MaxFaults = 1
    MaxCrashes = 1
CHECK_DEADLOCK FALSE
INVARIANTS
    TablesConsistent
    DeletionsWhole
    ConsumersKeepTheirVersion
    NamesFollowVersion
