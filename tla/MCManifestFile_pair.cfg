\* the run thread and PATCH requests, one of which may die
SPECIFICATION Spec
CONSTANTS
    worker = worker
    patch = patch
    p1 = p1
    p2 = p2
    i1 = i1
    i2 = i2
    i3 = i3
    i4 = i4
    i5 = i5
    Torn = Torn
    NoInode = NoInode
    Inodes = {i1, i2, i3, i4}
    Writers = {worker, patch}
    Readers = {}
    Loggers = {worker}
    MaxUpdates = 2
    MaxCrashes = 1
INVARIANT
    TornNeedsOverlap
CHECK_DEADLOCK FALSE
