\* the run thread and a PATCH, one update each
SPECIFICATION Spec
CONSTANTS
    worker = worker
    patch = patch
    p1 = p1
    p2 = p2
    i1 = i1
    i2 = i2
    i3 = i3
    i4 = i4
    i5 = i5
    Torn = Torn
    NoInode = NoInode
    Inodes = {i1, i2, i3, i4, i5}
    Writers = {worker, patch}
    Readers = {}
    Loggers = {worker}
    MaxUpdates = 1
    MaxCrashes = 0
INVARIANT
    WholeAtRest
CHECK_DEADLOCK FALSE
