\* one writer that may die, two pollers
SPECIFICATION Spec
CONSTANTS
    worker = worker
    patch = patch
    p1 = p1
    p2 = p2
    i1 = i1
    i2 = i2
    i3 = i3
    i4 = i4
    i5 = i5
    Torn = Torn
    NoInode = NoInode
    Inodes = {i1, i2, i3, i4}
    Writers = {worker}
    Readers = {p1, p2}
    Loggers = {worker}
    MaxUpdates = 3
    MaxCrashes = 2
INVARIANTS
    ManifestWhole
    LogFollowsManifest
PROPERTY
    AtomicSpec
CHECK_DEADLOCK FALSE
