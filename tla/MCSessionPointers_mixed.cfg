SPECIFICATION Spec
CONSTANTS
    Runs = {f, m, l}
    f = f
    m = m
    l = l
    NoRun = NoRun
    Plans <- MixedPlans
    Trvs = {t1, t2, t3}
    NoTrv = NoTrv
    Overlays = {o1}
    NoOvr = NoOvr
    Unset = Unset
    Torn = Torn
    MaxRequests = 2
    MaxCrashes = 1
SYMMETRY TrvSymmetry
CHECK_DEADLOCK FALSE
INVARIANTS
    PointersAgree
    RequestsKept
    ActiveExists
    ListingTrue
