CONSTANTS
    Responder = bob
    Initiators = {alice, carol}
    OneTimeKeys = {o1, o2}
    KeyIds = {0}
    Never = 9
    MaxTime = 1
    MaxBundles = 2
    MaxSessions = 3
    Radix = 6
    LengthBytes = 2
    WireCalls <- MCWireCalls
    Capacities = {4, 7}
    Payloads <- MCPayloads
    MaxCalls = 3
    Boxes = {a, b}
    Kinds = {"LockedBox", "LockedVec", "GuardedBox"}
    NumPages = 5
    page_size = 2
    MaxSize = 3
    LOCK_LIMIT = 2
    MaxLost = 2
SPECIFICATION MCSpec
SYMMETRY Symmetric
CHECK_DEADLOCK FALSE
INVARIANTS SameKeysIffRight SessionsAreDistinct OnlyPublishedBundlesStart BytesReadAsWritten GuardedStaysLocked NothingLeftBehind
PROPERTY LocksAreLostToNeighbours
