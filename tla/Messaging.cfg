CONSTANTS
    Initiator = alice
    Responder = bob
    WasmEnds = {{}, {alice}, {alice, bob}}
    MAX_PREVIOUS_KEYPAIRS = 2
    SESSION_EXHAUSTION_THRESHOLD = 4
    MaxSends = 6
    Instances = {i}
    Commits = {a, b}
    SaveOrders = {TRUE, FALSE}
    MaxEpoch = 1
    MaxMessages = 3
    founder1 = f1
    founder2 = f2
    founder3 = f3
    Founders <- MCFounders
    Online = {f1, f2, f3}
    Newcomers = {x}
    HostViews = {"founders"}
    MAX_GROUP_SIZE = 5
    MAX_TREE_DEPTH = 3
    MAX_UNMERGED_LEAVES = 2
    MaxOperations = 3
    MaxFailures = 1
SPECIFICATION MCSpec
CHECK_DEADLOCK FALSE
INVARIANTS
    TypeOK SyncedAgree StateIsAPoint OnlyCurrentKeypairDecrypts MixedPairIsMute TurnsAlwaysDecrypt
    ChannelTypeOK NoNonceReuse BlobFirstReloadAccepted
    GroupTypeOK ReplacedKeysGetNothing RemovedGetsNothing GeometryAgrees NoDoubleAdd
PROPERTIES EverySendIsTaken DivergenceIsFinal KeepsPromise MembersWalkOneTree
