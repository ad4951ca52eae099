CONSTANTS
    founder1 = f1
    founder2 = f2
    founder3 = f3
    Founders <- MCPair
    Online = {f1, f2}
    Newcomers = {}
    HostViews = {"founders"}
    MAX_GROUP_SIZE = 5
    MAX_TREE_DEPTH = 3
    MAX_UNMERGED_LEAVES = 2
    MaxOperations = 2
    MaxFailures = 0
SPECIFICATION GroupSpec
INVARIANT UpdatesAreTaken
CHECK_DEADLOCK FALSE
