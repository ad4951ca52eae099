CONSTANTS
    Instances = {i, j}
    Commits = {a, b}
    SaveOrders = {TRUE}
    MaxEpoch = 1
    MaxMessages = 2
SPECIFICATION ChannelSpec
CHECK_DEADLOCK FALSE
INVARIANT NoNonceReuse
