CONSTANTS
    Instances = {i}
    Commits = {a, b}
    SaveOrders = {FALSE}
    MaxEpoch = 1
    MaxMessages = 2
SPECIFICATION ChannelSpec
CHECK_DEADLOCK FALSE
INVARIANT HonestReloadAccepted
