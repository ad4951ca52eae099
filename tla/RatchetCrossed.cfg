CONSTANTS
    Initiator = alice
    Responder = bob
    WasmEnds = {{}}
    MAX_PREVIOUS_KEYPAIRS = 2
    SESSION_EXHAUSTION_THRESHOLD = 3
    MaxSends = 3
SPECIFICATION Spec
CHECK_DEADLOCK FALSE
INVARIANT NextMessageDecrypts
