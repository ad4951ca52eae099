CONSTANTS
    Devices = {phone, laptop}
    Wasm = {laptop}
    Messages <- MCMessages
    sequence <- MCsequence
    timestamp <- MCtimestamp
    MAX_RETAINED_KEYS = 2
    MaxShares = 1
    Users <- MCUsers
    root <- MCroot
    founder <- MCfounder
    Approvals <- MCApprovals
    Revocations <- MCRevocations
    Notices <- MCNotices
    Rotations <- MCRotations
    Certificates <- MCCertificates
    Numbers <- MCNumbers
    OneTimeKeys <- MCOneTimeKeys
    VerifyingKeys <- MCVerifyingKeys
    ReasonBytes = {0, 2, 9, 255}
    MaxRecords = 2
    MaxTime = 2
    Window = 1
    SigningIds = {1, 2}
    KemIds = {1, 2}
    DeviceLists <- MCDeviceLists
    Threads = {1, 2}
    FingerprintBytes <- MCFingerprintBytes
    Sextets = {0, 1, 16, 63, 64}
    DisplayBytes = 3
    DisplayDigits = 5
    WasmUsers <- MCWasmUsers
    LeafOf <- MCLeafOf
    SessionIds <- MCSessionIds
    GroupSize = 3
    LegacyUsers = {"ben"}
    HostDeltas = {1}
    NewMember = "x"
    MaxGroupSize = 4
    MaxDraws = 1
    MaxEpochs = 1
    MaxTexts = 2
    Committers = {0, 2}
    Receivers = {1}
    Applicants = {8, 9}
    Places <- MCPlaces
    MaxSent = 2
SPECIFICATION MCSpec
INVARIANT AddedMembersJoin
CHECK_DEADLOCK FALSE
