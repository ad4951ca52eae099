SPECIFICATION MCSpec
CONSTANTS
    P = 9
    Q = 67
    WORD = 131072
    BYTE = 16
    RqStages <- MCRqStages
    RqTop = 98
    RoundedStages <- MCRoundedStages
    WEIGHT = 4
    KARATSUBA_THRESHOLD = 2
    NTT_SIZE = 32
    NTT_PRIME = 641
    NTT_PRIMITIVE_ROOT = 3
    BARRETT_WORD = 1048576
    MAX_KEYGEN_ATTEMPTS = 2
    SmallDraws <- MCSmall
    ShortDraws <- MCShort
    AlteredBytes = {0, 9}
    N = 4
    FieldQ = 97
    ZETA = 64
    K = 2
    L = 1
    Eta = 1
    Gamma1 = 8
    TwoGamma2 = 16
    Omega = 3
    TAU = 2
    PowD = 8
    KappaMax = 2
    Matrices <- MCMatrices
    Secrets <- MCSecrets
    Masks <- MCMasks
    Balls <- MCBalls
    Messages = {m1, m2}
    WirePolys <- MCWirePolys
    WireBytes = {0, 255}
    ed1 = ed1
    ed2 = ed2
    mldsa1 = mldsa1
    mldsa2 = mldsa2
    Keypairs <- MCKeypairs
    SignedTexts <- MCSignedTexts
    SignContexts <- MCSignContexts
    MaxContext = 1
    MaxIssued = 2
    HybridMlDsa = "MlDsa65B"
    KemSeeds = {s1, s2}
    WrapContexts <- MCWrapContexts
    MaxWraps = 2
    POLY_SIZE = 4
    BALL_WEIGHT = 3
    SIGN_BYTES = 2
    MASK_BYTES = 5
    TINY_SQUEEZE_MAX = 3
    TINY_PREFETCH = 4
    IndexBytes = {0, 1, 2, 3, 4}
    HalfBytes = {0, 4, 5, 8, 9, 14, 15}
    Triples <- MCTriples
    MaxSqueezes = 6
SYMMETRY Symmetry
INVARIANTS SecretsAgree ArithmeticIsExact SignedVerifies CodecRoundTrips AcceptedIffIssued OpenedIffWrapped SampledFromOneStream
CHECK_DEADLOCK FALSE
