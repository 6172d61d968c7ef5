SPECIFICATION SequentialSpec
CONSTANTS
    Keys = {k1, k2, k3, k4}
    Capacity = 3
    TTL = 1
    NoNode = NoNode
    NoHash = NoHash
    Types <- MCTypes
    Def <- MCDef
    Extrinsic = {4, 5, 11, 12, 14}
    Payload <- MCPayload
    Lengths = {0, 1, 2}
    Tokens = {0, 1, 2, 3}
    MaxTokens = 11
    MaxPending = 8
    Periods = {1, 5, 64, 4096, 10000, 70000}
    Chains <- MCChains
    Bests = {0, 3, 12, 255, 4100}
    MaxLag = 20
SYMMETRY KeySymmetry
INVARIANTS Consistent ProofVerifies ProofSuffices LivesOnePeriod AliveWhenSigned
PROPERTY KeepsThePromise
CHECK_DEADLOCK FALSE
