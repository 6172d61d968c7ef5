SPECIFICATION SequentialSpec
CONSTANTS
    Keys = {k1}
    Capacity = 1
    TTL = 0
    NoNode = NoNode
    NoHash = NoHash
    Types <- MCTypes
    Def <- MCDef
    Extrinsic = {4, 5, 11, 12, 14}
    Payload <- MCPayload
    Lengths = {0, 1, 2}
    Tokens = {0, 1, 2, 3}
    MaxTokens = 11
    MaxPending = 8
    Periods = {64}
    Chains <- MCChains
    Bests = {0}
    MaxLag=1
INVARIANT EveryPayloadReadable
CHECK_DEADLOCK FALSE
