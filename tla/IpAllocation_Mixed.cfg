SPECIFICATION Spec
CONSTANTS
    NoGroup = NoGroup
    NoAddress = NoAddress
    Agents <- MixedAgents
    Config <- MixedConfig
    Earlier <- MixedOrder
    GroupIds = 256
    LastHost = 11
INVARIANTS
    NoSharedAddress
    GroupsKept
PROPERTY AnswerIsStable
CHECK_DEADLOCK FALSE
