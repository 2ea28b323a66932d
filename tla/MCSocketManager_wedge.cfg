SPECIFICATION FairSpec
CONSTANTS
    Topics <- MCTopics
    ProtoTopics <- MCProtoTopics
    Dispatchers <- MCDispatchers
    DispatchRules <- MCDispatchRules
    ReliableAckSources <- MCReliableAckSources
    SizeLimit = 1
    NoTopic = ""
    NoDispatcher = "none"
    Conns <- MCConns
    Messages <- FewMessages
    WriteCap = 1
    RateLimitOn = FALSE
    RateLimit = 1
    MaxMsgs = 2
\* A session whose reader has returned, or is wedged, takes no further step.
CHECK_DEADLOCK FALSE
PROPERTIES
    RequestCloseUnblocksReader
