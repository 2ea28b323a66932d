SPECIFICATION FairSpec
CONSTANTS
    Topics <- MCTopics
    ProtoTopics <- MCProtoTopics
    Dispatchers <- MCDispatchers
    DispatchRules <- MCDispatchRules
    ReliableAckSources <- MCReliableAckSources
    SizeLimit = 1
    NoTopic = ""
    NoDispatcher = "none"
    Conns <- MCConns
    Messages <- MCMessages
    WriteCap = 1
    RateLimitOn = TRUE
    RateLimit = 1
    MaxMsgs = 2
\* A session whose reader has returned, or is wedged, takes no further step.
CHECK_DEADLOCK FALSE
INVARIANTS
    TypeOK
    
    
    AckAfterDispatch
    NoWakeupLost
PROPERTIES
    WriterFailureEndsSession
    ShutdownEndsSession
    WriterNeverLeaks
    AnswersReachVehicle
