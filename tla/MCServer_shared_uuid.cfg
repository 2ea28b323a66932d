SPECIFICATION ServerSpec
CONSTANTS
    c1 = c1
    c2 = c2
    Topics <- MCTopics
    ProtoTopics <- MCTopics
    Dispatchers <- MCDispatchers
    DispatchRules <- MCDispatchRules
    ReliableAckSources <- MCReliableAckSources
    SizeLimit = 1
    NoTopic = ""
    NoDispatcher = "none"
    Conns <- TwoConns
    Messages <- BothTopics
    WriteCap = 1
    RateLimitOn = FALSE
    RateLimit = 1
    MaxMsgs = 0
    UUID <- SharedUUID
    AsyncDispatchers = {"kafka"}
    EventsRouted = TRUE
\* The process may exit, and a session or handleAcks may be stuck for good.
CHECK_DEADLOCK FALSE
PROPERTIES
    CloseAllSocketsAsksAll
