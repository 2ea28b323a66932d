SPECIFICATION ServerSpec
CONSTANTS
    c1 = c1
    c2 = c2
    Topics <- MCTopics
    ProtoTopics <- MCTopics
    Dispatchers <- MCDispatchers
    DispatchRules <- MCDispatchRules
    ReliableAckSources <- NoReliableAcks
    SizeLimit = 1
    NoTopic = ""
    NoDispatcher = "none"
    Conns <- TwoConns
    Messages <- OnlyAlerts
    WriteCap = 1
    RateLimitOn = FALSE
    RateLimit = 1
    MaxMsgs = 1
    UUID <- OwnUUID
    AsyncDispatchers = {"kafka"}
    EventsRouted = TRUE
\* The process may exit, and a session or handleAcks may be stuck for good.
CHECK_DEADLOCK FALSE
SYMMETRY Symmetry
INVARIANTS
    RegistryStaysConsistent
    DrainedMeansReturned
PROPERTIES
    CloseAllSocketsAsksAll
