SPECIFICATION StoresFairSpec
CONSTANTS
    r1 = r1
    r2 = r2
    Readers <- OneReader
    Configs <- AllConfigs
    Payloads <- MCPayloads
    NilProducer = NilProducer
    NoTime = NoTime
    MaxSecondsInDuration = 50
    MillisPerSecond = 10
    MaxRecords = 2
\* The process may exit, crash or refuse its configuration.
CHECK_DEADLOCK FALSE
INVARIANTS
    StoresTypeOK
    RulesAreServed
    AckSourcesAreServed
    ConfirmedAcksAreStored
    IntentionalCloseNeverPanics
    
    AlertTopicsTellThePayload
    
PROPERTIES
    ImplementsReliableAck
    ProduceReturns
