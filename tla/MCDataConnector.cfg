SPECIFICATION FairSpec
CONSTANTS
    v1 = v1
    v2 = v2
    Vins <- TwoVins
    Configs <- MCConfigs
    MaxEdits = 2
INVARIANTS
    TypeOK
    SettledRulesAreCurrent
    
PROPERTIES
    RulesMoveForward
    WatchedWritesTakeEffect
