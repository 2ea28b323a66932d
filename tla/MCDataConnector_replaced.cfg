SPECIFICATION FairSpec
CONSTANTS
    v1 = v1
    v2 = v2
    Vins <- OneVin
    Configs <- OnlyFile
    MaxEdits = 1
\* Once the file has changed for the last time the program may only wait.
CHECK_DEADLOCK FALSE
PROPERTIES
    RuntimeChangesTakeEffect
