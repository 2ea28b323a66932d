SPECIFICATION RegistrySpec
CONSTANTS
    Conns <- MCConns
    UUID <- MCUUID
INVARIANTS
    RegistryConsistent
