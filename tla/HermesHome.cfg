SPECIFICATION Spec
CONSTANTS
    Default = Default
    Profiles = {Main}
    Files <- MCFiles
    Creators = {c1}
    Launches = {l1, l2}
    HostGateways = {g1}
    None = None
SYMMETRY Symmetry
INVARIANTS
    TypeOK
    YieldsToHostGateway
    LocksAreLocal
    FillsItsOwnHome
PROPERTIES
    MountsNoCredential
    ClearsOnlyStale
CHECK_DEADLOCK FALSE
