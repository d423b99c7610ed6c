SPECIFICATION Spec
CONSTANTS
    Clients = {c1}
    NetNames = {n1, n2}
    Subnets <- MCSubnets
    Explicit <- MCExplicit
    Foreign <- MCForeignLow
    Cleaner = Cleaner
    Auto = Auto
    NoHolder = NoHolder
    None = None
    MaxRetries = 3
    MaxAcquires = 1
    MaxCrashes = 0
    EngineCanFail = FALSE
PROPERTY AllocatesFreeSubnet
