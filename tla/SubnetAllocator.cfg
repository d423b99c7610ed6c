CONSTANTS
    Bases <- MCBases
    MaskEnvs <- MCMaskEnvs
    Unset = Unset
INIT Init
NEXT Next
INVARIANT SubnetsInRange
