CONSTANTS
    WorkloadCodes = {0, 7}
    StopCode = 143
    AutoCleanup = TRUE
    MaxAttempts = 2
    Faults <- MCAllFaults
    Configs <- MCConfigs
    Destinations <- MCDestinations
    DPorts <- MCDPorts
    None = None
SPECIFICATION FairSpec
INVARIANT TypeOK
INVARIANT SupervisedWorkloadFiltered
INVARIANT CompletedRunLeavesNothing
INVARIANT MetadataUnreachable
INVARIANT DenyAcceptsOnlyWhitelisted
PROPERTY SignalEndsRunner
