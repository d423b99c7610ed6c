CONSTANTS
    WorkloadCodes = {0, 7}
    StopCode = 143
    AutoCleanup = TRUE
    MaxAttempts = 2
    Faults <- MCApplyFault
    Configs <- MCConfigs
    Destinations <- MCDestinations
    DPorts <- MCDPorts
    None = None
SPECIFICATION Spec
INVARIANT RunnerLeavesNothing
