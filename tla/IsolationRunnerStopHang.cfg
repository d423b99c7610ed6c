CONSTANTS
    WorkloadCodes = {0, 7}
    StopCode = 143
    AutoCleanup = TRUE
    MaxAttempts = 2
    Faults <- MCStopFault
    Configs <- MCConfigs
    Destinations <- MCDestinations
    DPorts <- MCDPorts
    None = None
SPECIFICATION FairSpec
PROPERTY SignalEndsRunner
