SPECIFICATION FairSpec
CONSTANTS
    Streams = {s1}
    Given = g
    None = None
    MaxContainers = 1
    OutCap = 1
    GivenIds = FALSE
    Behaviours = {"CloseStdin", "StdinAfterClose", "Terminate", "HalfClose", "HeartbeatLapse", "Drop"}
INVARIANTS
    TypeOK
    TerminatedMeansStopped
PROPERTIES
    ExitedStreamEnds
