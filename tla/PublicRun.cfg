SPECIFICATION RelaySpec
CONSTANTS
    Streams = {s1}
    Given = g
    None = None
    MaxContainers = 1
    OutCap = 1
    GivenIds = TRUE
    Behaviours = {"CloseStdin", "StdinAfterClose", "Terminate", "HalfClose", "HeartbeatLapse", "Drop"}
    MaxBrowserMsgs = 2
    Window = 1
INVARIANTS
    RelayTypeOK
    TerminatedMeansStopped
PROPERTIES
    ExitedStreamEnds
    RelayReleased
