SPECIFICATION Spec
CONSTANTS
    Streams = {s1}
    Given = g
    None = None
    MaxContainers = 1
    OutCap = 1
    GivenIds = FALSE
    Behaviours = {"CloseStdin", "Terminate", "HalfClose", "HeartbeatLapse", "Drop"}
INVARIANTS
    ExitCodeTruthful
