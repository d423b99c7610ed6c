SPECIFICATION Spec
CONSTANTS
    Streams = {s1, s2}
    Given = g
    None = None
    MaxContainers = 1
    OutCap = 1
    GivenIds = TRUE
    Behaviours = {"Drop"}
SYMMETRY MCSymmetry
INVARIANTS
    NoForeignTerminate
