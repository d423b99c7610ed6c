SPECIFICATION FairSpec
CONSTANTS
    Codes <- MCCodes
    Waiters = {w1}
    Sessions = {s1}
    Terminators = {t1}
    MaxOut = 2
    BcastCap = 1
    None <- MCNone
PROPERTIES
    StreamEntryReleased
    SessionReleased
