SPECIFICATION Spec
CONSTANTS
    Codes <- MCCodes
    Waiters = {w1}
    Sessions = {s1}
    Terminators = {t1}
    MaxOut = 1
    BcastCap = 1
    None <- MCNone
INVARIANT ConsoleShowsExit
