CONSTANTS
    GHDevice = {x1}
    GHGrant = {g1, g2}
    NoOAuth = NoOAuth
    Blank = Blank
    Poller = {p1}
    NoCode = NoCode
    MaxKeyNo = 2
    MaxGHRequest = 5
    MaxGHFault = 1
    MaxGHStart = 1
CHECK_DEADLOCK FALSE
SPECIFICATION GHSpec
INVARIANT AppliedIsWhole
