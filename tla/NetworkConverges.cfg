CONSTANTS
    Addr = {1}
    Snapshot = {{1}}
    Prefixes = {{1}, {}}
    Report = {r1}
    Associated = TRUE
    Grace = 1
    Outcome = {TRUE}
    MaxRev = 1
    MaxCrashes = 0
    Horizon = 2
SPECIFICATION FairSpec
PROPERTIES Converges
