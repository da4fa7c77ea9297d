CONSTANTS
    ShutdownID = {s1}
    ApplyID = {}
    BadID = {b1}
    NoID = NoID
    NoAck = NoAck
    MaxCrash = 2
SPECIFICATION FairSpec
PROPERTIES EveryResultReported ImplementsExecution
