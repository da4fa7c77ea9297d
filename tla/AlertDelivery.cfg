CONSTANTS
    Channel = {c1}
    Worker = {w1, w2}
    NoWorker = NoWorker
    NoAttempt = NoAttempt
    MaxAttempt = 3
    MaxAlert = 2
    MaxDelivery = 2
    MaxFault = 1
    MaxCrash = 1
SPECIFICATION FairSpec
INVARIANTS NotifiedWasReceived NoOrphanResolved AttemptsInOrder FiringHasAlert
PROPERTY RetriesEnd
