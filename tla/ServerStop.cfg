CONSTANTS
    HostRecord = {n1}
    HostAddr = {1, 2}
    NoAddress = NoAddress
    Admin = {adm1}
    Loop = Loop
    WatcherThread = WatcherThread
    Stopper = Stopper
    NoHolder = NoHolder
    MaxConfigVersion = 2
    MaxAddrChange = 1
    MaxNetFault = 0
    MaxNetStart = 2
CHECK_DEADLOCK FALSE
SPECIFICATION FairNetSpec
PROPERTY StopEnds
