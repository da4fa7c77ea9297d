CONSTANTS
    UpgradeOp = {o1, o2}
    Administrator = {ann}
    Direct = Direct
    NoOwner = NoOwner
    MaxRelease = 3
    Broken = {3}
    MaxUpgradeFault = 1
    MaxBoot = 2
    File = {f1}
    Link = {l1}
    Upload = {w1, w2}
    FileToken = {t1, t2}
    NoLink = NoLink
    NoCredential = NoCredential
    Quota = 2
    TokenLimit = 1
    MaxAccountVersion = 2
    MaxShareFault = 1
    MaxShareStart = 2
    HostRecord = {n1}
    HostAddr = {1, 2}
    NoAddress = NoAddress
    Admin = {adm1, adm2}
    Loop = Loop
    WatcherThread = WatcherThread
    Stopper = Stopper
    NoHolder = NoHolder
    MaxConfigVersion = 3
    MaxAddrChange = 1
    MaxNetFault = 1
    MaxNetStart = 2
SYMMETRY AdminSymmetry
CHECK_DEADLOCK FALSE
SPECIFICATION ServerSpec
INVARIANTS
    OperationInv ShareInv RevokedCommitsNothing NetInv
PROPERTIES
    OutcomesStay WritesInOrder StoredUntilDeleted
