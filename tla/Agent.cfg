CONSTANTS
    ShutdownID = {s1}
    ApplyID = {a1}
    BadID = {}
    NoID = NoID
    NoAck = NoAck
    MaxCrash = 1
    UpgradeRequest = {q1, q2}
    UpgradePlan = {p1, p2}
    UpgradeCmd = {k1, k2}
    NoPlan = NoPlan
    NoCmd = NoCmd
    NoKey = NoKey
    IdemKey = {key}
    Versions = {1, 2}
    MaxDeviceFault = 1
    Fields = {e1, e2}
    NoHeader = NoHeader
    MaxRecords = 4
    MaxJournalFault = 2
    MaxOpen = 3
    GHDevice = {x1}
    GHGrant = {g1, g2}
    NoOAuth = NoOAuth
    Blank = Blank
    Poller = {z1, z2}
    NoCode = NoCode
    MaxKeyNo = 2
    MaxGHRequest = 4
    MaxGHFault = 1
    MaxGHStart = 1
SYMMETRY AgentSymmetry
CHECK_DEADLOCK FALSE
SPECIFICATION AgentSpec
INVARIANTS
    ConfirmedIsRecorded RecoveryCoversStarted
    AgentUpgradeInv JournalInv GHInv
PROPERTIES
    CompletedNotRepeated ReportedIsInstalled
