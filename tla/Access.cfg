CONSTANTS
    User = {u1, u2}
    SessionToken = {s1}
    Client = {c1, c2}
    NoSession = NoSession
    NoUser = NoUser
    MaxFailures = 1
    MaxVersion = 2
    MaxAuthFault = 1
    MaxAuthRestart = 2
    Device = {d1, d2}
    Person = {alice, bob}
    InstanceOwner = {alice}
    Viewer = {}
    Level = {"manage"}
    Fingerprint = {h1}
    Request = {r1, r2}
    NoDevice = NoDevice
    NoFingerprint = NoFingerprint
    NoGrant = NoGrant
    Nobody = Nobody
    MaxUses = 1
    MaxClaim = 2
    MaxArrival = 2
    MaxCommitFault = 1
    MaxStart = 2
CHECK_DEADLOCK FALSE
SYMMETRY RequestSymmetry
SPECIFICATION AccessSpec
INVARIANTS
    AccountsInv GuessesBounded RegistryInv ClaimsWithinUses
