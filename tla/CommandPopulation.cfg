CONSTANTS
    ID = {i1, i2}
    Device = {d1}
    Kind = {"upgrade", "shutdown"}
    Key = {k1}
    NoKey = NoKey
    Digest = {g1}
    Result = {r1}
    Converged = r1
    NoAck = NoAck
    AcceptTimeout = 1
    FinishTimeout = 1
    RetainMax = 1
    RetainAge = 0
    SweepLimit = 1
    Client = {c1}
    Sweeper = {s1}
    NoCall = NoCall
    Progress = {}
    MaxRev = 3
    Horizon = 2
SPECIFICATION FairSpec
INVARIANTS SlotExclusive KeyNamesOne
PROPERTIES ForgetsOnlyTheOld OverdueIsResolved
