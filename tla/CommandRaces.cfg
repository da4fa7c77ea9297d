CONSTANTS
    ID = {i1}
    Device = {d1}
    Kind = {"upgrade"}
    Key = {k1}
    NoKey = NoKey
    Digest = {g1}
    Result = {r1}
    Converged = r1
    NoAck = NoAck
    AcceptTimeout = 1
    FinishTimeout = 1
    RetainMax = 1
    RetainAge = 0
    SweepLimit = 1
    Client = {c1, c2}
    Sweeper = {s1}
    NoCall = NoCall
    Progress = {1}
    MaxRev = 4
    Horizon = 3
SYMMETRY Symmetry
SPECIFICATION Spec
INVARIANTS CommandInv
PROPERTIES ClosedForGood NoEarlyTimeout ImplementsLifecycle
