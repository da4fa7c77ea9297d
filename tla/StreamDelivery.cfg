CONSTANTS
    Device = {d1}
    CommandID = {k1}
    Conn = {c1, c2}
    NoID = NoID
    NoConn = NoConn
    NoEvent = NoEvent
    ChanCap = 1
    HistorySize = 2
    MaxPublish = 3
SYMMETRY Symmetry
SPECIFICATION Spec
INVARIANTS SubscribersOpen NoOrphan ResumeMissesNothing
