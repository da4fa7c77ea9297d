CONSTANTS
    Addr = {1}
    Snapshot = {{1}, {}}
    Prefixes = {{1}}
    Report = {r1, r2}
    Associated = FALSE
    Grace = 1
    Outcome = {TRUE, FALSE}
    MaxRev = 3
    MaxCrashes = 1
    Horizon = 2
    Binding = {b1, b2}
    Name = {n1}
    Address = {a1, a2}
    Unset = Unset
    MaxRevision = 2
    MaxAttempt = 2
    MaxRecord = 1
    MaxDNSFault = 1
CHECK_DEADLOCK FALSE
SPECIFICATION DnsSpec
SYMMETRY DnsSymmetry
INVARIANTS
    RevisionNamesSnapshot BindingInv SyncedIsConfirmed StoppedStaysQuiet
