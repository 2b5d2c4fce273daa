SPECIFICATION Spec
CONSTANTS
    Xids = {1, 2}
    RequestedIp = 0
    BackupIp = 9
    AbortIfNoLease = FALSE
    Wait = 1
    LastWait = 3
    Pause = 2
    NakSleep = 2
    NoLeaseTime = 7
    Far = 1000
    Word = 1024
    Signals = {}
    MaxSignals = 0
    MaxScript = 1
    MaxTime = 24
    LeaseTimes = {2, 13}
    Packets <- AllPackets
INVARIANT TypeOK
INVARIANT ConfiguredWithinLease
INVARIANT UnboundIsDeconfigured
PROPERTY RenewalsSpaced
CHECK_DEADLOCK FALSE
