SPECIFICATION Spec
CONSTANTS
    Xids = {1, 2}
    RequestedIp = 0
    BackupIp = 0
    AbortIfNoLease = FALSE
    Wait = 2
    LastWait = 10
    Pause = 5
    NakSleep = 3
    NoLeaseTime = 4
    Far = 1000
    Word = 1024
    Signals = {"USR2"}
    MaxSignals = 1
    MaxScript = 1
    MaxTime = 20
    LeaseTimes = {8}
    Packets <- AllPackets
INVARIANT ReleaseIsInactive
CHECK_DEADLOCK FALSE
