SPECIFICATION Spec
CONSTANTS
    Xids = {1}
    RequestedIp = 0
    BackupIp = 0
    AbortIfNoLease = TRUE
    Wait = 1
    LastWait = 2
    Pause = 5
    NakSleep = 1
    NoLeaseTime = 4
    Far = 1000
    Word = 1024
    Signals = {"USR1", "USR2", "TERM"}
    MaxSignals = 2
    MaxScript = 1
    MaxTime = 12
    LeaseTimes = {4}
    Packets <- AllPackets
INVARIANT ListenMatchesState
CHECK_DEADLOCK FALSE
