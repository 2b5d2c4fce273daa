SPECIFICATION Spec
CONSTANTS
    c1 = c1
    c2 = c2
    j1 = j1
    Blank = Blank
    MaxLeases = 3
    Start = 256
    End = 258
    InfLease = 50
    SendOutcomes = {TRUE}
    Lease = 1
    OfferTime = 0
    MinLease = 1
    ConflictTime = 1
    DeclineTime = 1
    AutoTime = 1
    Remaining = TRUE
    MaxTime = 2
    MaxSignals = 0
    MaxRestarts = 1
    Chaddr <- MCChaddr
    Junk <- MCJunk
    Packets <- FileNamedPackets
    ArpAnswers <- ArpStranger
    TornLines <- NoTornLine
    JunkMac <- JunkIsStranger
PROPERTY ReloadComplete
