SPECIFICATION FairSpec
CONSTANTS
    c1 = c1
    c2 = c2
    j1 = j1
    Blank = Blank
    MaxLeases = 2
    Start = 256
    End = 258
    InfLease = 50
    SendOutcomes = {TRUE}
    Lease = 1
    OfferTime = 1
    MinLease = 1
    ConflictTime = 1
    DeclineTime = 1
    AutoTime = 1
    Remaining = TRUE
    MaxTime = 2
    MaxSignals = 1
    MaxRestarts = 1
    Chaddr <- MCChaddr
    Junk <- MCJunk
    Packets <- FewUnnamedPackets
    ArpAnswers <- ArpHostsAndErrors
    TornLines <- TornLine
    JunkMac <- JunkIsClient
INVARIANT HeldAddressesDistinct
INVARIANT GrantHonoured
PROPERTY ServiceEnds
PROPERTY SearchAdvances
