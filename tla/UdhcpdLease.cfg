SPECIFICATION Spec
CONSTANTS
    c1 = c1
    c2 = c2
    j1 = j1
    Blank = Blank
    MaxLeases = 2
    Start = 256
    End = 258
    InfLease = 3
    SendOutcomes = {TRUE, FALSE}
    Lease = 2
    OfferTime = 1
    MinLease = 1
    ConflictTime = 2
    DeclineTime = 2
    AutoTime = 0
    Remaining = TRUE
    MaxTime = 4
    MaxSignals = 0
    MaxRestarts = 0
    Chaddr <- MCChaddr
    Junk <- MCJunk
    Packets <- NamedPackets
    ArpAnswers <- ArpHosts
    TornLines <- NoTornLine
    JunkMac <- JunkIsStranger
INVARIANT TypeOK
INVARIANT GrantHonoured
INVARIANT NoDoubleGrant
INVARIANT OfferNotGranted
INVARIANT ReplyReserved
PROPERTY DeclinedStaysReserved
