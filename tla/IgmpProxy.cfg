SPECIFICATION FairSpec
CONSTANTS
    n1 = n1
    n2 = n2
    g1 = g1
    g2 = g2
    None = None
    Downstream = {n1, n2}
    NumUpstream = 2
    Groups = {g1, g2}
    Queries = {1}
    MaxGroups = 2
    MaxMemberships = 1
    GroupInterval = 4
    QueryInterval = 1
    OtherQuerier = 1
    LastMember = 1
    Response = 1
    Loyal <- MCLoyal
    MaxPackets = 3
    MaxFaults = 1
INVARIANT TypeOK
INVARIANT QueriesConserved
INVARIANT ForwardingExact
PROPERTY GroupKept
PROPERTY MemberKept
PROPERTY GroupsEnd
