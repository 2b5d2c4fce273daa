SPECIFICATION Spec
CONSTANTS
    n1 = n1
    n2 = n2
    g1 = g1
    g2 = g2
    None = None
    Downstream = {n1, n2}
    NumUpstream = 1
    Groups = {g1}
    Queries = {1}
    MaxGroups = 3
    MaxMemberships = 1
    GroupInterval = 4
    QueryInterval = 1
    OtherQuerier = 1
    LastMember = 1
    Response = 1
    Loyal <- MCNobody
    MaxPackets = 2
    MaxFaults = 0
INVARIANT UpstreamFollows
