SPECIFICATION FairSpec
CONSTANTS
    Clients = {c1}
    Server = Server
    Ids = {1, 2}
    Names = {"gateway", "my-pc", "my"}
    Ips = {"10.0.0.1", "10.0.0.10", "10.0.0.2"}
    V6 = "V6"
    Zone <- MCZone
    Hosts <- MCHosts
    Prefixes <- MCPrefixes
    Alnum <- MCAlnum
    Queries <- MCQueries
    Garbage <- MCGarbage
    DNS_TIMEOUT = 5
    DNS_SERVER_TIMEOUT = 2
    MAX_NAME_SERVER = 2
    PurgeTime = 1
    PurgeTicks = 1
    Faults = {"link", "malloc"}
    MaxPackets = 3
    MaxTime = 1
    MaxKills = 1
    MaxHups = 1
    MaxFailures = 1
    Empty = "Empty"
    Digits = "Digits"
    None = None
INVARIANTS TypeOK FreedNotRead UniqueIds HostsPrevail CacheIsTrue
PROPERTIES LeavesAnswered RequestsEnd
\* The proxy may wait in recvfrom for ever.
CHECK_DEADLOCK FALSE
