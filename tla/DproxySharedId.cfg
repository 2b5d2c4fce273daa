SPECIFICATION Spec
CONSTANTS
    Clients = {c1, c2}
    Server = Server
    Ids = {1, 2}
    Names = {"gateway", "my-pc", "my"}
    Ips = {"10.0.0.1", "10.0.0.10", "10.0.0.2"}
    V6 = "V6"
    Zone <- MCZone
    Hosts <- MCHosts
    Prefixes <- MCPrefixes
    Alnum <- MCAlnum
    Queries <- MCQueries
    Garbage <- MCGarbage
    DNS_TIMEOUT = 5
    DNS_SERVER_TIMEOUT = 2
    MAX_NAME_SERVER = 2
    PurgeTime = 1
    PurgeTicks = 1
    Faults = {}
    MaxPackets = 4
    MaxTime = 1
    MaxKills = 0
    MaxHups = 0
    MaxFailures = 0
    Empty = "Empty"
    Digits = "Digits"
    None = None
INVARIANTS AnswersItsQuestion

