SPECIFICATION FairDnsSpec
CONSTANTS
    Neighbours = {gw, ns}
    Remotes = {r}
    Gateway = gw
    Destinations = {r}
    Macs = {m}
    kCacheSize = 1
    kMaxFramesPerPoll = 1
    TicksPerSecond = 1
    MaxPings = 1
    MaxDatagrams = 0
    n1 = n1
    n2 = n2
    n3 = n3
    Hostnames <- MCHostnames
    Aliases <- MCAliases
    Asked = {n1}
    MaxRecords = 2
    Servers = {ns}
    DefaultServer = ns
    Failures = {"MalformedResponse"}
    kVisitedNames = 2
    MaxCommands = 2
INVARIANTS AnswerIsForThisLookup TwoAttempts
PROPERTIES OnlyCardRefuses LookupEnds PingIsReported
