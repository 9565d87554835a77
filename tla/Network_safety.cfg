SPECIFICATION Spec
CONSTANTS
    Neighbours = {gw, h1, h2}
    Remotes = {r}
    Gateway = gw
    Destinations = {h1, r}
    Macs = {m1, m2}
    kCacheSize = 2
    kMaxFramesPerPoll = 1
    TicksPerSecond = 1
    MaxPings = 2
    MaxDatagrams = 2
INVARIANTS WaitingSound CacheIsCurrent ReplyIsForThisPing
PROPERTIES NotOverwritten
SYMMETRY MacSymmetry
