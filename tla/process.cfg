SPECIFICATION ProcessSpec
CONSTANTS
    Serials = {s1, s2, s3, s4}
    Pool <- MCPool
    HostPort = 8888
    Host = Host
    NoDevice = NoDevice
    Starts = {g1, g2}
    Stops = {c1, c2}
    Bases = {8888, 9000}
    Spares = {8891}
    Foreign = {}
    NoEngine = NoEngine
    Procs = {p1, p2}
    Guests = {g1}
    NoOne = NoOne
    RequestIds = {"1"}
    BusCapacity = 1
    WriteQueue = 1
    MaxEvents = 3
    MaxSubs = 1
    Shells = {s1}
    MaxTasks = 2
    MaxReconnects = 2
    MaxDry = 0
INVARIANTS
    AttributionSound
    NoOrphanEngine
    RunningIsListed
PROPERTIES
    StoppedFreesPorts
    StreamsEnd
    InstancesCoexist
    NothingLostSilently
    DrainEnds
CHECK_DEADLOCK FALSE
