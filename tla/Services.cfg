SPECIFICATION ServicesSpec
CONSTANTS
    o1 = o1  o2 = o2  t1 = t1  t2 = t2  t3 = t3  t4 = t4
    p1 = p1  p2 = p2  nobody = nobody  c1 = c1  c2 = c2
    Operations <- MCOperations
    Lengths = {1, 4}
    Limits = {0, 4}
    Burst = 1
    TicksPerSecond = 2
    Word = 64
    MaxChanges = 1
    Lockers <- MCLockers
    Processes <- MCProcesses
    Home <- MCHome
    Nobody = nobody
    Size = 2
    MaxBytes = 4
    MaxAsked = 3
    Peers <- MCPeers
    AsioThreads = 2
    Backlog = 1
    MaxMessages = 2
    MaxReceived = 2
INVARIANTS FileMutexExcludes RatesAreShared InputIsIntact WebsocketIsGuarded
PROPERTIES ServicesGoOn
CHECK_DEADLOCK FALSE
