SPECIFICATION SafetySpec
CONSTANTS
    f1 = f1  f2 = f2  f3 = f3  h1 = h1  h2 = h2  none = none
    a1 = a1  a2 = a2  b1 = b1  m1 = m1  m2 = m2  k1 = k1  k2 = k2  empty = empty  moved = moved
    s1 = s1  s2 = s2  s3 = s3  q1 = q1  q2 = q2  q3 = q3  nil = nil  c1 = c1  c2 = c2
    Fibers <- MCFibers
    Threads <- MCThreads
    Home <- MCHome
    NoFiber = none
    MaxDepth = 2
    Wrap = 4
    MaxCancels = 1
    Offsets <- MCOffsets
    Interval = 2
    Retry = 1
    Stale = 2
    Day = 3
    MaxTime = 3
    MaxPackets = 1
    MaxErrors = 1
    RotationInterval = 2
    RotationLimit = 4
    Lateness = 1
    MaxClock = 6
    MaxLines = 2
    MaxBack = 1
    MaxRestarts = 1
    MaxFailures = 1
    Addresses <- MCAddresses
    Null = nil
    MaxObjects = 4
    Deep = 4
    MaxRecursion = 8
    Large = 9
    Word = 64
    Documents <- MCDocuments
    Texts <- MCTexts
    Group = 4
    UnsignedWord = 16
    MaxGroups = 2
    MaxAlloc = 17
    MaxNesting = 8
    Objects = {a1, a2}
    Builders = {b1}
    Mutables = {m1, m2}
    Keys = {k1, k2}
    Values = {empty}
    NoValue = empty
    Moved = moved
    MaxEntries = 2
    Callers = {s1, s2, s3}
    ThreadOf <- MCThreadOf
    Yielding = TRUE
    Pointers = {q1, q2, q3}
    Places = {1, 2}
    Nothing = nil
    Filters = {c1, c2}
    Items = {1, 2, 3}
    BitsPerChar = 2
    Seeds = {0, 1}
    Hash <- MCHash
    Hashes = 2
    Estimates = {3, 5}
    Limits <- MCLimits
    Uint64 = 128
    PowerOfTen = 100
    Zeroes = 2
    Precision = 10
    o1 = o1  o2 = o2  d1 = d1  d2 = d2
    Holders = {o1, o2}
    Cells = {1, 2, 3, 4, 5}
    Contents = {1, 2}
    Nowhere = nil
    Optionals = {o1, o2}
    StaticVariants = {d1, d2}
    Types = {"A", "B"}
    TheType = "A"
    Length = 5
    MinimumRead = 2
    MaxLen = 3
    WriteSize = 2
    MayFail = TRUE
    Book <- MCBook
    MaxVerbatim = 3
    Requests = {q1, q2, q3}
    Reads = {q1, q2}
    SharedBuffers = {q1, q3}
    NoRequest = nil
    Registered = {"timeout"}
    Unregistered = {"sigint"}
    Stacks = {s1, s2}
    MaxLog = 2
    NoException = nil
    Names = {10, 11, 20}
    Folded <- MCFolded
    Payloads <- MCPayloads
    Small = 1
    Alignment = 2
    ScanLimit = 12
    SourceName = 20
    SourceData <- MCSourceData
    MaxFiles = 3
    MaxFaults = 1
INVARIANTS MutualExclusion HandoverComing SlOneOwner NtpKeepsTime SocketsServe ExceptionsArrive
INVARIANTS StorageIsTrue FiltersAreSound ReferencesAreRight AlgorithmsAreRight
PROPERTIES IsDictionary OwnersAreDistinct WrittenIsKept
CHECK_DEADLOCK FALSE
