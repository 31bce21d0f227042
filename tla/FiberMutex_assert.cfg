SPECIFICATION Spec
CONSTANTS
    f1 = f1  f2 = f2  f3 = f3
    h1 = h1  h2 = h2  none = none
    Fibers <- MCFibers
    Threads <- MCThreads
    Home <- MCHome
    NoFiber = none
    MaxDepth = 2
    Wrap = 4
    MaxCancels = 1
INVARIANT UnlockOfLocked
CHECK_DEADLOCK FALSE
