SPECIFICATION Spec
CONSTANTS
    p1 = p1
    p2 = p2
    w = w
    t1 = t1
    t2 = t2
    t3 = t3
    i1 = i1
    quit = quit
    none = none
    Worker = w
    QuitTask = quit
    NoTask = none
    Posters <- MCPosters2
    Tasks <- MCTasks2
    IdleTasks <- MCNoIdle
    MaxTime = 1
    AllowQuit = TRUE
INVARIANT QuitCancelsAllPending
CHECK_DEADLOCK FALSE
