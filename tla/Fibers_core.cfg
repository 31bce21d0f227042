SPECIFICATION Spec
CONSTANTS
    Ctxs = {c1, c2, c3, c4}
    Base = c1
    NoCtx = noctx
    Tasks = {t1, t2}
    NoTask = notask
    Proms = {p1, p2}
    Ops = {"wait", "timed", "any", "sleep", "yield", "cancel", "async"}
    EnvOps = {"post", "set", "quit"}
    Fuel = 1
    MaxTime = 2
    Prompt = TRUE
INVARIANTS FiberHasOneHome WaiterIsNotified WaitersCounted CancelHitsItsTask
PROPERTIES SleepNotEarly
CHECK_DEADLOCK FALSE
