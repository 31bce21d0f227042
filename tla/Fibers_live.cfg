SPECIFICATION FairSpec
CONSTANTS
    Ctxs = {c1, c2, c3}
    Base = c1
    NoCtx = noctx
    Tasks = {t1, t2}
    NoTask = notask
    Proms = {p1}
    Ops = {"wait", "timed", "sleep"}
    EnvOps = {"post", "cancel", "set"}
    Fuel = 1
    MaxTime = 1
    Prompt = TRUE
INVARIANTS CancelIsDelivered
PROPERTIES FibersGoOn
CHECK_DEADLOCK FALSE
