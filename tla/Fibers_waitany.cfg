SPECIFICATION FairSpec
CONSTANTS
    Ctxs = {c1, c2, c3}
    Base = c1
    NoCtx = noctx
    Tasks = {t1}
    NoTask = notask
    Proms = {p1, p2}
    Ops = {"any"}
    EnvOps = {"post", "set"}
    Fuel = 1
    MaxTime = 1
    Prompt = TRUE
PROPERTY WaitAnyEnds
CHECK_DEADLOCK FALSE
