SPECIFICATION Spec
CONSTANTS
    Ctxs = {c1, c2, c3}
    Base = c1
    NoCtx = noctx
    Tasks = {t1}
    NoTask = notask
    Proms = {p1}
    Ops = {"wait", "timed"}
    EnvOps = {"post", "set"}
    Fuel = 1
    MaxTime = 1
    Prompt = TRUE
PROPERTY PromiseSetOnce
CHECK_DEADLOCK FALSE
