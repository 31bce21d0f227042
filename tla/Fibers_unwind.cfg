SPECIFICATION Spec
CONSTANTS
    Ctxs = {c1, c2, c3}
    Base = c1
    NoCtx = noctx
    Tasks = {t1, t2}
    NoTask = notask
    Proms = {p1}
    Ops = {"sleep", "wait"}
    EnvOps = {"post", "quit"}
    Fuel = 1
    MaxTime = 1
    Prompt = TRUE
INVARIANT QuitUnwindsAll
CHECK_DEADLOCK FALSE
