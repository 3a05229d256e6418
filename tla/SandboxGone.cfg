SPECIFICATION Spec
CONSTANTS
    Req = {r1, r2}
    LoopId = {d1, d2}
    Pid = {p1, p2}
    None = None
    PoolSize = 4
    FdLimit = 12
INVARIANTS SandboxGoneWithGuard
