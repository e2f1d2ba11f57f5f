SPECIFICATION Spec
CONSTANTS
    t1 = t1
    t2 = t2
    Threads = {t1}
    Owner = owner
    NoOne = NoOne
    Ops <- AllOps
    Setters <- DialledSetters
    Implemented <- Methods
    MaxConns = 2
    MaxKeySets = 1
INVARIANTS
    DisconnectedReported
