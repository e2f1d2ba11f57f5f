SPECIFICATION FairSpec
CONSTANTS
    t1 = t1
    t2 = t2
    Threads = {t1, t2}
    Owner = owner
    NoOne = NoOne
    Ops <- SomeOps
    Setters <- AllSetters
    Implemented <- Methods
    MaxConns = 2
    MaxKeySets = 1
INVARIANTS
    TypeOK
    ResultTruthful
    AdoptedChecked
    EveryAttemptKeyed
    LockGivenBack
PROPERTIES
    CallsReturn
