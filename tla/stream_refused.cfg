SPECIFICATION Spec
CONSTANTS
    c1 = c1
    c2 = c2
    a1 = a1
    a2 = a2
    k1 = k1
    k2 = k2
    v1 = v1
    v2 = v2
    Keys = {k1, k2}
    Values = {v1, v2}
    FullKeys <- FullKeyK1
    Clients = {c1, c2}
    ApiKeys = {a1}
    ApiKeyOf <- OneKey
    HasPubKey <- NoPubKey
    Calls <- ExampleCalls
    ForeignWrites <- PlainWrites
    ServerDbs = {"none"}
    Garbled <- MCGarbled
    MaxTx = 3
    MaxFaults = 0
    MaxRestores = 0
    MaxRetries = 0
    NoClient = NoClient
    NoState = NoState
    NoAnswer = NoAnswer
    None = None
INVARIANTS
    HonestNeverRefused
