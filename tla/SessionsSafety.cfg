SPECIFICATION Spec
CONSTANTS
    s1 = s1
    req1 = req1
    req2 = req2
    req3 = req3
    NoToken = NoToken
    Tokens <- OneToken
    Handlers <- ThreeRequests
    TTL = 6
    KeepRevoked = 2
    Latency = 2
    MaxTime = 12
    MaxFaults = 1
SYMMETRY Symmetry
INVARIANTS
    SlidingWindow
    UnusedDies
PROPERTY
    DeadForGood
