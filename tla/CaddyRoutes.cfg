SPECIFICATION Spec
CONSTANTS
    h1 = h1
    h2 = h2
    p1 = p1
    p2 = p2
    m1 = m1
    m2 = m2
    a = a
    b = b
    Nobody = Nobody
    Null = Null
    Preserve = Preserve
    Hosts <- TwoHosts
    Projects <- TwoProjects
    Metas <- TwoMetas
    Names <- SomeNames
    Tables <- ServingTables
    Upstreams <- SomeUpstreams
    Settings <- SomeSettings
    MaxWrites = 3
    MaxLate = 1
INVARIANTS
    OnlyTheOwner
    BehindOnlyByWrites
PROPERTIES
    EdgeCatchesUp
