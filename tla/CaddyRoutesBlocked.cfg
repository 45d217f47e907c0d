SPECIFICATION Spec
CONSTANTS
    h1 = h1
    h2 = h2
    p1 = p1
    p2 = p2
    m1 = m1
    m2 = m2
    a = a
    b = b
    Nobody = Nobody
    Null = Null
    Preserve = Preserve
    Hosts <- TwoHosts
    Projects <- TwoProjects
    Metas <- TwoMetas
    Names <- SomeNames
    Tables <- BrokenTables
    Upstreams <- SomeUpstreams
    Settings <- SomeSettings
    MaxWrites = 2
    MaxLate = 1
PROPERTY ChangesTakeEffect
