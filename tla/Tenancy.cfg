SPECIFICATION Spec
CONSTANTS
    u1 = u1
    u2 = u2
    p1 = p1
    p2 = p2
    s1 = s1
    s2 = s2
    x = x
    y = y
    a = a
    b = b
    t1 = t1
    c1 = c1
    c2 = c2
    k1 = k1
    NoProject = NoProject
    NoSlug = NoSlug
    NoToken = NoToken
    Users <- TwoUsers
    Projects <- TwoProjects
    Slugs <- TwoSlugs
    Columns <- TwoColumns
    Values <- TwoValues
    Tokens <- OneToken
    Calls <- TwoCalls
    Services <- OneService
    Tables <- SomeTables
    MaxCalls = 2
SYMMETRY Alike
INVARIANTS
    ToldDone
    OrphansWereCutShort
    OneSlugOneProject
    NoneAfterRevoke
PROPERTIES
    RevokedForGood
    OwnTenantOnly
    OnlyStaleSavesUndo
CHECK_DEADLOCK FALSE
