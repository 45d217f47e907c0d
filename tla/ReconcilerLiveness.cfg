SPECIFICATION FairSpec
CONSTANTS
    h1 = h1
    h2 = h2
    r1 = r1
    r2 = r2
    Handlers <- OneHandler
    Runs <- OneRun
    NoRun = NoRun
    LatePosts = TRUE
    MaxVersion = 1
    MaxReloads = 1
    MaxCrashes = 0
PROPERTIES
    EventuallySynced
    EveryCallReturns
