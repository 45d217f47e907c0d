\* Two handlers, the cron and the boot hook against one Caddyfile reload and
\* two crashes, a write per table, POSTs that arrive late: the coalescing and
\* the overlap of runs.
SPECIFICATION Spec
CONSTANTS
    h1 = h1
    h2 = h2
    r1 = r1
    r2 = r2
    Handlers <- TwoHandlers
    Runs <- TwoRuns
    NoRun = NoRun
    LatePosts = TRUE
    MaxVersion = 1
    MaxReloads = 1
    MaxCrashes = 2
SYMMETRY Symmetry
INVARIANTS
    SingleFlight
    NobodyStranded
    StarterServed
PROPERTIES
    ImplementsRouteSync
    CaddyfileStays
