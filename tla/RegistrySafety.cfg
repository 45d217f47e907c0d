SPECIFICATION Spec
CONSTANTS
    host1 = host1
    host2 = host2
    acme = acme
    blue = blue
    i1 = i1
    i2 = i2
    i3 = i3
    req1 = req1
    req2 = req2
    tick1 = tick1
    tick2 = tick2
    NoId = NoId
    Hosts <- OneHost
    Projects <- TwoProjects
    TxtProjects <- TxtForAcme
    Ids <- TwoIds
    Handlers <- TwoRequests
    Crons <- OneTick
    MaxFaults = 0
SYMMETRY Symmetry
INVARIANTS
    OneActiveOwner
    VerifiedWasProved
    ChallengeMatchesState
PROPERTIES
    ImplementsOwnership
    OnlyResavesUnverify
    OnlyResavesRevive
