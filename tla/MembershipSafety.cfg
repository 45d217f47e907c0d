SPECIFICATION Spec
CONSTANTS
    ann = ann
    bob = bob
    i1 = i1
    i2 = i2
    req1 = req1
    req2 = req2
    NoId = NoId
    Emails <- TwoPeople
    Ids <- TwoIds
    Handlers <- TwoRequests
    MaxEvents = 2
SYMMETRY Symmetry
INVARIANTS
    OneLiveInvitation
    
    AcceptedMeansJoined
PROPERTIES
    ImplementsSeats
    LinksDieForGood
