SPECIFICATION Spec
CONSTANTS
    cron = cron
    request = request
    d1 = d1
    d2 = d2
    s1 = s1
    NoSecret = NoSecret
    Probers <- TwoProbers
    Requests <- OneRequest
    Deliveries <- TwoDeliveries
    Secrets <- OneSecret
    N = 3
    retries <- Delays
    tolerance = 1
INVARIANT
    LastAttemptIsFutile
PROPERTIES
    ToldOfCommitted
    VerifiedOnceEach
    EveryDeliverySettles
