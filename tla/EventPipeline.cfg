SPECIFICATION PipelineSpec
CONSTANTS
    Ticks = {t1, t2}
    EventLogs <- MCEventLogs
    PageLimit = 2
    TotalAmount = 3
    Released = 1
    MaxCrashes = 1
    MaxFailures = 0
    Events <- MCEvents
    Subs = {s1}
    SubscribedTo <- MCSubscribedTo
    Workers = {w1}
    Attempts = 2
    MaxStalls = 1
    MaxTroubles = 1
PROPERTIES SuccessStays QueuedIsDecided EventsReachSubscribers
