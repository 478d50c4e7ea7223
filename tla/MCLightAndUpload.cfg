SPECIFICATION MCSpec
CONSTANTS
    c1 = c1
    c2 = c2
    p1 = p1
    p2 = p2
    Clients <- MCClients
    Paths <- MCPaths
    CleanSession = FALSE
    MaxEdits = 2
    MaxRestarts = 1
    Nothing = Nothing
    Requests <- MCRequests
    Chunks = 2
    ESP32 = TRUE
    Overlapping = FALSE
    MaxRequests = 4
    None = None
INVARIANTS
    SubscriptionCurrent
    ReportCurrent
    WatchersCurrent
    EndsWhenHungUp
    ReportedIsInstalled
PROPERTIES
    EventuallyShown
    EventuallyReported
    EventuallyRuns
