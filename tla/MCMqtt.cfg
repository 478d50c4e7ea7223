SPECIFICATION FairSpec
CONSTANTS
    Settings <- MCSettings
    Enabled <- MCEnabled
    Preemptive = FALSE
    Wrap = 5
    Delay = 2
    Start = 1
    MaxEdits = 2
    MaxEvents = 2
INVARIANTS
    RetryScheduled
    ConnectionCurrent
PROPERTIES
    ManagedSpec
    EventuallyConnected
    EventuallyDisconnected
