SPECIFICATION FairSpec
CONSTANTS
    Settings <- MCSettings
    NoSsid = "none"
    Wrap = 4
    Delay = 2
    MaxEdits = 2
    MaxQueue = 2
INVARIANTS
    StationWatched
PROPERTIES
    ManagedSpec
    EventuallyJoined
