SPECIFICATION FairSpec
CONSTANTS
    Nets <- MCNets
    Address <- MCAddress
    Requests <- MCRequests
    Preemptive = FALSE
    Wrap = 5
    Delay = 2
    MaxEdits = 2
    None = None
INVARIANTS
    RunsCurrent
PROPERTIES
    ManagedSpec
    NeverCutOff
    FallsBack
