SPECIFICATION Spec
CONSTANTS
    FeatureSets <- MCFeatureSets
    Addresses <- MCAddresses
    MaxSignIns = 2
    MaxRefreshes = 1
    None = None
INVARIANTS NotRefused GoalReached
PROPERTIES NavigationSettles
