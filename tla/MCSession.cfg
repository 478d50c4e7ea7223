SPECIFICATION FairSpec
CONSTANTS
    Names <- MCNames
    Secrets <- MCSecrets
    Browsers = {"b1"}
    MaxSaves = 2
    None = None
INVARIANTS
    AdminRemains
    OldTokensRefused
PROPERTIES
    EventuallySignedOut
