SPECIFICATION LightSpec
CONSTANTS
    c1 = c1
    c2 = c2
    p1 = p1
    Clients <- MCClients
    Paths <- MCPaths
    CleanSession = TRUE
    MaxEdits = 4
    MaxRestarts = 0
    Nothing = Nothing
SYMMETRY MCSymmetry
INVARIANTS
    SwitchesCurrent
