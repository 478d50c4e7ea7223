SPECIFICATION FairSpec
CONSTANTS
    net = net
    loop = loop
    c1 = c1
    c2 = c2
    Missing = Missing
    Partial = Partial
    Values <- MCValues
    Blank = "blank"
    Docs <- MCDocs
    EmptyDoc <- MCEmptyDoc
    Rejected <- MCRejected
    Document <- MCDocument
    Updated <- MCUpdated
    Flash <- MCFlash
    Compares = FALSE
    Clients = {c1, c2}
    Tasks = {net, loop}
    Main = loop
    Net = net
    Updaters = {net}
    AtomicFS = FALSE
INVARIANTS
    NoLostSave
    NoLostApply
PROPERTIES
    DurableSpec
    EventuallySaved
