SPECIFICATION PagesSpec
CONSTANTS
    Pages <- MCPages
    NUM_POLLS = 3
    Hours = {1}
    Summer = {}
    MaxReads = 1
    MaxPosts = 1
    MaxChanges = 2
    Undefined = Undefined
    Lost = Lost
    Accepted = Accepted
INVARIANTS RowsAgree ResetIsWhole SyncFollows ListIsCurrent OneScan
PROPERTIES PagesSettle
