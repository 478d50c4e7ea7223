SPECIFICATION PagesSpec
CONSTANTS
    Pages = {"ntp"}
    NUM_POLLS = 2
    Hours = {1, 4}
    Summer = {3, 4, 5}
    MaxReads = 1
    MaxPosts = 1
    MaxChanges = 2
    Undefined = Undefined
    Lost = Lost
    Accepted = Accepted
INVARIANTS TimeAsEntered
