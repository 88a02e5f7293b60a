CONSTANTS
    MaxCaptures = 3
    Described = {1, 3}
    Want = 2
    FeedCapacity = 1
    ListLimit = 2
SPECIFICATION WatchSpec
INVARIANT CountIsMet
CHECK_DEADLOCK FALSE
