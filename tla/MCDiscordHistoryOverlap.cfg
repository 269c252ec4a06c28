SPECIFICATION Spec
CONSTANTS
    Channels <- MCChannels
    Closed = {"muted"}
    PageSize = 2
    CacheSize = 2
    KeptSize = 4
    HeldSize = 4
    Races = {"overlap"}
    MaxMsg = 4
    MaxPosts <- MCMaxPosts
    MaxFaults = 2
CHECK_DEADLOCK FALSE
INVARIANT LinesArePlaced
