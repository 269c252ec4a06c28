SPECIFICATION FairSpec
CONSTANTS
    Channels <- MCChannels
    Closed = {"muted"}
    PageSize = 2
    CacheSize = 2
    KeptSize = 4
    HeldSize = 4
    Races = {}
    MaxMsg = 4
    MaxPosts <- MCMaxPosts
    MaxFaults = 2
INVARIANT LinesArePlaced
INVARIANT InOrder
INVARIANT HolesAreTold
PROPERTY LoadingEnds
CHECK_DEADLOCK FALSE
