SPECIFICATION FairSpec
CONSTANTS
    Uis = {"u1", "u2"}
    Chans = {"#c"}
    Me = "me"
    Others = {"ann", "bob"}
    Present = {"ann"}
    Races = {}
    MaxEvents = 2
INVARIANT UiIsTrue
INVARIANT ShownOnce
INVARIANT NothingLost
PROPERTY UiCatchesUp
CHECK_DEADLOCK FALSE
