SPECIFICATION FairSpec
CONSTANTS
    Guilds = {g1, g2}
    Sends = {TRUE}
    Handshakes = {"open"}
    Words = {"heartbeat", "reconnect"}
    MaxFaults = 3
    MaxEvents = 2
INVARIANT EventsInOrder
INVARIANT GuildsAreTrue
PROPERTY HealthyIsKept
PROPERTY EventuallyOnline
