SPECIFICATION FairSpec
CONSTANTS
    BufSize = 2
    Chunk = 1
    SendSize = 4
    Capacity = 4
    Short = 1
    Kinds = {"text", "long", "ping", "close", "fragment"}
    MaxFrames = 2
    MaxEvents = 5
INVARIANT MessagesInOrder
INVARIANT SocketbufIsSound
PROPERTY EverythingArrives
CHECK_DEADLOCK FALSE
