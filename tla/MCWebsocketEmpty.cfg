SPECIFICATION Spec
CONSTANTS
    BufSize = 2
    Chunk = 1
    SendSize = 4
    Capacity = 4
    Short = 1
    Kinds = {"text", "long", "ping", "close", "fragment"}
    MaxFrames = 2
    MaxEvents = 3
INVARIANT NoEmptySend
CHECK_DEADLOCK FALSE
