\* Two messages in pieces: buffers of no bytes, with room for 1 after the length, but not for 12.
CONSTANTS
    Messages = 2
    Header = 2
    Capacity = 3
    Bodies <- MCBodies
    MaxTimeouts = 1
    Junk = {0, 2}
    Vectors <- MCVectors
    Rooms = {0, 3}
SPECIFICATION FairSpec
CHECK_DEADLOCK FALSE
INVARIANTS
    TypeOK
    ReceivedAsSent
    StartsAtItem
    SenderOwes
    SeekExact
    LoadedAsSaved
PROPERTIES
    KeepsItems
    AllArrives
