CONSTANTS
    BufSize = 9
    Base = 2
    Byte <- MCByte
    Header = 1
    Payloads <- MCPayloads
    StartValues = {0}
    MaxRead = 3
    MaxSent = 3
    MaxDamaged = 1
    DamagedLengths = {}
    MaxStray = 1
SPECIFICATION FairSpec
INVARIANTS WholePacketsProcessed RoomForRead
PROPERTY ImplementsChannel
CHECK_DEADLOCK FALSE
