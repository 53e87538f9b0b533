CONSTANTS
    BufSize = 9
    Base = 4
    Byte <- MCByte
    Header = 1
    Payloads <- MCShort
    StartValues = {0}
    MaxRead = 5
    MaxSent = 1
    MaxDamaged = 1
    DamagedLengths = {8}
    MaxStray = 0
SPECIFICATION FairSpec
PROPERTY RoomAgain
CHECK_DEADLOCK FALSE
