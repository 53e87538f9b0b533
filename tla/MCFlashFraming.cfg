CONSTANTS
    BufSize = 13
    Base = 3
    Byte <- MCByte
    Header = 2
    UpdateCrc <- MCCrcBelowHeader
    Payloads <- MCPayloads
    MaxRead = 4
    MaxSent = 3
    MaxDamaged = 1
SPECIFICATION FairSpec
INVARIANT WholePacketsProcessed
PROPERTY ImplementsChannel
CHECK_DEADLOCK FALSE
