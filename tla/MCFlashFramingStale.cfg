CONSTANTS
    BufSize = 13
    Base = 3
    Byte <- MCByte
    Header = 2
    UpdateCrc <- MCCrcAny
    Payloads <- MCPayloads
    MaxRead = 4
    MaxSent = 3
    MaxDamaged = 0
SPECIFICATION Spec
INVARIANT WholePacketsProcessed
CHECK_DEADLOCK FALSE
