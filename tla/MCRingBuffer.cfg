CONSTANTS
    BufSize = 4
    Byte <- MCByte
    MaxIO = 5
    MaxTape = 12
SPECIFICATION RingSpec
INVARIANTS RingTypeOK CursorsAgree
PROPERTY ImplementsTape
CHECK_DEADLOCK TRUE
