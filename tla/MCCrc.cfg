CONSTANTS
    Bytes <- MCBytes
    MaxLen = 4
SPECIFICATION CrcSpec
INVARIANTS UpdateCrcIsCcitt DamageDetected ImageChecksumIsCrc32
CHECK_DEADLOCK FALSE
