CONSTANTS
    FF <- MCFF
    Contents <- MCContents
    Images <- MCImages
    MaxBehind = 1
    MaxFailures = 3
    MaxLost = 1
SPECIFICATION ProgramFairSpec
INVARIANTS TypeOK Lockstep NothingMixed CompleteAtChecksum ExitZeroMeansProgrammed StaysInImage
PROPERTY ExitsInTheEnd
CHECK_DEADLOCK FALSE
