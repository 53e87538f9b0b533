CONSTANTS
    OutcountValues = {0, 1}
    MaxChatter = 3
    MaxDamaged = 1
SPECIFICATION FairSpec
INVARIANTS NothingLost NothingUnexpected NotAhead
PROPERTY ComesUp
CHECK_DEADLOCK FALSE
