CONSTANTS
    Objects = {o1, o2}
    Cells = {c1, c2, c3, c4}
    NULL = NULL
SPECIFICATION FifoSpec
INVARIANTS LinkedAsQueued NothingLeaked
PROPERTY ImplementsQueue
SYMMETRY Symmetry
CHECK_DEADLOCK TRUE
