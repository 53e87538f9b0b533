CONSTANTS
    Headers <- MCHeaders
    ProgramIds = {0, 1}
    Data = {1, 2}
    Queues <- MCQueues
SPECIFICATION FairSpec
INVARIANTS TypeOK AnswerInOrder AnsweredOnce NumberedConsecutively AcksFrameInHand
PROPERTY EventuallyAnswered
CHECK_DEADLOCK TRUE
