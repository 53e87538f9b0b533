CONSTANTS
    Headers = {}
    ProgramIds = {}
    Data <- Requests
    Queues <- MCQueues
    MaxRestarts = 2
    MaxOther = 1
    MaxResent = 2
SPECIFICATION NvsFairSpec
INVARIANTS ExitsSettled Lockstep PacketsAreInformation AnsweredOnce
PROPERTY ExitsInTheEnd
CHECK_DEADLOCK FALSE
