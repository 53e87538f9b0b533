CONSTANTS
    Headers = {}
    ProgramIds = {}
    Data <- Requests
    Queues <- MCQueues
    MaxIndications = 3
    MaxResent = 2
SPECIFICATION AppFairSpec
INVARIANTS RegistersStarted StartsOnce
PROPERTIES RegistersInTheEnd AllAnswered
CHECK_DEADLOCK FALSE
