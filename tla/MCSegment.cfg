CONSTANTS
    Clients = {1, 2}
    Scenarios <- MCScenarios
    SockBuf = 2
    Stray = 99
    MAX_SIZE = 2
    Wrap = 8
    Signed = 4
    MaxChannels = 2
SPECIFICATION Spec
CHECK_DEADLOCK FALSE
INVARIANTS
    WrittenIsServed
    AnswersInOrder
    RelaySafe
    ServerSurvives
    ThreadsAccounted
PROPERTIES
    DownloadsEnd
    SlotsReturned
