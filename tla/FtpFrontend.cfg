SPECIFICATION FairSpec
CONSTANTS
    Lines = 2
    TextLen = 2
    RecvMax = 6
    Ports <- AllPorts
    LogBuf = 2
INVARIANTS
    TypeOK
    LinesExecuted
    MessagesKept
    LeavesAlone
PROPERTIES
    Leaves
    Recovers
