SPECIFICATION Spec
CONSTANTS
    Lines = 1
    TextLen = 1
    RecvMax = 3
    Ports <- Switch
    LogBuf = 2
INVARIANTS
    LogOutput
