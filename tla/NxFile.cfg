SPECIFICATION BothSpec
CONSTANTS
    Bytes = {0, 1}
    Zero = 0
    Buffered = TRUE
    BufSize = 3
    Chunk = 3
    MaxIo = 2
    MaxSize = 6
    CloseLoses = FALSE
INVARIANT TypeOK
PROPERTY ImplementsVfs
