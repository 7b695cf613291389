SPECIFICATION BothSpec
CONSTANTS
    Bytes = {0, 1}
    Zero = 0
    MaxIo = 2
    MaxSize = 3
    Buffered = TRUE
    BufSize = 2
    Chunk = 2
INVARIANTS
    TypeOK
    DownloadExact
    OffsetIsPosition
PROPERTIES
    DownloadComplete
    UploadExact
    UploadStored
