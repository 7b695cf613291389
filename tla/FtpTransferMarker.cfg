SPECIFICATION Spec
CONSTANTS
    Bytes = {0, 1}
    Zero = 0
    MaxIo = 2
    MaxSize = 3
INVARIANT
    MarkerIsOffset
