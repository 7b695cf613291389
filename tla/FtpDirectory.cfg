SPECIFICATION Spec
CONSTANTS
    Words = {"d:"}
    DeviceWords = {"d:"}
    HasDevices = TRUE
    MaxPath = 4
    MaxTyped = 2
    Entries <- AllEntries
    MaxEntries = 2
    Devices <- TwoDevices
    ListBuf = 2
INVARIANTS
    TypeOK
    PathsResolve
    ListingExact
    HasNext
PROPERTIES
    RenamesNamed
    ListingComplete
