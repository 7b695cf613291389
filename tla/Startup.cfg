SPECIFICATION Spec
CONSTANTS
    Texts <- SomeTexts
    IntOf <- SomeInts
    WordSize = 8
    PortSize = 4
    DevicesMax = 10
    LongNames <- TooLong
    Programs <- AllPrograms
    CommandLines <- SomeLines
    Inis <- SomeInis
INVARIANTS
    TypeOK
    ServesWhatWasMeant
    DevicesResolve
    FileSystemsOwned
    SavesApplied
CHECK_DEADLOCK FALSE
