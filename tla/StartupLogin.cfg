SPECIFICATION Spec
CONSTANTS
    Texts <- SomeTexts
    IntOf <- SomeInts
    WordSize = 8
    PortSize = 4
    DevicesMax = 10
    LongNames <- TooLong
    Programs <- AllPrograms
    CommandLines <- SomeLines
    Inis <- SomeInis
INVARIANT
    LoginPossible
CHECK_DEADLOCK FALSE
