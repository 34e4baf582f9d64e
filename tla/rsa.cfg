CONSTANTS
    Base = 16
    DigitBits = 4
    ByteBits = 2
    Keys <- MCKeys
    Inputs <- MCInputs
SPECIFICATION Spec
INVARIANTS
    TypeOK
    PublicUndoesPrivate
PROPERTIES
    ImplementsLongDivision
