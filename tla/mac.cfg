CONSTANTS
    a1 = a1
    a2 = a2
    Address <- MCAddress
    NoAddress = NoAddress
    Garbage = Garbage
    MaxHandles = 3
SPECIFICATION Spec
INVARIANTS
    TypeOK
    MacResult
    ShortByOne
PROPERTIES
    Terminates
