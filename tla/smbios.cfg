CONSTANTS
    Tables <- MCTables
    TypeLists <- MCTypeLists
    Processor = 4
    MemoryDevice = 17
    ClockEnd = 3
    CpuIdSize = 1
SPECIFICATION Spec
INVARIANTS
    TypeOK
    Measurement
    SizesAgree
    NullHasACause
    FaultCauses
PROPERTIES
    Terminates
