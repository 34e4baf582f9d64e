CONSTANTS
    DigestLen = 3
    MaxByte = 5
    Boards <- MCBoards
    Keys <- MCKeys
    BufLen = 2
    NumFs = 1
    Failures <- MCNoFailures
    Processor = 4
    MemoryDevice = 17
    CpuIdSize = 1
    Machines <- MCMachines
    Garbage <- MCGarbage
    DefaultList <- MCDefaultList
    Lists <- MCLists
    Sha <- MCSha
    KeySize = 2
    Strays <- MCStrays
    Junk <- MCJunk
    MaxBoots = 3
SPECIFICATION SystemSpec
INVARIANTS
    SealedBefore
    SealedPartsMatch
PROPERTIES
    OwnBoardBoots
    ImplementsRestartingBoot
