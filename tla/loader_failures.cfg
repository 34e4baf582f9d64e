CONSTANTS
    DigestLen = 2
    MaxByte = 2
    Boards <- MCBoards
    Keys <- MCKeys
    BufLen <- MCBufLen
    NumFs = 3
    Failures <- MCAllFailures
SPECIFICATION Spec
INVARIANTS
    TypeOK
    KeyPreference
    LaunchJustified
    FaultCauses
    VerdictReleasesBuffers
PROPERTIES
    Terminates
