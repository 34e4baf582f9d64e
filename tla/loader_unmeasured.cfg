CONSTANTS
    DigestLen = 2
    MaxByte = 2
    Boards <- MCBoards
    Keys <- MCKeys
    BufLen <- MCBufLen
    NumFs = 2
    Failures <- MCAllFailures
SPECIFICATION Spec
INVARIANTS
    UnmeasuredNeverLaunched
