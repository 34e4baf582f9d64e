CONSTANTS
    Argvs <- MCArgvs
    Words <- MCWords
    IndexMod = 5
    Failures <- MCAllFailures
SPECIFICATION Spec
INVARIANTS
    TypeOK
    OptionsRead
    FilesComplete
    FaultCauses
PROPERTIES
    Terminates
