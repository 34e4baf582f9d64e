CONSTANTS
    DigestLen = 3
    MaxByte = 255
    ModulusLen = 8
    Overhead = 4
    Modulus <- MCModulus
    PublicBlock <- MCPublicBlock
    PrivateBlock <- MCPrivateBlock
    LineWidth = 4
    Sizes <- MCSizes
    Hashes <- MCHashes
    StartTimes <- MCStartTimes
    MaxTicks = 3
    OtherMessages <- MCOtherMessages
    Endings <- MCEndings
SPECIFICATION Spec
INVARIANTS
    TypeOK
    DumpInBounds
    SealReadable
    TextFillsBlock
    SignedIsAccepted
PROPERTIES
    PaddingEnds
    SecondsAdvance
