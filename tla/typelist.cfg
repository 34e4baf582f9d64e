CONSTANTS
    Tokens <- MCTokens
    Decimal <- MCDecimal
    MaxArgs = 5
SPECIFICATION Spec
INVARIANTS
    TypeOK
    ListIsOperands
    OverrunCause
    IndicesOrdered
PROPERTIES
    Terminates
