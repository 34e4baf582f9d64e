CONSTANTS
    Tokens <- MCTokens
    Decimal <- MCDecimal
    MaxArgs = 3
SPECIFICATION Spec
INVARIANTS
    MissingOperandRejected
