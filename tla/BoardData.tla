----------------------------- MODULE BoardData ------------------------------
(***************************************************************************)
(* What a board's data are, said without the loops that collect them: the  *)
(* structures of the listed SMBIOS types in list order and then in table   *)
(* order, without their clocks, and the processor id behind them.          *)
(* SmbiosData shows that the loops arrive at this; System builds on it.    *)
(***************************************************************************)
EXTENDS Loops

CONSTANTS
    Processor,    \* SMBIOS_TYPE_PROCESSOR_INFORMATION
    MemoryDevice, \* SMBIOS_TYPE_MEMORY_DEVICE
    CpuIdSize     \* sizeof (PROCESSOR_ID_DATA), 8

\* A structure: its type, the contents besides the clocks, the clock fields, the
\* bytes it takes with its strings, and whether one of its strings is mMaxLen
\* bytes long or longer.
Structure == [type : Nat, id : Nat \ {0}, clock : Nat, bytes : Nat \ {0},
              overlong : BOOLEAN]

\* What a buffer holds of a structure; id 0 is a range of zero bytes.
Piece(id, clock, bytes) == [id |-> id, clock |-> clock, bytes |-> bytes]
Zeros(bytes) == Piece(0, 0, bytes)

\* A structure as it must appear: without clocks in the two clocked types.
Cleared(s) ==
    Piece(s.id,
          IF s.type = Processor \/ s.type = MemoryDevice THEN 0 ELSE s.clock,
          IF s.overlong THEN 0 ELSE s.bytes)

Present(table, type) == \E k \in DOMAIN table : table[k].type = type

\* The structures of one type, in table order.
OfTypeIn(table, type) == Select(table, {s \in Structure : s.type = type})

\* As the measurement holds them.
PiecesOf(table, type) ==
    [k \in DOMAIN OfTypeIn(table, type) |-> Cleared(OfTypeIn(table, type)[k])]

CpuId(table) == <<Piece(OfTypeIn(table, Processor)[1].id, 0, CpuIdSize)>>

\* The structures of all listed types.
ListedPieces(table, list) == [t \in DOMAIN list |-> PiecesOf(table, list[t])]

\* The data of a board with a processor; when a listed type is missing, zeros
\* stand for all structures.
Collected(table, list) ==
    IF \A t \in DOMAIN list : Present(table, list[t])
    THEN Join(ListedPieces(table, list)) \o CpuId(table)
    ELSE <<Zeros(CpuIdSize)>> \o CpuId(table)
=============================================================================
