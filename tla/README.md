# SignInfo in TLA+

SignInfo binds a firmware volume to one mainboard. A UEFI shell tool
(`InfoShell.efi`) measures a board and seals the digest; a signer outside this
repository turns that into a key blob; a DXE driver (`Xloader`) measures the
board again at every boot, decrypts the blob and launches the embedded volume
only when the two digests agree. This directory holds TLA+ modules of both
programs, the TLC configurations that check them on small instances, and
theorems about them that TLAPS checks for every value of the constants.

Run `tlc -config <run>.cfg <MC module>.tla` for a run and
`tlapm <module>Proofs.tla` for the proofs. `PROJECT.json` maps every definition
to the lines it models.

## The system

Both programs are sequential: UEFI calls their entry point once, nothing
preempts it, and nothing but the file systems and the platform's tables outlives
a start. What makes them hard is not concurrency but failure, order and
arithmetic: nearly every call can fail, many results are printed or not tested at
all, memory is handed from buffer to buffer by hand, numbers of 4096 bits are
computed in 32-bit words that wrap, and two programs built from different files
must compute the same bytes years and many restarts apart.

| Component | State it keeps | Operations | What has to hold |
|---|---|---|---|
| Digest convention (`InfoHashInfoData`, `public_encrypt`, `public_decrypt`) | none | hash, replace zero bytes, seal as a C string, decrypt into a zeroed buffer | what one side seals the other side recognises, whatever bytes the hash has |
| Loader driver (`Info.c`) | digest, blob pointer, file system index, message, verdict, pool | measure, look for a section, fall back to `\efi\key.txt`, decrypt, compare, free, process and dispatch the volume | a launch is justified by the right blob; no buffer is freed twice; the driver returns |
| MAC collection (`InfoMac.c`) | buffer, its size, handle index | walk the load file handles | addresses of IPv4 interfaces in order, in a buffer that holds them |
| SMBIOS collection (`InfoSmbios.c`) | buffer, two sizes, type and structure index | processor id, structures of each listed type, clear clocks, append | the data are a function of the table without its clocks; sizes agree |
| Type list (`InfoBuildMeasureTypeList`) | three indices, byte list | parse the operands of `-t` | the list is the operands; the buffer suffices |
| Shell tool (`Infoshell.c`) | options, data, digest, files | option loop, measure, write up to four files, seal, reset | options mean what they say; files are whole at the reset; the tool ends |
| RSA (`rsa.c`) | the block under way | pad, encrypt, sign, remove the padding, private operation modulo two primes | each side accepts exactly what the other makes; the wait for a nonzero byte ends |
| Big numbers (`bignum.c`) | digit arrays | add, subtract, multiply, divide, power, decode, encode | no carry or borrow is lost; division ends with the right digit |
| Text (`base64.c`, `public.c`) | strings | base64, hexadecimal | round trips; the decoded text fits the block |
| Library layer (`hal.c`) | random seed | `rand`, `srand`, `timeX`, wrappers | no second is seeded twice |
| Print filter (`InfoPrint.c`) | print level | level mask | nothing depends on it |
| Data (`fv.h`, `keys.h`, `HelloWorld.c`) | constants | none | nothing to check |

The programs interact through three things only: `series.txt`, which the signer
reads; the key blob it makes (a firmware section or `\efi\key.txt`); and the
board itself, of which the loader must measure the same bytes as the tool did.
Between them lie restarts: the tool ends with a reset, and the loader runs before
it at every start. Inside a program all interaction is by call and return, with
pointer and size passed back through arguments.

The hazards are listed with their lines in `PROJECT.json`; the properties below
are aimed at them.

## The modules

### Digest

Operators for the bytes the two programs must agree on. A SHA-256 value is any
sequence of `DigestLen` bytes. `Digest` is the loop that turns zero bytes into 1,
`MessageOf` the C string `public_encrypt` takes, `MsgBuffer` the beginning of the
zeroed `msg` after `public_decrypt`. Here, in `Loader` and in `System`, RSA is
abstracted: decrypting yields what was sealed, or nothing (`Undecodable`). `Seal`
and `RsaBlock` are about what this leaves out.

### MeasuredBoot and Loader

`MeasuredBoot` is the promise: a verdict that starts as `waiting`, becomes
`approved` only when the offered message equals the digest, and ends as
`launched` or `refused`. `Restart` begins anew with any digest and any message;
`Spec` is one boot, `RestartingSpec` one boot after the other.

`Loader` is `InfoEntryPointDxeEntry` with `InfoGetEncFile` and `Rsa4096Dec`
inlined, one action per call. `pc` names the call that is next. `live` is the set
of pool allocations; `FreePool` of a buffer that is not in it is a fault or is
refused. `fileData = "undefined"` is the uninitialised local of line 326.
`Failures` says which calls may fail, so that the same module serves the run
where nothing fails and the one where everything may. `pc = "fault"` stands for
undefined behaviour that the platform traps; where it need not be trapped (the
comparison with `NULL`, the free of a stray pointer, the copy of a blob larger than
`base64[]`) both outcomes are allowed, and one that is not trapped is taken to hit
nothing the driver still uses.

`InfoEntry` and the functions it calls free nothing: the load file handles, the
addresses, the processor's structures and its id, the collected data, the hash
context and the digest all stay allocated (`Kept`), on success and, as far as they
got, on failure (`Abandoned`). What the driver has to give back is `Owned`: the
section, the handle buffer and the file.

### System and BoardData

`System` puts the two programs on one board. It EXTENDS `Loader`, whose every step
is a step of the system, and adds `Start` (the driver's variables are fresh, the
parts, the interfaces and the installed keys may be others), `PowerCycle` (a start
between any two steps), `RunTool` (seals the digest of the board as it is, with
the default list or one of `-t`, and resets), `RunToolInVain` (`series.txt` is
lost, or the old one stays, or it seals what address 0 holds because the digest was
`NULL` (`Junk`), and the reset comes all the same) and `Sign` (the
signer takes whatever `series.txt` holds). `seals` and `signed` are history: what
was ever sealed, and the keys that exist. Keys may be put on any board, at any
later start.

`BoardData` says which bytes a board yields without saying how they are collected:
`Collected` is the structures of the listed types without their clocks and the
processor id. `SmbiosData` EXTENDS it and shows that its loops arrive there;
`System` builds on it, with what `InfoGetMacData` leaves of the interfaces behind it
(`Data`). That is not the board's addresses. `Reads` has what `MacData` shows: the
first address is intact, each further one lies behind the buffer and may be read
back or be something else (`Garbage`), and there may be none at all, when a handle
has no MAC node or the interfaces are not connected yet. The tool and the loader
read for themselves, at every start anew (`read`). A start at which some of the
interfaces are connected and others are not is a board with other interfaces.
`Machines` are the boards under study, a table with its interfaces; the theorems
hold for any. `Tool` is not inlined: its files and failures are its own module's
subject, and `System` needs only what became of `series.txt`.

### MacData, SmbiosData, TypeList

`MacData` is the walk of `InfoGetMacData`; sizes count addresses, not bytes, and
an address stored behind the buffer is trapped, read back or lost (`Garbage`). The
status of `LocateHandleBuffer` is not tested; when it failed (`located`), the walk
goes over whatever `HandleCount` and `Handles` hold, or is trapped.

`SmbiosData` is `InfoSmbiosRelatedData_` and its helpers. A buffer is a sequence
of pieces (which structure, which clock value, how many bytes), so that order,
offsets, blanked parts and sizes remain visible. `memory = "tight"` lets every
allocation fail. `InfoSmbiosRelatedData`, which the tool uses, differs only in
where the list comes from: from `TypeList`, the scan for `-t` and the parsing
loop behind it. `Decimal` gives each argument the value `StrDecimalToUintn`
returns, and the truncation to a byte is explicit.

### Tool

`InfoEntryPoint` of the build that `InfoShell.inf` makes (`EFI_SHELL_APP`,
`CMD_REDUCE`): the options `-e` and `-r` are not read, the seal always goes to
`series.txt`, and the reset is unconditional. `ParseArgument` is one pass of the
option loop with its three tests in a row; `Argc` and `ArgIndex` count modulo
`IndexMod`, 256 in the code. `Measure` has the outcomes of the measurement and what
they depend on: the operands of `-t`, which `TypeOption` finds as
`InfoBuildMeasureTypeList` does (in all of `mArgv`, not in the `Argc` arguments of
the option loop), and `board`, which is `unsafe` when the measurement leaves its
buffers there: a clocked structure without clock fields (`InfoSmbios.c:277`), two
IPv4 interfaces (`InfoMac.c:94`), or no load file handle (`InfoMac.c:58`). `InfoWriteFile` is the three actions `DeleteFile`,
`CreateFile`, `WriteData`, with `job` as its arguments. `disk` maps a file name
to what the file holds; `mixed` is new data over a longer old file that could not
be deleted. `reported` records which writes printed an error.

### Bignum, LongDivision, RsaBlock

`Bignum` has one operator per function of `bignum.c`. A digit is a number below
`Base`, every result that the code keeps in a `bn_t` goes through `Wrap`, and
carries are found by comparing, as the code finds them. Loops that hand on a carry
are folded by `Ripple`, whose argument is the body of the loop. An array is a function
on exactly the indices the code has written, so that TLC stops at a read of a
digit that was never written. `Value` is the number an array stands for. `Power` is
written out as a recursive function, because the provers know no `^`.

`LongDivision` is the promise of `bn_div` on numbers instead of arrays: an
estimate from below, at most two corrections, a remainder below the divisor.

`RsaBlock` is `private_block_operation` on one block: the two reductions by
`bn_div` digit by digit (`EstimateDigit`, `CorrectDigit`, `SettleDigit`), the
exponentiations and the recombination by the CRT, and then
`public_block_operation` on the result. Each division refines `LongDivision`
under `Abstract`. `KeyAssumption` says which arrays make a key, `KeyPairAssumption`
which numbers: two primes with the modulus as product, exponents inverse to the
public one modulo the primes less one, and the coefficient of the recombination.

### Clock, Codec, Seal

`Clock` has `timeX`, `rand` and `generate_rand`, with the constants of the code.
`NextSecond` is the calendar the firmware's clock follows. `Codec` has
`base64_encode`, `base64_decode`, `str_hex` and the hexadecimal printing, as
functions on strings of ASCII codes; the end of a string is where its NUL is, and
a NUL inside a group of four is decoded with it, as the code does.

`Seal` follows one digest byte for byte: `HexToString` with its buffer formula,
the hash, `rsa_public_encrypt` with the loop for nonzero padding bytes and a clock
that ticks beside it, the text of `series.txt`, the signer (external: it is not in
this repository, but the functions it needs are), `key.txt` in upper case, lower
case or with blanks and with the line end an editor may leave, and the loader's
`base64_decode`, `str_hex` and `rsa_public_decrypt` down to the message. A byte
that `str_hex` stores behind `str1` may do harm (`pc = "fault"`) or not.

### Loops

`Loops` has what a loop over a list makes of its first n elements: `SelectUpTo`,
`JoinUpTo` and `TotalUpTo` are recursive functions of n. `BoardData`, `SmbiosData`,
`MacData` and `Codec` say with them what is collected or decoded. The community
modules have operators with the same results, but their recursion is hidden in a
fold; here every pass has its value, which an invariant can name.

### Mutants

Definitions commented `Mutant:` are not used by any specification. Each is a
plausible bug of the definition that follows it, and `PROJECT.json` says which
property notices it.

## The runs

| Run | Instance | What it shows |
|---|---|---|
| `loader_failures` | digests of 2 bytes over 0..2, three boards (zero byte in front, at the end, none), four blobs, 3 file systems, every call may fail | `TypeOK`; `KeyPreference` (the blob judged is the section's or the first file system's); `LaunchJustified`; `FaultCauses`; `VerdictReleasesBuffers`; `Terminates` |
| `loader_unmeasured` | as `loader_failures`, 2 file systems, everything may fail | violated: `UnmeasuredNeverLaunched` |
| `system` | six boards: one, the same with other clocks, one with another system part and no interface, both systems without a memory device and with two interfaces of which the second differs, one of these without interfaces; every reading of the interfaces, with one garbage address; default list <<1, 17>> or `-t 1`; one file system; a stray blob too large for `base64[]`; three starts; no call fails | `SealedBefore`; `SealedPartsMatch`; `OwnBoardBoots` (a seal outlives clock changes and restarts); `ImplementsRestartingBoot` (refinement of `MeasuredBoot`) |
| `rsa` | digits of 4 bits, five key pairs of one, two and three digits, every block of the small moduli | `TypeOK`; `PublicUndoesPrivate`; `ImplementsLongDivision` |
| `seal` | blocks of 8 bytes, digests of 3, lines of 4 bytes, sizes 1..13, 21 moments to start at, three seconds of waiting | `TypeOK`; `DumpInBounds`; `SealReadable`; `TextFillsBlock`; `SignedIsAccepted`; `PaddingEnds`; `SecondsAdvance` |
| `mac` | all sequences of up to 3 handles, located or not, 2 addresses | `TypeOK`, `MacResult`, `ShortByOne`, `Terminates` |
| `mac_capacity` | as `mac` | violated: `SizeIsCapacity` |
| `smbios` | all tables of up to 3 structures out of 6 (too short, overlong, three types), 4 lists | `TypeOK`, `Measurement`, `SizesAgree`, `NullHasACause`, `FaultCauses`, `Terminates` |
| `smbios_failure` | as `smbios` | violated: `FailureReported` |
| `typelist` | all command lines of up to 5 of 7 arguments | `TypeOK`, `ListIsOperands`, `OverrunCause`, `IndicesOrdered`, `Terminates` |
| `typelist_empty` | up to 3 arguments | violated: `MissingOperandRejected` |
| `tool` | all command lines of up to 3 arguments behind the name, `-t` included, longer ones at the counter's limit (`IndexMod` = 5), sound and unsafe boards, every call may fail | `TypeOK`, `OptionsRead`, `FilesComplete`, `FaultCauses`, `Terminates` |

Why the bounds suffice. Digests need two bytes to tell a zero in front (the sealed
string is empty) from one at the end (it is a prefix), and three values to tell 0,
its replacement 1, and something else. Three file systems put a file before,
between and behind handles that fail. The MAC buffer goes wrong at the second
interface and the third shows that it does not get worse; the theorem covers the
rest. Three structures allow two of one type and one of another in either order,
and the list `<<4, 1, 4>>` repeats a type. Five arguments are needed for two `-t`
with an option between them. `IndexMod` only has to be reached.

Three starts are one that ends with a seal, one during which another board may be
sealed and the signer signs, and one at which a key is installed on a board that
may have changed since; more starts repeat them, since the loader keeps nothing.
The
six boards separate what a measurement may and may not tell apart: clocks, a
listed part, a missing type, and the interfaces. The run takes about two minutes.
One file system suffices where `loader_failures`
has three. `MaxBoots` also stops `Sign` at the last start, when nobody could
install the key any more.

Digits of 4 bits make every case of the loops of `bignum.c` happen: a carry that
wraps, a borrow out of the top digit, a top digit that needs the largest shift,
one that is all ones after the shift (the special case of the estimate), one and
two corrections, a second prime with fewer digits, and the primes in the wrong
order. What these functions compute is proved for every width of a digit. In `seal` a block of 8
bytes leaves two padding bytes before a digest of 3; the digests have zero bytes
in front and behind, and bytes above 127. The moments include second 256 of the
epoch, whose padding byte is zero, all ends of months, leap days, a year before
1970 and a clock that fails. Times end before 2038 (`LastYear`), where `Tick` stops;
no moment of the run comes near. Two seconds of waiting suffice
by `NoTwoZeroSeconds`.

Deadlock is checked in every run; `Terminated` is the stuttering of a program that
has returned.

### Violations

Each of these runs checks one statement the repository makes and that the code
does not keep. `PROJECT.json` quotes the line.

- `UnmeasuredNeverLaunched`: `InfoEntry` returns `NULL` for a failure; the driver
  prints that and compares with address 0 (`Info.c:339`).
- `SizeIsCapacity`: `ReallocatePool` is called with the size before the address is
  added (`InfoMac.c:94`), so the last of several addresses lies behind the buffer.
- `FailureReported`: `CpuData` is tested where `SmbiosData` is meant
  (`InfoSmbios.c:573` and `677`), so a missing type gives a measurement of eight
  zero bytes and the processor id.
- `MissingOperandRejected`: the parsing loop runs once before it tests
  (`InfoSmbios.c:461`), so the error for an empty `-t` cannot occur when an option
  follows, and the terminator is stored behind the buffer.

### Fairness

`Loader`, `MacData`, `SmbiosData`, `TypeList` and `Tool` assume `WF_vars(Next)` and
nothing else: a UEFI entry point that can take a step takes one. No fairness is assumed of a particular outcome;
every call may fail as often as it likes. `Terminated` only stutters and adds no
obligation. `Terminates` of `Tool` excepts the one command line shape for which
the byte index wraps (`Wraps`), where the loop really does not end.

`System` assumes `WF(LoaderStep)`: the driver is run to its end unless the next
start cuts it short, which `OwnBoardBoots` allows for. Nobody is obliged to run the
tool, to sign, or to leave the power on. `Seal` assumes `WF(DrawByte)`, the loop is
not preempted, and `WF(Tick)`, a clock that runs keeps running; a clock that cannot
be read gives the same seed for ever, and its byte happens not to be zero. Neither
fairness obliges `DrawAgain` to stop: that the loop ends is what `PaddingEnds`
says. `RsaBlock` assumes none; its property is safety, and it ends because the
index falls and two corrections are the most.

## The proofs

Eight modules hold the theorems. `SystemProofs` has three parts: the digest, the
loader and the system of both.

The digest, for every `DigestLen` and `MaxByte`: `Digest` has no zero byte, so
the C string is the whole digest and `MsgBuffer(MessageOf(Digest(raw))) =
Digest(raw)` (`SealRoundTrip`); a rejected blob equals no digest
(`UndecodableMatchesNoBoard`).

The loader, for any boards, blobs, number of file systems and failures. The
inductive invariant `IInv` adds to the type what each `pc` implies: which buffers
are live there (`Pool`), that no file system before `fsIndex` holds the file (`Search`), so
that what `FileData` points at is the preferred blob (`Blob`), that `msg`
is that blob's message and `encPass` the result of the comparison (`Judgement`),
and the causes of a fault. None of the properties is inductive alone:
`LaunchJustified` speaks of the state after the key was freed and needs the
verdict's meaning in between; `FaultCauses` needs to know that a buffer about to
be freed is live. From it follow `TypeOK`, `KeyPreference`, `LaunchJustified`,
`FaultCauses` and `VerdictReleasesBuffers` (of the driver's own buffers; what
`InfoEntry` leaks is in `live` and is not claimed to go). Under the additional assumption that
`InfoEntry` cannot fail, `LoaderImplementsMeasuredBoot` shows that every step of
the driver is a step or a stutter of `MeasuredBoot`, with all other failures
allowed; without the assumption that is false, which is the first violation above.

The system, for any boards, lists, strays, failures and number of starts. The
inductive invariant is the loader's `IInv` and `Provenance`: whatever
`series.txt` holds was sealed by a run of the tool, every signed key was made of
such a seal, and every installed key is signed or a stray. A start establishes
`IInv` anew because `Start` gives the driver's variables the values of `Init`.
`LaunchedOnlyIfSealed` then takes four steps: a launch with a digest means that the
message equals it (`LaunchJustified`), the message is the preferred blob's, that
blob has a `Provenance`, and `SealRoundTrip` with the absence of collisions leads
from equal digests to equal data. Junk that was sealed and signed is a blob with a
provenance of its own, which no digest equals (`SystemAssumption`). `SystemImplementsRestartingBoot` extends the
refinement to many starts, again if `InfoEntry` cannot fail.

`LaunchedOnlyWithSealedParts` says the same of the parts of the board
(`SealedPartsMatch`): processor, structures of the listed types, and of the
interfaces what the code can vouch for. That is less than one would expect. If
`InfoGetMacData` found any at this start, the sealed board had as many and the same
first one (`SameReading`). Further addresses lie behind their buffer
(`InfoMac.c:94`), so two boards that differ there may measure alike, and TLC finds
such a launch when the property asks for equal interfaces; and a start at which the
walk finds none measures as a board without any (`Info.c:239`). It has to take a measurement apart again, and that works only
under `StructureAssumption`: an identity stands for what a structure's bytes are,
its type and handle included, so it tells the type and occurs once in a table; the
default list names no type twice; no structure is overlong, since such a one leaves
no bytes and boards that differ only there are not told apart. Then the pieces of a
`Collected` that have one type are the structures of that type in the table's order
(`SelectConcat`, `SelectWhole` and `SelectApart` of `Induction`), and equal data have
equal pieces. Without the condition it is false: the structures of one listed type
could run over into those of the next, and a seal with `-t 17 17` of one memory
module equal one with the default list of two that are alike.

`BignumProofs`, for digits of any width and arrays of any length. It has five parts.

- The loops. The body of each carry loop computes digit and carry exactly although
  every intermediate result wraps (`AddDigitExact` and its like), and `RippleExact`
  adds that up over the array: `AddExact`, `SubExact`, `SubDigitMulExact`,
  `ShiftLeftExact`, `ShiftRightExact`; `AtLeastComparesValues` is `bn_cmp`.
- Division. With a divisor whose top bit is set, which `NormalisedDivisor` shows
  of the shift that `bn_div` chooses, the estimate of a quotient digit is never too
  large and at most two too small (`EstimateStep`), the loop that corrects it ends
  (`CorrectedFacts`, by induction over the value of the window), and `bn_mod` leaves
  the remainder (`ModIsRemainder`). `bn_mul` leaves the product (`MulIsProduct`) and
  `bn_mod_exp`, two bits of the exponent at a time, the power (`ModExpIsPower`).
  `bn_decode` and `bn_encode` are inverse to each other (`DecodeEncode`,
  `EncodeDecode`).
- The types. `RsaInv` says what each array holds in each phase and that the division
  under way stays within its digits: what remains, with what the digit found so far
  holds of the divisor, is below the next digit (`UnderWay`). From it follows
  `RsaTyped`: no index leaves its array and no digit is read that was not written.
- The refinement. `RsaDivides`: every step of `bn_div` on arrays is a step of
  `LongDivision` or leaves it alone. `LongDivisionCorrect` says of the latter that
  it ends with quotient and remainder after at most two corrections of each digit;
  its invariant is `dividend = quotient * divisor + remainder` with a bound that
  depends on the number of corrections.
- The pair of operations. `Fermat` is Fermat's little theorem, by the binomial
  theorem: the rows of Pascal's triangle (`PascalExists`) give the powers of
  `x + 1`, and a prime divides the inner entries of its row because it divides a
  product only with one of the factors (`Euclid`). `RoundTrip` puts the two
  primes together. The invariant `UndoInv` follows the block: what `bn_div` has left
  of it, the residues of it and their powers, the difference `t`, the result, all
  as numbers modulo the primes. From it follows `RsaUndoes`, which is
  `PublicUndoesPrivate`; and if `prime1 >= prime2` the exception of that property is
  void (`RsaUndoesInOrder`): the public operation undoes the private one on every
  block below the modulus.

`Induction` has the lemmas the loops need. The provers cannot instantiate an
operator parameter, which is how the library states induction, so a property of
numbers is given as the set of the numbers that have it and the body of a loop as a
function. `SetInduction` follows from the well-founded order of the numbers
(`WFMin`), `LoopExists` shows that a recursion over them has a solution whatever its
body, and `SelectLoop`, `JoinLoop` and `TotalLoop` unfold the functions of `Loops` by
one pass.

`SmbiosDataProofs`, for every table and every type list. The invariant compares the
buffer with the pieces of the types that are done and of the structures of the
current type that are copied (`Reached`); with little memory single pieces may be
blanked (`Near`). `sumSize` is the bytes of what is in the buffer, and the types
that are done have structures. From it follow `Measurement`, the result is
`Collected`; `SizesAgree`; `NullHasACause`; `FaultCauses`; and the types.

`MacDataProofs`, for any number of handles: the buffer is exact for one interface
and one address short for more (`CapacityShortByOne`, `OneInterfaceIsExact`), and
what it holds, in order, is the addresses of the interfaces, of which only the last
may be lost (`ResultIsInterfaces`). That invariant follows the walk with
`SelectUpTo`.

`TypeListProofs`, for command lines of any length and any values: the equation
`capacity + typeIndex = argIndex + Len(list) + 1` is kept by the parsing loop, and
from it the only overrun is that of a `-t` without operands; the scan keeps
`typeIndex <= argIndex`, so the unsigned subtraction does not wrap and the error
branch at line 448 is dead. `ListHoldsOperands`: the operands of the property are
an interval of arguments; the scan ends with its two ends in `typeIndex` and
`argIndex` (`Window`), also when there are several `-t`, and the parsing loop stores
its values one by one (`Stored`).

`ToolProofs`, for command lines of any length, any width of the counter and any
failures: an option's value is read behind `mArgv` only when the option is the last
argument, also where the counter wraps, because the step to the value never goes
further than one argument (`ValueBeyond`). With the faults of the measurement, whose
causes are of the command line and the board and never change (`Trapped`,
`MeasurementStays`), and those of lost data that gives `FaultCauses`: no name of a
file and no failing file call is a cause. `OptionsAreRead`: on a plain command line the names are
the values of the last `-f` and `-o` among the arguments read so far.
`FilesAreComplete`: for every name, who wrote it last is known from the names and
from how far the tool is (`Latest`), and the file holds that writer's data unless
one of its calls failed (`Complete`), except while it is being written
(`Unsettled`). That needs `Words` to be disjoint from the options and from the two
marks `"null"` and `"stray"`, which are not names of files.

`SealProofs`, for blocks, digests and lines of any size. First the texts. A group of
three bytes and a byte in hexadecimal survive their encoding (`GroupRoundTrip`,
`PairRoundTrip`). `base64_decode` of an encoded string is that string with what the
line end behind it becomes (`TextRoundTrip`), by induction over the groups.
`str_hex` gives back the bytes of any text that has two digits for each, adjacent or
with blanks between (`TextRead`), by induction from the last byte to the first, as
its recursion goes. Together they are `KeyRoundTrip`.

Then the clock. The generator's results for two consecutive seconds differ by 16807
modulo 2^31 - 1 and never both give a zero byte (`NoTwoZeroSeconds`);
`SecondsAreCounted` goes through the cases of the calendar, for which the table of
months and the loop over the years have to add up (`MonthsAddUp`, `YearsAddUp`), and
gives `SecondsAdvance`. `HexToString` stays in its buffer for every size and line
width, because a line break is written only when another byte follows
(`DumpStaysInBounds`).

Last the way of a digest. `BlocksInverse` is a hypothesis of these theorems: the two
block operations are inverse to each other on the blocks below the modulus. That is
what RSA is for. `RsaUndoesInOrder` proves one half of it, private and then public,
for every key pair in order; the other half follows because a mapping of the finite
set of blocks below the modulus that can be undone is a permutation, an argument
that is not carried out here. In the run `seal` the operations are a permutation
that has it. It is no `ASSUME`, because TLC would have to enumerate all blocks. The
inductive invariant `SealInv` says for each stage what it holds in terms of the one
before: the block of the tool is a padding without zeros behind its two type bytes
(`BlockInv`), `series.txt` is the text of such a block with this digest and `key.txt`
the text of a signed block (`TextInv`), `str1` is the signed block and the stray byte
of a line end (`ReadInv`). `PrivateFinds` and `PublicFinds` are about the two
searches for the separating zero. From them follow `SealReadable`, `TextFillsBlock`,
`SignedIsAccepted` and the types.

Assumptions: the named `ASSUME`s on the constants, which TLC evaluates in the runs.
The strong one is `SystemAssumption`: SHA-256 has no collisions among the data
under study, not even after zero bytes became 1, and only the signer can make a key
that decrypts. `StructureAssumption` is about what a firmware's table may hold, as
said above. `KeyPairAssumption` is what makes the numbers a key pair; that the keys
in the two programs have it is the key generator's promise. `SealAssumption` wants the first byte of the modulus not to be zero,
as `modulus_len` is counted from the bits of the key, and start times from the
calendar.

Only model-checked is the liveness (`Terminates`, `OwnBoardBoots`, `PaddingEnds`): it
needs fairness and `ENABLED`, which the installed provers do not handle. Every
invariant and every refinement that a passing run checks is also the statement of a
theorem.

## Not modelled

- SHA-256: the digest is any value, or given by a table without collisions.
- RSA inside `Seal` is a permutation of blocks with its inverse; `RsaBlock` has the
  operations themselves, but not the padding around them.
- The making of keys: a key pair is given by its numbers.
- Base64 text with line breaks inside, which the signer does not write; what lies
  behind `base64[]` on the stack when a blob fills it to the last byte
  (`Info.c:297`).
- Agreement of the two parsers of one command line: `Tool` reads it as both do, but
  no property compares what they make of it.
- What an access to undefined memory destroys when it is not trapped.
- A measurement that fails for reasons of the board in `Tool`: it is a call that may
  fail, whatever the board.
- A missing SMBIOS protocol (asserted away), `InfoGetStringByNum` (never called).
- Console output, timing, the print filter, the wrappers of `hal.c`, and the data:
  `fv.h` alone is 20 486 of the repository's 24 221 lines of C, one array of bytes
  without behaviour.
- `Infoshell.c` from line 500: a second copy of the driver for builds without
  `EFI_SHELL_APP`, which neither `.inf` file makes.

## What remains

1. The types that `-t` asks for in `Tool`, not only whether there are any.
2. `Tool` inlined in `System`, with the file system shared between its files,
   `\efi\key.txt` and the signer.
3. A failing measurement in the run `system`; today that case is the run
   `loader_unmeasured`.
4. The other half of `BlocksInverse`: counting the blocks below the modulus.
