------------------------------ MODULE EvmMemory ------------------------------
(***************************************************************************)
(* The memory of one Evm and what its growth costs.  EvmMemory is a buffer  *)
(* that expand enlarges by whole words; MemoryExpansionGas keeps the        *)
(* highest address an opcode asked for and charges the difference when it   *)
(* moves.  The two are told different addresses, and not by every opcode.   *)
(*                                                                         *)
(* Word is 32 and QuadDivisor 512 in the code.  Of the gas only the memory  *)
(* part is modelled.  A buffer drops a store beyond its end without a word. *)
(***************************************************************************)
EXTENDS Integers, Sequences

CONSTANTS
    Word,         \* bytes of a word
    QuadDivisor,  \* the word count squared is divided by this
    Byte,         \* values of a byte
    Data,         \* what code, call data and return data may hold
    WordData,     \* what MSTORE may store, one word each
    Inherited,    \* memories STATICCALL copies into a fork; <<>> for the rest
    Offsets,      \* offsets on the stack
    Lengths,      \* lengths on the stack
    MaxAddress,   \* bound: the highest address
    MaxOps        \* bound: opcodes that use memory

ASSUME MemorySizes == Word \in Nat \ {0} /\ QuadDivisor \in Nat \ {0}
ASSUME MemoryBytes == 0 \in Byte
ASSUME MemoryData ==
    /\ Data \subseteq Seq(Byte)
    /\ WordData \subseteq Seq(Byte) /\ \A d \in WordData : Len(d) = Word
    /\ Inherited \subseteq Seq(Byte) /\ \A d \in Inherited : Len(d) % Word = 0
ASSUME MemoryOffsets == Offsets \subseteq Nat /\ Lengths \subseteq Nat
ASSUME MemoryBounds == MaxAddress \in Nat /\ MaxOps \in Nat

VARIABLES
    size,       \* the buffer's length
    bytes,      \* its content, 0 beyond its length
    highest,    \* MemoryExpansionGas.highestReferencedAddress
    status,     \* "running", or "ended" by RETURN, REVERT or an error
    charged,    \* history: memory gas that went into the bill
    dropped,    \* history: memory gas that was computed and then dropped
    stored,     \* history: the last byte the program stored at an address
    loose,      \* history: addresses last stored to one byte at a time
    reach,      \* history: the end of the furthest access
    ops         \* counter for the bound

memory == <<size, bytes>>
gas == <<highest, charged, dropped>>
history == <<stored, loose, reach>>
vars == <<memory, gas, status, history, ops>>

Addresses == 0..MaxAddress
Larger(m, n) == IF m < n THEN n ELSE m

WordSize(address) == (address + Word - 1) \div Word
RoundUp(n) == Word * WordSize(n)

----------------------------------------------------------------------------
(* EvmMemory.  n is the length of the buffer before.                       *)

Expanded(n, offset) == IF n <= offset THEN n + RoundUp(offset - n) ELSE n

\* Seeded fault: the buffer is cut to the end of what was read.
AfterReadCut(n, offset, length) ==
    IF n < offset + length THEN Expanded(n, offset + length)
    ELSE RoundUp(offset + length)

AfterRead(n, offset, length) ==
    IF n < offset + length THEN Expanded(n, offset + length) ELSE n

\* write, called for one offset after the other; write(0) makes room for a
\* word.
AfterWrites(n, offset, length) ==
    LET last == offset + length - 1
    IN  IF length = 0 THEN n
        ELSE Larger(n, IF last = 0 THEN Word ELSE RoundUp(last))

\* expand(o) leaves o outside the buffer when the buffer then ends at o.
Falls(n, address) == address >= n /\ address # 0 /\ address % Word = 0

Touched(offset, data) == {a \in Addresses : a >= offset /\ a < offset + Len(data)}

Stored(content, at, offset, data) ==
    [a \in Addresses |-> IF a \in at THEN data[a - offset + 1] ELSE content[a]]

End(offset, data) == IF Len(data) = 0 THEN 0 ELSE offset + Len(data)

Read(offset, length) ==
    /\ size' = AfterRead(size, offset, length)
    /\ reach' = Larger(reach, offset + length)
    /\ UNCHANGED <<bytes, stored, loose>>

WriteFrom(n, end, offset, data) ==
    /\ offset + Len(data) <= MaxAddress + 1
    /\ size' = AfterWrites(n, offset, Len(data))
    /\ bytes' = Stored(bytes, {a \in Touched(offset, data) : ~Falls(n, a)},
                       offset, data)
    /\ stored' = Stored(stored, Touched(offset, data), offset, data)
    /\ loose' = loose \cup Touched(offset, data)
    /\ reach' = Larger(end, End(offset, data))

WriteBytes(offset, data) == WriteFrom(size, reach, offset, data)

ReadThenWrite(offset, length, retOffset, output) ==
    WriteFrom(AfterRead(size, offset, length), Larger(reach, offset + length),
              retOffset, output)

\* Seeded fault: write32 leaves the expansion to write.
Write32Lazy(offset, data) ==
    /\ offset + Len(data) <= MaxAddress + 1
    /\ size' = AfterWrites(size, offset, Len(data))
    /\ bytes' = Stored(bytes, {a \in Touched(offset, data) : ~Falls(size, a)},
                       offset, data)
    /\ stored' = Stored(stored, Touched(offset, data), offset, data)
    /\ loose' = loose \ Touched(offset, data)
    /\ reach' = Larger(reach, offset + Len(data))

\* write32 makes room for all of the data first, so that nothing falls.
Write32(offset, data) ==
    /\ offset + Len(data) <= MaxAddress + 1
    /\ size' = Expanded(size, offset + Len(data))
    /\ bytes' = Stored(bytes, Touched(offset, data), offset, data)
    /\ stored' = Stored(stored, Touched(offset, data), offset, data)
    /\ loose' = loose \ Touched(offset, data)
    /\ reach' = Larger(reach, offset + Len(data))

----------------------------------------------------------------------------
(* MemoryExpansionGas.                                                     *)

MemoryCost(words) == (words * words) \div QuadDivisor + 3 * words

Expansion(address) ==
    IF address > highest
    THEN MemoryCost(WordSize(address)) - MemoryCost(WordSize(highest))
    ELSE 0

\* Seeded fault: an access below the highest address moves it back.
RefersToLast(address) == highest' = address

RefersTo(address) == highest' = Larger(highest, address)

Charge(address) ==
    /\ RefersTo(address)
    /\ charged' = charged + Expansion(address)
    /\ UNCHANGED dropped

Drop(address) ==
    /\ RefersTo(address)
    /\ dropped' = dropped + Expansion(address)
    /\ UNCHANGED charged

----------------------------------------------------------------------------
Padded(data) == [a \in Addresses |-> IF a < Len(data) THEN data[a + 1] ELSE 0]

\* A new Evm.  fork copies its caller's memory into it with write, byte after
\* byte; a word's first byte falls, but for the first word's.
Init ==
    /\ \E raw \in Inherited :
         /\ Len(raw) <= MaxAddress + 1
         /\ size = Len(raw)
         /\ bytes = [a \in Addresses |->
                       IF a # 0 /\ a % Word = 0 THEN 0 ELSE Padded(raw)[a]]
         /\ stored = Padded(raw)
         /\ loose = Touched(0, raw)
         /\ reach = Len(raw)
    /\ highest = 0 /\ charged = 0 /\ dropped = 0
    /\ status = "running"
    /\ ops = 0

\* boot after a program has ended keeps the memory and its price.
Boot ==
    /\ status = "ended"
    /\ status' = "running"
    /\ UNCHANGED <<memory, gas, history, ops>>

Opcode ==
    /\ status = "running"
    /\ ops < MaxOps
    /\ ops' = ops + 1

Continues == UNCHANGED status
Ends == status' = "ended"

Mload(offset) ==
    /\ Opcode
    /\ Read(offset, Word)
    /\ Charge(size')
    /\ Continues

Mstore(offset, word) ==
    /\ Opcode
    /\ Write32(offset, word)
    /\ Charge(size')
    /\ Continues

Mstore8(offset, byte) ==
    /\ Opcode
    /\ WriteBytes(offset, <<byte>>)
    /\ Charge(size')
    /\ Continues

Calldatacopy(offset, data) ==
    /\ Opcode
    /\ Write32(offset, data)
    /\ Charge(size')
    /\ Continues

Codecopy(offset, data) ==
    /\ Opcode
    /\ WriteBytes(offset, data)
    /\ Charge(size')
    /\ Continues

\* The price is that of the place in the code, not of the one in memory.
Extcodecopy(offset, codeOffset, data) ==
    /\ Opcode
    /\ WriteBytes(offset, data)
    /\ Charge(codeOffset + Len(data))
    /\ Continues

\* No data is an error; memory gas is not charged.
Returndatacopy(offset, data) ==
    /\ Opcode
    /\ WriteBytes(offset, data)
    /\ status' = IF data = <<>> THEN "ended" ELSE status
    /\ UNCHANGED gas

\* LOG reads no memory.
Log(offset, length) ==
    /\ Opcode
    /\ Charge(offset + length)
    /\ Continues
    /\ UNCHANGED <<memory, history>>

\* CREATE, CREATE2: the code is read without a price.
Create(offset, length) ==
    /\ Opcode
    /\ Read(offset, length)
    /\ Continues
    /\ UNCHANGED gas

\* RETURN.  REVERT computes the price and throws before it is charged.
Return(offset, length) ==
    /\ Opcode
    /\ Read(offset, length)
    /\ Charge(offset + length)
    /\ Ends

Revert(offset, length) ==
    /\ Opcode
    /\ Read(offset, length)
    /\ Drop(offset + length)
    /\ Ends

\* A call reads its arguments and writes what was returned, up to retSize.
\* The price of the arguments is in what the call costs; CALL drops that.
Call(offset, length, retOffset, output) ==
    /\ Opcode
    /\ ReadThenWrite(offset, length, retOffset, output)
    /\ Drop(offset + length)
    /\ Continues

\* CALLCODE, STATICCALL, and DELEGATECALL unless it is given no gas.
ChargedCall(offset, length, retOffset, output) ==
    /\ Opcode
    /\ ReadThenWrite(offset, length, retOffset, output)
    /\ Charge(offset + length)
    /\ Continues

\* The sub context fails, and the gas limit is charged instead; or the call
\* throws, because an output was expected or for an error of another kind.
FailedCall(offset, length) ==
    /\ Opcode
    /\ Read(offset, length)
    /\ Drop(offset + length)
    /\ status' \in {"running", "ended"}

UsesOffset(offset) ==
    \/ Mload(offset)
    \/ \E word \in WordData : Mstore(offset, word)
    \/ \E byte \in Byte : Mstore8(offset, byte)
    \/ \E data \in Data : Calldatacopy(offset, data)
    \/ \E data \in Data : Codecopy(offset, data)
    \/ \E codeOffset \in Offsets, data \in Data : Extcodecopy(offset, codeOffset, data)
    \/ \E data \in Data : Returndatacopy(offset, data)

UsesRange(offset, length) ==
    \/ Log(offset, length)
    \/ Create(offset, length)
    \/ Return(offset, length)
    \/ Revert(offset, length)
    \/ FailedCall(offset, length)
    \/ \E retOffset \in Offsets, output \in Data :
          \/ Call(offset, length, retOffset, output)
          \/ ChargedCall(offset, length, retOffset, output)

Next ==
    \/ Boot
    \/ \E offset \in Offsets : UsesOffset(offset)
    \/ \E offset \in Offsets, length \in Lengths : UsesRange(offset, length)

Spec == Init /\ [][Next]_vars

----------------------------------------------------------------------------
(* The type invariant.  There is nothing but zeros beyond the buffer.       *)
TypeOK ==
    /\ size \in Nat
    /\ bytes \in [Addresses -> Byte]
    /\ \A a \in Addresses : a >= size => bytes[a] = 0
    /\ highest \in Nat /\ charged \in Int /\ dropped \in Int
    /\ status \in {"running", "ended"}
    /\ stored \in [Addresses -> Byte]
    /\ loose \subseteq Addresses
    /\ reach \in Nat
    /\ ops \in 0..MaxOps

(* What memory has cost is a function of the highest address alone, in      *)
(* whatever order and by whatever opcodes it was reached: expansions add up *)
(* (MemoryExpansionGas.compute), but for what calls and REVERT drop.        *)
PriceOfHighest == charged + dropped = MemoryCost(WordSize(highest))

(* MSIZE counts whole words, and as many as the furthest access reaches;    *)
(* one byte can be missing, the first of a word stored to by write.         *)
SizeIsReach ==
    /\ size % Word = 0
    /\ size < reach + Word
    /\ size < reach => size = reach - 1 /\ size \in loose

(* A program reads what it stored.  The exception is a byte stored alone or *)
(* by a copy that does not use write32 (EvmMemory.write), at the start of a *)
(* word: no word, and no call data, is ever lost.                           *)
OnlyLooseBytesFall ==
    \A a \in Addresses :
        bytes[a] # stored[a] => a \in loose /\ a # 0 /\ a % Word = 0

(* "EVM is more or less opcode accurate in functionality" (README.md): what *)
(* a program stores, it can read.                                           *)
ReadsWhatItStored == bytes = stored
=============================================================================
