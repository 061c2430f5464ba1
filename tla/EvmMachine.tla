----------------------------- MODULE EvmMachine -----------------------------
(***************************************************************************)
(* One Evm: boot gives it a program and a context, step executes the opcode *)
(* at pc, execute steps until the program has stopped, returned or come to  *)
(* its end.  An exception leaves step where it was thrown; nothing is put   *)
(* back, and the Evm still runs.  A new boot resets pc, and no more.        *)
(*                                                                         *)
(* Of the gas only what an opcode costs statically is here, which is all    *)
(* that gasLeft ever loses.  CREATE and the calls are in EvmContexts.  A    *)
(* word has WordBytes bytes, 32 in the code.                                *)
(***************************************************************************)
EXTENDS EvmWords, FiniteSetsExt, Sequences

CONSTANTS
    Undefined,        \* JavaScript's undefined, as an item of the stack
    Contracts,        \* the code the network has, by address
    Blocks,           \* its blocks, by height
    Height,           \* of the block it is at
    Balances,         \* balances that were registered, by address
    Keccak(_),        \* the hash of a byte string, as a number
    Boots,            \* what boot may be given: programs with their contexts
    Reboots,          \* bound: what an Evm is given after its first program
    Computes(_, _),   \* bound: the operands an opcode is modelled for
    MinGas,           \* bound: with less than this gasLeft; the code has no such end
    MaxBoots          \* bound: programs that one Evm runs

ASSUME UndefinedIsNoNumber == Undefined \notin Int \cup Specials
ASSUME HeightIsKnown == Height \in DOMAIN Blocks
ASSUME ProgramsAreBytes ==
    \A boot \in Boots \cup Reboots : boot.program \in Seq(0..255)

VARIABLES
    program,      \* the bytes
    context,      \* the call: value, data, sender, gasLimit
    pc, previousPc,
    running,      \* false after STOP
    returnData,   \* callingContextReturnData
    stack,        \* the last item is the top
    below,        \* what SWAP stored at negative indexes of the array
    memory,       \* the bytes
    storage,      \* the slots that were written
    gasLeft,
    outcome,      \* of the last step: "done", or what it threw
    last,         \* history: the last step, if it calculated
    boots         \* counter for the bound

control == <<program, context, pc, previousPc, running, returnData>>
vars == <<control, stack, below, memory, storage, gasLeft, outcome, last, boots>>

None == <<>>    \* no return data: undefined
Data(bytes) == <<bytes>>

----------------------------------------------------------------------------
(* EvmStack.                                                               *)

Depth == Len(stack)

\* An item by its index in the array, which SWAP may have made negative.
Item(i) ==
    CASE i \in 0..(Depth - 1) -> stack[i + 1]
      [] i < 0 /\ -i \in DOMAIN below -> below[-i]
      [] OTHER -> Undefined

\* The n-th item to be popped, and the stack without the first n.
Operand(n) == Item(IF n <= Depth THEN Depth - n ELSE Depth)
Dropped(n) == SubSeq(stack, 1, Depth - n)

Popped(n) == [i \in 1..n |-> Operand(i)]

\* pop fails on an item that is not there, or is undefined; get(-n) counts
\* from the end, so that DUP of more than there is takes some item.
Absent(n) == n > Depth \/ Operand(n) = Undefined

Peek(n) ==
    LET index == Depth - n
    IN  IF n = 1 THEN Item(Depth - 1)
        ELSE IF index < 0 THEN Item(Depth + index) ELSE Item(index)

Cells(from, to, i, item) ==
    IF i = from THEN Item(to) ELSE IF i = to THEN Item(from) ELSE item

----------------------------------------------------------------------------
(* EvmMemory.                                                              *)

Zeros(n) == [i \in 1..n |-> 0]
RoundUp(n) == WordBytes * ((n + WordBytes - 1) \div WordBytes)

Expand(bytes, offset) ==
    IF Len(bytes) <= offset
    THEN bytes \o Zeros(RoundUp(offset - Len(bytes)))
    ELSE bytes

AfterRead(bytes, offset, length) ==
    IF Len(bytes) < offset + length THEN Expand(bytes, offset + length) ELSE bytes

Slice(bytes, offset, length) ==
    SubSeq(bytes, offset + 1, IF offset + length < Len(bytes) THEN offset + length
                              ELSE Len(bytes))

\* A store beyond the end of a buffer is lost.
Put(bytes, offset, byte) ==
    IF offset < Len(bytes) THEN [bytes EXCEPT ![offset + 1] = byte] ELSE bytes

Write(bytes, offset, byte) ==
    Put(Expand(IF offset = 0 THEN Expand(bytes, WordBytes) ELSE bytes, offset),
        offset, byte)

Writes(bytes, offset, data) ==
    LET after[n \in 0..Len(data)] ==
            IF n = 0 THEN bytes
            ELSE Write(after[n - 1], offset + n - 1, data[n])
    IN  after[Len(data)]

Write32(bytes, offset, data) ==
    Writes(Expand(bytes, offset + Len(data)), offset, data)

----------------------------------------------------------------------------
(* Bytes and words.                                                        *)

\* The bytes from offset on; nothing is 0.
PaddedSlice(bytes, offset, length) ==
    [i \in 1..length |->
        IF offset + i \in 1..Len(bytes) THEN bytes[offset + i] ELSE 0]

Number(bytes) ==
    LET value[n \in 0..Len(bytes)] ==
            IF n = 0 THEN 0 ELSE 256 * value[n - 1] + bytes[n]
    IN  value[Len(bytes)]

Encoded(v) == [i \in 1..WordBytes |-> Digit(v, WordBytes - i)]

----------------------------------------------------------------------------
(* The opcodes.                                                            *)

Unary == {21, 25}                                        \* ISZERO, NOT
Binary == (1..7) \cup {10} \cup (16..20) \cup (22..24) \cup (26..29)
Ternary == {8, 9}                                        \* ADDMOD, MULMOD
Pure == Unary \cup Binary \cup Ternary

\* An operand is parsed, or its text given to BigInt, before the next is popped,
\* or all at the end.
ReadsFirst == {1, 2, 3, 7, 18, 19} \cup (26..29)
ReadsLast == {22, 23, 24}

Reads(op, v) ==
    /\ op \in {1, 2, 3, 7, 18, 19, 29} \cup ReadsLast => Parses(v)
    /\ op \in ReadsLast \cup (26..29) => HasDigits(v)

\* What was read is more than BigInt can hold.
TooLarge(op, x) ==
    CASE op = 25 -> ~IsNumber(x[1])
      [] op = 26 -> ~Fits(x[2], -ByteShift(x[1]))
      [] op = 27 -> ~Fits(x[2], x[1])
      [] op = 28 -> ~Fits(x[2], -x[1])
      [] op = 29 ->
            \/ ~Fits(Parse(x[2]), -Parse(x[1]))
            \/ ShiftRight(Parse(x[2]), Parse(x[1])) <= -Exponential
      [] OTHER -> FALSE

Result(op, x) ==
    CASE op = 1 -> Add(x[1], x[2])
      [] op = 2 -> Mul(x[1], x[2])
      [] op = 3 -> Sub(x[1], x[2])
      [] op = 6 -> Mod(x[1], x[2])
      [] op = 7 -> SMod(x[1], x[2])
      [] op = 8 -> AddMod(x[1], x[2], x[3])
      [] op = 9 -> MulMod(x[1], x[2], x[3])
      [] op = 16 -> Lt(x[1], x[2])
      [] op = 17 -> Gt(x[1], x[2])
      [] op = 18 -> SLt(x[1], x[2])
      [] op = 19 -> SGt(x[1], x[2])
      [] op = 20 -> Eq(x[1], x[2])
      [] op = 21 -> IsZero(x[1])
      [] op = 22 -> And(x[1], x[2])
      [] op = 23 -> Or(x[1], x[2])
      [] op = 24 -> Xor(x[1], x[2])
      [] op = 25 -> Not(x[1])
      [] op = 26 -> Byte(x[1], x[2])
      [] op = 27 -> Shl(x[1], x[2])
      [] op = 28 -> Shr(x[1], x[2])
      [] op = 29 -> Sar(x[1], x[2])

Results(op, x) ==
    CASE op \in {4, 5} -> Quotients(x[1], x[2])
      [] op = 10 -> Powers(x[1], x[2])
      [] OTHER -> {Result(op, x)}

Pushes == 96..127
Dups == 128..143
Swaps == 144..159
Logs == 160..164

\* What an opcode without operands pushes.
Environment == {48, 50, 51, 52, 54, 56, 58} \cup (65..72) \cup (88..90) \cup Pushes

Balance(address) == IF address \in DOMAIN Balances THEN Balances[address] ELSE 0

CallValue(op) ==
    CASE op \in {48, 50, 51} -> context.sender   \* ADDRESS, ORIGIN, CALLER
      [] op = 52 -> context.value
      [] op = 54 -> Len(context.data)
      [] op = 69 -> context.gasLimit
      [] op = 71 -> Balance(context.sender)

BlockValue(op) ==
    CASE op = 58 -> Blocks[Height].gasPrice
      [] op = 65 -> Blocks[Height].coinbase
      [] op = 66 -> Blocks[Height].timestamp
      [] op = 67 -> Height
      [] op = 68 -> Blocks[Height].difficulty
      [] op = 70 -> Blocks[Height].chainId
      [] op = 72 -> Blocks[Height].baseFee

MachineValue(op) ==
    CASE op = 56 -> Len(program)
      [] op = 88 -> pc
      [] op = 89 -> Len(memory)
      [] op = 90 -> gasLeft - 2

Argument(op) == Number(PaddedSlice(program, pc + 1, op - 95))

Value(op) ==
    CASE op \in {48, 50, 51, 52, 54, 69, 71} -> CallValue(op)
      [] op \in {58, 70, 72} \cup (65..68) -> BlockValue(op)
      [] op \in {56, 88, 89, 90} -> MachineValue(op)
      [] op \in Pushes -> Argument(op)

\* What an opcode pushes for one operand that is looked up; BALANCE looks up
\* the sender.
Lookups == {49, 53, 59, 63, 64, 84}

Known(op, key) ==
    /\ op \in {59, 63} => key \in DOMAIN Contracts
    /\ op = 64 => key \in DOMAIN Blocks

Calldataload(key) == Number(PaddedSlice(context.data, key, WordBytes))
Extcodesize(key) == Len(Contracts[key])
Extcodehash(key) == Keccak(Contracts[key])
Blockhash(key) == Blocks[key].hash
Sload(key) == IF key \in DOMAIN storage THEN storage[key] ELSE 0

Found(op, key) ==
    CASE op = 49 -> Balance(context.sender)
      [] op = 53 -> Calldataload(key)
      [] op = 59 -> Extcodesize(key)
      [] op = 63 -> Extcodehash(key)
      [] op = 64 -> Blockhash(key)
      [] op = 84 -> Sload(key)

Arity(op) ==
    CASE op \in Unary \cup Lookups -> 1
      [] op \in {80, 81, 86} -> 1                  \* POP, MLOAD, JUMP
      [] op \in Binary -> 2
      \* SHA3, MSTORE, MSTORE8, SSTORE, JUMPI, RETURN, REVERT
      [] op \in {32, 82, 83, 85, 87, 243, 253} -> 2
      [] op \in Ternary -> 3
      [] op \in {55, 57, 62} -> 3                  \* the copies
      [] op = 60 -> 4
      [] op \in Logs -> 2 + op - 160
      [] OTHER -> 0

StaticGas(op) ==
    CASE op \in {91, 62, 63} -> 1
      [] op \in {48, 50, 51, 52, 54, 56, 58, 61, 80} \cup (65..70) \cup {72}
                \cup (88..90) -> 2
      [] op \in {1, 3} \cup (16..29) \cup {53, 57} \cup (81..83)
                \cup (Pushes \cup Dups \cup Swaps) -> 3
      [] op \in {2, 4, 5, 6, 7, 71} -> 5
      [] op \in {8, 9, 86} -> 8
      [] op = 87 -> 10
      [] op = 64 -> 20
      [] op = 32 -> 30
      [] OTHER -> 0

\* Seeded fault: the length of PUSH is that of its argument.
LengthShort(op) == IF op \in Pushes THEN op - 95 ELSE IF op = 0 THEN 0 ELSE 1

\* Bytes of an opcode and its arguments; STOP has none.
Length(op) == IF op \in Pushes THEN op - 94 ELSE IF op = 0 THEN 0 ELSE 1

Jumpdest == 91

----------------------------------------------------------------------------
(* step.                                                                   *)

Running == pc < Len(program) /\ running /\ returnData = None
Op == program[pc + 1]

\* An opcode is loaded; CREATE and the calls are not modelled here.
At(op) ==
    /\ Running /\ pc # previousPc
    /\ Op = op
    /\ Computes(op, Popped(Arity(op)))

\* Bound: SHA3, the opcodes on memory and the look-ups by position or address
\* are modelled for numbers.
NumbersOnly == {32, 53, 55, 57, 59, 60, 63, 64, 81, 82, 83, 243, 253}

Popping(op) ==
    /\ At(op)
    /\ \A n \in 1..Arity(op) :
          ~Absent(n) /\ (op \in NumbersOnly => Operand(n) \in Int)

Call == UNCHANGED <<program, context, boots>>

SetPc(to) == pc' = to /\ previousPc' = pc

Charged(op) == gasLeft' = gasLeft - StaticGas(op)

Continues(op) ==
    /\ SetPc(pc + Length(op))
    /\ Charged(op)
    /\ outcome' = "done"
    /\ Call

\* The stack is all that it changes.
Leaves(op, items) ==
    /\ stack' = items
    /\ Continues(op)
    /\ UNCHANGED <<running, returnData, below, memory, storage>>

\* Seeded fault: the pc it failed at is not kept.
ThrowsAgain(what, items) ==
    /\ outcome' = what
    /\ stack' = items
    /\ last' = None
    /\ Call
    /\ UNCHANGED <<pc, previousPc, running, below, storage, gasLeft>>

\* What the opcode popped is gone, and it can not be tried again.
Throws(what, items) ==
    /\ previousPc' = pc
    /\ outcome' = what
    /\ stack' = items
    /\ last' = None
    /\ Call
    /\ UNCHANGED <<pc, running, below, storage, gasLeft>>

Fails(what, items) ==
    /\ Throws(what, items)
    /\ UNCHANGED <<returnData, memory>>

\* EvmStack.pop finds nothing.
Underflow(op) ==
    /\ At(op)
    /\ \E n \in 1..Arity(op) :
          /\ Absent(n) /\ \A m \in 1..(n - 1) : ~Absent(m)
          /\ op \in ReadsFirst => \A m \in 1..(n - 1) : Reads(op, Operand(m))
          /\ Fails("underflow", Dropped(n))

\* A negative operand is parsed, or a text is no integer's.
Misread(op) ==
    /\ At(op)
    /\ \E n \in 1..Arity(op) :
          /\ \A m \in 1..n : ~Absent(m)
          /\ ~Reads(op, Operand(n))
          /\ \/ /\ op \in ReadsFirst
                /\ \A m \in 1..(n - 1) : Reads(op, Operand(m))
                /\ Fails("error", Dropped(n))
             \/ /\ op \in ReadsLast
                /\ ~Absent(2)
                /\ Fails("error", Dropped(2))

Readable(op) == \A n \in 1..Arity(op) : Reads(op, Operand(n))

\* Bound: a power that is a fraction is not followed further.
Calculate(op) ==
    /\ Popping(op) /\ Readable(op)
    /\ LET x == Popped(Arity(op))
       IN  /\ op = 10 => ~Fraction(x[1], x[2])
           /\ IF TooLarge(op, x)
              THEN Fails("error", Dropped(Arity(op)))
              ELSE \E result \in Results(op, x) :
                      /\ Leaves(op, Append(Dropped(Arity(op)), result))
                      /\ last' = <<[op |-> op, operands |-> x, result |-> result]>>

Push(op) ==
    /\ At(op)
    /\ Leaves(op, Append(stack, Value(op)))
    /\ last' = None

Lookup(op) ==
    /\ Popping(op)
    /\ IF Known(op, Operand(1))
       THEN /\ Leaves(op, Append(Dropped(1), Found(op, Operand(1))))
            /\ last' = None
       ELSE Fails("error", Dropped(1))

Pop == Popping(80) /\ Leaves(80, Dropped(1)) /\ last' = None

Dup(op) ==
    /\ At(op)
    /\ Leaves(op, Append(stack, Peek(op - 127)))
    /\ last' = None

\* Beyond the bottom of the stack are the properties of the array.
Swap(op) ==
    /\ At(op)
    /\ LET top == Depth - 1
           other == top - (op - 143)
       IN  /\ stack' = [i \in 1..Depth |-> Cells(top, other, i - 1, stack[i])]
           /\ below' = [i \in DOMAIN below |-> Cells(top, other, -i, below[i])]
    /\ Continues(op)
    /\ last' = None
    /\ UNCHANGED <<running, returnData, memory, storage>>

\* LOG keeps nothing.
Log(op) ==
    /\ Popping(op)
    /\ Leaves(op, Dropped(Arity(op)))
    /\ last' = None

\* Seeded fault: STOP leaves running as it is.
StopRunsOn ==
    /\ At(0)
    /\ last' = None
    /\ Continues(0)
    /\ UNCHANGED <<running, stack, returnData, below, memory, storage>>

Stop ==
    /\ At(0)
    /\ running' = FALSE
    /\ last' = None
    /\ Continues(0)
    /\ UNCHANGED <<stack, returnData, below, memory, storage>>

\* isValidJump looks at the byte, not at where instructions start.
IsValidJump(to) == to \in 0..(Len(program) - 1) /\ program[to + 1] = Jumpdest

Jumps(op, to, items) ==
    IF IsValidJump(to)
    THEN /\ stack' = items
         /\ SetPc(to)
         /\ Charged(op)
         /\ outcome' = "done" /\ last' = None
         /\ Call
         /\ UNCHANGED <<running, returnData, below, memory, storage>>
    ELSE Fails("jump", items)

Jump == Popping(86) /\ Jumps(86, Operand(1), Dropped(1))

JumpIf ==
    /\ Popping(87)
    /\ IF Operand(2) # 0
       THEN Jumps(87, Operand(1), Dropped(2))
       ELSE Leaves(87, Dropped(2)) /\ last' = None

\* JUMPDEST does nothing.
Label == At(Jumpdest) /\ Leaves(Jumpdest, stack) /\ last' = None

\* The stack and the memory are all that it changes.
Uses(op, items, bytes) ==
    /\ stack' = items
    /\ memory' = bytes
    /\ Continues(op)
    /\ last' = None
    /\ UNCHANGED <<running, returnData, below, storage>>

Mload ==
    /\ Popping(81)
    /\ LET bytes == AfterRead(memory, Operand(1), WordBytes)
       IN  Uses(81, Append(Dropped(1), Number(Slice(bytes, Operand(1), WordBytes))),
                bytes)

Sha3 ==
    /\ Popping(32)
    /\ LET bytes == AfterRead(memory, Operand(1), Operand(2))
       IN  Uses(32, Append(Dropped(2), Keccak(Slice(bytes, Operand(1), Operand(2)))),
                bytes)

Mstore ==
    /\ Popping(82)
    /\ Uses(82, Dropped(2), Write32(memory, Operand(1), Encoded(Operand(2))))

Mstore8 ==
    /\ Popping(83)
    /\ Uses(83, Dropped(2), Write(memory, Operand(1), LastByte(Operand(2))))

Calldatacopy ==
    /\ Popping(55)
    /\ Uses(55, Dropped(3), Write32(memory, Operand(1),
            PaddedSlice(context.data, Operand(2), Operand(3))))

Codecopy ==
    /\ Popping(57)
    /\ Uses(57, Dropped(3), Writes(memory, Operand(1),
            PaddedSlice(program, Operand(2), Operand(3))))

Extcodecopy ==
    /\ Popping(60)
    /\ IF Operand(1) \in DOMAIN Contracts
       THEN Uses(60, Dropped(4), Writes(memory, Operand(2),
                PaddedSlice(Contracts[Operand(1)], Operand(3), Operand(4))))
       ELSE Fails("error", Dropped(4))

Sstore ==
    /\ Popping(85)
    /\ storage' = [k \in DOMAIN storage \cup {Operand(1)} |->
                     IF k = Operand(1) THEN Operand(2) ELSE storage[k]]
    /\ stack' = Dropped(2)
    /\ Continues(85)
    /\ last' = None
    /\ UNCHANGED <<running, returnData, below, memory>>

Return ==
    /\ Popping(243)
    /\ memory' = AfterRead(memory, Operand(1), Operand(2))
    /\ returnData' = Data(Slice(memory', Operand(1), Operand(2)))
    /\ stack' = Dropped(2)
    /\ Continues(243)
    /\ last' = None
    /\ UNCHANGED <<running, below, storage>>

Revert ==
    /\ Popping(253)
    /\ memory' = AfterRead(memory, Operand(1), Operand(2))
    /\ returnData' = Data(Slice(memory', Operand(1), Operand(2)))
    /\ Throws("reverted", Dropped(2))

\* INVALID is a revert without data.  SELFDESTRUCT is not implemented, and
\* without a call there is no return data to look at.
Invalid == At(254) /\ Fails("reverted", stack)
Unimplemented ==
    \/ Op \in {61, 255} /\ At(Op) /\ Fails("error", stack)
    \/ Popping(62) /\ Fails("error", Dropped(3))

Modelled == (0..10) \cup (16..29) \cup {32} \cup (48..72) \cup (80..91)
                \cup (96..164) \cup {243, 253, 254, 255}

\* CREATE, CALL, CALLCODE, DELEGATECALL, CREATE2, STATICCALL
Forks == {240, 241, 242, 244, 245, 250}

\* A byte that is no opcode is not even loaded.
Unknown ==
    /\ Running /\ pc # previousPc
    /\ Op \notin Modelled \cup Forks
    /\ outcome' = "unknown"
    /\ last' = None
    /\ UNCHANGED <<control, stack, below, memory, storage, gasLeft, boots>>

\* step again after it threw.
Stuck ==
    /\ Running /\ pc = previousPc
    /\ outcome' = "stuck"
    /\ last' = None
    /\ UNCHANGED <<control, stack, below, memory, storage, gasLeft, boots>>

\* 16 of gas for a byte of the call's data, 4 if it is 0; a buffer's map keeps
\* a byte each.
BaseGas(data) ==
    21000 + MapThenSumSet(LAMBDA i : IF data[i] = 0 THEN 4 ELSE 16, DOMAIN data)

Booted(p, c) ==
    /\ program' = p
    /\ context' = c
    /\ gasLeft' = c.gasLimit - BaseGas(c.data)
    /\ pc' = 0 /\ previousPc' = -1
    /\ running' = TRUE
    /\ returnData' = None
    /\ outcome' = "done" /\ last' = None

\* An Evm that has run, or threw, is given another program.
Boot ==
    /\ ~Running \/ outcome # "done"
    /\ boots < MaxBoots
    /\ boots' = boots + 1
    /\ \E boot \in Reboots : Booted(boot.program, boot.context)
    /\ UNCHANGED <<stack, below, memory, storage>>

\* A new Evm, booted.
Fresh(p, c) ==
    /\ program = p
    /\ context = c
    /\ gasLeft = c.gasLimit - BaseGas(c.data)
    /\ pc = 0 /\ previousPc = -1
    /\ running = TRUE
    /\ returnData = None
    /\ stack = <<>>
    /\ below = [i \in 1..17 |-> Undefined]
    /\ memory = <<>>
    /\ storage = <<>>
    /\ outcome = "done" /\ last = None
    /\ boots = 1

Init == \E boot \in Boots : Fresh(boot.program, boot.context)

Faults == Op \in Modelled /\ (Underflow(Op) \/ Misread(Op))

OnStack ==
    \/ Op \in Pure /\ Calculate(Op)
    \/ Op \in Environment /\ Push(Op)
    \/ Op \in Lookups /\ Lookup(Op)
    \/ Pop
    \/ Op \in Dups /\ Dup(Op)
    \/ Op \in Swaps /\ Swap(Op)
    \/ Op \in Logs /\ Log(Op)

OnMemory ==
    \/ Mload \/ Sha3 \/ Mstore \/ Mstore8
    \/ Calldatacopy \/ Codecopy \/ Extcodecopy

OnControl ==
    \/ Jump \/ JumpIf \/ Label
    \/ Stop \/ Return \/ Revert \/ Invalid \/ Unimplemented \/ Unknown \/ Stuck

Step == Running /\ gasLeft >= MinGas /\ (Faults \/ OnStack \/ OnMemory \/ Sstore \/ OnControl)

Next == Step \/ Boot

Spec == Init /\ [][Next]_vars

----------------------------------------------------------------------------
Numbers == Int \cup Specials
Items == Numbers \cup {Undefined}

Outcomes == {"done", "underflow", "error", "jump", "reverted", "unknown", "stuck"}

(* The type invariant.  An item is any BigNumber, or the undefined that DUP *)
(* and SWAP take from beyond the stack.                                     *)
TypeOK ==
    /\ program \in Seq(Nat)
    /\ pc \in Nat /\ previousPc \in Nat \cup {-1}
    /\ running \in BOOLEAN
    /\ stack \in Seq(Items)
    /\ below \in [1..17 -> Items]
    /\ \A i \in DOMAIN memory : memory[i] \in 0..255
    /\ \A key \in DOMAIN storage : key \in Numbers /\ storage[key] \in Numbers
    /\ gasLeft \in Int
    /\ outcome \in Outcomes
    /\ boots \in Nat

(* The guard of step against a program counter that is stuck is never what  *)
(* ends a program: it meets only an Evm one of whose steps threw before.    *)
StuckOnlyAfterThrow == Running /\ pc = previousPc => outcome # "done"

(* A step that threw is not taken back, and what it popped is gone.  Until  *)
(* it is booted such an Evm does nothing more, however often it is stepped. *)
ThrewIsDead ==
    [][outcome # "done" /\ boots' = boots
         => UNCHANGED <<stack, below, memory, storage, pc, gasLeft>>]_vars

\* The bytes of arguments that still follow the first p bytes; where there are
\* none an instruction starts.
ArgumentBytes(op) == IF op \in Pushes THEN op - 95 ELSE 0
ArgumentsAfter(code) ==
    LET left[p \in 0..Len(code)] ==
            IF p = 0 THEN 0
            ELSE LET before == left[p - 1]
                 IN  IF before > 0 THEN before - 1 ELSE ArgumentBytes(code[p])
    IN  left
Starts(code, p) == p \in 0..Len(code) /\ ArgumentsAfter(code)[p] = 0

(* A program whose arguments of PUSH hold no byte 0x5b is run from          *)
(* instruction to instruction: no jump, and no argument, leads into one.    *)
RunsInstructions ==
    (\A p \in 1..Len(program) :
        program[p] = Jumpdest => Starts(program, p - 1))
    => pc >= Len(program) \/ Starts(program, pc)

\* The same opcodes of the EVM, on words.
SignedWord(w) == IF w >= Modulus \div 2 THEN w - Modulus ELSE w

Expected(op, x) ==
    CASE op = 1 -> (x[1] + x[2]) % Modulus
      [] op = 2 -> (SignedWord(x[1]) * SignedWord(x[2])) % Modulus
      [] op = 3 -> (x[1] - x[2]) % Modulus
      [] op = 4 -> x[1] \div x[2]
      [] op = 5 -> TruncatedDiv(SignedWord(x[1]), SignedWord(x[2])) % Modulus
      [] op = 6 -> x[1] % x[2]
      [] op = 7 -> TruncatedMod(SignedWord(x[1]), SignedWord(x[2])) % Modulus
      [] op = 8 -> (x[1] + x[2]) % x[3]
      [] op = 9 -> (x[1] * x[2]) % x[3]
      [] op = 10 -> IF x[2] = 0 THEN 1 ELSE (x[1]^x[2]) % Modulus
      [] op = 16 -> FromBoolean(x[1] < x[2])
      [] op = 17 -> FromBoolean(x[1] > x[2])
      [] op = 18 -> FromBoolean(SignedWord(x[1]) < SignedWord(x[2]))
      [] op = 19 -> FromBoolean(SignedWord(x[1]) > SignedWord(x[2]))
      [] op = 20 -> FromBoolean(x[1] = x[2])
      [] op = 21 -> FromBoolean(x[1] = 0)
      [] op = 22 -> BitsTotal(Bits(x[1]) \cap Bits(x[2]))
      [] op = 23 -> BitsTotal(Bits(x[1]) \cup Bits(x[2]))
      [] op = 24 -> BitsTotal({i \in 0..Width : Bit(x[1], i) # Bit(x[2], i)})
      [] op = 25 -> Modulus - 1 - x[1]
      [] op = 26 -> IF x[1] < WordBytes
                    THEN (x[2] \div 256^(WordBytes - 1 - x[1])) % 256 ELSE 0
      [] op = 27 -> IF x[1] < 8 * WordBytes THEN (x[2] * PowerOf2[x[1]]) % Modulus ELSE 0
      [] op = 28 -> IF x[1] < 8 * WordBytes THEN x[2] \div PowerOf2[x[1]] ELSE 0
      [] op = 29 -> IF x[1] < 8 * WordBytes
                    THEN (SignedWord(x[2]) \div PowerOf2[x[1]]) % Modulus
                    ELSE IF SignedWord(x[2]) < 0 THEN Modulus - 1 ELSE 0

\* Divided by 0, where the EVM has 0 and BigNumber no number, and a power beyond
\* BigNumber's range.
Degenerate(op, x) ==
    \/ op \in {4, 5, 6, 7} /\ x[2] = 0
    \/ op \in Ternary /\ x[3] = 0
    \/ op = 10 /\ x[2] # 0 /\ ~(Magnitude(x[1]^x[2]) < Largest)

\* Words whose first four bits are 0, and what NOT and DIV keep exactly.
Exact(op, x) ==
    /\ \A i \in DOMAIN x : x[i] \in 0..(Modulus \div 16 - 1)
    /\ op # 26 /\ ~Degenerate(op, x)
    /\ op = 25 => BitLength(x[1]) <= Precision
    /\ op \in {4, 5} => x[2] < 2 * Units

\* Any words, for ADD, MUL, SUB, MULMOD, EXP, AND, OR, XOR, SHL and SHR: a word
\* from 2^252 on is parsed as negative, the EVM does so from 2^255 on, and both
\* are congruent to the word.
Modular(op, x) ==
    /\ op \in {1, 2, 3, 9, 10, 22, 23, 24, 27, 28}
    /\ \A i \in DOMAIN x : x[i] \in 0..(Modulus - 1)
    /\ ~Degenerate(op, x)

(* What an opcode that does not throw leaves is the EVM's word, or a number *)
(* congruent to it: a sum or a product is not reduced, a difference below 0 *)
(* stays negative.  It is so of words below 2^252 for every opcode but BYTE, *)
(* which is wrong on all but single bytes; of all words for those that      *)
(* respect a congruence, and not for DIV, SDIV, MOD, SMOD, ADDMOD, the       *)
(* comparisons, NOT and SAR.  Of a division by 0, of what NOT and DIV round *)
(* and of a power beyond BigNumber's range the EVM has another word.        *)
ComputesWords ==
    \A i \in DOMAIN last :
        \/ Exact(last[i].op, last[i].operands)
        \/ Modular(last[i].op, last[i].operands)
        => last[i].result % Modulus = Expected(last[i].op, last[i].operands)
=============================================================================
