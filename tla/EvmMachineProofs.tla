--------------------------- MODULE EvmMachineProofs ---------------------------
(***************************************************************************)
(* For every program, context and word size, and for every sequence of      *)
(* boots and steps: what the comparison of pc with previousPc in Evm.step   *)
(* can meet, what an Evm one of whose steps threw still does, that a program *)
(* is run from instruction to instruction, and what its opcodes calculate.   *)
(***************************************************************************)
EXTENDS EvmMachine, SequenceTheorems, WellFoundedInduction, TLAPS

\* What step throws after it has kept pc.
Thrown == {"underflow", "error", "jump", "reverted", "stuck"}

Typed ==
    /\ program \in Seq(0..255)
    /\ pc \in Nat /\ previousPc \in Int
    /\ boots \in Nat
    /\ outcome \in Outcomes

(* The inductive invariant: only STOP leaves pc where it was without having *)
(* thrown, and then the Evm does not run; after an exception pc is the one   *)
(* step refuses, or its byte is no opcode.                                  *)
IInv ==
    /\ Typed
    /\ outcome = "done" /\ pc = previousPc => ~running
    /\ outcome \in Thrown => pc = previousPc
    /\ outcome = "unknown" => Op \notin Modelled \cup Forks

----------------------------------------------------------------------------
(* One lemma for each way a step ends.                                      *)

(* A step that goes on to the next opcode: only STOP has no length.          *)
LEMMA ContinuesKeepsIInv ==
    ASSUME IInv, NEW op \in Nat, op # 0, Continues(op)
    PROVE  IInv'
<1>1. Length(op) \in Nat \ {0}
  <2>1. CASE op \in Pushes
    BY <2>1 DEF Length, Pushes
  <2>2. CASE op \notin Pushes
    BY <2>2 DEF Length
  <2> QED
    BY <2>1, <2>2
<1>2. pc' = pc + Length(op) /\ previousPc' = pc /\ outcome' = "done"
  BY DEF Continues, SetPc
<1>3. program' = program /\ boots' = boots
  BY DEF Continues, Call
<1>4. pc' \in Nat /\ previousPc' \in Int /\ pc' # previousPc'
  BY <1>1, <1>2 DEF IInv, Typed
<1> QED
  BY <1>2, <1>3, <1>4 DEF IInv, Typed, Outcomes, Thrown

(* A step that throws keeps the pc it threw at.                             *)
LEMMA ThrowsKeepsIInv ==
    ASSUME IInv, NEW what \in Outcomes \ {"done", "unknown"}, NEW items,
           Throws(what, items)
    PROVE  IInv'
<1>1. pc' = pc /\ previousPc' = pc /\ outcome' = what
  BY DEF Throws
<1>2. program' = program /\ boots' = boots
  BY DEF Throws, Call
<1> QED
  BY <1>1, <1>2 DEF IInv, Typed, Thrown

(* A jump does not lead to itself: where it leads is a JUMPDEST.             *)
LEMMA JumpsKeepsIInv ==
    ASSUME IInv, NEW op \in {86, 87}, At(op), NEW to, NEW items, Jumps(op, to, items)
    PROVE  IInv'
<1>1. Op = op
  BY DEF At
<1>2. CASE IsValidJump(to)
  <2>1. pc' = to /\ previousPc' = pc /\ outcome' = "done"
    BY <1>2 DEF Jumps, SetPc
  <2>2. program' = program /\ boots' = boots
    BY <1>2 DEF Jumps, Call
  <2>3. Len(program) \in Nat
    BY DEF IInv, Typed
  <2>4. to \in Nat
    BY <1>2, <2>3 DEF IsValidJump
  <2>5. to # pc
    BY <1>1, <1>2 DEF IsValidJump, Op, Jumpdest
  <2> QED
    BY <2>1, <2>2, <2>4, <2>5 DEF IInv, Typed, Outcomes, Thrown
<1>3. CASE ~IsValidJump(to)
  <2>1. Throws("jump", items)
    BY <1>3 DEF Jumps, Fails
  <2> QED
    BY <2>1, ThrowsKeepsIInv DEF Outcomes
<1> QED
  BY <1>2, <1>3

(* Where nothing moves only what step threw changes.                         *)
LEMMA StillKeepsIInv ==
    ASSUME IInv, UNCHANGED <<control, boots>>,
           \/ outcome' = "unknown" /\ Op \notin Modelled \cup Forks
           \/ outcome' = "stuck" /\ pc = previousPc
           \/ outcome' = outcome
    PROVE  IInv'
<1>1. program' = program /\ pc' = pc /\ previousPc' = previousPc
      /\ running' = running /\ boots' = boots
  BY DEF control
<1>2. Op' = Op
  BY <1>1 DEF Op
<1> QED
  BY <1>1, <1>2 DEF IInv, Typed, Outcomes, Thrown

----------------------------------------------------------------------------
(* The actions, by the opcodes they are for.                                *)

(* An operand that is missing, or cannot be parsed, ends the step.         *)
LEMMA FaultsKeepIInv ==
    ASSUME IInv, Faults
    PROVE  IInv'
<1>1. CASE Underflow(Op)
  <2>1. PICK items : Throws("underflow", items)
    BY <1>1 DEF Underflow, Fails
  <2> QED
    BY <2>1, ThrowsKeepsIInv DEF Outcomes
<1>2. CASE Misread(Op)
  <2>1. PICK items : Throws("error", items)
    BY <1>2 DEF Misread, Fails
  <2> QED
    BY <2>1, ThrowsKeepsIInv DEF Outcomes
<1> QED
  BY <1>1, <1>2 DEF Faults

(* An opcode that goes on, or fails, is not STOP.                            *)
LEMMA OnStackKeepsIInv ==
    ASSUME IInv, OnStack
    PROVE  IInv'
<1> DEFINE Ends(op) ==
        \/ Continues(op)
        \/ \E items : Throws("error", items)
<1>1. ASSUME NEW op \in Nat \ {0}, Ends(op)
      PROVE  IInv'
  BY <1>1, ContinuesKeepsIInv, ThrowsKeepsIInv DEF Outcomes
<1>2. CASE Op \in Pure /\ Calculate(Op)
  <2>1. Op \in Nat \ {0}
    BY <1>2 DEF Pure, Unary, Binary, Ternary
  <2>2. Ends(Op)
    BY <1>2 DEF Calculate, Leaves, Fails
  <2> QED
    BY <1>1, <2>1, <2>2
<1>3. CASE Op \in Environment /\ Push(Op)
  <2>1. Op \in Nat \ {0}
    BY <1>3 DEF Environment, Pushes
  <2> QED
    BY <1>1, <1>3, <2>1 DEF Push, Leaves
<1>4. CASE Op \in Lookups /\ Lookup(Op)
  <2>1. Op \in Nat \ {0}
    BY <1>4 DEF Lookups
  <2>2. Ends(Op)
    BY <1>4 DEF Lookup, Leaves, Fails
  <2> QED
    BY <1>1, <2>1, <2>2
<1>5. CASE Pop
  BY <1>1, <1>5 DEF Pop, Leaves
<1>6. CASE Op \in Dups /\ Dup(Op)
  <2>1. Op \in Nat \ {0}
    BY <1>6 DEF Dups
  <2> QED
    BY <1>1, <1>6, <2>1 DEF Dup, Leaves
<1>7. CASE Op \in Swaps /\ Swap(Op)
  <2>1. Op \in Nat \ {0}
    BY <1>7 DEF Swaps
  <2> QED
    BY <1>1, <1>7, <2>1 DEF Swap
<1>8. CASE Op \in Logs /\ Log(Op)
  <2>1. Op \in Nat \ {0}
    BY <1>8 DEF Logs
  <2> QED
    BY <1>1, <1>8, <2>1 DEF Log, Leaves
<1> QED
  BY <1>2, <1>3, <1>4, <1>5, <1>6, <1>7, <1>8 DEF OnStack

(* The opcodes on memory and SSTORE go on, or their operands end the step.  *)
LEMMA OnMemoryKeepsIInv ==
    ASSUME IInv, OnMemory \/ Sstore
    PROVE  IInv'
<1>1. \/ \E op \in {81, 32, 82, 83, 55, 57, 60, 85} : Continues(op)
      \/ \E items : Throws("error", items)
  BY DEF OnMemory, Sstore, Mload, Sha3, Mstore, Mstore8, Calldatacopy, Codecopy,
         Extcodecopy, Uses, Fails
<1> QED
  BY <1>1, ContinuesKeepsIInv, ThrowsKeepsIInv DEF Outcomes

(* Jumps move to a label, STOP stays and stops, the rest go on or throw.    *)
LEMMA OnControlKeepsIInv ==
    ASSUME IInv, OnControl
    PROVE  IInv'
<1>1. CASE Jump
  BY <1>1, JumpsKeepsIInv DEF Jump, Popping
<1>2. CASE JumpIf
  <2>1. At(87)
    BY <1>2 DEF JumpIf, Popping
  <2>2. CASE Operand(2) # 0
    BY <1>2, <2>1, <2>2, JumpsKeepsIInv DEF JumpIf
  <2>3. CASE Operand(2) = 0
    BY <1>2, <2>3, ContinuesKeepsIInv DEF JumpIf, Leaves
  <2> QED
    BY <2>2, <2>3
<1>3. CASE Label
  BY <1>3, ContinuesKeepsIInv DEF Label, Leaves, Jumpdest
<1>4. CASE Stop
  <2>1. running' = FALSE /\ outcome' = "done"
    BY <1>4 DEF Stop, Continues
  <2>2. pc' = pc /\ previousPc' = pc
    BY <1>4 DEF Stop, Continues, SetPc, Length, Pushes, IInv, Typed
  <2>3. program' = program /\ boots' = boots
    BY <1>4 DEF Stop, Continues, Call
  <2> QED
    BY <2>1, <2>2, <2>3 DEF IInv, Typed, Outcomes, Thrown
<1>5. CASE Return
  BY <1>5, ContinuesKeepsIInv DEF Return
<1>6. CASE Revert \/ Invalid
  <2>1. PICK items : Throws("reverted", items)
    BY <1>6 DEF Revert, Invalid, Fails
  <2> QED
    BY <2>1, ThrowsKeepsIInv DEF Outcomes
<1>7. CASE Unimplemented
  <2>1. PICK items : Throws("error", items)
    BY <1>7 DEF Unimplemented, Fails
  <2> QED
    BY <2>1, ThrowsKeepsIInv DEF Outcomes
<1>8. CASE Unknown
  BY <1>8, StillKeepsIInv DEF Unknown
<1>9. CASE Stuck
  BY <1>9, StillKeepsIInv DEF Stuck
<1> QED
  BY <1>1, <1>2, <1>3, <1>4, <1>5, <1>6, <1>7, <1>8, <1>9 DEF OnControl

(* A booted Evm is at 0, with nothing thrown.                              *)
LEMMA BootKeepsIInv ==
    ASSUME IInv, Boot
    PROVE  IInv'
<1>1. PICK boot \in Reboots : Booted(boot.program, boot.context)
  BY DEF Boot
<1>2. program' \in Seq(0..255)
  BY <1>1, ProgramsAreBytes DEF Booted
<1>3. pc' = 0 /\ previousPc' = -1 /\ outcome' = "done"
  BY <1>1 DEF Booted
<1>4. boots' \in Nat
  BY DEF Boot, IInv, Typed
<1> QED
  BY <1>2, <1>3, <1>4 DEF IInv, Typed, Outcomes, Thrown

(* The invariant holds of every Evm.                                        *)
THEOREM Invariant == Spec => []IInv
<1>1. Init => IInv
  <2> SUFFICES ASSUME Init PROVE IInv
    OBVIOUS
  <2>1. PICK boot \in Boots : Fresh(boot.program, boot.context)
    BY DEF Init
  <2>2. program \in Seq(0..255)
    BY <2>1, ProgramsAreBytes DEF Fresh
  <2> QED
    BY <2>1, <2>2 DEF Fresh, IInv, Typed, Outcomes, Thrown
<1>2. IInv /\ [Next]_vars => IInv'
  <2> SUFFICES ASSUME IInv, [Next]_vars PROVE IInv'
    OBVIOUS
  <2>1. CASE Step
    BY <2>1, FaultsKeepIInv, OnStackKeepsIInv, OnMemoryKeepsIInv, OnControlKeepsIInv
       DEF Step
  <2>2. CASE Boot
    BY <2>2, BootKeepsIInv
  <2>3. CASE UNCHANGED vars
    BY <2>3, StillKeepsIInv DEF vars
  <2> QED
    BY <2>1, <2>2, <2>3 DEF Next
<1> QED
  BY <1>1, <1>2, PTL DEF Spec

(* The guard of Evm.step against a pc that is stuck never ends a program    *)
(* whose steps all returned: none of them but STOP leaves pc where it was.   *)
THEOREM NeverStuckAlone == Spec => []StuckOnlyAfterThrow
<1>1. IInv => StuckOnlyAfterThrow
  BY DEF IInv, StuckOnlyAfterThrow, Running
<1> QED
  BY <1>1, Invariant, PTL

----------------------------------------------------------------------------
(* What does not throw for a stuck pc, or an unknown byte, is an opcode that *)
(* was loaded at a new pc.                                                  *)
LEMMA StepLoads ==
    ASSUME Step
    PROVE  \/ pc # previousPc /\ Op \in Modelled
           \/ Unknown
           \/ Stuck
<1>1. CASE Faults
  BY <1>1 DEF Faults, Underflow, Misread, At
<1>2. CASE OnStack
  <2>1. Op \in Modelled
    BY <1>2 DEF OnStack, Pure, Unary, Binary, Ternary, Environment, Pushes, Lookups,
                Dups, Swaps, Logs, Pop, Popping, At, Modelled
  <2>2. pc # previousPc
    BY <1>2 DEF OnStack, Calculate, Push, Lookup, Pop, Dup, Swap, Log, Popping, At
  <2> QED
    BY <2>1, <2>2
<1>3. CASE OnMemory \/ Sstore
  BY <1>3 DEF OnMemory, Sstore, Mload, Sha3, Mstore, Mstore8, Calldatacopy, Codecopy,
              Extcodecopy, Popping, At, Modelled
<1>4. CASE OnControl
  <2>1. CASE Jump \/ JumpIf \/ Label \/ Stop \/ Return \/ Revert \/ Invalid
    BY <2>1 DEF Jump, JumpIf, Label, Jumpdest, Stop, Return, Revert, Invalid, Popping,
                At, Modelled
  <2>2. CASE Unimplemented
    BY <2>2 DEF Unimplemented, Popping, At, Modelled
  <2> QED
    BY <1>4, <2>1, <2>2 DEF OnControl
<1> QED
  BY <1>1, <1>2, <1>3, <1>4 DEF Step

(* A step that threw is final: whatever is called, the Evm it left has the   *)
(* stack, memory, storage and gas that the exception left, until it is given *)
(* another program.  There is no way back to before the step.                *)
THEOREM ThrownStaysThrown == Spec => ThrewIsDead
<1>1. ASSUME IInv, [Next]_vars, outcome # "done", boots' = boots
      PROVE  UNCHANGED <<stack, below, memory, storage, pc, gasLeft>>
  <2>1. CASE Step
    <3>1. Unknown \/ Stuck
      BY <1>1, <2>1, StepLoads DEF IInv, Typed, Outcomes, Thrown
    <3> QED
      BY <3>1 DEF Unknown, Stuck, control
  <2>2. CASE Boot
    BY <1>1, <2>2 DEF Boot, IInv, Typed
  <2>3. CASE UNCHANGED vars
    BY <2>3 DEF vars, control
  <2> QED
    BY <1>1, <2>1, <2>2, <2>3 DEF Next
<1>2. IInv /\ [Next]_vars => [outcome # "done" /\ boots' = boots
         => UNCHANGED <<stack, below, memory, storage, pc, gasLeft>>]_vars
  BY <1>1
<1> QED
  BY <1>2, Invariant, PTL DEF Spec, ThrewIsDead

----------------------------------------------------------------------------
(* From instruction to instruction.  ArgumentsAfter is recursive: induction  *)
(* is on sets of numbers, which the library's orders give.                   *)

LEMMA SetInduction ==
    ASSUME NEW S \in SUBSET Nat, 0 \in S, \A n \in S : n + 1 \in S
    PROVE  S = Nat
<1> DEFINE Less == OpToRel(<, Nat)
<1> SUFFICES ASSUME Nat \ S # {} PROVE FALSE
  OBVIOUS
<1>1. PICK n \in Nat \ S : \A m \in Nat \ S : <<m, n>> \notin Less
  BY NatLessThanWellFounded, WFMin
<1>2. n \in Nat /\ n # 0
  OBVIOUS
<1> HIDE DEF Less
<1>3. n - 1 \in Nat /\ n - 1 < n /\ n = (n - 1) + 1
  BY <1>2
<1>4. <<n - 1, n>> \in Less
  BY <1>2, <1>3 DEF OpToRel, Less
<1>5. n - 1 \in S
  BY <1>1, <1>3, <1>4
<1> QED
  BY <1>1, <1>3, <1>5

(* What the definition of ArgumentsAfter says of the bytes up to n.          *)
Counts(code, n, left) ==
    left = [p \in 0 .. n |->
              IF p = 0 THEN 0
              ELSE IF left[p - 1] > 0 THEN left[p - 1] - 1 ELSE ArgumentBytes(code[p])]

(* There is such a function for the first n bytes, and so for all.           *)
LEMMA CountsExists ==
    ASSUME NEW code, NEW n \in Nat
    PROVE  \E left : Counts(code, n, left)
<1> DEFINE S == {k \in Nat : \E left : Counts(code, k, left)}
<1>1. 0 \in S
  <2>1. PICK left : left = [p \in 0 .. 0 |-> 0]
    OBVIOUS
  <2>2. Counts(code, 0, left)
    BY <2>1 DEF Counts
  <2> QED
    BY <2>2
<1>2. ASSUME NEW k \in S PROVE k + 1 \in S
  <2>1. PICK left : Counts(code, k, left)
    OBVIOUS
  <2>2. PICK more :
          more = [p \in 0 .. k + 1 |->
                    IF p = k + 1
                    THEN IF left[k] > 0 THEN left[k] - 1 ELSE ArgumentBytes(code[k + 1])
                    ELSE left[p]]
    OBVIOUS
  <2>3. \A p \in 0 .. k : more[p] = left[p]
    BY <2>2
  <2>4. ASSUME NEW p \in 0 .. k + 1
        PROVE  more[p] = IF p = 0 THEN 0
                         ELSE IF more[p - 1] > 0 THEN more[p - 1] - 1
                         ELSE ArgumentBytes(code[p])
    <3>1. CASE p = k + 1
      BY <2>2, <2>3, <3>1
    <3>2. CASE p # k + 1
      <4>1. p \in 0 .. k /\ (p # 0 => p - 1 \in 0 .. k)
        BY <3>2
      <4>2. left[p] = IF p = 0 THEN 0
                      ELSE IF left[p - 1] > 0 THEN left[p - 1] - 1
                      ELSE ArgumentBytes(code[p])
        BY <2>1, <4>1 DEF Counts
      <4> QED
        BY <2>3, <4>1, <4>2
    <3> QED
      BY <3>1, <3>2
  <2>5. Counts(code, k + 1, more)
    BY <2>2, <2>4 DEF Counts
  <2> QED
    BY <2>5
<1>3. S = Nat
  BY <1>1, <1>2, SetInduction
<1> QED
  BY <1>3

LEMMA ArgumentsAfterIs ==
    ASSUME NEW code \in Seq(0..255)
    PROVE  /\ ArgumentsAfter(code)[0] = 0
           /\ \A p \in 1 .. Len(code) :
                ArgumentsAfter(code)[p] =
                  IF ArgumentsAfter(code)[p - 1] > 0 THEN ArgumentsAfter(code)[p - 1] - 1
                  ELSE ArgumentBytes(code[p])
<1>1. \E left : Counts(code, Len(code), left)
  <2>1. Len(code) \in Nat
    OBVIOUS
  <2> QED
    BY <2>1, CountsExists
<1>2. ArgumentsAfter(code) = CHOOSE left : Counts(code, Len(code), left)
  BY DEF ArgumentsAfter, Counts
<1>3. Counts(code, Len(code), ArgumentsAfter(code))
  BY <1>1, <1>2
<1> QED
  BY <1>3 DEF Counts

(* Where an instruction starts the next one starts after its arguments.      *)
LEMMA NextStarts ==
    ASSUME NEW code \in Seq(0..255), NEW p \in Nat, p < Len(code), Starts(code, p)
    PROVE  LET next == p + Length(code[p + 1]) IN
           next >= Len(code) \/ Starts(code, next)
<1>1. PICK left : left = ArgumentsAfter(code)
  OBVIOUS
<1>2. Len(code) \in Nat /\ p + 1 \in 1 .. Len(code) /\ left[p] = 0
  BY <1>1 DEF Starts
<1>3. PICK op \in 0..255 : op = code[p + 1]
  <2>1. code[p + 1] \in 0..255
    BY <1>2, ElementOfSeq
  <2> QED
    BY <2>1
<1>4. left[p + 1] = ArgumentBytes(op)
  BY <1>1, <1>2, <1>3, ArgumentsAfterIs
<1>5. CASE op \notin Pushes
  <2>1. left[p + 1] = 0 /\ Length(op) \in {0, 1}
    BY <1>4, <1>5 DEF ArgumentBytes, Length
  <2>2. Starts(code, p + Length(op))
    BY <1>1, <1>2, <2>1 DEF Starts
  <2> QED
    BY <1>3, <2>2
<1>6. CASE op \in Pushes
  <2>1. PICK k \in Nat : k = op - 95 /\ Length(op) = k + 1 /\ ArgumentBytes(op) = k
    BY <1>6 DEF Pushes, Length, ArgumentBytes
  <2> DEFINE S == {j \in Nat : j <= k /\ p + 1 + j <= Len(code) => left[p + 1 + j] = k - j}
  <2>2. 0 \in S
    BY <1>2, <1>4, <2>1
  <2>3. ASSUME NEW j \in S PROVE j + 1 \in S
    <3> SUFFICES ASSUME j + 1 <= k, p + 1 + (j + 1) <= Len(code)
                 PROVE  left[p + 1 + (j + 1)] = k - (j + 1)
      OBVIOUS
    <3>1. left[p + 1 + j] = k - j
      BY <1>2
    <3>2. PICK q \in 1 .. Len(code) : q = p + 1 + (j + 1) /\ q - 1 = p + 1 + j
      BY <1>2
    <3>3. left[q] = IF left[q - 1] > 0 THEN left[q - 1] - 1 ELSE ArgumentBytes(code[q])
      BY <1>1, ArgumentsAfterIs
    <3>4. k - j > 0 /\ k - j - 1 = k - (j + 1)
      OBVIOUS
    <3> QED
      BY <3>1, <3>2, <3>3, <3>4
  <2>4. S = Nat
    <3> HIDE DEF S
    <3>1. S \in SUBSET Nat
      BY DEF S
    <3> QED
      BY <2>2, <2>3, <3>1, SetInduction
  <2>5. p + 1 + k <= Len(code) => left[p + 1 + k] = 0
    <3>1. k \in S
      BY <2>1, <2>4
    <3>2. k <= k /\ k - k = 0
      BY <2>1
    <3> QED
      BY <3>1, <3>2
  <2>6. PICK next \in Nat : next = p + 1 + k /\ next = p + Length(op)
    BY <2>1
  <2>7. next < Len(code) => Starts(code, next)
    BY <1>1, <1>2, <2>5, <2>6 DEF Starts
  <2> QED
    BY <1>2, <1>3, <2>6, <2>7
<1> QED
  BY <1>5, <1>6

(* Where a step leads: nowhere, to the next instruction, or to a label.      *)
LEMMA StepMoves ==
    ASSUME IInv, Step
    PROVE  /\ program' = program
           /\ \/ pc' = pc
              \/ pc' = pc + Length(Op)
              \/ IsValidJump(pc')
<1> DEFINE Moves ==
        \/ Continues(Op) \/ (\E what, items : Throws(what, items))
        \/ (UNCHANGED control)
        \/ \E op, to, items : Jumps(op, to, items)
<1> SUFFICES Moves
  BY DEF Continues, Throws, Jumps, Fails, SetPc, Call, control
<1>1. CASE Faults
  BY <1>1 DEF Faults, Underflow, Misread, Fails
<1>2. CASE OnStack
  BY <1>2 DEF OnStack, Calculate, Push, Lookup, Pop, Dup, Swap, Log, Popping, At, Leaves, Fails
<1>3. CASE OnMemory \/ Sstore
  BY <1>3 DEF OnMemory, Sstore, Mload, Sha3, Mstore, Mstore8, Calldatacopy, Codecopy,
              Extcodecopy, Popping, At, Uses, Fails
<1>4. CASE OnControl
  <2>1. CASE Jump \/ JumpIf \/ Label \/ Stop \/ Return
    BY <2>1 DEF Jump, JumpIf, Label, Stop, Return, Popping, At, Leaves
  <2>2. CASE Revert \/ Invalid \/ Unimplemented
    BY <2>2 DEF Revert, Invalid, Unimplemented, Fails
  <2> QED
    BY <1>4, <2>1, <2>2 DEF OnControl, Unknown, Stuck
<1> QED
  BY <1>1, <1>2, <1>3, <1>4 DEF Step

LEMMA BeginningStarts ==
    ASSUME NEW code \in Seq(0..255)
    PROVE  Starts(code, 0)
<1>1. Len(code) \in Nat
  OBVIOUS
<1> QED
  BY <1>1, ArgumentsAfterIs DEF Starts

(* As long as no argument of a PUSH holds a byte 0x5b, Evm.step loads no     *)
(* opcode out of the arguments of another: what isValidJump does not look    *)
(* at, where instructions start, then is of no consequence.                  *)
THEOREM FromInstructionToInstruction == Spec => []RunsInstructions
<1>1. Init => RunsInstructions
  <2> SUFFICES ASSUME Init PROVE RunsInstructions
    OBVIOUS
  <2>1. PICK boot \in Boots : Fresh(boot.program, boot.context)
    BY DEF Init
  <2>2. program \in Seq(0..255) /\ pc = 0
    BY <2>1, ProgramsAreBytes DEF Fresh
  <2> QED
    BY <2>2, BeginningStarts DEF RunsInstructions
<1>2. IInv /\ RunsInstructions /\ [Next]_vars => RunsInstructions'
  <2> SUFFICES ASSUME IInv, RunsInstructions, [Next]_vars,
                      (\A p \in 1..Len(program) :
                          program[p] = Jumpdest => Starts(program, p - 1))'
               PROVE  pc' >= Len(program') \/ Starts(program', pc')
    BY DEF RunsInstructions
  <2>1. ASSUME program' = program, pc' = pc \/ pc' = pc + Length(Op) \/ IsValidJump(pc')
        PROVE  pc' >= Len(program') \/ Starts(program', pc')
    <3>1. \A p \in 1..Len(program) : program[p] = Jumpdest => Starts(program, p - 1)
      BY <2>1
    <3>2. program \in Seq(0..255) /\ Len(program) \in Nat /\ pc \in Nat
      BY DEF IInv, Typed
    <3>3. pc >= Len(program) \/ Starts(program, pc)
      BY <3>1 DEF RunsInstructions
    <3>4. CASE pc' = pc
      BY <2>1, <3>3, <3>4
    <3>5. CASE pc' = pc + Length(Op)
      <4>1. CASE pc >= Len(program)
        <5>1. Length(Op) \in Int /\ Length(Op) >= 0
          <6>1. CASE Op \in Pushes
            BY <6>1 DEF Length, Pushes
          <6>2. CASE Op \notin Pushes
            BY <6>2 DEF Length
          <6> QED
            BY <6>1, <6>2
        <5> QED
          BY <2>1, <3>2, <3>5, <4>1, <5>1
      <4>2. CASE pc < Len(program)
        BY <2>1, <3>2, <3>3, <3>5, <4>2, NextStarts DEF Op
      <4> QED
        BY <3>2, <4>1, <4>2
    <3>6. CASE IsValidJump(pc')
      <4>1. PICK to \in 0 .. Len(program) - 1 : to = pc' /\ program[to + 1] = Jumpdest
        BY <3>6 DEF IsValidJump
      <4>2. to + 1 \in 1 .. Len(program) /\ (to + 1) - 1 = to
        BY <3>2
      <4>3. Starts(program, to)
        BY <3>1, <4>1, <4>2
      <4> QED
        BY <2>1, <4>1, <4>3
    <3> QED
      BY <2>1, <3>4, <3>5, <3>6
  <2>2. CASE Step
    BY <2>1, <2>2, StepMoves
  <2>3. CASE Boot
    <3>1. PICK boot \in Reboots : Booted(boot.program, boot.context)
      BY <2>3 DEF Boot
    <3>2. PICK code \in Seq(0..255) : program' = code /\ pc' = 0
      BY <3>1, ProgramsAreBytes DEF Booted
    <3> QED
      BY <3>2, BeginningStarts
  <2>4. CASE UNCHANGED vars
    BY <2>1, <2>4 DEF vars, control
  <2> QED
    BY <2>2, <2>3, <2>4 DEF Next
<1> QED
  BY <1>1, <1>2, Invariant, PTL DEF Spec

----------------------------------------------------------------------------
(* Words.  Powers of two are recursive: that there is a function with their   *)
(* equation comes first.                                                     *)

Doubles(n, power) == power = [i \in 0 .. n |-> IF i = 0 THEN 1 ELSE 2 * power[i - 1]]

LEMMA DoublesExists ==
    ASSUME NEW n \in Nat
    PROVE  \E power : Doubles(n, power)
<1> DEFINE S == {k \in Nat : \E power : Doubles(k, power)}
<1>1. 0 \in S
  <2>1. PICK power : power = [i \in 0 .. 0 |-> 1]
    OBVIOUS
  <2>2. Doubles(0, power)
    BY <2>1 DEF Doubles
  <2> QED
    BY <2>2
<1>2. ASSUME NEW k \in S PROVE k + 1 \in S
  <2>1. PICK power : Doubles(k, power)
    OBVIOUS
  <2>2. PICK more : more = [i \in 0 .. k + 1 |-> IF i = k + 1 THEN 2 * power[k] ELSE power[i]]
    OBVIOUS
  <2>3. \A i \in 0 .. k : more[i] = power[i]
    BY <2>2
  <2>4. ASSUME NEW i \in 0 .. k + 1
        PROVE  more[i] = IF i = 0 THEN 1 ELSE 2 * more[i - 1]
    <3>1. CASE i = k + 1
      BY <2>2, <2>3, <3>1
    <3>2. CASE i # k + 1
      <4>1. i \in 0 .. k /\ (i # 0 => i - 1 \in 0 .. k)
        BY <3>2
      <4>2. power[i] = IF i = 0 THEN 1 ELSE 2 * power[i - 1]
        BY <2>1, <4>1 DEF Doubles
      <4> QED
        BY <2>3, <4>1, <4>2
    <3> QED
      BY <3>1, <3>2
  <2>5. Doubles(k + 1, more)
    BY <2>2, <2>4 DEF Doubles
  <2> QED
    BY <2>5
<1>3. S = Nat
  BY <1>1, <1>2, SetInduction
<1> QED
  BY <1>3

LEMMA DoublesAgree ==
    ASSUME NEW n \in Nat, NEW m \in Nat, n <= m,
           NEW low, Doubles(n, low), NEW high, Doubles(m, high)
    PROVE  \A i \in 0 .. n : low[i] = high[i]
<1> DEFINE S == {i \in Nat : i <= n => low[i] = high[i]}
<1>1. 0 \in S
  BY DEF Doubles
<1>2. ASSUME NEW i \in S PROVE i + 1 \in S
  <2> SUFFICES ASSUME i + 1 <= n PROVE low[i + 1] = high[i + 1]
    OBVIOUS
  <2>1. low[i] = high[i]
    OBVIOUS
  <2>2. low[i + 1] = 2 * low[i]
    <3>1. i + 1 \in 0 .. n /\ i + 1 # 0 /\ (i + 1) - 1 = i
      OBVIOUS
    <3> QED
      BY <3>1 DEF Doubles
  <2>3. high[i + 1] = 2 * high[i]
    <3>1. i + 1 \in 0 .. m /\ i + 1 # 0 /\ (i + 1) - 1 = i
      OBVIOUS
    <3> QED
      BY <3>1 DEF Doubles
  <2> QED
    BY <2>1, <2>2, <2>3
<1>3. S = Nat
  <2> HIDE DEF S
  <2>1. S \in SUBSET Nat
    BY DEF S
  <2> QED
    BY <1>1, <1>2, <2>1, SetInduction
<1> QED
  BY <1>3

LEMMA PowerOf2Is ==
    /\ PowerOf2[0] = 1
    /\ \A n \in Nat : PowerOf2[n + 1] = 2 * PowerOf2[n]
<1> DEFINE Up(n) == CHOOSE power : Doubles(n, power)
           All(f) == f = [n \in Nat |-> IF n = 0 THEN 1 ELSE 2 * f[n - 1]]
<1>1. PICK f : f = [n \in Nat |-> Up(n)[n]]
  OBVIOUS
<1>2. \A n \in Nat : Doubles(n, Up(n))
  BY DoublesExists
<1> HIDE DEF Up
<1>3. ASSUME NEW n \in Nat PROVE f[n] = IF n = 0 THEN 1 ELSE 2 * f[n - 1]
  <2>1. Up(n)[n] = IF n = 0 THEN 1 ELSE 2 * Up(n)[n - 1]
    BY <1>2 DEF Doubles
  <2>2. ASSUME n # 0 PROVE Up(n)[n - 1] = Up(n - 1)[n - 1]
    <3>1. n - 1 \in Nat /\ n - 1 <= n /\ n - 1 \in 0 .. n - 1
      BY <2>2
    <3>2. Doubles(n - 1, Up(n - 1)) /\ Doubles(n, Up(n))
      BY <1>2, <3>1
    <3> QED
      BY <3>1, <3>2, DoublesAgree
  <2>3. n # 0 => f[n - 1] = Up(n - 1)[n - 1]
    BY <1>1
  <2> QED
    BY <1>1, <2>1, <2>2, <2>3
<1>4. All(f)
  BY <1>1, <1>3
<1>5. PowerOf2 = CHOOSE g : All(g)
  BY DEF PowerOf2
<1>6. All(PowerOf2)
  BY <1>4, <1>5
<1> HIDE DEF All
<1>7. \A n \in Nat : PowerOf2[n] = IF n = 0 THEN 1 ELSE 2 * PowerOf2[n - 1]
  BY <1>6 DEF All
<1>8. ASSUME NEW n \in Nat PROVE PowerOf2[n + 1] = 2 * PowerOf2[n]
  <2>1. n + 1 \in Nat /\ n + 1 # 0 /\ (n + 1) - 1 = n
    OBVIOUS
  <2> QED
    BY <1>7, <2>1
<1> QED
  BY <1>7, <1>8

LEMMA PowerIsPositive ==
    ASSUME NEW n \in Nat
    PROVE  PowerOf2[n] \in Nat /\ PowerOf2[n] >= 1
<1> DEFINE S == {k \in Nat : PowerOf2[k] \in Nat /\ PowerOf2[k] >= 1}
<1>1. 0 \in S
  BY PowerOf2Is
<1>2. ASSUME NEW k \in S PROVE k + 1 \in S
  BY PowerOf2Is
<1>3. S = Nat
  BY <1>1, <1>2, SetInduction
<1> QED
  BY <1>3

LEMMA PowersMultiply ==
    ASSUME NEW m \in Nat, NEW n \in Nat
    PROVE  PowerOf2[m + n] = PowerOf2[m] * PowerOf2[n]
<1> DEFINE S == {k \in Nat : PowerOf2[m + k] = PowerOf2[m] * PowerOf2[k]}
<1>1. 0 \in S
  <2>1. PowerOf2[0] = 1 /\ m + 0 = m /\ PowerOf2[m] \in Nat
    BY PowerOf2Is, PowerIsPositive
  <2> QED
    BY <2>1
<1>2. ASSUME NEW k \in S PROVE k + 1 \in S
  <2>1. PICK a \in Nat, b \in Nat : a = PowerOf2[m] /\ b = PowerOf2[k]
    BY PowerIsPositive
  <2>2. m + (k + 1) = (m + k) + 1 /\ m + k \in Nat
    OBVIOUS
  <2>3. PowerOf2[m + (k + 1)] = 2 * (a * b)
    BY <2>1, <2>2, PowerOf2Is
  <2>4. PowerOf2[k + 1] = 2 * b
    BY <2>1, PowerOf2Is
  <2>5. 2 * (a * b) = a * (2 * b)
    OBVIOUS
  <2> QED
    BY <2>1, <2>3, <2>4, <2>5
<1>3. S = Nat
  <2> HIDE DEF S
  <2>1. S \in SUBSET Nat
    BY DEF S
  <2> QED
    BY <1>1, <1>2, <2>1, SetInduction
<1> QED
  BY <1>3

(* A smaller power divides a greater one, and its half if it is smaller.      *)
LEMMA PowersDivide ==
    ASSUME NEW m \in Nat, NEW n \in Nat, m <= n
    PROVE  /\ \E c \in Nat : c >= 1 /\ PowerOf2[n] = c * PowerOf2[m]
           /\ m < n => \E c \in Nat : c >= 1 /\ PowerOf2[n] = 2 * (c * PowerOf2[m])
           /\ PowerOf2[m] <= PowerOf2[n]
<1>1. PICK a \in Nat : a = PowerOf2[m] /\ a >= 1
  BY PowerIsPositive
<1>2. PICK c \in Nat : c = PowerOf2[n - m] /\ c >= 1
  <2>1. n - m \in Nat
    OBVIOUS
  <2> QED
    BY <2>1, PowerIsPositive
<1>3. PowerOf2[n] = c * a
  <2>1. n - m \in Nat /\ m + (n - m) = n
    OBVIOUS
  <2>2. PowerOf2[n] = a * c
    BY <1>1, <1>2, <2>1, PowersMultiply
  <2> QED
    BY <2>2
<1>4. c * a >= a
  BY <1>1, <1>2
<1>5. ASSUME m < n PROVE \E d \in Nat : d >= 1 /\ PowerOf2[n] = 2 * (d * PowerOf2[m])
  <2>1. n - 1 - m \in Nat /\ m + (n - 1 - m) = n - 1 /\ n - 1 \in Nat /\ (n - 1) + 1 = n
    BY <1>5
  <2>2. PICK d \in Nat : d = PowerOf2[n - 1 - m] /\ d >= 1
    BY <2>1, PowerIsPositive
  <2>3. PowerOf2[n - 1] = a * d
    BY <1>1, <2>1, <2>2, PowersMultiply
  <2>4. PowerOf2[n] = 2 * (a * d)
    BY <2>1, <2>3, PowerOf2Is
  <2>5. 2 * (a * d) = 2 * (d * a)
    OBVIOUS
  <2> QED
    BY <1>1, <2>2, <2>4, <2>5
<1> QED
  BY <1>1, <1>2, <1>3, <1>4, <1>5
----------------------------------------------------------------------------
(* Division.                                                                 *)

LEMMA Divides ==
    ASSUME NEW a \in Int, NEW b \in Nat, b >= 1
    PROVE  /\ a \div b \in Int /\ a % b \in 0 .. b - 1
           /\ a = ((a \div b) * b) + (a % b)
OBVIOUS

(* Quotient and remainder are the only ones.                                 *)
LEMMA DividesOnce ==
    ASSUME NEW q \in Int, NEW r \in Int, NEW b \in Nat, 0 <= r, r < b
    PROVE  ((q * b) + r) % b = r /\ ((q * b) + r) \div b = q
OBVIOUS

LEMMA SmallDivides ==
    ASSUME NEW a \in Nat, NEW b \in Nat, a < b
    PROVE  a % b = a /\ a \div b = 0
<1>1. a = (0 * b) + a
  OBVIOUS
<1> QED
  BY <1>1, DividesOnce

(* Multiples of the modulus change no remainder.                              *)
LEMMA Congruent ==
    ASSUME NEW a \in Int, NEW k \in Int, NEW b \in Nat, b >= 1
    PROVE  (a + (k * b)) % b = a % b /\ (a + (k * b)) \div b = (a \div b) + k
<1>1. PICK q \in Int, r \in Int :
          /\ q = a \div b /\ r = a % b /\ 0 <= r /\ r < b /\ a = (q * b) + r
  BY Divides
<1>2. a + (k * b) = ((q + k) * b) + r
  <2>1. a + (k * b) = ((q * b) + r) + (k * b)
    BY <1>1
  <2>2. ((q * b) + r) + (k * b) = ((q + k) * b) + r
    OBVIOUS
  <2> QED
    BY <2>1, <2>2
<1>3. q + k \in Int
  OBVIOUS
<1>4. (((q + k) * b) + r) % b = r /\ (((q + k) * b) + r) \div b = q + k
  BY <1>1, <1>3, DividesOnce
<1> QED
  BY <1>1, <1>2, <1>4

LEMMA ReducedTwice ==
    ASSUME NEW a \in Int, NEW b \in Nat, b >= 1
    PROVE  (a % b) % b = a % b
<1>1. a % b \in Nat /\ a % b < b
  BY Divides
<1> QED
  BY <1>1, SmallDivides

(* Nor do those of a factor change that of the product.                       *)
LEMMA ProductCongruent ==
    ASSUME NEW a \in Int, NEW c \in Int, NEW k \in Int, NEW l \in Int,
           NEW b \in Nat, b >= 1
    PROVE  ((a + (k * b)) * (c + (l * b))) % b = (a * c) % b
<1>1. PICK m \in Int : m = (a * l) + (k * c) + (k * l * b)
  OBVIOUS
<1>2. (a + (k * b)) * (c + (l * b)) = (a * c) + (m * b)
  <2>1. (a + (k * b)) * (c + (l * b))
          = (a * c) + (((a * l) + (k * c) + (k * l * b)) * b)
    OBVIOUS
  <2> QED
    BY <1>1, <2>1
<1>3. PICK d \in Int : d = a * c
  OBVIOUS
<1>4. (d + (m * b)) % b = d % b
  BY Congruent
<1> QED
  BY <1>2, <1>3, <1>4

LEMMA ModulusIs ==
    /\ Modulus \in Nat /\ Modulus >= 16
    /\ \E c \in Nat : c >= 1 /\ Modulus = 16 * c
    /\ 8 * WordBytes \in Nat /\ 8 * WordBytes >= 8 /\ 8 * WordBytes <= Width
    /\ Width \in Nat
<1>1. 8 * WordBytes \in Nat /\ 8 * WordBytes >= 8
  BY WordBytesPositive
<1>2. PowerOf2[4] = 16
  <2>1. PowerOf2[1] = 2
    <3>1. 0 + 1 = 1 /\ 0 \in Nat
      OBVIOUS
    <3> QED
      BY <3>1, PowerOf2Is
  <2>2. PowerOf2[2] = 4
    <3>1. 1 + 1 = 2 /\ 1 \in Nat
      OBVIOUS
    <3> QED
      BY <2>1, <3>1, PowerOf2Is
  <2>3. PowerOf2[3] = 8
    <3>1. 2 + 1 = 3 /\ 2 \in Nat
      OBVIOUS
    <3> QED
      BY <2>2, <3>1, PowerOf2Is
  <2>4. 3 + 1 = 4 /\ 3 \in Nat
    OBVIOUS
  <2> QED
    BY <2>3, <2>4, PowerOf2Is
<1>3. PICK n \in Nat : n = 8 * WordBytes /\ 4 <= n
  BY <1>1
<1>4. PICK c \in Nat : c >= 1 /\ PowerOf2[n] = c * 16
  BY <1>2, <1>3, PowersDivide
<1>5. Modulus = 16 * c
  BY <1>3, <1>4 DEF Modulus
<1> QED
  BY <1>1, <1>4, <1>5, WidthHoldsWords

(* A number parsed is congruent to the number, and converted too; words       *)
(* without the upper four bits are themselves.                               *)
LEMMA ParseIs ==
    ASSUME NEW a \in 0 .. Modulus - 1
    PROVE  /\ Parse(a) \in Int
           /\ \E k \in Int : Parse(a) = a + (k * Modulus)
           /\ a < Modulus \div 16 => Parse(a) = a
<1>1. Modulus \in Nat /\ a \in Nat
  BY ModulusIs
<1>2. a = a + (0 * Modulus) /\ a - Modulus = a + ((-1) * Modulus)
  BY <1>1
<1>3. Parse(a) = a + (0 * Modulus) \/ Parse(a) = a + ((-1) * Modulus)
  BY <1>1, <1>2 DEF Parse
<1>4. Parse(a) \in Int /\ (a < Modulus \div 16 => Parse(a) = a)
  BY <1>1 DEF Parse
<1> QED
  BY <1>3, <1>4

LEMMA ConvertIs ==
    ASSUME NEW v \in Int
    PROVE  /\ Convert(v) \in Int
           /\ Convert(v) % Modulus = v % Modulus
           /\ v >= 0 => Convert(v) = v
<1>1. PICK m \in Nat : m = Modulus /\ m >= 16
  BY ModulusIs
<1>2. PICK r \in Nat, k \in Int : r = v % m /\ k = -(v \div m + 1) /\ r < m
  BY <1>1, Divides
<1>3. r % m = r /\ (r + (k * m)) % m = r % m
  <2>1. r % m = r
    BY <1>1, <1>2, SmallDivides
  <2>2. r \in Int /\ k \in Int /\ m \in Nat /\ m >= 1
    BY <1>1
  <2>3. (r + (k * m)) % m = r % m
    BY <2>2, Congruent
  <2> QED
    BY <2>1, <2>3
<1>4. r - (v \div m + 1) * m = r + (k * m)
  <2>1. PICK l \in Int : l = v \div m + 1 /\ k = -l
    BY <1>1, <1>2
  <2>2. r - (l * m) = r + ((-l) * m)
    OBVIOUS
  <2> QED
    BY <2>1, <2>2
<1>5. Convert(v) = IF v < 0 THEN r + (k * m) ELSE v
  BY <1>1, <1>2, <1>4 DEF Convert
<1> QED
  BY <1>1, <1>2, <1>3, <1>5

(* Of small words, the signed word and the parsed word are the word.          *)
LEMMA SmallWords ==
    ASSUME NEW a \in 0 .. (Modulus \div 16) - 1
    PROVE  /\ a \in 0 .. Modulus - 1 /\ a \in Nat
           /\ Parse(a) = a /\ SignedWord(a) = a
BY ModulusIs DEF Parse, SignedWord

(* What JavaScript divides, where nothing is negative.                       *)
LEMMA NothingNegative ==
    ASSUME NEW a \in Nat, NEW b \in Nat, b >= 1
    PROVE  /\ TruncatedDiv(a, b) = a \div b
           /\ TruncatedMod(a, b) = a % b
           /\ a % b \in Nat /\ a % b < b
           /\ a \div b \in Nat
BY DEF TruncatedDiv, TruncatedMod, Signed, Magnitude

----------------------------------------------------------------------------
(* The bits of a number, and the number of bits.                              *)

LEMMA BitIs ==
    ASSUME NEW v \in Int, NEW i \in Nat
    PROVE  Bit(v, i) \in {0, 1}
<1>1. PICK p \in Nat : p = PowerOf2[i] /\ p >= 1
  BY PowerIsPositive
<1>2. PICK q \in Int : q = v \div p
  BY <1>1, Divides
<1>3. q % 2 \in {0, 1}
  BY <1>2
<1> QED
  BY <1>1, <1>2, <1>3 DEF Bit

(* A word has no bits above, and what is parsed of it the same bits below.    *)
LEMMA WordBits ==
    ASSUME NEW a \in 0 .. Modulus - 1, NEW i \in Nat
    PROVE  /\ i >= 8 * WordBytes => Bit(a, i) = 0
           /\ i < 8 * WordBytes => Bit(Parse(a), i) = Bit(a, i)
<1>1. /\ PowerOf2[i] \in Nat /\ PowerOf2[i] >= 1
      /\ Modulus \in Nat /\ Modulus >= 1 /\ 8 * WordBytes \in Nat
  BY PowerIsPositive, ModulusIs
<1>2. PICK p \in Nat : p = PowerOf2[i] /\ p >= 1
  BY <1>1
<1>3. PICK m \in Nat : m = Modulus /\ m >= 1
  BY <1>1
<1>4. PICK n \in Nat : n = 8 * WordBytes
  BY <1>1
<1>5. p = PowerOf2[i] /\ p >= 1 /\ m = Modulus /\ m >= 1 /\ n = 8 * WordBytes
  BY <1>2, <1>3, <1>4
<1>6. PowerOf2[n] = m
  BY <1>5 DEF Modulus
<1>7. a \in Nat /\ a < m
  BY <1>5
<1>8. ASSUME i >= n PROVE Bit(a, i) = 0
  <2>1. m <= p
    BY <1>5, <1>6, <1>8, PowersDivide
  <2>2. a \div p = 0
    BY <1>5, <1>7, <2>1, SmallDivides
  <2>3. 0 % 2 = 0
    OBVIOUS
  <2> QED
    BY <1>5, <2>2, <2>3 DEF Bit
<1>9. ASSUME i < n PROVE Bit(Parse(a), i) = Bit(a, i)
  <2>1. PICK c \in Nat : PowerOf2[n] = 2 * (c * PowerOf2[i])
    BY <1>5, <1>9, PowersDivide
  <2>2. m = (2 * c) * p
    <3>1. m = 2 * (c * p) /\ 2 * (c * p) = (2 * c) * p
      BY <1>5, <1>6, <2>1
    <3> QED
      BY <3>1
  <2>3. PICK k \in Int : Parse(a) = a + (k * m)
    BY <1>5, <1>7, ParseIs
  <2>4. PICK l \in Int : l = k * c
    OBVIOUS
  <2>5. a + (k * m) = a + ((2 * l) * p)
    <3>1. k * ((2 * c) * p) = (2 * (k * c)) * p
      OBVIOUS
    <3> QED
      BY <2>2, <2>4, <3>1
  <2>6. PICK q \in Int : q = a \div p
    <3>1. a \in Int /\ p \in Nat /\ p >= 1
      BY <1>5, <1>7
    <3>2. a \div p \in Int
      BY <3>1, Divides
    <3> QED
      BY <3>2
  <2>7. PICK j \in Int : j = 2 * l
    OBVIOUS
  <2>8. a \in Int
    BY <1>7
  <2>9. (a + (j * p)) \div p = q + j
    BY <1>5, <2>6, <2>8, Congruent
  <2>10. (q + j) % 2 = q % 2
    BY <2>7
  <2> QED
    BY <1>5, <2>3, <2>5, <2>6, <2>7, <2>9, <2>10 DEF Bit
<1> QED
  BY <1>5, <1>8, <1>9

(* The number that a set of bits makes, bit by bit.                          *)

Sums(bits, n, sum) ==
    sum = [i \in 0 .. n |->
             IF i = 0 THEN 0
             ELSE sum[i - 1] + (IF i - 1 \in bits THEN PowerOf2[i - 1] ELSE 0)]

LEMMA SumsExists ==
    ASSUME NEW bits, NEW n \in Nat
    PROVE  \E sum : Sums(bits, n, sum)
<1> DEFINE S == {k \in Nat : \E sum : Sums(bits, k, sum)}
<1>1. 0 \in S
  <2>1. PICK sum : sum = [i \in 0 .. 0 |-> 0]
    OBVIOUS
  <2>2. Sums(bits, 0, sum)
    BY <2>1 DEF Sums
  <2> QED
    BY <2>2
<1>2. ASSUME NEW k \in S PROVE k + 1 \in S
  <2>1. PICK sum : Sums(bits, k, sum)
    OBVIOUS
  <2> DEFINE part == IF k \in bits THEN PowerOf2[k] ELSE 0
  <2>2. PICK more :
            more = [i \in 0 .. k + 1 |-> IF i = k + 1 THEN sum[k] + part ELSE sum[i]]
    OBVIOUS
  <2>3. \A i \in 0 .. k : more[i] = sum[i]
    BY <2>2
  <2>4. ASSUME NEW i \in 0 .. k + 1
        PROVE  more[i] = IF i = 0 THEN 0
                         ELSE more[i - 1] + (IF i - 1 \in bits THEN PowerOf2[i - 1] ELSE 0)
    <3>1. CASE i = k + 1
      <4>1. i # 0 /\ i - 1 = k /\ k \in 0 .. k
        BY <3>1
      <4>2. more[i] = sum[k] + part
        BY <2>2, <3>1
      <4>3. more[k] = sum[k]
        BY <2>3, <4>1
      <4> QED
        BY <4>1, <4>2, <4>3
    <3>2. CASE i # k + 1
      <4>1. i \in 0 .. k /\ (i # 0 => i - 1 \in 0 .. k)
        BY <3>2
      <4>2. sum[i] = IF i = 0 THEN 0
                     ELSE sum[i - 1] + (IF i - 1 \in bits THEN PowerOf2[i - 1] ELSE 0)
        BY <2>1, <4>1 DEF Sums
      <4> QED
        BY <2>3, <4>1, <4>2
    <3> QED
      BY <3>1, <3>2
  <2>5. Sums(bits, k + 1, more)
    BY <2>2, <2>4 DEF Sums
  <2> QED
    BY <2>5
<1>3. S = Nat
  BY <1>1, <1>2, SetInduction
<1> QED
  BY <1>3

LEMMA BitSumsIs ==
    ASSUME NEW bits
    PROVE  /\ BitSums(bits)[0] = 0
           /\ \A n \in 0 .. Width - 1 :
                 BitSums(bits)[n + 1]
                   = BitSums(bits)[n] + (IF n \in bits THEN PowerOf2[n] ELSE 0)
<1>1. \E sum : Sums(bits, Width, sum)
  BY SumsExists, ModulusIs
<1>2. Sums(bits, Width, BitSums(bits))
  <2>1. BitSums(bits) = CHOOSE sum : Sums(bits, Width, sum)
    BY DEF BitSums, Sums
  <2> QED
    BY <1>1, <2>1
<1>3. BitSums(bits)[0] = 0
  BY <1>2, ModulusIs DEF Sums
<1>4. ASSUME NEW n \in 0 .. Width - 1
      PROVE  BitSums(bits)[n + 1]
               = BitSums(bits)[n] + (IF n \in bits THEN PowerOf2[n] ELSE 0)
  <2>1. n + 1 \in 0 .. Width /\ n + 1 # 0 /\ (n + 1) - 1 = n
    BY ModulusIs
  <2> QED
    BY <1>2, <2>1 DEF Sums
<1> QED
  BY <1>3, <1>4

(* The bits below the n-th make less than its power.                         *)
LEMMA SumsBounded ==
    ASSUME NEW bits, NEW n \in 0 .. Width
    PROVE  BitSums(bits)[n] \in Nat /\ BitSums(bits)[n] < PowerOf2[n]
<1> DEFINE sum == BitSums(bits)
           S == {k \in Nat : k <= Width => sum[k] \in Nat /\ sum[k] < PowerOf2[k]}
<1>1. 0 \in S
  BY BitSumsIs, PowerOf2Is
<1>2. ASSUME NEW k \in S PROVE k + 1 \in S
  <2> SUFFICES ASSUME k + 1 <= Width
               PROVE  sum[k + 1] \in Nat /\ sum[k + 1] < PowerOf2[k + 1]
    OBVIOUS
  <2>1. k \in Nat /\ k \in 0 .. Width - 1 /\ k <= Width
    BY ModulusIs
  <2>2. sum[k] \in Nat /\ sum[k] < PowerOf2[k]
    BY <2>1
  <2>3. sum[k + 1] = sum[k] + (IF k \in bits THEN PowerOf2[k] ELSE 0)
    BY <2>1, BitSumsIs
  <2>4. PowerOf2[k + 1] = 2 * PowerOf2[k] /\ PowerOf2[k] \in Nat
    BY <2>1, PowerOf2Is, PowerIsPositive
  <2> HIDE DEF sum
  <2> QED
    BY <2>2, <2>3, <2>4
<1>3. S = Nat
  <2> HIDE DEF S
  <2>1. S \in SUBSET Nat
    BY DEF S
  <2> QED
    BY <1>1, <1>2, <2>1, SetInduction
<1>4. n \in Nat /\ n <= Width
  BY ModulusIs
<1> QED
  BY <1>3, <1>4

LEMMA SumsAgree ==
    ASSUME NEW bits, NEW others, NEW n \in 0 .. Width,
           \A i \in 0 .. n - 1 : i \in bits <=> i \in others
    PROVE  BitSums(bits)[n] = BitSums(others)[n]
<1> DEFINE sum == BitSums(bits)
           other == BitSums(others)
           S == {k \in Nat : k <= n => sum[k] = other[k]}
<1>1. 0 \in S
  BY BitSumsIs
<1>2. ASSUME NEW k \in S PROVE k + 1 \in S
  <2> SUFFICES ASSUME k + 1 <= n PROVE sum[k + 1] = other[k + 1]
    OBVIOUS
  <2>1. k \in Nat /\ k \in 0 .. Width - 1 /\ k <= n /\ k \in 0 .. n - 1
    BY ModulusIs
  <2>2. sum[k] = other[k] /\ (k \in bits <=> k \in others)
    BY <2>1
  <2>3. sum[k + 1] = sum[k] + (IF k \in bits THEN PowerOf2[k] ELSE 0)
    BY <2>1, BitSumsIs
  <2>4. other[k + 1] = other[k] + (IF k \in others THEN PowerOf2[k] ELSE 0)
    BY <2>1, BitSumsIs
  <2> HIDE DEF sum, other
  <2> QED
    BY <2>2, <2>3, <2>4
<1>3. S = Nat
  <2> HIDE DEF S
  <2>1. S \in SUBSET Nat
    BY DEF S
  <2> QED
    BY <1>1, <1>2, <2>1, SetInduction
<1>4. n \in Nat
  BY ModulusIs
<1> QED
  BY <1>3, <1>4

(* The bits that a word does not have make a multiple of the modulus.         *)
LEMMA SumsAbove ==
    ASSUME NEW bits, NEW n \in Nat, 8 * WordBytes <= n, n <= Width
    PROVE  /\ \E k \in Int :
                 BitSums(bits)[n] = BitSums(bits)[8 * WordBytes] + (k * Modulus)
           /\ (\A i \in 8 * WordBytes .. Width : i \notin bits)
                 => BitSums(bits)[n] = BitSums(bits)[8 * WordBytes]
<1> DEFINE sum == BitSums(bits)
           word == 8 * WordBytes
           Nothing == \A i \in word .. Width : i \notin bits
           Above(j) == /\ \E k \in Int : sum[j] = sum[word] + (k * Modulus)
                       /\ Nothing => sum[j] = sum[word]
           S == {j \in Nat : word + j <= Width => Above(word + j)}
<1>1. word \in Nat /\ word <= Width /\ Modulus \in Nat /\ Width \in Nat
  BY ModulusIs
<1>2. sum[word] \in Nat
  BY <1>1, SumsBounded
<1>3. 0 \in S
  <2>1. sum[word] = sum[word] + (0 * Modulus) /\ word + 0 = word
    BY <1>1, <1>2
  <2> QED
    BY <2>1
<1>4. ASSUME NEW j \in S PROVE j + 1 \in S
  <2> SUFFICES ASSUME word + (j + 1) <= Width PROVE Above(word + (j + 1))
    OBVIOUS
  <2>1. PICK i \in Nat : i = word + j
    BY <1>1
  <2>2. /\ i \in 0 .. Width - 1 /\ word + (j + 1) = i + 1
        /\ i \in word .. Width /\ word <= i
    BY <1>1, <2>1
  <2>3. Above(i)
    BY <1>1, <2>1, <2>2
  <2>4. sum[i + 1] = sum[i] + (IF i \in bits THEN PowerOf2[i] ELSE 0)
    BY <2>2, BitSumsIs
  <2>5. Nothing => sum[i + 1] = sum[word]
    <3>1. ASSUME Nothing PROVE sum[i + 1] = sum[i] + 0
      BY <2>2, <2>4, <3>1
    <3> QED
      BY <1>2, <2>3, <3>1
  <2>6. \E k \in Int : sum[i + 1] = sum[word] + (k * Modulus)
    <3>1. PICK k \in Int : sum[i] = sum[word] + (k * Modulus)
      BY <2>3
    <3>2. PICK c \in Nat : PowerOf2[i] = c * Modulus
      BY <1>1, <2>2, PowersDivide DEF Modulus
    <3>3. PICK d \in Int : sum[i + 1] = sum[i] + (d * Modulus)
      <4>1. CASE i \in bits
        <5>1. sum[i + 1] = sum[i] + (c * Modulus) /\ c \in Int
          BY <2>4, <3>2, <4>1
        <5> QED
          BY <5>1
      <4>2. CASE i \notin bits
        <5>1. sum[i + 1] = sum[i] + (0 * Modulus)
          BY <1>1, <2>4, <4>2
        <5> QED
          BY <5>1
      <4> QED
        BY <4>1, <4>2
    <3>4. PICK s \in Nat, m \in Nat : s = sum[word] /\ m = Modulus
      BY <1>1, <1>2
    <3>5. (s + (k * m)) + (d * m) = s + ((k + d) * m) /\ k + d \in Int
      OBVIOUS
    <3> QED
      BY <3>1, <3>3, <3>4, <3>5
  <2> QED
    BY <2>2, <2>5, <2>6
<1>5. S = Nat
  <2> HIDE DEF S
  <2>1. S \in SUBSET Nat
    BY DEF S
  <2> QED
    BY <1>3, <1>4, <2>1, SetInduction
<1>6. n - word \in Nat /\ word + (n - word) = n
  BY <1>1
<1>7. Above(n)
  <2> HIDE DEF Above, word
  <2>1. n - word \in S
    BY <1>5, <1>6
  <2> QED
    BY <1>6, <2>1
<1> QED
  BY <1>7

(* Bits of which those of a word are the same make a number congruent to it.  *)
LEMMA FromBitsCongruent ==
    ASSUME NEW bits, NEW others,
           \A i \in 0 .. 8 * WordBytes - 1 : i \in bits <=> i \in others,
           \A i \in 8 * WordBytes .. Width : i \notin others
    PROVE  Convert(FromBits(bits)) % Modulus = BitsTotal(others)
<1>1. /\ 8 * WordBytes \in Nat /\ 8 * WordBytes <= Width /\ Width \in Nat
      /\ 8 * WordBytes \in 0 .. Width
  BY ModulusIs
<1>2. PICK m \in Nat : m = Modulus /\ m >= 1
  BY ModulusIs
<1>3. PICK s \in Nat : s = BitSums(others)[8 * WordBytes] /\ s < m
  BY <1>1, <1>2, SumsBounded DEF Modulus
<1>4. BitSums(bits)[8 * WordBytes] = s
  BY <1>1, <1>3, SumsAgree
<1>5. BitsTotal(others) = s
  BY <1>1, <1>3, SumsAbove DEF BitsTotal
<1>6. PICK k \in Int : BitsTotal(bits) = s + (k * m)
  <2>1. PICK k \in Int :
            BitSums(bits)[Width] = BitSums(bits)[8 * WordBytes] + (k * Modulus)
    BY <1>1, SumsAbove
  <2> QED
    BY <1>2, <1>4, <2>1 DEF BitsTotal
<1>7. PICK c \in Nat : PowerOf2[Width] = c * m
  BY <1>1, <1>2, PowersDivide DEF Modulus
<1>8. PICK d \in Int : FromBits(bits) = s + (d * m)
  <2>1. CASE Width \in bits
    <3>1. FromBits(bits) = (s + (k * m)) - (c * m)
      BY <1>6, <1>7, <2>1 DEF FromBits
    <3>2. (s + (k * m)) - (c * m) = s + ((k - c) * m) /\ k - c \in Int
      OBVIOUS
    <3> QED
      BY <3>1, <3>2
  <2>2. CASE Width \notin bits
    <3>1. FromBits(bits) = (s + (k * m)) - 0
      BY <1>6, <2>2 DEF FromBits
    <3>2. (s + (k * m)) - 0 = s + (k * m)
      OBVIOUS
    <3> QED
      BY <3>1, <3>2
  <2> QED
    BY <2>1, <2>2
<1>9. s + (d * m) \in Int /\ s \in Int
  OBVIOUS
<1>10. (s + (d * m)) % m = s
  <2>1. (s + (d * m)) % m = s % m
    BY <1>2, <1>9, Congruent
  <2>2. s % m = s
    BY <1>3, SmallDivides
  <2> QED
    BY <2>1, <2>2
<1>11. Convert(FromBits(bits)) % m = FromBits(bits) % m
  BY <1>2, <1>8, <1>9, ConvertIs
<1> QED
  BY <1>2, <1>5, <1>8, <1>10, <1>11

(* AND, OR and XOR of any words, though they are parsed as signed.            *)
LEMMA BitwiseWords ==
    ASSUME NEW a \in 0 .. Modulus - 1, NEW b \in 0 .. Modulus - 1
    PROVE  /\ And(a, b) % Modulus = BitsTotal(Bits(a) \cap Bits(b))
           /\ Or(a, b) % Modulus = BitsTotal(Bits(a) \cup Bits(b))
           /\ Xor(a, b) % Modulus
                = BitsTotal({i \in 0 .. Width : Bit(a, i) # Bit(b, i)})
<1> DEFINE A == Bits(Parse(a))
           B == Bits(Parse(b))
           differ == {i \in 0 .. Width : Bit(a, i) # Bit(b, i)}
<1>1. /\ 8 * WordBytes \in Nat /\ 8 * WordBytes <= Width /\ Width \in Nat
      /\ 0 .. 8 * WordBytes - 1 \subseteq 0 .. Width
      /\ 8 * WordBytes .. Width \subseteq 0 .. Width
  BY ModulusIs
<1>2. ASSUME NEW i \in 0 .. 8 * WordBytes - 1
      PROVE  (i \in A <=> i \in Bits(a)) /\ (i \in B <=> i \in Bits(b))
  <2>1. i \in Nat /\ i < 8 * WordBytes
    BY <1>1
  <2>2. Bit(Parse(a), i) = Bit(a, i) /\ Bit(Parse(b), i) = Bit(b, i)
    BY <2>1, WordBits
  <2> QED
    BY <2>2 DEF Bits
<1>3. ASSUME NEW i \in 8 * WordBytes .. Width
      PROVE  i \notin Bits(a) /\ i \notin Bits(b) /\ i \notin differ
  <2>1. i \in Nat /\ i >= 8 * WordBytes
    BY <1>1
  <2>2. Bit(a, i) = 0 /\ Bit(b, i) = 0
    BY <2>1, WordBits
  <2> QED
    BY <2>2 DEF Bits
<1>4. ASSUME NEW i \in 0 .. 8 * WordBytes - 1
      PROVE  i \in (A \cup B) \ (A \cap B) <=> i \in differ
  <2>1. i \in 0 .. Width /\ i \in Nat
    BY <1>1
  <2>2. a \in Int /\ b \in Int
    BY ModulusIs
  <2>3. Bit(a, i) \in {0, 1} /\ Bit(b, i) \in {0, 1}
    BY <2>1, <2>2, BitIs
  <2>4. (i \in Bits(a) <=> Bit(a, i) = 1) /\ (i \in Bits(b) <=> Bit(b, i) = 1)
    BY <2>1 DEF Bits
  <2>5. (i \in A <=> i \in Bits(a)) /\ (i \in B <=> i \in Bits(b))
    BY <1>2
  <2> HIDE DEF A, B
  <2> QED
    BY <2>1, <2>3, <2>4, <2>5
<1> HIDE DEF A, B, differ
<1>5. Convert(FromBits(A \cap B)) % Modulus = BitsTotal(Bits(a) \cap Bits(b))
  BY <1>2, <1>3, FromBitsCongruent
<1>6. Convert(FromBits(A \cup B)) % Modulus = BitsTotal(Bits(a) \cup Bits(b))
  BY <1>2, <1>3, FromBitsCongruent
<1>7. Convert(FromBits((A \cup B) \ (A \cap B))) % Modulus = BitsTotal(differ)
  BY <1>3, <1>4, FromBitsCongruent
<1> QED
  BY <1>5, <1>6, <1>7 DEF A, B, differ, And, Or, Xor

(* Every word has a length in bits, which NOT compares with the precision.    *)
LEMMA BitLengthIs ==
    ASSUME NEW v \in 0 .. Modulus - 1
    PROVE  BitLength(v) \in 0 .. Width
<1> DEFINE Least(n) == v < PowerOf2[n] /\ \A m \in 0 .. (n - 1) : v >= PowerOf2[m]
           S == {n \in Nat : n <= Width => \A m \in 0 .. n : v >= PowerOf2[m]}
<1>1. Width \in Nat /\ v \in Nat /\ v < PowerOf2[Width]
  <2>1. Width \in Nat /\ 8 * WordBytes \in Nat /\ 8 * WordBytes <= Width
    BY ModulusIs
  <2>2. Modulus <= PowerOf2[Width] /\ Modulus \in Nat /\ PowerOf2[Width] \in Nat
    BY <2>1, PowersDivide, PowerIsPositive, ModulusIs DEF Modulus
  <2> QED
    BY <2>1, <2>2
<1>2. \A n \in Nat : PowerOf2[n] \in Nat
  BY PowerIsPositive
<1>3. \E n \in 0 .. Width : Least(n)
  <2> SUFFICES ASSUME \A n \in 0 .. Width : ~Least(n) PROVE FALSE
    OBVIOUS
  <2>1. 0 \in S
    <3>1. 0 \in 0 .. Width /\ 0 .. (0 - 1) = {} /\ 0 .. 0 = {0}
      BY <1>1
    <3>2. ~(v < PowerOf2[0])
      BY <3>1
    <3> QED
      BY <1>1, <1>2, <3>1, <3>2
  <2>2. ASSUME NEW n \in S PROVE n + 1 \in S
    <3> SUFFICES ASSUME n + 1 <= Width
                 PROVE  \A m \in 0 .. n + 1 : v >= PowerOf2[m]
      OBVIOUS
    <3>1. n \in Nat /\ n <= Width /\ n + 1 \in 0 .. Width /\ (n + 1) - 1 = n
      BY <1>1
    <3>2. \A m \in 0 .. n : v >= PowerOf2[m]
      BY <3>1
    <3>3. ~(v < PowerOf2[n + 1])
      BY <3>1, <3>2
    <3>4. v >= PowerOf2[n + 1]
      BY <1>1, <1>2, <3>1, <3>3
    <3> QED
      BY <3>1, <3>2, <3>4
  <2>3. S = Nat
    <3> HIDE DEF S
    <3>1. S \in SUBSET Nat
      BY DEF S
    <3> QED
      BY <2>1, <2>2, <3>1, SetInduction
  <2>4. v >= PowerOf2[Width]
    BY <1>1, <2>3
  <2> QED
    BY <1>1, <1>2, <2>4
<1> QED
  BY <1>3 DEF BitLength

(* NOT of a word that a JavaScript number holds exactly.                      *)
LEMMA NotWord ==
    ASSUME NEW a \in 0 .. Modulus - 1, BitLength(a) <= Precision
    PROVE  Not(a) % Modulus = Modulus - 1 - a
<1>1. Modulus \in Nat /\ a \in Nat
  BY ModulusIs
<1>2. BitLength(a) - Precision <= 0
  BY BitLengthIs, ModulusIs, PrecisionPositive
<1>3. Rounded(a) = a
  BY <1>2 DEF Rounded
<1>4. Not(a) = Modulus - 1 - a
  BY <1>1, <1>3 DEF Not, ToNumber, Magnitude, Signed
<1>5. Modulus - 1 - a \in Nat /\ Modulus - 1 - a < Modulus
  BY <1>1
<1> QED
  BY <1>1, <1>4, <1>5, SmallDivides

(* DIV: half up at a unit's last place does not round up to the next number.   *)
LEMMA DivideSmall ==
    ASSUME NEW a \in Nat, NEW b \in Nat, b >= 1, b < 2 * Units
    PROVE  DivideFloor(a, b) = a \div b
<1>1. Units \in Nat /\ Units >= 1
  BY PrecisionPositive
<1>2. PICK q \in Int, r \in Int :
          /\ q = a \div b /\ 0 <= r /\ r < b /\ a = (q * b) + r
  <2>1. a \in Int
    OBVIOUS
  <2>2. a \div b \in Int /\ a % b \in 0 .. b - 1 /\ a = ((a \div b) * b) + (a % b)
    BY <2>1, Divides
  <2> QED
    BY <2>2
<1> DEFINE rest == 2 * r * Units + b
           part == rest \div (2 * b)
<1>3. 2 * a * Units + b = ((q * Units) * (2 * b)) + rest
  <2>1. 2 * ((q * b) + r) * Units + b = ((q * Units) * (2 * b)) + (2 * r * Units + b)
    BY <1>1
  <2> QED
    BY <1>2, <2>1
<1>4. rest \in Int /\ 0 <= rest /\ rest < (2 * b) * Units
  <2>1. r * Units <= (b - 1) * Units /\ 0 <= r * Units /\ r * Units \in Int
    BY <1>1, <1>2
  <2>2. PICK s \in Int, t \in Int : s = r * Units /\ t = b * Units
    BY <1>1
  <2>3. (b - 1) * Units = t - Units
    BY <1>1, <2>2
  <2>4. 2 * r * Units = 2 * s /\ (2 * b) * Units = 2 * t
    BY <1>1, <2>2
  <2> QED
    BY <1>1, <2>1, <2>2, <2>3, <2>4
<1>5. part \in Int /\ 0 <= part /\ part < Units
  <2>1. PICK d \in Nat : d = 2 * b /\ d >= 1
    OBVIOUS
  <2>2. PICK e \in Int : e = rest /\ 0 <= e /\ e < d * Units
    BY <1>4, <2>1
  <2>3. e \div d \in Int /\ e = ((e \div d) * d) + (e % d) /\ e % d \in 0 .. d - 1
    BY <2>1, <2>2, Divides
  <2>4. PICK p \in Int, s \in Int :
            p = e \div d /\ s = e % d /\ e = (p * d) + s /\ 0 <= s /\ s < d
    BY <2>3
  <2>5. 0 <= p
    <3>1. e = (p * d) + s /\ 0 <= e /\ s < d
      BY <2>2, <2>4
    <3>2. p <= -1 => p * d <= -d
      BY <2>1
    <3> QED
      BY <3>1, <3>2
  <2>6. p < Units
    <3>1. p * d < Units * d
      <4>1. d * Units = Units * d /\ p * d \in Int /\ Units * d \in Int
        BY <1>1
      <4> QED
        BY <2>2, <2>4, <4>1
    <3> QED
      BY <1>1, <2>1, <3>1
  <2> QED
    BY <2>1, <2>2, <2>4, <2>5, <2>6
<1> HIDE DEF rest
<1>6. (((q * Units) * (2 * b)) + rest) \div (2 * b) = part + (q * Units)
  <2>1. PICK k \in Int, d \in Nat : k = q * Units /\ d = 2 * b /\ d >= 1
    BY <1>1
  <2>2. (rest + (k * d)) \div d = (rest \div d) + k
    BY <1>4, <2>1, Congruent
  <2>3. (k * d) + rest = rest + (k * d)
    BY <1>4
  <2> QED
    BY <2>1, <2>2, <2>3
<1>7. Quotient(a, b) = part + (q * Units)
  BY <1>3, <1>6 DEF Quotient, Signed, Magnitude
<1> HIDE DEF part
<1>8. (part + (q * Units)) \div Units = q
  <2>1. part + (q * Units) = (q * Units) + part
    BY <1>1, <1>5
  <2>2. ((q * Units) + part) \div Units = q
    BY <1>1, <1>2, <1>5, DividesOnce
  <2> QED
    BY <2>1, <2>2
<1> QED
  BY <1>2, <1>7, <1>8 DEF DivideFloor

(* A shift to the right by the bits of a word leaves nothing of a word.       *)
LEMMA ShiftRightIs ==
    ASSUME NEW n \in Nat, NEW v \in 0 .. Modulus - 1
    PROVE  /\ ShiftRight(v, n) = IF n < 8 * WordBytes THEN v \div PowerOf2[n] ELSE 0
           /\ ShiftRight(v, n) \in 0 .. Modulus - 1
<1>1. /\ Modulus \in Nat /\ Modulus >= 16 /\ 8 * WordBytes \in Nat
      /\ 8 * WordBytes <= Width /\ Width \in Nat
  BY ModulusIs
<1>2. PICK p \in Nat : p = PowerOf2[n] /\ p >= 1
  BY PowerIsPositive
<1>3. v \in Nat /\ v < Modulus
  BY <1>1
<1>4. v \div p \in Nat /\ v \div p <= v
  <2>1. v \in Int
    BY <1>3
  <2>2. v \div p \in Int /\ v % p \in 0 .. p - 1 /\ v = ((v \div p) * p) + (v % p)
    BY <1>2, <2>1, Divides
  <2>3. PICK q \in Int : q = v \div p
    BY <2>2
  <2>4. PICK r \in Nat : r = v % p /\ r < p
    BY <1>2, <2>2
  <2>5. v = (q * p) + r
    BY <2>2, <2>3, <2>4
  <2>6. q <= -1 => q * p <= -p
    BY <1>2
  <2>7. q >= 0
    BY <1>3, <2>4, <2>5, <2>6
  <2>8. q * p >= q
    BY <1>2, <2>7
  <2>9. q * p \in Int
    OBVIOUS
  <2> QED
    BY <1>3, <2>3, <2>4, <2>5, <2>7, <2>8, <2>9
<1>5. n >= 8 * WordBytes => v \div p = 0
  <2> SUFFICES ASSUME n >= 8 * WordBytes PROVE v \div p = 0
    OBVIOUS
  <2>1. Modulus <= p
    BY <1>1, <1>2, PowersDivide DEF Modulus
  <2> QED
    BY <1>1, <1>2, <1>3, <2>1, SmallDivides
<1>6. ShiftRight(v, n) = IF n >= Width THEN 0 ELSE v \div p
  BY <1>1, <1>2, <1>3 DEF ShiftRight
<1>7. ShiftRight(v, n) = IF n < 8 * WordBytes THEN v \div p ELSE 0
  BY <1>1, <1>5, <1>6
<1>8. ShiftRight(v, n) \in 0 .. Modulus - 1
  BY <1>1, <1>3, <1>4, <1>7
<1> QED
  BY <1>2, <1>7, <1>8

LEMMA ShiftedWords ==
    ASSUME NEW a \in Nat, NEW b \in 0 .. Modulus - 1
    PROVE  /\ Shl(a, b) % Modulus
                = IF a < 8 * WordBytes THEN (b * PowerOf2[a]) % Modulus ELSE 0
           /\ Shr(a, b) % Modulus
                = IF a < 8 * WordBytes THEN b \div PowerOf2[a] ELSE 0
<1>1. Modulus \in Nat /\ Modulus >= 1 /\ 8 * WordBytes \in Nat /\ b \in Nat
  BY ModulusIs
<1>2. PICK p \in Nat : p = PowerOf2[a] /\ p >= 1
  BY PowerIsPositive
<1>3. PICK c \in Nat : c = b * p
  BY <1>1
<1>4. Shl(a, b) = IF a < 8 * WordBytes THEN c % Modulus ELSE 0
  <2>1. TruncatedMod(c, Modulus) = c % Modulus
    BY <1>1, NothingNegative
  <2> QED
    BY <1>1, <1>2, <1>3, <2>1 DEF Shl, ShiftedLeft
<1>5. (c % Modulus) % Modulus = c % Modulus /\ 0 % Modulus = 0
  <2>1. c \in Int
    OBVIOUS
  <2>2. (c % Modulus) % Modulus = c % Modulus
    BY <1>1, <2>1, ReducedTwice
  <2>3. 0 % Modulus = 0
    BY <1>1, SmallDivides
  <2> QED
    BY <2>2, <2>3
<1>6. PICK s \in Nat : s = ShiftRight(b, a) /\ s < Modulus
  BY <1>1, ShiftRightIs
<1>7. Shr(a, b) = s
  <2>1. TruncatedMod(s, Modulus) = s % Modulus
    BY <1>1, NothingNegative
  <2>2. s % Modulus = s
    BY <1>1, <1>6, SmallDivides
  <2> QED
    BY <1>6, <2>1, <2>2 DEF Shr, ShiftedRight
<1>8. s % Modulus = s
  BY <1>1, <1>6, SmallDivides
<1> QED
  BY <1>2, <1>3, <1>4, <1>5, <1>6, <1>7, <1>8, ShiftRightIs

(* ADD, SUB and MUL of words parsed as signed are congruent to the EVM's.     *)
LEMMA ParsedWords ==
    ASSUME NEW a \in 0 .. Modulus - 1, NEW b \in 0 .. Modulus - 1
    PROVE  /\ Add(a, b) % Modulus = (a + b) % Modulus
           /\ Sub(a, b) % Modulus = (a - b) % Modulus
           /\ Mul(a, b) % Modulus = (SignedWord(a) * SignedWord(b)) % Modulus
<1>1. PICK m \in Nat : m = Modulus /\ m >= 1
  BY ModulusIs
<1>2. a \in Int /\ b \in Int
  BY <1>1
<1>3. PICK k \in Int : Parse(a) = a + (k * m)
  <2>1. \E k \in Int : Parse(a) = a + (k * Modulus)
    BY ParseIs
  <2> QED
    BY <1>1, <2>1
<1>4. PICK l \in Int : Parse(b) = b + (l * m)
  <2>1. \E i \in Int : Parse(b) = b + (i * Modulus)
    BY ParseIs
  <2> QED
    BY <1>1, <2>1
<1>5. PICK i \in Int : SignedWord(a) = a + (i * m)
  <2>1. a = a + (0 * m) /\ a - m = a + ((-1) * m)
    BY <1>2
  <2>2. SignedWord(a) = a + (0 * m) \/ SignedWord(a) = a + ((-1) * m)
    BY <1>1, <2>1 DEF SignedWord
  <2> QED
    BY <2>2
<1>6. PICK j \in Int : SignedWord(b) = b + (j * m)
  <2>1. b = b + (0 * m) /\ b - m = b + ((-1) * m)
    BY <1>2
  <2>2. SignedWord(b) = b + (0 * m) \/ SignedWord(b) = b + ((-1) * m)
    BY <1>1, <2>1 DEF SignedWord
  <2> QED
    BY <2>2
<1>7. Add(a, b) % m = (a + b) % m
  <2>1. (a + (k * m)) + (b + (l * m)) = (a + b) + ((k + l) * m)
    BY <1>2
  <2>2. PICK c \in Int, d \in Int : c = a + b /\ d = k + l
    BY <1>2
  <2>3. (c + (d * m)) % m = c % m
    BY <1>1, Congruent
  <2>4. Add(a, b) = c + (d * m)
    BY <1>3, <1>4, <2>1, <2>2 DEF Add
  <2> QED
    BY <2>2, <2>3, <2>4
<1>8. Sub(a, b) % m = (a - b) % m
  <2>1. (a + (k * m)) - (b + (l * m)) = (a - b) + ((k - l) * m)
    BY <1>2
  <2>2. PICK c \in Int, d \in Int : c = a - b /\ d = k - l
    BY <1>2
  <2>3. (c + (d * m)) % m = c % m
    BY <1>1, Congruent
  <2>4. Sub(a, b) = c + (d * m)
    BY <1>3, <1>4, <2>1, <2>2 DEF Sub
  <2> QED
    BY <2>2, <2>3, <2>4
<1>9. Mul(a, b) % m = (SignedWord(a) * SignedWord(b)) % m
  <2>1. ((a + (k * m)) * (b + (l * m))) % m = (a * b) % m
    BY <1>1, <1>2, ProductCongruent
  <2>2. ((a + (i * m)) * (b + (j * m))) % m = (a * b) % m
    BY <1>1, <1>2, ProductCongruent
  <2> QED
    BY <1>3, <1>4, <1>5, <1>6, <2>1, <2>2 DEF Mul
<1> QED
  BY <1>1, <1>7, <1>8, <1>9

----------------------------------------------------------------------------
(* Every opcode.                                                             *)

LEMMA ArityIs ==
    ASSUME NEW op \in Pure
    PROVE  /\ op \in Nat
           /\ op \in {21, 25} => Arity(op) = 1
           /\ op \in {8, 9} => Arity(op) = 3
           /\ op \notin {8, 9, 21, 25} => Arity(op) = 2
<1>1. op \in Nat
  BY DEF Pure, Unary, Binary, Ternary
<1>2. CASE op \in {21, 25}
  BY <1>1, <1>2 DEF Arity, Unary, Binary, Ternary, Lookups, Logs
<1>3. CASE op \in {8, 9}
  BY <1>1, <1>3 DEF Arity, Unary, Binary, Ternary, Lookups, Logs
<1>4. CASE op \notin {8, 9, 21, 25}
  <2>1. op \in Binary
    BY <1>4 DEF Pure, Unary, Ternary
  <2>2. Arity(op) = 2
    BY <1>4, <2>1 DEF Arity, Unary, Binary, Ternary, Lookups, Logs
  <2> QED
    BY <1>1, <1>4, <2>2
<1> QED
  BY <1>1, <1>2, <1>3, <1>4

(* Division, remainder and powers of numbers are not special.                *)
LEMMA NumbersAreFinite ==
    ASSUME NEW a \in Int, NEW b \in Int
    PROVE  /\ {a, b} \cap Specials = {}
           /\ b # 0 => /\ Quotients(a, b) = {DivideFloor(a, b)}
                       /\ Mod(a, b) = TruncatedMod(a, b)
           /\ b > 0 => Powers(a, b) = {Exp(a, b)}
           /\ IsLess(a, b) <=> a < b
           /\ Eq(a, b) = FromBoolean(a = b)
<1>1. /\ a # NaN /\ b # NaN /\ a \notin Infinities /\ b \notin Infinities
      /\ b # Infinity /\ a # MinusInfinity /\ a # Infinity /\ b # MinusInfinity
  BY SpecialsAreNoNumbers DEF Infinities
<1>2. {a, b} \cap Specials = {} /\ a \notin Specials
  BY <1>1 DEF Specials
<1>3. ASSUME b # 0
      PROVE  Quotients(a, b) = {DivideFloor(a, b)} /\ Mod(a, b) = TruncatedMod(a, b)
  BY <1>1, <1>2, <1>3 DEF Quotients, Mod
<1>4. ASSUME b > 0
      PROVE  Powers(a, b) = {Exp(a, b)}
  BY <1>1, <1>4 DEF Powers, IsNegative
<1>5. IsLess(a, b) <=> a < b
  BY <1>1 DEF IsLess
<1>6. Eq(a, b) = FromBoolean(a = b)
  BY <1>1 DEF Eq
<1> QED
  BY <1>2, <1>3, <1>4, <1>5, <1>6

LEMMA ModularComputes ==
    ASSUME NEW op \in Pure, NEW x, DOMAIN x = 1 .. Arity(op),
           Modular(op, x), NEW result \in Results(op, x)
    PROVE  result % Modulus = Expected(op, x)
<1>1. op \in {1, 2, 3, 9, 10, 22, 23, 24, 27, 28}
  BY DEF Modular
<1>2. 1 \in DOMAIN x /\ 2 \in DOMAIN x /\ (op = 9 => 3 \in DOMAIN x)
  BY <1>1, ArityIs
<1>3. PICK a \in 0 .. Modulus - 1, b \in 0 .. Modulus - 1 : a = x[1] /\ b = x[2]
  BY <1>2 DEF Modular
<1>4. Modulus \in Nat /\ Modulus >= 16 /\ a \in Nat /\ b \in Nat
  BY ModulusIs
<1>15. op # 10 => result = Result(op, x)
  BY <1>1 DEF Results
<1>5. CASE op = 1
  BY <1>3, <1>5, <1>15, ParsedWords DEF Result, Expected
<1>6. CASE op = 2
  BY <1>3, <1>6, <1>15, ParsedWords DEF Result, Expected
<1>7. CASE op = 3
  BY <1>3, <1>7, <1>15, ParsedWords DEF Result, Expected
<1>8. CASE op = 9
  <2>1. PICK c \in Nat : c = x[3] /\ c < Modulus /\ c >= 1
    BY <1>2, <1>4, <1>8 DEF Modular, Degenerate, Ternary
  <2>2. PICK d \in Nat : d = a * b
    BY <1>4
  <2>3. TruncatedMod(d, c) = d % c /\ d % c \in Nat /\ d % c < c
    BY <2>1, NothingNegative
  <2>4. (d % c) % Modulus = d % c
    BY <1>4, <2>1, <2>3, SmallDivides
  <2>5. MulMod(a, b, c) = Mod(d, c) /\ Mod(d, c) = TruncatedMod(d, c)
    BY <1>4, <2>1, <2>2, NumbersAreFinite DEF MulMod
  <2> QED
    BY <1>3, <1>8, <1>15, <2>1, <2>2, <2>3, <2>4, <2>5 DEF Result, Expected
<1>9. CASE op = 10
  <2>1. 1 % Modulus = 1
    BY <1>4, SmallDivides
  <2>2. Results(op, x) = Powers(a, b)
    BY <1>3, <1>9 DEF Results
  <2>3. CASE b = 0
    BY <1>3, <1>9, <2>1, <2>2, <2>3 DEF Powers, Expected
  <2>4. CASE b # 0
    <3>1. Magnitude(a^b) < Largest
      BY <1>3, <1>9, <2>4 DEF Modular, Degenerate
    <3>2. result = a^b
      BY <1>4, <2>2, <2>4, <3>1, NumbersAreFinite DEF Exp
    <3>3. Expected(op, x) = (a^b) % Modulus
      BY <1>3, <1>9, <2>4 DEF Expected
    <3> QED
      BY <3>2, <3>3
  <2> QED
    BY <2>3, <2>4
<1>10. CASE op = 22
  <2>1. Result(op, x) = And(a, b)
    BY <1>3, <1>10 DEF Result
  <2>2. Expected(op, x) = BitsTotal(Bits(a) \cap Bits(b))
    BY <1>3, <1>10 DEF Expected
  <2>3. result = Result(op, x)
    BY <1>10, <1>15
  <2> QED
    BY <2>1, <2>2, <2>3, BitwiseWords
<1>11. CASE op = 23
  <2>1. Result(op, x) = Or(a, b)
    BY <1>3, <1>11 DEF Result
  <2>2. Expected(op, x) = BitsTotal(Bits(a) \cup Bits(b))
    BY <1>3, <1>11 DEF Expected
  <2>3. result = Result(op, x)
    BY <1>11, <1>15
  <2> QED
    BY <2>1, <2>2, <2>3, BitwiseWords
<1>12. CASE op = 24
  <2>1. Result(op, x) = Xor(a, b)
    BY <1>3, <1>12 DEF Result
  <2>2. Expected(op, x) = BitsTotal({i \in 0 .. Width : Bit(a, i) # Bit(b, i)})
    BY <1>3, <1>12 DEF Expected
  <2>3. result = Result(op, x)
    BY <1>12, <1>15
  <2> QED
    BY <2>1, <2>2, <2>3, BitwiseWords
<1>13. CASE op = 27
  BY <1>3, <1>4, <1>13, <1>15, ShiftedWords DEF Result, Expected
<1>14. CASE op = 28
  BY <1>3, <1>4, <1>14, <1>15, ShiftedWords DEF Result, Expected
<1> QED
  BY <1>1, <1>5, <1>6, <1>7, <1>8, <1>9, <1>10, <1>11, <1>12, <1>13, <1>14

(* Of small words nothing is negative and nothing is parsed as such.          *)
LEMMA ExactComputes ==
    ASSUME NEW op \in Pure, NEW x, DOMAIN x = 1 .. Arity(op),
           Exact(op, x), NEW result \in Results(op, x)
    PROVE  result % Modulus = Expected(op, x)
<1> DEFINE Small == 0 .. (Modulus \div 16) - 1
<1>1. /\ Modulus \in Nat /\ Modulus >= 16 /\ Modulus >= 1
      /\ Modulus \div 16 \in Nat /\ 16 * (Modulus \div 16) = Modulus
      /\ 8 * WordBytes \in Nat
  BY ModulusIs
<1>2. ASSUME NEW a \in Small
      PROVE  /\ a \in 0 .. Modulus - 1 /\ a \in Nat /\ a < Modulus
             /\ Parse(a) = a /\ SignedWord(a) = a /\ a % Modulus = a
  <2>1. a \in 0 .. Modulus - 1 /\ a \in Nat /\ a < Modulus
    BY <1>1
  <2>2. a % Modulus = a
    BY <1>1, <2>1, SmallDivides
  <2> QED
    BY <2>1, <2>2, SmallWords
<1>3. Modulus \in Nat /\ Modulus >= 1 /\ Modulus >= 16 /\ 8 * WordBytes \in Nat
  BY <1>1
<1>4. \/ op \notin {1, 2, 3, 9, 10, 22, 23, 24, 27, 28}
      \/ result % Modulus = Expected(op, x)
  <2> SUFFICES ASSUME op \in {1, 2, 3, 9, 10, 22, 23, 24, 27, 28}
               PROVE  result % Modulus = Expected(op, x)
    OBVIOUS
  <2>1. \A i \in DOMAIN x : x[i] \in Small
    BY DEF Exact
  <2>2. Modular(op, x)
    BY <1>2, <2>1 DEF Exact, Modular
  <2> QED
    BY <2>2, ModularComputes
<1>5. PICK a \in Small : a = x[1]
  <2>1. 1 \in DOMAIN x
    BY ArityIs
  <2> QED
    BY <2>1 DEF Exact
<1> HIDE DEF Small
<1>6. /\ a \in 0 .. Modulus - 1 /\ a \in Nat /\ a < Modulus
      /\ Parse(a) = a /\ SignedWord(a) = a /\ a % Modulus = a
  BY <1>2
<1>7. 0 % Modulus = 0 /\ 1 % Modulus = 1
  BY <1>3, SmallDivides
<1>12. op \notin {4, 5, 10} => result = Result(op, x)
  BY DEF Results
<1>8. CASE op = 21
  <2>1. Result(op, x) = FromBoolean(a = 0)
    BY <1>5, <1>8 DEF Result, IsZero
  <2>2. Expected(op, x) = FromBoolean(a = 0)
    BY <1>5, <1>8 DEF Expected
  <2> QED
    BY <1>7, <1>8, <1>12, <2>1, <2>2 DEF FromBoolean
<1>9. CASE op = 25
  <2>1. Result(op, x) = Not(a)
    BY <1>5, <1>9 DEF Result
  <2>2. Expected(op, x) = Modulus - 1 - a
    BY <1>5, <1>9 DEF Expected
  <2>3. BitLength(a) <= Precision
    BY <1>5, <1>9 DEF Exact
  <2> QED
    BY <1>6, <1>9, <1>12, <2>1, <2>2, <2>3, NotWord
<1>10. CASE op \in {4, 5, 6, 7, 8, 16, 17, 18, 19, 20, 29}
  <2>1. PICK b \in Small : b = x[2]
    <3>1. 2 \in DOMAIN x
      BY <1>10, ArityIs
    <3> QED
      BY <3>1 DEF Exact, Small
  <2>2. /\ b \in 0 .. Modulus - 1 /\ b \in Nat /\ b < Modulus
        /\ Parse(b) = b /\ SignedWord(b) = b /\ b % Modulus = b
    BY <1>2
  <2>3. ASSUME b >= 1
        PROVE  /\ a \div b \in Nat /\ a % b \in Nat /\ a % b < b /\ a \div b <= a
               /\ (a \div b) % Modulus = a \div b /\ (a % b) % Modulus = a % b
    <3>1. a \div b \in Nat /\ a % b \in Nat /\ a % b < b
      BY <1>6, <2>2, <2>3, NothingNegative
    <3>2. PICK q \in Nat, r \in Nat : q = a \div b /\ r = a % b
      BY <3>1
    <3>3. a = (q * b) + r
      <4>1. a \in Int
        BY <1>6
      <4> QED
        BY <2>2, <2>3, <3>2, <4>1, Divides
    <3>4. q * b >= q /\ q * b \in Nat
      BY <2>2, <2>3
    <3>5. q <= a /\ q < Modulus /\ r < Modulus
      <4>1. r < b
        BY <3>1, <3>2
      <4>2. q <= a
        <5>1. PICK p \in Nat : p = q * b
          BY <3>4
        <5> QED
          BY <3>3, <3>4, <5>1
      <4> QED
        BY <1>3, <1>6, <2>2, <4>1, <4>2
    <3>6. q % Modulus = q /\ r % Modulus = r
      BY <1>3, <3>5, SmallDivides
    <3> QED
      BY <3>1, <3>2, <3>5, <3>6
  <2>4. CASE op \in {4, 5}
    <3>1. b >= 1 /\ b < 2 * Units
      BY <1>5, <2>1, <2>2, <2>4 DEF Degenerate, Exact
    <3>2. DivideFloor(a, b) = a \div b
      BY <1>6, <2>2, <3>1, DivideSmall
    <3>3. result = DivideFloor(a, b)
      <4>1. Results(op, x) = Quotients(a, b)
        BY <1>5, <2>1, <2>4 DEF Results
      <4>2. Quotients(a, b) = {DivideFloor(a, b)}
        BY <1>6, <2>2, <3>1, NumbersAreFinite
      <4> QED
        BY <4>1, <4>2
    <3>4. op = 4 => Expected(op, x) = a \div b
      BY <1>5, <2>1 DEF Expected
    <3>5. op = 5 => Expected(op, x) = TruncatedDiv(SignedWord(a), SignedWord(b)) % Modulus
      BY <1>5, <2>1 DEF Expected
    <3>6. TruncatedDiv(a, b) = a \div b
      BY <1>6, <2>2, <3>1, NothingNegative
    <3> QED
      BY <1>6, <2>2, <2>3, <2>4, <3>1, <3>2, <3>3, <3>4, <3>5, <3>6
  <2>5. CASE op \in {6, 7}
    <3>1. b >= 1
      BY <1>5, <2>1, <2>2, <2>5 DEF Exact, Degenerate
    <3>2. TruncatedMod(a, b) = a % b
      BY <1>6, <2>2, <3>1, NothingNegative
    <3>3. Convert(a % b) = a % b
      <4>1. a % b \in Nat /\ a % b \in Int /\ a % b >= 0
        BY <2>3, <3>1
      <4> QED
        BY <4>1, ConvertIs
    <3>4. op = 6 => Result(op, x) = Mod(a, b) /\ Expected(op, x) = a % b
      BY <1>5, <2>1 DEF Result, Expected
    <3>5. op = 7 => /\ Result(op, x) = SMod(a, b)
                    /\ Expected(op, x)
                         = TruncatedMod(SignedWord(a), SignedWord(b)) % Modulus
      BY <1>5, <2>1 DEF Result, Expected
    <3>6. SMod(a, b) = a % b /\ Mod(a, b) = a % b
      BY <1>6, <2>2, <3>1, <3>2, <3>3, NumbersAreFinite DEF SMod
    <3>7. TruncatedMod(SignedWord(a), SignedWord(b)) % Modulus = a % b
      BY <1>6, <2>2, <2>3, <3>1, <3>2
    <3>8. (a % b) % Modulus = a % b
      BY <2>3, <3>1
    <3> QED
      BY <1>12, <2>5, <3>4, <3>5, <3>6, <3>7, <3>8
  <2>6. CASE op = 8
    <3>1. PICK c \in Nat : c = x[3] /\ c >= 1 /\ c < Modulus
      <4>1. 3 \in DOMAIN x
        BY <2>6, ArityIs
      <4>2. x[3] \in Small /\ x[3] # 0
        BY <2>6, <4>1 DEF Exact, Degenerate, Ternary, Small
      <4> QED
        BY <1>2, <4>2
    <3>2. PICK s \in Nat : s = a + b /\ s < Modulus
      <4>1. PICK m \in Nat : m = Modulus \div 16 /\ 16 * m = Modulus
        BY <1>1
      <4>2. a < m /\ b < m
        <5>1. Small = 0 .. m - 1
          BY <4>1 DEF Small
        <5> QED
          BY <5>1
      <4>3. a + b < 16 * m /\ a + b \in Nat
        BY <1>6, <2>2, <4>2
      <4> QED
        BY <4>1, <4>3
    <3>3. TruncatedMod(s, Modulus) = s
      <4>1. s % Modulus = s
        BY <1>3, <3>2, SmallDivides
      <4> QED
        BY <1>3, <4>1, NothingNegative
    <3>4. TruncatedMod(s, c) = s % c /\ s % c \in Nat /\ s % c < c
      BY <3>1, NothingNegative
    <3>5. (s % c) % Modulus = s % c
      BY <1>3, <3>1, <3>4, SmallDivides
    <3>6. Result(op, x) = AddMod(a, b, c)
      BY <1>5, <2>1, <2>6, <3>1 DEF Result
    <3>7. Expected(op, x) = s % c
      BY <1>5, <2>1, <2>6, <3>1, <3>2 DEF Expected
    <3>8. AddMod(a, b, c) = s % c
      BY <1>6, <2>2, <3>1, <3>2, <3>3, <3>4, NumbersAreFinite DEF AddMod
    <3> QED
      BY <1>12, <2>6, <3>5, <3>6, <3>7, <3>8
  <2>7. CASE op \in {16, 17, 18, 19, 20}
    <3>1. Result(op, x) = Expected(op, x) /\ Result(op, x) \in {0, 1}
      <4>1. CASE op = 16
        <5>1. Result(op, x) = Lt(a, b)
          BY <1>5, <2>1, <4>1 DEF Result
        <5>2. Expected(op, x) = FromBoolean(a < b)
          BY <1>5, <2>1, <4>1 DEF Expected
        <5> QED
          BY <1>6, <2>2, <5>1, <5>2, NumbersAreFinite DEF Lt, FromBoolean
      <4>2. CASE op = 17
        <5>1. Result(op, x) = Gt(a, b)
          BY <1>5, <2>1, <4>2 DEF Result
        <5>2. Expected(op, x) = FromBoolean(a > b)
          BY <1>5, <2>1, <4>2 DEF Expected
        <5> QED
          BY <1>6, <2>2, <5>1, <5>2, NumbersAreFinite DEF Gt, FromBoolean
      <4>3. CASE op = 18
        <5>1. Result(op, x) = SLt(a, b)
          BY <1>5, <2>1, <4>3 DEF Result
        <5>2. Expected(op, x) = FromBoolean(SignedWord(a) < SignedWord(b))
          BY <1>5, <2>1, <4>3 DEF Expected
        <5> QED
          BY <1>6, <2>2, <5>1, <5>2 DEF SLt, FromBoolean
      <4>4. CASE op = 19
        <5>1. Result(op, x) = SGt(a, b)
          BY <1>5, <2>1, <4>4 DEF Result
        <5>2. Expected(op, x) = FromBoolean(SignedWord(a) > SignedWord(b))
          BY <1>5, <2>1, <4>4 DEF Expected
        <5> QED
          BY <1>6, <2>2, <5>1, <5>2 DEF SGt, FromBoolean
      <4>5. CASE op = 20
        <5>1. Result(op, x) = Eq(a, b)
          BY <1>5, <2>1, <4>5 DEF Result
        <5>2. Expected(op, x) = FromBoolean(a = b)
          BY <1>5, <2>1, <4>5 DEF Expected
        <5> QED
          BY <1>6, <2>2, <5>1, <5>2, NumbersAreFinite DEF FromBoolean
      <4> QED
        BY <2>7, <4>1, <4>2, <4>3, <4>4, <4>5
    <3>2. Result(op, x) % Modulus = Result(op, x)
      BY <1>7, <3>1
    <3> QED
      BY <1>12, <2>7, <3>1, <3>2
  <2>8. CASE op = 29
    <3>1. PICK s \in Nat : s = ShiftRight(b, a) /\ s < Modulus
      <4>1. ShiftRight(b, a) \in 0 .. Modulus - 1
        BY <1>6, <2>2, ShiftRightIs
      <4> QED
        BY <1>3, <4>1
    <3>2. s = IF a < 8 * WordBytes THEN b \div PowerOf2[a] ELSE 0
      BY <1>6, <2>2, <3>1, ShiftRightIs
    <3>3. Sar(a, b) = s
      <4>1. Convert(s) = s
        BY ConvertIs
      <4> QED
        BY <1>6, <2>2, <3>1, <4>1 DEF Sar
    <3>4. s % Modulus = s
      BY <1>3, <3>1, SmallDivides
    <3>5. Result(op, x) = Sar(a, b)
      BY <1>5, <2>1, <2>8 DEF Result
    <3>6. Expected(op, x) = IF a < 8 * WordBytes
                            THEN (SignedWord(b) \div PowerOf2[a]) % Modulus
                            ELSE IF SignedWord(b) < 0 THEN Modulus - 1 ELSE 0
      BY <1>5, <2>1, <2>8 DEF Expected
    <3>7. ~(SignedWord(b) < 0)
      BY <2>2
    <3> QED
      BY <1>12, <2>2, <2>8, <3>2, <3>3, <3>4, <3>5, <3>6, <3>7
  <2> QED
    BY <1>10, <2>4, <2>5, <2>6, <2>7, <2>8
<1>11. op # 26
  BY DEF Exact
<1> QED
  BY <1>4, <1>8, <1>9, <1>10, <1>11 DEF Pure, Unary, Binary, Ternary

----------------------------------------------------------------------------
(* What the last step calculated, if it did: an opcode, its operands, and one *)
(* of their results.                                                         *)
Calculated ==
    \A i \in DOMAIN last :
        LET op == last[i].op
            x == last[i].operands
        IN  /\ op \in Pure /\ DOMAIN x = 1 .. Arity(op)
            /\ last[i].result \in Results(op, x)

LEMMA NothingCalculated ==
    ASSUME last' = None
    PROVE  Calculated'
BY DEF Calculated, None

LEMMA StillCalculated ==
    ASSUME Calculated, UNCHANGED last
    PROVE  Calculated'
BY DEF Calculated

LEMMA CalculateIsCalculated ==
    ASSUME NEW op \in Pure, Calculate(op)
    PROVE  Calculated'
<1> DEFINE x == Popped(Arity(op))
<1>1. CASE TooLarge(op, x)
  <2>1. last' = None
    BY <1>1 DEF Calculate, Fails, Throws
  <2> QED
    BY <2>1, NothingCalculated
<1>2. CASE ~TooLarge(op, x)
  <2>1. PICK result \in Results(op, x) :
          last' = <<[op |-> op, operands |-> x, result |-> result]>>
    BY <1>2 DEF Calculate
  <2>2. DOMAIN x = 1 .. Arity(op)
    BY DEF Popped
  <2> HIDE DEF x
  <2> QED
    BY <1>2, <2>1, <2>2 DEF Calculated
<1> QED
  BY <1>1, <1>2

(* Every other step calculates nothing.                                      *)
LEMMA StepIsCalculated ==
    ASSUME Calculated, Step
    PROVE  Calculated'
<1>1. CASE Faults
  <2>1. last' = None
    BY <1>1 DEF Faults, Underflow, Misread, Fails, Throws
  <2> QED
    BY <2>1, NothingCalculated
<1>2. CASE OnStack
  <2>1. CASE Op \in Pure /\ Calculate(Op)
    BY <2>1, CalculateIsCalculated
  <2>2. CASE ~(Op \in Pure /\ Calculate(Op))
    <3>1. last' = None
      BY <1>2, <2>2 DEF OnStack, Push, Lookup, Pop, Dup, Swap, Log, Fails, Throws
    <3> QED
      BY <3>1, NothingCalculated
  <2> QED
    BY <2>1, <2>2
<1>3. CASE OnMemory \/ Sstore
  <2>1. last' = None
    BY <1>3 DEF OnMemory, Mload, Sha3, Mstore, Mstore8, Calldatacopy, Codecopy,
                Extcodecopy, Sstore, Uses, Fails, Throws
  <2> QED
    BY <2>1, NothingCalculated
<1>4. CASE OnControl
  <2>1. last' = None
    BY <1>4 DEF OnControl, Jump, JumpIf, Jumps, Label, Stop, Return, Revert, Invalid,
                Unimplemented, Unknown, Stuck, Fails, Throws
  <2> QED
    BY <2>1, NothingCalculated
<1> QED
  BY <1>1, <1>2, <1>3, <1>4 DEF Step

LEMMA CalculatedAlways == Spec => []Calculated
<1>1. Init => Calculated
  BY DEF Init, Fresh, Calculated, None
<1>2. Calculated /\ [Next]_vars => Calculated'
  <2> SUFFICES ASSUME Calculated, [Next]_vars PROVE Calculated'
    OBVIOUS
  <2>1. CASE Step
    BY <2>1, StepIsCalculated
  <2>2. CASE Boot
    <3>1. last' = None
      BY <2>2 DEF Boot, Booted
    <3> QED
      BY <3>1, NothingCalculated
  <2>3. CASE UNCHANGED vars
    BY <2>3, StillCalculated DEF vars
  <2> QED
    BY <2>1, <2>2, <2>3 DEF Next
<1> QED
  BY <1>1, <1>2, PTL DEF Spec

(* Where it does not throw every opcode but BYTE leaves, of words below 2^252, *)
(* a number congruent to the EVM's word; those that respect a congruence do   *)
(* so of all words, though SignedUnsignedNumberConverter.parse takes a word   *)
(* from 2^252 on for a negative number.  Nothing is said of a division by 0,  *)
(* of what NOT or DIV round, and of a power beyond BigNumber's range.  For     *)
(* every size of a word and every limit of BigNumber and of BigInt.           *)
THEOREM WordsAreComputed == Spec => []ComputesWords
<1>1. Calculated => ComputesWords
  <2> SUFFICES ASSUME Calculated, NEW i \in DOMAIN last,
                      \/ Exact(last[i].op, last[i].operands)
                      \/ Modular(last[i].op, last[i].operands)
               PROVE  last[i].result % Modulus = Expected(last[i].op, last[i].operands)
    BY DEF ComputesWords
  <2> DEFINE op == last[i].op
             x == last[i].operands
  <2>1. /\ op \in Pure /\ DOMAIN x = 1 .. Arity(op)
        /\ last[i].result \in Results(op, x)
    BY DEF Calculated
  <2>2. Exact(op, x) \/ Modular(op, x)
    OBVIOUS
  <2>3. PICK result \in Results(op, x) : result = last[i].result
    BY <2>1
  <2> HIDE DEF op, x
  <2>4. result % Modulus = Expected(op, x)
    BY <2>1, <2>2, ExactComputes, ModularComputes
  <2> QED
    BY <2>3, <2>4 DEF op, x
<1> QED
  BY <1>1, CalculatedAlways, PTL
=============================================================================
