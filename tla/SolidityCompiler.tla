--------------------------- MODULE SolidityCompiler ---------------------------
(***************************************************************************)
(* AstToByteCode: the bytes a contract is compiled to, and the program that *)
(* deploys some bytes.  A word has WordBytes bytes and the selector of a    *)
(* function SelectorBytes; they are 32 and 4 in the code.                   *)
(***************************************************************************)
EXTENDS EvmWords, SoliditySource

CONSTANTS
    SelectorBytes,
    Selector,   \* the bytes a function is called by, by its name
    NumberOf    \* the numbers, by the words for them

ASSUME NumberWordsHaveNumbers == NumberOf \in [NumberWords -> Nat]

----------------------------------------------------------------------------
(* MnemonicParser.                                                         *)

\* convertNumberToPadHex: as many bytes as the number needs.
PadHex(n) == IF n < 256 THEN <<n>> ELSE <<n \div 256, n % 256>>

\* A number in hex after 0x: of three digits the last is lost.
Hex(n) ==
    CASE n < 256 -> <<n>>
      [] n \in 256..4095 -> <<n \div 16>>
      [] OTHER -> <<n \div 256, n % 256>>

\* PUSH1, whatever the length of its argument.
Push1(argument) == <<96>> \o argument

\* A name is no number: nothing is left of it, and it is padded.
Operand1(word) ==
    Push1(IF word \in DOMAIN NumberOf THEN PadHex(NumberOf[word]) ELSE <<0>>)

PushSelector(name) == <<95 + SelectorBytes>> \o Selector[name]

----------------------------------------------------------------------------
(* EvmByteCodeMacros.                                                      *)

\* PUSH1 0x80, PUSH1 0x40, MSTORE
AllocateMemory == Push1(PadHex(4 * WordBytes)) \o Push1(PadHex(2 * WordBytes)) \o <<82>>

\* CALLVALUE, DUP1, ISZERO
NonPayable == <<52, 128, 21>>

\* PUSH1 0, DUP1, REVERT
SimpleRevert == Push1(<<0>>) \o <<128, 253>>

\* JUMPI over what is done otherwise, JUMPDEST, POP
JumpI(fallThrough, destination) ==
    Push1(Hex(Len(fallThrough) + 2 + destination + 1))
      \o <<87>> \o fallThrough \o <<91, 80>>

\* PUSH1 size, DUP1, PUSH1 offset, PUSH1 destination, CODECOPY, PUSH1 0, RETURN
CodeCopyReturn(destination, offset, size, program) ==
    LET codeCopy == Push1(PadHex(size)) \o <<128>>
        codeCopy3 == Push1(PadHex(destination)) \o <<57>> \o Push1(<<0>>) \o <<243>>
    IN  codeCopy
          \o Push1(PadHex(offset + Len(codeCopy) + Len(codeCopy3) + 3))
          \o codeCopy3 \o <<254>> \o program

----------------------------------------------------------------------------
(* JumpTable.                                                              *)

\* JUMPDEST, PUSH1 0, CALLDATALOAD, PUSH1 0xe0, SHR, DUP1, PUSH4, EQ
FunctionCheck(name) ==
    <<91>> \o Push1(<<0>>) \o <<53>>
      \o Push1(<<8 * (WordBytes - SelectorBytes)>>)
      \o <<28, 128>> \o PushSelector(name) \o <<20>>

\* Seeded fault: the PUSH1 of where to jump is counted twice.
FunctionHeadFar(length, name, fallThrough) ==
    LET simpleRevert == <<87>> \o Push1(PadHex(fallThrough)) \o <<86>>
        check == FunctionCheck(name)
    IN  check \o Push1(PadHex(length + Len(check) + Len(simpleRevert) + 4))
          \o simpleRevert \o <<91>>

\* What is before the code of a function: JUMPI to it, or JUMP past it.
FunctionHead(length, name, fallThrough) ==
    LET simpleRevert == <<87>> \o Push1(PadHex(fallThrough)) \o <<86>>
        check == FunctionCheck(name)
    IN  check \o Push1(PadHex(length + Len(check) + Len(simpleRevert) + 2))
          \o simpleRevert \o <<91>>

----------------------------------------------------------------------------
(* convertNodeToByteCode.  What can not be converted throws.               *)

Coded(bytes) == [ok |-> TRUE, bytes |-> bytes]
Throw == [ok |-> FALSE, bytes |-> <<>>]

Joined(parts) ==
    IF \A i \in DOMAIN parts : parts[i].ok
    THEN Coded(FlattenSeq([i \in DOMAIN parts |-> parts[i].bytes]))
    ELSE Throw

\* The slot of a variable is undefined, for all of them: it is padded to 0.
Slot == Push1(<<0>>)

\* PUSH1 0, MSTORE, PUSH1 32, PUSH1 0, RETURN
ReturnTop ==
    Push1(<<0>>) \o <<82>> \o Push1(<<WordBytes>>) \o Push1(<<0>>) \o <<243>>

InputCode == Push1(<<SelectorBytes>>) \o <<53>> \o Slot \o <<85>>

ReturnCode(value) ==
    (IF value \in DOMAIN NumberOf THEN Operand1(value) ELSE Slot \o <<84>>) \o ReturnTop

IncrementCode(value) == Slot \o <<84>> \o Operand1(value) \o <<1>> \o Slot \o <<85>>

\* PUSH1, PUSH1, EQ, PC, PUSH1 distance, ADD, JUMPI
ConditionCode(fields, distance) ==
    Operand1(fields.variable1) \o Operand1(fields.variable2)
      \o <<20, 88>> \o Push1(PadHex(distance)) \o <<1, 87>>

\* The distance to the JUMPDEST is taken from the length of what is after it,
\* not from that of what is before it.
ConditionalCode(condition, inner, otherwise) ==
    ConditionCode(condition.fields,
                  Len(inner) + (IF otherwise = <<>> THEN -5 ELSE 5))
      \o otherwise \o <<91>> \o inner

RECURSIVE NodeCode(_)

\* An else has no condition: its first node is all of it.
NodeCode(child) ==
    LET nodes == child.nodes
        inner == NodeCode(nodes[2])
        otherwise == IF Len(nodes) > 2 THEN NodeCode(nodes[3]) ELSE Coded(<<>>)
    IN  CASE child.type = "FunctionInputVariables" -> Coded(InputCode)
          [] child.type = "ReturnNode" -> Coded(ReturnCode(child.fields.value))
          [] child.type = "VariableOperatorNode" -> Coded(IncrementCode(child.fields.value))
          [] child.type = "ConditionalNode" /\ nodes # <<>> ->
                IF nodes[1].type # "ConditionalInputVariables" THEN NodeCode(nodes[1])
                ELSE IF "operator" \notin DOMAIN nodes[1].fields \/ Len(nodes) < 2
                THEN Throw
                ELSE IF ~inner.ok \/ ~otherwise.ok THEN Throw
                ELSE Coded(ConditionalCode(nodes[1], inner.bytes, otherwise.bytes))
          [] OTHER -> Throw

----------------------------------------------------------------------------
(* compile.                                                                *)

\* Seeded fault: every function may be paid.
FunctionCodePayable(node, length) ==
    Joined([i \in DOMAIN node.nodes |-> NodeCode(node.nodes[i])])

\* compileFunction: it can not be paid, unless it is payable.
FunctionCode(node, length) ==
    LET payable == "modifier" \in DOMAIN node.fields /\ node.fields.modifier = "payable"
        guard == NonPayable \o JumpI(SimpleRevert, length + Len(NonPayable))
    IN  Joined(<<Coded(IF payable THEN <<>> ELSE guard)>>
                 \o [i \in DOMAIN node.nodes |-> NodeCode(node.nodes[i])])

FunctionCall(length, node, fallThrough) ==
    LET head == FunctionHead(length, node.fields.name, fallThrough)
    IN  Joined(<<Coded(head), FunctionCode(node, length + Len(head))>>)

\* Where a function ends, if its jump past it is short.
FallThroughIndex(length, node) == length + Len(FunctionCall(length, node, 0).bytes)

\* PUSH1, JUMP, and the JUMPDEST of those who call no function.
InvalidFunctionRevert == <<91>> \o SimpleRevert
TableHead(length) ==
    Push1(PadHex(Len(InvalidFunctionRevert) + length + 2 + 1)) \o <<86>>
      \o InvalidFunctionRevert

\* Seeded fault: the last function falls through to the start of the table.
RevertIndexBack(length) == length + Len(InvalidFunctionRevert) + 3

RevertIndex(length) == length + Len(InvalidFunctionRevert) - 2

RECURSIVE FunctionCalls(_, _, _)

\* Each function falls through to the next, the last one to the revert.
FunctionCalls(nodes, length, revert) ==
    LET fall == IF Len(nodes) = 1 THEN revert ELSE FallThroughIndex(length, nodes[1])
        first == FunctionCall(length, nodes[1], fall)
    IN  IF Len(nodes) = 1 THEN first
        ELSE Joined(<<first, FunctionCalls(Tail(nodes), length + Len(first.bytes), revert)>>)

\* JumpTable.construct; of no function at all there is no first one.
Construct(nodes, length) ==
    LET head == TableHead(length)
    IN  IF nodes = <<>> THEN Throw
        ELSE Joined(<<Coded(head),
                      FunctionCalls(nodes, length + Len(head), RevertIndex(length))>>)

CompileTree(parsed) ==
    LET functions == SelectSeq(parsed.root.nodes, LAMBDA n : n.type = "FunctionNode")
    IN  IF ~parsed.ok THEN Throw
        ELSE Joined(<<Coded(AllocateMemory), Construct(functions, Len(AllocateMemory))>>)

Compile(tokens) == CompileTree(Parsed(tokens, {}))

\* EvmProgram: each part is told where it begins.
Deployment(program) ==
    LET guard == AllocateMemory \o NonPayable
        start == guard \o JumpI(SimpleRevert, Len(guard))
    IN  start \o CodeCopyReturn(0, Len(start), Len(program), program)
=============================================================================
