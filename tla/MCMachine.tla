------------------------------ MODULE MCMachine ------------------------------
EXTENDS EvmMachine, SequencesExt

MCBlocks == [h \in {41, 42} |->
    [hash |-> 100 + h, coinbase |-> 7, timestamp |-> 9, difficulty |-> 5,
     chainId |-> 1, gasPrice |-> 222, baseFee |-> 1024]]
MCContracts == [a \in {3} |-> <<1, 91>>]
MCBalances == [a \in {2} |-> 42]
MCKeccak(bytes) == Len(bytes) + 1000

\* Numbers TLC computes with: no shift, power or offset that is too large.
MCComputes(op, x) ==
    LET small(i, low, high) == x[i] \in Int => x[i] >= low /\ x[i] <= high
    IN  /\ op \in {1, 3, 8} =>
              \A i \in DOMAIN x : small(i, -1000000000, 1000000000)
        /\ op = 2 => \A i \in 1..2 :
              x[i] \in Nat => Magnitude(Parse(x[i])) <= 46000
        /\ op = 9 => small(1, -70000, 70000) /\ small(2, -30000, 30000)
        /\ op = 10 => /\ small(1, -70000, 70000) /\ small(2, -3, 3)
                       /\ (small(1, -1000, 1000) \/ small(2, -3, 1))
        /\ op \in {27, 28} => small(1, -10, 65535) /\ small(2, -70000, 70000)
        /\ op = 29 => \/ small(1, -1, 4095)
                      \/ x[1] = 65535 /\ small(2, -70000, 70000)
                      \/ x[1] \in {32768, 61440} /\ x[2] # 0
        /\ op \in {4, 5} => small(1, -70000, 70000)
        /\ op \in {22, 23, 24} =>
              \A i \in 1..2 : small(i, -70000, 60000000)
        /\ op \in {32, 81, 82, 83, 243, 253} => small(1, 0, 8)
        /\ op \in {32, 243, 253} => small(2, 0, 8)
        /\ op = 53 => small(1, 0, 8)
        /\ op \in {55, 57} => \A i \in 1..3 : small(i, 0, 8)
        /\ op = 60 => \A i \in 2..4 : small(i, 0, 8)

\* Two operands, an opcode, a third operand and a second opcode.
Words == {0, 1, 2, 3, 255, 256, 4095, 4096, 32768, 61440, 65535}
Push2(w) == <<97, w \div 256, w % 256>>
Calculations ==
    {Push2(a) \o Push2(b) \o <<op>> \o Push2(c) \o <<next>> :
        a \in Words, b \in Words, c \in {1, 65535},
        op \in Binary, next \in {1, 20, 22}}
    \cup {Push2(c) \o Push2(a) \o Push2(b) \o <<op>> :
            a \in Words, b \in Words, c \in Words, op \in Ternary \cup Unary}

\* What a division, a remainder or a power leaves that is no number, and an
\* opcode that finds it as its first or its second operand.
Specially ==
    {Push2(b) \o Push2(a) \o <<op>> \o tail :
        a \in {0, 1, 256}, b \in {0, 3}, op \in {4, 6, 10},
        tail \in {<<next>> : next \in {21, 25, 86}}
                    \cup {Push2(c) \o swap \o <<next>> : c \in {0, 1, 3, 4096},
                            swap \in {<<>>, <<144>>, <<128>>, Push2(2), <<129, 144>>},
                            next \in {87, 85} \cup Binary \cup Ternary}}

\* Any few bytes of jumps, pushes, and opcodes on the stack.
Bytes == {0, 3, 4, 80, 86, 87, 91, 96, 97, 128, 129, 144}
Jumpy == UNION {[1..n -> Bytes] : n \in 1..4}

\* Memory, storage, the environment and the errors.
Pushed(items) == FlattenSeq([i \in DOMAIN items |-> <<96, items[i]>>])
Others ==
    {Pushed(x) \o <<op>> \o Pushed(<<y>>) \o <<next, 89>> :
        x \in {<<1, 2, 3, 3>>, <<4, 1, 2, 0>>, <<2, 42, 1, 1>>}, y \in {0, 1, 42},
        op \in {32, 49, 53, 55, 57, 59, 60, 63, 64, 82, 83, 85, 160, 162, 62, 61, 255},
        next \in {81, 84, 243, 253, 64, 130, 146, 59}}
    \cup {<<96, c, 96, to, 87, 96, b, 91, other>> :
            c \in {0, 1}, to \in {6, 7, 9}, b \in {4, 91}, other \in {12, 254}}
    \cup {<<69, 96, 1, 83>>, <<96, 1, 96, 0, 3, 96, 0, 82>>}
    \cup {<<op, 82, 243>> : op \in Environment \ (98..127)}

Context == [value |-> 1, data |-> <<0, 5, 6>>, sender |-> 2, gasLimit |-> 21090]
MCBoots ==
    {[program |-> code, context |-> Context] : code \in Calculations \cup Specially \cup Jumpy \cup Others}
MCReboots ==
    {[program |-> code, context |-> Context] : code \in {<<1>>, <<145, 128>>, <<130>>}}
=============================================================================
