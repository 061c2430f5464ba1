---------------------------- MODULE MCStorageGas ----------------------------
EXTENDS EvmStorageGas

CONSTANTS k1, k2, nan

AllKeys == {k1, k2, nan}
TwoKeys == {k1, k2}

\* originalStorageValue as the program leaves it, and as a caller may fill it.
NothingOriginal == [k \in AllKeys |-> 0]
SomeOriginal == [k \in TwoKeys |-> IF k = k1 THEN 1 ELSE 0]

\* What an Evm starts with: nothing, what it fetched before, a caller's storage.
Fetched == {<<>>, SomeOriginal}
AnyStorage == UNION {[S -> Values] : S \in SUBSET AllKeys}

\* A slot below 0x0a, k1, is read back as it is; a key with a letter, k2,
\* becomes NaN, which is a key too.
SameKeys == [k \in TwoKeys |-> k]
MovedKeys == [k \in AllKeys |-> IF k = k1 THEN k1 ELSE nan]

\* A cheap opcode; CREATE, whose cost lifts the cap on refunds, and CALL.
OtherOpcodes == {<<3, 0>>}
ForkOpcodes == {<<2, 0>>, <<32000, 90000>>}
=============================================================================
