----------------------------- MODULE MCContexts -----------------------------
EXTENDS EvmContexts, TLC

CONSTANTS c1, c2, s09, s0a, s10, nan

Programs == {c1, c2}
ProgramSymmetry == Permutations(Programs)

\* Slot 9 is read back as it is, slot 0x10 as 10 and slot 0x0a as NaN.
SomeSlots == {s09, s0a, s10, nan}
ReadBack ==
    [k \in SomeSlots |-> CASE k = s09 -> s09 [] k = s10 -> s0a [] OTHER -> nan]

\* parseInt takes the salt 0x1a for 1.
SomeSalts == {"1", "1a"}
SaltsRead == [salt \in SomeSalts |-> "1"]
=============================================================================
