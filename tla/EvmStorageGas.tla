--------------------------- MODULE EvmStorageGas ---------------------------
(***************************************************************************)
(* What the storage opcodes of one Evm cost.  SLOAD and SSTORE price an    *)
(* access by the slot's original and current value and by whether it was   *)
(* touched before (ComputeSstoreGas, AccessSets), every other opcode only  *)
(* adds to the bill, and execute gives part of the bill back when it ends. *)
(* An Evm object outlives a program: boot starts the next one on the same  *)
(* storage, the same access sets and the same refund counter.              *)
(*                                                                         *)
(* A sub context's Evm is forked: it starts with a copy of its caller's    *)
(* storage, with nothing touched, and runs once.  The fork touches every   *)
(* slot it copies in the caller's access set, and charges nothing for it.  *)
(* It takes the slots from EvmStorage.forEach, which reads the hex text of *)
(* a key as a decimal number: a slot from 0x0a on is taken for another.    *)
(***************************************************************************)
EXTENDS Integers, FiniteSets

CONSTANTS
    Keys,         \* storage slots
    Values,       \* the values a slot can hold
    Original,     \* originalStorageValue; the program leaves it empty: 0
    Chain,        \* what getStorageAt answers, for a forked Evm
    Forking,      \* EvmStorageForking instead of EvmStorage
    Inherited,    \* storages an Evm starts with: a fork has its caller's
    Reread,       \* the slot forEach takes the key of a slot for
    Intrinsic,    \* gas boot charges: 21000 and the call data, 0 for a fork
    ForkCosts,    \* static and dynamic cost of one CREATE, CREATE2 or CALL
    OtherCosts,   \* static and dynamic cost of one other opcode
    GasLimit,     \* the transaction's gas limit
    MaxOps,       \* bound: opcodes run in one life of the Evm
    MaxExecutes,  \* bound: calls of execute for one boot
    MaxBoots      \* bound: programs run by the Evm

ASSUME KeysFinite == IsFiniteSet(Keys)
ASSUME ValuesNumbers == Values \subseteq Nat /\ 0 \in Values
ASSUME StorageConstants ==
    /\ Original \in [Keys -> Values]
    /\ Chain \in [Keys -> Values]
    /\ Forking \in BOOLEAN
    /\ Inherited \subseteq UNION {[S -> Values] : S \in SUBSET Keys}
    /\ Reread \in [Keys -> Keys]
ASSUME GasConstants ==
    /\ Intrinsic \subseteq Nat
    /\ ForkCosts \subseteq Nat \X Nat
    /\ OtherCosts \subseteq Nat \X Nat
    /\ GasLimit \in Nat
ASSUME Bounds == MaxOps \in Nat /\ MaxExecutes \in Nat /\ MaxBoots \in Nat

VARIABLES
    storage,    \* EvmStorage.storage: the slots that have an entry
    warm,       \* AccessSets.touchedStorageSlots
    gasCost,    \* Evm._gasCost
    gasRefund,  \* Evm._gasRefund
    gasLeft,    \* Evm._gasLeft
    status,     \* "running" in execute, "stopped" outside, "failed" when an
                \* opcode threw, "overflow" when a read called itself
                \* until the stack overflowed
    stores,     \* history: SSTOREs since boot
    warmLoads,  \* history: SLOADs of touched slots since boot
    other,      \* history: gas of all else since boot
    free,       \* history: slots first touched since boot by a fork
    refunded,   \* history: gas given back since boot
    atBoot,     \* history: storage, access set and refund counter at boot
    ops, executes, boots  \* counters for the bounds

counters == <<ops, executes, boots>>
history == <<stores, warmLoads, other, free, refunded, atBoot>>
vars == <<storage, warm, gasCost, gasRefund, gasLeft, status, history, counters>>

----------------------------------------------------------------------------
(* Prices.                                                                 *)

ValueIn(entries, k) == IF k \in DOMAIN entries THEN entries[k] ELSE 0
Current(k) == ValueIn(storage, k)

SloadGas(cold) == IF cold THEN 2100 ELSE 100

\* Seeded fault: the first touch is free.
SstoreGasTouched(original, current, value, cold) ==
    IF current = value \/ original # current THEN 100
    ELSE IF original = 0 THEN 20000 ELSE 2900

SstoreGas(original, current, value, cold) ==
    (IF cold THEN 2100 ELSE 0)
    + (IF current = value \/ original # current THEN 100
       ELSE IF original = 0 THEN 20000 ELSE 2900)

\* Seeded fault: filling a cleared slot does not take the refund back.
ClearingRefundOnce(original, current, value) ==
    IF original = 0 \/ current = value THEN 0
    ELSE IF value = 0 THEN 4800 ELSE 0

ClearingRefund(original, current, value) ==
    IF original = 0 \/ current = value THEN 0
    ELSE IF current = 0 THEN -4800
    ELSE IF value = 0 THEN 4800 ELSE 0

ResettingRefund(original, current, value) ==
    IF current = value \/ original = current \/ original # value THEN 0
    ELSE IF original = 0 THEN 19900 ELSE 2800

SstoreRefund(original, current, value) ==
    ClearingRefund(original, current, value)
    + ResettingRefund(original, current, value)

Entry(entries, k, v) ==
    [x \in DOMAIN entries \cup {k} |-> IF x = k THEN v ELSE entries[x]]

MinRefund == IF gasRefund < gasCost \div 5 THEN gasRefund ELSE gasCost \div 5

----------------------------------------------------------------------------
Init ==
    /\ storage \in Inherited
    /\ warm = {}
    /\ gasRefund = 0
    /\ gasCost \in Intrinsic
    /\ gasLeft = GasLimit - gasCost
    /\ other = gasCost
    /\ status = "stopped"
    /\ stores = 0 /\ warmLoads = 0 /\ refunded = 0 /\ free = {}
    /\ atBoot = [storage |-> storage, warm |-> warm, refund |-> gasRefund]
    /\ ops = 0
    /\ executes = 0
    /\ boots = 1

\* boot on an Evm that ran a program: gas is set anew, the rest is kept.
Boot ==
    /\ status # "running"
    /\ boots < MaxBoots
    /\ gasCost' \in Intrinsic
    /\ gasLeft' = GasLimit - gasCost'
    /\ other' = gasCost'
    /\ stores' = 0 /\ warmLoads' = 0 /\ refunded' = 0 /\ free' = {}
    /\ atBoot' = [storage |-> storage, warm |-> warm, refund |-> gasRefund]
    /\ executes' = 0
    /\ boots' = boots + 1
    /\ status' = "stopped"
    /\ UNCHANGED <<storage, warm, gasRefund, ops>>

\* execute, called first after boot or again after it stopped at a pc.
Execute ==
    /\ status = "stopped"
    /\ executes < MaxExecutes
    /\ status' = "running"
    /\ executes' = executes + 1
    /\ UNCHANGED <<storage, warm, gasCost, gasRefund, gasLeft, history, ops, boots>>

Running ==
    /\ status = "running"
    /\ ops < MaxOps
    /\ ops' = ops + 1
    /\ UNCHANGED <<refunded, executes, boots>>

\* The end of the program, or the pc or opcode execute was told to stop at.
\* The refund counter keeps what was paid out of it.
Stop ==
    /\ status = "running"
    /\ gasCost' = gasCost - MinRefund
    /\ refunded' = refunded + MinRefund
    /\ status' = "stopped"
    /\ UNCHANGED <<storage, warm, gasRefund, gasLeft, stores, warmLoads, other,
                   free, atBoot, counters>>

\* EvmSubContextCall.fork writes what forEach hands it to the new Evm and
\* touches it in this one.
Copied == {Reread[k] : k \in DOMAIN storage}

Fork ==
    /\ warm' = warm \cup Copied
    /\ free' = free \cup (Copied \ warm)

\* REVERT, INVALID, an empty stack or a bad jump: execute rejects, no refund;
\* a sub context that throws, and is not caught, has been forked before.
Throw ==
    /\ status = "running"
    /\ status' = "failed"
    /\ (Fork \/ UNCHANGED <<warm, free>>)
    /\ UNCHANGED <<storage, gasCost, gasRefund, gasLeft, stores, warmLoads, other,
                   refunded, atBoot, counters>>

\* Seeded fault: a load leaves only its own slot touched.
ChargedForgetting(k) ==
    /\ gasCost' = gasCost + SloadGas(k \notin warm)
    /\ warmLoads' = warmLoads + (IF k \in warm THEN 1 ELSE 0)
    /\ warm' = {k}
    /\ UNCHANGED <<gasRefund, gasLeft, status, stores, other, free>>

Charged(k) ==
    /\ gasCost' = gasCost + SloadGas(k \notin warm)
    /\ warmLoads' = warmLoads + (IF k \in warm THEN 1 ELSE 0)
    /\ warm' = warm \cup {k}
    /\ UNCHANGED <<gasRefund, gasLeft, status, stores, other, free>>

\* A forked Evm asks the node for a slot it has no entry for.  The history
\* counts the slot as one that was there at boot.
Fetch(k) ==
    /\ Forking
    /\ k \notin DOMAIN storage
    /\ storage' = Entry(storage, k, Chain[k])
    /\ atBoot' = [atBoot EXCEPT !.storage = Entry(atBoot.storage, k, Chain[k])]
    /\ Charged(k)

\* For a slot it has an entry for, EvmStorageForking.read calls itself.
ReadsItself(k) ==
    /\ Forking
    /\ k \in DOMAIN storage
    /\ status' = "overflow"
    /\ UNCHANGED <<storage, warm, gasCost, gasRefund, gasLeft, stores, warmLoads, other,
                   free, atBoot>>

Load(k) ==
    /\ ~Forking
    /\ UNCHANGED <<storage, atBoot>>
    /\ Charged(k)

Sload(k) ==
    /\ Running
    /\ (Load(k) \/ Fetch(k) \/ ReadsItself(k))

Sstore(k, v) ==
    /\ Running
    /\ gasCost' = gasCost + SstoreGas(Original[k], Current(k), v, k \notin warm)
    /\ gasRefund' = gasRefund + SstoreRefund(Original[k], Current(k), v)
    /\ warm' = warm \cup {k}
    /\ storage' = Entry(storage, k, v)
    /\ stores' = stores + 1
    /\ UNCHANGED <<gasLeft, status, warmLoads, other, free, atBoot>>

\* What the other opcodes have in common.  Only the static cost is taken from
\* _gasLeft.
Costs(static, dynamic) ==
    /\ Running
    /\ gasCost' = gasCost + static + dynamic
    /\ gasLeft' = gasLeft - static
    /\ other' = other + static + dynamic
    /\ UNCHANGED <<storage, gasRefund, status, stores, warmLoads, atBoot>>

\* CREATE, CREATE2, CALL, CALLCODE, DELEGATECALL and STATICCALL.
SubContext(static, dynamic) ==
    /\ Costs(static, dynamic)
    /\ Fork

\* Any other opcode, and a DELEGATECALL without gas, which forks nothing.
Other(static, dynamic) ==
    /\ Costs(static, dynamic)
    /\ UNCHANGED <<warm, free>>

Next ==
    \/ Boot
    \/ Execute
    \/ Stop
    \/ Throw
    \/ \E k \in Keys : Sload(k)
    \/ \E k \in Keys, v \in Values : Sstore(k, v)
    \/ \E cost \in ForkCosts : SubContext(cost[1], cost[2])
    \/ \E cost \in OtherCosts : Other(cost[1], cost[2])

Spec == Init /\ [][Next]_vars

----------------------------------------------------------------------------
(* Slots by what the rule of SSTORE has charged for them.                  *)

Created(entries) == {k \in Keys : Original[k] = 0 /\ ValueIn(entries, k) # 0}
Changed(entries) ==
    {k \in Keys : Original[k] # 0 /\ ValueIn(entries, k) \notin {0, Original[k]}}
Cleared(entries) == {k \in Keys : Original[k] # 0 /\ ValueIn(entries, k) = 0}

\* What a storage is worth, in gas beyond 100 for each SSTORE.
Worth(entries) ==
    19900 * Cardinality(Created(entries))
    + 2800 * Cardinality(Changed(entries))
    - 2000 * Cardinality(Cleared(entries))

\* What the storage accesses since boot cost in the end, if they paid 2100 for
\* the first touch of each of the slots: 100 for each SSTORE and each SLOAD of
\* a touched slot, and what the storage is worth more than it was.
PriceWith(slots) ==
    100 * (stores + warmLoads)
    + 2100 * Cardinality(slots)
    + Worth(storage) - Worth(atBoot.storage)

\* The slots an SLOAD or SSTORE was the first to touch since boot.
PaidSlots == warm \ (atBoot.warm \cup free)

\* The touched slots that were not there at boot and that the key of no other
\* slot is taken for.
NewSlots ==
    {k \in warm \ atBoot.warm :
       /\ k \notin DOMAIN atBoot.storage
       /\ \A j \in Keys : Reread[j] = k => j = k}

(* The type invariant; what was touched stays touched. *)
TypeOK ==
    /\ storage \in UNION {[S -> Values] : S \in SUBSET Keys}
    /\ warm \subseteq Keys
    /\ gasCost \in Int /\ gasRefund \in Int /\ gasLeft \in Int
    /\ status \in {"running", "stopped", "failed", "overflow"}
    /\ stores \in Nat /\ warmLoads \in Nat /\ other \in Nat /\ refunded \in Int
    /\ atBoot \in [storage : UNION {[S -> Values] : S \in SUBSET Keys},
                   warm : SUBSET Keys, refund : Int]
    /\ atBoot.warm \subseteq warm
    /\ free \subseteq warm \ atBoot.warm
    /\ DOMAIN atBoot.storage \subseteq DOMAIN storage
    /\ ops \in Nat /\ executes \in Nat /\ boots \in Nat

(* The price of storage depends on where it ends, not on the way there:    *)
(* whatever was written and overwritten, loaded and cleared, charges and   *)
(* refunds of ComputeSstoreGas add up to 100 for an access, 2100 for each  *)
(* slot that no fork had touched before, and the change in worth, in each  *)
(* life of the Evm and however often execute paid out a refund.            *)
NetPrice ==
    gasCost + refunded - (gasRefund - atBoot.refund) = other + PriceWith(PaidSlots)

(* No refund and no fork makes storage cheaper than its price: after the   *)
(* first execute of an Evm the bill covers the first touch of every slot   *)
(* the Evm did not start with, but for those a misread key names, and      *)
(* every new value.                                                        *)
StorageIsPaid ==
    boots = 1 /\ executes <= 1 => gasCost >= other + PriceWith(NewSlots)

(* "max one fifth is refunded", Evm.execute.  It does not hold: see the     *)
(* README.                                                                  *)
RefundCapped == 5 * refunded <= gasCost + refunded

(* GAS pushes what is left of the limit: the test of GAS takes the limit   *)
(* less the value pushed for the gas used so far.  It does not hold: see    *)
(* the README.                                                             *)
GasLeftIsWhatIsLeft == status = "running" /\ executes = 1 => gasLeft = GasLimit - gasCost

(* On a forked Evm a slot is fetched when it is loaded, and the load       *)
(* returns.                                                                *)
LoadsReturn == status # "overflow"
=============================================================================
