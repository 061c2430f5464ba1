------------------------ MODULE EvmStorageGasProofs ------------------------
(***************************************************************************)
(* NetPrice for all slots, values, prices of the other opcodes and bounds: *)
(* the charges and refunds of SSTORE form a potential.  PriceOfStore says  *)
(* so of one SSTORE, WorthOfEntry of the storage it leaves behind, and the *)
(* invariant TypeOK /\ NetPrice is inductive as it stands.                 *)
(***************************************************************************)
EXTENDS EvmStorageGas, FiniteSetTheorems, TLAPS

Storages == UNION {[S -> Values] : S \in SUBSET Keys}

\* What slot k adds to Worth when it holds c.
SlotWorth(k, c) ==
    IF Original[k] = 0 THEN (IF c = 0 THEN 0 ELSE 19900)
    ELSE IF c = 0 THEN -2000
    ELSE IF c = Original[k] THEN 0 ELSE 2800

(* An entry is what a storage holds for its slot, and nothing else.        *)
LEMMA EntryHolds ==
    ASSUME NEW entries \in Storages, NEW k \in Keys, NEW v \in Values
    PROVE  /\ Entry(entries, k, v) \in Storages
           /\ \A x \in Keys : ValueIn(Entry(entries, k, v), x)
                                = IF x = k THEN v ELSE ValueIn(entries, x)
<1>1. PICK S \in SUBSET Keys : entries \in [S -> Values]
  BY DEF Storages
<1>2. Entry(entries, k, v) \in [S \cup {k} -> Values]
  BY <1>1 DEF Entry
<1>3. S \cup {k} \in SUBSET Keys
  OBVIOUS
<1>4. Entry(entries, k, v) \in Storages
  BY <1>2, <1>3 DEF Storages
<1>5. ASSUME NEW x \in Keys
      PROVE  ValueIn(Entry(entries, k, v), x) = IF x = k THEN v ELSE ValueIn(entries, x)
  BY <1>1 DEF Entry, ValueIn
<1> QED
  BY <1>4, <1>5

(* A storage holds a value of Values for every slot.                       *)
LEMMA ValueInValues ==
    ASSUME NEW entries \in Storages, NEW k \in Keys
    PROVE  ValueIn(entries, k) \in Values
BY ValuesNumbers DEF Storages, ValueIn

(* Two sets of slots that differ at most in k have sizes that differ by it.*)
LEMMA SizeByMember ==
    ASSUME NEW S \in SUBSET Keys, NEW T \in SUBSET Keys, NEW k \in Keys,
           S \ {k} = T \ {k}
    PROVE  /\ Cardinality(S) \in Nat
           /\ Cardinality(T) \in Nat
           /\ Cardinality(T) - (IF k \in T THEN 1 ELSE 0)
                = Cardinality(S) - (IF k \in S THEN 1 ELSE 0)
<1> DEFINE R == S \ {k}
<1>1. IsFiniteSet(R) /\ IsFiniteSet(S) /\ IsFiniteSet(T)
  BY KeysFinite, FS_Subset
<1>2. /\ Cardinality(R) \in Nat
      /\ Cardinality(S) \in Nat
      /\ Cardinality(T) \in Nat
  BY <1>1, FS_CardinalityType
<1>3. Cardinality(R \cup {k}) = Cardinality(R) + 1
  BY <1>1, FS_AddElement
<1>4. ASSUME NEW U \in SUBSET Keys, U \ {k} = R
      PROVE  Cardinality(U) - (IF k \in U THEN 1 ELSE 0) = Cardinality(R)
  <2>1. CASE k \in U
    <3>1. U = R \cup {k}
      BY <1>4, <2>1
    <3> QED
      BY <1>2, <1>3, <2>1, <3>1
  <2>2. CASE k \notin U
    <3>1. U = R
      BY <1>4, <2>2
    <3> QED
      BY <1>2, <2>2, <3>1
  <2> QED
    BY <2>1, <2>2
<1> QED
  BY <1>2, <1>4

(* Writing a slot changes what a storage is worth by that slot alone.      *)
LEMMA WorthOfEntry ==
    ASSUME NEW entries \in Storages, NEW k \in Keys, NEW v \in Values
    PROVE  /\ Worth(entries) \in Int
           /\ Worth(Entry(entries, k, v)) \in Int
           /\ Worth(Entry(entries, k, v)) - Worth(entries)
                = SlotWorth(k, v) - SlotWorth(k, ValueIn(entries, k))
<1> DEFINE next == Entry(entries, k, v)
           was == ValueIn(entries, k)
<1>1. \A x \in Keys : ValueIn(next, x) = IF x = k THEN v ELSE ValueIn(entries, x)
  BY EntryHolds
<1>2. was \in Values /\ Original[k] \in Values
  BY ValueInValues, StorageConstants
<1>3. /\ Cardinality(Created(entries)) \in Nat
      /\ Cardinality(Created(next)) \in Nat
      /\ Cardinality(Created(next)) - (IF Original[k] = 0 /\ v # 0 THEN 1 ELSE 0)
           = Cardinality(Created(entries)) - (IF Original[k] = 0 /\ was # 0 THEN 1 ELSE 0)
  <2>1. Created(entries) \ {k} = Created(next) \ {k}
    BY <1>1 DEF Created
  <2>2. /\ k \in Created(entries) <=> Original[k] = 0 /\ was # 0
        /\ k \in Created(next) <=> Original[k] = 0 /\ v # 0
    BY <1>1 DEF Created
  <2>3. Created(entries) \in SUBSET Keys /\ Created(next) \in SUBSET Keys
    BY DEF Created
  <2> HIDE DEF next, was
  <2> QED
    BY <2>1, <2>2, <2>3, SizeByMember
<1>4. /\ Cardinality(Changed(entries)) \in Nat
      /\ Cardinality(Changed(next)) \in Nat
      /\ Cardinality(Changed(next))
           - (IF Original[k] # 0 /\ v # 0 /\ v # Original[k] THEN 1 ELSE 0)
           = Cardinality(Changed(entries))
             - (IF Original[k] # 0 /\ was # 0 /\ was # Original[k] THEN 1 ELSE 0)
  <2>1. Changed(entries) \ {k} = Changed(next) \ {k}
    BY <1>1 DEF Changed
  <2>2. /\ k \in Changed(entries) <=> Original[k] # 0 /\ was # 0 /\ was # Original[k]
        /\ k \in Changed(next) <=> Original[k] # 0 /\ v # 0 /\ v # Original[k]
    BY <1>1 DEF Changed
  <2>3. Changed(entries) \in SUBSET Keys /\ Changed(next) \in SUBSET Keys
    BY DEF Changed
  <2> HIDE DEF next, was
  <2> QED
    BY <2>1, <2>2, <2>3, SizeByMember
<1>5. /\ Cardinality(Cleared(entries)) \in Nat
      /\ Cardinality(Cleared(next)) \in Nat
      /\ Cardinality(Cleared(next)) - (IF Original[k] # 0 /\ v = 0 THEN 1 ELSE 0)
           = Cardinality(Cleared(entries)) - (IF Original[k] # 0 /\ was = 0 THEN 1 ELSE 0)
  <2>1. Cleared(entries) \ {k} = Cleared(next) \ {k}
    BY <1>1 DEF Cleared
  <2>2. /\ k \in Cleared(entries) <=> Original[k] # 0 /\ was = 0
        /\ k \in Cleared(next) <=> Original[k] # 0 /\ v = 0
    BY <1>1 DEF Cleared
  <2>3. Cleared(entries) \in SUBSET Keys /\ Cleared(next) \in SUBSET Keys
    BY DEF Cleared
  <2> HIDE DEF next, was
  <2> QED
    BY <2>1, <2>2, <2>3, SizeByMember
<1> HIDE DEF next, was
<1> DEFINE created(c) == IF Original[k] = 0 /\ c # 0 THEN 1 ELSE 0
           changed(c) == IF Original[k] # 0 /\ c # 0 /\ c # Original[k] THEN 1 ELSE 0
           cleared(c) == IF Original[k] # 0 /\ c = 0 THEN 1 ELSE 0
<1>6. ASSUME NEW c \in Nat
      PROVE  /\ created(c) \in Int /\ changed(c) \in Int /\ cleared(c) \in Int
             /\ SlotWorth(k, c) = 19900 * created(c) + 2800 * changed(c) - 2000 * cleared(c)
  BY DEF SlotWorth
<1>7. v \in Nat /\ was \in Nat
  BY <1>2, ValuesNumbers
<1>8. /\ Cardinality(Created(next)) - created(v)
           = Cardinality(Created(entries)) - created(was)
      /\ Cardinality(Changed(next)) - changed(v)
           = Cardinality(Changed(entries)) - changed(was)
      /\ Cardinality(Cleared(next)) - cleared(v)
           = Cardinality(Cleared(entries)) - cleared(was)
  BY <1>3, <1>4, <1>5
<1> HIDE DEF created, changed, cleared
<1>9. Worth(entries) \in Int /\ Worth(next) \in Int
  BY <1>3, <1>4, <1>5 DEF Worth
<1>10. Worth(next) - Worth(entries) = SlotWorth(k, v) - SlotWorth(k, was)
  BY <1>3, <1>4, <1>5, <1>6, <1>7, <1>8 DEF Worth
<1> QED
  BY <1>9, <1>10 DEF next, was

(* One SSTORE: its charge less its refund is 100, the first touch, and the *)
(* change in what the slot is worth.                                       *)
LEMMA PriceOfStore ==
    ASSUME NEW k \in Keys, NEW c \in Values, NEW v \in Values, NEW W \in SUBSET Keys
    PROVE  /\ SstoreGas(Original[k], c, v, k \notin W) \in Int
           /\ SstoreRefund(Original[k], c, v) \in Int
           /\ SlotWorth(k, c) \in Int /\ SlotWorth(k, v) \in Int
           /\ SstoreGas(Original[k], c, v, k \notin W) - SstoreRefund(Original[k], c, v)
                = 100 + 2100 * (IF k \in W THEN 0 ELSE 1)
                  + SlotWorth(k, v) - SlotWorth(k, c)
BY ValuesNumbers, StorageConstants
   DEF SstoreGas, SstoreRefund, ClearingRefund, ResettingRefund, SlotWorth

(* The first touch of a slot adds one to the slots paid for since boot.    *)
LEMMA FirstTouch ==
    ASSUME NEW W \in SUBSET Keys, NEW B \in SUBSET W, NEW k \in Keys
    PROVE  /\ Cardinality(W \ B) \in Nat
           /\ Cardinality((W \cup {k}) \ B)
                = Cardinality(W \ B) + (IF k \in W THEN 0 ELSE 1)
<1>1. IsFiniteSet(W \ B)
  BY KeysFinite, FS_Subset
<1>2. Cardinality(W \ B) \in Nat
  BY <1>1, FS_CardinalityType
<1>3. CASE k \in W
  <2>1. (W \cup {k}) \ B = W \ B
    BY <1>3
  <2> QED
    BY <1>2, <1>3, <2>1
<1>4. CASE k \notin W
  <2>1. (W \cup {k}) \ B = (W \ B) \cup {k}
    BY <1>4
  <2> QED
    BY <1>1, <1>2, <1>4, <2>1, FS_AddElement
<1> QED
  BY <1>3, <1>4

(* What a fork touches is a set of slots; those it is the first to touch   *)
(* are not paid for.                                                       *)
LEMMA ForkTouches ==
    ASSUME TypeOK, Fork, UNCHANGED atBoot
    PROVE  /\ warm' \in SUBSET Keys /\ warm \subseteq warm'
           /\ free' \subseteq warm' \ atBoot'.warm
           /\ PaidSlots' = PaidSlots
<1>1. Copied \subseteq Keys
  <2>1. DOMAIN storage \subseteq Keys
    BY DEF TypeOK
  <2> QED
    BY <2>1, StorageConstants DEF Copied
<1>2. /\ warm \in SUBSET Keys
      /\ free \subseteq warm \ atBoot.warm
      /\ atBoot.warm \subseteq warm
  BY DEF TypeOK
<1> QED
  BY <1>1, <1>2 DEF Fork, PaidSlots

----------------------------------------------------------------------------
IInv == TypeOK /\ NetPrice

(* The net bill, as a number; TypeOK makes it one.                         *)
LEMMA PriceIsInt ==
    ASSUME TypeOK
    PROVE  /\ Worth(storage) \in Int
           /\ Worth(atBoot.storage) \in Int
           /\ Cardinality(PaidSlots) \in Nat
           /\ Cardinality(NewSlots) \in Nat
           /\ \A k \in Keys : Original[k] \in Values /\ Current(k) \in Values
<1>1. storage \in Storages /\ atBoot.storage \in Storages
  BY DEF TypeOK, Storages
<1>2. ASSUME NEW entries \in Storages
      PROVE  Worth(entries) \in Int
  <2>1. /\ IsFiniteSet(Created(entries))
        /\ IsFiniteSet(Changed(entries))
        /\ IsFiniteSet(Cleared(entries))
    BY KeysFinite, FS_Subset DEF Created, Changed, Cleared
  <2> QED
    BY <2>1, FS_CardinalityType DEF Worth
<1>3. IsFiniteSet(PaidSlots) /\ IsFiniteSet(NewSlots)
  BY KeysFinite, FS_Subset DEF TypeOK, PaidSlots, NewSlots
<1>4. Cardinality(PaidSlots) \in Nat /\ Cardinality(NewSlots) \in Nat
  BY <1>3, FS_CardinalityType
<1>5. \A k \in Keys : Original[k] \in Values /\ Current(k) \in Values
  BY <1>1, ValueInValues, StorageConstants DEF Current
<1> QED
  BY <1>1, <1>2, <1>4, <1>5

(* At boot the bill is what boot charged, and no storage was paid for.     *)
LEMMA NothingPricedAtBoot ==
    ASSUME TypeOK, atBoot.storage = storage, atBoot.warm = warm,
           stores = 0, warmLoads = 0
    PROVE  PriceWith(PaidSlots) = 0
<1>1. PaidSlots = {}
  BY DEF PaidSlots
<1>2. Cardinality(PaidSlots) = 0
  BY <1>1, FS_EmptySet
<1> QED
  BY <1>2, PriceIsInt DEF PriceWith

(* A new Evm has paid nothing for storage.                                 *)
LEMMA InitPriced == Init => IInv
<1> SUFFICES ASSUME Init PROVE IInv
  OBVIOUS
<1>1. TypeOK
  BY StorageConstants, GasConstants DEF Init, TypeOK
<1>2. /\ atBoot.storage = storage
      /\ atBoot.warm = warm
      /\ atBoot.refund = gasRefund
      /\ stores = 0 /\ warmLoads = 0 /\ refunded = 0 /\ other = gasCost
  BY DEF Init
<1>3. PriceWith(PaidSlots) = 0
  BY <1>1, <1>2, NothingPricedAtBoot
<1> QED
  BY <1>1, <1>2, <1>3 DEF IInv, NetPrice, TypeOK

(* Every step of the Evm keeps the type invariant.                         *)
LEMMA NextTyped == TypeOK /\ [Next]_vars => TypeOK'
<1> SUFFICES ASSUME TypeOK, [Next]_vars PROVE TypeOK'
  OBVIOUS
<1> USE DEF Storages
<1>1. CASE Boot
  BY <1>1, GasConstants DEF TypeOK, Boot
<1>2. CASE Execute
  BY <1>2 DEF TypeOK, Execute, history
<1>3. CASE Stop
  <2>1. MinRefund \in Int
    BY DEF TypeOK, MinRefund
  <2> QED
    BY <1>3, <2>1 DEF TypeOK, Stop, counters
<1>4. CASE Throw
  <2>1. /\ warm' \in SUBSET Keys /\ warm \subseteq warm'
        /\ free' \subseteq warm' \ atBoot'.warm
    BY <1>4, ForkTouches DEF TypeOK, Throw
  <2> QED
    BY <1>4, <2>1 DEF TypeOK, Throw, counters
<1>5. ASSUME NEW k \in Keys, Sload(k) PROVE TypeOK'
  <2>1. SloadGas(k \notin warm) \in Nat
    BY DEF SloadGas
  <2>2. CASE Load(k)
    BY <1>5, <2>1, <2>2 DEF TypeOK, Sload, Running, Load, Charged
  <2>3. CASE Fetch(k)
    <3>1. /\ Entry(storage, k, Chain[k]) \in Storages
          /\ Entry(atBoot.storage, k, Chain[k]) \in Storages
      BY EntryHolds, StorageConstants DEF TypeOK
    <3>2. atBoot' \in [storage : Storages, warm : SUBSET Keys, refund : Int]
      BY <2>3, <3>1 DEF TypeOK, Fetch
    <3>3. atBoot'.warm = atBoot.warm
      BY <2>3 DEF TypeOK, Fetch
    <3>4. DOMAIN atBoot'.storage \subseteq DOMAIN storage'
      BY <2>3 DEF TypeOK, Fetch, Entry
    <3> QED
      BY <1>5, <2>1, <2>3, <3>1, <3>2, <3>3, <3>4 DEF TypeOK, Sload, Running, Fetch, Charged
  <2>4. CASE ReadsItself(k)
    BY <1>5, <2>4 DEF TypeOK, Sload, Running, ReadsItself
  <2> QED
    BY <1>5, <2>2, <2>3, <2>4 DEF Sload
<1>6. ASSUME NEW k \in Keys, NEW v \in Values, Sstore(k, v) PROVE TypeOK'
  <2>1. Entry(storage, k, v) \in Storages
    BY EntryHolds DEF TypeOK
  <2>2. /\ SstoreGas(Original[k], Current(k), v, k \notin warm) \in Int
        /\ SstoreRefund(Original[k], Current(k), v) \in Int
    <3>1. Current(k) \in Values /\ warm \in SUBSET Keys
      BY PriceIsInt DEF TypeOK
    <3> HIDE DEF Storages
    <3> QED
      BY <3>1, PriceOfStore
  <2>3. DOMAIN atBoot'.storage \subseteq DOMAIN storage'
    BY <1>6 DEF TypeOK, Sstore, Entry
  <2> QED
    BY <1>6, <2>1, <2>2, <2>3 DEF TypeOK, Sstore, Running
<1>7. ASSUME NEW cost \in OtherCosts, Other(cost[1], cost[2]) PROVE TypeOK'
  <2>1. cost[1] \in Nat /\ cost[2] \in Nat
    BY GasConstants
  <2> QED
    BY <1>7, <2>1 DEF TypeOK, Other, Costs, Running
<1>8. ASSUME NEW cost \in ForkCosts, SubContext(cost[1], cost[2]) PROVE TypeOK'
  <2>1. cost[1] \in Nat /\ cost[2] \in Nat
    BY GasConstants
  <2>2. /\ warm' \in SUBSET Keys /\ warm \subseteq warm'
        /\ free' \subseteq warm' \ atBoot'.warm
    BY <1>8, ForkTouches DEF SubContext, Costs
  <2> QED
    BY <1>8, <2>1, <2>2 DEF TypeOK, SubContext, Costs, Running
<1>9. CASE UNCHANGED vars
  BY <1>9 DEF TypeOK, vars, history, counters
<1> QED
  BY <1>1, <1>2, <1>3, <1>4, <1>5, <1>6, <1>7, <1>8, <1>9 DEF Next

(* Every step of the Evm keeps the price of storage net of refunds.        *)
LEMMA NextPriced == IInv /\ [Next]_vars => NetPrice'
<1> SUFFICES ASSUME TypeOK, NetPrice, TypeOK', [Next]_vars PROVE NetPrice'
  BY NextTyped DEF IInv
<1>0. /\ gasCost \in Int /\ gasRefund \in Int /\ atBoot.refund \in Int
      /\ stores \in Int /\ warmLoads \in Int /\ other \in Int /\ refunded \in Int
  BY DEF TypeOK
<1> DEFINE touched == Cardinality(PaidSlots)
           worth == Worth(storage)
           worthAtBoot == Worth(atBoot.storage)
<1>a. touched \in Int /\ worth \in Int /\ worthAtBoot \in Int
  BY PriceIsInt
<1>b. gasCost + refunded - (gasRefund - atBoot.refund)
        = other + (100 * (stores + warmLoads) + 2100 * touched + worth - worthAtBoot)
  BY DEF NetPrice, PriceWith
<1>1. CASE Boot
  <2>1. /\ atBoot'.storage = storage' /\ atBoot'.warm = warm'
        /\ atBoot'.refund = gasRefund' /\ other' = gasCost'
        /\ stores' = 0 /\ warmLoads' = 0 /\ refunded' = 0
    BY <1>1 DEF Boot
  <2>2. PriceWith(PaidSlots)' = 0
    <3>1. PaidSlots' = {}
      BY <2>1 DEF PaidSlots
    <3>2. Cardinality(PaidSlots)' = 0
      BY <3>1, FS_EmptySet
    <3>3. Worth(storage)' = worth /\ Worth(atBoot.storage)' = worth
      BY <1>1 DEF Boot, Worth, Created, Changed, Cleared, ValueIn
    <3> QED
      BY <1>a, <2>1, <3>2, <3>3 DEF PriceWith
  <2> QED
    BY <2>1, <2>2 DEF NetPrice, TypeOK
<1>2. ASSUME UNCHANGED <<storage, stores, warmLoads, atBoot>>,
             PaidSlots' = PaidSlots,
             other' - other = gasCost' + refunded' - gasCost - refunded,
             gasRefund' = gasRefund
      PROVE  NetPrice'
  <2>1. /\ Worth(storage)' = worth
        /\ Worth(atBoot.storage)' = worthAtBoot
        /\ Cardinality(PaidSlots)' = touched
    BY <1>2 DEF Worth, Created, Changed, Cleared, ValueIn
  <2>2. gasCost' \in Int /\ refunded' \in Int /\ other' \in Int
    BY DEF TypeOK
  <2>3. PriceWith(PaidSlots)'
          = 100 * (stores + warmLoads) + 2100 * touched + worth - worthAtBoot
    BY <1>2, <2>1 DEF PriceWith
  <2>4. atBoot'.refund = atBoot.refund
    BY <1>2
  <2> HIDE DEF touched, worth, worthAtBoot
  <2> QED
    BY <1>0, <1>a, <1>b, <1>2, <2>2, <2>3, <2>4 DEF NetPrice
<1>3. CASE Execute
  BY <1>0, <1>2, <1>3 DEF Execute, history, PaidSlots
<1>4. CASE Stop
  <2>1. MinRefund \in Int
    BY <1>0 DEF MinRefund
  <2> QED
    BY <1>0, <1>2, <1>4, <2>1 DEF Stop, PaidSlots
<1>5. CASE Throw
  <2>1. PaidSlots' = PaidSlots
    BY <1>5, ForkTouches DEF Throw, PaidSlots
  <2> QED
    BY <1>0, <1>2, <1>5, <2>1 DEF Throw
<1>6. ASSUME NEW cost \in OtherCosts, Other(cost[1], cost[2]) PROVE NetPrice'
  <2>1. cost[1] \in Int /\ cost[2] \in Int
    BY GasConstants
  <2> QED
    BY <1>0, <1>2, <1>6, <2>1 DEF Other, Costs, Running, PaidSlots
<1>7. CASE UNCHANGED vars
  BY <1>0, <1>2, <1>7 DEF vars, history, PaidSlots
<1>10. ASSUME NEW cost \in ForkCosts, SubContext(cost[1], cost[2]) PROVE NetPrice'
  <2>1. cost[1] \in Int /\ cost[2] \in Int
    BY GasConstants
  <2>2. PaidSlots' = PaidSlots
    BY <1>10, ForkTouches DEF SubContext, Costs
  <2> QED
    BY <1>0, <1>2, <1>10, <2>1, <2>2 DEF SubContext, Costs, Running
<1>8. ASSUME NEW k \in Keys, Sload(k) PROVE NetPrice'
  <2> DEFINE first == IF k \in warm THEN 0 ELSE 1
  <2>1. /\ first \in Int /\ warm \in SUBSET Keys
        /\ (atBoot.warm \cup free) \in SUBSET warm
    BY DEF TypeOK
  <2>2. ASSUME Charged(k), atBoot'.warm = atBoot.warm, atBoot'.refund = atBoot.refund,
               Worth(storage)' \in Int, Worth(atBoot.storage)' \in Int,
               Worth(storage)' - Worth(atBoot.storage)' = worth - worthAtBoot
        PROVE  NetPrice'
    <3>1. Cardinality(PaidSlots)' = touched + first
      <4>1. warm' = warm \cup {k} /\ atBoot'.warm = atBoot.warm /\ free' = free
        BY <2>2 DEF Charged
      <4>2. /\ PaidSlots = warm \ (atBoot.warm \cup free)
            /\ PaidSlots' = (warm \cup {k}) \ (atBoot.warm \cup free)
        BY <4>1 DEF PaidSlots
      <4>3. Cardinality((warm \cup {k}) \ (atBoot.warm \cup free))
              = Cardinality(warm \ (atBoot.warm \cup free)) + first
        BY <2>1, FirstTouch
      <4> QED
        BY <4>2, <4>3
    <3>2. /\ gasCost' = gasCost + 100 * (1 - first) + 2100 * first
          /\ warmLoads' = warmLoads + (1 - first)
          /\ UNCHANGED <<gasRefund, stores, other, refunded>>
      BY <1>0, <1>8, <2>2 DEF Charged, SloadGas, Sload, Running
    <3>3. PriceWith(PaidSlots)' = 100 * (stores + warmLoads + (1 - first))
                          + 2100 * (touched + first) + worth - worthAtBoot
      <4> HIDE DEF worth, worthAtBoot, touched, first
      <4>1. PriceWith(PaidSlots)' = 100 * (stores + warmLoads') + 2100 * (touched + first)
                            + (Worth(storage)' - Worth(atBoot.storage)')
        BY <1>0, <1>a, <2>1, <2>2, <3>1, <3>2 DEF PriceWith
      <4> QED
        BY <1>0, <1>a, <2>1, <2>2, <3>2, <4>1
    <3>4. /\ gasRefund' = gasRefund /\ other' = other /\ refunded' = refunded
          /\ atBoot'.refund = atBoot.refund
      BY <2>2, <3>2
    <3>5. first \in Int
      BY <2>1
    <3> HIDE DEF worth, worthAtBoot, touched, first
    <3>6. gasCost' + refunded' - (gasRefund' - atBoot'.refund)
            = gasCost + refunded - (gasRefund - atBoot.refund) + 100 + 2000 * first
      BY <1>0, <3>2, <3>4, <3>5
    <3>7. other' + PriceWith(PaidSlots)'
            = other + (100 * (stores + warmLoads) + 2100 * touched + worth - worthAtBoot)
              + 100 + 2000 * first
      BY <1>0, <1>a, <3>3, <3>4, <3>5
    <3> QED
      BY <1>b, <3>6, <3>7 DEF NetPrice
  <2>3. CASE Load(k)
    <3>1. Worth(storage)' = worth /\ Worth(atBoot.storage)' = worthAtBoot
      BY <2>3 DEF Load, Worth, Created, Changed, Cleared, ValueIn
    <3>2. Charged(k) /\ atBoot'.warm = atBoot.warm /\ atBoot'.refund = atBoot.refund
      BY <2>3 DEF Load
    <3>3. /\ Worth(storage)' \in Int /\ Worth(atBoot.storage)' \in Int
          /\ Worth(storage)' - Worth(atBoot.storage)' = worth - worthAtBoot
      BY <1>a, <3>1
    <3> HIDE DEF worth, worthAtBoot
    <3> QED
      BY <2>2, <3>2, <3>3
  <2>4. CASE Fetch(k)
    <3>1. /\ storage \in Storages /\ atBoot.storage \in Storages
          /\ Chain[k] \in Values
      BY StorageConstants DEF TypeOK, Storages
    <3>2. /\ Worth(storage)' = Worth(Entry(storage, k, Chain[k]))
          /\ Worth(atBoot.storage)' = Worth(Entry(atBoot.storage, k, Chain[k]))
          /\ atBoot'.warm = atBoot.warm /\ atBoot'.refund = atBoot.refund
      BY <2>4 DEF TypeOK, Fetch, Worth, Created, Changed, Cleared, ValueIn
    <3>3. ValueIn(storage, k) = 0 /\ ValueIn(atBoot.storage, k) = 0
      BY <2>4 DEF Fetch, ValueIn, TypeOK
    <3>4. /\ Worth(storage)' \in Int /\ Worth(atBoot.storage)' \in Int
          /\ Worth(storage)' - worth = SlotWorth(k, Chain[k]) - SlotWorth(k, 0)
          /\ Worth(atBoot.storage)' - worthAtBoot = SlotWorth(k, Chain[k]) - SlotWorth(k, 0)
      BY <3>1, <3>2, <3>3, WorthOfEntry
    <3>5. SlotWorth(k, Chain[k]) - SlotWorth(k, 0) \in Int
      BY DEF SlotWorth
    <3>6. Worth(storage)' - Worth(atBoot.storage)' = worth - worthAtBoot
      <4> HIDE DEF worth, worthAtBoot
      <4> QED
        BY <1>a, <3>4, <3>5
    <3> QED
      BY <2>2, <2>4, <3>2, <3>4, <3>6 DEF Fetch
  <2>5. CASE ReadsItself(k)
    BY <1>0, <1>2, <1>8, <2>5 DEF ReadsItself, Sload, Running, PaidSlots
  <2> QED
    BY <1>8, <2>3, <2>4, <2>5 DEF Sload
<1>9. ASSUME NEW k \in Keys, NEW v \in Values, Sstore(k, v) PROVE NetPrice'
  <2> DEFINE first == IF k \in warm THEN 0 ELSE 1
  <2>1. storage \in Storages /\ Current(k) \in Values
    BY PriceIsInt DEF TypeOK, Storages
  <2>2. /\ Worth(storage)' \in Int
        /\ Worth(storage)' - worth = SlotWorth(k, v) - SlotWorth(k, Current(k))
    <3>1. Worth(storage)' = Worth(Entry(storage, k, v))
      BY <1>9 DEF Sstore, Worth, Created, Changed, Cleared, ValueIn
    <3> QED
      BY <2>1, <3>1, WorthOfEntry DEF Current
  <2>3. Worth(atBoot.storage)' = worthAtBoot /\ atBoot' = atBoot
    BY <1>9 DEF Sstore, Worth, Created, Changed, Cleared, ValueIn
  <2>4. Cardinality(PaidSlots)' = touched + first
    <3>1. /\ warm \in SUBSET Keys
          /\ (atBoot.warm \cup free) \in SUBSET warm
      BY DEF TypeOK
    <3>2. warm' = warm \cup {k} /\ free' = free
      BY <1>9 DEF Sstore
    <3>3. /\ PaidSlots = warm \ (atBoot.warm \cup free)
          /\ PaidSlots' = (warm \cup {k}) \ (atBoot.warm \cup free)
      BY <2>3, <3>2 DEF PaidSlots
    <3>4. Cardinality((warm \cup {k}) \ (atBoot.warm \cup free))
            = Cardinality(warm \ (atBoot.warm \cup free)) + first
      BY <3>1, FirstTouch
    <3> QED
      BY <3>3, <3>4
  <2>5. first \in Int /\ warm \in SUBSET Keys
    BY DEF TypeOK
  <2> DEFINE charge == SstoreGas(Original[k], Current(k), v, k \notin warm)
             refund == SstoreRefund(Original[k], Current(k), v)
             before == SlotWorth(k, Current(k))
             after == SlotWorth(k, v)
  <2>6. /\ charge \in Int /\ refund \in Int /\ before \in Int /\ after \in Int
        /\ charge - refund = 100 + 2100 * first + after - before
    BY <2>1, <2>5, PriceOfStore
  <2>7. /\ gasCost' = gasCost + charge
        /\ gasRefund' = gasRefund + refund
        /\ stores' = stores + 1
        /\ UNCHANGED <<warmLoads, other, refunded>>
    BY <1>9 DEF Sstore, Running
  <2>8. PriceWith(PaidSlots)' = 100 * (stores + 1 + warmLoads)
                        + 2100 * (touched + first)
                        + Worth(storage)' - worthAtBoot
    BY <2>3, <2>4, <2>7 DEF PriceWith
  <2>9. Worth(storage)' = worth + after - before
    <3> HIDE DEF worth, after, before
    <3> QED
      BY <1>a, <2>2, <2>6 DEF after, before
  <2>10. gasCost' + refunded' - (gasRefund' - atBoot'.refund)
           = gasCost + refunded - (gasRefund - atBoot.refund)
             + 100 + 2100 * first + after - before
    <3> HIDE DEF charge, refund, before, after, first
    <3> QED
      BY <1>0, <2>3, <2>5, <2>6, <2>7
  <2> HIDE DEF touched, worth, worthAtBoot, charge, refund, before, after, first
  <2>11. PriceWith(PaidSlots)' = 100 * (stores + warmLoads) + 2100 * touched + worth - worthAtBoot
                         + 100 + 2100 * first + after - before
    BY <1>0, <1>a, <2>5, <2>6, <2>8, <2>9
  <2> QED
    BY <1>0, <1>a, <1>b, <2>5, <2>6, <2>7, <2>10, <2>11 DEF NetPrice
<1> QED
  BY <1>1, <1>3, <1>4, <1>5, <1>6, <1>7, <1>8, <1>9, <1>10 DEF Next

(* TypeOK /\ NetPrice is inductive.                                        *)
THEOREM Priced == Spec => []IInv
<1>1. Init => IInv
  BY InitPriced
<1>2. IInv /\ [Next]_vars => IInv'
  BY NextTyped, NextPriced DEF IInv
<1> QED
  BY <1>1, <1>2, PTL DEF Spec

(* The type invariant of the storage gas machine.                          *)
THEOREM StorageTyped == Spec => []TypeOK
<1>1. IInv => TypeOK
  BY DEF IInv
<1> QED
  BY <1>1, Priced, PTL

(* The price of storage depends on where it ends and not on the way there, *)
(* for any slots, values, original values and costs of other opcodes.      *)
THEOREM StoragePricedByItsEnd == Spec => []NetPrice
<1>1. IInv => NetPrice
  BY DEF IInv
<1> QED
  BY <1>1, Priced, PTL

----------------------------------------------------------------------------
(* The first execute pays out once, and out of what was earned.            *)
PaidOutOnce ==
    /\ gasRefund >= 0
    /\ boots >= 1
    /\ boots = 1 =>
         /\ atBoot.refund = 0
         /\ executes = 0 => status = "stopped" /\ refunded = 0
         /\ executes = 1 /\ status = "running" => refunded = 0
         /\ executes <= 1 => refunded <= gasRefund

(* With originalStorageValue empty no store earns less than nothing, and   *)
(* only the end of an execute pays out.                                    *)
LEMMA NextPaidOutOnce ==
    ASSUME \A k \in Keys : Original[k] = 0, TypeOK, PaidOutOnce, [Next]_vars
    PROVE  PaidOutOnce'
<1>0. /\ gasCost \in Int /\ gasRefund \in Int /\ refunded \in Int
      /\ executes \in Nat /\ boots \in Nat
  BY DEF TypeOK
<1>1. CASE Boot
  BY <1>0, <1>1 DEF PaidOutOnce, Boot
<1>2. CASE Execute
  BY <1>0, <1>2 DEF PaidOutOnce, Execute, history
<1>3. CASE Stop
  <2>1. MinRefund \in Int /\ MinRefund <= gasRefund
    BY <1>0 DEF MinRefund
  <2> QED
    BY <1>0, <1>3, <2>1 DEF PaidOutOnce, Stop, counters
<1>4. CASE Throw
  BY <1>0, <1>4 DEF PaidOutOnce, Throw, counters
<1>5. ASSUME NEW k \in Keys, Sload(k) PROVE PaidOutOnce'
  <2>1. UNCHANGED <<gasRefund, refunded, executes, boots>> /\ atBoot'.refund = atBoot.refund
    BY <1>5 DEF Sload, Running, Load, Fetch, ReadsItself, Charged, TypeOK
  <2>2. status = "running"
    BY <1>5 DEF Sload, Running
  <2> QED
    BY <1>0, <2>1, <2>2 DEF PaidOutOnce
<1>6. ASSUME NEW k \in Keys, NEW v \in Values, Sstore(k, v) PROVE PaidOutOnce'
  <2>1. SstoreRefund(Original[k], Current(k), v) \in {0, 19900}
    BY DEF SstoreRefund, ClearingRefund, ResettingRefund
  <2>2. /\ gasRefund' >= gasRefund /\ gasRefund' \in Int
        /\ UNCHANGED <<status, refunded, executes, boots, atBoot>>
    BY <1>0, <1>6, <2>1 DEF Sstore, Running
  <2> QED
    BY <1>0, <1>6, <2>2 DEF PaidOutOnce
<1>7. ASSUME NEW cost \in OtherCosts, Other(cost[1], cost[2]) PROVE PaidOutOnce'
  BY <1>0, <1>7 DEF PaidOutOnce, Other, Costs, Running
<1>8. ASSUME NEW cost \in ForkCosts, SubContext(cost[1], cost[2]) PROVE PaidOutOnce'
  BY <1>0, <1>8 DEF PaidOutOnce, SubContext, Costs, Running
<1>9. CASE UNCHANGED vars
  BY <1>9 DEF PaidOutOnce, vars, history, counters
<1> QED
  BY <1>1, <1>2, <1>3, <1>4, <1>5, <1>6, <1>7, <1>8, <1>9 DEF Next

(* Every entry was there at boot or was touched since; what a fork touches *)
(* first was there, or a misread key named it.                             *)
EntriesKnown ==
    /\ DOMAIN storage \subseteq DOMAIN atBoot.storage \cup warm
    /\ \A k \in free :
         k \in DOMAIN atBoot.storage \/ \E j \in Keys : Reread[j] = k /\ j # k

(* A fork that touches an entry for nothing finds it untouched, so that it *)
(* was there at boot.                                                      *)
LEMMA ForkKnows ==
    ASSUME TypeOK, EntriesKnown, Fork, UNCHANGED <<storage, atBoot>>
    PROVE  EntriesKnown'
<1>1. warm \subseteq warm'
  BY DEF Fork
<1>2. ASSUME NEW k \in free'
      PROVE  k \in DOMAIN atBoot.storage \/ \E j \in Keys : Reread[j] = k /\ j # k
  <2>1. CASE k \in free
    BY <2>1 DEF EntriesKnown
  <2>2. CASE k \in Copied \ warm
    <3>1. PICK j \in DOMAIN storage : Reread[j] = k
      BY <2>2 DEF Copied
    <3>2. j \in Keys
      BY <3>1 DEF TypeOK
    <3>3. CASE j = k
      BY <2>2, <3>1, <3>3 DEF EntriesKnown
    <3> QED
      BY <3>1, <3>2, <3>3
  <2> QED
    BY <1>2, <2>1, <2>2 DEF Fork
<1> QED
  BY <1>1, <1>2 DEF EntriesKnown

LEMMA NextKnown == TypeOK /\ EntriesKnown /\ [Next]_vars => EntriesKnown'
<1> SUFFICES ASSUME TypeOK, EntriesKnown, [Next]_vars PROVE EntriesKnown'
  OBVIOUS
<1>1. CASE Boot
  BY <1>1 DEF EntriesKnown, Boot
<1>2. ASSUME UNCHANGED <<storage, warm, free, atBoot>> PROVE EntriesKnown'
  BY <1>2 DEF EntriesKnown
<1>3. CASE Throw
  BY <1>2, <1>3, ForkKnows DEF Throw
<1>4. ASSUME NEW k \in Keys, Sload(k) PROVE EntriesKnown'
  <2>1. CASE Fetch(k)
    <3>1. /\ DOMAIN storage' = DOMAIN storage \cup {k}
          /\ DOMAIN atBoot'.storage = DOMAIN atBoot.storage \cup {k}
          /\ free' = free /\ warm \subseteq warm'
      BY <2>1 DEF Fetch, Charged, Entry, TypeOK
    <3> QED
      BY <3>1 DEF EntriesKnown
  <2>2. CASE Load(k)
    BY <2>2 DEF Load, Charged, EntriesKnown
  <2>3. CASE ReadsItself(k)
    BY <1>2, <2>3 DEF ReadsItself
  <2> QED
    BY <1>4, <2>1, <2>2, <2>3 DEF Sload
<1>5. ASSUME NEW k \in Keys, NEW v \in Values, Sstore(k, v) PROVE EntriesKnown'
  BY <1>5 DEF Sstore, Entry, EntriesKnown
<1>6. ASSUME NEW cost \in ForkCosts, SubContext(cost[1], cost[2]) PROVE EntriesKnown'
  BY <1>6, ForkKnows DEF SubContext, Costs
<1>7. ASSUME NEW cost \in OtherCosts, Other(cost[1], cost[2]) PROVE EntriesKnown'
  BY <1>2, <1>7 DEF Other, Costs
<1> QED
  BY <1>1, <1>2, <1>3, <1>4, <1>5, <1>6, <1>7
     DEF Next, Execute, Stop, vars, history

(* So a touched slot that the Evm did not start with, and that no misread  *)
(* key names, was paid for.                                                *)
LEMMA NewSlotsArePaid ==
    ASSUME TypeOK, EntriesKnown
    PROVE  PriceWith(NewSlots) <= PriceWith(PaidSlots)
<1>1. NewSlots \subseteq PaidSlots
  <2> SUFFICES ASSUME NEW k \in NewSlots PROVE k \notin free
    BY DEF NewSlots, PaidSlots
  <2>1. /\ k \notin DOMAIN atBoot.storage
        /\ \A j \in Keys : Reread[j] = k => j = k
    BY DEF NewSlots
  <2> QED
    BY <2>1 DEF EntriesKnown
<1>2. IsFiniteSet(PaidSlots)
  BY KeysFinite, FS_Subset DEF TypeOK, PaidSlots
<1>3. Cardinality(NewSlots) <= Cardinality(PaidSlots)
  BY <1>1, <1>2, FS_Subset
<1>4. /\ Cardinality(NewSlots) \in Int /\ Cardinality(PaidSlots) \in Int
      /\ Worth(storage) - Worth(atBoot.storage) \in Int
      /\ stores \in Int /\ warmLoads \in Int
  BY PriceIsInt DEF TypeOK
<1> QED
  BY <1>3, <1>4, PriceIsInt DEF PriceWith

(* With originalStorageValue empty, as the program leaves it, no refund of *)
(* the first execute makes storage cheaper than its price.                 *)
THEOREM RefundsAreEarned ==
    ASSUME \A k \in Keys : Original[k] = 0
    PROVE  Spec => []StorageIsPaid
<1>1. Init => PaidOutOnce
  BY DEF Init, PaidOutOnce
<1>2. TypeOK /\ PaidOutOnce /\ [Next]_vars => PaidOutOnce'
  BY NextPaidOutOnce
<1>3. Init => EntriesKnown
  BY DEF Init, EntriesKnown
<1>4. TypeOK /\ EntriesKnown /\ [Next]_vars => EntriesKnown'
  BY NextKnown
<1>5. TypeOK /\ NetPrice /\ PaidOutOnce /\ EntriesKnown => StorageIsPaid
  <2> SUFFICES ASSUME TypeOK, NetPrice, PaidOutOnce, EntriesKnown, boots = 1, executes <= 1
               PROVE  gasCost >= other + PriceWith(NewSlots)
    BY DEF StorageIsPaid
  <2>1. /\ PriceWith(PaidSlots) \in Int /\ PriceWith(NewSlots) \in Int
        /\ PriceWith(NewSlots) <= PriceWith(PaidSlots)
    BY PriceIsInt, NewSlotsArePaid DEF PriceWith, TypeOK
  <2>2. /\ gasCost \in Int /\ gasRefund \in Int /\ refunded \in Int /\ other \in Int
    BY DEF TypeOK
  <2>3. atBoot.refund = 0 /\ refunded <= gasRefund
    BY DEF PaidOutOnce
  <2> QED
    BY <2>1, <2>2, <2>3 DEF NetPrice
<1> QED
  BY <1>1, <1>2, <1>3, <1>4, <1>5, StorageTyped, StoragePricedByItsEnd, PTL DEF Spec
=============================================================================
