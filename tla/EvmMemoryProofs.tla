--------------------------- MODULE EvmMemoryProofs ---------------------------
(***************************************************************************)
(* For every size of a word, every bound and every sequence of opcodes:    *)
(* what memory costs, how large it is and which bytes it can lose.          *)
(***************************************************************************)
EXTENDS EvmMemory, TLAPS

(* Rounding up to whole words stays below the next word.                    *)
LEMMA Rounding ==
    ASSUME NEW n \in Nat
    PROVE  /\ RoundUp(n) \in Nat
           /\ RoundUp(n) >= n
           /\ RoundUp(n) < n + Word
           /\ RoundUp(n) % Word = 0
<1> DEFINE m == n + Word - 1
           q == m \div Word
           r == m % Word
<1>1. Word \in Nat \ {0}
  BY MemorySizes
<1>2. m \in Nat
  BY <1>1
<1> HIDE DEF m
<1>3. q \in Int /\ r \in Int /\ 0 <= r /\ r < Word /\ m = Word * q + r
  BY <1>1, <1>2
<1>4. RoundUp(n) = Word * q
  BY DEF RoundUp, WordSize, m
<1> HIDE DEF q, r
<1>5. Word * q \in Int
  BY <1>1, <1>3
<1>6. Word * q = m - r
  BY <1>2, <1>3, <1>5
<1>7. Word * q >= n /\ Word * q < n + Word
  BY <1>1, <1>2, <1>3, <1>5, <1>6 DEF m
<1>8. (Word * q) % Word = 0
  BY <1>1, <1>3
<1> QED
  BY <1>4, <1>5, <1>7, <1>8

----------------------------------------------------------------------------
(* What memory costs.                                                       *)

(* The price of so many words is a number.                                  *)
LEMMA CostIsNumber ==
    ASSUME NEW address \in Nat
    PROVE  MemoryCost(WordSize(address)) \in Int
<1> DEFINE w == WordSize(address)
<1>1. w \in Int
  BY MemorySizes DEF WordSize
<1> HIDE DEF w
<1>2. w * w \in Int /\ QuadDivisor \in Nat \ {0}
  BY <1>1, MemorySizes
<1>3. (w * w) \div QuadDivisor \in Int
  BY <1>2
<1>4. MemoryCost(w) \in Int
  BY <1>1, <1>3 DEF MemoryCost
<1> QED
  BY <1>4 DEF w

GasTyped == highest \in Nat /\ charged \in Int /\ dropped \in Int

(* An opcode that charges for an address, or drops the charge, adds what    *)
(* the highest address rose by.                                             *)
LEMMA PriceOfAddress ==
    ASSUME NEW address \in Nat, GasTyped, PriceOfHighest,
           Charge(address) \/ Drop(address)
    PROVE  GasTyped' /\ PriceOfHighest'
<1> DEFINE old == MemoryCost(WordSize(highest))
           new == MemoryCost(WordSize(address))
<1>1. old \in Int /\ new \in Int
  BY CostIsNumber DEF GasTyped
<1>2. highest' = IF address > highest THEN address ELSE highest
  BY DEF GasTyped, Charge, Drop, RefersTo, Larger
<1>3. Expansion(address) = IF address > highest THEN new - old ELSE 0
  BY DEF Expansion
<1> DEFINE next == MemoryCost(WordSize(highest'))
<1>4. next = IF address > highest THEN new ELSE old
  BY <1>2
<1>5. charged + dropped = old
  BY DEF PriceOfHighest
<1> DEFINE rise == Expansion(address)
<1>6. rise \in Int /\ next = old + rise
  BY <1>1, <1>3, <1>4
<1> HIDE DEF old, new, next, rise
<1>7. /\ charged' \in Int /\ dropped' \in Int
      /\ charged' + dropped' = next
  <2>1. \/ charged' = charged + rise /\ dropped' = dropped
        \/ dropped' = dropped + rise /\ charged' = charged
    BY DEF Charge, Drop, rise
  <2> QED
    BY <1>1, <1>5, <1>6, <2>1 DEF GasTyped
<1>8. GasTyped'
  BY <1>2, <1>7 DEF GasTyped
<1>9. PriceOfHighest'
  BY <1>7 DEF PriceOfHighest, next, MemoryCost, WordSize
<1> QED
  BY <1>8, <1>9

----------------------------------------------------------------------------
(* How long the buffer is.                                                  *)

(* n is a number of whole words that reaches to e, but perhaps for a byte   *)
(* in L.                                                                    *)
Covers(n, e, L) ==
    /\ n \in Nat /\ e \in Nat
    /\ n % Word = 0
    /\ n < e + Word
    /\ n < e => n = e - 1 /\ n \in L

(* Whole words add up to whole words.                                       *)
LEMMA WholeWords ==
    ASSUME NEW n \in Nat, n % Word = 0, NEW d \in Nat, d % Word = 0
    PROVE  (n + d) % Word = 0
<1> DEFINE a == n \div Word
           b == d \div Word
<1>1. Word \in Nat \ {0}
  BY MemorySizes
<1>2. a \in Int /\ n = Word * a
  BY <1>1
<1>3. b \in Int /\ d = Word * b
  BY <1>1
<1> HIDE DEF a, b
<1>4. n + d = Word * (a + b) /\ a + b \in Int
  BY <1>1, <1>2, <1>3
<1>5. ASSUME NEW c \in Int PROVE (Word * c) % Word = 0
  BY <1>1
<1> QED
  BY <1>4, <1>5

(* What expand leaves: whole words, none removed, the offset reached.       *)
LEMMA Expansions ==
    ASSUME NEW n \in Nat, n % Word = 0, NEW offset \in Nat
    PROVE  LET m == Expanded(n, offset) IN
           /\ m \in Nat /\ m % Word = 0
           /\ m >= n /\ m >= offset
           /\ n > offset => m = n
           /\ n <= offset => m < offset + Word
<1>1. CASE n > offset
  BY <1>1 DEF Expanded
<1>2. CASE n <= offset
  <2> DEFINE d == RoundUp(offset - n)
  <2>1. offset - n \in Nat
    BY <1>2
  <2>2. d \in Nat /\ d >= offset - n /\ d < offset - n + Word /\ d % Word = 0
    BY <2>1, Rounding
  <2> HIDE DEF d
  <2>3. (n + d) % Word = 0
    BY <2>2, WholeWords
  <2>4. Expanded(n, offset) = n + d
    BY <1>2 DEF Expanded, d
  <2> QED
    BY <1>2, <2>2, <2>3, <2>4, MemorySizes
<1> QED
  BY <1>1, <1>2

(* A read keeps the buffer's length right.                                  *)
LEMMA ReadCovers ==
    ASSUME NEW n, NEW e, NEW L, Covers(n, e, L),
           NEW offset \in Nat, NEW length \in Nat
    PROVE  /\ AfterRead(n, offset, length) >= n
           /\ Covers(AfterRead(n, offset, length), Larger(e, offset + length), L)
<1> DEFINE m == Expanded(n, offset + length)
<1>1. offset + length \in Nat /\ n \in Nat /\ e \in Nat /\ Word \in Nat \ {0}
  BY MemorySizes DEF Covers
<1>2. /\ m \in Nat /\ m % Word = 0 /\ m >= n /\ m >= offset + length
      /\ n <= offset + length => m < offset + length + Word
  BY <1>1, Expansions DEF Covers
<1> HIDE DEF m
<1>3. AfterRead(n, offset, length) = IF n < offset + length THEN m ELSE n
  BY DEF AfterRead, m
<1> QED
  BY <1>1, <1>2, <1>3 DEF Covers, Larger

(* Bytes written one after the other keep the buffer's length right: it     *)
(* holds every byte of them but the first of a word.                        *)
LEMMA WritesCover ==
    ASSUME NEW n, NEW e, NEW L, Covers(n, e, L),
           NEW offset \in Nat, NEW data \in Seq(Byte),
           offset + Len(data) <= MaxAddress + 1
    PROVE  LET m == AfterWrites(n, offset, Len(data)) IN
           /\ m >= n
           /\ Covers(m, Larger(e, End(offset, data)), L \cup Touched(offset, data))
           /\ \A a \in Touched(offset, data) : ~Falls(n, a) => a < m
<1> DEFINE len == Len(data)
           last == offset + len - 1
           end == IF last = 0 THEN Word ELSE RoundUp(last)
           m == AfterWrites(n, offset, len)
<1>1. len \in Nat /\ n \in Nat /\ e \in Nat /\ Word \in Nat \ {0} /\ MaxAddress \in Nat
  BY MemorySizes, MemoryBounds DEF Covers
<1>2. CASE len = 0
  <2>1. m = n /\ End(offset, data) = 0 /\ Touched(offset, data) = {}
    BY <1>1, <1>2 DEF AfterWrites, End, Touched, Addresses
  <2> QED
    BY <1>1, <2>1 DEF Covers, Larger
<1>3. CASE len # 0
  <2>1. last \in Nat /\ last + 1 = offset + len
    BY <1>1, <1>3
  <2>2. m = Larger(n, end) /\ End(offset, data) = last + 1
    BY <1>3, <2>1 DEF AfterWrites, End
  <2>3. last \in Touched(offset, data)
    BY <1>1, <1>3, <2>1 DEF Touched, Addresses
  <2>4. \A a \in Touched(offset, data) : a \in Nat /\ a <= last
    BY <1>1, <2>1 DEF Touched, Addresses
  <2> HIDE DEF last, m
  <2>5. /\ end \in Nat /\ end > 0 /\ end % Word = 0
        /\ end >= last /\ end < last + 1 + Word
    <3>1. CASE last = 0
      <4>1. Word % Word = 0
        BY <1>1
      <4> QED
        BY <1>1, <3>1, <4>1
    <3>2. CASE last # 0
      <4>1. end = RoundUp(last)
        BY <3>2
      <4>2. /\ RoundUp(last) \in Nat /\ RoundUp(last) % Word = 0
            /\ RoundUp(last) >= last /\ RoundUp(last) < last + Word
        BY <2>1, Rounding
      <4> HIDE DEF end
      <4> QED
        BY <1>1, <2>1, <3>2, <4>1, <4>2
    <3> QED
      BY <3>1, <3>2
  <2> HIDE DEF end
  <2>6. \A a \in Nat : a <= last /\ (a = 0 \/ a % Word # 0) => a < end
    BY <2>1, <2>5
  <2>7. m \in Nat /\ m % Word = 0 /\ m >= n /\ m >= end /\ (m = n \/ m = end)
    BY <1>1, <2>2, <2>5 DEF Covers, Larger
  <2>8. \A a \in Touched(offset, data) : ~Falls(n, a) => a < m
    <3> SUFFICES ASSUME NEW a \in Touched(offset, data), ~Falls(n, a)
                 PROVE  a < m
      OBVIOUS
    <3>1. a \in Nat /\ a <= last
      BY <2>4
    <3>2. ~(a >= n) \/ a < end
      BY <2>6, <3>1 DEF Falls
    <3> QED
      BY <1>1, <2>5, <2>7, <3>1, <3>2
  <2>9. Covers(m, Larger(e, last + 1), L \cup Touched(offset, data))
    BY <1>1, <2>1, <2>3, <2>5, <2>7 DEF Covers, Larger
  <2> QED
    BY <2>2, <2>7, <2>8, <2>9 DEF m
<1> QED
  BY <1>2, <1>3

(* With room made first, all bytes are in the buffer.                       *)
LEMMA Write32Covers ==
    ASSUME NEW n, NEW e, NEW L, Covers(n, e, L),
           NEW offset \in Nat, NEW data \in Seq(Byte)
    PROVE  LET m == Expanded(n, offset + Len(data)) IN
           /\ m >= n
           /\ Covers(m, Larger(e, offset + Len(data)), L \ Touched(offset, data))
           /\ \A a \in Touched(offset, data) : a < m
<1> DEFINE end == offset + Len(data)
           m == Expanded(n, end)
<1>1. n \in Nat /\ e \in Nat /\ end \in Nat /\ Word \in Nat \ {0} /\ MaxAddress \in Nat
  BY MemorySizes, MemoryBounds DEF Covers
<1>2. \A a \in Touched(offset, data) : a \in Nat /\ a < end
  BY <1>1 DEF Touched, Addresses
<1> HIDE DEF end
<1>3. /\ m \in Nat /\ m % Word = 0 /\ m >= n /\ m >= end
      /\ n > end => m = n
      /\ n <= end => m < end + Word
  BY <1>1, Expansions DEF Covers
<1> HIDE DEF m
<1>4. \A a \in Touched(offset, data) : a < m
  BY <1>1, <1>2, <1>3
<1>5. Covers(m, Larger(e, end), L \ Touched(offset, data))
  <2>1. Larger(e, end) \in Nat /\ m < Larger(e, end) + Word
    BY <1>1, <1>3 DEF Covers, Larger
  <2>2. ASSUME m < Larger(e, end)
        PROVE  m = n /\ Larger(e, end) = e
    BY <1>1, <1>3, <2>2 DEF Covers, Larger
  <2>3. ASSUME m = n
        PROVE  n \notin Touched(offset, data)
    BY <1>1, <1>4, <2>3
  <2>4. m < Larger(e, end) =>
          m = Larger(e, end) - 1 /\ m \in L \ Touched(offset, data)
    BY <2>2, <2>3 DEF Covers
  <2> QED
    BY <1>3, <2>1, <2>4 DEF Covers
<1> QED
  BY <1>3, <1>4, <1>5 DEF m, end

----------------------------------------------------------------------------
(* The inductive invariant: TypeOK and the three properties, regrouped by    *)
(* what an opcode does, to memory and to its price.  Covers is SizeIsReach.  *)

MemoryTyped ==
    /\ bytes \in [Addresses -> Byte] /\ stored \in [Addresses -> Byte]
    /\ loose \subseteq Addresses
    /\ \A a \in Addresses : a >= size => bytes[a] = 0

MemoryRight == Covers(size, reach, loose) /\ MemoryTyped /\ OnlyLooseBytesFall

IInv == /\ GasTyped /\ PriceOfHighest
        /\ MemoryRight
        /\ status \in {"running", "ended"} /\ ops \in 0..MaxOps

(* Storing data at addresses among those it covers stores bytes.            *)
LEMMA StoredTyped ==
    ASSUME NEW content \in [Addresses -> Byte], NEW offset \in Nat,
           NEW data \in Seq(Byte), NEW at \in SUBSET Touched(offset, data)
    PROVE  Stored(content, at, offset, data) \in [Addresses -> Byte]
<1> SUFFICES ASSUME NEW a \in Addresses, a \in at
             PROVE  data[a - offset + 1] \in Byte
  BY DEF Stored
<1>1. a \in Nat /\ offset <= a /\ a < offset + Len(data)
  BY MemoryBounds DEF Touched, Addresses
<1>2. a - offset + 1 \in 1..Len(data)
  BY <1>1
<1> QED
  BY <1>2

(* A read changes no byte.                                                  *)
LEMMA ReadKeeps ==
    ASSUME MemoryRight, NEW offset \in Nat, NEW length \in Nat,
           Read(offset, length)
    PROVE  MemoryRight' /\ size' \in Nat
<1>1. size' >= size /\ Covers(size, reach, loose)'
  <2> DEFINE m == AfterRead(size, offset, length)
  <2>1. Covers(size, reach, loose)
    BY DEF MemoryRight
  <2>2. m >= size /\ Covers(m, Larger(reach, offset + length), loose)
    BY <2>1, ReadCovers
  <2>3. size' = m /\ reach' = Larger(reach, offset + length) /\ loose' = loose
    BY DEF Read
  <2> HIDE DEF m
  <2> QED
    BY <2>2, <2>3 DEF Covers
<1>2. size \in Nat /\ size' \in Nat /\ Addresses \subseteq Nat
  BY <1>1 DEF MemoryRight, Covers, Addresses
<1>3. MemoryTyped'
  BY <1>1, <1>2 DEF MemoryRight, MemoryTyped, Read
<1>4. OnlyLooseBytesFall'
  BY DEF MemoryRight, OnlyLooseBytesFall, Read
<1> QED
  BY <1>1, <1>2, <1>3, <1>4 DEF MemoryRight

(* Bytes written one by one fall only at the start of a word.               *)
LEMMA WriteKeeps ==
    ASSUME MemoryRight, NEW n, NEW end, n >= size, Covers(n, end, loose),
           NEW offset \in Nat, NEW data \in Seq(Byte),
           WriteFrom(n, end, offset, data)
    PROVE  MemoryRight' /\ size' \in Nat
<1> DEFINE all == Touched(offset, data)
           kept == {a \in all : ~Falls(n, a)}
<1>1. /\ size' >= n /\ Covers(size, reach, loose)'
      /\ \A a \in all : ~Falls(n, a) => a < size'
  <2> DEFINE m == AfterWrites(n, offset, Len(data))
  <2>1. offset + Len(data) <= MaxAddress + 1
    BY DEF WriteFrom
  <2>2. /\ m >= n /\ Covers(m, Larger(end, End(offset, data)), loose \cup all)
        /\ \A a \in all : ~Falls(n, a) => a < m
    BY <2>1, WritesCover
  <2>3. /\ size' = m /\ reach' = Larger(end, End(offset, data))
        /\ loose' = loose \cup all
    BY DEF WriteFrom
  <2> HIDE DEF m, all
  <2> QED
    BY <2>2, <2>3 DEF Covers
<1>2. /\ size \in Nat /\ size' \in Nat /\ n \in Nat /\ size' >= size
      /\ Addresses \subseteq Nat /\ all \subseteq Addresses
  BY <1>1 DEF MemoryRight, Covers, Addresses, Touched
<1>3. /\ bytes' = Stored(bytes, kept, offset, data)
      /\ stored' = Stored(stored, all, offset, data)
      /\ loose' = loose \cup all
  BY DEF WriteFrom
<1>4. MemoryTyped'
  <2>1. bytes' \in [Addresses -> Byte] /\ stored' \in [Addresses -> Byte]
    BY <1>3, StoredTyped DEF MemoryRight, MemoryTyped
  <2>2. \A a \in Addresses : a >= size' => bytes'[a] = 0
    <3> SUFFICES ASSUME NEW a \in Addresses, a >= size'
                 PROVE  bytes'[a] = 0
      OBVIOUS
    <3>1. a \notin kept
      BY <1>1, <1>2
    <3>2. bytes'[a] = bytes[a] /\ a >= size
      BY <1>2, <1>3, <3>1 DEF Stored
    <3> QED
      BY <3>2 DEF MemoryRight, MemoryTyped
  <2> QED
    BY <1>2, <1>3, <2>1, <2>2 DEF MemoryRight, MemoryTyped
<1>5. OnlyLooseBytesFall'
  <2> SUFFICES ASSUME NEW a \in Addresses, bytes'[a] # stored'[a]
               PROVE  a \in loose' /\ a # 0 /\ a % Word = 0
    BY DEF OnlyLooseBytesFall
  <2>1. CASE a \in all
    <3>1. a \notin kept
      BY <1>3, <2>1 DEF Stored
    <3> QED
      BY <1>3, <2>1, <3>1 DEF Falls
  <2>2. CASE a \notin all
    <3>1. bytes[a] # stored[a]
      BY <1>3, <2>2 DEF Stored
    <3> QED
      BY <1>3, <3>1 DEF MemoryRight, OnlyLooseBytesFall
  <2> QED
    BY <2>1, <2>2
<1> QED
  BY <1>1, <1>2, <1>4, <1>5 DEF MemoryRight

(* write32 loses nothing.                                                   *)
LEMMA Write32Keeps ==
    ASSUME MemoryRight, NEW offset \in Nat, NEW data \in Seq(Byte),
           Write32(offset, data)
    PROVE  MemoryRight' /\ size' \in Nat
<1> DEFINE all == Touched(offset, data)
<1>1. /\ size' >= size /\ Covers(size, reach, loose)'
      /\ \A a \in all : a < size'
  BY Write32Covers DEF MemoryRight, Write32, Covers
<1>2. /\ size \in Nat /\ size' \in Nat
      /\ Addresses \subseteq Nat /\ all \subseteq Addresses
  BY <1>1 DEF MemoryRight, Covers, Addresses, Touched
<1>3. /\ bytes' = Stored(bytes, all, offset, data)
      /\ stored' = Stored(stored, all, offset, data)
      /\ loose' = loose \ all
  BY DEF Write32
<1>4. MemoryTyped'
  <2>1. bytes' \in [Addresses -> Byte] /\ stored' \in [Addresses -> Byte]
    BY <1>3, StoredTyped DEF MemoryRight, MemoryTyped
  <2>2. \A a \in Addresses : a >= size' => bytes'[a] = 0
    <3> SUFFICES ASSUME NEW a \in Addresses, a >= size'
                 PROVE  bytes'[a] = 0
      OBVIOUS
    <3>1. a \notin all
      BY <1>1, <1>2
    <3>2. bytes'[a] = bytes[a] /\ a >= size
      BY <1>1, <1>2, <1>3, <3>1 DEF Stored
    <3> QED
      BY <3>2 DEF MemoryRight, MemoryTyped
  <2> QED
    BY <1>3, <2>1, <2>2 DEF MemoryRight, MemoryTyped
<1>5. OnlyLooseBytesFall'
  <2> SUFFICES ASSUME NEW a \in Addresses, bytes'[a] # stored'[a]
               PROVE  a \in loose' /\ a # 0 /\ a % Word = 0
    BY DEF OnlyLooseBytesFall
  <2>1. a \notin all /\ bytes[a] # stored[a]
    BY <1>3 DEF Stored
  <2> QED
    BY <1>3, <2>1 DEF MemoryRight, OnlyLooseBytesFall
<1> QED
  BY <1>1, <1>2, <1>4, <1>5 DEF MemoryRight

(* What a call reads and writes.                                            *)
LEMMA ReadThenWriteKeeps ==
    ASSUME MemoryRight, NEW offset \in Nat, NEW length \in Nat,
           NEW retOffset \in Nat, NEW output \in Seq(Byte),
           ReadThenWrite(offset, length, retOffset, output)
    PROVE  MemoryRight' /\ size' \in Nat
<1> DEFINE n == AfterRead(size, offset, length)
           end == Larger(reach, offset + length)
<1>1. Covers(size, reach, loose)
  BY DEF MemoryRight
<1>2. n >= size /\ Covers(n, end, loose)
  BY <1>1, ReadCovers
<1>3. WriteFrom(n, end, retOffset, output)
  BY DEF ReadThenWrite
<1> HIDE DEF n, end
<1> QED
  BY <1>2, <1>3, WriteKeeps

(* One byte after the other into the buffer as it is.                       *)
LEMMA WriteBytesKeeps ==
    ASSUME MemoryRight, NEW offset \in Nat, NEW data \in Seq(Byte),
           WriteBytes(offset, data)
    PROVE  MemoryRight' /\ size' \in Nat
<1>1. Covers(size, reach, loose) /\ size >= size
  BY DEF MemoryRight, Covers
<1> QED
  BY <1>1, WriteKeeps DEF WriteBytes

(* With nothing charged and nothing dropped the price stands.               *)
LEMMA PriceStands ==
    ASSUME GasTyped, PriceOfHighest, UNCHANGED gas
    PROVE  GasTyped' /\ PriceOfHighest'
BY DEF GasTyped, PriceOfHighest, gas, MemoryCost, WordSize

(* With memory unchanged it is as right as before.                          *)
LEMMA MemoryStands ==
    ASSUME MemoryRight, UNCHANGED <<memory, history>>
    PROVE  MemoryRight'
BY DEF MemoryRight, MemoryTyped, OnlyLooseBytesFall, Covers, memory, history

(* A new Evm, or a fork that has a copy of its caller's memory.             *)
LEMMA InitRight == Init => IInv
<1> SUFFICES ASSUME Init PROVE IInv
  OBVIOUS
<1>1. PICK raw \in Inherited :
        /\ Len(raw) <= MaxAddress + 1
        /\ size = Len(raw)
        /\ bytes = [a \in Addresses |->
                      IF a # 0 /\ a % Word = 0 THEN 0 ELSE Padded(raw)[a]]
        /\ stored = Padded(raw)
        /\ loose = Touched(0, raw)
        /\ reach = Len(raw)
  BY DEF Init
<1>2. raw \in Seq(Byte) /\ Len(raw) \in Nat /\ Len(raw) % Word = 0
  BY MemoryData
<1>3. Addresses \subseteq Nat /\ Word \in Nat \ {0}
  BY MemoryBounds, MemorySizes DEF Addresses
<1>4. Covers(size, reach, loose)
  BY <1>1, <1>2, <1>3 DEF Covers
<1>5. ASSUME NEW a \in Addresses
      PROVE  Padded(raw)[a] \in Byte /\ (a >= Len(raw) => Padded(raw)[a] = 0)
  <2>1. a \in Nat
    BY <1>3
  <2>2. Padded(raw)[a] = IF a < Len(raw) THEN raw[a + 1] ELSE 0
    BY DEF Padded
  <2>3. a < Len(raw) => raw[a + 1] \in Byte
    BY <1>2, <2>1
  <2> QED
    BY <1>2, <2>1, <2>2, <2>3, MemoryBytes
<1>6. stored \in [Addresses -> Byte] /\ bytes \in [Addresses -> Byte]
  <2>1. Padded(raw) = [a \in Addresses |-> Padded(raw)[a]]
    BY DEF Padded
  <2> QED
    BY <1>1, <1>5, <2>1, MemoryBytes
<1>7. MemoryTyped
  BY <1>1, <1>5, <1>6 DEF MemoryTyped, Touched
<1>8. OnlyLooseBytesFall
  <2> SUFFICES ASSUME NEW a \in Addresses, bytes[a] # stored[a]
               PROVE  a \in loose /\ a # 0 /\ a % Word = 0
    BY DEF OnlyLooseBytesFall
  <2>1. a # 0 /\ a % Word = 0 /\ Padded(raw)[a] # 0
    BY <1>1
  <2>2. a < Len(raw)
    BY <1>2, <1>3, <1>5, <2>1
  <2> QED
    BY <1>1, <1>2, <1>3, <2>1, <2>2 DEF Touched
<1>9. GasTyped /\ PriceOfHighest
  <2>1. highest = 0 /\ charged = 0 /\ dropped = 0
    BY DEF Init
  <2>2. WordSize(0) = 0
    BY <1>3 DEF WordSize
  <2>3. MemoryCost(0) = 0
    BY MemorySizes DEF MemoryCost
  <2> QED
    BY <2>1, <2>2, <2>3 DEF GasTyped, PriceOfHighest
<1> QED
  BY <1>4, <1>7, <1>8, <1>9, MemoryBounds DEF IInv, MemoryRight, Init

(* Any opcode keeps the invariant; each is a change of memory and a price.  *)
LEMMA OpcodeKeeps ==
    ASSUME IInv, Opcode, status' \in {"running", "ended"},
           MemoryRight',
           \/ \E address \in Nat : Charge(address) \/ Drop(address)
           \/ UNCHANGED gas
    PROVE  IInv'
<1>1. GasTyped' /\ PriceOfHighest'
  BY PriceOfAddress, PriceStands DEF IInv
<1>2. ops' \in 0..MaxOps
  BY MemoryBounds DEF IInv, Opcode
<1> QED
  BY <1>1, <1>2 DEF IInv

(* So does every step: one case per opcode.                                 *)
LEMMA StepKeeps == IInv /\ [Next]_vars => IInv'
<1> SUFFICES ASSUME IInv, [Next]_vars PROVE IInv'
  OBVIOUS
<1>1. MemoryRight /\ status \in {"running", "ended"}
  BY DEF IInv
<1>2. size \in Nat /\ Data \subseteq Seq(Byte) /\ WordData \subseteq Seq(Byte)
  BY <1>1, MemoryData DEF MemoryRight, Covers
<1>3. CASE UNCHANGED vars
  <2>1. UNCHANGED <<memory, history>> /\ UNCHANGED gas /\ UNCHANGED <<status, ops>>
    BY <1>3 DEF vars
  <2> QED
    BY <1>1, <2>1, MemoryStands, PriceStands DEF IInv
<1>4. CASE Boot
  <2>1. MemoryRight'
    BY <1>1, <1>4, MemoryStands DEF Boot
  <2>2. GasTyped' /\ PriceOfHighest'
    BY <1>4, PriceStands DEF IInv, Boot
  <2> QED
    BY <1>4, <2>1, <2>2 DEF IInv, Boot
<1>5. ASSUME NEW offset \in Offsets, UsesOffset(offset)
      PROVE  IInv'
  <2>1. offset \in Nat
    BY MemoryOffsets
  <2>2. CASE Mload(offset)
    <3>1. MemoryRight' /\ size' \in Nat
      BY <1>1, <2>1, <2>2, ReadKeeps, MemorySizes DEF Mload
    <3> QED
      BY <1>1, <2>2, <3>1, OpcodeKeeps DEF Mload, Continues
  <2>3. ASSUME NEW word \in WordData, Mstore(offset, word) PROVE IInv'
    <3>1. MemoryRight' /\ size' \in Nat
      BY <1>1, <1>2, <2>1, <2>3, Write32Keeps DEF Mstore
    <3> QED
      BY <1>1, <2>3, <3>1, OpcodeKeeps DEF Mstore, Continues
  <2>4. ASSUME NEW byte \in Byte, Mstore8(offset, byte) PROVE IInv'
    <3>1. MemoryRight' /\ size' \in Nat
      <4>1. <<byte>> \in Seq(Byte)
        BY <2>4
      <4> QED
        BY <1>1, <2>1, <2>4, <4>1, WriteBytesKeeps DEF Mstore8
    <3> QED
      BY <1>1, <2>4, <3>1, OpcodeKeeps DEF Mstore8, Continues
  <2>5. ASSUME NEW data \in Data, Calldatacopy(offset, data) PROVE IInv'
    <3>1. MemoryRight' /\ size' \in Nat
      BY <1>1, <1>2, <2>1, <2>5, Write32Keeps DEF Calldatacopy
    <3> QED
      BY <1>1, <2>5, <3>1, OpcodeKeeps DEF Calldatacopy, Continues
  <2>6. ASSUME NEW data \in Data, Codecopy(offset, data) PROVE IInv'
    <3>1. MemoryRight' /\ size' \in Nat
      BY <1>1, <1>2, <2>1, <2>6, WriteBytesKeeps DEF Codecopy
    <3> QED
      BY <1>1, <2>6, <3>1, OpcodeKeeps DEF Codecopy, Continues
  <2>7. ASSUME NEW codeOffset \in Offsets, NEW data \in Data,
               Extcodecopy(offset, codeOffset, data)
        PROVE  IInv'
    <3>1. MemoryRight'
      BY <1>1, <1>2, <2>1, <2>7, WriteBytesKeeps DEF Extcodecopy
    <3>2. codeOffset + Len(data) \in Nat
      BY <1>2, MemoryOffsets
    <3> QED
      BY <1>1, <2>7, <3>1, <3>2, OpcodeKeeps DEF Extcodecopy, Continues
  <2>8. ASSUME NEW data \in Data, Returndatacopy(offset, data) PROVE IInv'
    <3>1. MemoryRight'
      BY <1>1, <1>2, <2>1, <2>8, WriteBytesKeeps DEF Returndatacopy
    <3> QED
      BY <1>1, <2>8, <3>1, OpcodeKeeps DEF Returndatacopy
  <2> QED
    BY <1>5, <2>2, <2>3, <2>4, <2>5, <2>6, <2>7, <2>8 DEF UsesOffset
<1>6. ASSUME NEW offset \in Offsets, NEW length \in Lengths,
             UsesRange(offset, length)
      PROVE  IInv'
  <2>1. offset \in Nat /\ length \in Nat /\ offset + length \in Nat
    BY MemoryOffsets
  <2>2. CASE Log(offset, length)
    BY <1>1, <2>1, <2>2, MemoryStands, OpcodeKeeps DEF Log, Continues
  <2>3. CASE Create(offset, length)
    <3>1. MemoryRight'
      BY <1>1, <2>1, <2>3, ReadKeeps DEF Create
    <3> QED
      BY <1>1, <2>3, <3>1, OpcodeKeeps DEF Create, Continues
  <2>4. CASE Return(offset, length)
    <3>1. MemoryRight'
      BY <1>1, <2>1, <2>4, ReadKeeps DEF Return
    <3> QED
      BY <2>1, <2>4, <3>1, OpcodeKeeps DEF Return, Ends
  <2>5. CASE Revert(offset, length)
    <3>1. MemoryRight'
      BY <1>1, <2>1, <2>5, ReadKeeps DEF Revert
    <3> QED
      BY <2>1, <2>5, <3>1, OpcodeKeeps DEF Revert, Ends
  <2>6. CASE FailedCall(offset, length)
    <3>1. MemoryRight'
      BY <1>1, <2>1, <2>6, ReadKeeps DEF FailedCall
    <3> QED
      BY <2>1, <2>6, <3>1, OpcodeKeeps DEF FailedCall
  <2>7. ASSUME NEW retOffset \in Offsets, NEW output \in Data,
               Call(offset, length, retOffset, output)
        PROVE  IInv'
    <3>1. MemoryRight'
      BY <1>1, <1>2, <2>1, <2>7, ReadThenWriteKeeps, MemoryOffsets DEF Call
    <3> QED
      BY <1>1, <2>1, <2>7, <3>1, OpcodeKeeps DEF Call, Continues
  <2>8. ASSUME NEW retOffset \in Offsets, NEW output \in Data,
               ChargedCall(offset, length, retOffset, output)
        PROVE  IInv'
    <3>1. MemoryRight'
      BY <1>1, <1>2, <2>1, <2>8, ReadThenWriteKeeps, MemoryOffsets DEF ChargedCall
    <3> QED
      BY <1>1, <2>1, <2>8, <3>1, OpcodeKeeps DEF ChargedCall, Continues
  <2> QED
    BY <1>6, <2>2, <2>3, <2>4, <2>5, <2>6, <2>7, <2>8 DEF UsesRange
<1> QED
  BY <1>3, <1>4, <1>5, <1>6 DEF Next

(* The inductive invariant holds throughout.                                *)
LEMMA InvariantHolds == Spec => []IInv
BY InitRight, StepKeeps, PTL DEF Spec

----------------------------------------------------------------------------
(* The state of the memory and of its price stays well formed.              *)
THEOREM MemoryTypeCorrect == Spec => []TypeOK
<1>1. IInv => TypeOK
  BY DEF IInv, GasTyped, MemoryRight, MemoryTyped, Covers, TypeOK
<1> QED
  BY <1>1, InvariantHolds, PTL

(* Expansions add up to the price of the highest address, in any order, for *)
(* every word size and every divisor (MemoryExpansionGas.compute).          *)
THEOREM MemoryPricedByHighest == Spec => []PriceOfHighest
<1>1. IInv => PriceOfHighest
  BY DEF IInv
<1> QED
  BY <1>1, InvariantHolds, PTL

(* The buffer is as long as what was accessed, in whole words, but for one  *)
(* byte at most (EvmMemory.expand).                                         *)
THEOREM SizeFollowsAccess == Spec => []SizeIsReach
<1>1. IInv => SizeIsReach
  BY DEF IInv, MemoryRight, Covers, SizeIsReach
<1> QED
  BY <1>1, InvariantHolds, PTL

(* MSTORE and CALLDATACOPY never lose a byte, and write loses no other than *)
(* the first of a word (EvmMemory.write, write32).                          *)
THEOREM WordsAreKept == Spec => []OnlyLooseBytesFall
<1>1. IInv => OnlyLooseBytesFall
  BY DEF IInv, MemoryRight
<1> QED
  BY <1>1, InvariantHolds, PTL
=============================================================================
