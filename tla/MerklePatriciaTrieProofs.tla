----------------------- MODULE MerklePatriciaTrieProofs -----------------------
(***************************************************************************)
(* For all keys and values, and any number of insertions: what the trie      *)
(* refers to is stored, how its root's key is packed, and that traverse finds *)
(* what insert took.                                                         *)
(***************************************************************************)
EXTENDS MerklePatriciaTrie, SequenceTheorems, FiniteSetTheorems, WellFoundedInduction, TLAPS

Byte == 0..255
Nibble == 0..15

(* Nodes as insert makes them.                                               *)
IsLeaf(node) == node.type = "LEAF_NODE" /\ node.key \in Seq(Nibble)
IsExtension(node) == node.type = "EXTENSION_NODE" /\ node.key \in Seq(Nibble)
IsBranch(node) ==
    /\ node.type = "BRANCH_NODE"
    /\ DOMAIN node.children \subseteq Nibble
    /\ Cardinality(DOMAIN node.children) \in 1 .. 2

(* What is stored refers to what is stored.                                  *)
Stored(node) ==
    \/ IsLeaf(node)
    \/ IsExtension(node) /\ node.child \in database
    \/ IsBranch(node) /\ \A n \in DOMAIN node.children : node.children[n] \in database

(* Below the extension at the root there is a branch; the leaf at the root    *)
(* has the key of whole bytes it was inserted under.                         *)
RootShape ==
    \/ root = Empty
    \/ IsLeaf(root) /\ root.key # <<>> /\ Len(root.key) % 2 = 0
    \/ IsExtension(root) /\ root.key # <<>> /\ root.child \in database /\ IsBranch(root.child)

TrieInv ==
    /\ inserted \in Seq(Keys \X Values)
    /\ calls \in 0 .. MaxInserts /\ Len(inserted) <= calls
    /\ \A node \in database : Stored(node)
    /\ RootShape
----------------------------------------------------------------------------
(* Sequences and induction *)

LEMMA LeastNat ==
    ASSUME NEW T \in SUBSET Nat, T # {}
    PROVE  \E n \in T : \A m \in T : n <= m
<1> DEFINE Less == OpToRel(<, Nat)
<1>1. PICK x \in T : \A y \in T : <<y, x>> \notin Less
  BY NatLessThanWellFounded, WFMin
<1>2. ASSUME NEW y \in T PROVE x <= y
  <2>1. x \in Nat /\ y \in Nat
    OBVIOUS
  <2>2. y < x => <<y, x>> \in Less
    BY <2>1 DEF OpToRel
  <2> HIDE DEF Less
  <2>3. ~(y < x)
    BY <1>1, <2>2
  <2> QED
    BY <2>1, <2>3
<1> QED
  BY <1>2

LEMMA SetInduction ==
    ASSUME NEW S \in SUBSET Nat, 0 \in S, \A n \in S : n + 1 \in S
    PROVE  S = Nat
<1> SUFFICES ASSUME Nat \ S # {} PROVE FALSE
  OBVIOUS
<1>1. PICK n \in Nat \ S : \A m \in Nat \ S : n <= m
  BY LeastNat
<1>2. n \in Nat /\ n # 0
  OBVIOUS
<1>3. n - 1 \in Nat /\ ~(n <= n - 1) /\ n = (n - 1) + 1
  BY <1>2
<1>4. n - 1 \in S
  BY <1>1, <1>3
<1> QED
  BY <1>1, <1>3, <1>4

(* What is after the first n is as long as what is left.                     *)
LEMMA AfterIs ==
    ASSUME NEW S, NEW key \in Seq(S), NEW n \in 0 .. Len(key)
    PROVE  /\ After(key, n) \in Seq(S)
           /\ Len(After(key, n)) = Len(key) - n
           /\ \A i \in 1 .. Len(key) - n : After(key, n)[i] = key[n + i]
<1>1. Len(key) \in Nat /\ n \in Nat
  OBVIOUS
<1>2. \A i \in n + 1 .. Len(key) : key[i] \in S
  BY <1>1, ElementOfSeq
<1>3. /\ SubSeq(key, n + 1, Len(key)) \in Seq(S)
      /\ Len(SubSeq(key, n + 1, Len(key))) =
           IF n + 1 <= Len(key) THEN Len(key) - (n + 1) + 1 ELSE 0
      /\ \A i \in 1 .. Len(key) - (n + 1) + 1 :
           SubSeq(key, n + 1, Len(key))[i] = key[n + 1 + i - 1]
  BY <1>1, <1>2, SubSeqProperties
<1>4. \A i \in 1 .. Len(key) - n : n + 1 + i - 1 = n + i
  BY <1>1
<1> QED
  BY <1>1, <1>3, <1>4 DEF After

LEMMA UpToIs ==
    ASSUME NEW S, NEW key \in Seq(S), NEW n \in 0 .. Len(key)
    PROVE  /\ SubSeq(key, 1, n) \in Seq(S)
           /\ Len(SubSeq(key, 1, n)) = n
           /\ \A i \in 1 .. n : SubSeq(key, 1, n)[i] = key[i]
<1>1. Len(key) \in Nat /\ n \in Nat
  OBVIOUS
<1>2. \A i \in 1 .. n : key[i] \in S
  BY <1>1, ElementOfSeq
<1>3. /\ SubSeq(key, 1, n) \in Seq(S)
      /\ Len(SubSeq(key, 1, n)) = IF 1 <= n THEN n - 1 + 1 ELSE 0
      /\ \A i \in 1 .. n - 1 + 1 : SubSeq(key, 1, n)[i] = key[1 + i - 1]
  BY <1>1, <1>2, SubSeqProperties
<1>4. \A i \in 1 .. n : 1 + i - 1 = i
  BY <1>1
<1> QED
  BY <1>1, <1>3, <1>4

(* The two parts of what was put together.                                   *)
LEMMA PartsOfConcat ==
    ASSUME NEW S, NEW s \in Seq(S), NEW t \in Seq(S)
    PROVE  /\ SubSeq(s \o t, 1, Len(s)) = s
           /\ SubSeq(s \o t, Len(s) + 1, Len(s) + Len(t)) = t
<1>1. Len(s) \in Nat /\ Len(t) \in Nat
  OBVIOUS
<1>2. s \o t \in Seq(S) /\ Len(s \o t) = Len(s) + Len(t)
  BY ConcatProperties
<1>3. \A i \in 1 .. Len(s) + Len(t) :
        (s \o t)[i] = IF i <= Len(s) THEN s[i] ELSE t[i - Len(s)]
  BY ConcatProperties
<1>4. SubSeq(s \o t, 1, Len(s)) = s
  <2>1. Len(s) \in 0 .. Len(s \o t)
    BY <1>1, <1>2
  <2>2. /\ SubSeq(s \o t, 1, Len(s)) \in Seq(S)
        /\ Len(SubSeq(s \o t, 1, Len(s))) = Len(s)
        /\ \A i \in 1 .. Len(s) : SubSeq(s \o t, 1, Len(s))[i] = (s \o t)[i]
    BY <1>2, <2>1, UpToIs
  <2>3. \A i \in 1 .. Len(s) : (s \o t)[i] = s[i]
    BY <1>1, <1>3
  <2> QED
    BY <2>2, <2>3, SeqEqual
<1>5. After(s \o t, Len(s)) = t
  <2>1. Len(s) \in 0 .. Len(s \o t)
    BY <1>1, <1>2
  <2>2. /\ After(s \o t, Len(s)) \in Seq(S)
        /\ Len(After(s \o t, Len(s))) = Len(t)
        /\ \A i \in 1 .. Len(t) : After(s \o t, Len(s))[i] = (s \o t)[Len(s) + i]
    <3>1. Len(s \o t) - Len(s) = Len(t)
      BY <1>1, <1>2
    <3> QED
      BY <1>2, <2>1, <3>1, AfterIs
  <2>3. \A i \in 1 .. Len(t) : (s \o t)[Len(s) + i] = t[i]
    <3> TAKE i \in 1 .. Len(t)
    <3>1. Len(s) + i \in 1 .. Len(s) + Len(t) /\ ~(Len(s) + i <= Len(s))
          /\ Len(s) + i - Len(s) = i
      BY <1>1
    <3> QED
      BY <1>3, <3>1
  <2> QED
    BY <2>2, <2>3, SeqEqual
<1> QED
  BY <1>2, <1>4, <1>5 DEF After

----------------------------------------------------------------------------
(* Items of RLP.  What the definition of ToNumber says of its digits.        *)

Counted(bytes, number) ==
    [i \in 0 .. Len(bytes) |-> IF i = 0 THEN 0 ELSE 256 * number[i - 1] + bytes[i]]

Adds(bytes, number) ==
    /\ number[0] = 0
    /\ \A i \in 1 .. Len(bytes) : number[i] = 256 * number[i - 1] + bytes[i]

LEMMA ToNumberCounts ==
    ASSUME NEW bytes \in Seq(Int), Len(bytes) \in 1 .. 4
    PROVE  \E number : ToNumber(bytes) = number[Len(bytes)] /\ Adds(bytes, number)
<1> DEFINE Counts(number) == number = Counted(bytes, number)
<1>1. ToNumber(bytes) = (CHOOSE number : Counts(number))[Len(bytes)]
  BY DEF ToNumber, Counted
<1>2. \E number : Counts(number)
  <2>1. PICK n \in 1 .. 4 : n = Len(bytes)
    OBVIOUS
  <2>2. \A i \in 1 .. n : bytes[i] \in Int
    BY <2>1, ElementOfSeq
  <2>3. PICK number :
          number = [i \in 0 .. n |->
            IF i = 0 THEN 0
            ELSE IF i = 1 THEN 256 * 0 + bytes[1]
            ELSE IF i = 2 THEN 256 * (256 * 0 + bytes[1]) + bytes[2]
            ELSE IF i = 3 THEN 256 * (256 * (256 * 0 + bytes[1]) + bytes[2]) + bytes[3]
            ELSE 256 * (256 * (256 * (256 * 0 + bytes[1]) + bytes[2]) + bytes[3]) + bytes[4]]
    OBVIOUS
  <2>4. ASSUME NEW i \in 0 .. n
        PROVE  number[i] = IF i = 0 THEN 0 ELSE 256 * number[i - 1] + bytes[i]
    <3>1. i = 0 \/ i = 1 \/ i = 2 \/ i = 3 \/ i = 4
      BY <2>1
    <3> QED
      BY <2>1, <2>3, <3>1
  <2>5. PICK g : g = Counted(bytes, number)
    OBVIOUS
  <2>6. \A i \in 0 .. n : g[i] = IF i = 0 THEN 0 ELSE 256 * number[i - 1] + bytes[i]
    BY <2>1, <2>5 DEF Counted
  <2>7. number = [i \in 0 .. n |-> number[i]]
    BY <2>3
  <2>8. g = [i \in 0 .. n |-> g[i]]
    BY <2>1, <2>5 DEF Counted
  <2>9. \A i \in 0 .. n : g[i] = number[i]
    BY <2>4, <2>6
  <2>10. g = number
    BY <2>7, <2>8, <2>9, Zenon
  <2> QED
    BY <2>5, <2>10
<1> HIDE DEF Counts
<1>3. PICK number : Counts(number) /\ ToNumber(bytes) = number[Len(bytes)]
  BY <1>1, <1>2
<1>4. PICK g : g = Counted(bytes, number)
  OBVIOUS
<1>5. g[0] = 0 /\ \A i \in 1 .. Len(bytes) : g[i] = 256 * number[i - 1] + bytes[i]
  BY <1>4 DEF Counted
<1>6. g = number
  BY <1>3, <1>4 DEF Counts
<1>7. Adds(bytes, number)
  BY <1>5, <1>6 DEF Adds
<1> QED
  BY <1>3, <1>7

LEMMA QuotientAndRest ==
    ASSUME NEW n \in Nat
    PROVE  /\ n \div 256 \in Nat /\ n % 256 \in Nat /\ n % 256 < 256
           /\ n = 256 * (n \div 256) + (n % 256)
  OBVIOUS

(* To divide by a byte twice, and three times.                               *)
LEMMA QuotientTwice ==
    ASSUME NEW n \in Nat
    PROVE  n \div 65536 = (n \div 256) \div 256
<1>1. PICK q \in Nat, d \in Nat : q = n \div 256 /\ d < 256 /\ n = 256 * q + d
  BY QuotientAndRest
<1>2. PICK r \in Nat, c \in Nat : r = q \div 256 /\ c < 256 /\ q = 256 * r + c
  BY QuotientAndRest
<1>3. PICK m \in Nat : m = 256 * c + d
  OBVIOUS
<1>4. m < 65536 /\ n = 65536 * r + m
  BY <1>1, <1>2, <1>3, SMT
<1>5. n \div 65536 = r
  BY <1>4, SMT
<1> QED
  BY <1>1, <1>2, <1>5

LEMMA QuotientThrice ==
    ASSUME NEW n \in Nat
    PROVE  n \div 16777216 = ((n \div 256) \div 256) \div 256
<1>1. PICK q \in Nat, d \in Nat : q = n \div 256 /\ d < 256 /\ n = 256 * q + d
  BY QuotientAndRest
<1>2. PICK r \in Nat, c \in Nat : r = q \div 256 /\ c < 256 /\ q = 256 * r + c
  BY QuotientAndRest
<1>3. PICK a \in Nat, b \in Nat : a = r \div 256 /\ b < 256 /\ r = 256 * a + b
  BY QuotientAndRest
<1>4. PICK m \in Nat : m = 65536 * b + (256 * c + d)
  BY SMT
<1>5. m < 16777216 /\ n = 16777216 * a + m
  BY <1>1, <1>2, <1>3, <1>4, SMT
<1>6. n \div 16777216 = a
  BY <1>5, SMT
<1> QED
  BY <1>1, <1>2, <1>3, <1>6

(* The digits of a length are those that are read as it.                     *)
LEMMA DigitsOfLength ==
    ASSUME NEW n \in Nat
    PROVE  /\ BigEndian(n) \in Seq(Int) /\ Len(BigEndian(n)) \in 1 .. 4
           /\ ToNumber(BigEndian(n)) = n
<1>1. PICK bytes : bytes = BigEndian(n)
  OBVIOUS
<1>2. PICK q \in Nat, d \in Nat : q = n \div 256 /\ d = n % 256 /\ n = 256 * q + d
  BY QuotientAndRest
<1>3. PICK r \in Nat, c \in Nat : r = q \div 256 /\ c = q % 256 /\ q = 256 * r + c
  BY QuotientAndRest
<1>4. PICK a \in Nat, b \in Nat : a = r \div 256 /\ b = r % 256 /\ r = 256 * a + b
  BY QuotientAndRest
<1>5. n \div 65536 = r
  BY <1>2, <1>3, QuotientTwice
<1>6. n \div 16777216 = a
  BY <1>2, <1>3, <1>4, QuotientThrice
<1>7. q = n \div 256 /\ d = n % 256 /\ c = q % 256 /\ b = r % 256
  BY <1>2, <1>3, <1>4
<1>8. CASE n < 256
  <2>1. bytes = <<n>>
    BY <1>1, <1>8 DEF BigEndian
  <2>2. bytes \in Seq(Int) /\ Len(bytes) = 1 /\ bytes[1] = n
    BY <2>1
  <2>3. PICK number : ToNumber(bytes) = number[Len(bytes)] /\ Adds(bytes, number)
    <3>1. bytes \in Seq(Int) /\ Len(bytes) \in 1 .. 4
      BY <2>2
    <3> QED
      BY <3>1, ToNumberCounts
  <2>4. number[0] = 0 /\ number[1] = 256 * number[0] + bytes[1]
    BY <2>2, <2>3 DEF Adds
  <2> QED
    BY <1>1, <2>2, <2>3, <2>4
<1>9. CASE n >= 256 /\ n < 65536
  <2>1. bytes = <<q, d>>
    BY <1>1, <1>7, <1>9 DEF BigEndian
  <2>2. bytes \in Seq(Int) /\ Len(bytes) = 2 /\ bytes[1] = q /\ bytes[2] = d
    BY <2>1
  <2>3. PICK number : ToNumber(bytes) = number[Len(bytes)] /\ Adds(bytes, number)
    <3>1. bytes \in Seq(Int) /\ Len(bytes) \in 1 .. 4
      BY <2>2
    <3> QED
      BY <3>1, ToNumberCounts
  <2>4. /\ number[0] = 0 /\ number[1] = 256 * number[0] + bytes[1]
        /\ number[2] = 256 * number[1] + bytes[2]
    BY <2>2, <2>3 DEF Adds
  <2>5. number[2] = n
    BY <1>2, <2>2, <2>4
  <2> QED
    BY <1>1, <2>2, <2>3, <2>5
<1>10. CASE n >= 65536 /\ n < 16777216
  <2>1. bytes = <<r, c, d>>
    BY <1>1, <1>5, <1>7, <1>10 DEF BigEndian
  <2>2. bytes \in Seq(Int) /\ Len(bytes) = 3 /\ bytes[1] = r /\ bytes[2] = c /\ bytes[3] = d
    BY <2>1
  <2>3. PICK number : ToNumber(bytes) = number[Len(bytes)] /\ Adds(bytes, number)
    <3>1. bytes \in Seq(Int) /\ Len(bytes) \in 1 .. 4
      BY <2>2
    <3> QED
      BY <3>1, ToNumberCounts
  <2>4. /\ number[0] = 0 /\ number[1] = 256 * number[0] + bytes[1]
        /\ number[2] = 256 * number[1] + bytes[2]
        /\ number[3] = 256 * number[2] + bytes[3]
    BY <2>2, <2>3 DEF Adds
  <2>5. number[3] = n
    BY <1>2, <1>3, <2>2, <2>4
  <2> QED
    BY <1>1, <2>2, <2>3, <2>5
<1>11. CASE n >= 16777216
  <2>1. bytes = <<a, b, c, d>>
    BY <1>1, <1>5, <1>6, <1>7, <1>11 DEF BigEndian
  <2>2. bytes \in Seq(Int) /\ Len(bytes) = 4
        /\ bytes[1] = a /\ bytes[2] = b /\ bytes[3] = c /\ bytes[4] = d
    BY <2>1
  <2>3. PICK number : ToNumber(bytes) = number[Len(bytes)] /\ Adds(bytes, number)
    <3>1. bytes \in Seq(Int) /\ Len(bytes) \in 1 .. 4
      BY <2>2
    <3> QED
      BY <3>1, ToNumberCounts
  <2>4. /\ number[0] = 0 /\ number[1] = 256 * number[0] + bytes[1]
        /\ number[2] = 256 * number[1] + bytes[2]
        /\ number[3] = 256 * number[2] + bytes[3]
        /\ number[4] = 256 * number[3] + bytes[4]
    BY <2>2, <2>3 DEF Adds
  <2>5. number[4] = n
    BY <1>2, <1>3, <1>4, <2>2, <2>4
  <2> QED
    BY <1>1, <2>2, <2>3, <2>5
<1> QED
  BY <1>8, <1>9, <1>10, <1>11

(* What a Buffer is when it was written as an item and read again: a text or *)
(* a hex text, but for the empty one and single bytes.                       *)
LEMMA ItemIs ==
    ASSUME NEW bytes, NEW first \in Nat, bytes[1] = first
    PROVE  /\ first < 128 => DecodeItem(bytes, 1).value = Amount(first)
           /\ first = 128 => DecodeItem(bytes, 1).value = Truth(FALSE)
           /\ first >= 130 => DecodeItem(bytes, 1) = DecodeString(bytes, 1)
<1>1. ASSUME first < 128 PROVE DecodeItem(bytes, 1).value = Amount(first)
  BY <1>1 DEF DecodeItem, Decoded
<1>2. ASSUME first = 128 PROVE DecodeItem(bytes, 1).value = Truth(FALSE)
  BY <1>2 DEF DecodeItem, Decoded
<1>3. ASSUME first >= 130 PROVE DecodeItem(bytes, 1) = DecodeString(bytes, 1)
  <2>1. ~(bytes[1] < 128) /\ bytes[1] # 128 /\ bytes[1] >= 130
    BY <1>3
  <2> QED
    BY <2>1, Zenon DEF DecodeItem
<1> QED
  BY <1>1, <1>2, <1>3

LEMMA BytesAreNumbers == Byte \subseteq Nat /\ Byte \subseteq Int /\ Nibble \subseteq Byte
  BY DEF Byte, Nibble

LEMMA EmptyReread == Reread(<<>>) = Truth(FALSE)
<1>1. EncodeBytes(<<>>).bytes = <<128>>
  <2>1. Len(<<>>) = 0
    OBVIOUS
  <2>2. EncodeBytes(<<>>) = Encoding(<<128 + 0>> \o <<>>, 0 + 1)
    BY <2>1 DEF EncodeBytes
  <2>3. <<128 + 0>> = <<128>> /\ <<128>> \o <<>> = <<128>>
    OBVIOUS
  <2> QED
    BY <2>2, <2>3 DEF Encoding
<1>2. <<128>>[1] = 128
  OBVIOUS
<1>3. DecodeItem(<<128>>, 1).value = Truth(FALSE)
  BY <1>2, ItemIs
<1> QED
  BY <1>1, <1>3 DEF Reread

LEMMA ByteReread ==
    ASSUME NEW bytes \in Seq(Byte), Len(bytes) = 1, bytes[1] < 128
    PROVE  Reread(bytes) = Amount(bytes[1])
<1>1. EncodeBytes(bytes).bytes = bytes
  BY DEF EncodeBytes, Encoding
<1>2. 1 \in 1 .. Len(bytes)
  OBVIOUS
<1>3. bytes[1] \in Byte
  BY <1>2, ElementOfSeq
<1>4. bytes[1] \in Nat
  BY <1>3, BytesAreNumbers
<1>5. DecodeItem(bytes, 1).value = Amount(bytes[1])
  BY <1>4, ItemIs
<1> QED
  BY <1>1, <1>5 DEF Reread

LEMMA ShortReread ==
    ASSUME NEW bytes \in Seq(Int), NEW n \in 2 .. 55, Len(bytes) = n
    PROVE  Reread(bytes) = AsText(bytes)
<1>1. PICK written : written = EncodeBytes(bytes).bytes
  OBVIOUS
<1>2. PICK head : head = <<128 + n>>
  OBVIOUS
<1>3. head \in Seq(Int) /\ Len(head) = 1 /\ head[1] = 128 + n
  BY <1>2
<1>4. written = head \o bytes
  <2>1. n # 1 /\ ~(n > 55)
    OBVIOUS
  <2>2. EncodeBytes(bytes) = Encoding(<<128 + n>> \o bytes, n + 1)
    BY <2>1 DEF EncodeBytes
  <2> QED
    BY <1>1, <1>2, <2>2 DEF Encoding
<1>5. written[1] = 128 + n /\ Len(written) = 1 + n
  <2>1. /\ Len(written) = Len(head) + Len(bytes)
        /\ \A i \in 1 .. Len(head) + Len(bytes) :
             written[i] = IF i <= Len(head) THEN head[i] ELSE bytes[i - Len(head)]
    BY <1>3, <1>4, ConcatProperties
  <2> QED
    BY <1>3, <2>1
<1>6. SubSeq(written, 1 + 1, 1 + n) = bytes
  <2>1. SubSeq(head \o bytes, Len(head) + 1, Len(head) + Len(bytes)) = bytes
    BY <1>3, PartsOfConcat
  <2> QED
    BY <1>3, <1>4, <2>1
<1>7. Cut(written, 1 + 1, (1 + 1) + n - 1) = bytes
  <2>1. (1 + 1) + n - 1 = 1 + n
    OBVIOUS
  <2> QED
    BY <1>5, <1>6, <2>1 DEF Cut
<1>8. DecodeString(written, 1).value = AsText(bytes)
  <2>1. ~(written[1] > 183) /\ written[1] - 128 = n
    BY <1>5
  <2> QED
    BY <1>7, <2>1 DEF DecodeString, Decoded
<1>9. DecodeItem(written, 1) = DecodeString(written, 1)
  <2>1. 128 + n >= 130 /\ 128 + n \in Nat
    OBVIOUS
  <2> QED
    BY <1>5, <2>1, ItemIs
<1> QED
  BY <1>1, <1>8, <1>9 DEF Reread

LEMMA LongReread ==
    ASSUME NEW bytes \in Seq(Int), NEW n \in Nat, n > 55, Len(bytes) = n
    PROVE  Reread(bytes) = AsText(bytes)
<1>1. PICK written : written = EncodeBytes(bytes).bytes
  OBVIOUS
<1>2. PICK digits : digits = BigEndian(n)
  OBVIOUS
<1>3. digits \in Seq(Int) /\ Len(digits) \in 1 .. 4 /\ ToNumber(digits) = n
  BY <1>2, DigitsOfLength
<1>4. PICK k \in 1 .. 4 : k = Len(digits)
  BY <1>3
<1>5. PICK head : head = <<183 + k>>
  OBVIOUS
<1>6. head \in Seq(Int) /\ Len(head) = 1 /\ head[1] = 183 + k
  BY <1>5
<1>7. PICK front : front = head \o digits
  OBVIOUS
<1>8. front \in Seq(Int) /\ Len(front) = 1 + k /\ front[1] = 183 + k
  <2>1. /\ front \in Seq(Int) /\ Len(front) = Len(head) + Len(digits)
        /\ \A i \in 1 .. Len(head) + Len(digits) :
             front[i] = IF i <= Len(head) THEN head[i] ELSE digits[i - Len(head)]
    BY <1>3, <1>6, <1>7, ConcatProperties
  <2> QED
    BY <1>4, <1>6, <2>1
<1>9. written = front \o bytes
  <2>1. n # 1
    OBVIOUS
  <2>2. EncodeBytes(bytes) = Encoding(<<183 + Len(digits)>> \o digits \o bytes, n + 2)
    BY <1>2, <2>1 DEF EncodeBytes
  <2> QED
    BY <1>1, <1>4, <1>5, <1>7, <2>2 DEF Encoding
<1>10. written[1] = 183 + k /\ Len(written) = (1 + k) + n
  <2>1. /\ Len(written) = Len(front) + Len(bytes)
        /\ \A i \in 1 .. Len(front) + Len(bytes) :
             written[i] = IF i <= Len(front) THEN front[i] ELSE bytes[i - Len(front)]
    BY <1>8, <1>9, ConcatProperties
  <2> QED
    BY <1>8, <2>1
<1>11. SubSeq(written, (1 + k) + 1, (1 + k) + n) = bytes
  BY <1>8, <1>9, PartsOfConcat
<1>12. SubSeq(written, 1 + 1, 1 + k) = digits
  <2>1. SubSeq(front, 1 + 1, 1 + k) = digits
    <3>1. SubSeq(head \o digits, Len(head) + 1, Len(head) + Len(digits)) = digits
      BY <1>3, <1>6, PartsOfConcat
    <3> QED
      BY <1>4, <1>6, <1>7, <3>1
  <2>2. 1 + 1 \in 1 .. Len(front) /\ 1 + k \in 1 .. Len(front)
    BY <1>8
  <2>3. SubSeq(front \o bytes, 1 + 1, 1 + k) = SubSeq(front, 1 + 1, 1 + k)
    BY <1>8, <2>2, SubSeqOfConcat1
  <2> QED
    BY <1>9, <2>1, <2>3
<1>13. Cut(written, 1 + 1, 1 + k) = digits
  BY <1>10, <1>12 DEF Cut
<1>14. Cut(written, (1 + 1) + k, ((1 + 1) + k) + n - 1) = bytes
  <2>1. (1 + 1) + k = (1 + k) + 1 /\ ((1 + 1) + k) + n - 1 = (1 + k) + n
    OBVIOUS
  <2> QED
    BY <1>10, <1>11, <2>1 DEF Cut
<1>15. DecodeString(written, 1).value = AsText(bytes)
  <2>1. written[1] > 183 /\ written[1] - 183 = k
    BY <1>10
  <2> QED
    BY <1>3, <1>13, <1>14, <2>1 DEF DecodeString, Decoded
<1>16. DecodeItem(written, 1) = DecodeString(written, 1)
  <2>1. 183 + k >= 130 /\ 183 + k \in Nat
    OBVIOUS
  <2> QED
    BY <1>10, <2>1, ItemIs
<1> QED
  BY <1>1, <1>15, <1>16 DEF Reread

LEMMA RereadIs ==
    ASSUME NEW bytes \in Seq(Byte), Len(bytes) >= 2
    PROVE  Reread(bytes) = AsText(bytes)
<1>2. bytes \in Seq(Int)
  BY BytesAreNumbers, SeqMonotonic
<1>3. PICK n \in Nat : n = Len(bytes)
  OBVIOUS
<1>4. CASE n \in 2 .. 55
  BY <1>2, <1>3, <1>4, ShortReread
<1>5. CASE n > 55
  BY <1>2, <1>3, <1>5, LongReread
<1>6. n >= 2
  BY <1>3
<1>7. n \in 2 .. 55 \/ n > 55
  BY <1>6
<1> QED
  BY <1>4, <1>5, <1>7

(* A key of two nibbles or more survives being stored: it is hex, or a text   *)
(* with a zero, which is not taken for digits.                               *)
LEMMA KeyIsReread ==
    ASSUME NEW key \in Seq(Nibble)
    PROVE  /\ KeyReread(key) = IF Len(key) >= 2 THEN key ELSE <<>>
           /\ KeyReread(key) \in Seq(Nibble)
<1>1. Len(key) \in Nat /\ key \in Seq(Byte)
  BY SeqMonotonic DEF Nibble, Byte
<1>2. ASSUME Len(key) = 0 PROVE KeyReread(key) = <<>>
  <2>1. key = <<>>
    BY <1>2
  <2>2. Reread(key) = Truth(FALSE)
    BY <2>1, EmptyReread
  <2> QED
    BY <1>2, <2>2 DEF KeyReread, KeyOf, Truth
<1>3. ASSUME Len(key) = 1 PROVE KeyReread(key) = <<>>
  <2>1. key[1] \in Nibble
    BY <1>3, ElementOfSeq
  <2>2. Reread(key) = Amount(key[1])
    BY <1>1, <1>3, <2>1, ByteReread DEF Nibble
  <2> QED
    BY <1>3, <2>2 DEF KeyReread, KeyOf, Amount
<1>4. ASSUME Len(key) >= 2 PROVE KeyReread(key) = key
  <2>1. Reread(key) = AsText(key)
    BY <1>1, <1>4, RereadIs
  <2>2. CASE NotAscii(key)
    BY <1>4, <2>1, <2>2 DEF KeyReread, KeyOf, AsText, HexText
  <2>3. CASE ~NotAscii(key)
    <3>1. 1 \in DOMAIN key /\ key[1] \in Nibble
      BY <1>1, <1>4, ElementOfSeq
    <3>2. key[1] \notin 1 .. 26
      BY <2>3, <3>1 DEF NotAscii
    <3>3. Escaped(key)
      BY <3>1, <3>2 DEF Escaped, Nibble
    <3>4. BufferFromHex(key) = key
      BY <3>3 DEF BufferFromHex
    <3> QED
      BY <1>4, <2>1, <2>3, <3>4 DEF KeyReread, KeyOf, AsText, Text
  <2> QED
    BY <2>2, <2>3
<1>5. Len(key) = 0 \/ Len(key) = 1 \/ Len(key) >= 2
  <2>1. PICK n \in Nat : n = Len(key)
    BY <1>1
  <2>2. n = 0 \/ n = 1 \/ n >= 2
    OBVIOUS
  <2> QED
    BY <2>1, <2>2
<1>6. KeyReread(key) = IF Len(key) >= 2 THEN key ELSE <<>>
  BY <1>2, <1>3, <1>4, <1>5
<1>7. <<>> \in Seq(Nibble)
  BY EmptySeq
<1> QED
  BY <1>6, <1>7

(* What a value that survives is, in a leaf and in a branch.                 *)
LEMMA ValueIsReread ==
    ASSUME NEW value \in Seq(Byte), ValueSurvives(value), NEW key, NEW children
    PROVE  /\ TwoItems(key, Reread(value)) = Leaf(key, value)
           /\ SeventeenItems(children, Reread(value)) = Branch(children, value)
<1>1. Len(value) \in Nat
  OBVIOUS
<1>2. CASE Len(value) = 0
  <2>1. value = <<>>
    BY <1>2
  <2>2. Reread(value) = Truth(FALSE)
    BY <2>1, EmptyReread
  <2> QED
    BY <2>1, <2>2 DEF TwoItems, SeventeenItems, Truth
<1>3. CASE Len(value) >= 2
  <2>1. Reread(value) = AsText(value)
    BY <1>3, RereadIs
  <2>2. ~NotAscii(value) /\ ~BeginsAsHex(value)
    BY DEF ValueSurvives
  <2>3. Reread(value) = Text(value)
    BY <2>1, <2>2 DEF AsText
  <2> QED
    BY <2>2, <2>3 DEF TwoItems, SeventeenItems, Text
<1>4. Len(value) = 0 \/ Len(value) >= 2
  <2>1. PICK n \in Nat : n = Len(value)
    BY <1>1
  <2>2. n = 0 \/ n = 1 \/ n >= 2
    OBVIOUS
  <2> QED
    BY <2>1, <2>2 DEF ValueSurvives
<1> QED
  BY <1>2, <1>3, <1>4

----------------------------------------------------------------------------
(* Where keys part.                                                          *)

LEMMA CommonLengthIs ==
    ASSUME NEW S, NEW key1 \in Seq(S), NEW key2 \in Seq(S)
    PROVE  /\ CommonLength(key1, key2) \in 0 .. Len(key1)
           /\ CommonLength(key1, key2) <= Len(key2)
           /\ SubSeq(key1, 1, CommonLength(key1, key2))
                = SubSeq(key2, 1, CommonLength(key1, key2))
           /\ \A i \in 1 .. CommonLength(key1, key2) : key1[i] = key2[i]
           /\ \/ CommonLength(key1, key2) = Len(key1)
              \/ CommonLength(key1, key2) = Len(key2)
              \/ key1[CommonLength(key1, key2) + 1] # key2[CommonLength(key1, key2) + 1]
<1> DEFINE Parts(n) == n = Len(key1) \/ n = Len(key2) \/ key1[n + 1] # key2[n + 1]
           Common(n) ==
               /\ n <= Len(key2)
               /\ SubSeq(key1, 1, n) = SubSeq(key2, 1, n)
               /\ n < Len(key1) /\ n < Len(key2) => key1[n + 1] # key2[n + 1]
               /\ n = Len(key1) \/ n = Len(key2) \/ key1[n + 1] # key2[n + 1]
<1>1. Len(key1) \in Nat /\ Len(key2) \in Nat
  OBVIOUS
<1>2. PICK n \in Nat : Parts(n) /\ \A m \in Nat : Parts(m) => n <= m
  <2> DEFINE T == {m \in Nat : Parts(m)}
  <2>1. T \in SUBSET Nat /\ T # {}
    BY <1>1
  <2> HIDE DEF Parts
  <2>2. PICK n \in T : \A m \in T : n <= m
    <3> HIDE DEF T
    <3> QED
      BY <2>1, LeastNat
  <2> QED
    BY <2>2
<1>3. n <= Len(key1) /\ n <= Len(key2)
  BY <1>1, <1>2
<1>4. \A i \in 1 .. n : key1[i] = key2[i]
  <2> TAKE i \in 1 .. n
  <2>1. PICK m \in Nat : m + 1 = i /\ ~(n <= m)
    <3>1. i - 1 \in Nat /\ (i - 1) + 1 = i /\ ~(n <= i - 1)
      BY <1>2
    <3> QED
      BY <3>1
  <2>2. ~Parts(m)
    BY <1>2, <2>1
  <2> QED
    BY <2>1, <2>2
<1>5. SubSeq(key1, 1, n) = SubSeq(key2, 1, n)
  <2>1. n \in 0 .. Len(key1) /\ n \in 0 .. Len(key2)
    BY <1>1, <1>3
  <2>2. /\ SubSeq(key1, 1, n) \in Seq(S) /\ Len(SubSeq(key1, 1, n)) = n
        /\ \A i \in 1 .. n : SubSeq(key1, 1, n)[i] = key1[i]
    BY <2>1, UpToIs
  <2>3. /\ SubSeq(key2, 1, n) \in Seq(S) /\ Len(SubSeq(key2, 1, n)) = n
        /\ \A i \in 1 .. n : SubSeq(key2, 1, n)[i] = key2[i]
    BY <2>1, UpToIs
  <2> QED
    BY <1>4, <2>2, <2>3, SeqEqual
<1>6. n \in 0 .. Len(key1) /\ Common(n)
  BY <1>1, <1>2, <1>3, <1>5
<1>7. CommonLength(key1, key2) = CHOOSE m \in 0 .. Len(key1) : Common(m)
  BY DEF CommonLength
<1> HIDE DEF Common
<1>8. CommonLength(key1, key2) \in 0 .. Len(key1) /\ Common(CommonLength(key1, key2))
  BY <1>6, <1>7
<1>9. ASSUME NEW c \in 0 .. Len(key1), Common(c), NEW i \in 1 .. c
      PROVE  key1[i] = key2[i]
  <2>1. c \in 0 .. Len(key2) /\ SubSeq(key1, 1, c) = SubSeq(key2, 1, c)
    BY <1>1, <1>9 DEF Common
  <2>2. SubSeq(key1, 1, c)[i] = key1[i] /\ SubSeq(key2, 1, c)[i] = key2[i]
    BY <2>1, UpToIs
  <2> QED
    BY <2>1, <2>2
<1> QED
  BY <1>8, <1>9 DEF Common

----------------------------------------------------------------------------
(* The ways an insertion changes the trie.                                   *)

(* The key goes on where the leaf at the root ends.                          *)
ExtendsLeaf(key, value) ==
    \E rest, leaf, branch :
        /\ IsLeaf(root) /\ Len(root.key) < Len(key)
        /\ SubSeq(key, 1, Len(root.key)) = root.key
        /\ rest = After(key, Len(root.key))
        /\ leaf = Leaf(rest, value)
        /\ branch = Branch([x \in {rest[1]} |-> leaf], root.value)
        /\ root' = Extension(root.key, branch)
        /\ database' = database \cup {leaf, branch}

(* The key leaves that of the root after n nibbles.                          *)
SplitsAt(key, value, n, extension, leaf, branch) ==
    /\ IsExtension(root) /\ n < Len(key)
    /\ SubSeq(key, 1, n) = SubSeq(root.key, 1, n)
    /\ root.key[n + 1] # key[n + 1]
    /\ extension = Extension(After(root.key, n + 1), root.child)
    /\ leaf = Leaf(<<>>, value)
    /\ branch = Branch([m \in {root.key[n + 1], key[n + 1]} |->
                           IF m = root.key[n + 1] THEN extension ELSE leaf], <<>>)
    /\ root' = Extension(SubSeq(root.key, 1, n), branch)
    /\ database' = database \cup {extension, leaf, branch}

SplitsRoot(key, value) ==
    \E n \in 1 .. Len(root.key) - 1 : \E extension, leaf, branch :
        SplitsAt(key, value, n, extension, leaf, branch)

(* The key goes on where a leaf ends that the branch below the root has.      *)
SplitsThis(key, value, rest, leaf, prefix, kept, branch, added, inner, extension, changed) ==
    /\ IsExtension(root) /\ Len(root.key) < Len(key)
    /\ SubSeq(key, 1, Len(root.key)) = root.key
    /\ rest = After(key, Len(root.key))
    /\ branch = Load(root.child) /\ rest[1] \in DOMAIN branch.children
    /\ leaf = branch.children[rest[1]] /\ IsLeaf(leaf)
    /\ Load(leaf) = Leaf(KeyReread(leaf.key), kept)
    /\ prefix = After(KeyReread(leaf.key), 1)
    /\ Len(prefix) < Len(Tail(rest))
    /\ SubSeq(Tail(rest), 1, Len(prefix)) = prefix
    /\ added = Leaf(Tail(rest), value)
    /\ inner = Branch([n \in {Tail(rest)[Len(prefix) + 1]} |-> added], kept)
    /\ extension = Extension(prefix, inner)
    /\ changed = Branch([branch.children EXCEPT ![rest[1]] = extension], branch.value)
    /\ root' = Extension(root.key, changed)
    /\ database' = database \cup {added, inner, extension, changed}

SplitsLeaf(key, value) ==
    \E rest, leaf, prefix, kept, branch, added, inner, extension, changed :
        SplitsThis(key, value, rest, leaf, prefix, kept, branch, added, inner, extension, changed)

(* What GetCommonPrefixResult says of two keys.                              *)
LEMMA FirstIsPrefix ==
    ASSUME NEW S, NEW key1 \in Seq(S), NEW key2 \in Seq(S),
           CommonPrefix(key1, key2).type = "KEY1_PREFIX"
    PROVE  /\ Len(key1) < Len(key2) /\ SubSeq(key2, 1, Len(key1)) = key1
           /\ CommonPrefix(key1, key2).prefix = key1
<1>1. PICK n : n = CommonLength(key1, key2)
  OBVIOUS
<1>2. n \in 0 .. Len(key1) /\ n <= Len(key2) /\ SubSeq(key1, 1, n) = SubSeq(key2, 1, n)
  BY <1>1, CommonLengthIs
<1>3. n = Len(key1) /\ n # Len(key2)
  BY <1>1 DEF CommonPrefix
<1>4. SubSeq(key1, 1, n) = key1
  BY <1>3, SubSeqFull
<1> QED
  BY <1>1, <1>2, <1>3, <1>4 DEF CommonPrefix

LEMMA KeysPart ==
    ASSUME NEW S, NEW key1 \in Seq(S), NEW key2 \in Seq(S),
           CommonPrefix(key1, key2).type = "undefined"
    PROVE  \E n \in 1 .. Len(key1) - 1 :
             /\ n < Len(key2) /\ SubSeq(key2, 1, n) = SubSeq(key1, 1, n)
             /\ key1[n + 1] # key2[n + 1]
             /\ CommonPrefix(key1, key2).prefix = SubSeq(key1, 1, n)
<1>1. PICK n : n = CommonLength(key1, key2)
  OBVIOUS
<1>2. /\ n \in 0 .. Len(key1) /\ n <= Len(key2) /\ SubSeq(key1, 1, n) = SubSeq(key2, 1, n)
      /\ n = Len(key1) \/ n = Len(key2) \/ key1[n + 1] # key2[n + 1]
  BY <1>1, CommonLengthIs
<1>3. n # Len(key1) /\ n # Len(key2) /\ n # 0
  BY <1>1 DEF CommonPrefix
<1>4. n \in 1 .. Len(key1) - 1 /\ n < Len(key2)
  BY <1>2, <1>3
<1>5. CommonPrefix(key1, key2).prefix = SubSeq(key1, 1, n)
  BY <1>1 DEF CommonPrefix
<1> QED
  BY <1>2, <1>3, <1>4, <1>5

LEMMA LeafIsExtended ==
    ASSUME IsLeaf(root), NEW key \in Seq(Nibble), NEW value, Takes(InsertAtLeaf(root, key, value))
    PROVE  ExtendsLeaf(key, value)
<1>1. root.key \in Seq(Nibble)
  BY DEF IsLeaf
<1>2. CommonPrefix(root.key, key).type = "KEY1_PREFIX"
  BY DEF InsertAtLeaf, Takes, Threw
<1>3. /\ Len(root.key) < Len(key) /\ SubSeq(key, 1, Len(root.key)) = root.key
      /\ CommonPrefix(root.key, key).prefix = root.key
  BY <1>1, <1>2, FirstIsPrefix
<1>4. Takes(SwapLeafWithExtension(root, key, value, root.key))
  BY <1>2, <1>3 DEF InsertAtLeaf
<1>5. PICK rest : rest = After(key, Len(root.key))
  OBVIOUS
<1>6. PICK leaf : leaf = Leaf(rest, value)
  OBVIOUS
<1>7. leaf.key = rest
  BY <1>6 DEF Leaf
<1>8. PICK branch : branch = Branch([x \in {rest[1]} |-> leaf], root.value)
  OBVIOUS
<1>9. SwapLeafWithExtension(root, key, value, root.key)
        = Changed(Extension(root.key, branch), {leaf, branch})
  BY <1>5, <1>6, <1>7, <1>8 DEF SwapLeafWithExtension
<1>10. root' = Extension(root.key, branch) /\ database' = database \cup {leaf, branch}
  BY <1>4, <1>9 DEF Takes, Changed
<1> QED
  BY <1>3, <1>5, <1>6, <1>8, <1>10 DEF ExtendsLeaf

LEMMA RootIsSplit ==
    ASSUME IsExtension(root), NEW key \in Seq(Nibble), NEW value,
           Takes(InsertAtExtension(root, key, value)),
           CommonPrefix(root.key, key).type = "undefined"
    PROVE  SplitsRoot(key, value)
<1>1. root.key \in Seq(Nibble)
  BY DEF IsExtension
<1>2. PICK n \in 1 .. Len(root.key) - 1 :
        /\ n < Len(key) /\ SubSeq(key, 1, n) = SubSeq(root.key, 1, n)
        /\ root.key[n + 1] # key[n + 1]
        /\ CommonPrefix(root.key, key).prefix = SubSeq(root.key, 1, n)
  BY <1>1, KeysPart
<1>3. PICK prefix : prefix = SubSeq(root.key, 1, n)
  OBVIOUS
<1>4. Takes(SwapExtensionWithBranch(root, key, value, prefix))
  BY <1>2, <1>3 DEF InsertAtExtension
<1>5. Len(root.key) \in Nat /\ n \in 0 .. Len(root.key) /\ n + 1 \in 0 .. Len(root.key)
  BY <1>1
<1>6. Len(prefix) = n
  BY <1>1, <1>3, <1>5, UpToIs
<1>7. PICK old : old = After(root.key, n)
  OBVIOUS
<1>8. /\ old \in Seq(Nibble) /\ Len(old) = Len(root.key) - n
      /\ \A i \in 1 .. Len(root.key) - n : old[i] = root.key[n + i]
  BY <1>1, <1>5, <1>7, AfterIs
<1>9. old # <<>> /\ old[1] = root.key[n + 1]
  <2>1. 1 \in 1 .. Len(root.key) - n
    BY <1>2, <1>5
  <2> QED
    BY <1>5, <1>8, <2>1
<1>10. Tail(old) = After(root.key, n + 1)
  <2>1. /\ Tail(old) \in Seq(Nibble) /\ Len(Tail(old)) = Len(root.key) - n - 1
        /\ \A i \in 1 .. Len(root.key) - n - 1 : Tail(old)[i] = old[i + 1]
    BY <1>8, <1>9, HeadTailProperties
  <2>2. /\ After(root.key, n + 1) \in Seq(Nibble)
        /\ Len(After(root.key, n + 1)) = Len(root.key) - (n + 1)
        /\ \A i \in 1 .. Len(root.key) - (n + 1) :
             After(root.key, n + 1)[i] = root.key[n + 1 + i]
    BY <1>1, <1>5, AfterIs
  <2>3. Len(root.key) - (n + 1) = Len(root.key) - n - 1
    BY <1>5
  <2>4. \A i \in 1 .. Len(root.key) - n - 1 : Tail(old)[i] = After(root.key, n + 1)[i]
    <3> TAKE i \in 1 .. Len(root.key) - n - 1
    <3>1. i + 1 \in 1 .. Len(root.key) - n /\ n + (i + 1) = n + 1 + i
      BY <1>2, <1>5
    <3> QED
      BY <1>8, <2>1, <2>2, <2>3, <3>1
  <2> QED
    BY <2>1, <2>2, <2>3, <2>4, SeqEqual
<1>11. PICK extension : extension = Extension(After(root.key, n + 1), root.child)
  OBVIOUS
<1>12. PICK leaf : leaf = Leaf(<<>>, value)
  OBVIOUS
<1>13. PICK branch :
         branch = Branch([m \in {root.key[n + 1], key[n + 1]} |->
                             IF m = root.key[n + 1] THEN extension ELSE leaf], <<>>)
  OBVIOUS
<1>14. SwapExtensionWithBranch(root, key, value, prefix)
         = Changed(Extension(prefix, branch), {extension, leaf, branch})
  BY <1>6, <1>7, <1>9, <1>10, <1>11, <1>12, <1>13 DEF SwapExtensionWithBranch
<1>15. root' = Extension(prefix, branch) /\ database' = database \cup {extension, leaf, branch}
  BY <1>4, <1>14 DEF Takes, Changed
<1>16. SplitsAt(key, value, n, extension, leaf, branch)
  BY <1>2, <1>3, <1>11, <1>12, <1>13, <1>15 DEF SplitsAt
<1> QED
  BY <1>16 DEF SplitsRoot

(* What comes back of what was stored.                                       *)
LEMMA LoadedLeaf ==
    ASSUME NEW node, IsLeaf(node)
    PROVE  /\ Load(node).type = "LEAF_NODE" =>
                Load(node) = Leaf(KeyReread(node.key), Load(node).value)
           /\ Load(node).type = "EXTENSION_NODE" =>
                Load(node) = Extension(KeyReread(node.key), Lost)
           /\ Load(node).type \in {"LEAF_NODE", "EXTENSION_NODE"}
<1>1. Load(node) = TwoItems(KeyReread(node.key), Reread(node.value))
  BY DEF IsLeaf, Load
<1> QED
  BY <1>1 DEF TwoItems, Leaf, Extension

LEMMA LoadedExtension ==
    ASSUME NEW node, IsExtension(node)
    PROVE  /\ Load(node) = Extension(KeyReread(node.key), node.child)
           /\ Load(node).type = "EXTENSION_NODE"
  BY DEF IsExtension, Load, Extension

LEMMA LoadedBranch ==
    ASSUME NEW node, IsBranch(node)
    PROVE  /\ Load(node) = Branch(node.children, Load(node).value)
           /\ Load(node).type = "BRANCH_NODE" /\ Load(node).children = node.children
  BY DEF IsBranch, Load, SeventeenItems, Branch

(* A nibble is left out of a key that is loaded only where it was kept.      *)
LEMMA AfterOne ==
    ASSUME NEW S, NEW key \in Seq(S)
    PROVE  /\ After(key, 1) \in Seq(S)
           /\ key # <<>> => After(key, 1) = Tail(key) /\ Len(After(key, 1)) = Len(key) - 1
           /\ key = <<>> => After(key, 1) = <<>>
<1>1. CASE key = <<>>
  <2>1. SubSeq(key, 2, 0) = <<>> /\ Len(key) = 0
    BY <1>1, SubSeqEmpty
  <2> QED
    BY <1>1, <2>1 DEF After
<1>2. CASE key # <<>>
  <2>1. Tail(key) = After(key, 1)
    BY <1>2, TailIsSubSeq DEF After
  <2>2. Tail(key) \in Seq(S) /\ Len(Tail(key)) = Len(key) - 1
    BY <1>2, HeadTailProperties
  <2> QED
    BY <1>2, <2>1, <2>2
<1> QED
  BY <1>1, <1>2

LEMMA LeafIsSplit ==
    ASSUME TrieInv, IsExtension(root), root.child \in database, IsBranch(root.child),
           NEW key \in Seq(Nibble), NEW value,
           Takes(InsertAtExtension(root, key, value)),
           CommonPrefix(root.key, key).type # "undefined"
    PROVE  SplitsLeaf(key, value)
<1>1. root.key \in Seq(Nibble)
  BY DEF IsExtension
<1>2. CommonPrefix(root.key, key).type = "KEY1_PREFIX"
  BY DEF InsertAtExtension, Takes, Threw
<1>3. Len(root.key) < Len(key) /\ SubSeq(key, 1, Len(root.key)) = root.key
  BY <1>1, <1>2, FirstIsPrefix
<1>4. PICK rest : rest = After(key, Len(root.key))
  OBVIOUS
<1>5. rest \in Seq(Nibble) /\ rest # <<>>
  <2>1. Len(root.key) \in 0 .. Len(key) /\ Len(key) - Len(root.key) # 0
    BY <1>1, <1>3
  <2> QED
    BY <1>4, <2>1, AfterIs
<1>6. PICK branch : branch = Load(root.child)
  OBVIOUS
<1>7. branch.children = root.child.children
  BY <1>6, LoadedBranch
<1>8. Takes(MergeChanges(root, InsertAtBranch(branch, rest, value)))
  BY <1>2, <1>4, <1>6 DEF InsertAtExtension
<1>9. PICK result : result = InsertAtBranch(branch, rest, value)
  OBVIOUS
<1>10. /\ result.ok /\ root' = Extension(root.key, result.node)
       /\ database' = database \cup result.stored
  BY <1>8, <1>9 DEF MergeChanges, Takes, Threw, Changed
<1>11. rest[1] \in DOMAIN branch.children
  BY <1>9, <1>10 DEF InsertAtBranch, Threw
<1>12. PICK leaf : leaf = branch.children[rest[1]]
  OBVIOUS
<1>13. PICK child : child = Load(leaf)
  OBVIOUS
<1>14. result = InsertAtChild(branch, child, rest, value)
  BY <1>9, <1>11, <1>12, <1>13 DEF InsertAtBranch
<1>15. /\ child.type = "LEAF_NODE"
       /\ CommonPrefix(After(child.key, 1), Tail(rest)).type = "KEY1_PREFIX"
  BY <1>10, <1>14 DEF InsertAtChild, Threw
<1>16. IsLeaf(leaf)
  <2>1. Stored(root.child)
    BY DEF TrieInv
  <2>2. leaf \in database
    BY <1>7, <1>11, <1>12, <2>1 DEF Stored, IsLeaf, IsExtension, IsBranch
  <2>3. Stored(leaf)
    BY <2>2 DEF TrieInv
  <2> QED
    BY <1>13, <1>15, <2>3, LoadedExtension, LoadedBranch DEF Stored
<1>17. PICK kept : child = Leaf(KeyReread(leaf.key), kept)
  BY <1>13, <1>15, <1>16, LoadedLeaf
<1>18. PICK prefix : prefix = After(KeyReread(leaf.key), 1)
  OBVIOUS
<1>19. prefix = After(child.key, 1) /\ child.value = kept /\ child.key = KeyReread(leaf.key)
  BY <1>17, <1>18 DEF Leaf
<1>20. prefix \in Seq(Nibble) /\ Tail(rest) \in Seq(Nibble)
  <2>1. leaf.key \in Seq(Nibble)
    BY <1>16 DEF IsLeaf
  <2>2. KeyReread(leaf.key) \in Seq(Nibble)
    BY <2>1, KeyIsReread
  <2> QED
    BY <1>5, <1>18, <2>2, AfterOne, HeadTailProperties
<1>21. /\ Len(prefix) < Len(Tail(rest)) /\ SubSeq(Tail(rest), 1, Len(prefix)) = prefix
       /\ CommonPrefix(prefix, Tail(rest)).prefix = prefix
  BY <1>15, <1>19, <1>20, FirstIsPrefix
<1>22. result = SwapLeafOnBranch(branch, rest[1], child, Tail(rest), value, prefix)
  BY <1>14, <1>15, <1>19, <1>21 DEF InsertAtChild
<1>23. PICK added : added = Leaf(Tail(rest), value)
  OBVIOUS
<1>24. PICK inner : inner = Branch([n \in {Tail(rest)[Len(prefix) + 1]} |-> added], kept)
  OBVIOUS
<1>25. PICK extension : extension = Extension(prefix, inner)
  OBVIOUS
<1>26. PICK changed :
         changed = Branch([branch.children EXCEPT ![rest[1]] = extension], branch.value)
  OBVIOUS
<1>27. result = Changed(changed, {added, inner, extension, changed})
  <2>1. After(child.key, 1 + Len(prefix)) = <<>>
    BY <1>10, <1>22 DEF SwapLeafOnBranch, Threw
  <2> QED
    BY <1>19, <1>22, <1>23, <1>24, <1>25, <1>26, <2>1 DEF SwapLeafOnBranch
<1>28. /\ root' = Extension(root.key, changed)
       /\ database' = database \cup {added, inner, extension, changed}
  BY <1>10, <1>27 DEF Changed
<1>29. Load(leaf) = Leaf(KeyReread(leaf.key), kept)
  BY <1>13, <1>17
<1>30. SplitsThis(key, value, rest, leaf, prefix, kept, branch, added, inner, extension,
                  changed)
  BY <1>3, <1>4, <1>6, <1>11, <1>12, <1>16, <1>18, <1>21, <1>23, <1>24, <1>25, <1>26,
     <1>28, <1>29, Zenon DEF SplitsThis
<1> QED
  BY <1>30 DEF SplitsLeaf

(* All there is.                                                             *)
LEMMA WaysToInsert ==
    ASSUME TrieInv, NEW key \in Seq(Nibble), NEW value, Takes(Inserting(key, value))
    PROVE  \/ key = <<>> /\ UNCHANGED <<root, database>>
           \/ key # <<>> /\ root = Empty /\ root' = Leaf(key, value) /\ database' = database
           \/ key # <<>> /\ ExtendsLeaf(key, value)
           \/ key # <<>> /\ SplitsRoot(key, value)
           \/ key # <<>> /\ SplitsLeaf(key, value)
<1>1. CASE key = <<>>
  BY <1>1 DEF Inserting, Takes, Changed
<1>2. CASE key # <<>> /\ root = Empty
  BY <1>2 DEF Inserting, Takes, Changed, Empty
<1>3. CASE key # <<>> /\ IsLeaf(root)
  <2>1. Takes(InsertAtLeaf(root, key, value))
    BY <1>3 DEF Inserting, IsLeaf
  <2> QED
    BY <1>3, <2>1, LeafIsExtended
<1>4. CASE key # <<>> /\ IsExtension(root) /\ root.child \in database /\ IsBranch(root.child)
  <2>1. Takes(InsertAtExtension(root, key, value))
    BY <1>4 DEF Inserting, IsExtension
  <2> QED
    BY <1>4, <2>1, RootIsSplit, LeafIsSplit
<1> QED
  BY <1>1, <1>2, <1>3, <1>4 DEF TrieInv, RootShape

(* What insert makes is what it says.                                        *)
LEMMA EmptyIs == Empty.type = "EMPTY_NODE"
  BY DEF Empty

LEMMA MadeLeaf ==
    ASSUME NEW key \in Seq(Nibble), NEW value
    PROVE  IsLeaf(Leaf(key, value)) /\ Leaf(key, value).key = key
  BY DEF IsLeaf, Leaf

LEMMA MadeExtension ==
    ASSUME NEW key \in Seq(Nibble), NEW child
    PROVE  /\ IsExtension(Extension(key, child))
           /\ Extension(key, child).key = key /\ Extension(key, child).child = child
  BY DEF IsExtension, Extension

LEMMA MadeBranch ==
    ASSUME NEW children, NEW value, DOMAIN children \subseteq Nibble,
           Cardinality(DOMAIN children) \in 1 .. 2
    PROVE  IsBranch(Branch(children, value)) /\ Branch(children, value).children = children
  BY DEF IsBranch, Branch

LEMMA OneOrTwo ==
    ASSUME NEW a, NEW b
    PROVE  Cardinality({a}) \in 1 .. 2 /\ Cardinality({a, b}) \in 1 .. 2
<1>1. IsFiniteSet({a}) /\ Cardinality({a}) = 1
  BY FS_Singleton
<1>2. Cardinality({a} \cup {b}) = IF b \in {a} THEN Cardinality({a}) ELSE Cardinality({a}) + 1
  BY <1>1, FS_AddElement
<1>3. {a} \cup {b} = {a, b}
  OBVIOUS
<1> QED
  BY <1>1, <1>2, <1>3

(* Nodes stay stored.                                                        *)
LEMMA StaysStored ==
    ASSUME \A node \in database : Stored(node), database \subseteq database'
    PROVE  \A node \in database : Stored(node)'
  BY DEF Stored, IsLeaf, IsExtension, IsBranch

LEMMA NibblesAre ==
    ASSUME NEW bytes \in Seq(Byte)
    PROVE  /\ ConvertBytesToNibbles(bytes) \in Seq(Nibble)
           /\ Len(ConvertBytesToNibbles(bytes)) = 2 * Len(bytes)
           /\ \A i \in 1 .. Len(bytes) :
                /\ ConvertBytesToNibbles(bytes)[2 * i - 1] = bytes[i] \div 16
                /\ ConvertBytesToNibbles(bytes)[2 * i] = bytes[i] % 16
<1>1. PICK n \in Nat : n = Len(bytes)
  OBVIOUS
<1>2. PICK nibbles : nibbles = ConvertBytesToNibbles(bytes)
  OBVIOUS
<1>3. nibbles = [i \in 1 .. 2 * n |->
                   IF i % 2 = 1 THEN bytes[(i + 1) \div 2] \div 16 ELSE bytes[i \div 2] % 16]
  BY <1>1, <1>2 DEF ConvertBytesToNibbles
<1>4. ASSUME NEW b \in Byte PROVE b \div 16 \in Nibble /\ b % 16 \in Nibble
  BY <1>4 DEF Byte, Nibble
<1>5. ASSUME NEW i \in 1 .. 2 * n PROVE nibbles[i] \in Nibble
  <2>1. CASE i % 2 = 1
    <3>1. (i + 1) \div 2 \in 1 .. n
      BY <2>1
    <3>2. bytes[(i + 1) \div 2] \in Byte
      BY <1>1, <3>1, ElementOfSeq
    <3> QED
      BY <1>3, <1>4, <2>1, <3>2
  <2>2. CASE i % 2 # 1
    <3>1. i \div 2 \in 1 .. n
      BY <2>2
    <3>2. bytes[i \div 2] \in Byte
      BY <1>1, <3>1, ElementOfSeq
    <3> QED
      BY <1>3, <1>4, <2>2, <3>2
  <2> QED
    BY <2>1, <2>2
<1>6. nibbles \in [1 .. 2 * n -> Nibble]
  BY <1>3, <1>5
<1>7. nibbles \in Seq(Nibble) /\ Len(nibbles) = 2 * n
  BY <1>6
<1>8. ASSUME NEW i \in 1 .. n
      PROVE  nibbles[2 * i - 1] = bytes[i] \div 16 /\ nibbles[2 * i] = bytes[i] % 16
  <2>1. /\ 2 * i - 1 \in 1 .. 2 * n /\ (2 * i - 1) % 2 = 1 /\ ((2 * i - 1) + 1) \div 2 = i
        /\ 2 * i \in 1 .. 2 * n /\ (2 * i) % 2 = 0 /\ (2 * i) \div 2 = i
    OBVIOUS
  <2> QED
    BY <1>3, <2>1
<1> QED
  BY <1>1, <1>2, <1>7, <1>8

----------------------------------------------------------------------------
(* The inductive invariant.                                                  *)

LEMMA TrieInvInit == Init => TrieInv
<1> SUFFICES ASSUME Init PROVE TrieInv
  OBVIOUS
<1>1. inserted \in Seq(Keys \X Values) /\ Len(inserted) = 0
  BY EmptySeq DEF Init
<1>2. calls \in 0 .. MaxInserts /\ Len(inserted) <= calls
  BY <1>1, TrieAssumption DEF Init
<1> QED
  BY <1>1, <1>2 DEF Init, TrieInv, RootShape

LEMMA ExtendedKeeps ==
    ASSUME TrieInv, NEW key \in Seq(Nibble), NEW value, ExtendsLeaf(key, value), root.key # <<>>
    PROVE  (\A node \in database' : Stored(node)') /\ RootShape'
<1>1. PICK rest, leaf, branch :
        /\ IsLeaf(root) /\ Len(root.key) < Len(key)
        /\ rest = After(key, Len(root.key))
        /\ leaf = Leaf(rest, value)
        /\ branch = Branch([x \in {rest[1]} |-> leaf], root.value)
        /\ root' = Extension(root.key, branch)
        /\ database' = database \cup {leaf, branch}
  BY DEF ExtendsLeaf
<1>2. root.key \in Seq(Nibble)
  BY <1>1 DEF IsLeaf
<1>3. rest \in Seq(Nibble) /\ rest[1] \in Nibble
  <2>1. Len(root.key) \in 0 .. Len(key) /\ Len(key) - Len(root.key) >= 1
    BY <1>1, <1>2
  <2>2. rest \in Seq(Nibble) /\ Len(rest) = Len(key) - Len(root.key)
    BY <1>1, <2>1, AfterIs
  <2>3. 1 \in 1 .. Len(rest)
    BY <2>1, <2>2
  <2> QED
    BY <2>2, <2>3, ElementOfSeq
<1>4. IsLeaf(leaf)
  BY <1>1, <1>3, MadeLeaf
<1>5. PICK children : children = [x \in {rest[1]} |-> leaf]
  OBVIOUS
<1>6. IsBranch(branch) /\ branch.children = children
  <2>1. DOMAIN children = {rest[1]}
    BY <1>5
  <2>2. DOMAIN children \subseteq Nibble /\ Cardinality(DOMAIN children) \in 1 .. 2
    BY <1>3, <2>1, OneOrTwo
  <2> QED
    BY <1>1, <1>5, <2>2, MadeBranch
<1>7. \A x \in DOMAIN branch.children : branch.children[x] \in database'
  BY <1>1, <1>5, <1>6
<1>8. Stored(leaf)' /\ Stored(branch)'
  BY <1>4, <1>6, <1>7 DEF Stored, IsLeaf, IsBranch
<1>9. \A node \in database' : Stored(node)'
  <2>1. ASSUME NEW node \in {leaf, branch} PROVE Stored(node)'
    <3>1. CASE node = leaf
      BY <1>8, <3>1 DEF Stored, IsLeaf, IsExtension, IsBranch
    <3>2. CASE node = branch
      BY <1>8, <3>2 DEF Stored, IsLeaf, IsExtension, IsBranch
    <3> QED
      BY <3>1, <3>2
  <2>2. \A node \in database : Stored(node)'
    BY <1>1, StaysStored DEF TrieInv
  <2> QED
    BY <1>1, <2>1, <2>2
<1>10. /\ IsExtension(root') /\ root'.key # <<>> /\ root'.child \in database'
       /\ IsBranch(root'.child)
  BY <1>1, <1>2, <1>6, MadeExtension
<1> QED
  BY <1>9, <1>10 DEF RootShape, IsExtension, IsBranch

LEMMA RootSplitKeeps ==
    ASSUME TrieInv, NEW key \in Seq(Nibble), NEW value, SplitsRoot(key, value), root.child \in database
    PROVE  (\A node \in database' : Stored(node)') /\ RootShape'
<1>0. PICK n \in 1 .. Len(root.key) - 1 :
        \E extension, leaf, branch : SplitsAt(key, value, n, extension, leaf, branch)
  BY DEF SplitsRoot
<1>1. PICK extension, leaf, branch : SplitsAt(key, value, n, extension, leaf, branch)
  BY <1>0
<1>2. root.key \in Seq(Nibble)
  BY <1>1 DEF IsExtension, SplitsAt
<1>3. /\ n \in 0 .. Len(root.key) /\ n + 1 \in 0 .. Len(root.key)
      /\ n + 1 \in 1 .. Len(root.key) /\ n + 1 \in 1 .. Len(key)
  BY <1>1, <1>2 DEF SplitsAt
<1>4. root.key[n + 1] \in Nibble /\ key[n + 1] \in Nibble
  BY <1>2, <1>3, ElementOfSeq
<1>5. IsLeaf(leaf)
  BY <1>1, EmptySeq, MadeLeaf DEF SplitsAt
<1>6. IsExtension(extension) /\ extension.child = root.child
  <2>1. After(root.key, n + 1) \in Seq(Nibble)
    BY <1>2, <1>3, AfterIs
  <2> QED
    BY <1>1, <2>1, MadeExtension DEF SplitsAt
<1>7. PICK children :
        children = [m \in {root.key[n + 1], key[n + 1]} |->
                       IF m = root.key[n + 1] THEN extension ELSE leaf]
  OBVIOUS
<1>8. IsBranch(branch) /\ branch.children = children
  <2>1. DOMAIN children = {root.key[n + 1], key[n + 1]}
    BY <1>7
  <2>2. DOMAIN children \subseteq Nibble /\ Cardinality(DOMAIN children) \in 1 .. 2
    BY <1>4, <2>1, OneOrTwo
  <2> QED
    BY <1>1, <1>7, <2>2, MadeBranch DEF SplitsAt
<1>9. \A x \in DOMAIN branch.children : branch.children[x] \in database'
  BY <1>1, <1>7, <1>8 DEF SplitsAt
<1>10. Stored(extension)' /\ Stored(leaf)' /\ Stored(branch)'
  BY <1>1, <1>5, <1>6, <1>8, <1>9 DEF Stored, IsLeaf, IsExtension, IsBranch, SplitsAt
<1>11. \A node \in database' : Stored(node)'
  <2>1. ASSUME NEW node \in {extension, leaf, branch} PROVE Stored(node)'
    <3>1. CASE node = extension
      BY <1>10, <3>1 DEF Stored, IsLeaf, IsExtension, IsBranch
    <3>2. CASE node = leaf
      BY <1>10, <3>2 DEF Stored, IsLeaf, IsExtension, IsBranch
    <3>3. CASE node = branch
      BY <1>10, <3>3 DEF Stored, IsLeaf, IsExtension, IsBranch
    <3> QED
      BY <3>1, <3>2, <3>3
  <2>2. \A node \in database : Stored(node)'
    BY <1>1, StaysStored DEF TrieInv, SplitsAt
  <2> QED
    BY <1>1, <2>1, <2>2 DEF SplitsAt
<1>12. SubSeq(root.key, 1, n) \in Seq(Nibble) /\ SubSeq(root.key, 1, n) # <<>>
  <2>1. SubSeq(root.key, 1, n) \in Seq(Nibble) /\ Len(SubSeq(root.key, 1, n)) = n
    BY <1>2, <1>3, UpToIs
  <2>2. n # 0
    BY <1>1 DEF SplitsAt
  <2> QED
    BY <2>1, <2>2, EmptySeq
<1>13. /\ IsExtension(root') /\ root'.key # <<>> /\ root'.child \in database'
       /\ IsBranch(root'.child)
  BY <1>1, <1>8, <1>12, MadeExtension DEF SplitsAt
<1> QED
  BY <1>11, <1>13 DEF RootShape, IsExtension, IsBranch

LEMMA LeafSplitKeeps ==
    ASSUME TrieInv, NEW key \in Seq(Nibble), NEW value, SplitsLeaf(key, value),
           root.key # <<>>, root.child \in database, IsBranch(root.child)
    PROVE  (\A node \in database' : Stored(node)') /\ RootShape'
<1>1. PICK rest, leaf, prefix, kept, branch, added, inner, extension, changed :
        SplitsThis(key, value, rest, leaf, prefix, kept, branch, added, inner, extension,
                   changed)
  BY DEF SplitsLeaf
<1>2. /\ IsExtension(root) /\ Len(root.key) < Len(key) /\ rest = After(key, Len(root.key))
      /\ branch = Load(root.child) /\ rest[1] \in DOMAIN branch.children
      /\ leaf = branch.children[rest[1]] /\ IsLeaf(leaf)
      /\ prefix = After(KeyReread(leaf.key), 1) /\ Len(prefix) < Len(Tail(rest))
  BY <1>1 DEF SplitsThis
<1>3. /\ added = Leaf(Tail(rest), value)
      /\ inner = Branch([n \in {Tail(rest)[Len(prefix) + 1]} |-> added], kept)
      /\ extension = Extension(prefix, inner)
      /\ changed = Branch([branch.children EXCEPT ![rest[1]] = extension], branch.value)
      /\ root' = Extension(root.key, changed)
      /\ database' = database \cup {added, inner, extension, changed}
  BY <1>1 DEF SplitsThis
<1>4. root.key \in Seq(Nibble)
  BY <1>2 DEF IsExtension
<1>5. rest \in Seq(Nibble) /\ Tail(rest) \in Seq(Nibble)
  <2>1. Len(root.key) \in 0 .. Len(key) /\ Len(key) - Len(root.key) # 0
    BY <1>2, <1>4
  <2>2. rest \in Seq(Nibble) /\ Len(rest) = Len(key) - Len(root.key)
    BY <1>2, <2>1, AfterIs
  <2>3. rest # <<>>
    BY <2>1, <2>2, EmptySeq
  <2> QED
    BY <2>2, <2>3, HeadTailProperties
<1>6. prefix \in Seq(Nibble)
  <2>1. leaf.key \in Seq(Nibble)
    BY <1>2 DEF IsLeaf
  <2>2. KeyReread(leaf.key) \in Seq(Nibble)
    BY <2>1, KeyIsReread
  <2> QED
    BY <1>2, <2>2, AfterOne
<1>7. Tail(rest)[Len(prefix) + 1] \in Nibble
  <2>1. Len(prefix) + 1 \in 1 .. Len(Tail(rest))
    BY <1>2, <1>5, <1>6
  <2> QED
    BY <1>5, <2>1, ElementOfSeq
<1>8. IsLeaf(added)
  BY <1>3, <1>5, MadeLeaf
<1>9. PICK children : children = [n \in {Tail(rest)[Len(prefix) + 1]} |-> added]
  OBVIOUS
<1>10. IsBranch(inner) /\ inner.children = children
  <2>1. DOMAIN children = {Tail(rest)[Len(prefix) + 1]}
    BY <1>9
  <2>2. DOMAIN children \subseteq Nibble /\ Cardinality(DOMAIN children) \in 1 .. 2
    BY <1>7, <2>1, OneOrTwo
  <2> QED
    BY <1>3, <1>9, <2>2, MadeBranch
<1>11. IsExtension(extension) /\ extension.child = inner
  BY <1>3, <1>6, MadeExtension
<1>12. branch.children = root.child.children
  BY <1>2, LoadedBranch
<1>13. PICK altered : altered = [branch.children EXCEPT ![rest[1]] = extension]
  OBVIOUS
<1>14. DOMAIN altered = DOMAIN root.child.children
  BY <1>12, <1>13
<1>15. IsBranch(changed) /\ changed.children = altered
  <2>1. DOMAIN altered \subseteq Nibble /\ Cardinality(DOMAIN altered) \in 1 .. 2
    BY <1>14 DEF IsBranch
  <2> QED
    BY <1>3, <1>13, <2>1, MadeBranch
<1>16. \A x \in DOMAIN changed.children : changed.children[x] \in database'
  <2>1. Stored(root.child)
    BY DEF TrieInv
  <2>2. \A x \in DOMAIN root.child.children : root.child.children[x] \in database
    BY <2>1 DEF Stored, IsLeaf, IsExtension, IsBranch
  <2>3. TAKE x \in DOMAIN changed.children
  <2>4. altered[x] = IF x = rest[1] THEN extension ELSE root.child.children[x]
    BY <1>12, <1>13, <1>14, <1>15
  <2> QED
    BY <1>3, <1>14, <1>15, <2>2, <2>4
<1>17. \A x \in DOMAIN inner.children : inner.children[x] \in database'
  BY <1>3, <1>9, <1>10
<1>18. Stored(added)' /\ Stored(inner)' /\ Stored(extension)' /\ Stored(changed)'
  BY <1>3, <1>8, <1>10, <1>11, <1>15, <1>16, <1>17 DEF Stored, IsLeaf, IsExtension, IsBranch
<1>19. \A node \in database' : Stored(node)'
  <2>1. ASSUME NEW node \in {added, inner, extension, changed} PROVE Stored(node)'
    <3>1. CASE node = added
      BY <1>18, <3>1 DEF Stored, IsLeaf, IsExtension, IsBranch
    <3>2. CASE node = inner
      BY <1>18, <3>2 DEF Stored, IsLeaf, IsExtension, IsBranch
    <3>3. CASE node = extension
      BY <1>18, <3>3 DEF Stored, IsLeaf, IsExtension, IsBranch
    <3>4. CASE node = changed
      BY <1>18, <3>4 DEF Stored, IsLeaf, IsExtension, IsBranch
    <3> QED
      BY <3>1, <3>2, <3>3, <3>4
  <2>2. \A node \in database : Stored(node)'
    BY <1>3, StaysStored DEF TrieInv
  <2> QED
    BY <1>3, <2>1, <2>2
<1>20. /\ IsExtension(root') /\ root'.key # <<>> /\ root'.child \in database'
       /\ IsBranch(root'.child)
  <2>1. root' = Extension(root.key, changed) /\ changed \in database'
    BY <1>3
  <2> QED
    BY <1>2, <1>4, <1>15, <2>1, MadeExtension
<1> QED
  BY <1>19, <1>20 DEF RootShape, IsExtension, IsBranch

LEMMA InsertKeeps ==
    ASSUME TrieInv, NEW key \in Keys, NEW value \in Values, Insert(key, value)
    PROVE  TrieInv'
<1>1. PICK nibbles : nibbles = ConvertBytesToNibbles(key)
  OBVIOUS
<1>2. key \in Seq(Byte)
  BY TrieAssumption DEF Byte
<1>3. nibbles \in Seq(Nibble) /\ Len(nibbles) = 2 * Len(key)
  BY <1>1, <1>2, NibblesAre
<1>4. Takes(Inserting(nibbles, value))
  BY <1>1 DEF Insert
<1>5. (\A node \in database' : Stored(node)') /\ RootShape'
  <2>1. CASE nibbles = <<>> /\ UNCHANGED <<root, database>>
    BY <2>1 DEF TrieInv, RootShape, Stored, IsLeaf, IsExtension, IsBranch
  <2>2. CASE nibbles # <<>> /\ root' = Leaf(nibbles, value) /\ database' = database
    <3>1. IsLeaf(root') /\ root'.key = nibbles
      BY <1>3, <2>2, MadeLeaf
    <3>2. Len(nibbles) % 2 = 0
      <4>1. PICK n \in Nat : n = Len(key)
        BY <1>2
      <4> QED
        BY <1>3, <4>1
    <3>3. RootShape'
      BY <2>2, <3>1, <3>2 DEF RootShape, IsLeaf
    <3> QED
      BY <2>2, <3>3 DEF TrieInv, Stored, IsLeaf, IsExtension, IsBranch
  <2>3. CASE ExtendsLeaf(nibbles, value)
    <3>1. root.key # <<>>
      <4>1. IsLeaf(root)
        BY <2>3 DEF ExtendsLeaf
      <4> QED
        BY <4>1, EmptyIs DEF TrieInv, RootShape, IsLeaf, IsExtension
    <3> QED
      BY <1>3, <2>3, <3>1, ExtendedKeeps
  <2>4. CASE SplitsRoot(nibbles, value)
    <3>1. root.child \in database
      <4>1. IsExtension(root)
        BY <2>4 DEF SplitsRoot, SplitsAt
      <4> QED
        BY <4>1, EmptyIs DEF TrieInv, RootShape, IsLeaf, IsExtension
    <3> QED
      BY <1>3, <2>4, <3>1, RootSplitKeeps
  <2>5. CASE SplitsLeaf(nibbles, value)
    <3>1. root.key # <<>> /\ root.child \in database /\ IsBranch(root.child)
      <4>1. IsExtension(root)
        <5>1. PICK rest, leaf, prefix, kept, branch, added, inner, extension, changed :
                SplitsThis(nibbles, value, rest, leaf, prefix, kept, branch, added, inner,
                           extension, changed)
          BY <2>5 DEF SplitsLeaf
        <5> QED
          BY <5>1 DEF SplitsThis
      <4> QED
        BY <4>1, EmptyIs DEF TrieInv, RootShape, IsLeaf, IsExtension
    <3> QED
      BY <1>3, <2>5, <3>1, LeafSplitKeeps
  <2> QED
    BY <1>3, <1>4, <2>1, <2>2, <2>3, <2>4, <2>5, WaysToInsert
<1>6. inserted' \in Seq(Keys \X Values) /\ Len(inserted') = Len(inserted) + 1
  <2>1. inserted \in Seq(Keys \X Values) /\ <<key, value>> \in Keys \X Values
    BY DEF TrieInv
  <2>2. inserted' = Append(inserted, <<key, value>>)
    BY DEF Insert
  <2> QED
    BY <2>1, <2>2, AppendProperties
<1>7. calls' \in 0 .. MaxInserts /\ Len(inserted') <= calls'
  <2>1. calls \in Nat /\ calls' = calls + 1 /\ calls < MaxInserts /\ Len(inserted) <= calls
    BY TrieAssumption DEF TrieInv, Insert
  <2>2. Len(inserted) \in Nat
    BY DEF TrieInv
  <2> QED
    BY <1>6, <2>1, <2>2, TrieAssumption
<1> QED
  BY <1>5, <1>6, <1>7 DEF TrieInv

LEMMA TrieInvNext == TrieInv /\ [Next]_vars => TrieInv'
<1> SUFFICES ASSUME TrieInv, [Next]_vars PROVE TrieInv'
  OBVIOUS
<1>1. CASE \E key \in Keys, value \in Values : Insert(key, value)
  BY <1>1, InsertKeeps
<1>2. CASE \E key \in Keys, value \in Values : InsertThrows(key, value)
  <2>1. /\ UNCHANGED <<root, database, inserted>> /\ calls < MaxInserts /\ calls' = calls + 1
    BY <1>2 DEF InsertThrows
  <2>2. calls \in Nat /\ Len(inserted) \in Nat /\ Len(inserted) <= calls
    BY TrieAssumption DEF TrieInv
  <2>3. calls' \in 0 .. MaxInserts /\ Len(inserted) <= calls'
    BY <2>1, <2>2, TrieAssumption
  <2> QED
    BY <2>1, <2>3 DEF TrieInv, RootShape, Stored, IsLeaf, IsExtension, IsBranch
<1>3. CASE UNCHANGED vars
  BY <1>3 DEF vars, TrieInv, RootShape, Stored, IsLeaf, IsExtension, IsBranch
<1> QED
  BY <1>1, <1>2, <1>3 DEF Next

LEMMA TrieInvHolds == Spec => []TrieInv
  BY TrieInvInit, TrieInvNext, PTL DEF Spec


----------------------------------------------------------------------------
(* What the runs check.                                                      *)

(* The root is empty, a leaf or an extension, keys are nibbles and a branch   *)
(* has one child or two (RewriteMerklePatriciaTrie.insert).                   *)
THEOREM TrieTyped == Spec => []TypeOK
<1>1. TrieInv => TypeOK
  <2> SUFFICES ASSUME TrieInv PROVE TypeOK
    OBVIOUS
  <2>1. root.type \in {"EMPTY_NODE", "LEAF_NODE", "EXTENSION_NODE"}
    BY EmptyIs DEF TrieInv, RootShape, IsLeaf, IsExtension
  <2>2. root # Empty => root.key \in Seq(0 .. 15) /\ root.key # <<>>
    BY DEF TrieInv, RootShape, IsLeaf, IsExtension, Nibble
  <2>3. ASSUME NEW node \in database
        PROVE  /\ node.type \in {"LEAF_NODE", "EXTENSION_NODE"} => node.key \in Seq(0 .. 15)
               /\ node.type = "BRANCH_NODE" => Cardinality(DOMAIN node.children) \in 1 .. 2
    <3>1. Stored(node)
      BY DEF TrieInv
    <3> QED
      BY <3>1 DEF Stored, IsLeaf, IsExtension, IsBranch, Nibble
  <2> QED
    BY <2>1, <2>2, <2>3 DEF TypeOK, TrieInv
<1> QED
  BY <1>1, TrieInvHolds, PTL

(* Whatever was inserted, what a stored node and the root refer to is stored  *)
(* (SwapNodeHelper, mergeChanges).                                           *)
THEOREM NothingIsLost == Spec => []NothingDangles
<1>1. TrieInv => NothingDangles
  <2> SUFFICES ASSUME TrieInv, NEW node \in database \cup {root}
               PROVE  References(node) \subseteq database
    BY DEF NothingDangles
  <2>1. CASE node \in database
    <3>1. Stored(node)
      BY <2>1 DEF TrieInv
    <3> QED
      BY <3>1 DEF Stored, IsLeaf, IsExtension, IsBranch, References
  <2>2. CASE node = root
    BY <2>2, EmptyIs DEF TrieInv, RootShape, IsLeaf, IsExtension, References
  <2> QED
    BY <2>1, <2>2
<1> QED
  BY <1>1, TrieInvHolds, PTL

----------------------------------------------------------------------------
(* The key of the root in its hash.                                          *)

(* Two nibbles make a byte that is read as them.                             *)
LEMMA PairsAre ==
    ASSUME NEW s \in Seq(Int), NEW n \in Nat, Len(s) = 2 * n
    PROVE  /\ InPairs(s) = [i \in 1 .. n |-> LowByte(16 * s[2 * i - 1] + s[2 * i])]
           /\ InPairs(s) \in Seq(Byte) /\ Len(InPairs(s)) = n
<1>1. Len(s) \div 2 = n
  OBVIOUS
<1>2. InPairs(s) = [i \in 1 .. n |-> LowByte(16 * s[2 * i - 1] + s[2 * i])]
  BY <1>1 DEF InPairs
<1>3. ASSUME NEW i \in 1 .. n PROVE LowByte(16 * s[2 * i - 1] + s[2 * i]) \in Byte
  <2>1. 2 * i - 1 \in 1 .. Len(s) /\ 2 * i \in 1 .. Len(s)
    OBVIOUS
  <2>2. PICK a \in Int, b \in Int : a = s[2 * i - 1] /\ b = s[2 * i]
    BY <2>1, ElementOfSeq
  <2>3. (16 * a + b) % 256 \in Byte
    BY DEF Byte
  <2> QED
    BY <2>2, <2>3 DEF LowByte
<1>4. InPairs(s) \in [1 .. n -> Byte]
  BY <1>2, <1>3
<1> QED
  BY <1>2, <1>4

LEMMA PairIs ==
    ASSUME NEW a \in 0 .. 15, NEW b \in 0 .. 15
    PROVE  /\ (16 * a + b) % 256 = 16 * a + b
           /\ (16 * a + b) \div 16 = a /\ (16 * a + b) % 16 = b
  OBVIOUS

LEMMA PairsUnpacked ==
    ASSUME NEW s \in Seq(Nibble), NEW n \in Nat, Len(s) = 2 * n
    PROVE  ConvertBytesToNibbles(InPairs(s)) = s
<1>1. s \in Seq(Int)
  <2>1. Nibble \subseteq Int
    BY DEF Nibble
  <2> QED
    BY <2>1, SeqMonotonic
<1>2. PICK bytes \in Seq(Byte) : bytes = InPairs(s)
  BY <1>1, PairsAre
<1>3. Len(bytes) = n /\ bytes = [i \in 1 .. n |-> LowByte(16 * s[2 * i - 1] + s[2 * i])]
  BY <1>1, <1>2, PairsAre
<1>4. PICK nibbles \in Seq(Nibble) : nibbles = ConvertBytesToNibbles(bytes)
  BY NibblesAre
<1>5. /\ Len(nibbles) = 2 * n
      /\ \A i \in 1 .. n : nibbles[2 * i - 1] = bytes[i] \div 16 /\ nibbles[2 * i] = bytes[i] % 16
  BY <1>3, <1>4, NibblesAre
<1>6. ASSUME NEW i \in 1 .. n
      PROVE  nibbles[2 * i - 1] = s[2 * i - 1] /\ nibbles[2 * i] = s[2 * i]
  <2>1. 2 * i - 1 \in 1 .. Len(s) /\ 2 * i \in 1 .. Len(s)
    OBVIOUS
  <2>2. PICK a \in Nibble, b \in Nibble : a = s[2 * i - 1] /\ b = s[2 * i]
    BY <2>1, ElementOfSeq
  <2>3. a \in 0 .. 15 /\ b \in 0 .. 15
    BY DEF Nibble
  <2>4. (16 * a + b) % 256 = 16 * a + b
    BY <2>3, PairIs
  <2>5. (16 * a + b) \div 16 = a /\ (16 * a + b) % 16 = b
    BY <2>3, PairIs
  <2>6. bytes[i] = 16 * a + b
    BY <1>3, <2>2, <2>4 DEF LowByte
  <2> QED
    BY <1>5, <2>2, <2>5, <2>6
<1>7. ASSUME NEW j \in 1 .. 2 * n PROVE nibbles[j] = s[j]
  <2>1. CASE j % 2 = 1
    <3>1. PICK i \in 1 .. n : j = 2 * i - 1
      <4>1. (j + 1) \div 2 \in 1 .. n /\ j = 2 * ((j + 1) \div 2) - 1
        BY <2>1
      <4> QED
        BY <4>1
    <3> QED
      BY <1>6, <3>1
  <2>2. CASE j % 2 # 1
    <3>1. PICK i \in 1 .. n : j = 2 * i
      <4>1. j \div 2 \in 1 .. n /\ j = 2 * (j \div 2)
        BY <2>2
      <4> QED
        BY <4>1
    <3> QED
      BY <1>6, <3>1
  <2> QED
    BY <2>1, <2>2
<1>8. nibbles = s
  BY <1>5, <1>7, SeqEqual
<1> QED
  BY <1>2, <1>4, <1>8

(* A flag of a nibble or two before the key.                                 *)
LEMMA FlagUnpacked ==
    ASSUME NEW key \in Seq(Nibble), NEW flag \in Seq(Nibble), Len(flag) \in 1 .. 2,
           (Len(flag) + Len(key)) % 2 = 0, flag[1] % 2 = 1 <=> Len(flag) = 1
    PROVE  UnpackNibbles(InPairs(flag \o key)) = key
<1>1. PICK k \in Nat, m \in 1 .. 2 : k = Len(key) /\ m = Len(flag)
  OBVIOUS
<1>2. PICK n \in Nat : m + k = 2 * n
  <2>1. (m + k) \div 2 \in Nat /\ m + k = 2 * ((m + k) \div 2)
    BY <1>1
  <2> QED
    BY <2>1
<1>3. PICK s \in Seq(Nibble) : s = flag \o key
  BY ConcatProperties
<1>4. Len(s) = 2 * n /\ s[1] = flag[1]
  <2>1. /\ Len(s) = Len(flag) + Len(key)
        /\ \A i \in 1 .. Len(flag) + Len(key) :
             s[i] = IF i <= Len(flag) THEN flag[i] ELSE key[i - Len(flag)]
    BY <1>3, ConcatProperties
  <2>2. 1 \in 1 .. m + k /\ 1 <= m
    BY <1>1
  <2> QED
    BY <1>1, <1>2, <2>1, <2>2
<1>5. ConvertBytesToNibbles(InPairs(s)) = s
  BY <1>4, PairsUnpacked
<1>6. After(s, m) = key
  <2>1. SubSeq(flag \o key, m + 1, m + k) = key
    BY <1>1, PartsOfConcat
  <2> QED
    BY <1>2, <1>3, <1>4, <2>1 DEF After
<1>7. (IF s[1] % 2 = 1 THEN 1 ELSE 2) = m
  BY <1>1, <1>4
<1> QED
  BY <1>3, <1>5, <1>6, <1>7 DEF UnpackNibbles

(* 0x20 after a zero, or two nibbles of the flag.                            *)
LEMMA SamePairs ==
    ASSUME NEW key \in Seq(Nibble), Len(key) % 2 = 0
    PROVE  InPairs(<<0, 32>> \o key) = InPairs(<<2, 0>> \o key)
<1>1. key \in Seq(Int)
  <2>1. Nibble \subseteq Int
    BY DEF Nibble
  <2> QED
    BY <2>1, SeqMonotonic
<1>2. PICK k \in Nat : k = Len(key)
  OBVIOUS
<1>3. PICK n \in Nat : 2 + k = 2 * n
  <2>1. (2 + k) \div 2 \in Nat /\ 2 + k = 2 * ((2 + k) \div 2)
    BY <1>2
  <2> QED
    BY <2>1
<1>4. PICK f, g : f = <<0, 32>> /\ g = <<2, 0>>
  OBVIOUS
<1>5. /\ f \in Seq(Int) /\ Len(f) = 2 /\ f[1] = 0 /\ f[2] = 32
      /\ g \in Seq(Int) /\ Len(g) = 2 /\ g[1] = 2 /\ g[2] = 0
  BY <1>4
<1>6. PICK s, t : s = f \o key /\ t = g \o key
  OBVIOUS
<1>7. /\ s \in Seq(Int) /\ Len(s) = 2 * n /\ t \in Seq(Int) /\ Len(t) = 2 * n
      /\ s[1] = 0 /\ s[2] = 32 /\ t[1] = 2 /\ t[2] = 0
      /\ \A i \in 3 .. 2 * n : s[i] = t[i]
  <2>1. /\ s \in Seq(Int) /\ Len(s) = Len(f) + Len(key)
        /\ \A i \in 1 .. Len(f) + Len(key) : s[i] = IF i <= Len(f) THEN f[i] ELSE key[i - Len(f)]
    BY <1>1, <1>5, <1>6, ConcatProperties
  <2>2. /\ t \in Seq(Int) /\ Len(t) = Len(g) + Len(key)
        /\ \A i \in 1 .. Len(g) + Len(key) : t[i] = IF i <= Len(g) THEN g[i] ELSE key[i - Len(g)]
    BY <1>1, <1>5, <1>6, ConcatProperties
  <2> QED
    BY <1>2, <1>3, <1>5, <2>1, <2>2
<1>8. ASSUME NEW i \in 1 .. n
      PROVE  LowByte(16 * s[2 * i - 1] + s[2 * i]) = LowByte(16 * t[2 * i - 1] + t[2 * i])
  <2>1. CASE i = 1
    <3>1. s[2 * i - 1] = 0 /\ s[2 * i] = 32 /\ t[2 * i - 1] = 2 /\ t[2 * i] = 0
      BY <1>7, <2>1
    <3> QED
      BY <3>1 DEF LowByte
  <2>2. CASE i # 1
    <3>1. 2 * i - 1 \in 3 .. 2 * n /\ 2 * i \in 3 .. 2 * n
      BY <2>2
    <3> QED
      BY <1>7, <3>1
  <2> QED
    BY <2>1, <2>2
<1>9. /\ InPairs(s) = [i \in 1 .. n |-> LowByte(16 * s[2 * i - 1] + s[2 * i])]
      /\ InPairs(t) = [i \in 1 .. n |-> LowByte(16 * t[2 * i - 1] + t[2 * i])]
  BY <1>7, PairsAre
<1>10. InPairs(s) = InPairs(t)
  BY <1>8, <1>9
<1> QED
  BY <1>4, <1>6, <1>10

LEMMA LeafKeyPacked ==
    ASSUME NEW key \in Seq(Nibble), Len(key) % 2 = 0
    PROVE  /\ EncodeNibbles(key, TRUE) = PackNibbles(AddTerminator(key))
           /\ UnpackNibbles(EncodeNibbles(key, TRUE)) = key
<1>1. OddLength(key) = 0
  BY DEF OddLength
<1>2. EncodeNibbles(key, TRUE) = InPairs(<<0, 32>> \o key)
  <2>1. 0 + 32 = 32
    OBVIOUS
  <2> QED
    BY <1>1, <2>1 DEF EncodeNibbles
<1>3. PICK long : long = AddTerminator(key)
  OBVIOUS
<1>4. long # <<>> /\ Last(long) = Terminator /\ Front(long) = key
  <2>1. key \in Seq(Int) /\ Terminator \in Int
    <3>1. Nibble \subseteq Int /\ Terminator \in Int
      BY DEF Nibble, Terminator
    <3> QED
      BY <3>1, SeqMonotonic
  <2>2. /\ long \in Seq(Int) /\ Len(long) = Len(key) + 1 /\ long[Len(key) + 1] = Terminator
        /\ \A i \in 1 .. Len(key) : long[i] = key[i]
    BY <1>3, <2>1, AppendProperties DEF AddTerminator
  <2>3. Len(key) \in Nat
    OBVIOUS
  <2>4. SubSeq(long, 1, Len(long) - 1) = key
    <3>1. Len(long) - 1 = Len(key) /\ Len(key) \in 0 .. Len(long)
      BY <2>2, <2>3
    <3>2. /\ SubSeq(long, 1, Len(key)) \in Seq(Int) /\ Len(SubSeq(long, 1, Len(key))) = Len(key)
          /\ \A i \in 1 .. Len(key) : SubSeq(long, 1, Len(key))[i] = long[i]
      BY <2>2, <3>1, UpToIs
    <3> QED
      BY <2>1, <2>2, <3>1, <3>2, SeqEqual
  <2> QED
    BY <2>2, <2>3, <2>4, EmptySeq DEF Last, Front
<1>5. PackNibbles(long) = InPairs(<<2, 0>> \o key)
  <2>1. 2 + 0 = 2
    OBVIOUS
  <2> QED
    BY <1>1, <1>4, <2>1 DEF PackNibbles
<1>6. UnpackNibbles(InPairs(<<2, 0>> \o key)) = key
  <2>1. PICK flag : flag = <<2, 0>>
    OBVIOUS
  <2>2. flag \in Seq(Nibble) /\ Len(flag) = 2 /\ flag[1] = 2
    BY <2>1 DEF Nibble
  <2>3. (Len(flag) + Len(key)) % 2 = 0 /\ (flag[1] % 2 = 1 <=> Len(flag) = 1)
    <3>1. (2 + Len(key)) % 2 = 0 /\ 2 % 2 # 1
      OBVIOUS
    <3> QED
      BY <2>2, <3>1
  <2>4. Len(flag) \in 1 .. 2
    BY <2>2
  <2>5. UnpackNibbles(InPairs(flag \o key)) = key
    BY <2>2, <2>3, <2>4, FlagUnpacked
  <2> QED
    BY <2>1, <2>5
<1> QED
  BY <1>2, <1>3, <1>5, <1>6, SamePairs

LEMMA ExtensionKeyPacked ==
    ASSUME NEW key \in Seq(Nibble), key # <<>>
    PROVE  /\ EncodeNibbles(key, FALSE) = PackNibbles(key)
           /\ UnpackNibbles(EncodeNibbles(key, FALSE)) = key
<1>1. Last(key) # Terminator
  <2>1. Len(key) \in 1 .. Len(key)
    BY EmptySeq
  <2>2. key[Len(key)] \in Nibble
    BY <2>1, ElementOfSeq
  <2> QED
    BY <2>2 DEF Last, Terminator, Nibble
<1>2. CASE OddLength(key) = 1
  <2>1. 1 + 0 = 1 /\ 0 + 1 = 1
    OBVIOUS
  <2>2. EncodeNibbles(key, FALSE) = InPairs(<<1>> \o key)
    BY <1>2, <2>1 DEF EncodeNibbles
  <2>3. PackNibbles(key) = InPairs(<<1>> \o key)
    BY <1>1, <1>2, <2>1 DEF PackNibbles
  <2>4. PICK flag : flag = <<1>>
    OBVIOUS
  <2>5. flag \in Seq(Nibble) /\ Len(flag) = 1 /\ flag[1] = 1
    BY <2>4 DEF Nibble
  <2>6. (Len(flag) + Len(key)) % 2 = 0 /\ (flag[1] % 2 = 1 <=> Len(flag) = 1)
    <3>1. (1 + Len(key)) % 2 = 0 /\ 1 % 2 = 1
      BY <1>2 DEF OddLength
    <3> QED
      BY <2>5, <3>1
  <2>7. UnpackNibbles(InPairs(<<1>> \o key)) = key
    <3>1. Len(flag) \in 1 .. 2
      BY <2>5
    <3>2. UnpackNibbles(InPairs(flag \o key)) = key
      BY <2>5, <2>6, <3>1, FlagUnpacked
    <3> QED
      BY <2>4, <3>2
  <2> QED
    BY <2>2, <2>3, <2>7
<1>3. CASE OddLength(key) # 1
  <2>1. OddLength(key) = 0 /\ 0 + 0 = 0
    BY <1>3 DEF OddLength
  <2>2. EncodeNibbles(key, FALSE) = InPairs(<<0, 0>> \o key)
    BY <2>1 DEF EncodeNibbles
  <2>3. PackNibbles(key) = InPairs(<<0, 0>> \o key)
    BY <1>1, <2>1 DEF PackNibbles
  <2>4. PICK flag : flag = <<0, 0>>
    OBVIOUS
  <2>5. flag \in Seq(Nibble) /\ Len(flag) = 2 /\ flag[1] = 0
    BY <2>4 DEF Nibble
  <2>6. (Len(flag) + Len(key)) % 2 = 0 /\ (flag[1] % 2 = 1 <=> Len(flag) = 1)
    <3>1. (2 + Len(key)) % 2 = 0 /\ 0 % 2 # 1
      BY <2>1 DEF OddLength
    <3> QED
      BY <2>5, <3>1
  <2>7. UnpackNibbles(InPairs(<<0, 0>> \o key)) = key
    <3>1. Len(flag) \in 1 .. 2
      BY <2>5
    <3>2. UnpackNibbles(InPairs(flag \o key)) = key
      BY <2>5, <2>6, <3>1, FlagUnpacked
    <3> QED
      BY <2>4, <3>2
  <2> QED
    BY <2>2, <2>3, <2>7
<1> QED
  BY <1>2, <1>3

(* The key of the root is packed in its hash as the Yellow Paper has it, and  *)
(* is unpacked as it was (Node.hash, packNibbles, unpackNibbles).            *)
THEOREM RootIsPacked == Spec => []RootKeyPacked
<1>1. TrieInv => RootKeyPacked
  <2> SUFFICES ASSUME TrieInv, root # Empty PROVE RootKeyPacked
    BY DEF RootKeyPacked
  <2>1. CASE IsLeaf(root) /\ Len(root.key) % 2 = 0
    <3>1. root.type = "LEAF_NODE" /\ root.key \in Seq(Nibble)
      BY <2>1 DEF IsLeaf
    <3> QED
      BY <2>1, <3>1, LeafKeyPacked DEF RootKeyPacked
  <2>2. CASE IsExtension(root) /\ root.key # <<>>
    <3>1. root.type = "EXTENSION_NODE" /\ root.key \in Seq(Nibble)
      BY <2>2 DEF IsExtension
    <3> QED
      BY <2>2, <3>1, ExtensionKeyPacked DEF RootKeyPacked
  <2> QED
    BY <2>1, <2>2 DEF TrieInv, RootShape
<1> QED
  BY <1>1, TrieInvHolds, PTL

----------------------------------------------------------------------------
(* Reading.  The turns of traverse's loop from a place to the node it stops  *)
(* at, none of which finds nothing.                                          *)

Settled(place) == place.key = <<>> \/ place.node.type = "LEAF_NODE"

Passes(nodes, place, next) ==
    ~Settled(place) /\ next = Step(nodes, place) /\ next # At(Lost, <<>>)

IsPath(nodes, place, path, n) ==
    path[0] = place /\ \A i \in 1 .. n : Passes(nodes, path[i - 1], path[i])

EndsWith(place, value) ==
    /\ Settled(place) /\ place.node.type \in {"LEAF_NODE", "BRANCH_NODE"}
    /\ place.node.value = value

Leads(nodes, place, value) ==
    \E n \in Nat : \E path : IsPath(nodes, place, path, n) /\ EndsWith(path[n], value)

LEMMA PlaceIs ==
    ASSUME NEW node, NEW key
    PROVE  At(node, key).node = node /\ At(node, key).key = key
  BY DEF At

LEMMA LeadsHere ==
    ASSUME NEW nodes, NEW place, NEW value, EndsWith(place, value)
    PROVE  Leads(nodes, place, value)
<1>1. PICK path : path = [i \in {0} |-> place]
  OBVIOUS
<1>2. IsPath(nodes, place, path, 0) /\ EndsWith(path[0], value)
  BY <1>1 DEF IsPath
<1> QED
  BY <1>2 DEF Leads

LEMMA LeadsOn ==
    ASSUME NEW nodes, NEW place, NEW next, NEW value, Passes(nodes, place, next)
    PROVE  Leads(nodes, place, value) <=> Leads(nodes, next, value)
<1>1. ASSUME Leads(nodes, next, value) PROVE Leads(nodes, place, value)
  <2>0. PICK n \in Nat : \E p : IsPath(nodes, next, p, n) /\ EndsWith(p[n], value)
    BY <1>1 DEF Leads
  <2>1. PICK p : IsPath(nodes, next, p, n) /\ EndsWith(p[n], value)
    BY <2>0
  <2>2. PICK path : path = [i \in 0 .. n + 1 |-> IF i = 0 THEN place ELSE p[i - 1]]
    OBVIOUS
  <2>3. path[0] = place /\ path[n + 1] = p[n]
    BY <2>2
  <2>4. ASSUME NEW i \in 1 .. n + 1 PROVE Passes(nodes, path[i - 1], path[i])
    <3>1. CASE i = 1
      <4>1. path[1] = p[0]
        BY <2>2, <3>1
      <4> QED
        BY <2>1, <2>3, <3>1, <4>1 DEF IsPath
    <3>2. CASE i # 1
      <4>1. PICK j \in 1 .. n : i = j + 1
        <5>1. i - 1 \in 1 .. n /\ i = (i - 1) + 1
          BY <3>2
        <5> QED
          BY <5>1
      <4>2. path[i] = p[j] /\ path[i - 1] = p[j - 1]
        BY <2>2, <4>1
      <4> QED
        BY <2>1, <4>1, <4>2 DEF IsPath
    <3> QED
      BY <3>1, <3>2
  <2>5. IsPath(nodes, place, path, n + 1) /\ EndsWith(path[n + 1], value)
    BY <2>1, <2>3, <2>4 DEF IsPath
  <2> QED
    BY <2>5 DEF Leads
<1>2. ASSUME Leads(nodes, place, value) PROVE Leads(nodes, next, value)
  <2>0. PICK n \in Nat : \E p : IsPath(nodes, place, p, n) /\ EndsWith(p[n], value)
    BY <1>2 DEF Leads
  <2>1. PICK p : IsPath(nodes, place, p, n) /\ EndsWith(p[n], value)
    BY <2>0
  <2>2. n # 0
    BY <2>1 DEF IsPath, Passes, EndsWith
  <2>3. PICK m \in Nat : n = m + 1
    <3>1. n - 1 \in Nat /\ n = (n - 1) + 1
      BY <2>2
    <3> QED
      BY <3>1
  <2>4. PICK path : path = [i \in 0 .. m |-> p[i + 1]]
    OBVIOUS
  <2>5. path[0] = next
    <3>1. Passes(nodes, p[1 - 1], p[1]) /\ p[0] = place /\ path[0] = p[1]
      BY <2>1, <2>3, <2>4 DEF IsPath
    <3> QED
      BY <3>1 DEF Passes
  <2>6. ASSUME NEW i \in 1 .. m PROVE Passes(nodes, path[i - 1], path[i])
    <3>1. i + 1 \in 1 .. n /\ (i + 1) - 1 = i
      BY <2>3
    <3>2. path[i] = p[i + 1] /\ path[i - 1] = p[i]
      BY <2>4
    <3>3. Passes(nodes, p[(i + 1) - 1], p[i + 1])
      BY <2>1, <3>1 DEF IsPath
    <3> QED
      BY <3>1, <3>2, <3>3
  <2>7. IsPath(nodes, next, path, m) /\ EndsWith(path[m], value)
    BY <2>1, <2>3, <2>4, <2>5, <2>6 DEF IsPath
  <2> QED
    BY <2>7 DEF Leads
<1> QED
  BY <1>1, <1>2

(* What is stored later does not get in the way.                             *)
LEMMA LeadsMore ==
    ASSUME NEW nodes, NEW more, nodes \subseteq more, NEW place, NEW value,
           Leads(nodes, place, value)
    PROVE  Leads(more, place, value)
<1>0. PICK n \in Nat : \E p : IsPath(nodes, place, p, n) /\ EndsWith(p[n], value)
  BY DEF Leads
<1>1. PICK p : IsPath(nodes, place, p, n) /\ EndsWith(p[n], value)
  BY <1>0
<1>2. ASSUME NEW here, NEW next, Passes(nodes, here, next) PROVE Passes(more, here, next)
  <2>1. Step(more, here) = Step(nodes, here)
    <3>1. Step(nodes, here) # At(Lost, <<>>) /\ ~Settled(here)
      BY <1>2 DEF Passes
    <3>2. CASE here.node.type = "BRANCH_NODE"
      BY <3>1, <3>2 DEF Step, Settled
    <3>3. CASE here.node.type = "EXTENSION_NODE"
      BY <3>1, <3>3 DEF Step, Settled
    <3>4. CASE here.node.type \notin {"BRANCH_NODE", "EXTENSION_NODE"}
      BY <3>1, <3>4 DEF Step, Settled
    <3> QED
      BY <3>2, <3>3, <3>4
  <2> QED
    BY <1>2, <2>1 DEF Passes
<1>3. IsPath(more, place, p, n)
  BY <1>1, <1>2 DEF IsPath
<1> QED
  BY <1>1, <1>3 DEF Leads

IsNode(node) == IsLeaf(node) \/ IsExtension(node) \/ IsBranch(node)

IsPlace(place) ==
    /\ place.key \in Seq(Nibble)
    /\ place.node.type = "EXTENSION_NODE" => place.node.key \in Seq(Nibble)

LEMMA LoadedNode ==
    ASSUME NEW node, IsNode(node)
    PROVE  /\ Load(node).type \in {"LEAF_NODE", "EXTENSION_NODE", "BRANCH_NODE"}
           /\ Load(node).type = "EXTENSION_NODE" => Load(node).key \in Seq(Nibble)
<1>1. CASE IsLeaf(node)
  <2>1. KeyReread(node.key) \in Seq(Nibble)
    BY <1>1, KeyIsReread DEF IsLeaf
  <2> QED
    BY <1>1, <2>1, LoadedLeaf DEF Extension
<1>2. CASE IsExtension(node)
  <2>1. KeyReread(node.key) \in Seq(Nibble)
    BY <1>2, KeyIsReread DEF IsExtension
  <2> QED
    BY <1>2, <2>1, LoadedExtension DEF Extension
<1>3. CASE IsBranch(node)
  BY <1>3, LoadedBranch
<1> QED
  BY <1>1, <1>2, <1>3 DEF IsNode

(* What is left of a key that is not over when some nibbles are taken.       *)
LEMMA AfterShrinks ==
    ASSUME NEW key \in Seq(Nibble), key # <<>>, NEW n \in Nat, n >= 1
    PROVE  After(key, n) \in Seq(Nibble) /\ Len(After(key, n)) < Len(key)
<1>1. Len(key) \in Nat /\ Len(key) # 0
  OBVIOUS
<1>2. CASE n <= Len(key)
  <2>1. n \in 0 .. Len(key)
    BY <1>1, <1>2
  <2>2. After(key, n) \in Seq(Nibble) /\ Len(After(key, n)) = Len(key) - n
    BY <2>1, AfterIs
  <2> QED
    BY <1>1, <2>2
<1>3. CASE n > Len(key)
  <2>1. SubSeq(key, n + 1, Len(key)) = <<>>
    BY <1>1, <1>3, SubSeqEmpty
  <2> QED
    BY <1>1, <2>1, EmptySeq DEF After
<1> QED
  BY <1>1, <1>2, <1>3

(* A turn takes a nibble or more.                                            *)
LEMMA PassingShrinks ==
    ASSUME NEW nodes, \A node \in nodes : IsNode(node),
           NEW place, IsPlace(place), NEW next, Passes(nodes, place, next)
    PROVE  IsPlace(next) /\ Len(next.key) < Len(place.key)
<1>1. ~Settled(place) /\ next = Step(nodes, place) /\ next # At(Lost, <<>>)
  BY DEF Passes
<1>2. place.key \in Seq(Nibble) /\ place.key # <<>>
  BY <1>1 DEF IsPlace, Settled
<1>3. ASSUME NEW node \in nodes, NEW n \in Nat, n >= 1,
             next = At(Load(node), After(place.key, n))
      PROVE  IsPlace(next) /\ Len(next.key) < Len(place.key)
  <2>1. next.node = Load(node) /\ next.key = After(place.key, n)
    BY <1>3, PlaceIs
  <2>2. next.node.type = "EXTENSION_NODE" => next.node.key \in Seq(Nibble)
    BY <2>1, LoadedNode
  <2> QED
    BY <1>2, <1>3, <2>1, <2>2, AfterShrinks DEF IsPlace
<1>4. CASE place.node.type = "BRANCH_NODE"
  <2>1. /\ place.node.children[place.key[1]] \in nodes
        /\ next = At(Load(place.node.children[place.key[1]]), Tail(place.key))
    BY <1>1, <1>4 DEF Step, Settled
  <2>2. Tail(place.key) = After(place.key, 1)
    BY <1>2, AfterOne
  <2> QED
    BY <1>3, <2>1, <2>2
<1>5. CASE place.node.type = "EXTENSION_NODE"
  <2>1. PICK n : n = IF place.node.key = <<>> THEN 1 ELSE Len(place.node.key)
    OBVIOUS
  <2>2. place.node.child \in nodes /\ next = At(Load(place.node.child), After(place.key, n))
    BY <1>1, <1>5, <2>1 DEF Step, Settled
  <2>3. n \in Nat /\ n >= 1
    BY <1>5, <2>1 DEF IsPlace
  <2> QED
    BY <1>3, <2>2, <2>3
<1>6. place.node.type \in {"BRANCH_NODE", "EXTENSION_NODE"}
  BY <1>1 DEF Step, Settled
<1> QED
  BY <1>4, <1>5, <1>6

(* traverse comes to where its turns lead, and stays.                        *)
LEMMA LeadsReads ==
    ASSUME NEW nodes, \A node \in nodes : IsNode(node), NEW place, IsPlace(place),
           NEW value, Leads(nodes, place, value)
    PROVE  ValueOf(Walk(nodes, place)[Len(place.key)].node) = value
<1>0. PICK n \in Nat : \E p : IsPath(nodes, place, p, n) /\ EndsWith(p[n], value)
  BY DEF Leads
<1>1. PICK p : IsPath(nodes, place, p, n) /\ EndsWith(p[n], value)
  BY <1>0
<1>2. PICK length \in Nat : length = Len(place.key)
  BY DEF IsPlace
<1>3. n <= length
  <2> DEFINE Short(i) == i <= n => IsPlace(p[i]) /\ Len(p[i].key) + i <= length
             T == {i \in Nat : Short(i)}
  <2>1. Short(0)
    BY <1>1, <1>2 DEF IsPath
  <2>2. ASSUME NEW i \in Nat, Short(i) PROVE Short(i + 1)
    <3> SUFFICES ASSUME i + 1 <= n
                 PROVE  IsPlace(p[i + 1]) /\ Len(p[i + 1].key) + (i + 1) <= length
      OBVIOUS
    <3>1. IsPlace(p[i]) /\ Len(p[i].key) + i <= length
      BY <2>2
    <3>2. i + 1 \in 1 .. n /\ (i + 1) - 1 = i
      OBVIOUS
    <3>3. Passes(nodes, p[(i + 1) - 1], p[i + 1])
      BY <1>1, <3>2 DEF IsPath
    <3>4. IsPlace(p[i + 1]) /\ Len(p[i + 1].key) < Len(p[i].key)
      BY <3>1, <3>2, <3>3, PassingShrinks
    <3>5. PICK a \in Nat, b \in Nat : a = Len(p[i + 1].key) /\ b = Len(p[i].key)
      BY <3>1, <3>4 DEF IsPlace
    <3>6. a < b /\ b + i <= length
      BY <3>1, <3>4, <3>5, Zenon
    <3>7. a + (i + 1) <= length
      BY <3>6
    <3> QED
      BY <3>4, <3>5, <3>7, Zenon
  <2>3. Short(n)
    <3> HIDE DEF Short
    <3>1. T \in SUBSET Nat /\ 0 \in T /\ \A i \in T : i + 1 \in T
      BY <2>1, <2>2
    <3> HIDE DEF T
    <3>2. T = Nat
      BY <3>1, SetInduction
    <3> QED
      BY <3>2 DEF T
  <2>4. IsPlace(p[n]) /\ Len(p[n].key) + n <= length
    BY <2>3
  <2>5. Len(p[n].key) \in Nat
    BY <2>4 DEF IsPlace
  <2> QED
    BY <1>2, <2>4, <2>5
<1> DEFINE Turns(walk) ==
             [i \in 0 .. length |-> IF i = 0 THEN place ELSE Step(nodes, walk[i - 1])]
           IsWalk(walk) == walk = Turns(walk)
<1>4. PICK q : q = [i \in 0 .. length |-> IF i <= n THEN p[i] ELSE p[n]]
  OBVIOUS
<1>5. ASSUME NEW i \in 0 .. length
      PROVE  q[i] = IF i = 0 THEN place ELSE Step(nodes, q[i - 1])
  <2>1. CASE i = 0
    BY <1>1, <1>4, <2>1 DEF IsPath
  <2>2. CASE i # 0 /\ i <= n
    <3>1. q[i] = p[i] /\ q[i - 1] = p[i - 1] /\ i \in 1 .. n
      BY <1>3, <1>4, <2>2
    <3>2. Passes(nodes, p[i - 1], p[i])
      BY <1>1, <3>1 DEF IsPath
    <3> QED
      BY <2>2, <3>1, <3>2 DEF Passes
  <2>3. CASE i # 0 /\ i > n
    <3>1. i - 1 \in 0 .. length /\ i - 1 >= n
      BY <2>3
    <3>2. q[i] = p[n] /\ q[i - 1] = p[n]
      BY <1>4, <2>3, <3>1
    <3>3. Step(nodes, p[n]) = p[n]
      BY <1>1 DEF EndsWith, Settled, Step
    <3> QED
      BY <2>3, <3>2, <3>3
  <2> QED
    BY <2>1, <2>2, <2>3
<1>6. IsWalk(q)
  <2>1. PICK g : g = Turns(q)
    OBVIOUS
  <2>2. \A i \in 0 .. length : g[i] = q[i]
    BY <1>5, <2>1
  <2>3. q = [i \in 0 .. length |-> q[i]]
    BY <1>4
  <2>4. g = [i \in 0 .. length |-> g[i]]
    BY <2>1
  <2>5. g = q
    BY <2>2, <2>3, <2>4, Zenon
  <2> QED
    BY <2>1, <2>5
<1>7. Walk(nodes, place) = CHOOSE walk : IsWalk(walk)
  BY <1>2 DEF Walk
<1>8. PICK w : w = Walk(nodes, place)
  OBVIOUS
<1>9. IsWalk(w)
  <2> HIDE DEF IsWalk
  <2> QED
    BY <1>6, <1>7, <1>8
<1>10. \A i \in 0 .. length : w[i] = IF i = 0 THEN place ELSE Step(nodes, w[i - 1])
  <2>1. PICK g : g = Turns(w)
    OBVIOUS
  <2>2. g = w
    BY <1>9, <2>1
  <2>3. \A i \in 0 .. length : g[i] = IF i = 0 THEN place ELSE Step(nodes, w[i - 1])
    BY <2>1
  <2> QED
    BY <2>2, <2>3
<1> HIDE DEF IsWalk, Turns
<1>11. w[length] = q[length]
  <2> DEFINE T == {i \in Nat : i <= length => w[i] = q[i]}
  <2>1. 0 \in T
    BY <1>5, <1>10
  <2>2. ASSUME NEW i \in T PROVE i + 1 \in T
    <3> SUFFICES ASSUME i + 1 <= length PROVE w[i + 1] = q[i + 1]
      OBVIOUS
    <3>1. i \in Nat /\ w[i] = q[i]
      OBVIOUS
    <3>2. i + 1 \in 0 .. length /\ i + 1 # 0 /\ (i + 1) - 1 = i
      BY <3>1
    <3> QED
      BY <1>5, <1>10, <3>1, <3>2
  <2>3. T = Nat
    <3> HIDE DEF T
    <3>1. T \in SUBSET Nat
      BY DEF T
    <3> QED
      BY <2>1, <2>2, <3>1, SetInduction
  <2> QED
    BY <2>3
<1>12. q[length] = p[n]
  BY <1>3, <1>4
<1> QED
  BY <1>1, <1>2, <1>8, <1>11, <1>12 DEF EndsWith, ValueOf
(* The turns from each kind of node.                                         *)
LEMMA RootPasses ==
    ASSUME NEW nodes, NEW node, IsExtension(node), node.key # <<>>, node.child \in nodes,
           IsNode(node.child), NEW key, key # <<>>
    PROVE  Passes(nodes, At(node, key), At(Load(node.child), After(key, Len(node.key))))
<1>1. Load(node.child).type # "UNKNOWN"
  BY LoadedNode
<1>2. At(Load(node.child), After(key, Len(node.key))) # At(Lost, <<>>)
  BY <1>1 DEF At, Lost
<1>3. node.type = "EXTENSION_NODE"
  BY DEF IsExtension
<1>4. Step(nodes, At(node, key)) = At(Load(node.child), After(key, Len(node.key)))
  BY <1>3, PlaceIs DEF Step
<1>5. ~Settled(At(node, key))
  BY <1>3, PlaceIs DEF Settled
<1> QED
  BY <1>2, <1>4, <1>5 DEF Passes

(* An extension that was stored has its key, or passes for the one nibble    *)
(* that its key was.                                                         *)
LEMMA ExtensionPasses ==
    ASSUME NEW nodes, NEW node, IsExtension(node), node.key # <<>>, node.child \in nodes,
           IsNode(node.child), NEW key, key # <<>>
    PROVE  Passes(nodes, At(Load(node), key),
                  At(Load(node.child), After(key, Len(node.key))))
<1>1. PICK k : k = KeyReread(node.key)
  OBVIOUS
<1>2. /\ node.key \in Seq(Nibble)
      /\ k = IF Len(node.key) >= 2 THEN node.key ELSE <<>>
  BY <1>1, KeyIsReread DEF IsExtension
<1>3. (IF k = <<>> THEN 1 ELSE Len(k)) = Len(node.key)
  <2>1. PICK n \in Nat : n = Len(node.key)
    BY <1>2
  <2>2. n # 0
    BY <1>2, <2>1
  <2>3. CASE n >= 2
    BY <1>2, <2>1, <2>3
  <2>4. CASE n = 1
    <3>1. ~(n >= 2)
      BY <2>4
    <3>2. k = <<>>
      BY <1>2, <2>1, <3>1
    <3> QED
      BY <2>1, <2>4, <3>2
  <2> QED
    BY <2>2, <2>3, <2>4
<1>4. Load(node) = Extension(k, node.child)
  BY <1>1, LoadedExtension
<1>5. /\ Load(node).type = "EXTENSION_NODE" /\ Load(node).key = k
      /\ Load(node).child = node.child
  BY <1>4 DEF Extension
<1>6. Step(nodes, At(Load(node), key)) = At(Load(node.child), After(key, Len(node.key)))
  BY <1>3, <1>5, PlaceIs DEF Step
<1>7. At(Load(node.child), After(key, Len(node.key))) # At(Lost, <<>>)
  <2>1. Load(node.child).type # "UNKNOWN"
    BY LoadedNode
  <2> QED
    BY <2>1 DEF At, Lost
<1>8. ~Settled(At(Load(node), key))
  BY <1>5, PlaceIs DEF Settled
<1> QED
  BY <1>6, <1>7, <1>8 DEF Passes

LEMMA BranchPasses ==
    ASSUME NEW nodes, NEW node, IsBranch(node), NEW key, key # <<>>,
           key[1] \in DOMAIN node.children, NEW child, child = node.children[key[1]],
           child \in nodes, IsNode(child)
    PROVE  Passes(nodes, At(Load(node), key), At(Load(child), Tail(key)))
<1>1. Load(node).type = "BRANCH_NODE" /\ Load(node).children = node.children
  BY LoadedBranch
<1>2. Step(nodes, At(Load(node), key)) = At(Load(child), Tail(key))
  BY <1>1, PlaceIs DEF Step
<1>3. At(Load(child), Tail(key)) # At(Lost, <<>>)
  <2>1. Load(child).type # "UNKNOWN"
    BY LoadedNode
  <2> QED
    BY <2>1 DEF At, Lost
<1>4. ~Settled(At(Load(node), key))
  BY <1>1, PlaceIs DEF Settled
<1> QED
  BY <1>2, <1>3, <1>4 DEF Passes

(* A leaf and the branch a key ends at.                                      *)
LEMMA LeafEnds ==
    ASSUME NEW key, NEW value \in Seq(Byte), ValueSurvives(value), NEW rest, NEW nodes
    PROVE  Leads(nodes, At(Load(Leaf(key, value)), rest), value)
<1>1. Load(Leaf(key, value)) = TwoItems(KeyReread(key), Reread(value))
  BY DEF Load, Leaf
<1>2. Load(Leaf(key, value)) = Leaf(KeyReread(key), value)
  BY <1>1, ValueIsReread
<1>3. EndsWith(At(Load(Leaf(key, value)), rest), value)
  BY <1>2, PlaceIs DEF EndsWith, Settled, Leaf
<1> QED
  BY <1>3, LeadsHere

LEMMA BranchIsReread ==
    ASSUME NEW children, NEW value \in Seq(Byte), ValueSurvives(value)
    PROVE  Load(Branch(children, value)) = Branch(children, value)
<1>1. Load(Branch(children, value)) = SeventeenItems(children, Reread(value))
  BY DEF Load, Branch
<1> QED
  BY <1>1, ValueIsReread

LEMMA BranchEnds ==
    ASSUME NEW children, NEW value \in Seq(Byte), ValueSurvives(value), NEW nodes
    PROVE  Leads(nodes, At(Load(Branch(children, value)), <<>>), value)
<1>1. Load(Branch(children, value)) = Branch(children, value)
  BY BranchIsReread
<1>2. EndsWith(At(Load(Branch(children, value)), <<>>), value)
  BY <1>1, PlaceIs DEF EndsWith, Settled, Branch
<1> QED
  BY <1>2, LeadsHere

----------------------------------------------------------------------------
(* Parts of keys.                                                            *)

Begins(prefix, key) ==
    Len(prefix) <= Len(key) /\ SubSeq(key, 1, Len(prefix)) = prefix

LEMMA BeginsEqually ==
    ASSUME NEW prefix \in Seq(Nibble), NEW key \in Seq(Nibble), Begins(prefix, key),
           NEW i \in 1 .. Len(prefix)
    PROVE  key[i] = prefix[i]
<1>1. Len(prefix) \in 0 .. Len(key)
  BY DEF Begins
<1>2. SubSeq(key, 1, Len(prefix))[i] = key[i]
  BY <1>1, UpToIs
<1> QED
  BY <1>2 DEF Begins

LEMMA AfterAfter ==
    ASSUME NEW key \in Seq(Nibble), NEW a \in Nat, NEW b \in Nat, a + b <= Len(key)
    PROVE  After(After(key, a), b) = After(key, a + b)
<1>1. a \in 0 .. Len(key) /\ a + b \in 0 .. Len(key) /\ Len(key) \in Nat
  OBVIOUS
<1>2. PICK rest : rest = After(key, a)
  OBVIOUS
<1>3. /\ rest \in Seq(Nibble) /\ Len(rest) = Len(key) - a
      /\ \A i \in 1 .. Len(key) - a : rest[i] = key[a + i]
  BY <1>1, <1>2, AfterIs
<1>4. b \in 0 .. Len(rest)
  BY <1>1, <1>3
<1>5. /\ After(rest, b) \in Seq(Nibble) /\ Len(After(rest, b)) = Len(rest) - b
      /\ \A i \in 1 .. Len(rest) - b : After(rest, b)[i] = rest[b + i]
  BY <1>3, <1>4, AfterIs
<1>6. /\ After(key, a + b) \in Seq(Nibble) /\ Len(After(key, a + b)) = Len(key) - (a + b)
      /\ \A i \in 1 .. Len(key) - (a + b) : After(key, a + b)[i] = key[(a + b) + i]
  BY <1>1, AfterIs
<1>7. Len(rest) - b = Len(key) - (a + b)
  BY <1>1, <1>3
<1>8. ASSUME NEW i \in 1 .. Len(key) - (a + b)
      PROVE  After(rest, b)[i] = After(key, a + b)[i]
  <2>1. b + i \in 1 .. Len(key) - a /\ a + (b + i) = (a + b) + i
    BY <1>1
  <2> QED
    BY <1>3, <1>5, <1>6, <1>7, <2>1
<1>9. After(rest, b) = After(key, a + b)
  <2>1. Len(After(rest, b)) = Len(After(key, a + b))
    BY <1>5, <1>6, <1>7
  <2>2. \A i \in 1 .. Len(After(rest, b)) : After(rest, b)[i] = After(key, a + b)[i]
    BY <1>5, <1>7, <1>8
  <2> QED
    BY <1>5, <1>6, <2>1, <2>2, SeqEqual
<1> QED
  BY <1>2, <1>9

LEMMA PartsAt ==
    ASSUME NEW key1 \in Seq(Nibble), NEW key2 \in Seq(Nibble), NEW n \in Nat,
           n < Len(key1), n < Len(key2), \A i \in 1 .. n : key1[i] = key2[i],
           key1[n + 1] # key2[n + 1]
    PROVE  CommonLength(key1, key2) = n
<1>1. PICK c : c = CommonLength(key1, key2)
  OBVIOUS
<1>2. /\ c \in 0 .. Len(key1) /\ c <= Len(key2)
      /\ \A i \in 1 .. c : key1[i] = key2[i]
      /\ c = Len(key1) \/ c = Len(key2) \/ key1[c + 1] # key2[c + 1]
  <2>1. c \in 0 .. Len(key1) /\ c <= Len(key2)
    BY <1>1, CommonLengthIs
  <2>2. \A i \in 1 .. c : key1[i] = key2[i]
    BY <1>1, CommonLengthIs
  <2>3. c = Len(key1) \/ c = Len(key2) \/ key1[c + 1] # key2[c + 1]
    BY <1>1, CommonLengthIs
  <2> QED
    BY <2>1, <2>2, <2>3
<1>3. Len(key1) \in Nat /\ Len(key2) \in Nat /\ c \in Nat
  BY <1>2
<1>4. ~(c < n)
  <2> SUFFICES ASSUME c < n PROVE FALSE
    OBVIOUS
  <2>1. c # Len(key1) /\ c # Len(key2) /\ c + 1 \in 1 .. n
    BY <1>3
  <2>2. key1[c + 1] = key2[c + 1]
    BY <2>1, Zenon
  <2> QED
    BY <1>2, <2>1, <2>2, Zenon
<1>5. ~(c > n)
  <2> SUFFICES ASSUME c > n PROVE FALSE
    OBVIOUS
  <2>1. n + 1 \in 1 .. c
    BY <1>3
  <2> QED
    BY <1>2, <2>1, Zenon
<1> QED
  BY <1>1, <1>3, <1>4, <1>5
(* The root was split after n nibbles: what the old extension led to is a     *)
(* branch and an extension further down.                                     *)
IsSplit(node, n, nibble, extension, leaf, branch, new) ==
    /\ IsExtension(node) /\ IsNode(node.child)
    /\ n \in Nat /\ n >= 1 /\ n + 1 < Len(node.key)
    /\ nibble \in Nibble /\ nibble # node.key[n + 1]
    /\ extension = Extension(After(node.key, n + 1), node.child)
    /\ branch = Branch([m \in {node.key[n + 1], nibble} |->
                           IF m = node.key[n + 1] THEN extension ELSE leaf], <<>>)
    /\ new = Extension(SubSeq(node.key, 1, n), branch)

LEMMA SplitIs ==
    ASSUME NEW node, NEW n, NEW nibble, NEW extension, NEW leaf, NEW branch, NEW new,
           IsSplit(node, n, nibble, extension, leaf, branch, new)
    PROVE  /\ n + 1 \in 1 .. Len(node.key)
           /\ IsExtension(extension) /\ Len(extension.key) = Len(node.key) - (n + 1)
           /\ extension.key # <<>> /\ extension.child = node.child
           /\ IsBranch(branch)
           /\ node.key[n + 1] \in DOMAIN branch.children /\ nibble \in DOMAIN branch.children
           /\ branch.children[node.key[n + 1]] = extension
           /\ branch.children[nibble] = leaf
           /\ DOMAIN branch.children = {node.key[n + 1], nibble}
           /\ IsExtension(new) /\ Len(new.key) = n /\ new.key # <<>> /\ new.child = branch
<1>1. node.key \in Seq(Nibble)
  BY DEF IsSplit, IsExtension
<1>2. n \in Nat /\ n >= 1 /\ n + 1 < Len(node.key)
  BY DEF IsSplit
<1>3. /\ n + 1 \in 1 .. Len(node.key) /\ n + 1 \in 0 .. Len(node.key)
      /\ n \in 0 .. Len(node.key)
  BY <1>1, <1>2
<1>4. node.key[n + 1] \in Nibble
  BY <1>1, <1>3, ElementOfSeq
<1>5. /\ IsExtension(extension) /\ Len(extension.key) = Len(node.key) - (n + 1)
      /\ extension.child = node.child
  <2>1. After(node.key, n + 1) \in Seq(Nibble)
        /\ Len(After(node.key, n + 1)) = Len(node.key) - (n + 1)
    BY <1>1, <1>3, AfterIs
  <2> QED
    BY <2>1, MadeExtension DEF IsSplit
<1>6. extension.key # <<>>
  <2>1. PICK length \in Nat : length = Len(node.key)
    BY <1>1
  <2>2. Len(extension.key) # 0
    BY <1>2, <1>5, <2>1
  <2> QED
    BY <2>2, EmptySeq
<1>7. PICK children :
        children = [m \in {node.key[n + 1], nibble} |->
                       IF m = node.key[n + 1] THEN extension ELSE leaf]
  OBVIOUS
<1>8. IsBranch(branch) /\ branch.children = children
  <2>1. DOMAIN children = {node.key[n + 1], nibble} /\ nibble \in Nibble
    BY <1>7 DEF IsSplit
  <2>2. DOMAIN children \subseteq Nibble /\ Cardinality(DOMAIN children) \in 1 .. 2
    BY <1>4, <2>1, OneOrTwo
  <2> QED
    BY <1>7, <2>2, MadeBranch DEF IsSplit
<1>9. children[node.key[n + 1]] = extension /\ children[nibble] = leaf
  BY <1>7 DEF IsSplit
<1>10. IsExtension(new) /\ Len(new.key) = n /\ new.child = branch
  <2>1. SubSeq(node.key, 1, n) \in Seq(Nibble) /\ Len(SubSeq(node.key, 1, n)) = n
    BY <1>1, <1>3, UpToIs
  <2> QED
    BY <2>1, MadeExtension DEF IsSplit
<1>11. new.key # <<>>
  <2>1. n # 0
    BY <1>2
  <2> QED
    BY <1>10, <2>1, EmptySeq
<1> QED
  BY <1>3, <1>5, <1>6, <1>7, <1>8, <1>9, <1>10, <1>11

LEMMA SplitLeadsOld ==
    ASSUME NEW node, NEW n, NEW nibble, NEW extension, NEW leaf, NEW branch, NEW new,
           IsSplit(node, n, nibble, extension, leaf, branch, new),
           NEW nodes, NEW more, nodes \subseteq more, node.child \in nodes,
           {extension, branch} \subseteq more,
           NEW key \in Seq(Nibble), Begins(node.key, key), NEW value,
           Leads(nodes, At(node, key), value)
    PROVE  Leads(more, At(new, key), value)
<1>1. node.key \in Seq(Nibble) /\ IsExtension(node) /\ IsNode(node.child)
  BY DEF IsSplit, IsExtension
<1>2. n \in Nat /\ n >= 1 /\ n + 1 < Len(node.key) /\ Len(node.key) <= Len(key)
  BY DEF IsSplit, Begins
<1>3. node.key # <<>> /\ key # <<>>
  BY <1>1, <1>2, EmptySeq
<1>4. Leads(more, At(Load(node.child), After(key, Len(node.key))), value)
  <2>1. Passes(nodes, At(node, key), At(Load(node.child), After(key, Len(node.key))))
    BY <1>1, <1>3, RootPasses
  <2>2. Leads(nodes, At(Load(node.child), After(key, Len(node.key))), value)
    BY <2>1, LeadsOn
  <2> QED
    BY <2>2, LeadsMore
<1>5. PICK rest : rest = After(key, n)
  OBVIOUS
<1>6. /\ rest \in Seq(Nibble) /\ rest # <<>> /\ rest[1] = node.key[n + 1]
      /\ Tail(rest) = After(key, n + 1)
  <2>1. n \in 0 .. Len(key) /\ 1 \in 1 .. Len(key) - n
    BY <1>1, <1>2
  <2>2. /\ rest \in Seq(Nibble) /\ Len(rest) = Len(key) - n
        /\ \A i \in 1 .. Len(key) - n : rest[i] = key[n + i]
    BY <1>5, <2>1, AfterIs
  <2>3. rest # <<>> /\ rest[1] = key[n + 1]
    BY <1>1, <1>2, <2>1, <2>2, EmptySeq
  <2>4. key[n + 1] = node.key[n + 1]
    <3>1. n + 1 \in 1 .. Len(node.key)
      BY <1>1, <1>2
    <3> QED
      BY <1>1, <3>1, BeginsEqually
  <2>5. Tail(rest) = After(key, n + 1)
    <3>1. Tail(rest) = After(rest, 1)
      BY <2>2, <2>3, AfterOne
    <3>2. n + 1 <= Len(key)
      BY <1>1, <1>2
    <3> QED
      BY <1>2, <1>5, <3>1, <3>2, AfterAfter
  <2> QED
    BY <2>2, <2>3, <2>4, <2>5
<1>7. Tail(rest) # <<>> /\ After(Tail(rest), Len(extension.key)) = After(key, Len(node.key))
  <2>1. n + 1 \in 0 .. Len(key) /\ Len(key) - (n + 1) # 0
    BY <1>1, <1>2
  <2>2. Len(Tail(rest)) = Len(key) - (n + 1)
    BY <1>6, <2>1, AfterIs
  <2>3. PICK m \in Nat : m = Len(extension.key) /\ (n + 1) + m = Len(node.key)
    BY <1>1, <1>2, SplitIs
  <2>4. (n + 1) + m <= Len(key)
    BY <1>2, <2>3
  <2>5. After(After(key, n + 1), m) = After(key, (n + 1) + m)
    BY <1>2, <2>4, AfterAfter
  <2> QED
    BY <1>6, <2>1, <2>2, <2>3, <2>5, EmptySeq
<1>8. Passes(more, At(Load(extension), Tail(rest)),
             At(Load(node.child), After(key, Len(node.key))))
  <2>1. IsExtension(extension) /\ extension.key # <<>> /\ extension.child = node.child
    BY SplitIs
  <2>2. node.child \in more
    OBVIOUS
  <2> QED
    BY <1>1, <1>7, <2>1, <2>2, ExtensionPasses
<1>9. Passes(more, At(Load(branch), rest), At(Load(extension), Tail(rest)))
  <2>1. /\ IsBranch(branch) /\ node.key[n + 1] \in DOMAIN branch.children
        /\ branch.children[node.key[n + 1]] = extension /\ IsNode(extension)
    BY SplitIs DEF IsNode
  <2>2. rest # <<>> /\ rest[1] \in DOMAIN branch.children
        /\ extension = branch.children[rest[1]] /\ extension \in more
    BY <1>6, <2>1
  <2> QED
    BY <2>1, <2>2, BranchPasses
<1>10. Passes(more, At(new, key), At(Load(branch), rest))
  <2>1. IsExtension(new) /\ new.key # <<>> /\ new.child = branch /\ Len(new.key) = n
        /\ IsNode(branch)
    BY SplitIs DEF IsNode
  <2>2. branch \in more
    OBVIOUS
  <2>3. Passes(more, At(new, key), At(Load(new.child), After(key, Len(new.key))))
    BY <1>3, <2>1, <2>2, RootPasses
  <2> QED
    BY <1>5, <2>1, <2>3
<1>11. Leads(more, At(Load(extension), Tail(rest)), value)
  BY <1>4, <1>8, LeadsOn
<1>12. Leads(more, At(Load(branch), rest), value)
  BY <1>9, <1>11, LeadsOn
<1> QED
  BY <1>10, <1>12, LeadsOn

LEMMA SplitLeadsNew ==
    ASSUME NEW node, NEW n, NEW nibble, NEW extension, NEW leaf, NEW branch, NEW new,
           IsSplit(node, n, nibble, extension, leaf, branch, new),
           NEW value \in Seq(Byte), ValueSurvives(value), leaf = Leaf(<<>>, value),
           NEW more, {leaf, branch} \subseteq more,
           NEW key \in Seq(Nibble), n < Len(key), key[n + 1] = nibble
    PROVE  Leads(more, At(new, key), value)
<1>1. n \in Nat
  BY DEF IsSplit
<1>2. PICK rest : rest = After(key, n)
  OBVIOUS
<1>3. rest # <<>> /\ rest[1] = nibble
  <2>1. n \in 0 .. Len(key) /\ 1 \in 1 .. Len(key) - n /\ Len(key) - n # 0
    BY <1>1
  <2>2. /\ rest \in Seq(Nibble) /\ Len(rest) = Len(key) - n
        /\ \A i \in 1 .. Len(key) - n : rest[i] = key[n + i]
    BY <1>2, <2>1, AfterIs
  <2> QED
    BY <2>1, <2>2, EmptySeq
<1>4. key # <<>>
  BY <1>1, EmptySeq
<1>5. Leads(more, At(Load(leaf), Tail(rest)), value)
  BY LeafEnds
<1>6. Passes(more, At(Load(branch), rest), At(Load(leaf), Tail(rest)))
  <2>1. IsNode(leaf)
    BY EmptySeq, MadeLeaf DEF IsNode
  <2>2. /\ IsBranch(branch) /\ nibble \in DOMAIN branch.children
        /\ branch.children[nibble] = leaf
    BY SplitIs
  <2>3. rest[1] \in DOMAIN branch.children /\ leaf = branch.children[rest[1]]
        /\ leaf \in more
    BY <1>3, <2>2
  <2> QED
    BY <1>3, <2>1, <2>2, <2>3, BranchPasses
<1>7. Passes(more, At(new, key), At(Load(branch), rest))
  <2>1. IsExtension(new) /\ new.key # <<>> /\ new.child = branch /\ Len(new.key) = n
        /\ IsNode(branch)
    BY SplitIs DEF IsNode
  <2>2. branch \in more
    OBVIOUS
  <2>3. Passes(more, At(new, key), At(Load(new.child), After(key, Len(new.key))))
    BY <1>4, <2>1, <2>2, RootPasses
  <2> QED
    BY <1>2, <2>1, <2>3
<1>8. Leads(more, At(Load(branch), rest), value)
  BY <1>5, <1>6, LeadsOn
<1> QED
  BY <1>7, <1>8, LeadsOn
(* A branch with one child.                                                  *)
LEMMA OneChild ==
    ASSUME NEW nibble \in Nibble, NEW children, NEW value, DOMAIN children = {nibble}
    PROVE  /\ IsBranch(Branch(children, value))
           /\ Branch(children, value).children = children
<1>1. DOMAIN children \subseteq Nibble /\ Cardinality(DOMAIN children) \in 1 .. 2
  BY OneOrTwo
<1> QED
  BY <1>1, MadeBranch

(* What is left of a key that begins with another.                           *)
LEMMA RestIs ==
    ASSUME NEW prefix \in Seq(Nibble), NEW key \in Seq(Nibble), Begins(prefix, key),
           Len(prefix) < Len(key)
    PROVE  /\ After(key, Len(prefix)) \in Seq(Nibble)
           /\ After(key, Len(prefix)) # <<>>
           /\ Len(After(key, Len(prefix))) = Len(key) - Len(prefix)
           /\ After(key, Len(prefix))[1] = key[Len(prefix) + 1]
           /\ After(key, Len(prefix))[1] \in Nibble
           /\ key # <<>>
<1>1. PICK rest : rest = After(key, Len(prefix))
  OBVIOUS
<1>2. /\ Len(prefix) \in 0 .. Len(key) /\ 1 \in 1 .. Len(key) - Len(prefix)
      /\ Len(key) - Len(prefix) # 0 /\ Len(key) # 0
  OBVIOUS
<1>3. /\ rest \in Seq(Nibble) /\ Len(rest) = Len(key) - Len(prefix)
      /\ \A i \in 1 .. Len(key) - Len(prefix) : rest[i] = key[Len(prefix) + i]
  BY <1>1, <1>2, AfterIs
<1>4. rest # <<>> /\ key # <<>>
  BY <1>2, <1>3, EmptySeq
<1>5. rest[1] \in Nibble
  BY <1>2, <1>3, ElementOfSeq
<1> QED
  BY <1>1, <1>2, <1>3, <1>4, <1>5

LEMMA AfterAll ==
    ASSUME NEW key \in Seq(Nibble)
    PROVE  After(key, Len(key)) = <<>>
<1>1. Len(key) \in 0 .. Len(key) /\ Len(key) - Len(key) = 0
  OBVIOUS
<1>2. After(key, Len(key)) \in Seq(Nibble) /\ Len(After(key, Len(key))) = 0
  BY <1>1, AfterIs
<1> QED
  BY <1>2, EmptySeq

(* A leaf and a key that went on where it ended.                             *)
Survives(value) == value \in Seq(Byte) /\ ValueSurvives(value)

IsLonger(key1, key2) ==
    key2 \in Seq(Nibble) /\ Begins(key1, key2) /\ Len(key1) < Len(key2)

IsExtended(key1, value1, key2, value2, rest, leaf, branch, new) ==
    /\ key1 \in Seq(Nibble) /\ key1 # <<>> /\ IsLonger(key1, key2)
    /\ Survives(value1) /\ Survives(value2)
    /\ rest = After(key2, Len(key1)) /\ leaf = Leaf(rest, value2)
    /\ branch = Branch([x \in {rest[1]} |-> leaf], value1)
    /\ new = Extension(key1, branch)

LEMMA ExtendedLeads ==
    ASSUME NEW key1, NEW value1, NEW key2, NEW value2, NEW rest, NEW leaf, NEW branch, NEW new,
           IsExtended(key1, value1, key2, value2, rest, leaf, branch, new),
           NEW more, {leaf, branch} \subseteq more
    PROVE  Leads(more, At(new, key1), value1) /\ Leads(more, At(new, key2), value2)
<1>0. /\ key1 \in Seq(Nibble) /\ key1 # <<>>
      /\ key2 \in Seq(Nibble) /\ Begins(key1, key2) /\ Len(key1) < Len(key2)
      /\ value1 \in Seq(Byte) /\ ValueSurvives(value1)
      /\ value2 \in Seq(Byte) /\ ValueSurvives(value2)
      /\ rest = After(key2, Len(key1)) /\ leaf = Leaf(rest, value2)
      /\ branch = Branch([x \in {rest[1]} |-> leaf], value1)
      /\ new = Extension(key1, branch)
  BY DEF IsExtended, IsLonger, Survives
<1>1. rest \in Seq(Nibble) /\ rest # <<>> /\ rest[1] \in Nibble /\ key2 # <<>>
  BY <1>0, RestIs
<1>2. PICK children : children = [x \in {rest[1]} |-> leaf]
  OBVIOUS
<1>3. IsBranch(branch) /\ rest[1] \in DOMAIN branch.children /\ branch.children[rest[1]] = leaf
  <2>1. DOMAIN children = {rest[1]} /\ children[rest[1]] = leaf
    BY <1>2
  <2>2. branch = Branch(children, value1)
    BY <1>0, <1>2
  <2>3. IsBranch(branch) /\ branch.children = children
    <3>1. IsBranch(Branch(children, value1)) /\ Branch(children, value1).children = children
      BY <1>1, <2>1, OneChild
    <3> QED
      BY <2>2, <3>1
  <2> QED
    BY <2>1, <2>3
<1>4. IsExtension(new) /\ new.key = key1 /\ new.child = branch /\ IsNode(branch)
  BY <1>0, <1>3, MadeExtension DEF IsNode
<1>5. ASSUME NEW key, key # <<>>
      PROVE  Passes(more, At(new, key), At(Load(branch), After(key, Len(key1))))
  <2>1. branch \in more
    OBVIOUS
  <2>2. Passes(more, At(new, key), At(Load(new.child), After(key, Len(new.key))))
    BY <1>0, <1>4, <1>5, <2>1, RootPasses
  <2> QED
    BY <1>4, <2>2
<1>6. Leads(more, At(new, key1), value1)
  <2>1. Leads(more, At(Load(branch), <<>>), value1)
    BY <1>0, BranchEnds
  <2>2. After(key1, Len(key1)) = <<>>
    BY <1>0, AfterAll
  <2> QED
    BY <1>0, <1>5, <2>1, <2>2, LeadsOn
<1>7. Leads(more, At(new, key2), value2)
  <2>1. Leads(more, At(Load(leaf), Tail(rest)), value2)
    BY <1>0, LeafEnds
  <2>2. IsNode(leaf) /\ leaf \in more
    BY <1>0, <1>1, MadeLeaf DEF IsNode
  <2>3. Passes(more, At(Load(branch), rest), At(Load(leaf), Tail(rest)))
    BY <1>1, <1>3, <2>2, BranchPasses
  <2>4. Leads(more, At(Load(branch), rest), value2)
    BY <2>1, <2>3, LeadsOn
  <2> QED
    BY <1>0, <1>1, <1>5, <2>4, LeadsOn
<1> QED
  BY <1>6, <1>7

(* Three keys, each going on where the one before it ends.                   *)
HasSplit(key1, value1, key2, value2, key3, value3, rest2, rest3,
         added, inner, extension, children, changed, new) ==
    /\ key1 \in Seq(Nibble) /\ key1 # <<>> /\ IsLonger(key1, key2) /\ IsLonger(key1, key3)
    /\ Survives(value1) /\ Survives(value2) /\ Survives(value3)
    /\ rest2 = After(key2, Len(key1)) /\ Tail(rest2) # <<>>
    /\ rest3 = After(key3, Len(key1)) /\ rest3[1] = rest2[1]
    /\ Len(Tail(rest2)) < Len(Tail(rest3)) /\ Begins(Tail(rest2), Tail(rest3))
    /\ added = Leaf(Tail(rest3), value3)
    /\ inner = Branch([x \in {Tail(rest3)[Len(Tail(rest2)) + 1]} |-> added], value2)
    /\ extension = Extension(Tail(rest2), inner)
    /\ DOMAIN children = {rest2[1]} /\ children[rest2[1]] = extension
    /\ changed = Branch(children, value1)
    /\ new = Extension(key1, changed)

LEMMA LeafSplitLeads ==
    ASSUME NEW key1, NEW value1, NEW key2, NEW value2, NEW key3, NEW value3,
           NEW rest2, NEW rest3, NEW added, NEW inner, NEW extension, NEW children,
           NEW changed, NEW new,
           HasSplit(key1, value1, key2, value2, key3, value3, rest2, rest3,
                    added, inner, extension, children, changed, new),
           NEW more, {added, inner, extension, changed} \subseteq more
    PROVE  /\ Leads(more, At(new, key1), value1)
           /\ Leads(more, At(new, key2), value2)
           /\ Leads(more, At(new, key3), value3)
<1>1. /\ key1 \in Seq(Nibble) /\ key1 # <<>>
      /\ key2 \in Seq(Nibble) /\ Begins(key1, key2) /\ Len(key1) < Len(key2)
      /\ key3 \in Seq(Nibble) /\ Begins(key1, key3) /\ Len(key1) < Len(key3)
      /\ value1 \in Seq(Byte) /\ ValueSurvives(value1)
      /\ value2 \in Seq(Byte) /\ ValueSurvives(value2)
      /\ value3 \in Seq(Byte) /\ ValueSurvives(value3)
  BY DEF HasSplit, IsLonger, Survives
<1>2. /\ rest2 = After(key2, Len(key1)) /\ Tail(rest2) # <<>>
      /\ rest3 = After(key3, Len(key1)) /\ rest3[1] = rest2[1]
      /\ Len(Tail(rest2)) < Len(Tail(rest3)) /\ Begins(Tail(rest2), Tail(rest3))
      /\ added = Leaf(Tail(rest3), value3)
      /\ inner = Branch([x \in {Tail(rest3)[Len(Tail(rest2)) + 1]} |-> added], value2)
      /\ extension = Extension(Tail(rest2), inner)
      /\ DOMAIN children = {rest2[1]} /\ children[rest2[1]] = extension
      /\ changed = Branch(children, value1)
      /\ new = Extension(key1, changed)
  BY DEF HasSplit
<1>3. rest2 \in Seq(Nibble) /\ rest2 # <<>> /\ rest2[1] \in Nibble /\ key2 # <<>>
  BY <1>1, <1>2, RestIs
<1>4. rest3 \in Seq(Nibble) /\ rest3 # <<>> /\ key3 # <<>>
  BY <1>1, <1>2, RestIs
<1>5. Tail(rest2) \in Seq(Nibble) /\ Tail(rest3) \in Seq(Nibble)
  BY <1>3, <1>4, HeadTailProperties
<1>6. PICK last : last = After(Tail(rest3), Len(Tail(rest2)))
  OBVIOUS
<1>7. /\ last \in Seq(Nibble) /\ last # <<>> /\ last[1] \in Nibble
      /\ last[1] = Tail(rest3)[Len(Tail(rest2)) + 1] /\ Tail(rest3) # <<>>
  BY <1>2, <1>5, <1>6, RestIs
<1>8. /\ IsBranch(inner) /\ last[1] \in DOMAIN inner.children
      /\ inner.children[last[1]] = added
  <2>1. PICK held : held = [x \in {last[1]} |-> added]
    OBVIOUS
  <2>2. DOMAIN held = {last[1]} /\ held[last[1]] = added
    BY <2>1
  <2>3. inner = Branch(held, value2)
    BY <1>2, <1>7, <2>1
  <2>4. IsBranch(inner) /\ inner.children = held
    <3>1. IsBranch(Branch(held, value2)) /\ Branch(held, value2).children = held
      BY <1>7, <2>2, OneChild
    <3> QED
      BY <2>3, <3>1
  <2> QED
    BY <2>2, <2>4
<1>9. /\ IsExtension(extension) /\ extension.key = Tail(rest2)
      /\ extension.child = inner /\ IsNode(inner) /\ IsNode(extension)
  <2>1. /\ IsExtension(extension) /\ extension.key = Tail(rest2)
        /\ extension.child = inner
    <3>1. PICK tail : tail = Tail(rest2)
      OBVIOUS
    <3>2. tail \in Seq(Nibble) /\ extension = Extension(tail, inner)
      BY <1>2, <1>5, <3>1
    <3>3. /\ IsExtension(Extension(tail, inner)) /\ Extension(tail, inner).key = tail
          /\ Extension(tail, inner).child = inner
      BY <3>2, MadeExtension
    <3> QED
      BY <3>1, <3>2, <3>3, Zenon
  <2> QED
    BY <1>8, <2>1, Zenon DEF IsNode
<1>10. /\ IsBranch(changed) /\ rest2[1] \in DOMAIN changed.children
       /\ changed.children[rest2[1]] = extension
  <2>1. IsBranch(changed) /\ changed.children = children
    BY <1>2, <1>3, OneChild
  <2> QED
    BY <1>2, <2>1
<1>11. IsExtension(new) /\ new.key = key1 /\ new.child = changed /\ IsNode(changed)
  BY <1>1, <1>2, <1>10, MadeExtension DEF IsNode
<1>12. ASSUME NEW key, key # <<>>
       PROVE  Passes(more, At(new, key), At(Load(changed), After(key, Len(key1))))
  <2>1. changed \in more
    OBVIOUS
  <2>2. Passes(more, At(new, key), At(Load(new.child), After(key, Len(new.key))))
    BY <1>1, <1>11, <1>12, <2>1, RootPasses
  <2> QED
    BY <1>11, <2>2
<1>13. ASSUME NEW rest, rest # <<>>, rest[1] = rest2[1]
       PROVE  Passes(more, At(Load(changed), rest), At(Load(extension), Tail(rest)))
  <2>1. /\ rest[1] \in DOMAIN changed.children /\ extension = changed.children[rest[1]]
        /\ extension \in more
    BY <1>10, <1>13
  <2> QED
    BY <1>9, <1>10, <1>13, <2>1, BranchPasses
<1>14. ASSUME NEW rest, rest # <<>>
       PROVE  Passes(more, At(Load(extension), rest),
                     At(Load(inner), After(rest, Len(Tail(rest2)))))
  <2>1. extension.key # <<>> /\ extension.child \in more /\ IsNode(extension.child)
    BY <1>2, <1>9
  <2>2. Passes(more, At(Load(extension), rest),
               At(Load(extension.child), After(rest, Len(extension.key))))
    BY <1>9, <1>14, <2>1, ExtensionPasses
  <2> QED
    BY <1>9, <2>2
<1>15. Leads(more, At(new, key1), value1)
  <2>1. Leads(more, At(Load(changed), <<>>), value1)
    BY <1>1, <1>2, BranchEnds
  <2>2. After(key1, Len(key1)) = <<>>
    BY <1>1, AfterAll
  <2> QED
    BY <1>1, <1>12, <2>1, <2>2, LeadsOn
<1>16. Leads(more, At(new, key2), value2)
  <2>1. Leads(more, At(Load(inner), <<>>), value2)
    BY <1>1, <1>2, BranchEnds
  <2>2. After(Tail(rest2), Len(Tail(rest2))) = <<>>
    BY <1>5, AfterAll
  <2>3. Leads(more, At(Load(extension), Tail(rest2)), value2)
    BY <1>2, <1>14, <2>1, <2>2, LeadsOn
  <2>4. Leads(more, At(Load(changed), rest2), value2)
    BY <1>3, <1>13, <2>3, LeadsOn
  <2> QED
    BY <1>2, <1>3, <1>12, <2>4, LeadsOn
<1>17. Leads(more, At(new, key3), value3)
  <2>1. Leads(more, At(Load(added), Tail(last)), value3)
    BY <1>1, <1>2, LeafEnds
  <2>2. IsNode(added) /\ added \in more
    BY <1>2, <1>5, MadeLeaf DEF IsNode
  <2>3. Passes(more, At(Load(inner), last), At(Load(added), Tail(last)))
    BY <1>7, <1>8, <2>2, BranchPasses
  <2>4. Leads(more, At(Load(inner), last), value3)
    BY <2>1, <2>3, LeadsOn
  <2>5. Leads(more, At(Load(extension), Tail(rest3)), value3)
    BY <1>6, <1>7, <1>14, <2>4, LeadsOn
  <2>6. Leads(more, At(Load(changed), rest3), value3)
    BY <1>2, <1>4, <1>13, <2>5, LeadsOn
  <2> QED
    BY <1>2, <1>4, <1>12, <2>6, LeadsOn
<1> QED
  BY <1>15, <1>16, <1>17
----------------------------------------------------------------------------
(* Where the keys of a history the trie keeps lie.                            *)

(* All keys go through the root's extension, which ends where the first key   *)
(* does or where another leaves it; and each is found.                       *)
Reading ==
    \A i \in DOMAIN inserted :
        /\ Begins(root.key, InsertedKeys[i])
        /\ Leads(database, At(root, InsertedKeys[i]), inserted[i][2])

Parted == root.key = InsertedKeys[1] \/ \E j \in Splits : Parting(j) = Len(root.key)

(* The second key goes on where the first ends, and has a leaf.               *)
GoesOn(key, value) ==
    LET rest == After(key, Len(root.key))
    IN  root.child = Branch([n \in {rest[1]} |-> Leaf(rest, value)], inserted[1][2])

TwoKeys ==
    /\ Len(inserted) = 2 /\ root.key = InsertedKeys[1]
    /\ Len(root.key) < Len(InsertedKeys[2])
    /\ GoesOn(InsertedKeys[2], inserted[2][2])

(* Any other leaf below the root is that of a key that left the first there:  *)
(* no key the trie keeps comes to it again.                                  *)
LeavesAt(j, n) ==
    /\ Parting(j) = Len(root.key) /\ Len(root.key) < Len(InsertedKeys[j])
    /\ InsertedKeys[j][Len(root.key) + 1] = n

Grown ==
    \A n \in DOMAIN root.child.children :
        IsLeaf(root.child.children[n]) => \E j \in Splits : LeavesAt(j, n)

Found ==
    \/ inserted = <<>> /\ root = Empty
    \/ Len(inserted) = 1 /\ root = Leaf(InsertedKeys[1], inserted[1][2])
    \/ /\ inserted # <<>> /\ IsExtension(root)
       /\ Reading /\ Parted /\ (TwoKeys \/ Grown)

LEMMA KeptKeys ==
    ASSUME TrieInv, Kept, NEW i \in 1 .. Len(inserted)
    PROVE  /\ InsertedKeys[i] \in Seq(Nibble) /\ InsertedKeys[i] # <<>>
           /\ \E n \in Nat : Len(InsertedKeys[i]) = 2 * n
           /\ inserted[i][2] \in Seq(Byte) /\ ValueSurvives(inserted[i][2])
<1>1. inserted \in Seq(Keys \X Values) /\ i \in DOMAIN inserted
  BY DEF TrieInv
<1>2. inserted[i] \in Keys \X Values
  BY <1>1, ElementOfSeq
<1>3. inserted[i][1] \in Seq(Byte) /\ inserted[i][2] \in Seq(Byte)
  BY <1>2, TrieAssumption DEF Byte
<1>4. inserted[i][1] # <<>> /\ ValueSurvives(inserted[i][2])
  BY <1>1 DEF Kept
<1>5. PICK bytes : bytes = inserted[i][1]
  OBVIOUS
<1>6. InsertedKeys[i] = ConvertBytesToNibbles(bytes)
  BY <1>1, <1>5 DEF InsertedKeys
<1>7. /\ InsertedKeys[i] \in Seq(Nibble)
      /\ Len(InsertedKeys[i]) = 2 * Len(bytes)
  BY <1>3, <1>5, <1>6, NibblesAre
<1>8. PICK n \in Nat : n = Len(bytes)
  BY <1>3, <1>5
<1>9. n # 0
  BY <1>3, <1>4, <1>5, <1>8, EmptySeq
<1>10. Len(InsertedKeys[i]) = 2 * n /\ InsertedKeys[i] # <<>>
  <2>1. Len(InsertedKeys[i]) = 2 * n /\ 2 * n # 0
    BY <1>7, <1>8, <1>9
  <2> QED
    BY <2>1, EmptySeq
<1> QED
  BY <1>3, <1>4, <1>7, <1>10

(* The history one insertion later.                                          *)
LEMMA HistoryGrows ==
    ASSUME TrieInv, NEW key \in Keys, NEW value \in Values, Insert(key, value)
    PROVE  /\ Len(inserted) \in Nat /\ DOMAIN inserted = 1 .. Len(inserted)
           /\ Len(inserted') = Len(inserted) + 1
           /\ DOMAIN inserted' = 1 .. Len(inserted) + 1
           /\ InsertedKeys'[Len(inserted) + 1] = ConvertBytesToNibbles(key)
           /\ inserted'[Len(inserted) + 1] = <<key, value>>
           /\ \A i \in 1 .. Len(inserted) :
                inserted'[i] = inserted[i] /\ InsertedKeys'[i] = InsertedKeys[i]
<1>1. inserted \in Seq(Keys \X Values) /\ <<key, value>> \in Keys \X Values
  BY DEF TrieInv
<1>2. inserted' = Append(inserted, <<key, value>>)
  BY DEF Insert
<1>3. /\ Len(inserted) \in Nat /\ DOMAIN inserted = 1 .. Len(inserted)
      /\ inserted' \in Seq(Keys \X Values) /\ Len(inserted') = Len(inserted) + 1
      /\ inserted'[Len(inserted) + 1] = <<key, value>>
      /\ \A i \in 1 .. Len(inserted) : inserted'[i] = inserted[i]
  BY <1>1, <1>2, AppendProperties
<1>4. DOMAIN inserted' = 1 .. Len(inserted) + 1
  BY <1>3
<1>5. \A i \in DOMAIN inserted' : InsertedKeys'[i] = ConvertBytesToNibbles(inserted'[i][1])
  BY DEF InsertedKeys
<1>6. \A i \in DOMAIN inserted : InsertedKeys[i] = ConvertBytesToNibbles(inserted[i][1])
  BY DEF InsertedKeys
<1>7. InsertedKeys'[Len(inserted) + 1] = ConvertBytesToNibbles(key)
  <2>1. Len(inserted) + 1 \in DOMAIN inserted'
    BY <1>3, <1>4
  <2> QED
    BY <1>3, <1>5, <2>1
<1>8. ASSUME NEW i \in 1 .. Len(inserted) PROVE InsertedKeys'[i] = InsertedKeys[i]
  <2>1. i \in DOMAIN inserted /\ i \in DOMAIN inserted'
    BY <1>3, <1>4
  <2> QED
    BY <1>3, <1>5, <1>6, <2>1
<1> QED
  BY <1>3, <1>4, <1>7, <1>8

LEMMA PartingStays ==
    ASSUME TrieInv, NEW key \in Keys, NEW value \in Values, Insert(key, value),
           NEW i \in 1 .. Len(inserted)
    PROVE  Parting(i)' = Parting(i) /\ (i \in Splits' <=> i \in Splits)
<1>1. Len(inserted) \in Nat /\ 1 \in 1 .. Len(inserted)
  BY DEF TrieInv
<1>2. InsertedKeys'[i] = InsertedKeys[i] /\ InsertedKeys'[1] = InsertedKeys[1]
  BY <1>1, HistoryGrows
<1>3. Parting(i)' = Parting(i)
  BY <1>2 DEF Parting
<1>4. i \in DOMAIN inserted /\ i \in DOMAIN inserted'
  BY <1>1, HistoryGrows
<1> QED
  BY <1>2, <1>3, <1>4 DEF Splits

LEMMA KeptBefore ==
    ASSUME TrieInv, NEW key \in Keys, NEW value \in Values, Insert(key, value), Kept'
    PROVE  /\ Kept /\ ConvertBytesToNibbles(key) # <<>>
           /\ value \in Seq(Byte) /\ ValueSurvives(value)
<1>1. /\ Len(inserted) \in Nat /\ DOMAIN inserted = 1 .. Len(inserted)
      /\ DOMAIN inserted' = 1 .. Len(inserted) + 1
      /\ inserted'[Len(inserted) + 1] = <<key, value>>
      /\ \A i \in 1 .. Len(inserted) : inserted'[i] = inserted[i]
  BY HistoryGrows
<1>2. Len(inserted) + 1 \in DOMAIN inserted'
  BY <1>1
<1>3. key # <<>> /\ ValueSurvives(value)
  BY <1>1, <1>2 DEF Kept
<1>4. key \in Seq(Byte) /\ value \in Seq(Byte)
  BY TrieAssumption DEF Byte
<1>5. ConvertBytesToNibbles(key) # <<>>
  <2>1. PICK n \in Nat : n = Len(key)
    BY <1>4
  <2>2. n # 0
    BY <1>3, <1>4, <2>1, EmptySeq
  <2>3. Len(ConvertBytesToNibbles(key)) = 2 * n /\ 2 * n # 0
    BY <1>4, <2>1, <2>2, NibblesAre
  <2> QED
    BY <2>3, EmptySeq
<1>6. ASSUME NEW i \in DOMAIN inserted
      PROVE  inserted[i][1] # <<>> /\ ValueSurvives(inserted[i][2])
  <2>1. i \in DOMAIN inserted' /\ inserted'[i] = inserted[i]
    BY <1>1
  <2> QED
    BY <2>1 DEF Kept
<1>7. ASSUME NEW i \in Splits
      PROVE  /\ i \in 1 .. Len(inserted) /\ i \in Splits'
             /\ Parting(i)' = Parting(i) /\ InsertedKeys'[1] = InsertedKeys[1]
  <2>1. i \in 1 .. Len(inserted) /\ 1 \in 1 .. Len(inserted)
    BY <1>1 DEF Splits
  <2> QED
    BY <2>1, PartingStays, HistoryGrows
<1>8. \A i \in Splits : Parting(i) < Len(InsertedKeys[1]) - 1
  BY <1>7 DEF Kept
<1>9. \A i, j \in Splits : i # j => (Parting(i) - Parting(j)) \notin -1..1
  BY <1>7 DEF Kept
<1> QED
  BY <1>3, <1>4, <1>5, <1>6, <1>8, <1>9 DEF Kept

LEMMA FirstFound ==
    ASSUME TrieInv, NEW key \in Keys, NEW value \in Values, Insert(key, value),
           inserted = <<>>, root' = Leaf(ConvertBytesToNibbles(key), value)
    PROVE  Found'
<1>1. Len(inserted) = 0
  OBVIOUS
<1>2. /\ Len(inserted') = 1 /\ InsertedKeys'[1] = ConvertBytesToNibbles(key)
      /\ inserted'[1] = <<key, value>>
  <2>1. Len(inserted) + 1 = 1
    BY <1>1
  <2> QED
    BY <2>1, HistoryGrows
<1>3. inserted'[1][2] = value
  BY <1>2
<1> QED
  BY <1>2, <1>3 DEF Found

LEMMA BeginsItself ==
    ASSUME NEW key \in Seq(Nibble)
    PROVE  Begins(key, key)
<1>1. SubSeq(key, 1, Len(key)) = key
  BY SubSeqFull
<1> QED
  BY <1>1 DEF Begins

LEMMA SecondFound ==
    ASSUME TrieInv, NEW key \in Keys, NEW value \in Values, Insert(key, value), Kept',
           Len(inserted) = 1, root = Leaf(InsertedKeys[1], inserted[1][2]),
           NEW nibbles, nibbles = ConvertBytesToNibbles(key), ExtendsLeaf(nibbles, value)
    PROVE  Found'
<1>1. PICK rest, leaf, branch :
        /\ IsLeaf(root) /\ Len(root.key) < Len(nibbles)
        /\ SubSeq(nibbles, 1, Len(root.key)) = root.key
        /\ rest = After(nibbles, Len(root.key))
        /\ leaf = Leaf(rest, value)
        /\ branch = Branch([x \in {rest[1]} |-> leaf], root.value)
        /\ root' = Extension(root.key, branch)
        /\ database' = database \cup {leaf, branch}
  BY DEF ExtendsLeaf
<1>2. Kept /\ value \in Seq(Byte) /\ ValueSurvives(value)
  BY KeptBefore
<1>3. PICK key1, value1 : key1 = InsertedKeys[1] /\ value1 = inserted[1][2]
  OBVIOUS
<1>4. /\ key1 \in Seq(Nibble) /\ key1 # <<>> /\ value1 \in Seq(Byte) /\ ValueSurvives(value1)
  <2>1. 1 \in 1 .. Len(inserted)
    OBVIOUS
  <2> QED
    BY <1>2, <1>3, <2>1, KeptKeys
<1>5. root.key = key1 /\ root.value = value1
  BY <1>3 DEF Leaf
<1>6. nibbles \in Seq(Nibble)
  <2>1. key \in Seq(Byte)
    BY TrieAssumption DEF Byte
  <2> QED
    BY <2>1, NibblesAre
<1>7. /\ Len(key1) < Len(nibbles) /\ Begins(key1, nibbles)
      /\ rest = After(nibbles, Len(key1))
      /\ branch = Branch([x \in {rest[1]} |-> leaf], value1)
      /\ root' = Extension(key1, branch)
  <2>1. Len(key1) <= Len(nibbles)
    BY <1>1, <1>4, <1>5, <1>6
  <2> QED
    BY <1>1, <1>5, <2>1 DEF Begins
<1>8. /\ Len(inserted') = 2 /\ DOMAIN inserted' = {1, 2}
      /\ InsertedKeys'[1] = key1 /\ inserted'[1][2] = value1
      /\ InsertedKeys'[2] = nibbles /\ inserted'[2][2] = value
  <2>1. Len(inserted) + 1 = 2 /\ 1 \in 1 .. Len(inserted)
    OBVIOUS
  <2>2. /\ Len(inserted') = 2 /\ DOMAIN inserted' = 1 .. 2
        /\ InsertedKeys'[2] = nibbles /\ inserted'[2] = <<key, value>>
        /\ InsertedKeys'[1] = InsertedKeys[1] /\ inserted'[1] = inserted[1]
    BY <2>1, HistoryGrows
  <2>3. 1 .. 2 = {1, 2}
    OBVIOUS
  <2> QED
    BY <1>3, <2>2, <2>3
<1>9. /\ Leads(database', At(root', key1), value1)
      /\ Leads(database', At(root', nibbles), value)
  <2>1. {leaf, branch} \subseteq database' /\ leaf = Leaf(rest, value)
    BY <1>1
  <2>2. IsExtended(key1, value1, nibbles, value, rest, leaf, branch, root')
    BY <1>2, <1>4, <1>6, <1>7, <2>1 DEF IsExtended, IsLonger, Survives
  <2> QED
    BY <2>1, <2>2, ExtendedLeads
<1>10. IsExtension(root') /\ root'.key = key1 /\ root'.child = branch
  BY <1>4, <1>7, MadeExtension
<1>11. Begins(root'.key, key1) /\ Begins(root'.key, nibbles)
  BY <1>4, <1>7, <1>10, BeginsItself
<1>12. Reading'
  <2>1. ASSUME NEW i \in DOMAIN inserted'
        PROVE  /\ Begins(root'.key, InsertedKeys'[i])
               /\ Leads(database', At(root', InsertedKeys'[i]), inserted'[i][2])
    <3>1. i = 1 \/ i = 2
      BY <1>8
    <3> QED
      BY <1>8, <1>9, <1>11, <3>1
  <2> QED
    BY <2>1 DEF Reading
<1>13. Parted'
  BY <1>8, <1>10 DEF Parted
<1>14. TwoKeys'
  <2>1. root'.child = Branch([x \in {rest[1]} |-> Leaf(rest, value)], value1)
    BY <1>1, <1>7, <1>10
  <2>2. root'.child = Branch([x \in {After(nibbles, Len(key1))[1]} |->
                                 Leaf(After(nibbles, Len(key1)), value)], value1)
    BY <1>7, <2>1
  <2>3. GoesOn(nibbles, value)'
    BY <1>8, <1>10, <2>2 DEF GoesOn
  <2> QED
    BY <1>7, <1>8, <1>10, <2>3 DEF TwoKeys
<1>15. inserted' # <<>>
  BY <1>8
<1> QED
  BY <1>10, <1>12, <1>13, <1>14, <1>15 DEF Found, IsExtension

LEMMA BeginsLess ==
    ASSUME NEW prefix \in Seq(Nibble), NEW key \in Seq(Nibble), Begins(prefix, key),
           NEW n \in Nat, n <= Len(prefix)
    PROVE  Begins(SubSeq(prefix, 1, n), key)
<1>1. n \in 0 .. Len(prefix) /\ n \in 0 .. Len(key)
  BY DEF Begins
<1>2. /\ SubSeq(prefix, 1, n) \in Seq(Nibble) /\ Len(SubSeq(prefix, 1, n)) = n
      /\ \A i \in 1 .. n : SubSeq(prefix, 1, n)[i] = prefix[i]
  BY <1>1, UpToIs
<1>3. /\ SubSeq(key, 1, n) \in Seq(Nibble) /\ Len(SubSeq(key, 1, n)) = n
      /\ \A i \in 1 .. n : SubSeq(key, 1, n)[i] = key[i]
  BY <1>1, UpToIs
<1>4. \A i \in 1 .. n : key[i] = prefix[i]
  <2> TAKE i \in 1 .. n
  <2>1. i \in 1 .. Len(prefix)
    BY <1>1
  <2> QED
    BY <2>1, BeginsEqually
<1>5. SubSeq(key, 1, n) = SubSeq(prefix, 1, n)
  BY <1>2, <1>3, <1>4, SeqEqual
<1> QED
  BY <1>1, <1>2, <1>5 DEF Begins

(* The key that splits the root leaves the first where none did before, nor   *)
(* next to it.                                                               *)
LEMMA SplitFound ==
    ASSUME TrieInv, NEW key \in Keys, NEW value \in Values, Insert(key, value), Kept',
           inserted # <<>>, IsExtension(root), Reading, Parted,
           NEW nibbles, nibbles = ConvertBytesToNibbles(key), SplitsRoot(nibbles, value)
    PROVE  Found'
<1>0. PICK n \in 1 .. Len(root.key) - 1 :
        \E extension, leaf, branch : SplitsAt(nibbles, value, n, extension, leaf, branch)
  BY DEF SplitsRoot
<1>1. PICK extension, leaf, branch : SplitsAt(nibbles, value, n, extension, leaf, branch)
  BY <1>0
<1>2. Kept /\ value \in Seq(Byte) /\ ValueSurvives(value)
  BY KeptBefore
<1>3. root.key \in Seq(Nibble) /\ n \in Nat /\ n >= 1 /\ n + 1 <= Len(root.key)
  BY DEF IsExtension
<1>4. nibbles \in Seq(Nibble) /\ n < Len(nibbles)
  <2>1. key \in Seq(Byte)
    BY TrieAssumption DEF Byte
  <2> QED
    BY <1>1, <2>1, NibblesAre DEF SplitsAt
<1>5. PICK N \in Nat : N = Len(inserted) /\ N >= 1
  <2>1. inserted \in Seq(Keys \X Values)
    BY DEF TrieInv
  <2> QED
    BY <2>1, EmptySeq
<1>6. PICK key1 : key1 = InsertedKeys[1]
  OBVIOUS
<1>7. key1 \in Seq(Nibble) /\ Begins(root.key, key1) /\ 1 \in 1 .. N /\ InsertedKeys'[1] = key1
  <2>1. 1 \in 1 .. N /\ 1 \in DOMAIN inserted
    BY <1>5, HistoryGrows
  <2> QED
    BY <1>2, <1>5, <1>6, <2>1, KeptKeys, HistoryGrows DEF Reading
<1>8. \A i \in 1 .. n : nibbles[i] = key1[i]
  <2> TAKE i \in 1 .. n
  <2>1. n \in 0 .. Len(nibbles) /\ n \in 0 .. Len(root.key) /\ i \in 1 .. Len(root.key)
    BY <1>3, <1>4
  <2>2. SubSeq(nibbles, 1, n)[i] = nibbles[i] /\ SubSeq(root.key, 1, n)[i] = root.key[i]
    BY <1>3, <1>4, <2>1, UpToIs
  <2>3. key1[i] = root.key[i]
    BY <1>3, <1>7, <2>1, BeginsEqually
  <2> QED
    BY <1>1, <2>2, <2>3 DEF SplitsAt
<1>9. nibbles[n + 1] # key1[n + 1] /\ n < Len(key1)
  <2>1. n + 1 \in 1 .. Len(root.key)
    BY <1>3
  <2>2. key1[n + 1] = root.key[n + 1]
    BY <1>3, <1>7, <2>1, BeginsEqually
  <2>3. Len(root.key) <= Len(key1)
    BY <1>7 DEF Begins
  <2> QED
    BY <1>1, <1>3, <1>7, <2>2, <2>3 DEF SplitsAt
<1>10. CommonLength(nibbles, key1) = n
  BY <1>3, <1>4, <1>7, <1>8, <1>9, PartsAt
<1>11. /\ InsertedKeys'[N + 1] = nibbles /\ inserted'[N + 1][2] = value
       /\ DOMAIN inserted' = 1 .. N + 1 /\ N + 1 \in 1 .. N + 1 /\ N + 1 \notin 1 .. N
  <2>1. inserted'[N + 1] = <<key, value>> /\ InsertedKeys'[N + 1] = nibbles
        /\ DOMAIN inserted' = 1 .. N + 1
    BY <1>5, HistoryGrows
  <2> QED
    BY <1>5, <2>1
<1>12. Parting(N + 1)' = n /\ N + 1 \in Splits'
  <2>1. Parting(N + 1)' = n
    BY <1>7, <1>10, <1>11 DEF Parting
  <2> QED
    BY <1>7, <1>9, <1>11, <2>1 DEF Splits
<1>13. n + 1 < Len(root.key)
  <2>1. CASE root.key = key1
    <3>1. n < Len(key1) - 1
      BY <1>7, <1>12 DEF Kept
    <3> QED
      BY <1>3, <2>1, <3>1
  <2>2. CASE \E j \in Splits : Parting(j) = Len(root.key)
    <3>1. PICK j \in Splits : Parting(j) = Len(root.key)
      BY <2>2
    <3>2. j \in 1 .. N
      BY <1>5, HistoryGrows DEF Splits
    <3>3. j \in Splits' /\ Parting(j)' = Len(root.key)
      BY <1>5, <3>1, <3>2, PartingStays
    <3>4. (Parting(N + 1)' - Parting(j)') \notin -1 .. 1
      <4>1. N + 1 # j
        BY <1>11, <3>2
      <4> QED
        BY <1>12, <3>3, <4>1 DEF Kept
    <3>5. PICK length \in Nat : length = Len(root.key)
      BY <1>3
    <3>6. n - length \notin -1 .. 1
      BY <1>12, <3>3, <3>4, <3>5
    <3> QED
      BY <1>3, <3>5, <3>6
  <2> QED
    BY <1>6, <2>1, <2>2 DEF Parted
<1>14. nibbles[n + 1] \in Nibble
  <2>1. n + 1 \in 1 .. Len(nibbles)
    BY <1>3, <1>4
  <2> QED
    BY <1>4, <2>1, ElementOfSeq
<1>15. root.child \in database /\ IsNode(root.child)
  BY EmptyIs DEF TrieInv, RootShape, IsLeaf, IsExtension, IsNode
<1>16. IsSplit(root, n, nibbles[n + 1], extension, leaf, branch, root')
  BY <1>1, <1>3, <1>13, <1>14, <1>15 DEF SplitsAt, IsSplit
<1>17. /\ database \subseteq database' /\ {extension, leaf, branch} \subseteq database'
       /\ leaf = Leaf(<<>>, value)
  BY <1>1 DEF SplitsAt
<1>18. ASSUME NEW i \in 1 .. N
       PROVE  /\ InsertedKeys'[i] = InsertedKeys[i] /\ inserted'[i] = inserted[i]
              /\ InsertedKeys[i] \in Seq(Nibble) /\ Begins(root.key, InsertedKeys[i])
              /\ Leads(database, At(root, InsertedKeys[i]), inserted[i][2])
  <2>1. i \in DOMAIN inserted /\ InsertedKeys'[i] = InsertedKeys[i] /\ inserted'[i] = inserted[i]
    BY <1>5, HistoryGrows
  <2> QED
    BY <1>2, <1>5, <2>1, KeptKeys DEF Reading
<1>19. IsExtension(root') /\ Len(root'.key) = n /\ root'.child = branch
       /\ root'.key = SubSeq(root.key, 1, n)
  <2>1. IsExtension(root') /\ Len(root'.key) = n /\ root'.child = branch
    BY <1>16, SplitIs
  <2>2. root' = Extension(SubSeq(root.key, 1, n), branch)
    BY <1>1 DEF SplitsAt
  <2>3. root'.key = SubSeq(root.key, 1, n)
    BY <2>2 DEF Extension
  <2> QED
    BY <2>1, <2>3
<1>20. ASSUME NEW i \in 1 .. N
       PROVE  /\ Begins(root'.key, InsertedKeys'[i])
              /\ Leads(database', At(root', InsertedKeys'[i]), inserted'[i][2])
  <2>1. Leads(database', At(root', InsertedKeys[i]), inserted[i][2])
    <3>1. {extension, branch} \subseteq database'
      BY <1>17
    <3> QED
      BY <1>15, <1>16, <1>17, <1>18, <3>1, SplitLeadsOld
  <2>2. Begins(root'.key, InsertedKeys[i])
    BY <1>3, <1>18, <1>19, BeginsLess
  <2> QED
    BY <1>18, <2>1, <2>2
<1>21. /\ Begins(root'.key, nibbles) /\ Leads(database', At(root', nibbles), value)
  <2>1. Leads(database', At(root', nibbles), value)
    <3>1. {leaf, branch} \subseteq database'
      BY <1>17
    <3> QED
      BY <1>2, <1>4, <1>16, <1>17, <3>1, SplitLeadsNew
  <2>2. Begins(root'.key, nibbles)
    <3>1. SubSeq(nibbles, 1, n) = root'.key
      BY <1>1, <1>19 DEF SplitsAt
    <3>2. n <= Len(nibbles)
      BY <1>3, <1>4
    <3> QED
      BY <1>19, <3>1, <3>2 DEF Begins
  <2> QED
    BY <2>1, <2>2
<1>22. Reading'
  <2>1. ASSUME NEW i \in DOMAIN inserted'
        PROVE  /\ Begins(root'.key, InsertedKeys'[i])
               /\ Leads(database', At(root', InsertedKeys'[i]), inserted'[i][2])
    <3>1. i \in 1 .. N \/ i = N + 1
      BY <1>11
    <3>2. CASE i = N + 1
      BY <1>11, <1>21, <3>2
    <3> QED
      BY <1>20, <3>1, <3>2
  <2> QED
    BY <2>1 DEF Reading
<1>23. Parted'
  BY <1>12, <1>19 DEF Parted
<1>24. Grown'
  <2> SUFFICES ASSUME NEW m \in DOMAIN root'.child.children, IsLeaf(root'.child.children[m])
               PROVE  \E j \in Splits' : LeavesAt(j, m)'
    BY DEF Grown
  <2>1. /\ DOMAIN branch.children = {root.key[n + 1], nibbles[n + 1]}
        /\ branch.children[root.key[n + 1]] = extension /\ IsExtension(extension)
    BY <1>16, SplitIs
  <2>2. m = nibbles[n + 1]
    BY <1>19, <2>1 DEF IsLeaf, IsExtension
  <2>3. LeavesAt(N + 1, m)'
    BY <1>4, <1>11, <1>12, <1>19, <2>2 DEF LeavesAt
  <2> QED
    BY <1>12, <2>3
<1>25. inserted' # <<>>
  BY <1>5, <1>11
<1> QED
  BY <1>19, <1>22, <1>23, <1>24, <1>25 DEF Found, IsExtension

(* A leaf of a key that left the first where the root's extension ends is not *)
(* come to again: the new key would leave it there too.                      *)
LEMMA LeafIsNotGrown ==
    ASSUME TrieInv, NEW key \in Keys, NEW value \in Values, Insert(key, value), Kept',
           inserted # <<>>, IsExtension(root), Reading, Grown,
           NEW nibbles, nibbles = ConvertBytesToNibbles(key), SplitsLeaf(nibbles, value)
    PROVE  FALSE
<1>1. PICK rest, leaf, prefix, kept, branch, added, inner, extension, changed :
        SplitsThis(nibbles, value, rest, leaf, prefix, kept, branch, added, inner,
                   extension, changed)
  BY DEF SplitsLeaf
<1>2. Kept /\ nibbles \in Seq(Nibble)
  <2>1. key \in Seq(Byte)
    BY TrieAssumption DEF Byte
  <2> QED
    BY <2>1, NibblesAre, KeptBefore
<1>3. PICK n \in Nat : n = Len(root.key)
  BY DEF IsExtension
<1>4. n < Len(nibbles) /\ SubSeq(nibbles, 1, n) = root.key /\ rest = After(nibbles, n)
  BY <1>1, <1>3 DEF SplitsThis
<1>5. Begins(root.key, nibbles) /\ root.key \in Seq(Nibble)
  BY <1>2, <1>3, <1>4 DEF Begins, IsExtension
<1>6. rest[1] = nibbles[n + 1]
  BY <1>2, <1>3, <1>4, <1>5, RestIs
<1>7. rest[1] \in DOMAIN root.child.children /\ IsLeaf(root.child.children[rest[1]])
  <2>1. IsBranch(root.child)
    BY EmptyIs DEF TrieInv, RootShape, IsLeaf, IsExtension
  <2>2. branch = Load(root.child) /\ rest[1] \in DOMAIN branch.children
        /\ leaf = branch.children[rest[1]] /\ IsLeaf(leaf)
    BY <1>1 DEF SplitsThis
  <2> QED
    BY <2>1, <2>2, LoadedBranch
<1>8. PICK j \in Splits : LeavesAt(j, rest[1])
  BY <1>7 DEF Grown
<1>9. PICK N \in Nat : N = Len(inserted) /\ N >= 1
  <2>1. inserted \in Seq(Keys \X Values)
    BY DEF TrieInv
  <2> QED
    BY <2>1, EmptySeq
<1>10. j \in 1 .. N /\ 1 \in 1 .. N /\ 1 \in DOMAIN inserted
  BY <1>8, <1>9, HistoryGrows DEF Splits
<1>11. PICK key1, other : key1 = InsertedKeys[1] /\ other = InsertedKeys[j]
  OBVIOUS
<1>12. key1 \in Seq(Nibble) /\ other \in Seq(Nibble) /\ Begins(root.key, key1)
  BY <1>2, <1>9, <1>10, <1>11, KeptKeys DEF Reading
<1>13. /\ CommonLength(other, key1) = n /\ n < Len(key1)
       /\ n < Len(other) /\ other[n + 1] = rest[1]
  BY <1>3, <1>8, <1>11 DEF LeavesAt, Parting, Splits
<1>14. other[n + 1] # key1[n + 1]
  <2>1. \/ CommonLength(other, key1) = Len(other) \/ CommonLength(other, key1) = Len(key1)
        \/ other[CommonLength(other, key1) + 1] # key1[CommonLength(other, key1) + 1]
    BY <1>12, CommonLengthIs
  <2> QED
    BY <1>12, <1>13, <2>1
<1>15. \A i \in 1 .. n : nibbles[i] = key1[i]
  <2> TAKE i \in 1 .. n
  <2>1. nibbles[i] = root.key[i] /\ key1[i] = root.key[i]
    BY <1>2, <1>3, <1>5, <1>12, BeginsEqually
  <2> QED
    BY <2>1
<1>16. CommonLength(nibbles, key1) = n
  <2>1. nibbles[n + 1] # key1[n + 1]
    BY <1>6, <1>13, <1>14
  <2> QED
    BY <1>2, <1>4, <1>12, <1>13, <1>15, <2>1, PartsAt
<1>17. /\ InsertedKeys'[N + 1] = nibbles /\ InsertedKeys'[1] = key1
       /\ N + 1 \in DOMAIN inserted' /\ N + 1 # j
  <2>1. /\ InsertedKeys'[N + 1] = nibbles /\ InsertedKeys'[1] = key1
        /\ DOMAIN inserted' = 1 .. N + 1
    BY <1>9, <1>10, <1>11, HistoryGrows
  <2> QED
    BY <1>9, <1>10, <2>1
<1>18. Parting(N + 1)' = n /\ N + 1 \in Splits'
  <2>1. Parting(N + 1)' = n
    BY <1>16, <1>17 DEF Parting
  <2> QED
    BY <1>13, <1>17, <2>1 DEF Splits
<1>19. Parting(j)' = n /\ j \in Splits'
  <2>1. Parting(j) = n
    BY <1>3, <1>8 DEF LeavesAt
  <2> QED
    BY <1>8, <1>9, <1>10, <2>1, PartingStays
<1>20. (Parting(N + 1)' - Parting(j)') \notin -1 .. 1
  BY <1>17, <1>18, <1>19 DEF Kept
<1> QED
  BY <1>18, <1>19, <1>20

(* The third key goes on where the second ends, which went on where the first *)
(* did.                                                                      *)
LEMMA LeafSplitFound ==
    ASSUME TrieInv, NEW key \in Keys, NEW value \in Values, Insert(key, value), Kept',
           IsExtension(root), Reading, TwoKeys,
           NEW nibbles, nibbles = ConvertBytesToNibbles(key), SplitsLeaf(nibbles, value)
    PROVE  Found'
<1>1. PICK rest3, leaf, prefix, kept, branch, added, inner, extension, changed :
        SplitsThis(nibbles, value, rest3, leaf, prefix, kept, branch, added, inner,
                   extension, changed)
  BY DEF SplitsLeaf
<1>2. Kept /\ Survives(value) /\ nibbles \in Seq(Nibble)
  <2>1. key \in Seq(Byte)
    BY TrieAssumption DEF Byte
  <2> QED
    BY <2>1, NibblesAre, KeptBefore DEF Survives
<1>3. PICK key1, key2, value1, value2 :
        /\ key1 = InsertedKeys[1] /\ value1 = inserted[1][2]
        /\ key2 = InsertedKeys[2] /\ value2 = inserted[2][2]
  OBVIOUS
<1>4. Len(inserted) = 2 /\ DOMAIN inserted = {1, 2} /\ 1 \in 1 .. Len(inserted)
      /\ 2 \in 1 .. Len(inserted)
  <2>1. Len(inserted) = 2 /\ DOMAIN inserted = 1 .. Len(inserted)
    BY HistoryGrows DEF TwoKeys
  <2>2. 1 .. 2 = {1, 2} /\ 1 \in 1 .. 2 /\ 2 \in 1 .. 2
    OBVIOUS
  <2> QED
    BY <2>1, <2>2
<1>5. /\ key1 \in Seq(Nibble) /\ key1 # <<>> /\ Survives(value1)
      /\ key2 \in Seq(Nibble) /\ Survives(value2)
      /\ \E n \in Nat : Len(key1) = 2 * n
      /\ \E n \in Nat : Len(key2) = 2 * n
  BY <1>2, <1>3, <1>4, KeptKeys DEF Survives
<1>6. /\ root.key = key1 /\ Len(key1) < Len(key2) /\ Begins(key1, key2)
      /\ Len(key1) < Len(nibbles) /\ SubSeq(nibbles, 1, Len(key1)) = key1
      /\ rest3 = After(nibbles, Len(key1))
  <2>1. root.key = key1 /\ Len(key1) < Len(key2)
    BY <1>3 DEF TwoKeys
  <2>2. Begins(key1, key2)
    BY <1>3, <1>4, <2>1 DEF Reading
  <2> QED
    BY <1>1, <2>1, <2>2 DEF SplitsThis
<1>7. IsLonger(key1, key2) /\ IsLonger(key1, nibbles)
  <2>1. Len(key1) <= Len(nibbles)
    BY <1>2, <1>5, <1>6
  <2> QED
    BY <1>2, <1>5, <1>6, <2>1 DEF IsLonger, Begins
<1>8. PICK rest2 : rest2 = After(key2, Len(key1))
  OBVIOUS
<1>9. /\ rest2 \in Seq(Nibble) /\ rest2 # <<>> /\ rest2[1] \in Nibble
      /\ Len(rest2) = Len(key2) - Len(key1)
  BY <1>5, <1>7, <1>8, RestIs DEF IsLonger
<1>10. Len(rest2) >= 2 /\ Tail(rest2) # <<>>
  <2>1. PICK a \in Nat : Len(key1) = 2 * a
    BY <1>5
  <2>2. PICK b \in Nat : Len(key2) = 2 * b
    BY <1>5
  <2>3. Len(rest2) >= 2
    <3>1. 2 * b - 2 * a >= 2
      BY <1>6, <2>1, <2>2
    <3> QED
      BY <1>9, <2>1, <2>2, <3>1
  <2>4. PICK c \in Nat : c = Len(rest2)
    <3>1. Len(rest2) \in Nat
      BY <1>9
    <3> QED
      BY <3>1
  <2>5. Len(Tail(rest2)) = c - 1
    BY <1>9, <2>4, HeadTailProperties
  <2>6. Len(Tail(rest2)) # 0
    BY <2>3, <2>4, <2>5
  <2> QED
    BY <2>3, <2>6, EmptySeq
<1>11. PICK old : old = [x \in {rest2[1]} |-> Leaf(rest2, value2)]
  OBVIOUS
<1>12. root.child = Branch(old, value1)
  BY <1>3, <1>6, <1>8, <1>11 DEF TwoKeys, GoesOn
<1>13. branch = Branch(old, value1)
  <2>1. branch = Load(root.child)
    BY <1>1 DEF SplitsThis
  <2> QED
    BY <1>5, <1>12, <2>1, BranchIsReread DEF Survives
<1>14. branch.children = old /\ branch.value = value1
  BY <1>13 DEF Branch
<1>15. rest3[1] = rest2[1] /\ leaf = Leaf(rest2, value2)
  <2>1. rest3[1] \in DOMAIN branch.children /\ leaf = branch.children[rest3[1]]
    BY <1>1 DEF SplitsThis
  <2> QED
    BY <1>11, <1>14, <2>1
<1>16. KeyReread(rest2) = rest2
  BY <1>9, <1>10, KeyIsReread
<1>17. Load(leaf) = Leaf(rest2, value2)
  <2>1. Load(Leaf(rest2, value2)) = TwoItems(KeyReread(rest2), Reread(value2))
    BY DEF Load, Leaf
  <2> QED
    BY <1>5, <1>15, <1>16, <2>1, ValueIsReread DEF Survives
<1>18. kept = value2 /\ prefix = Tail(rest2)
  <2>1. Load(leaf) = Leaf(KeyReread(leaf.key), kept) /\ prefix = After(KeyReread(leaf.key), 1)
    BY <1>1 DEF SplitsThis
  <2>2. leaf.key = rest2
    BY <1>15 DEF Leaf
  <2>3. prefix = After(rest2, 1)
    BY <1>16, <2>1, <2>2
  <2>4. Leaf(rest2, kept) = Leaf(rest2, value2)
    BY <1>16, <1>17, <2>1, <2>2
  <2> QED
    BY <1>9, <2>3, <2>4, AfterOne DEF Leaf
<1>19. PICK children : children = [old EXCEPT ![rest3[1]] = extension]
  OBVIOUS
<1>20. DOMAIN children = {rest2[1]} /\ children[rest2[1]] = extension
  BY <1>11, <1>15, <1>19
<1>21. /\ added = Leaf(Tail(rest3), value) /\ extension = Extension(prefix, inner)
       /\ inner = Branch([n \in {Tail(rest3)[Len(prefix) + 1]} |-> added], kept)
       /\ changed = Branch([branch.children EXCEPT ![rest3[1]] = extension], branch.value)
       /\ root' = Extension(root.key, changed)
       /\ {added, inner, extension, changed} \subseteq database'
       /\ Len(prefix) < Len(Tail(rest3)) /\ SubSeq(Tail(rest3), 1, Len(prefix)) = prefix
  BY <1>1 DEF SplitsThis
<1>22. Begins(prefix, Tail(rest3))
  <2>1. rest3 \in Seq(Nibble) /\ rest3 # <<>>
    BY <1>5, <1>6, <1>7, RestIs DEF IsLonger
  <2>2. Tail(rest3) \in Seq(Nibble) /\ Tail(rest2) \in Seq(Nibble)
    BY <1>9, <2>1, HeadTailProperties
  <2>3. Len(prefix) <= Len(Tail(rest3))
    BY <1>18, <1>21, <2>2
  <2> QED
    BY <1>21, <2>3 DEF Begins
<1>23. HasSplit(key1, value1, key2, value2, nibbles, value, rest2, rest3,
                added, inner, extension, children, changed, root')
  <2>1. /\ key1 \in Seq(Nibble) /\ key1 # <<>> /\ IsLonger(key1, key2)
        /\ IsLonger(key1, nibbles) /\ Survives(value1) /\ Survives(value2) /\ Survives(value)
    BY <1>2, <1>5, <1>7
  <2>2. /\ rest2 = After(key2, Len(key1)) /\ Tail(rest2) # <<>>
        /\ rest3 = After(nibbles, Len(key1)) /\ rest3[1] = rest2[1]
    BY <1>6, <1>8, <1>10, <1>15
  <2>3. Len(Tail(rest2)) < Len(Tail(rest3)) /\ Begins(Tail(rest2), Tail(rest3))
    BY <1>18, <1>21, <1>22
  <2>4. /\ added = Leaf(Tail(rest3), value)
        /\ inner = Branch([x \in {Tail(rest3)[Len(Tail(rest2)) + 1]} |-> added], value2)
        /\ extension = Extension(Tail(rest2), inner)
    BY <1>18, <1>21
  <2>5. changed = Branch(children, value1) /\ root' = Extension(key1, changed)
    BY <1>6, <1>14, <1>19, <1>21
  <2> QED
    BY <1>20, <2>1, <2>2, <2>3, <2>4, <2>5 DEF HasSplit
<1>24. /\ Leads(database', At(root', key1), value1)
       /\ Leads(database', At(root', key2), value2)
       /\ Leads(database', At(root', nibbles), value)
  BY <1>21, <1>23, LeafSplitLeads
<1>25. /\ InsertedKeys'[1] = key1 /\ inserted'[1][2] = value1
       /\ InsertedKeys'[2] = key2 /\ inserted'[2][2] = value2
       /\ InsertedKeys'[3] = nibbles /\ inserted'[3][2] = value
       /\ DOMAIN inserted' = {1, 2, 3} /\ inserted' # <<>>
  <2>1. /\ InsertedKeys'[3] = nibbles /\ inserted'[3] = <<key, value>>
        /\ DOMAIN inserted' = 1 .. 3 /\ Len(inserted') = 3
    <3>1. Len(inserted) + 1 = 3
      BY <1>4
    <3> QED
      BY <3>1, HistoryGrows
  <2>2. /\ InsertedKeys'[1] = key1 /\ inserted'[1] = inserted[1]
        /\ InsertedKeys'[2] = key2 /\ inserted'[2] = inserted[2]
    BY <1>3, <1>4, HistoryGrows
  <2>3. 1 .. 3 = {1, 2, 3}
    OBVIOUS
  <2> QED
    BY <1>3, <2>1, <2>2, <2>3
<1>26. IsExtension(root') /\ root'.key = key1 /\ root'.child = changed
  <2>1. root' = Extension(key1, changed)
    BY <1>6, <1>21
  <2> QED
    BY <1>5, <2>1, MadeExtension
<1>27. Begins(root'.key, key1) /\ Begins(root'.key, key2) /\ Begins(root'.key, nibbles)
  BY <1>5, <1>7, <1>26, BeginsItself DEF IsLonger
<1>28. Reading'
  <2>1. ASSUME NEW i \in DOMAIN inserted'
        PROVE  /\ Begins(root'.key, InsertedKeys'[i])
               /\ Leads(database', At(root', InsertedKeys'[i]), inserted'[i][2])
    <3>1. i = 1 \/ i = 2 \/ i = 3
      BY <1>25
    <3> QED
      BY <1>24, <1>25, <1>27, <3>1
  <2> QED
    BY <2>1 DEF Reading
<1>29. Parted'
  BY <1>25, <1>26 DEF Parted
<1>30. Grown'
  <2>1. DOMAIN root'.child.children = {rest2[1]}
        /\ root'.child.children[rest2[1]] = extension
    <3>1. changed = Branch(children, value1)
      BY <1>14, <1>19, <1>21
    <3> QED
      BY <1>20, <1>26, <3>1 DEF Branch
  <2>2. extension.type = "EXTENSION_NODE"
    BY <1>21 DEF Extension
  <2> QED
    BY <2>1, <2>2 DEF Grown, IsLeaf
<1> QED
  BY <1>25, <1>26, <1>28, <1>29, <1>30 DEF Found, IsExtension

KeptInv == Kept => Found

LEMMA InsertFinds ==
    ASSUME TrieInv, KeptInv, NEW key \in Keys, NEW value \in Values, Insert(key, value)
    PROVE  KeptInv'
<1> SUFFICES ASSUME Kept' PROVE Found'
  BY DEF KeptInv
<1>1. PICK nibbles : nibbles = ConvertBytesToNibbles(key)
  OBVIOUS
<1>2. Found /\ nibbles # <<>>
  BY <1>1, KeptBefore DEF KeptInv
<1>3. nibbles \in Seq(Nibble) /\ Takes(Inserting(nibbles, value))
  <2>1. key \in Seq(Byte)
    BY TrieAssumption DEF Byte
  <2> QED
    BY <1>1, <2>1, NibblesAre DEF Insert
<1>4. \/ root = Empty /\ root' = Leaf(nibbles, value)
      \/ ExtendsLeaf(nibbles, value)
      \/ SplitsRoot(nibbles, value)
      \/ SplitsLeaf(nibbles, value)
  BY <1>2, <1>3, WaysToInsert
<1>5. ExtendsLeaf(nibbles, value) => root.type = "LEAF_NODE"
  BY DEF ExtendsLeaf, IsLeaf
<1>6. SplitsRoot(nibbles, value) => root.type = "EXTENSION_NODE"
  BY DEF SplitsRoot, SplitsAt, IsExtension
<1>7. SplitsLeaf(nibbles, value) => root.type = "EXTENSION_NODE"
  <2> SUFFICES ASSUME SplitsLeaf(nibbles, value) PROVE root.type = "EXTENSION_NODE"
    OBVIOUS
  <2>1. PICK rest, leaf, prefix, kept, branch, added, inner, extension, changed :
          SplitsThis(nibbles, value, rest, leaf, prefix, kept, branch, added, inner,
                     extension, changed)
    BY DEF SplitsLeaf
  <2> QED
    BY <2>1 DEF SplitsThis, IsExtension
<1>8. CASE inserted = <<>> /\ root = Empty
  <2>1. root' = Leaf(nibbles, value)
    BY <1>4, <1>5, <1>6, <1>7, <1>8, EmptyIs
  <2> QED
    BY <1>1, <1>8, <2>1, FirstFound
<1>9. CASE Len(inserted) = 1 /\ root = Leaf(InsertedKeys[1], inserted[1][2])
  <2>1. root.type = "LEAF_NODE"
    BY <1>9 DEF Leaf
  <2>2. ExtendsLeaf(nibbles, value)
    BY <1>4, <1>6, <1>7, <2>1, EmptyIs
  <2> QED
    BY <1>1, <1>9, <2>2, SecondFound
<1>10. CASE /\ inserted # <<>> /\ IsExtension(root)
            /\ Reading /\ Parted /\ (TwoKeys \/ Grown)
  <2>1. SplitsRoot(nibbles, value) \/ SplitsLeaf(nibbles, value)
    BY <1>4, <1>5, <1>10, EmptyIs DEF IsExtension
  <2>2. CASE SplitsRoot(nibbles, value)
    BY <1>1, <1>10, <2>2, SplitFound
  <2>3. CASE SplitsLeaf(nibbles, value) /\ TwoKeys
    BY <1>1, <1>10, <2>3, LeafSplitFound
  <2>4. CASE SplitsLeaf(nibbles, value) /\ Grown
    BY <1>1, <1>10, <2>4, LeafIsNotGrown
  <2> QED
    BY <1>10, <2>1, <2>2, <2>3, <2>4
<1> QED
  BY <1>2, <1>8, <1>9, <1>10 DEF Found

LEMMA KeptInvNext == TrieInv /\ KeptInv /\ [Next]_vars => KeptInv'
<1> SUFFICES ASSUME TrieInv, KeptInv, [Next]_vars PROVE KeptInv'
  OBVIOUS
<1>1. CASE \E key \in Keys, value \in Values : Insert(key, value)
  BY <1>1, InsertFinds
<1>2. CASE UNCHANGED <<root, database, inserted>>
  <2>1. InsertedKeys' = InsertedKeys
    BY <1>2 DEF InsertedKeys
  <2>2. \A i : Parting(i)' = Parting(i)
    BY <2>1 DEF Parting
  <2>3. Splits' = Splits
    BY <1>2, <2>1, <2>2 DEF Splits
  <2>4. Kept' => Kept
    BY <1>2, <2>1, <2>2, <2>3 DEF Kept
  <2>5. Found => Found'
    <3>1. Reading => Reading'
      BY <1>2, <2>1 DEF Reading
    <3>2. Parted => Parted'
      BY <1>2, <2>1, <2>2, <2>3 DEF Parted
    <3>3. TwoKeys => TwoKeys'
      BY <1>2, <2>1 DEF TwoKeys, GoesOn
    <3>4. Grown => Grown'
      BY <1>2, <2>1, <2>2, <2>3 DEF Grown, LeavesAt
    <3> QED
      BY <1>2, <2>1, <3>1, <3>2, <3>3, <3>4 DEF Found
  <2> QED
    BY <2>4, <2>5 DEF KeptInv
<1> QED
  BY <1>1, <1>2 DEF Next, InsertThrows, vars

LEMMA FoundRead ==
    ASSUME TrieInv, Kept, Found, NEW i \in DOMAIN inserted
    PROVE  Traverse(inserted[i][1]) = inserted[i][2]
<1>1. PICK place : place = At(root, InsertedKeys[i])
  OBVIOUS
<1>2. /\ InsertedKeys[i] = ConvertBytesToNibbles(inserted[i][1])
      /\ InsertedKeys[i] \in Seq(Nibble) /\ i \in 1 .. Len(inserted)
  <2>1. i \in 1 .. Len(inserted)
    BY DEF TrieInv
  <2> QED
    BY <2>1, KeptKeys DEF InsertedKeys
<1>3. place.node = root /\ place.key = InsertedKeys[i]
  BY <1>1, PlaceIs
<1>4. Leads(database, place, inserted[i][2])
  <2>1. inserted # <<>>
    OBVIOUS
  <2>2. CASE Len(inserted) = 1 /\ root = Leaf(InsertedKeys[1], inserted[1][2])
    <3>1. i = 1
      BY <1>2, <2>2
    <3>2. EndsWith(place, inserted[i][2])
      BY <1>3, <2>2, <3>1 DEF EndsWith, Settled, Leaf
    <3> QED
      BY <3>2, LeadsHere
  <2>3. CASE Reading
    BY <1>1, <2>3 DEF Reading
  <2> QED
    BY <2>1, <2>2, <2>3 DEF Found
<1>5. \A node \in database : IsNode(node)
  BY DEF TrieInv, Stored, IsNode
<1>6. IsPlace(place)
  BY <1>2, <1>3, EmptyIs DEF IsPlace, TrieInv, RootShape, IsLeaf, IsExtension
<1>7. ValueOf(Walk(database, place)[Len(place.key)].node) = inserted[i][2]
  BY <1>4, <1>5, <1>6, LeadsReads
<1> QED
  BY <1>1, <1>2, <1>3, <1>7 DEF Traverse

(* Every key of a history the trie keeps reads back the value it was inserted *)
(* with (RewriteMerklePatriciaTrie.insert, traverse).                        *)
THEOREM InsertedIsFound == Spec => []ReadsBack
<1>1. Init => KeptInv
  BY DEF Init, KeptInv, Found
<1>2. Spec => []KeptInv
  BY <1>1, KeptInvNext, TrieInvHolds, PTL DEF Spec
<1>3. TrieInv /\ KeptInv => ReadsBack
  BY FoundRead DEF ReadsBack, KeptInv
<1> QED
  BY <1>2, <1>3, TrieInvHolds, PTL
=============================================================================
