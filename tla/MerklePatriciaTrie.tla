-------------------------- MODULE MerklePatriciaTrie --------------------------
(***************************************************************************)
(* RewriteMerklePatriciaTrie: insert and traverse over a database of nodes   *)
(* kept by their hash.  A key is its nibbles, a value its bytes.  A reference*)
(* to a node is the node: the hash stands for what was stored, and a node is *)
(* found when the database has it.  What is loaded need not be what was      *)
(* stored: a node is two or seventeen items of RLP, and is guessed from      *)
(* what they decode to.                                                     *)
(***************************************************************************)
EXTENDS RlpItems, FiniteSets

CONSTANTS
    Keys,           \* keys to insert, as bytes
    Values,         \* values to insert, as bytes
    MaxInserts      \* bound: calls of insert

ASSUME TrieAssumption ==
    /\ Keys \subseteq Seq(0..255) /\ Values \subseteq Seq(0..255)
    /\ MaxInserts \in Nat

VARIABLES
    root,           \* RewriteMerklePatriciaTrie.root
    database,       \* what is stored in it
    inserted,       \* calls of insert that returned: key and value
    calls           \* calls of insert

vars == <<root, database, inserted, calls>>

----------------------------------------------------------------------------
(* Nodes *)

Empty == [type |-> "EMPTY_NODE"]
Leaf(key, value) == [type |-> "LEAF_NODE", key |-> key, value |-> value]
Extension(key, child) == [type |-> "EXTENSION_NODE", key |-> key, child |-> child]
Branch(children, value) ==
    [type |-> "BRANCH_NODE", children |-> children, value |-> value]

\* What an extension refers to when a leaf was taken for one.
Lost == [type |-> "UNKNOWN"]

ConvertBytesToNibbles(bytes) ==
    [i \in 1..(2 * Len(bytes)) |->
        IF i % 2 = 1 THEN bytes[(i + 1) \div 2] \div 16 ELSE bytes[i \div 2] % 16]

\* A Buffer written as an item and read again.
Reread(bytes) == DecodeItem(EncodeBytes(bytes).bytes, 1).value

\* A key of one nibble is read as a number, and is lost.
KeyOf(item) ==
    CASE "hex" \in DOMAIN item -> item.hex
      [] "text" \in DOMAIN item -> BufferFromHex(item.text)
      [] OTHER -> <<>>
KeyReread(key) == KeyOf(Reread(key))

\* convertRlpNodeToNode.  Two items whose value reads as hex are an extension;
\* what refers to a node always does.
TwoItems(key, item) ==
    CASE "hex" \in DOMAIN item -> Extension(key, Lost)
      [] "text" \in DOMAIN item ->
            IF BeginsAsHex(item.text) THEN Extension(key, Lost) ELSE Leaf(key, item.text)
      [] OTHER -> Leaf(key, <<>>)

SeventeenItems(children, item) ==
    Branch(children, CASE "hex" \in DOMAIN item -> HexLetters(item.hex)
                       [] "text" \in DOMAIN item -> item.text
                       [] OTHER -> <<>>)

Load(node) ==
    CASE node.type = "LEAF_NODE" -> TwoItems(KeyReread(node.key), Reread(node.value))
      [] node.type = "EXTENSION_NODE" -> Extension(KeyReread(node.key), node.child)
      [] node.type = "BRANCH_NODE" -> SeventeenItems(node.children, Reread(node.value))

----------------------------------------------------------------------------
(* GetCommonPrefixResult: where two keys part, and whether the first is a    *)
(* part of the second.                                                      *)

After(key, n) == SubSeq(key, n + 1, Len(key))

CommonLength(key1, key2) ==
    CHOOSE n \in 0..Len(key1) :
        /\ n <= Len(key2)
        /\ SubSeq(key1, 1, n) = SubSeq(key2, 1, n)
        /\ n < Len(key1) /\ n < Len(key2) => key1[n + 1] # key2[n + 1]
        /\ n = Len(key1) \/ n = Len(key2) \/ key1[n + 1] # key2[n + 1]

CommonPrefix(key1, key2) ==
    LET n == CommonLength(key1, key2)
    IN  [prefix |-> SubSeq(key1, 1, n),
         type |-> IF key1 = key2 THEN "EQUAL"
                  ELSE IF n = Len(key2) THEN "KEY2_PREFIX"
                  ELSE IF n = Len(key1) THEN "KEY1_PREFIX"
                  ELSE IF n = 0 THEN "NO_PREFIX"
                  ELSE "undefined"]

----------------------------------------------------------------------------
(* SwapNodeHelper: the node that takes the place of one, and what was stored. *)

Changed(node, stored) == [node |-> node, stored |-> stored, ok |-> TRUE]
Threw == [node |-> Empty, stored |-> {}, ok |-> FALSE]

\* Seeded fault: the leaf is referred to and not stored.
SwapLeafWithExtensionUnstored(node, key, value, prefix) ==
    LET leaf == Leaf(After(key, Len(prefix)), value)
        branch == Branch([n \in {leaf.key[1]} |-> leaf], node.value)
    IN  Changed(Extension(prefix, branch), {branch})

\* The new leaf keeps the nibble the branch has it under.
SwapLeafWithExtension(node, key, value, prefix) ==
    LET leaf == Leaf(After(key, Len(prefix)), value)
        branch == Branch([n \in {leaf.key[1]} |-> leaf], node.value)
    IN  Changed(Extension(prefix, branch), {leaf, branch})

\* Seeded fault: the old extension keeps the nibble the branch has it under.
SwapExtensionKept(node, key, value, prefix) ==
    LET old == After(node.key, Len(prefix))
        extension == Extension(old, node.child)
        leaf == Leaf(<<>>, value)
        branch == Branch([n \in {old[1], key[Len(prefix) + 1]} |->
                             IF n = old[1] THEN extension ELSE leaf], <<>>)
    IN  Changed(Extension(prefix, branch), {extension, leaf, branch})

\* The new leaf has no key, the old extension what is after its nibble.
SwapExtensionWithBranch(node, key, value, prefix) ==
    LET old == After(node.key, Len(prefix))
        extension == Extension(Tail(old), node.child)
        leaf == Leaf(<<>>, value)
        branch == Branch([n \in {old[1], key[Len(prefix) + 1]} |->
                             IF n = old[1] THEN extension ELSE leaf], <<>>)
    IN  Changed(Extension(prefix, branch), {extension, leaf, branch})

\* key is what is after the nibble of the branch, and all of it is the key of
\* the new leaf.
SwapLeafOnBranch(branch, nibble, leaf, key, value, prefix) ==
    LET added == Leaf(key, value)
        inner == Branch([n \in {key[Len(prefix) + 1]} |-> added], leaf.value)
        extension == Extension(prefix, inner)
        changed == Branch([branch.children EXCEPT ![nibble] = extension], branch.value)
    IN  IF After(leaf.key, 1 + Len(prefix)) # <<>> THEN Threw
        ELSE Changed(changed, {added, inner, extension, changed})

----------------------------------------------------------------------------
(* insert, the callback it gives to SimpleTrie and what SimpleTrie makes of   *)
(* the nodes it returns.                                                     *)

InsertAtLeaf(node, key, value) ==
    LET common == CommonPrefix(node.key, key)
    IN  IF common.type = "KEY1_PREFIX"
        THEN SwapLeafWithExtension(node, key, value, common.prefix)
        ELSE Threw

InsertAtChild(node, child, key, value) ==
    LET common == CommonPrefix(After(child.key, 1), Tail(key))
    IN  IF child.type = "LEAF_NODE" /\ common.type = "KEY1_PREFIX"
        THEN SwapLeafOnBranch(node, key[1], child, Tail(key), value, common.prefix)
        ELSE Threw

\* A nibble the branch has nothing under is not asked for: an empty Buffer is
\* taken for a reference.
InsertAtBranch(node, key, value) ==
    IF key[1] \notin DOMAIN node.children THEN Threw
    ELSE InsertAtChild(node, Load(node.children[key[1]]), key, value)

\* mergeChanges: the extension refers to the branch that took the place of its
\* own.
MergeChanges(node, inner) ==
    IF inner.ok THEN Changed(Extension(node.key, inner.node), inner.stored) ELSE Threw

InsertAtExtension(node, key, value) ==
    LET common == CommonPrefix(node.key, key)
    IN  CASE common.type = "undefined" ->
                SwapExtensionWithBranch(node, key, value, common.prefix)
          [] common.type = "KEY1_PREFIX" ->
                MergeChanges(node, InsertAtBranch(Load(node.child),
                                                  After(key, Len(node.key)), value))
          [] OTHER -> Threw

Inserting(key, value) ==
    IF key = <<>> THEN Changed(root, {})
    ELSE CASE root.type = "EMPTY_NODE" -> Changed(Leaf(key, value), {})
           [] root.type = "LEAF_NODE" -> InsertAtLeaf(root, key, value)
           [] root.type = "EXTENSION_NODE" -> InsertAtExtension(root, key, value)

----------------------------------------------------------------------------
(* traverse: a leaf is what is asked for whatever is left of the key, and an  *)
(* extension without a key is passed for one nibble.                         *)

Thrown == [thrown |-> TRUE]

\* What a node has for a value: an extension, its reference.
ValueOf(node) == IF node.type \in {"LEAF_NODE", "BRANCH_NODE"} THEN node.value ELSE Thrown

At(node, key) == [node |-> node, key |-> key]

\* One turn of the loop over what is stored, which goes on while there is a
\* key left.
Step(nodes, place) ==
    LET node == place.node  key == place.key
    IN  IF key = <<>> \/ node.type = "LEAF_NODE" THEN place
        ELSE CASE node.type = "BRANCH_NODE" ->
                     IF key[1] \in DOMAIN node.children /\ node.children[key[1]] \in nodes
                     THEN At(Load(node.children[key[1]]), Tail(key))
                     ELSE At(Lost, <<>>)
               [] node.type = "EXTENSION_NODE" ->
                     IF node.child \in nodes
                     THEN At(Load(node.child),
                             After(key, IF node.key = <<>> THEN 1 ELSE Len(node.key)))
                     ELSE At(Lost, <<>>)
               [] OTHER -> At(Lost, <<>>)

\* A turn takes at least a nibble, unless it is the last.
Walk(nodes, place) ==
    LET walk[n \in 0..Len(place.key)] ==
            IF n = 0 THEN place ELSE Step(nodes, walk[n - 1])
    IN  walk

Traverse(key) ==
    LET nibbles == ConvertBytesToNibbles(key)
    IN  ValueOf(Walk(database, At(root, nibbles))[Len(nibbles)].node)

----------------------------------------------------------------------------
(* Node.hash: the key of the root, with a flag for its length and its kind.   *)

OddLength(key) == Len(key) % 2
LowByte(n) == n % 256
InPairs(nibbles) ==
    [i \in 1..(Len(nibbles) \div 2) |-> LowByte(16 * nibbles[2 * i - 1] + nibbles[2 * i])]

\* Seeded fault: an odd key is not told from an even one.
EncodeNibblesEven(key, isLeaf) ==
    LET flag == IF isLeaf THEN 32 ELSE 0
    IN  InPairs(IF OddLength(key) = 1 THEN <<flag>> \o key ELSE <<0, flag>> \o key)

\* The flag of a leaf is 0x20, a nibble too many when the key is odd.
EncodeNibbles(key, isLeaf) ==
    LET flag == OddLength(key) + (IF isLeaf THEN 32 ELSE 0)
    IN  InPairs(IF OddLength(key) = 1 THEN <<flag>> \o key ELSE <<0, flag>> \o key)

Terminator == 16
AddTerminator(key) == Append(key, Terminator)

PackNibbles(key) ==
    LET isLeaf == key # <<>> /\ Last(key) = Terminator
        nibbles == IF isLeaf THEN Front(key) ELSE key
        flag == (IF isLeaf THEN 2 ELSE 0) + OddLength(nibbles)
    IN  InPairs(IF OddLength(nibbles) = 1 THEN <<flag>> \o nibbles
                ELSE <<flag, 0>> \o nibbles)

UnpackNibbles(bytes) ==
    LET nibbles == ConvertBytesToNibbles(bytes)
    IN  After(nibbles, IF nibbles[1] % 2 = 1 THEN 1 ELSE 2)

----------------------------------------------------------------------------
Init ==
    /\ root = Empty
    /\ database = {}
    /\ inserted = <<>>
    /\ calls = 0

Takes(result) ==
    /\ result.ok
    /\ root' = result.node
    /\ database' = database \cup result.stored

Insert(key, value) ==
    /\ calls < MaxInserts
    /\ calls' = calls + 1
    /\ Takes(Inserting(ConvertBytesToNibbles(key), value))
    /\ inserted' = Append(inserted, <<key, value>>)

\* Nothing is stored before what throws.
InsertThrows(key, value) ==
    /\ calls < MaxInserts
    /\ calls' = calls + 1
    /\ ~Inserting(ConvertBytesToNibbles(key), value).ok
    /\ UNCHANGED <<root, database, inserted>>

Next ==
    \E key \in Keys, value \in Values : Insert(key, value) \/ InsertThrows(key, value)

Spec == Init /\ [][Next]_vars

----------------------------------------------------------------------------
(* Properties *)

\* The nodes a node refers to.
References(node) ==
    CASE node.type = "EXTENSION_NODE" -> {node.child}
      [] node.type = "BRANCH_NODE" -> {node.children[n] : n \in DOMAIN node.children}
      [] OTHER -> {}

\* The root is empty, a leaf or an extension of at least one nibble; a branch
\* never has more than two children; keys are nibbles.
TypeOK ==
    /\ root.type \in {"EMPTY_NODE", "LEAF_NODE", "EXTENSION_NODE"}
    /\ root # Empty => root.key \in Seq(0..15) /\ root.key # <<>>
    /\ \A node \in database :
          /\ node.type \in {"LEAF_NODE", "EXTENSION_NODE"} => node.key \in Seq(0..15)
          /\ node.type = "BRANCH_NODE" => Cardinality(DOMAIN node.children) \in 1..2
    /\ Len(inserted) <= calls

\* Whatever was inserted, every node the root leads to is in the database: a
\* node is stored before its nodeKey is written into another (SwapNodeHelper,
\* mergeChanges).
NothingDangles == \A node \in database \cup {root} : References(node) \subseteq database

\* Values that are read as they are written.
ValueSurvives(value) ==
    Len(value) # 1 /\ ~NotAscii(value) /\ ~BeginsAsHex(value)

\* The keys, in nibbles, and where those that do not extend the first leave it.
InsertedKeys == [i \in DOMAIN inserted |-> ConvertBytesToNibbles(inserted[i][1])]
Parting(i) == CommonLength(InsertedKeys[i], InsertedKeys[1])
Splits == {i \in DOMAIN inserted : Parting(i) < Len(InsertedKeys[1])}

\* A history of inserts the trie keeps: no key is empty; keys leave the first
\* key at nibbles that are not next to each other, nor the last.
Kept ==
    /\ \A i \in DOMAIN inserted :
          inserted[i][1] # <<>> /\ ValueSurvives(inserted[i][2])
    /\ \A i \in Splits : Parting(i) < Len(InsertedKeys[1]) - 1
    /\ \A i, j \in Splits : i # j => (Parting(i) - Parting(j)) \notin -1..1

\* Every key that insert took reads back its value, through every leaf that
\* became an extension and every extension that was split after it: traverse
\* goes by the same nibbles as insert though keys of one nibble and the nibble
\* of a branch are kept or lost by node (the two TODOs on them).
ReadsBack ==
    Kept => \A i \in DOMAIN inserted : Traverse(inserted[i][1]) = inserted[i][2]

\* The key of the root in its hash (Node.hash) is the hex prefix encoding of
\* the Yellow Paper, as packNibbles has it, and unpackNibbles gives it back:
\* only a root leaf has the terminator, and its key is even.
RootKeyPacked ==
    root # Empty =>
        LET isLeaf == root.type = "LEAF_NODE"
            packed == EncodeNibbles(root.key, isLeaf)
        IN  /\ packed = PackNibbles(IF isLeaf THEN AddTerminator(root.key) ELSE root.key)
            /\ UnpackNibbles(packed) = root.key
=============================================================================
