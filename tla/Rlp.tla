----------------------------------- MODULE Rlp -----------------------------------
(***************************************************************************)
(* RLP's lists, which hold items and lists, and what a reader makes of the   *)
(* items of one.                                                            *)
(***************************************************************************)
EXTENDS RlpItems

----------------------------------------------------------------------------
(* RlpEncoder.  An encoding comes with its length, which a list adds up; it *)
(* is not always the number of bytes.                                      *)

HexDigits(n) == IF n < 16 THEN 1 ELSE IF n < 256 THEN 2 ELSE IF n < 4096 THEN 3 ELSE 4

\* What is before the items of a list: the long form has one byte of length,
\* whatever it says.
ListHead(length) ==
    IF length < 55 THEN <<192 + length>>
    ELSE <<247 + (HexDigits(length) + 1) \div 2, length % 256>>

Total(numbers) == FoldLeft(+, 0, numbers)

RECURSIVE Encode(_)

\* Seeded fault: the head of a list inside a list is not counted.
EncodeListHeadless(items) ==
    LET encoded == [i \in DOMAIN items |-> Encode(items[i])]
        length == Total([i \in DOMAIN items |-> encoded[i].length])
        bytes == FlattenSeq([i \in DOMAIN items |-> encoded[i].bytes])
    IN  Encoding(ListHead(length) \o bytes, IF length < 55 THEN length ELSE 3)

\* A list returns the length of what is in it, or 3 in the long form; its
\* list adds one for the head.
EncodeList(items) ==
    LET encoded == [i \in DOMAIN items |-> Encode(items[i])]
        length == Total([i \in DOMAIN items |->
                          encoded[i].length + (IF IsList(items[i]) THEN 1 ELSE 0)])
        bytes == FlattenSeq([i \in DOMAIN items |-> encoded[i].bytes])
    IN  Encoding(ListHead(length) \o bytes, IF length < 55 THEN length ELSE 3)

Encode(v) ==
    CASE IsBytes(v) -> EncodeBytes(v.bytes)
      [] IsTruth(v) -> EncodeTruth(v.boolean)
      [] IsAmount(v) -> EncodeAmount(v.number)
      [] IsList(v) -> EncodeList(v.items)

Encoded(v) == Encode(v).bytes

----------------------------------------------------------------------------
(* RlpDecoder.                                                             *)

RECURSIVE Decode(_, _), DecodeItems(_, _, _, _)

\* The items of a list, while the index is not beyond the last.
DecodeItems(bytes, from, last, items) ==
    LET item == Decode(bytes, from)
    IN  IF from > last THEN Decoded(List(items), from)
        ELSE IF ~item.ok THEN Undecoded
        ELSE DecodeItems(bytes, item.next, last, Append(items, item.value))

\* The last byte of a long list is one after the length, also when the
\* length takes two.
DecodeList(bytes, from) ==
    LET first == bytes[from]
        size == first - 247
        length == ToNumber(Cut(bytes, from + 1, from + size))
    IN  IF first > 247
        THEN DecodeItems(bytes, from + 1 + size, from + 1 + length, <<>>)
        ELSE DecodeItems(bytes, from + 1, from + first - 192, <<>>)

\* The first of the decoders that knows the byte.
Decode(bytes, from) ==
    CASE from > Len(bytes) -> Undecoded
      [] bytes[from] >= 192 -> DecodeList(bytes, from)
      [] OTHER -> DecodeItem(bytes, from)

----------------------------------------------------------------------------
(* ReadOutRlp: what a reader asks an item of a list to be.  A text that      *)
(* begins with 0x is taken for a hex text.                                 *)

\* convertToBuffer
AsBuffer(item) ==
    CASE "hex" \in DOMAIN item -> item.hex
      [] IsTruth(item) -> <<0>>
      [] IsAmount(item) -> <<item.number>>
      [] OTHER -> IF BeginsAsHex(item.text) THEN BufferFromHex(item.text)
                  ELSE item.text

\* convertToNumber; a boolean is left as it is, and counts as nothing.
AsNumber(item) ==
    CASE "hex" \in DOMAIN item -> ToNumber(item.hex)
      [] IsTruth(item) -> 0
      [] IsAmount(item) -> item.number
      [] OTHER -> IF BeginsAsHex(item.text) THEN ParseHex(item.text)
                  ELSE ToNumber(item.text)
=============================================================================
