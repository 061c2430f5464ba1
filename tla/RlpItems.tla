-------------------------------- MODULE RlpItems --------------------------------
(***************************************************************************)
(* RLP's single items, as this repository writes and reads them.  A value to *)
(* encode is a record with one field: bytes (a Buffer, or the character      *)
(* codes of a string), number, boolean or items.  What the decoder makes of *)
(* bytes are JavaScript values: a number, a boolean, a text, a hex text or a *)
(* list; it does not know what was written, and guesses by the first byte    *)
(* and by what the bytes would be as ASCII.                                  *)
(***************************************************************************)
EXTENDS Integers, SequencesExt

Bytes(bytes) == [bytes |-> bytes]
Amount(n) == [number |-> n]
Truth(b) == [boolean |-> b]
List(items) == [items |-> items]

IsBytes(v) == "bytes" \in DOMAIN v
IsAmount(v) == "number" \in DOMAIN v
IsTruth(v) == "boolean" \in DOMAIN v
IsList(v) == "items" \in DOMAIN v

----------------------------------------------------------------------------
(* RlpEncoder.  An encoding comes with its length, which a list adds up; it *)
(* is not always the number of bytes.                                      *)

Encoding(bytes, length) == [bytes |-> bytes, length |-> length]

\* Digits of a number to base 256, at least one.
BigEndian(n) ==
    IF n < 256 THEN <<n>>
    ELSE IF n < 65536 THEN <<n \div 256, n % 256>>
    ELSE IF n < 16777216 THEN <<n \div 65536, (n \div 256) % 256, n % 256>>
    ELSE <<n \div 16777216, (n \div 65536) % 256, (n \div 256) % 256, n % 256>>

\* StringEncoder: a long string counts two bytes before it, also when its
\* length takes two.
EncodeBytes(bytes) ==
    LET n == Len(bytes)
    IN  IF n = 1 /\ bytes[1] < 128 THEN Encoding(bytes, 1)
        ELSE IF n > 55
        THEN Encoding(<<183 + Len(BigEndian(n))>> \o BigEndian(n) \o bytes, n + 2)
        ELSE Encoding(<<128 + n>> \o bytes, n + 1)

EncodeTruth(b) == Encoding(IF b THEN <<1>> ELSE <<128>>, 1)

EncodeAmount(n) ==
    CASE n = 0 -> Encoding(<<128>>, 1)
      [] n < 128 -> Encoding(<<n % 256>>, 1)
      [] OTHER -> LET digits == BigEndian(n)
                  IN  Encoding(<<128 + Len(digits)>> \o digits, Len(digits) + 1)

----------------------------------------------------------------------------
(* RlpDecoder.                                                             *)

Text(bytes) == [text |-> bytes]
HexText(bytes) == [hex |-> bytes]

Decoded(value, next) == [value |-> value, next |-> next, ok |-> TRUE]
Undecoded == [value |-> Truth(FALSE), next |-> 0, ok |-> FALSE]

\* Bytes from one index up to another, or to the end.
Cut(bytes, from, to) == SubSeq(bytes, from, IF to < Len(bytes) THEN to ELSE Len(bytes))

\* The first byte below 27 must not be 0: find returns it, and 0 is falsy.
NotAscii(bytes) ==
    \E i \in DOMAIN bytes :
        \/ bytes[i] > 127
        \/ bytes[i] \in 1..26 /\ \A j \in 1..(i - 1) : bytes[j] >= 27

AsText(bytes) == IF NotAscii(bytes) THEN HexText(bytes) ELSE Text(bytes)

ToNumber(bytes) ==
    LET number[i \in 0..Len(bytes)] ==
            IF i = 0 THEN 0 ELSE 256 * number[i - 1] + bytes[i]
    IN  number[Len(bytes)]

DecodeString(bytes, from) ==
    LET first == bytes[from]
        size == first - 183
        start == IF first > 183 THEN from + 1 + size ELSE from + 1
        length == IF first > 183 THEN ToNumber(Cut(bytes, from + 1, from + size))
                  ELSE first - 128
    IN  Decoded(AsText(Cut(bytes, start, start + length - 1)), start + length)

\* The first of the decoders of a single item that knows the byte.
DecodeItem(bytes, from) ==
    LET first == bytes[from]
    IN  IF first < 128 THEN Decoded(Amount(first), from + 1)
        ELSE IF first = 128 THEN Decoded(Truth(FALSE), from + 1)
        ELSE IF first >= 130 THEN DecodeString(bytes, from)
        ELSE Decoded(HexText(Cut(bytes, from + 1, from + 1)), from + 2)

----------------------------------------------------------------------------
(* Texts that are read as hex digits.                                        *)

\* The text of 0x and two digits a byte.
HexChar(n) == IF n < 10 THEN 48 + n ELSE 87 + n
Letters(bytes) ==
    FlattenSeq([i \in DOMAIN bytes |->
        <<HexChar(bytes[i] \div 16), HexChar(bytes[i] % 16)>>])
HexLetters(bytes) == <<48, 120>> \o Letters(bytes)

BeginsAsHex(text) == Len(text) >= 2 /\ text[1] = 48 /\ text[2] = 120

HexDigit(c) ==
    CASE c \in 48..57 -> c - 48
      [] c \in 65..70 -> c - 55
      [] c \in 97..102 -> c - 87
      [] OTHER -> -1

\* How many digits a text begins with.
DigitsAhead(text) ==
    CHOOSE n \in 0..Len(text) :
        /\ \A i \in 1..n : HexDigit(text[i]) >= 0
        /\ n < Len(text) => HexDigit(text[n + 1]) < 0

\* parseInt(text, 16); not a number when there is no digit.
NotANumber == -1
ParseHex(text) ==
    LET after == IF BeginsAsHex(text) THEN SubSeq(text, 3, Len(text)) ELSE text
        n == DigitsAhead(after)
    IN  IF n = 0 THEN NotANumber
        ELSE FoldLeft(LAMBDA v, c : 16 * v + HexDigit(c), 0, SubSeq(after, 1, n))

\* getBufferFromHex: JSON writes \u for the characters that are not printed.
Escaped(text) ==
    \/ \E i \in DOMAIN text : text[i] < 32 /\ text[i] \notin {8, 9, 10, 12, 13}
    \/ \E i \in 1..(Len(text) - 1) : text[i] = 92 /\ text[i + 1] = 117

BufferFromHex(text) ==
    LET digits == SubSeq(text, 3, Len(text))
    IN  IF Escaped(text) THEN text
        ELSE IF Len(digits) = 1
        THEN <<IF ParseHex(digits) < 0 THEN 0 ELSE ParseHex(digits)>>
        ELSE [i \in 1..(DigitsAhead(digits) \div 2) |->
                 16 * HexDigit(digits[2 * i - 1]) + HexDigit(digits[2 * i])]
=============================================================================
