------------------------------ MODULE MCMemory ------------------------------
EXTENDS EvmMemory, SequencesExt

\* What copies move, at most four bytes; the zeros are a buffer's padding.
MCData == {<<>>, <<1>>, <<1, 1, 1>>, <<1, 1, 1, 0>>}
MCWordData == {<<0, 1>>, <<1, 1>>}
MCInherited == {<<>>, <<1, 1, 1, 1>>}

\* EvmMemory.write, and the loop over consecutive offsets that calls it.
Write(m, offset, byte) ==
    LET room == Expanded(IF offset = 0 THEN Expanded(m.n, Word) ELSE m.n, offset)
    IN  [n |-> room,
         content |-> IF offset < room THEN [m.content EXCEPT ![offset] = byte]
                     ELSE m.content]

WriteLoop(m, offset, data) ==
    FoldLeft(LAMBDA r, i : Write(r, offset + i - 1, data[i]), m,
             [i \in 1..Len(data) |-> i])

(* The lengths and the bytes that fall, as EvmMemory states them, are those *)
(* of the loop, for every buffer of whole words.                            *)
ASSUME LoopOfWrites ==
    \A words \in 0..3, offset \in Offsets, data \in Data \cup WordData :
        LET n == words * Word
            blank == [a \in Addresses |-> 0]
            loop == WriteLoop([n |-> n, content |-> blank], offset, data)
        IN  offset + Len(data) <= MaxAddress + 1 =>
            /\ loop.n = AfterWrites(n, offset, Len(data))
            /\ loop.content =
                 Stored(blank, {a \in Touched(offset, data) : ~Falls(n, a)},
                        offset, data)
=============================================================================
