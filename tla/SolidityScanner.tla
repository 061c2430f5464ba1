--------------------------- MODULE SolidityScanner ---------------------------
(***************************************************************************)
(* The Scanner of the Solidity compiler.  A text is a sequence of symbols:  *)
(* white space, the characters the scanner tells apart, and words, each     *)
(* standing for the letters it is written with.  A token is the sequence of *)
(* the symbols it was put together from.                                    *)
(***************************************************************************)
EXTENDS Sequences, Integers

Whitespace == {" ", "tab", "newline"}
SpecialCharacters == {"[", "]", "{", "}", ";", "(", ")", "/", "*"}

Symbol(text, i) == IF i \in DOMAIN text THEN text[i] ELSE "end"

\* Seeded fault: the end of a comment does not clear what was read of it.
TextKept(read) == read

\* What is left of a token when a comment ends, or a // begins.
Cleared(read) == <<>>

RECURSIVE ScanFrom(_, _, _, _)

\* The loop of getNextToken: the token, and where the next one is read from.
\* A comment opens, and turns into the other kind, wherever its characters
\* are; the word before it is lost.
ScanFrom(text, i, token, comment) ==
    LET char == Symbol(text, i)
        then == Symbol(text, i + 1)
    IN  CASE char = "end" -> [token |-> token, index |-> i]
          [] char = "/" /\ then = "*" -> ScanFrom(text, i + 1, token, "multi")
          [] char = "/" /\ then = "/" -> ScanFrom(text, i + 1, Cleared(token), "single")
          [] char = "*" /\ then = "/" /\ comment = "multi" ->
                ScanFrom(text, i + 2, Cleared(token), "none")
          [] char = "newline" /\ comment = "single" ->
                ScanFrom(text, i + 1, Cleared(token), "none")
          [] OTHER ->
                IF comment # "none"
                THEN ScanFrom(text, i + 1, Append(token, char), comment)
                ELSE IF char \in Whitespace
                THEN IF token # <<>> THEN [token |-> token, index |-> i + 1]
                     ELSE ScanFrom(text, i + 1, <<>>, "none")
                ELSE IF char \in SpecialCharacters
                THEN IF token # <<>> THEN [token |-> token, index |-> i]
                     ELSE [token |-> <<char>>, index |-> i + 1]
                ELSE ScanFrom(text, i + 1, Append(token, char), "none")

IsDone(text, i) == i > Len(text)

NextToken(text, i) == ScanFrom(text, i, <<>>, "none")

RECURSIVE TokensFrom(_, _)

\* Lexer.getTokens: empty tokens are left out.
TokensFrom(text, i) ==
    LET next == NextToken(text, i)
        rest == TokensFrom(text, next.index)
    IN  IF IsDone(text, i) THEN <<>>
        ELSE IF next.token = <<>> THEN rest ELSE <<next.token>> \o rest
=============================================================================
