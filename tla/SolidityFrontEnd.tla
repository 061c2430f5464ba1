--------------------------- MODULE SolidityFrontEnd ---------------------------
(***************************************************************************)
(* A Parser of the Solidity compiler at work: a text is scanned, the grammar *)
(* is matched to its tokens, and the same parser is given the next text.    *)
(* What it keeps from text to text are the names that were declared.        *)
(***************************************************************************)
EXTENDS SoliditySource, SolidityScanner

CONSTANTS
    Sources,    \* contracts, as what they mean (see Tree)
    Separators, \* what may stand between two tokens
    Followers,  \* bound: what a parser is given after its first text
    MaxTexts    \* bound: texts given to one parser

VARIABLES
    source,     \* history: the contract the text was written from
    complete,   \* history: whether the text is all of it
    text,       \* the input of parse
    scopes,     \* variableScopes, all levels of it
    known,      \* history: the names the parser knew before this text
    tree,       \* what parse returned
    outcome,    \* "given", "parsed", or what was thrown
    texts       \* counter for the bound

vars == <<source, complete, text, scopes, known, tree, outcome, texts>>

----------------------------------------------------------------------------
\* The tokens that declare a name, and those that ask for one in a condition.
Declares(list, i) ==
    \/ TokenAt(list, i - 1) \in AccessWords /\ TokenAt(list, i - 2) \in TypeWords
    \/ TokenAt(list, i - 1) \in TypeWords /\ TokenAt(list, i + 1) = "="
AsksFor(list, i) ==
    /\ list[i] \notin Marks /\ ~IsStatic(list[i])
    /\ \/ TokenAt(list, i - 2) = "if" /\ TokenAt(list, i - 1) = "("
       \/ TokenAt(list, i - 1) = "=="

DeclaredFirst(list, names) ==
    \A i \in DOMAIN list : AsksFor(list, i) =>
        list[i] \in names \cup {list[j] : j \in {k \in 1..i : Declares(list, k)}}

\* A separator before each token; ==, += and names need white space.
Layout(list, separator) ==
    FlattenSeq([i \in DOMAIN list |-> separator \o <<list[i]>>]) \o <<"newline">>

----------------------------------------------------------------------------
\* A token of several symbols is a word that is none of the others.
TokenOf(symbols) == IF Len(symbols) = 1 THEN symbols[1] ELSE "word"

Tokens == LET found == TokensFrom(text, 1)
          IN  [i \in DOMAIN found |-> TokenOf(found[i])]

\* Texts in white space are cut short, too.
Texts(contract) ==
    LET list == Written(contract)
    IN  {[complete |-> TRUE, text |-> Layout(list, s)] : s \in Separators}
        \cup {[complete |-> FALSE, text |-> Layout(SubSeq(list, 1, n), <<" ">>)] :
                n \in 1..(Len(list) - 1)}

Init ==
    /\ \E contract \in Sources :
          /\ source = contract
          /\ \E given \in Texts(contract) :
                complete = given.complete /\ text = given.text
    /\ scopes = {} /\ known = {}
    /\ tree = NoNode /\ outcome = "given"
    /\ texts = 1

Returns(parsed) ==
    /\ scopes' = parsed.scopes
    /\ outcome' = IF parsed.ok THEN "parsed" ELSE parsed.error
    /\ tree' = IF parsed.ok THEN parsed.root ELSE NoNode

Parse ==
    /\ outcome = "given"
    /\ Returns(Parsed(Tokens, scopes))
    /\ known' = scopes
    /\ UNCHANGED <<source, complete, text, texts>>

\* The same parser is given another text.
NextText ==
    /\ outcome # "given" /\ texts < MaxTexts
    /\ \E contract \in Followers :
          /\ source' = contract
          /\ complete' = TRUE
          /\ text' = Layout(Written(contract), <<" ">>)
    /\ outcome' = "given" /\ texts' = texts + 1
    /\ tree' = NoNode
    /\ UNCHANGED <<scopes, known>>

Next == Parse \/ NextText

Spec == Init /\ [][Next]_vars

----------------------------------------------------------------------------
Errors == {"undefined", "invalid syntax", "undeclared variable", "unknown syntax"}

(* The type invariant: what the scanner makes of a text are its tokens.     *)
TypeOK ==
    /\ outcome \in {"given", "parsed"} \cup Errors
    /\ outcome = "parsed" => tree.type = "ContractNode"
    /\ outcome # "parsed" => tree = NoNode
    /\ complete => Tokens = Written(source)

(* A contract without an empty block is parsed to the tree it means,        *)
(* whatever stands between its tokens, unless a condition names a variable  *)
(* declared neither before it nor in an earlier text; then it is refused.   *)
ParsedAsMeant ==
    outcome # "given" /\ complete /\ ~HasEmptyBlock(source) =>
        IF DeclaredFirst(Tokens, known)
        THEN outcome = "parsed" /\ tree = Tree(source)
        ELSE outcome = "undeclared variable"

(* A text that was cut short is refused, unless a block of it was empty.    *)
TruncatedIsRefused ==
    ~complete /\ ~HasEmptyBlock(source) => outcome # "parsed"
=============================================================================
