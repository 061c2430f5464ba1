------------------------------ MODULE MCProgram ------------------------------
EXTENDS SolidityProgram

MCSelector == [f |-> <<91>>, g |-> <<2>>, h |-> <<253>>]
MCNumberOf == [w \in {"0", "1", "2", "91"} |->
    CASE w = "0" -> 0 [] w = "1" -> 1 [] w = "2" -> 2 [] w = "91" -> 91]
MCNone == [a \in {} |-> 0]
MCKeccak(bytes) == 0
MCComputes(op, x) == TRUE
MCBlocks == [h \in {42} |-> [hash |-> 0]]

Returns(value) == [kind |-> "return", value |-> value]
Increment(value) == [kind |-> "increment", name |-> "x", value |-> value]
IfElse(left, right, then, otherwise) ==
    [kind |-> "if", left |-> left, right |-> right, then |-> <<Returns(then)>>,
     otherwise |-> <<[kind |-> "else", then |-> <<Returns(otherwise)>>]>>]
Function(name, modifier, body) ==
    [kind |-> "function", name |-> name, argument |-> "", modifier |-> modifier,
     returns |-> TRUE, body |-> body]
WithArgument(f) == [f EXCEPT !.argument = "a"]

Bodies == {<<Returns("91")>>, <<Increment("1"), Returns("x")>>,
           <<Increment("2"), Increment("91"), Returns("0")>>,
           <<IfElse("1", "1", "2", "91")>>, <<Increment("1"), IfElse("1", "2", "91", "0")>>}
Contract(functions) ==
    [kind |-> "contract", name |-> "C",
     body |-> <<[kind |-> "variable", name |-> "x"]>> \o functions]

\* An argument shares the slot of a variable; here one of them is there alone.
Without(functions) == [Contract(functions) EXCEPT !.body = functions]
WithArguments ==
    {WithArgument(Function("g", m, <<Returns(v)>>)) : m \in {"", "payable"}, v \in {"a", "2"}}

MCSources ==
    {Contract(<<Function("f", m, body)>>) : m \in {"", "payable"}, body \in Bodies}
    \cup {Contract(<<Function("f", "view", one), Function("g", "payable", two)>>) :
            one \in Bodies, two \in {<<Returns("x")>>, <<Increment("1"), Returns("x")>>}}
    \cup {Contract(<<Function("h", "", <<Increment("2"), Returns("91")>>),
                     Function("f", "payable", body),
                     Function("g", "", <<Returns("x")>>)>>) :
            body \in Bodies}
    \cup {Without(<<f>>) : f \in WithArguments}
    \cup {Without(<<Function("f", "payable", <<IfElse("1", "2", "91", "0")>>), f>>) : f \in WithArguments}
    \cup {[kind |-> "deployment", code |-> code] : code \in {<<>>, <<91, 0, 91>>, <<6, 5, 4, 3, 2, 1>>}}
=============================================================================
