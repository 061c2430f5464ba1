----------------------------- MODULE MCFrontEnd -----------------------------
EXTENDS SolidityFrontEnd

Return(value) == [kind |-> "return", value |-> value]
Variable(name) == [kind |-> "variable", name |-> name]
Local(name, value) == [kind |-> "local", name |-> name, value |-> value]
Increment(name, value) == [kind |-> "increment", name |-> name, value |-> value]
If(left, right, then, otherwise) ==
    [kind |-> "if", left |-> left, right |-> right, then |-> then,
     otherwise |-> otherwise]
Else(then) == [kind |-> "else", then |-> then]
ElseIf(left, then) ==
    [kind |-> "else if", left |-> left, right |-> "2", then |-> then,
     otherwise |-> <<Else(<<Return("1")>>)>>]
Function(name, argument, modifier, returns, body) ==
    [kind |-> "function", name |-> name, argument |-> argument,
     modifier |-> modifier, returns |-> returns, body |-> body]
Contract(body) == [kind |-> "contract", name |-> "C", body |-> body]

One == <<Return("1")>>
Two == <<Variable("x"), Return("2")>>

Statements ==
    {Return("a"), Local("a", "1"), Increment("x", "2"), If("1", "1", One, <<>>)}
    \cup {If("a", right, then, otherwise) :
            right \in {"", "2"}, then \in {One, Two},
            otherwise \in {<<>>, <<Else(One)>>, <<ElseIf("x", Two)>>}}
    \cup {If("1", "2", then, <<>>) :
            then \in {<<If("a", "1", One, <<Else(Two)>>)>>,
                      <<If("true", "", Two, <<>>), Return("1")>>,
                      <<>>}}

Signatures ==
    {<<"", "", TRUE>>, <<"", "pure", FALSE>>, <<"b", "payable", TRUE>>, <<"b", "", FALSE>>}

Functions ==
    {Function("f", s[1], s[2], s[3], body) :
        s \in Signatures, body \in {<<>>, One}}
    \cup {Function("f", "", "view", TRUE, <<s>> \o One) : s \in Statements}
    \cup {Function("f", "", "", TRUE, <<Local("x", "1"), s>>) : s \in Statements}

MCSources ==
    {Contract(<<>>), Contract(<<Variable("a"), Variable("x")>>)}
    \cup {Contract(<<f>>) : f \in Functions}
    \cup {Contract(<<f, Variable("a"), Function("g", "", "pure", TRUE, One)>>) :
            f \in Functions}

MCFollowers ==
    {Contract(<<Function("f", "", "view", TRUE, <<If(name, "1", One, <<>>)>> \o One)>>) :
        name \in {"a", "x"}}

Comment == <<" ", "/", "*", "x", ";", "newline", "*", "/">>
Line == <<"newline", "/", "/", "return", "*", "x", "newline", "tab">>
MCSeparators == {<<" ">>, Comment, Line, Line \o Comment}
=============================================================================
