---------------------------- MODULE SoliditySource ----------------------------
(***************************************************************************)
(* Contracts as what they mean: how one is written, and the tree the parser *)
(* should make of it.  Statements and members are records with a kind.      *)
(***************************************************************************)
EXTENDS SolidityParser

RECURSIVE Written(_), Tree(_), HasEmptyBlock(_)

WrittenAll(list) == FlattenSeq([i \in DOMAIN list |-> Written(list[i])])
Block(list) == <<"{">> \o WrittenAll(list) \o <<"}">>
Trees(list) == [i \in DOMAIN list |-> Tree(list[i])]

Asked(s) ==
    IF s.right = "" THEN <<"(", s.left, ")">> ELSE <<"(", s.left, "==", s.right, ")">>

AskedTree(s) ==
    FieldNode("ConditionalInputVariables",
        IF s.right = "" THEN [variable |-> s.left]
        ELSE [variable1 |-> s.left, operator |-> "==", variable2 |-> s.right], <<>>)

Written(s) ==
    CASE s.kind = "return" -> <<"return", s.value, ";">>
      [] s.kind = "increment" -> <<s.name, "+=", s.value, ";">>
      [] s.kind = "local" -> <<"uint8", s.name, "=", s.value, ";">>
      [] s.kind = "variable" -> <<"uint64", "public", s.name, ";">>
      [] s.kind = "if" ->
            <<"if">> \o Asked(s) \o Block(s.then) \o WrittenAll(s.otherwise)
      [] s.kind = "else" -> <<"else">> \o Block(s.then)
      [] s.kind = "else if" ->
            <<"else", "if">> \o Asked(s) \o Block(s.then) \o WrittenAll(s.otherwise)
      [] s.kind = "function" ->
            <<"function", s.name, "(">>
              \o (IF s.argument = "" THEN <<>> ELSE <<"uint8", s.argument>>)
              \o <<")", "public">>
              \o (IF s.modifier = "" THEN <<>> ELSE <<s.modifier>>)
              \o (IF s.returns THEN <<"returns", "(", "uint8", ")">> ELSE <<>>)
              \o Block(s.body)
      [] s.kind = "contract" -> <<"contract", s.name>> \o Block(s.body)

Tree(s) ==
    CASE s.kind = "return" -> FieldNode("ReturnNode", [value |-> s.value], <<>>)
      [] s.kind = "increment" ->
            FieldNode("VariableOperatorNode",
                [name |-> s.name, operator |-> "+=", value |-> s.value], <<>>)
      [] s.kind = "local" ->
            FieldNode("VariableNode",
                [type |-> "uint8", name |-> s.name, value |-> s.value], <<>>)
      [] s.kind = "variable" ->
            FieldNode("VariableNode",
                [type |-> "uint64", access |-> "public", name |-> s.name], <<>>)
      [] s.kind \in {"if", "else if"} ->
            FieldNode("ConditionalNode", NoFields,
                <<AskedTree(s)>> \o Trees(s.then) \o Trees(s.otherwise))
      [] s.kind = "else" -> FieldNode("ConditionalNode", NoFields, Trees(s.then))
      [] s.kind = "function" ->
            FieldNode("FunctionNode",
                IF s.modifier = "" THEN [name |-> s.name]
                ELSE [name |-> s.name, modifier |-> s.modifier],
                (IF s.argument = "" THEN <<>>
                 ELSE <<FieldNode("FunctionInputVariables",
                            [type |-> "uint8", variable1 |-> s.argument], <<>>)>>)
                  \o Trees(s.body))
      [] s.kind = "contract" ->
            FieldNode("ContractNode", [name |-> s.name], Trees(s.body))

HasEmptyBlock(s) ==
    LET Of(list) == \E i \in DOMAIN list : HasEmptyBlock(list[i])
    IN  CASE s.kind \in {"if", "else if"} ->
                s.then = <<>> \/ Of(s.then) \/ Of(s.otherwise)
          [] s.kind = "else" -> s.then = <<>> \/ Of(s.then)
          [] s.kind = "function" -> s.body = <<>> \/ Of(s.body)
          [] s.kind = "contract" -> Of(s.body)
          [] OTHER -> FALSE
=============================================================================
