---------------------------- MODULE SolidityParser ----------------------------
(***************************************************************************)
(* The Parser of the Solidity compiler: a grammar of Syntaxes, and the      *)
(* engine (Syntax, SyntaxMatch, SyntaxValidator) that matches it to tokens. *)
(* A Syntax is a sequence of items.  An item has paths, tokens or other     *)
(* Syntaxes, of which the first that matches is taken, once, or again and   *)
(* again until a stop token.  What it returns counts the tokens it moved    *)
(* past; its caller goes on from there.                                     *)
(*                                                                         *)
(* A token is a string: a word of letters and digits, or one of Marks.      *)
(***************************************************************************)
EXTENDS Sequences, Integers, SequencesExt

CONSTANT NumberWords   \* the words that are numbers

Marks == {"[", "]", "{", "}", ";", "(", ")", "/", "*", "=", "==", "+=", "end"}
TokenAt(tokens, i) == IF i \in DOMAIN tokens THEN tokens[i] ELSE "end"

----------------------------------------------------------------------------
(* The items of a Syntax.                                                  *)

AnyWord == {}      \* StringToken, which matches what is no mark

TypeWords == {"uint8", "uint64", "address"}
AccessWords == {"public", "private", "protected"}
ModifierWords == {"payable", "pure", "view"}

\* A token, and the name of the field it is kept under.
Named(words, field) == [of |-> words, field |-> field, syntax |-> ""]
Token(words) == Named(words, "")
Keyword(word) == Token({word})
Nested(syntax) == [of |-> AnyWord, field |-> "", syntax |-> syntax]
EmptySyntax == Nested("empty")
RequiredSyntax == Nested("required")

Then(path) == [paths |-> <<path>>, stop |-> ""]
OptionalPath(paths) == [paths |-> paths, stop |-> ""]
Recursive(paths, stop) ==
    [paths |-> Append(paths, RequiredSyntax), stop |-> stop]

Words(words) == [i \in DOMAIN words |-> Then(Keyword(words[i]))]

----------------------------------------------------------------------------
(* constructSyntax.                                                        *)

Condition == <<Then(Keyword("if")), Then(Nested("conditionalArguments")),
               Then(Keyword("{"))>>
Declarations == <<Nested("variablesDeceleration"), Nested("returnStatement")>>

\* What may follow the access modifier of a function.
ReturnsOrCode == OptionalPath(<<Nested("returns"), Nested("code")>>)

TokenOrder ==
 [noArgument |-> Words(<<")">>),
  oneArgument |->
    <<Then(Named(AnyWord, "type")), Then(Named(AnyWord, "variable1")),
      Then(Keyword(")"))>>,
  functionArguments |->
    <<Then(Keyword("(")), OptionalPath(<<Nested("noArgument"), Nested("oneArgument")>>)>>,
  type |-> <<Then(Token(TypeWords))>>,
  unnamedArguments |-> <<Then(Keyword("(")), Recursive(<<Nested("type")>>, ")")>>,
  comparison |->
    <<Then(Named(AnyWord, "variable1")), Then(Named({"=="}, "operator")),
      Then(Named(AnyWord, "variable2"))>>,
  variable |-> <<Then(Named(AnyWord, "variable"))>>,
  conditionalArguments |->
    <<Then(Keyword("(")), Recursive(<<Nested("comparison"), Nested("variable")>>, ")")>>,
  variablesDeceleration |->
    <<Then(Named(TypeWords, "type")), Then(Named(AccessWords, "access")),
      Then(Named(AnyWord, "name")), Then(Keyword(";"))>>,
  localVariableAssignment |->
    <<Then(Named(TypeWords, "type")), Then(Named(AnyWord, "name")),
      Then(Keyword("=")), Then(Named(AnyWord, "value")), Then(Keyword(";"))>>,
  variableIncrement |->
    <<Then(Named(AnyWord, "name")), Then(Named({"+="}, "operator")),
      Then(Named(AnyWord, "value")), Then(Keyword(";"))>>,
  returnStatement |->
    <<Then(Keyword("return")), Then(Named(AnyWord, "value")), Then(Keyword(";"))>>,
  elseStatement |-> Words(<<"else", "{">>) \o <<Recursive(Declarations, "}")>>,
  elseIfStatement |->
    Words(<<"else">>) \o Condition
      \o <<Recursive(Declarations, "}"), OptionalPath(<<Nested("elseStatement")>>)>>,
  ifStatement |->
    Condition
      \o <<Recursive(<<Nested("ifStatement")>> \o Declarations, "}"),
           OptionalPath(<<Nested("elseStatement"), Nested("elseIfStatement"), EmptySyntax>>)>>,
  returns |->
    <<Then(Keyword("returns")), Then(Nested("unnamedArguments")), Then(Nested("code"))>>,
  code |->
    <<Then(Keyword("{")),
      Recursive(<<Nested("localVariableAssignment"), Nested("variableIncrement"),
                  Nested("ifStatement"), Nested("returnStatement")>>, "}")>>,
  accessAndModifier |->
    <<Then(Token(AccessWords)), Then(Named(ModifierWords, "modifier")), ReturnsOrCode>>,
  access |-> <<Then(Token(AccessWords)), ReturnsOrCode>>,
  functionSection |->
    <<Then(Keyword("function")), Then(Named(AnyWord, "name")),
      Then(Nested("functionArguments")),
      OptionalPath(<<Nested("accessAndModifier"), Nested("access")>>)>>,
  codeSection |->
    <<Then(Keyword("{")),
      Recursive(<<Nested("variablesDeceleration"), Nested("functionSection")>>, "}")>>,
  emptyCodeSection |-> Words(<<"{", "}">>),
  contract |->
    <<Then(Keyword("contract")), Then(Named(AnyWord, "name")),
      OptionalPath(<<Nested("codeSection"), Nested("emptyCodeSection")>>)>>]

\* construct: what a Syntax makes of what it matched.
Construction ==
 [oneArgument |-> "FunctionInputVariables",
  comparison |-> "ConditionalInputVariables",
  variable |-> "ConditionalInputVariables",
  variablesDeceleration |-> "VariableNode",
  localVariableAssignment |-> "VariableNode",
  variableIncrement |-> "VariableOperatorNode",
  returnStatement |-> "ReturnNode",
  elseStatement |-> "ConditionalNode",
  elseIfStatement |-> "ConditionalNode",
  ifStatement |-> "ConditionalNode",
  functionSection |-> "FunctionNode",
  contract |-> "ContractNode"]

\* setConnectedFields: its fields are its parent's.
Connected == {"accessAndModifier"}

----------------------------------------------------------------------------
(* Nodes.                                                                  *)

NoFields == <<>>
TokenNode == [type |-> "token", fields |-> NoFields, nodes |-> <<>>]
FieldNode(type, fields, nodes) == [type |-> type, fields |-> fields, nodes |-> nodes]
NoNode == FieldNode("none", NoFields, <<>>)

IsStatic(word) == word \in NumberWords \cup {"true"}

\* The names a condition is about.
Variables(fields) ==
    LET kept == IF "variable" \in DOMAIN fields THEN {"variable"}
                ELSE {"variable1", "variable2"}
    IN  {fields[k] : k \in {f \in kept : ~IsStatic(fields[f])}}

RECURSIVE FieldNodes(_)

\* recursiveAddFieldNodes: the nearest FieldNodes below a node.
FieldNodes(node) ==
    FlattenSeq([i \in DOMAIN node.nodes |->
        IF node.nodes[i].type # "token" THEN <<node.nodes[i]>>
        ELSE FieldNodes(node.nodes[i])])

Merged(fields, more) ==
    [f \in DOMAIN fields \cup DOMAIN more |->
        IF f \in DOMAIN more THEN more[f] ELSE fields[f]]

----------------------------------------------------------------------------
(* The engine.  A context has the index of the first token of a Syntax,     *)
(* moved on by what its Syntaxes matched, and the index of the item; error  *)
(* is what was thrown.                                                     *)

Context(index, scopes) ==
    [index |-> index, moved |-> 0, movement |-> 0, fields |-> NoFields,
     root |-> NoNode, scopes |-> scopes, error |-> "", ok |-> TRUE]

Current(c, tokens) == TokenAt(tokens, c.index + c.moved)

Thrown(c, error) == [c EXCEPT !.error = error, !.ok = FALSE]
NoMatch(c) == [c EXCEPT !.ok = FALSE]

AddNode(c, node) ==
    IF c.root = NoNode THEN [c EXCEPT !.root = node]
    ELSE [c EXCEPT !.root.nodes = Append(@, node)]

\* A token: StringToken fails on what is not there.
MatchToken(item, c, tokens) ==
    LET token == Current(c, tokens)
        kept == IF item.field = "" THEN c.fields
                ELSE Merged(c.fields, [f \in {item.field} |-> token])
    IN  CASE item.of = AnyWord /\ token = "end" -> Thrown(c, "undefined")
          [] \/ item.of = AnyWord /\ token \notin Marks
             \/ token \in item.of ->
                [AddNode(c, TokenNode) EXCEPT !.fields = kept, !.movement = @ + 1]
          [] OTHER -> NoMatch(c)

RECURSIVE Matches(_, _, _, _), MatchItems(_, _, _, _), MatchPaths(_, _, _, _),
          MatchAgain(_, _, _, _)

\* Seeded fault: a nested Syntax moves on by the tokens it has, and one more.
AddSyntaxBeyond(item, c, found) ==
    LET next == [c EXCEPT !.scopes = found.scopes]
        added == AddNode(next, found.root)
    IN  IF ~found.ok THEN [next EXCEPT !.ok = FALSE, !.error = found.error]
        ELSE [added EXCEPT
                !.index = @ + found.movement,
                !.movement = @ + found.movement,
                !.fields = IF item.syntax \in Connected
                           THEN Merged(@, found.fields) ELSE @]

\* What a nested Syntax found: the index is moved on by all its tokens but
\* one, for the next item is one further.
AddSyntax(item, c, found) ==
    LET next == [c EXCEPT !.scopes = found.scopes]
        added == AddNode(next, found.root)
    IN  IF ~found.ok THEN [next EXCEPT !.ok = FALSE, !.error = found.error]
        ELSE [added EXCEPT
                !.index = @ + found.movement - 1,
                !.movement = @ + found.movement,
                !.fields = IF item.syntax \in Connected
                           THEN Merged(@, found.fields) ELSE @]

MatchSyntax(item, c, tokens) ==
    AddSyntax(item, c, Matches(item.syntax, c.index + c.moved, tokens, c.scopes))

MatchPath(item, c, tokens) ==
    CASE item = EmptySyntax -> c
      [] item = RequiredSyntax -> Thrown(c, "invalid syntax")
      [] item.syntax = "" -> MatchToken(item, c, tokens)
      [] OTHER -> MatchSyntax(item, c, tokens)

\* The first path that matches; the scopes keep what the others declared.
OrNextPath(found, paths, i, c, tokens) ==
    IF found.ok \/ found.error # "" \/ i = Len(paths) THEN found
    ELSE MatchPaths(paths, i + 1, [c EXCEPT !.scopes = found.scopes], tokens)

MatchPaths(paths, i, c, tokens) ==
    OrNextPath(MatchPath(paths[i], c, tokens), paths, i, c, tokens)

AndAgain(found, item, position, tokens) ==
    IF ~found.ok THEN found
    ELSE MatchAgain(item, position, [found EXCEPT !.index = @ + 1], tokens)

\* Seeded fault: what ends a block is also the end of the tokens.
MatchAgainOpen(item, position, c, tokens) ==
    LET at == [c EXCEPT !.moved = position]
    IN  IF Current(c, tokens) \in {item.stop, "end"}
        THEN [AddNode(c, TokenNode) EXCEPT !.movement = @ + 1]
        ELSE IF Current(at, tokens) = item.stop THEN at
        ELSE AndAgain(MatchPaths(item.paths, 1, at, tokens), item, position, tokens)

\* The paths over and over.  Before the first time the stop token is looked
\* for at the item before: an empty block ends without a movement past it.
MatchAgain(item, position, c, tokens) ==
    LET at == [c EXCEPT !.moved = position]
    IN  IF Current(c, tokens) = item.stop
        THEN [AddNode(c, TokenNode) EXCEPT !.movement = @ + 1]
        ELSE IF Current(at, tokens) = item.stop THEN at
        ELSE AndAgain(MatchPaths(item.paths, 1, at, tokens), item, position, tokens)

\* SyntaxMatch.matches: every item, in order.
MatchItems(order, i, c, tokens) ==
    IF i > Len(order) \/ ~c.ok THEN c
    ELSE MatchItems(order, i + 1,
            IF order[i].stop # "" THEN MatchAgain(order[i], i - 1, c, tokens)
            ELSE MatchPaths(order[i].paths, 1, [c EXCEPT !.moved = i - 1], tokens),
            tokens)

\* The node of its kind, with the nodes below.
Constructed(syntax, found) ==
    LET type == Construction[syntax]
        node == FieldNode(type, found.fields, FieldNodes(found.root))
        made == [found EXCEPT !.root = node]
    IN  IF ~found.ok \/ syntax \notin DOMAIN Construction THEN found
        ELSE CASE type = "VariableNode" ->
                    [made EXCEPT !.scopes = @ \cup {found.fields["name"]}]
               [] type = "ConditionalInputVariables"
                    /\ ~(Variables(found.fields) \subseteq found.scopes) ->
                    Thrown(found, "undeclared variable")
               [] OTHER -> made

\* Syntax.matches.
Matches(syntax, index, tokens, scopes) ==
    Constructed(syntax, MatchItems(TokenOrder[syntax], 1, Context(index, scopes), tokens))

\* recursiveConstruction: no other syntax begins a text.
Parsed(tokens, scopes) ==
    LET unknown == Thrown(Context(1, scopes), "unknown syntax")
        OrUnknown(found) ==
            IF ~found.ok /\ found.error = "" THEN [unknown EXCEPT !.scopes = found.scopes]
            ELSE found
    IN  IF TokenAt(tokens, 1) # "contract" THEN unknown
        ELSE OrUnknown(Matches("contract", 1, tokens, scopes))
=============================================================================
