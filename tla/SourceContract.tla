---------------------------- MODULE SourceContract ----------------------------
(***************************************************************************)
(* What a contract of at most one variable promises its callers: a call     *)
(* runs one of its functions, is answered, and leaves the variable for the  *)
(* next; an argument is the call's own and changes no variable; a call of   *)
(* no function, and one that pays a function that is not payable, is        *)
(* reverted and changes nothing.                                           *)
(***************************************************************************)
EXTENDS Integers, Sequences

CONSTANTS
    NumberOf,   \* the numbers, by the words for them
    Names,      \* what may be called
    Arguments,  \* what it may be called with
    Payments    \* and paid

VARIABLES
    contract,   \* its source
    asked,      \* the last call
    store,      \* its variable
    answer      \* what the last call was answered

vars == <<contract, asked, store, answer>>

Returned(value) == <<"returned", value>>
Reverted == <<"reverted">>
NotCalled == <<>>

RECURSIVE Run(_, _, _)

\* The statements, up to a return: what names stand for what value, and the
\* variable's.
Run(list, names, value) ==
    LET s == list[1]
    IN  CASE s.kind = "return" ->
                [store |-> value,
                 answer |-> Returned(IF s.value \in DOMAIN names
                                     THEN names[s.value] ELSE value)]
          [] s.kind = "increment" -> Run(Tail(list), names, value + names[s.value])
          [] s.kind = "if" ->
                Run((IF names[s.left] = names[s.right] THEN s.then
                     ELSE IF s.otherwise = <<>> THEN <<>> ELSE s.otherwise[1].then)
                      \o Tail(list), names, value)

Called(f, argument) ==
    Run(f.body,
        [n \in DOMAIN NumberOf \cup ({f.argument} \ {""}) |->
            IF n = f.argument THEN argument ELSE NumberOf[n]],
        store)

Functions == {f \in {contract.body[i] : i \in DOMAIN contract.body} : f.kind = "function"}

\* The function that answers a call; a deployment returns its code.
Answers(f, call) ==
    f.name = call.name /\ (call.payment = 0 \/ f.modifier = "payable")

Call(call) ==
    /\ contract.kind = "contract"
    /\ \/ \E f \in Functions :
             /\ Answers(f, call)
             /\ store' = Called(f, call.argument).store
             /\ answer' = Called(f, call.argument).answer
       \/ /\ \A f \in Functions : ~Answers(f, call)
          /\ answer' = Reverted
          /\ UNCHANGED store

Deploy(call) ==
    /\ contract.kind = "deployment"
    /\ answer' = IF call.payment = 0 THEN Returned(contract.code) ELSE Reverted
    /\ UNCHANGED store

Init == asked = NotCalled /\ store = 0 /\ answer = NotCalled

Next ==
    \E call \in [name : Names, argument : Arguments, payment : Payments] :
        /\ asked' = call
        /\ Call(call) \/ Deploy(call)
        /\ UNCHANGED contract

Spec == Init /\ [][Next]_vars
=============================================================================
