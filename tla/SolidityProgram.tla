---------------------------- MODULE SolidityProgram ----------------------------
(***************************************************************************)
(* A compiled contract at work: its source is written, parsed and compiled, *)
(* an Evm is booted with the program and the data of a call, and steps      *)
(* until it stops; the next call finds its storage.  So is the program that *)
(* deploys some bytes.                                                     *)
(***************************************************************************)
EXTENDS EvmMachine, SolidityCompiler

CONSTANTS
    Sources,    \* the contracts (see SoliditySource), and deployments
    Names, Arguments, Payments,   \* of the calls
    GasLimit,   \* bound: a program that spends more is not followed further
    MaxCalls    \* bound: calls of one contract

VARIABLES
    contract,   \* what the program was compiled from
    call,       \* the call it is at
    before      \* history: of the call before, and what it left

programVars == <<vars, contract, call, before>>

Program(source) ==
    IF source.kind = "deployment" THEN Coded(Deployment(source.code))
    ELSE Compile(Written(source))

\* A call has the selector of a function, and a word; or nothing at all.
CallData(name, argument) ==
    IF name \in DOMAIN Selector
    THEN Selector[name] \o Encoded(argument) ELSE <<>>

TxContext(c) ==
    [value |-> c.payment, data |-> CallData(c.name, c.argument), sender |-> 0,
     gasLimit |-> GasLimit]

Calls == [name : Names, argument : Arguments, payment : Payments]

----------------------------------------------------------------------------
Ended == ~Running \/ outcome # "done"

\* A contract that declares none has no variable, whatever its slots hold.
HasVariable ==
    contract.kind = "contract"
      /\ \E i \in DOMAIN contract.body : contract.body[i].kind = "variable"
Variable == IF HasVariable /\ 0 \in DOMAIN storage THEN storage[0] ELSE 0

Answer ==
    CASE outcome = "reverted" -> <<"reverted">>
      [] outcome = "done" /\ returnData # None ->
            <<"returned", IF contract.kind = "deployment" THEN returnData[1]
                          ELSE Number(returnData[1])>>
      [] OTHER -> <<outcome, "not answered">>

ProgramInit ==
    /\ contract \in Sources
    /\ LET code == Program(contract).bytes
       IN  \E c \in Calls : call = c /\ Fresh(code, TxContext(c))
    /\ before = [call |-> None, store |-> 0, answer |-> <<>>]

Compute == Step /\ UNCHANGED <<contract, call, before>>

\* The same Evm is booted with its program and another call.
NextCall ==
    /\ Ended
    /\ boots < MaxCalls
    /\ boots' = boots + 1
    /\ \E c \in Calls : call' = c /\ Booted(program, TxContext(c))
    /\ before' = [call |-> call, store |-> Variable, answer |-> Answer]
    /\ UNCHANGED <<stack, below, memory, storage, contract>>

ProgramNext == Compute \/ NextCall

ProgramSpec == ProgramInit /\ [][ProgramNext]_programVars /\ WF_programVars(Compute)

----------------------------------------------------------------------------
(* The program runs from instruction to instruction, whatever bytes the     *)
(* constants, the selectors and the offsets in it are.                      *)
NeverIntoArguments == Starts(program, pc)

(* Every call comes to an end.                                             *)
EveryCallEnds == []<>Ended

(* What callers see of the compiled contract is what its source promises.   *)
SourceSpec ==
    INSTANCE SourceContract WITH
        asked <- IF Ended THEN call ELSE before.call,
        store <- IF Ended THEN Variable ELSE before.store,
        answer <- IF Ended THEN Answer ELSE before.answer
KeepsPromises == SourceSpec!Spec
=============================================================================
