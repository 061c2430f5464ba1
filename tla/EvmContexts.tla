---------------------------- MODULE EvmContexts ----------------------------
(***************************************************************************)
(* The call tree of a transaction.  CREATE, CREATE2 and the four calls fork *)
(* the Evm: the sub context is an Evm of its own, from a container of its   *)
(* own, that starts with a copy of the caller's storage and an empty        *)
(* Network; Contract.execute runs it, and what it returned, or how it       *)
(* failed, decides what the caller finds on its stack, in its network and   *)
(* in its return data.  The copy goes by the keys' hex text, read as a      *)
(* decimal number: slots 0 to 9 are copied, slot 0x10 is taken for 0x0a,    *)
(* and a key with a letter for NaN.                                         *)
(*                                                                         *)
(* A program is the set of things it may do: any frame whose code is not    *)
(* empty may store, create, call, return, stop or fail.  Gas is in          *)
(* EvmStorageGas; a call with value throws before it forks (Throw).         *)
(***************************************************************************)
EXTENDS Integers, SequencesExt

CONSTANTS
    Codes,      \* byte strings that are not empty: programs and return data
    Salts,      \* salts of CREATE2
    SaltRead,   \* the salt CREATE2 takes a salt for: its hex text up to the
                \* first letter, as a decimal number
    Slots,      \* storage slots, NaN among them
    Reread,     \* the slot forEach takes the key of a slot for
    Words,      \* values of a slot
    MaxDepth,   \* bound: nested Evms
    MaxSteps    \* bound: opcodes of the transaction modelled here

ASSUME ZeroIsWord == 0 \in Words
ASSUME TextsAreRead == SaltRead \in [Salts -> Salts] /\ Reread \in [Slots -> Slots]
ASSUME BoundsNat == MaxDepth \in Nat \ {0} /\ MaxSteps \in Nat

VARIABLES
    frames,   \* the Evms at work, each called by the one before
    status,   \* "running", "done", "reverted", or "threw" out of execute
    steps     \* counter for the bound

vars == <<frames, status, steps>>

Empty == "empty"            \* a buffer of length 0
Undefined == "undefined"    \* no buffer
Buffers == Codes \cup {Empty}
Results == Buffers \cup {Undefined}

\* Contract.address: of CREATE from the sender and the nonce of the context,
\* which no opcode changes; of CREATE2 from the salt and the code.
NonceAddress == <<"sender", "nonce">>
SaltAddress(salt, init) == <<SaltRead[salt], init>>
Addresses == {NonceAddress} \cup (Salts \X Buffers)

Contract == [address : Addresses, program : Buffers, isDeployed : BOOLEAN,
             returnData : Results]

NewContract(address, init) ==
    [address |-> address, program |-> init, isDeployed |-> FALSE,
     returnData |-> Undefined]

NoContract == NewContract(NonceAddress, Empty)

----------------------------------------------------------------------------
Top == Len(frames)
Frame == frames[Top]

\* A storage has entries for the slots written; a slot without one holds 0.
ValueIn(entries, k) == IF k \in DOMAIN entries THEN entries[k] ELSE 0

With(f, x, y) == [z \in DOMAIN f \cup {x} |-> IF z = x THEN y ELSE f[z]]

\* Seeded fault: a fork gets no storage.
CopyNothing(entries) == <<>>

\* What fork writes to the new Evm: for each entry, the slot its key is taken
\* for, with what is read there.
Copy(entries) ==
    [r \in {Reread[k] : k \in DOMAIN entries} |-> ValueIn(entries, r)]

\* written, created and returned are history: the slots the frame stored in,
\* the code of the contracts whose addresses its opcodes pushed, and what its
\* last sub context returned.
NewEvm(code, kind, contract, storage, retSize) ==
    [code |-> code, kind |-> kind, contract |-> contract, retSize |-> retSize,
     storage |-> storage, written |-> {}, network |-> <<>>,
     last |-> Undefined, created |-> <<>>, returned |-> Undefined]

Init ==
    /\ \E code \in Codes :
         frames = <<NewEvm(code, "root", NoContract, <<>>, FALSE)>>
    /\ status = "running"
    /\ steps = 0

Step ==
    /\ status = "running"
    /\ steps < MaxSteps
    /\ steps' = steps + 1

Opcode == Step /\ Frame.code # Empty

Sstore(k, w) ==
    /\ Opcode
    /\ frames' = [frames EXCEPT ![Top].storage = With(@, k, w),
                                ![Top].written = @ \cup {k}]
    /\ UNCHANGED status

Fork(code, kind, contract, retSize) ==
    /\ Top < MaxDepth
    /\ frames' = Append(frames, NewEvm(code, kind, contract, Copy(Frame.storage), retSize))
    /\ UNCHANGED status

Create(init) ==
    /\ Opcode
    /\ Fork(init, "create", NewContract(NonceAddress, init), FALSE)

Create2(salt, init) ==
    /\ Opcode
    /\ Fork(init, "create2", NewContract(SaltAddress(salt, init), init), FALSE)

\* CALL, CALLCODE, DELEGATECALL and STATICCALL.
Call(address, retSize) ==
    /\ Opcode
    /\ address \in DOMAIN Frame.network
    /\ Fork(Frame.network[address].program, "call", Frame.network[address], retSize)

----------------------------------------------------------------------------
\* Seeded fault: the code is kept when the constructor returned nothing.
ExecutedKeepsCode(contract, result) ==
    IF ~contract.isDeployed /\ result # Undefined
    THEN [contract EXCEPT !.program = result, !.returnData = result,
                          !.isDeployed = TRUE]
    ELSE contract

\* Contract.execute when the forked Evm is done: the first result deploys.
Executed(contract, result) ==
    CASE contract.isDeployed -> contract
      [] ~contract.isDeployed /\ result # Undefined ->
           [contract EXCEPT !.program = result, !.returnData = result,
                            !.isDeployed = TRUE]
      [] OTHER -> [contract EXCEPT !.program = Empty]

\* Network.register keeps the contract it has.
Register(network, contract) ==
    IF contract.address \in DOMAIN network THEN network
    ELSE With(network, contract.address, contract)

\* Seeded fault: CREATE2 ignores register's answer, as CREATE does.
PushesAnyAddress(kind, network, contract) == TRUE

\* CREATE pushes the address whatever register says, CREATE2 only when it
\* was free.
PushesAddress(kind, network, contract) ==
    kind = "create" \/ contract.address \notin DOMAIN network

AfterCreate(caller, kind, contract) ==
    [caller EXCEPT
       !.network = Register(@, contract),
       !.created = IF PushesAddress(kind, caller.network, contract)
                   THEN With(@, contract.address, contract.program) ELSE @]

\* The return data of a call is what the contract keeps as its return data.
AfterCall(caller, contract, result) ==
    [caller EXCEPT !.network = With(@, contract.address, contract),
                   !.last = contract.returnData,
                   !.returned = result]

HasData(data) == data \notin {Undefined, Empty}

Pop(caller) == Append(SubSeq(frames, 1, Top - 2), caller)

\* RETURN, STOP or the end of the code.
Return(result) ==
    LET contract == Executed(Frame.contract, result)
        caller == frames[Top - 1]
    IN  /\ Step
        /\ Frame.code = Empty => result = Undefined
        /\ \/ /\ Frame.kind = "root"
              /\ status' = "done"
              /\ UNCHANGED frames
           \/ /\ Frame.kind \in {"create", "create2"}
              /\ frames' = Pop(AfterCreate(caller, Frame.kind, contract))
              /\ UNCHANGED status
           \/ /\ Frame.kind = "call"
              /\ frames' = Pop(AfterCall(caller, contract, result))
              /\ status' = IF HasData(contract.returnData) \/ ~Frame.retSize
                           THEN status ELSE "threw"

\* Reverted (REVERT, INVALID) and StackUnderflow unwind to the last call;
\* CREATE catches nothing.
Calls == {i \in DOMAIN frames : frames[i].kind = "call"}
LastCall == CHOOSE i \in Calls : \A j \in Calls : j <= i

Fail ==
    /\ Opcode
    /\ \/ /\ Calls = {}
          /\ status' = "reverted"
          /\ UNCHANGED frames
       \/ /\ Calls # {}
          /\ frames' = SubSeq(frames, 1, LastCall - 1)
          /\ UNCHANGED status

\* Any other error: a bad jump, a call with value or of an address that the
\* frame's own network does not have.
Throw ==
    /\ Opcode
    /\ status' = "threw"
    /\ UNCHANGED frames

Next ==
    \/ \E k \in Slots, w \in Words : Sstore(k, w)
    \/ \E init \in Buffers : Create(init)
    \/ \E salt \in Salts, init \in Buffers : Create2(salt, init)
    \/ \E address \in Addresses, retSize \in BOOLEAN : Call(address, retSize)
    \/ \E result \in Results : Return(result)
    \/ Fail
    \/ Throw

Spec == Init /\ [][Next]_vars

----------------------------------------------------------------------------
(* The type invariant: a network has each contract under its own address,   *)
(* with the code it was deployed with or none.                              *)
IsNetwork(network) ==
    /\ DOMAIN network \subseteq Addresses
    /\ \A address \in DOMAIN network :
         LET contract == network[address] IN
         /\ contract \in Contract
         /\ contract.address = address
         /\ IF contract.isDeployed THEN contract.program = contract.returnData
            ELSE contract.program = Empty /\ contract.returnData = Undefined

IsFrame(frame) ==
    /\ frame.code \in Buffers
    /\ frame.kind \in {"root", "create", "create2", "call"}
    /\ frame.contract \in Contract
    /\ frame.retSize \in BOOLEAN
    /\ frame.storage \in UNION {[S -> Words] : S \in SUBSET Slots}
    /\ frame.written \subseteq Slots
    /\ IsNetwork(frame.network)
    /\ frame.last \in Results /\ frame.returned \in Results
    /\ DOMAIN frame.created \subseteq DOMAIN frame.network

TypeOK ==
    /\ Len(frames) \in 1..MaxDepth
    /\ \A i \in DOMAIN frames :
         IsFrame(frames[i]) /\ (frames[i].kind = "root" <=> i = 1)
    /\ status \in {"running", "done", "reverted", "threw"}
    /\ steps \in 0..MaxSteps

(* Code is laid down once: no later creation at the same address, no call   *)
(* and no failure changes the program a network has for an address.         *)
CodeNeverChanges ==
    [][\A i \in DOMAIN frames \cap DOMAIN frames' :
         \A address \in DOMAIN frames[i].network :
            /\ address \in DOMAIN frames'[i].network
            /\ frames'[i].network[address].program
                 = frames[i].network[address].program]_vars

Holds(i, k) == ValueIn(frames[i].storage, k)
Unwritten(i) == Slots \ frames[i].written

(* A slot that a sub context has not written holds what its caller has      *)
(* there, or nothing, at any depth and whatever ran and failed in between;  *)
(* it holds the caller's value if its key is read back as it is.  The       *)
(* DELEGATECALL test calls a contract before and after a store to slot 0.   *)
SeesItsCaller ==
    \A i \in DOMAIN frames \ {1} : \A k \in Unwritten(i) :
        /\ Holds(i, k) \in {0, Holds(i - 1, k)}
        /\ Reread[k] = k => Holds(i, k) = Holds(i - 1, k)

(* A fork has all of its caller's storage.  It does not hold of slots from  *)
(* 0x0a on: see the README.                                                 *)
SeesAllOfItsCaller ==
    \A i \in DOMAIN frames \ {1} : \A k \in Unwritten(i) :
        Holds(i, k) = Holds(i - 1, k)

Named(address) ==
    \A i \in DOMAIN frames :
        address \in DOMAIN frames[i].created =>
            frames[i].network[address].program = frames[i].created[address]

(* The address CREATE2 pushes is that of the contract it has just created.  *)
Create2NamesItsContract == \A address \in Addresses \ {NonceAddress} : Named(address)

(* "Puts the new contract address on the stack", the opcode tests say of    *)
(* CREATE.  It does not hold: see the README.                               *)
CreateNamesItsContract == Named(NonceAddress)

(* RETURNDATASIZE and RETURNDATACOPY are about what the last call returned: *)
(* a contract "wich returns 32 FF" gives "our return data size of 32".  It   *)
(* does not hold: see the README.                                           *)
ReturnDataIsTheCalls ==
    \A i \in DOMAIN frames :
        HasData(frames[i].last) \/ HasData(frames[i].returned) =>
            frames[i].last = frames[i].returned
=============================================================================
