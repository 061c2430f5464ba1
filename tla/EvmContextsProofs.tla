-------------------------- MODULE EvmContextsProofs --------------------------
(***************************************************************************)
(* For all programs, salts, slots and words, and call trees of any depth:   *)
(* what a sub context sees of its caller, which contract an address names,  *)
(* and that code once laid down stays.                                      *)
(*                                                                         *)
(* The Evms at work are a stack, and only its top acts.  The invariant says *)
(* what holds of each Evm by itself (Sound) and of an Evm and the one it    *)
(* called (Follows); a step replaces, adds or takes off the top.   *)
(***************************************************************************)
EXTENDS EvmContexts, SequenceTheorems, WellFoundedInduction, TLAPS

Networks == UNION {[D -> Contract] : D \in SUBSET Addresses}
Storages == UNION {[S -> Words] : S \in SUBSET Slots}
Pushed == UNION {[D -> Buffers] : D \in SUBSET Addresses}

Evm ==
    [code : Buffers, kind : {"root", "create", "create2", "call"},
     contract : Contract, retSize : BOOLEAN,
     storage : Storages, written : SUBSET Slots,
     network : Networks, last : Results, created : Pushed, returned : Results]

(* IsNetwork's word for each contract.                                       *)
Registered(contract) ==
    IF contract.isDeployed THEN contract.program = contract.returnData
    ELSE contract.program = Empty /\ contract.returnData = Undefined

(* A contract keeps what its constructor returned, from then on its code.    *)
Kept(contract) ==
    IF contract.isDeployed THEN contract.program = contract.returnData
    ELSE contract.returnData = Undefined

Sound(f) ==
    /\ IsNetwork(f.network)
    /\ DOMAIN f.created \subseteq DOMAIN f.network
    /\ \A address \in DOMAIN f.created \ {NonceAddress} :
         f.network[address].program = f.created[address]
    /\ Kept(f.contract)
    /\ f.kind = "create" => f.contract.address = NonceAddress

(* While an Evm runs, its caller waits: the contract it runs is still the    *)
(* one its caller's network has, and the storage it was copied is what fork  *)
(* makes of its caller's.                                                    *)
Follows(caller, f) ==
    /\ f.kind # "root"
    /\ \A k \in Slots \ f.written :
         ValueIn(f.storage, k) = ValueIn(Copy(caller.storage), k)
    /\ f.kind = "call" =>
         /\ f.contract.address \in DOMAIN caller.network
         /\ caller.network[f.contract.address] = f.contract
         /\ f.code = f.contract.program

(* What a caller becomes: nothing but its network, what it pushed and its    *)
(* return data differ, and no address it had names another program.          *)
GoesOn(caller, f) ==
    /\ f \in Evm /\ Sound(f)
    /\ f.code = caller.code /\ f.kind = caller.kind /\ f.contract = caller.contract
    /\ f.storage = caller.storage /\ f.written = caller.written
    /\ \A a \in DOMAIN caller.network :
         a \in DOMAIN f.network /\ f.network[a].program = caller.network[a].program

Stack(s) ==
    /\ s \in Seq(Evm) /\ s # <<>> /\ s[1].kind = "root"
    /\ \A i \in 1 .. Len(s) : Sound(s[i])
    /\ \A i \in 2 .. Len(s) : Follows(s[i - 1], s[i])

Inv ==
    /\ Stack(frames) /\ Len(frames) <= MaxDepth
    /\ status \in {"running", "done", "reverted", "threw"}
    /\ steps \in 0 .. MaxSteps

----------------------------------------------------------------------------
(* Stacks *)

(* A stack cut back to its first n, with or without another Evm on top, is   *)
(* a stack.                                                                  *)
LEMMA CutStack ==
    ASSUME NEW s, Stack(s), NEW n \in 1 .. Len(s)
    PROVE  Stack(SubSeq(s, 1, n)) /\ Len(SubSeq(s, 1, n)) = n
<1>1. s \in Seq(Evm) /\ Len(s) \in Nat /\ \A i \in 1 .. n : s[i] \in Evm
  BY DEF Stack
<1>2. PICK t : t = SubSeq(s, 1, n)
  OBVIOUS
<1>3. t \in Seq(Evm) /\ Len(t) = n /\ \A i \in 1 .. n : t[i] = s[i]
  BY <1>1, <1>2, SubSeqProperties
<1>4. t # <<>> /\ t[1].kind = "root"
  BY <1>3 DEF Stack
<1>5. \A i \in 1 .. n : Sound(t[i])
  BY <1>1, <1>3 DEF Stack
<1>6. ASSUME NEW i \in 2 .. n PROVE Follows(t[i - 1], t[i])
  <2>1. t[i] = s[i] /\ t[i - 1] = s[i - 1]
    BY <1>3
  <2>2. i \in 2 .. Len(s)
    BY <1>1
  <2>3. Follows(s[i - 1], s[i])
    BY <2>2 DEF Stack
  <2> QED
    BY <2>1, <2>3
<1> QED
  BY <1>2, <1>3, <1>4, <1>5, <1>6 DEF Stack

LEMMA StackWithTop ==
    ASSUME NEW s, Stack(s), NEW n \in 0 .. Len(s), NEW f \in Evm, Sound(f),
           n = 0 => f.kind = "root",
           n > 0 => Follows(s[n], f),
           NEW t \in Seq(Evm), Len(t) = n + 1, t[n + 1] = f,
           \A i \in 1 .. n : t[i] = s[i]
    PROVE  Stack(t)
<1>1. Len(s) \in Nat /\ n \in Nat
  BY DEF Stack
<1>a. t # <<>>
  BY <1>1
<1>2. t[1].kind = "root"
  <2>1. CASE n = 0
    <3>1. t[1] = f /\ f.kind = "root"
      BY <2>1
    <3> QED
      BY <3>1
  <2>2. CASE n > 0
    <3>1. t[1] = s[1]
      BY <1>1, <2>2
    <3> QED
      BY <2>2, <3>1 DEF Stack
  <2> QED
    BY <1>1, <2>1, <2>2
<1>3. ASSUME NEW i \in 1 .. n + 1 PROVE Sound(t[i])
  <2>1. CASE i = n + 1
    BY <2>1
  <2>2. CASE i # n + 1
    <3>1. i \in 1 .. Len(s) /\ t[i] = s[i]
      BY <1>1, <2>2
    <3> QED
      BY <3>1 DEF Stack
  <2> QED
    BY <2>1, <2>2
<1>4. ASSUME NEW i \in 2 .. n + 1 PROVE Follows(t[i - 1], t[i])
  <2>1. CASE i = n + 1
    <3>1. t[i] = f /\ t[i - 1] = s[n] /\ n > 0
      BY <1>1, <2>1
    <3> QED
      BY <3>1
  <2>2. CASE i # n + 1
    <3>1. t[i] = s[i] /\ t[i - 1] = s[i - 1] /\ i \in 2 .. Len(s)
      BY <1>1, <2>2
    <3>2. Follows(s[i - 1], s[i])
      BY <3>1 DEF Stack
    <3> QED
      BY <3>1, <3>2
  <2> QED
    BY <2>1, <2>2
<1> QED
  BY <1>a, <1>2, <1>3, <1>4 DEF Stack

(* The top of a stack, and what replaces it.                                 *)
LEMMA TopIs ==
    ASSUME NEW s, Stack(s), NEW i \in 1 .. Len(s)
    PROVE  /\ Len(s) \in Nat \ {0} /\ DOMAIN s = 1 .. Len(s)
           /\ s[i] \in Evm /\ Sound(s[i])
           /\ i = 1 <=> s[i].kind = "root"
           /\ i > 1 => i - 1 \in 1 .. Len(s) /\ Follows(s[i - 1], s[i])
<1>1. s \in Seq(Evm) /\ Len(s) \in Nat \ {0} /\ DOMAIN s = 1 .. Len(s)
  BY DEF Stack
<1>2. ASSUME i > 1 PROVE i - 1 \in 1 .. Len(s) /\ Follows(s[i - 1], s[i])
  <2>1. i \in 2 .. Len(s) /\ i - 1 \in 1 .. Len(s)
    BY <1>1, <1>2
  <2> QED
    BY <2>1 DEF Stack
<1> QED
  BY <1>1, <1>2 DEF Stack, Follows

(* The Evm a stack is cut back to goes on, with another network and return   *)
(* data.                                                                     *)
LEMMA ReplacedTop ==
    ASSUME NEW s, Stack(s), NEW n \in 0 .. Len(s) - 1, NEW f, GoesOn(s[n + 1], f)
    PROVE  /\ Stack(Append(SubSeq(s, 1, n), f))
           /\ Len(Append(SubSeq(s, 1, n), f)) = n + 1
           /\ \A i \in 1 .. n : Append(SubSeq(s, 1, n), f)[i] = s[i]
           /\ Append(SubSeq(s, 1, n), f)[n + 1] = f
<1>1. s \in Seq(Evm) /\ \A i \in 1 .. n : s[i] \in Evm
  BY DEF Stack
<1>2. PICK r : r = SubSeq(s, 1, n)
  OBVIOUS
<1>3. r \in Seq(Evm) /\ Len(r) = n /\ \A i \in 1 .. n : r[i] = s[i]
  BY <1>1, <1>2, SubSeqProperties
<1>4. PICK t : t = Append(r, f)
  OBVIOUS
<1>5. /\ t \in Seq(Evm) /\ Len(t) = n + 1 /\ t[n + 1] = f
      /\ \A i \in 1 .. n : t[i] = s[i]
  BY <1>3, <1>4, AppendProperties DEF GoesOn
<1>6. PICK g : g = s[n + 1]
  OBVIOUS
<1>7. g \in Evm /\ (n = 0 => g.kind = "root") /\ (n > 0 => Follows(s[n], g))
  BY <1>6, TopIs
<1>8. f \in Evm /\ Sound(f)
  BY DEF GoesOn
<1>9. /\ f.kind = g.kind /\ f.storage = g.storage /\ f.written = g.written
      /\ f.contract = g.contract /\ f.code = g.code
  BY <1>6 DEF GoesOn
<1>10. (n = 0 => f.kind = "root") /\ (n > 0 => Follows(s[n], f))
  BY <1>7, <1>9 DEF Follows
<1>11. Stack(t)
  <2>1. n \in 0 .. Len(s)
    BY <1>1
  <2> QED
    BY <1>5, <1>8, <1>10, <2>1, StackWithTop
<1> QED
  BY <1>2, <1>4, <1>5, <1>11

----------------------------------------------------------------------------
(* Contracts and networks *)

LEMMA NothingIsAFunction ==
    ASSUME NEW S
    PROVE  /\ DOMAIN <<>> = {} /\ <<>> \in [{} -> S]
<1>1. <<>> \in Seq(S) /\ Len(<<>>) = 0
  BY EmptySeq
<1>2. <<>> \in [1 .. 0 -> S]
  BY <1>1, LenProperties
<1>3. 1 .. 0 = {}
  OBVIOUS
<1> QED
  BY <1>2, <1>3

(* A new Evm is sound, whatever its code, contract and storage.              *)
LEMMA NewEvmIs ==
    ASSUME NEW code \in Buffers, NEW kind \in {"root", "create", "create2", "call"},
           NEW contract \in Contract, Kept(contract),
           kind = "create" => contract.address = NonceAddress,
           NEW storage \in Storages, NEW retSize \in BOOLEAN
    PROVE  LET f == NewEvm(code, kind, contract, storage, retSize) IN
           /\ f \in Evm /\ Sound(f)
           /\ f.code = code /\ f.kind = kind /\ f.contract = contract
           /\ f.storage = storage /\ f.written = {}
<1>1. DOMAIN <<>> = {} /\ <<>> \in Networks /\ <<>> \in Pushed
  BY NothingIsAFunction DEF Networks, Pushed
<1>2. Undefined \in Results
  BY DEF Results
<1>3. PICK f : f = NewEvm(code, kind, contract, storage, retSize)
  OBVIOUS
<1>4. f \in Evm
  BY <1>1, <1>2, <1>3 DEF NewEvm, Evm
<1>5. /\ f.code = code /\ f.kind = kind /\ f.contract = contract
      /\ f.storage = storage /\ f.written = {} /\ f.network = <<>> /\ f.created = <<>>
  BY <1>3 DEF NewEvm
<1>6. Sound(f)
  BY <1>1, <1>5 DEF Sound, IsNetwork
<1> QED
  BY <1>3, <1>4, <1>5, <1>6

(* What execute makes of the contract: one that was deployed is as it was,   *)
(* one that was not is deployed with the result, or has no code.             *)
LEMMA ExecutedIs ==
    ASSUME NEW contract \in Contract, Kept(contract), NEW result \in Results
    PROVE  LET c == Executed(contract, result) IN
           /\ c \in Contract /\ c.address = contract.address
           /\ Kept(c)
           /\ ~c.isDeployed => c.program = Empty
           /\ contract.isDeployed => c = contract
           /\ ~contract.isDeployed /\ result = Undefined => c.program = Empty
<1>1. PICK c : c = Executed(contract, result)
  OBVIOUS
<1>2. CASE contract.isDeployed
  BY <1>1, <1>2 DEF Executed, Contract, Kept
<1>3. CASE ~contract.isDeployed /\ result # Undefined
  <2>1. result \in Buffers
    BY <1>3 DEF Results
  <2>2. c = [contract EXCEPT !.program = result, !.returnData = result, !.isDeployed = TRUE]
    BY <1>1, <1>3 DEF Executed
  <2> QED
    BY <1>1, <1>3, <2>1, <2>2 DEF Contract, Kept, Results
<1>4. CASE ~contract.isDeployed /\ result = Undefined
  <2>1. c = [contract EXCEPT !.program = Empty] /\ Empty \in Buffers
    BY <1>1, <1>4 DEF Executed, Buffers
  <2> QED
    BY <1>1, <1>4, <2>1 DEF Contract, Kept
<1> QED
  BY <1>2, <1>3, <1>4

LEMMA WithKeepsNetwork ==
    ASSUME NEW network \in Networks, IsNetwork(network),
           NEW c \in Contract, Kept(c), ~c.isDeployed => c.program = Empty
    PROVE  /\ With(network, c.address, c) \in Networks
           /\ IsNetwork(With(network, c.address, c))
<1>1. PICK D \in SUBSET Addresses : network \in [D -> Contract]
  BY DEF Networks
<1>2. c.address \in Addresses /\ D \cup {c.address} \in SUBSET Addresses
  BY <1>1 DEF Contract
<1>3. With(network, c.address, c) \in [D \cup {c.address} -> Contract]
  BY <1>1 DEF With
<1>4. With(network, c.address, c) \in Networks
  BY <1>2, <1>3 DEF Networks
<1>5. Registered(c)
  BY DEF Registered, Kept
<1>6. \A a \in DOMAIN network :
        network[a] \in Contract /\ network[a].address = a /\ Registered(network[a])
  BY DEF IsNetwork, Registered
<1>7. PICK after : after = With(network, c.address, c)
  OBVIOUS
<1>8. /\ DOMAIN after = DOMAIN network \cup {c.address} /\ after[c.address] = c
      /\ \A z \in DOMAIN network : z # c.address => after[z] = network[z]
  BY <1>7 DEF With
<1>9. DOMAIN after \subseteq Addresses
  BY <1>1, <1>2, <1>8
<1>10. \A a \in DOMAIN after :
         after[a] \in Contract /\ after[a].address = a /\ Registered(after[a])
  BY <1>5, <1>6, <1>8
<1>11. IsNetwork(after)
  BY <1>9, <1>10 DEF IsNetwork, Registered
<1> QED
  BY <1>4, <1>7, <1>11

LEMMA EvmParts ==
    ASSUME NEW f \in Evm
    PROVE  /\ f.code \in Buffers /\ f.kind \in {"root", "create", "create2", "call"}
           /\ f.contract \in Contract /\ f.storage \in Storages
           /\ f.network \in Networks /\ f.created \in Pushed
           /\ f.last \in Results /\ f.returned \in Results
  BY DEF Evm

(* A creation registers the contract if its address is free; CREATE2 pushes  *)
(* the address only then, so what it pushed names what it created.           *)
LEMMA AfterCreateIs ==
    ASSUME NEW caller \in Evm, Sound(caller),
           NEW kind \in {"create", "create2"},
           NEW c \in Contract, Kept(c), ~c.isDeployed => c.program = Empty,
           kind = "create" => c.address = NonceAddress
    PROVE  GoesOn(caller, AfterCreate(caller, kind, c))
<1> DEFINE network == Register(caller.network, c)
           created == IF PushesAddress(kind, caller.network, c)
                      THEN With(caller.created, c.address, c.program)
                      ELSE caller.created
<1>1. PICK n, p : n = network /\ p = created
  OBVIOUS
<1>2. PICK f : f = AfterCreate(caller, kind, c)
  OBVIOUS
<1>3. f = [caller EXCEPT !.network = n, !.created = p]
  BY <1>1, <1>2 DEF AfterCreate
<1>4. n \in Networks /\ IsNetwork(n)
  BY <1>1, EvmParts, WithKeepsNetwork DEF Register, Sound
<1>5. /\ \A a \in DOMAIN caller.network : a \in DOMAIN n /\ n[a] = caller.network[a]
      /\ c.address \in DOMAIN n
      /\ c.address \notin DOMAIN caller.network => n[c.address] = c
  BY <1>1 DEF Register, With
<1>6. /\ p \in Pushed /\ DOMAIN p \subseteq DOMAIN n
      /\ \A a \in DOMAIN p \ {NonceAddress} : n[a].program = p[a]
  <2>1. caller.created \in Pushed /\ DOMAIN caller.created \subseteq DOMAIN n
    BY <1>5, EvmParts DEF Sound
  <2>2. \A a \in DOMAIN caller.created \ {NonceAddress} : n[a].program = caller.created[a]
    BY <1>5 DEF Sound
  <2>3. CASE ~PushesAddress(kind, caller.network, c)
    BY <1>1, <2>1, <2>2, <2>3
  <2>4. CASE PushesAddress(kind, caller.network, c)
    <3>1. p = With(caller.created, c.address, c.program)
      BY <1>1, <2>4
    <3>2. PICK D \in SUBSET Addresses : caller.created \in [D -> Buffers]
      BY <2>1 DEF Pushed
    <3>3. c.address \in Addresses /\ c.program \in Buffers
      BY DEF Contract
    <3>4. p \in [D \cup {c.address} -> Buffers] /\ D \cup {c.address} \in SUBSET Addresses
      BY <3>1, <3>2, <3>3 DEF With
    <3>5. p \in Pushed
      BY <3>4 DEF Pushed
    <3>6. /\ DOMAIN p = DOMAIN caller.created \cup {c.address} /\ p[c.address] = c.program
          /\ \A a \in DOMAIN caller.created : a # c.address => p[a] = caller.created[a]
      BY <3>1 DEF With
    <3>7. c.address = NonceAddress \/ n[c.address] = c
      BY <1>5, <2>4 DEF PushesAddress
    <3>8. \A a \in DOMAIN p \ {NonceAddress} : n[a].program = p[a]
      BY <2>2, <3>6, <3>7
    <3> QED
      BY <1>5, <2>1, <3>5, <3>6, <3>8
  <2> QED
    BY <2>3, <2>4
<1>7. /\ f \in Evm /\ f.network = n /\ f.created = p
      /\ f.code = caller.code /\ f.kind = caller.kind /\ f.contract = caller.contract
      /\ f.storage = caller.storage /\ f.written = caller.written
  BY <1>3, <1>4, <1>6 DEF Evm
<1>8. Sound(f)
  BY <1>4, <1>6, <1>7 DEF Sound
<1> QED
  BY <1>2, <1>5, <1>7, <1>8 DEF GoesOn

(* A call puts back a contract with the program it had.                      *)
LEMMA AfterCallIs ==
    ASSUME NEW caller \in Evm, Sound(caller), NEW result \in Results,
           NEW c \in Contract, Kept(c), ~c.isDeployed => c.program = Empty,
           c.address \in DOMAIN caller.network,
           caller.network[c.address].program = c.program
    PROVE  GoesOn(caller, AfterCall(caller, c, result))
<1>1. PICK n : n = With(caller.network, c.address, c)
  OBVIOUS
<1>2. PICK f : f = AfterCall(caller, c, result)
  OBVIOUS
<1>3. f = [caller EXCEPT !.network = n, !.last = c.returnData, !.returned = result]
  BY <1>1, <1>2 DEF AfterCall
<1>4. n \in Networks /\ IsNetwork(n)
  BY <1>1, EvmParts, WithKeepsNetwork DEF Sound
<1>5. /\ DOMAIN n = DOMAIN caller.network
      /\ \A a \in DOMAIN caller.network : n[a].program = caller.network[a].program
  BY <1>1 DEF With
<1>6. c.returnData \in Results
  BY DEF Contract
<1>7. /\ f \in Evm /\ f.network = n /\ f.created = caller.created
      /\ f.code = caller.code /\ f.kind = caller.kind /\ f.contract = caller.contract
      /\ f.storage = caller.storage /\ f.written = caller.written
      /\ f.last = c.returnData /\ f.returned = result
  BY <1>3, <1>4, <1>6 DEF Evm
<1>8. Sound(f)
  BY <1>4, <1>5, <1>7 DEF Sound
<1> QED
  BY <1>2, <1>5, <1>7, <1>8 DEF GoesOn

----------------------------------------------------------------------------
(* Steps *)

(* Of the Evms that were at work and still are, no network lost a contract   *)
(* or gave one another program.                                              *)
CodeStays(before, after) ==
    \A i \in DOMAIN before \cap DOMAIN after :
      \A address \in DOMAIN before[i].network :
         /\ address \in DOMAIN after[i].network
         /\ after[i].network[address].program = before[i].network[address].program

LEMMA InitStacks == Init => Inv
<1> SUFFICES ASSUME Init PROVE Inv
  OBVIOUS
<1>1. PICK code \in Codes :
        frames = <<NewEvm(code, "root", NoContract, <<>>, FALSE)>>
  BY DEF Init
<1>2. NoContract \in Contract /\ Kept(NoContract)
  BY DEF NoContract, NewContract, Contract, Kept, Addresses, Buffers, Results
<1>3. <<>> \in Storages
  BY NothingIsAFunction DEF Storages
<1>4. PICK f : f = NewEvm(code, "root", NoContract, <<>>, FALSE)
  OBVIOUS
<1>5. f \in Evm /\ Sound(f) /\ f.kind = "root"
  <2>1. code \in Buffers /\ FALSE \in BOOLEAN
    BY DEF Buffers
  <2>2. PICK storage \in Storages : storage = <<>>
    BY <1>3
  <2>3. PICK kind \in {"root", "create", "create2", "call"}, retSize \in BOOLEAN :
          kind = "root" /\ kind # "create" /\ retSize = FALSE
    OBVIOUS
  <2>4. f = NewEvm(code, kind, NoContract, storage, retSize)
    BY <1>4, <2>2, <2>3
  <2>5. f \in Evm /\ Sound(f) /\ f.kind = kind
    BY <1>2, <2>1, <2>3, <2>4, NewEvmIs
  <2> QED
    BY <2>3, <2>5
<1>6. frames = <<f>>
  BY <1>1, <1>4
<1>7. frames \in Seq(Evm) /\ Len(frames) = 1 /\ frames[1] = f /\ frames # <<>>
  BY <1>5, <1>6
<1>8. Stack(frames)
  BY <1>5, <1>7 DEF Stack
<1>9. MaxDepth >= 1 /\ MaxSteps \in Nat
  BY BoundsNat DEF BoundsNat
<1> QED
  BY <1>7, <1>8, <1>9 DEF Init, Inv

(* Every opcode, and every end of an Evm, is one of the steps counted.       *)
LEMMA StepCounts ==
    ASSUME Inv, Step
    PROVE  status = "running" /\ steps' \in 0 .. MaxSteps
  BY BoundsNat DEF BoundsNat, Inv, Step

LEMMA TopOfFrames ==
    ASSUME Inv
    PROVE  /\ Top \in Nat \ {0} /\ Top = Len(frames) /\ DOMAIN frames = 1 .. Top
           /\ Frame = frames[Top] /\ Frame \in Evm /\ Sound(Frame)
           /\ Top = 1 <=> Frame.kind = "root"
           /\ Top > 1 => Follows(frames[Top - 1], Frame)
<1>1. Len(frames) \in Nat \ {0}
  BY DEF Inv, Stack
<1>2. Len(frames) \in 1 .. Len(frames)
  BY <1>1
<1> QED
  BY <1>1, <1>2, TopIs DEF Inv, Top, Frame

(* A store changes what is read of one slot; a copy is a storage.            *)
LEMMA EntriesWith ==
    ASSUME NEW entries \in Storages, NEW k \in Slots, NEW w \in Words
    PROVE  /\ With(entries, k, w) \in Storages
           /\ \A j \in Slots \ {k} :
                ValueIn(With(entries, k, w), j) = ValueIn(entries, j)
<1>1. PICK S \in SUBSET Slots : entries \in [S -> Words]
  BY DEF Storages
<1>2. With(entries, k, w) \in [S \cup {k} -> Words] /\ S \cup {k} \in SUBSET Slots
  BY <1>1 DEF With
<1>3. With(entries, k, w) \in Storages
  BY <1>2 DEF Storages
<1>4. \A j \in Slots \ {k} : ValueIn(With(entries, k, w), j) = ValueIn(entries, j)
  BY <1>1 DEF With, ValueIn
<1> QED
  BY <1>3, <1>4

LEMMA CopyIsStorage ==
    ASSUME NEW entries \in Storages
    PROVE  Copy(entries) \in Storages
<1>1. PICK S \in SUBSET Slots : entries \in [S -> Words]
  BY DEF Storages
<1>2. PICK R : R = {Reread[k] : k \in S}
  OBVIOUS
<1>3. R \in SUBSET Slots
  BY <1>2, TextsAreRead DEF TextsAreRead
<1>4. \A r \in R : ValueIn(entries, r) \in Words
  BY <1>1, ZeroIsWord DEF ValueIn, ZeroIsWord
<1>5. Copy(entries) = [r \in R |-> ValueIn(entries, r)]
  BY <1>1, <1>2 DEF Copy
<1>6. Copy(entries) \in [R -> Words]
  BY <1>4, <1>5
<1> QED
  BY <1>3, <1>6 DEF Storages

(* A copy has what it was copied of, or nothing, in each slot, and what it   *)
(* was copied of where keys are read back as they are.                       *)
LEMMA CopyHolds ==
    ASSUME NEW entries, NEW k
    PROVE  /\ ValueIn(Copy(entries), k) \in {0, ValueIn(entries, k)}
           /\ Reread[k] = k => ValueIn(Copy(entries), k) = ValueIn(entries, k)
<1>1. CASE k \in {Reread[j] : j \in DOMAIN entries}
  <2>1. ValueIn(Copy(entries), k) = ValueIn(entries, k)
    BY <1>1 DEF Copy, ValueIn
  <2> QED
    BY <2>1
<1>2. CASE k \notin {Reread[j] : j \in DOMAIN entries}
  <2>1. ValueIn(Copy(entries), k) = 0
    BY <1>2 DEF Copy, ValueIn
  <2>2. Reread[k] = k => ValueIn(entries, k) = 0
    BY <1>2 DEF ValueIn
  <2> QED
    BY <2>1, <2>2
<1> QED
  BY <1>1, <1>2

LEMMA SstoreKeeps ==
    ASSUME Inv, NEW k \in Slots, NEW w \in Words, Sstore(k, w)
    PROVE  Inv' /\ CodeStays(frames, frames')
<1>a. PICK entries : entries = With(Frame.storage, k, w)
  OBVIOUS
<1>1. PICK f : f = [Frame EXCEPT !.storage = entries, !.written = @ \cup {k}]
  OBVIOUS
<1>2. /\ frames' = [frames EXCEPT ![Top] = f] /\ UNCHANGED status /\ Step
  BY <1>a, <1>1 DEF Sstore, Opcode, Frame
<1>3. Frame \in Evm /\ Sound(Frame) /\ Top \in Nat \ {0} /\ Top = Len(frames)
  BY TopOfFrames
<1>b. /\ entries \in Storages
      /\ \A j \in Slots \ {k} : ValueIn(entries, j) = ValueIn(Frame.storage, j)
  BY <1>a, <1>3, EvmParts, EntriesWith
<1>4. /\ f \in Evm /\ f.kind = Frame.kind /\ f.network = Frame.network
      /\ f.created = Frame.created /\ f.contract = Frame.contract
      /\ f.code = Frame.code /\ f.written = Frame.written \cup {k}
      /\ \A j \in Slots \ {k} : ValueIn(f.storage, j) = ValueIn(Frame.storage, j)
  BY <1>1, <1>3, <1>b DEF Evm
<1>5. Sound(f)
  BY <1>3, <1>4 DEF Sound
<1>6. /\ frames' \in Seq(Evm) /\ Len(frames') = Top /\ frames'[Top] = f
      /\ \A i \in 1 .. Top - 1 : frames'[i] = frames[i]
  BY <1>2, <1>3, <1>4 DEF Inv, Stack
<1>7. Top = 1 => f.kind = "root"
  BY <1>4, TopOfFrames
<1>8. ASSUME Top - 1 > 0 PROVE Follows(frames[Top - 1], f)
  <2>1. Follows(frames[Top - 1], Frame)
    BY <1>3, <1>8, TopOfFrames
  <2> QED
    BY <1>4, <2>1 DEF Follows
<1>9. Stack(frames')
  <2>1. PICK t : t = frames'
    OBVIOUS
  <2>2. PICK n \in 0 .. Len(frames) : n = Top - 1 /\ n + 1 = Top /\ (n = 0 => Top = 1)
    BY <1>3
  <2>3. Stack(t)
    BY <1>4, <1>5, <1>6, <1>7, <1>8, <2>1, <2>2, StackWithTop DEF Inv
  <2> QED
    BY <2>1, <2>3
<1>10. CodeStays(frames, frames')
  <2>1. \A i \in 1 .. Top : frames'[i].network = frames[i].network
    BY <1>3, <1>4, <1>6, TopOfFrames
  <2> QED
    BY <2>1, TopOfFrames DEF CodeStays
<1> QED
  BY <1>2, <1>3, <1>6, <1>9, <1>10, StepCounts DEF Inv

(* A fork adds an Evm that has the copy of what its caller has.              *)
LEMMA ForkKeeps ==
    ASSUME Inv, Step, NEW code \in Buffers, NEW kind \in {"create", "create2", "call"},
           NEW contract \in Contract, NEW retSize \in BOOLEAN, Kept(contract),
           kind = "create" => contract.address = NonceAddress,
           kind = "call" => /\ contract.address \in DOMAIN Frame.network
                            /\ Frame.network[contract.address] = contract
                            /\ code = contract.program,
           Fork(code, kind, contract, retSize)
    PROVE  Inv' /\ CodeStays(frames, frames')
<1>a. PICK entries : entries = Copy(Frame.storage)
  OBVIOUS
<1>1. PICK f : f = NewEvm(code, kind, contract, entries, retSize)
  OBVIOUS
<1>2. Top < MaxDepth /\ frames' = Append(frames, f) /\ UNCHANGED status
  BY <1>a, <1>1 DEF Fork
<1>3. Frame \in Evm /\ Top \in Nat \ {0} /\ Top = Len(frames) /\ Frame = frames[Top]
  BY TopOfFrames
<1>b. entries \in Storages
  BY <1>a, <1>3, EvmParts, CopyIsStorage
<1>4. /\ f \in Evm /\ Sound(f)
      /\ f.code = code /\ f.kind = kind /\ f.contract = contract
      /\ f.storage = entries /\ f.written = {}
  BY <1>1, <1>b, NewEvmIs
<1>5. Follows(Frame, f)
  BY <1>a, <1>4 DEF Follows
<1>6. /\ frames' \in Seq(Evm) /\ Len(frames') = Top + 1 /\ frames'[Top + 1] = f
      /\ \A i \in 1 .. Top : frames'[i] = frames[i]
  BY <1>2, <1>3, <1>4 DEF Inv, Stack
<1>7. Stack(frames')
  <2>1. PICK t : t = frames'
    OBVIOUS
  <2>2. PICK n \in 0 .. Len(frames) : n = Top
    BY <1>3
  <2>3. Stack(t)
    BY <1>3, <1>4, <1>5, <1>6, <2>1, <2>2, StackWithTop DEF Inv
  <2> QED
    BY <2>1, <2>3
<1>8. CodeStays(frames, frames')
  BY <1>6, TopOfFrames DEF CodeStays
<1>9. Len(frames') <= MaxDepth
  BY <1>2, <1>3, <1>6, BoundsNat DEF BoundsNat
<1> QED
  BY <1>2, <1>7, <1>8, <1>9, StepCounts DEF Inv

(* CREATE and CREATE2 fork for a new contract, the calls for one of the      *)
(* network's.                                                                *)
LEMMA NewContractIs ==
    ASSUME NEW address \in Addresses, NEW init \in Buffers
    PROVE  /\ NewContract(address, init) \in Contract
           /\ Kept(NewContract(address, init))
           /\ NewContract(address, init).address = address
  BY DEF NewContract, Contract, Kept, Results

LEMMA CreateKeeps ==
    ASSUME Inv, NEW init \in Buffers,
           Create(init) \/ \E salt \in Salts : Create2(salt, init)
    PROVE  Inv' /\ CodeStays(frames, frames')
<1>1. CASE Create(init)
  <2>1. NonceAddress \in Addresses
    BY DEF Addresses
  <2> QED
    BY <1>1, <2>1, NewContractIs, ForkKeeps DEF Create, Opcode
<1>2. ASSUME NEW salt \in Salts, Create2(salt, init)
      PROVE  Inv' /\ CodeStays(frames, frames')
  <2>1. SaltAddress(salt, init) \in Addresses
    BY TextsAreRead DEF TextsAreRead, Addresses, SaltAddress
  <2> QED
    BY <1>2, <2>1, NewContractIs, ForkKeeps DEF Create2, Opcode
<1> QED
  BY <1>1, <1>2

LEMMA CallKeeps ==
    ASSUME Inv, NEW address \in Addresses, NEW retSize \in BOOLEAN, Call(address, retSize)
    PROVE  Inv' /\ CodeStays(frames, frames')
<1>1. IsNetwork(Frame.network) /\ address \in DOMAIN Frame.network
  BY TopOfFrames DEF Call, Sound
<1>2. PICK c : c = Frame.network[address]
  OBVIOUS
<1>3. c \in Contract /\ Kept(c) /\ c.address = address
  BY <1>1, <1>2 DEF IsNetwork, Kept
<1>4. c.program \in Buffers
  BY <1>3 DEF Contract
<1>5. Step /\ Fork(c.program, "call", c, retSize)
  BY <1>2 DEF Call, Opcode
<1> QED
  BY <1>1, <1>2, <1>3, <1>4, <1>5, ForkKeeps

----------------------------------------------------------------------------
(* The end of a sub context *)

(* The caller takes the place of its sub context, and of itself.             *)
LEMMA PopKeeps ==
    ASSUME Inv, Step, Top > 1, NEW f, GoesOn(frames[Top - 1], f), frames' = Pop(f),
           status' \in {"running", "done", "reverted", "threw"}
    PROVE  Inv' /\ CodeStays(frames, frames')
<1>1. Top \in Nat \ {0} /\ Top = Len(frames) /\ DOMAIN frames = 1 .. Top
  BY TopOfFrames
<1>2. PICK n \in 0 .. Len(frames) - 1 : n = Top - 2 /\ n + 1 = Top - 1
  BY <1>1
<1>3. PICK t : t = Append(SubSeq(frames, 1, n), f)
  OBVIOUS
<1>a. frames' = t
  BY <1>2, <1>3 DEF Pop
<1>4. GoesOn(frames[n + 1], f)
  BY <1>2
<1>b. Stack(frames)
  BY DEF Inv
<1>c. /\ Stack(t) /\ Len(t) = n + 1
      /\ \A i \in 1 .. n : t[i] = frames[i]
      /\ t[n + 1] = f
  BY <1>3, <1>4, <1>b, ReplacedTop
<1>5. /\ Stack(frames') /\ Len(frames') = n + 1
      /\ \A i \in 1 .. n : frames'[i] = frames[i]
      /\ frames'[n + 1] = f
  BY <1>a, <1>c
<1>6. DOMAIN frames' = 1 .. n + 1
  BY <1>5 DEF Stack
<1>7. CodeStays(frames, frames')
  <2> SUFFICES ASSUME NEW i \in 1 .. n + 1, NEW a \in DOMAIN frames[i].network
               PROVE  /\ a \in DOMAIN frames'[i].network
                      /\ frames'[i].network[a].program = frames[i].network[a].program
    BY <1>6 DEF CodeStays
  <2>1. CASE i \in 1 .. n
    BY <1>5, <2>1
  <2>2. CASE i = n + 1
    BY <1>2, <1>5, <2>2 DEF GoesOn
  <2> QED
    BY <2>1, <2>2
<1>8. Len(frames') <= MaxDepth
  BY <1>1, <1>2, <1>5, BoundsNat DEF Inv, BoundsNat
<1> QED
  BY <1>5, <1>7, <1>8, StepCounts DEF Inv

LEMMA ReturnKeeps ==
    ASSUME Inv, NEW result \in Results, Return(result)
    PROVE  Inv' /\ CodeStays(frames, frames')
<1>1. /\ Frame \in Evm /\ Sound(Frame) /\ Top \in Nat \ {0} /\ Top = Len(frames)
      /\ Frame.kind # "root" => Top > 1 /\ Follows(frames[Top - 1], Frame)
  BY TopOfFrames
<1>2. PICK c : c = Executed(Frame.contract, result)
  OBVIOUS
<1>3. /\ c \in Contract /\ c.address = Frame.contract.address /\ Kept(c)
      /\ ~c.isDeployed => c.program = Empty
      /\ Frame.contract.isDeployed => c = Frame.contract
      /\ ~Frame.contract.isDeployed /\ result = Undefined => c.program = Empty
  BY <1>1, <1>2, EvmParts, ExecutedIs DEF Sound
<1>4. PICK caller : caller = frames[Top - 1]
  OBVIOUS
<1>5. Top > 1 => caller \in Evm /\ Sound(caller)
  <2> SUFFICES ASSUME Top > 1 PROVE caller \in Evm /\ Sound(caller)
    OBVIOUS
  <2>1. Top - 1 \in 1 .. Len(frames)
    BY <1>1
  <2> QED
    BY <1>4, <2>1, TopIs DEF Inv
<1>6. Step /\ (Frame.code = Empty => result = Undefined)
  BY DEF Return
<1>7. CASE Frame.kind = "root" /\ status' = "done" /\ UNCHANGED frames
  BY <1>6, <1>7, StepCounts DEF Inv, CodeStays
<1>8. CASE /\ Frame.kind \in {"create", "create2"}
           /\ frames' = Pop(AfterCreate(caller, Frame.kind, c)) /\ UNCHANGED status
  <2>1. Frame.kind = "create" => c.address = NonceAddress
    BY <1>1, <1>3 DEF Sound
  <2>2. GoesOn(caller, AfterCreate(caller, Frame.kind, c))
    BY <1>1, <1>3, <1>5, <1>8, <2>1, AfterCreateIs
  <2> QED
    BY <1>1, <1>4, <1>6, <1>8, <2>2, PopKeeps DEF Inv
<1>9. CASE /\ Frame.kind = "call" /\ frames' = Pop(AfterCall(caller, c, result))
           /\ status' \in {status, "threw"}
  <2>1. /\ Frame.contract.address \in DOMAIN caller.network
        /\ caller.network[Frame.contract.address] = Frame.contract
        /\ Frame.code = Frame.contract.program
    BY <1>1, <1>4, <1>9 DEF Follows
  <2>2. caller.network[c.address].program = c.program
    <3>1. CASE Frame.contract.isDeployed
      BY <1>3, <2>1, <3>1
    <3>2. CASE ~Frame.contract.isDeployed
      <4>1. Frame.contract.program = Empty
        BY <1>1, <1>5, <1>9, <2>1, <3>2 DEF Sound, IsNetwork
      <4> QED
        BY <1>3, <1>6, <2>1, <3>2, <4>1
    <3> QED
      BY <3>1, <3>2
  <2>3. GoesOn(caller, AfterCall(caller, c, result))
    BY <1>1, <1>3, <1>5, <1>9, <2>1, <2>2, AfterCallIs
  <2> QED
    BY <1>1, <1>4, <1>6, <1>9, <2>3, PopKeeps DEF Inv
<1> QED
  BY <1>2, <1>4, <1>7, <1>8, <1>9 DEF Return

----------------------------------------------------------------------------
(* Failures *)

(* The last call there is, counted from the top.                             *)
LEMMA LeastNat ==
    ASSUME NEW T \in SUBSET Nat, T # {}
    PROVE  \E n \in T : \A m \in T : n <= m
<1> DEFINE Less == OpToRel(<, Nat)
<1>1. PICK x \in T : \A y \in T : <<y, x>> \notin Less
  BY NatLessThanWellFounded, WFMin
<1>2. ASSUME NEW y \in T PROVE x <= y
  <2>1. x \in Nat /\ y \in Nat
    OBVIOUS
  <2>2. y < x => <<y, x>> \in Less
    BY <2>1 DEF OpToRel
  <2> HIDE DEF Less
  <2>3. ~(y < x)
    BY <1>1, <2>2
  <2> QED
    BY <2>1, <2>3
<1> QED
  BY <1>2

LEMMA LastCallIs ==
    ASSUME Inv, Calls # {}
    PROVE  LastCall \in 2 .. Len(frames)
<1>1. Len(frames) \in Nat /\ DOMAIN frames = 1 .. Len(frames) /\ Calls \subseteq 1 .. Len(frames)
  BY TopOfFrames DEF Top, Calls
<1> DEFINE FromTop == {Len(frames) - i : i \in Calls}
<1>2. FromTop \in SUBSET Nat /\ FromTop # {}
  <2>1. \A i \in Calls : Len(frames) - i \in Nat
    BY <1>1
  <2> QED
    BY <2>1
<1>3. PICK n \in FromTop : \A m \in FromTop : n <= m
  BY <1>2, LeastNat
<1>4. PICK i \in Calls : n = Len(frames) - i
  BY <1>3
<1>5. ASSUME NEW j \in Calls PROVE j <= i
  <2>1. Len(frames) - i <= Len(frames) - j
    BY <1>3, <1>4
  <2>2. i \in Nat /\ j \in Nat
    BY <1>1
  <2> QED
    BY <1>1, <2>1, <2>2
<1>6. LastCall \in Calls
  BY <1>5 DEF LastCall
<1>7. frames[1].kind = "root"
  BY DEF Inv, Stack
<1>8. LastCall # 1
  BY <1>6, <1>7 DEF Calls
<1> QED
  BY <1>1, <1>6, <1>8

LEMMA FailKeeps ==
    ASSUME Inv, Fail
    PROVE  Inv' /\ CodeStays(frames, frames')
<1>a. Step
  BY DEF Fail, Opcode
<1>1. CASE status' = "reverted" /\ UNCHANGED frames
  BY <1>1, <1>a, StepCounts DEF Inv, CodeStays
<1>2. CASE Calls # {} /\ frames' = SubSeq(frames, 1, LastCall - 1) /\ UNCHANGED status
  <2>1. Top \in Nat /\ Top = Len(frames) /\ DOMAIN frames = 1 .. Top
    BY TopOfFrames
  <2>2. PICK n \in 1 .. Len(frames) : n = LastCall - 1
    BY <1>2, <2>1, LastCallIs
  <2>3. PICK t : t = SubSeq(frames, 1, n)
    OBVIOUS
  <2>4. frames' = t
    BY <1>2, <2>2, <2>3
  <2>5. Stack(t) /\ Len(t) = n
    BY <2>3, CutStack DEF Inv
  <2>6. DOMAIN t = 1 .. n /\ \A i \in 1 .. n : t[i] = frames[i]
    <3>1. \A i \in 1 .. n : frames[i] \in Evm
      BY DEF Inv, Stack
    <3> QED
      BY <2>1, <2>3, <2>5, <3>1, SubSeqProperties DEF Stack
  <2>7. CodeStays(frames, t)
    BY <2>6 DEF CodeStays
  <2>8. n <= MaxDepth
    BY <2>1, BoundsNat DEF Inv, BoundsNat
  <2> QED
    BY <1>2, <1>a, <2>4, <2>5, <2>7, <2>8, StepCounts DEF Inv
<1> QED
  BY <1>1, <1>2 DEF Fail

LEMMA NextKeepsInv == Inv /\ [Next]_vars => Inv' /\ CodeStays(frames, frames')
<1> SUFFICES ASSUME Inv, [Next]_vars PROVE Inv' /\ CodeStays(frames, frames')
  OBVIOUS
<1>1. ASSUME NEW k \in Slots, NEW w \in Words, Sstore(k, w)
      PROVE  Inv' /\ CodeStays(frames, frames')
  BY <1>1, SstoreKeeps
<1>2. ASSUME NEW init \in Buffers, Create(init) \/ \E salt \in Salts : Create2(salt, init)
      PROVE  Inv' /\ CodeStays(frames, frames')
  BY <1>2, CreateKeeps
<1>3. ASSUME NEW address \in Addresses, NEW retSize \in BOOLEAN, Call(address, retSize)
      PROVE  Inv' /\ CodeStays(frames, frames')
  BY <1>3, CallKeeps
<1>4. ASSUME NEW result \in Results, Return(result)
      PROVE  Inv' /\ CodeStays(frames, frames')
  BY <1>4, ReturnKeeps
<1>5. CASE Fail
  BY <1>5, FailKeeps
<1>6. CASE Throw
  <2>1. Step /\ UNCHANGED frames /\ status' = "threw"
    BY <1>6 DEF Throw, Opcode
  <2> QED
    BY <2>1, StepCounts DEF Inv, CodeStays
<1>7. CASE UNCHANGED vars
  BY <1>7 DEF vars, Inv, CodeStays
<1> QED
  BY <1>1, <1>2, <1>3, <1>4, <1>5, <1>6, <1>7 DEF Next

THEOREM InvHolds == Spec => []Inv
<1>1. Init => Inv
  BY InitStacks
<1>2. Inv /\ [Next]_vars => Inv'
  BY NextKeepsInv
<1> QED
  BY <1>1, <1>2, PTL DEF Spec

----------------------------------------------------------------------------
(* The networks, frames and contracts of EvmContexts are of their types,     *)
(* whatever runs, fails or throws.                                           *)
THEOREM ContextsTyped == Spec => []TypeOK
<1>1. Inv => TypeOK
  <2> SUFFICES ASSUME Inv PROVE TypeOK
    OBVIOUS
  <2>1. Len(frames) \in 1 .. MaxDepth /\ DOMAIN frames = 1 .. Len(frames)
    BY TopOfFrames, BoundsNat DEF BoundsNat, Inv, Top
  <2>2. ASSUME NEW i \in 1 .. Len(frames)
        PROVE  IsFrame(frames[i]) /\ (frames[i].kind = "root" <=> i = 1)
    <3>1. PICK f \in Evm : f = frames[i] /\ Sound(f) /\ (i = 1 <=> f.kind = "root")
      BY TopIs DEF Inv
    <3> QED
      BY <3>1 DEF IsFrame, Evm, Sound, Storages
  <2> QED
    BY <2>1, <2>2 DEF TypeOK, Inv
<1> QED
  BY <1>1, InvHolds, PTL

(* A slot a sub context did not write holds what its caller has there, or   *)
(* nothing, at any depth, and the caller's value where keys are read back    *)
(* as they are: nothing changes the storage of an Evm whose sub context      *)
(* runs.                                                                     *)
THEOREM ForksSeeTheCaller == Spec => []SeesItsCaller
<1>1. Inv => SeesItsCaller
  <2> SUFFICES ASSUME Inv, NEW i \in DOMAIN frames \ {1}, NEW k \in Unwritten(i)
               PROVE  /\ Holds(i, k) \in {0, Holds(i - 1, k)}
                      /\ Reread[k] = k => Holds(i, k) = Holds(i - 1, k)
    BY DEF SeesItsCaller
  <2>1. i \in 1 .. Len(frames) /\ i > 1
    BY TopOfFrames
  <2>2. Follows(frames[i - 1], frames[i])
    BY <2>1, TopIs DEF Inv
  <2>3. ValueIn(frames[i].storage, k) = ValueIn(Copy(frames[i - 1].storage), k)
    BY <2>2 DEF Follows, Unwritten
  <2> QED
    BY <2>3, CopyHolds DEF Holds
<1> QED
  BY <1>1, InvHolds, PTL

(* The address CREATE2 pushes names the contract it created, for as long as  *)
(* the Evm is at work.                                                       *)
THEOREM Create2Names == Spec => []Create2NamesItsContract
<1>1. Inv => Create2NamesItsContract
  <2> SUFFICES ASSUME Inv, NEW address \in Addresses \ {NonceAddress},
                      NEW i \in DOMAIN frames, address \in DOMAIN frames[i].created
               PROVE  frames[i].network[address].program = frames[i].created[address]
    BY DEF Create2NamesItsContract, Named
  <2>1. i \in 1 .. Len(frames)
    BY TopOfFrames
  <2>2. Sound(frames[i])
    BY <2>1, TopIs DEF Inv
  <2> QED
    BY <2>2 DEF Sound
<1> QED
  BY <1>1, InvHolds, PTL

(* No step of a call tree takes a contract from a network or gives one       *)
(* another program: Contract.execute deploys once, and the contract a call   *)
(* runs is the one that is put back.                                         *)
THEOREM CodeIsLaidDownOnce == Spec => CodeNeverChanges
<1>1. Inv /\ [Next]_vars =>
        [\A i \in DOMAIN frames \cap DOMAIN frames' :
           \A address \in DOMAIN frames[i].network :
              /\ address \in DOMAIN frames'[i].network
              /\ frames'[i].network[address].program
                   = frames[i].network[address].program]_vars
  BY NextKeepsInv DEF CodeStays
<1> QED
  BY <1>1, InvHolds, PTL DEF Spec, CodeNeverChanges
=============================================================================
