# TLA+ verification of tinyeth

tinyeth is an Ethereum node written from scratch to learn how one works: the
node discovery and the RLPx session of the peer-to-peer network, an EVM, and the
algorithms around them (RLP, Merkle Patricia trie, Ethash, SSZ, ABI, a small
Solidity compiler).  This directory holds TLA+ models of its stateful parts, the
TLC configurations that check them and proofs of what matters most.  Paths are
relative to the repository's root; `src/` is the TypeScript implementation.

## The system and its parts

| Part | State | Operations | What is hard | What makes it correct |
|---|---|---|---|---|
| Frame reception (`network/rlpx/MessageQueue`, `PeerConnection`, `network/auth/frameing`) | byte queue, next length (`limit`), reader busy (`isReading`), frame state HEADER/BODY, ingress MAC | `add` on each TCP chunk, `read` every 100 ms, `parseAck`, `decode` | TCP cuts the stream anywhere; chunks arrive while a packet is being handled; the next length is set by whoever parsed last | the queue is always at a message boundary and waits for that message's exact length; messages arrive once, in order |
| RLPx session (`network/Peer`, `rlpx/PeerConnection`, `rlpx/CommunicationState`, `rlpx/eth`) | socket, handshake state, egress MAC, sleeps in flight, `isProtocolActive` | connect, send auth, parse ack, dispatch a packet, reply, ping, timeout, close | 500/1500/3000 ms sleeps, queued packets and application calls outlive each other and the connection | HELLO first; every encoded frame is written, in order; replies in the order of what they answer; nothing written after a disconnect |
| Node discovery (`network/wire/NodeManager`, `NodeCommunication`) | one socket and connection, hash of the last ping per address, nodes seen | `bootstrap`, `messageHandler`, `findNeighbors` | UDP loses, doubles, reorders; `bootstrap` awaits in the middle; handlers are async and nobody awaits them | no honest answer ends the process; a neighbour is announced once; answers go to whom they are for |
| EVM storage and its gas (`evm/Evm`, `EvmStorage`, `EvmStorageForking`, `gas/ComputeSstoreGas`, `gas/AccessSets`) | storage, touched slots, gas cost, refund counter, gas left | `boot`, `execute`, SLOAD, SSTORE, all other opcodes as costs | price and refund depend on three values and on history; an Evm is booted and resumed again with old state | charges less refunds depend only on where storage ends and on what forks touched for nothing; no refund exceeds what was charged |
| EVM sub contexts (`evm/EvmSubContextCall`, `Contract`, `Network`, `EvmSubContext`) | stack of forked Evms, contracts by address, return data | CREATE, CREATE2, CALL, CALLCODE, DELEGATECALL, STATICCALL, RETURN, REVERT | nested calls that fail at any depth; one class runs constructors and calls | code is laid down once; a fork sees its caller's storage, as far as the keys it copies by are read back right; addresses name the contract created |
| EVM memory and its gas (`evm/EvmMemory`, `gas/MemoryExpansionGas`) | buffer, highest address referred to | every opcode that reads, writes or pays for memory; the copy for STATICCALL | growth by words; price by differences; each opcode tells the two something else | a program reads what it stored; what memory cost depends on the highest address alone |
| EVM machine (`evm/Evm`, `Opcodes`, `EvmStack`, `evmJumpCheck`, `SignedUnsignedNumberConverter`) | pc and the pc before, stack, memory, storage, gas left, logs | `boot`, `step`, every opcode | words are big numbers that are parsed as signed or not, and rarely reduced; jumps are checked by a byte; exceptions leave half a step behind | an opcode computes what the EVM's does, where its operands allow; data never runs as code; an Evm that threw goes no further |
| Solidity compiler (`tiny-solidiity-compiler`: `Scanner`, `Parser`, `syntax`, `AstToByteCode`, `JumpTable`) | names declared so far (kept from text to text); within a parse one shared token index | `getNextToken`, `parse`, `compile`, `compileDeployment` | one index moved by nested alternatives; offsets computed from the length of code generated twice | the tree is the contract's; the program runs from instruction to instruction and does what the contract says, call after call |
| Discovery packets and RLP (`network/wire/*EncodeDecode`, `rlp`) | none | encode, decode | lengths decide the form of an item; the decoder guesses types from values | what was written is read, for the values for which that can be said; packets are canonical |
| Merkle Patricia trie (`data-structures/merkel-patricia-trie`) | root, database of nodes by hash | `insert`, `get` (`traverse`), `rootHash` | one insertion rewrites up to four nodes, and a node's name is its content; nodes are read back by guessing | nothing refers to a node that is not stored; what was inserted is found |
| Ethash, SSZ, ABI, consensus rules, signatures | none, or caches | hash, encode | arithmetic beyond a model's | not modelled |

The node's halves interact little: the wire packets go through RLP, and so do the
trie's nodes; the compiler's programs run on the EVM.  `NodeManager` emits `peer` and the scripts write
`nodes.json`, from which another script dials one peer; frame reception is the
lower half of the session; a `fork` builds the Evm of a sub context out of a
fresh container, so contexts share only what `fork` copies.  Everything runs on one
thread: interleavings are those of awaits, timers and socket events, and the EVM,
the compiler and the trie have none.  The process holds
one session; `scripts/keepconnecting.sh` restarts it when it exits, so that
`process.exit` and an uncaught error are the end of a behaviour in the models.

## Modules

`MC*` modules give the constants their values; each `.cfg` belongs to one run.

**MessageChannel** is the abstract promise of the receive path: a list of what
was sent, a prefix of it delivered, in order; everything sent is delivered in
the end unless the channel was aborted.  `RlpxFraming` implements it.

**RlpxFraming** counts bytes.  A stream is the remote's auth-ack and its frames,
each with a start and a size; the queue is the interval from `consumed` to
`received`; `limit` is the code's.  `Data` is the socket's handler with
`MessageQueue.add`; `ReadAck`/`ParseAck` the reader up to and after its await;
`ReadFrame` and `FinishPacket` the reader in state PACKETS, with
`FrameCommunication.decode` in between.  A MAC verifies exactly when it is taken
over the right bytes; otherwise `Abort`, as in the error callback.

**RlpxSession** is the dialling side above whole frames, over a
`MessageChannel`: each await and each timer splits its handler into two actions
(`ReadStatus` and `AnswerStatus`, `ReadGetBlockHeaders` and
`RequestBlockHeaders`, `ReadPong` and `ExitAfterPong`).  `Encode` advances the
egress MAC, `Write` puts a frame on the wire if the connection is up.  The
remote is free in what it sends.

**NodeDiscovery** keeps, as `NodeCommunication` does, the sockets of all
bootstraps (their handlers stay) but only the last connection for sending.
`Connect` and `SendPing` are `bootstrap` before and after its await; handlers
take any datagram that was ever sent, any number of times.

**EvmStorageGas** is one Evm object through several programs.  `Sload`, `Sstore`
charge and refund by the functions of `ComputeSstoreGas`; `SubContext` stands for
CREATE and the calls, which fork: a fork touches in the caller's access set every slot it
copies and charges nothing (`free` has those), and takes it by the key `forEach`
reads (`Reread`); `Throw` may fork too, when what fails is a sub context.  `Other` is any
other opcode by its static and dynamic cost; `Stop` is the end of `execute` with
its refund; `Boot` starts another program on the same object.  `Fetch` and
`ReadsItself` are the two branches of `EvmStorageForking.read`.  The variables
marked *history* count what the properties speak of.

**EvmContexts** is the stack of Evms.  A program is not interpreted: any frame
whose code is not empty may do any of its opcodes next.  `Return` is the end of a
sub context, `Contract.execute`, and what the caller makes of it, in one
step; `Fail` unwinds to the frame that made the last call, `Throw` ends
everything.  Addresses are what they are made of: the nonce for CREATE, salt and
code for CREATE2, the salt as its hex text is read (`SaltRead`: 0x1a and 1 are one).
A fork copies storage with `Copy`: `forEach` reads the hex text of each key as a decimal
number, writes to that slot, and reads the value there too (`Reread`), so that slot 9 is
copied, slot 0x10 becomes slot 10 with what slot 10 holds, and a key with a letter
becomes NaN, which is a key as well.

**EvmMemory** is one Evm's memory: the buffer's length and content, and the highest
address `MemoryExpansionGas` knows.  An action is an opcode with its operands and
the data it moves.  `Write32` makes room first, `WriteFrom` is the loop of `write`
in closed form; `MCMemory` holds the loop itself and an assumption, evaluated by
TLC, that the two agree.  `Charge` and `Drop` are what becomes of a price: CALL,
failing calls and REVERT compute one and lose it.  *History*: what the
program stored, which addresses it last stored to byte by byte (`loose`), and how
far it reached.

**EvmWords** is what an arithmetic opcode leaves for its operands.  An item of the
stack is a BigNumber: any integer, NaN or an infinity; `Parse` is the converter, with its
exception for negative numbers and its reading of a high first digit as a sign;
`ToNumber` is a number that went through 53 bits (for NOT), `Units` the digits a
quotient keeps.  AND, OR and XOR are operations on sets of bits, which `BitsTotal` makes
a number again; it and `PowerOf2` are recursive functions, so that they can be
reasoned about.  A division by 0 leaves NaN, or an infinity of either sign, for the sign
of a zero is not kept (`Quotients`, hence a set of results); a power beyond BigNumber's
range an infinity (`Exp`, `Powers`).  The size of a word and of a number, and where a
number is infinite (`Largest`), written with an exponent (`Exponential`), none of
JavaScript's (`Widest`) and too long to shift (`MaxBits`), are constants.

**EvmMachine** is one Evm: `Boot` gives it a program and a context and keeps its
stack, memory and storage, as `boot` does; every other action is an opcode, or a
family of opcodes that differ by a function.  A step is control (`Continues`,
`Throws`, `Fails`: what becomes of pc, the pc before, and the outcome) and effect.
`Faults` are the exceptions every opcode shares: the stack underflows, an operand
cannot be parsed (`Reads`: a negative one, NaN, an infinity, a text that BigInt does not
take); and NOT and the shifts throw on what is too large (`TooLarge`).  What division by
0 leaves is on the stack for the next opcode, as any item is.  CREATE and the calls are
not here: a program that comes to one is
not followed.  `Computes` cuts off operands TLC cannot compute with; `NumbersOnly` are
the opcodes on memory, code and look-ups, modelled for integers, and powers that are
fractions (`Fraction`) are not followed.

**SolidityScanner** reads symbols, **SolidityParser** tokens: a Syntax is a sequence of
items with alternative paths, and `Matches` returns, as `SyntaxMatch` does, how many
tokens were moved past, the nodes, and the names declared.  **SoliditySource** says how a
contract is written, and which tree it means.  **SolidityFrontEnd** puts them
together: a parser object is given one text after another, whole or cut off
anywhere, with white space and comments between the tokens.

**SolidityCompiler** turns the tree into bytes (each function twice, as `JumpTable.add` and
`construct` do) and writes the program that deploys bytes.  **SolidityProgram**
compiles a contract with it and runs it on `EvmMachine`, call after call over the
same storage.  **SourceContract** is the abstract machine: one call, one answer, one
variable, which an argument does not change.  `SolidityProgram` implements it.

**RlpItems** has the encoder and the decoder of single items (an encoding comes with
the length its list will count, which is not always its own), and the conversions
their readers use; **Rlp** adds lists, which are recursive.
**DiscoveryPackets** writes a packet of each of the four kinds, as this node does
(`PingItems`, ...) or as an honest peer does, and reads it with
`WireMessageDecoder` and the packet's `decode`.

**MerklePatriciaTrie** is over `RlpItems` and has one action, `Insert` (and
`InsertThrows`, where the code throws), with the cases of
`MerkelPatriciaTrie.insert` and `SwapNodesHelper` as operators from a trie (root and
database) to a trie.  A hash stands for the node it is taken of; `Load` is what
comes back of a node that went through RLP and was guessed from its items.

The theorems are in eight modules, each named after the module it is about:
`RlpxFramingProofs`, `RlpxSessionProofs`, `NodeDiscoveryProofs`, `EvmStorageGasProofs`,
`EvmMemoryProofs`, `EvmMachineProofs`, `EvmContextsProofs` and
`MerklePatriciaTrieProofs`.

## What the runs check

| Run | Shows |
|---|---|
| `framing` | `QueueAligned`: between two reads the queue stands at the start of a message, with its length as the limit; hence no framing error, delivery in order, and the refinement of `MessageChannel`, its liveness included |
| `session` | the remote can verify every frame; HELLO first; replies in order though a STATUS takes 500 ms; no more header requests than answers; nothing written after the end; every packet is answered unless the process ends |
| `discovery` | one announcement per neighbour; no honest pong is refused; with one node every pong and FIND_NODE goes where it should |
| `memory` | `PriceOfHighest`: expansions add up, in any order; `SizeIsReach`: whole words, as far as was accessed, but for one byte; `OnlyLooseBytesFall`: only the first byte of a word stored byte by byte is ever lost |
| `storage_gas` | `NetPrice`: charges less refunds are the price of where storage ends, with a first touch for every slot but those a fork touched; `StorageIsPaid`: the first execute pays for it; for an Evm as the program uses it, fresh or forked |
| `storage_rule` | `NetPrice` where original values are not zero and slots come from a node |
| `contexts` | code never changes; a slot a fork has not written holds what its caller has there or nothing, and what the caller has if its key is read back right; CREATE2's address is its contract's |
| `machine` | `StuckOnlyAfterThrow`: the guard against a stuck pc meets only an Evm whose step threw; `ThrewIsDead`: such an Evm changes nothing more; `RunsInstructions`: unless 0x5b is among push data, pc is always at the start of an instruction, whatever jumps; `ComputesWords`: where it does not throw, an arithmetic opcode leaves the EVM's word: on words whose first four bits are 0 every one but BYTE, on all words those that respect a congruence; not of a division by 0, a power out of range, and what DIV and NOT round |
| `front_end` | `TypeOK`: the scanner's tokens are what was written, whatever white space and comments stand between them; `ParsedAsMeant`: the tree of a contract, or the exception for a name that was not declared first; `TruncatedIsRefused`: a text that ends early is never taken for a smaller contract |
| `program` | `NeverIntoArguments`: a compiled program is run from instruction to instruction; `EveryCallEnds`; `KeepsPromises`: the compiled contract implements `SourceContract` |
| `packets` | `ReadAsWritten`: a packet whose fields survive the guessing decoder is read as it was written; `CanonicalOnWire`: its bytes are the RLP of the specification |
| `trie` | `NothingDangles`: whatever is referred to, at any depth, is in the database; `ReadsBack`: for a history the trie keeps (`Kept`), every key that insert took reads as its value; `RootKeyPacked`: the key in the root is packed as the specification packs it |

Each module has a type invariant, `TypeOK`.  A run checks it where a theorem states it
or where it says more than types; the others hold on the same instances.

### Bounds

- `framing`: two-byte blocks, headers and MACs, bytes of four values, acks of 5
  and 6 bytes, bodies of 1 to 3 bytes (with and without padding), three frames.
  Every cut of this stream is tried.  Three frames pass every boundary
  twice (ack-header, header-body, body-header); the proof removes the bound.
- `session`: three packets, one ping: enough for two sleeping answers and a third
  packet that could overtake them, in every order of timers.
- `discovery`: two bootstraps, two neighbours, four handled datagrams: a ping, its
  pong and two packets of neighbours, doubled or crossed.
- `storage_gas`: three slots, one read back as it is, one as NaN and NaN itself, values 0
  and 1, any storage to begin with, four opcodes in the life of the Evm, two boots with
  up to two executes each.  A sub context needs a store before it and an access after it.
- `storage_rule`: two slots, values 0 to 2 (nothing, the original, another), five opcodes,
  one boot.  A slot needs three stores to leave its original value, change and come
  back.  The gas numbers are the code's, and the expensive CREATE lets a refund escape
  the cap.  The proof removes all these bounds.
- `contexts`: two programs (symmetric), two salts that are read alike, four slots (9,
  which is read back right, 0x10, which is taken for 0x0a, 0x0a, taken for NaN, and NaN),
  three nested Evms, seven opcodes: a store or two, two creations and returns, then
  calls that fail at depth.
- `memory`: words of two bytes and a divisor of 2, so that both terms of the price
  count; three opcodes at offsets on and off a word's start, copies of up to two
  words, a fresh memory or a copy of two words.  Three opcodes lose a byte,
  reach over it and store to it again.  The proof removes the bounds.
- `machine`: words of two bytes, quotients of two digits, numbers of nine bits, in place
  of 32 bytes, 20 digits and 53 bits: every boundary of `EvmWords` is a multiple of
  these.  The limits beyond a word are as small as TLC's integers ask for: powers are
  infinite from 16 million on.  Operands either side of a byte, a nibble, the sign bit and the top; two
  opcodes in sequence, so that the unreduced result of one is the operand of the
  next; all programs of up to four bytes over the opcodes that jump, push and shuffle;
  a second program on the same object.
- `front_end`: contracts with up to three members, each kind of statement in each place
  a block may be, four kinds of separators, every prefix of every text, two texts
  given to one parser.
- `program`: words of two bytes and selectors of one: addresses are of one byte as
  in the code, and 300, a call's argument, is wider than one.  Constants, arguments and
  variables stay below the words that are parsed as negative.  Up to three functions,
  two calls each with and without payment, of a function that is there or not.  22000
  gas in place of no limit: a program that spent them would stop without having
  ended, and `EveryCallEnds` would show it; none does.
- `packets`: ports and addresses either side of what the decoder guesses by (one byte or
  two, sign bit, hex digits, 0x), up to five neighbours, with which the list passes
  55 and 255 bytes.
- `trie`: 13 keys that share 0 to 10 nibbles and end anywhere, five values of each kind
  the decoder guesses, four insertions: three keys below one node and a fourth that
  splits it again.

Deadlock is not checked: a connection, a process and a program end.

### Fairness

`SolidityProgram` assumes that a call goes on (`WF` of `Compute`): `execute` is a loop
that steps until the Evm stops.  `RlpxSession` and `RlpxFraming` state fairness of the
network's handlers.  A weakly fair action is a
timer of the code (`setInterval` of the reader, `sleep`), the continuation of an
await that settles, or the delivery of bytes TCP already has.  Nothing is
assumed of the remote, the application, or the network's timeouts.  Discovery has
no liveness property: UDP owes nothing.

### Where code and words disagree

Statements that docs, comments or tests make, or that one would expect, and that do
not hold.  They are definitions no run is spent on; added as an invariant (or a
property) to a run of their module, under the constants given, TLC refutes each
within seconds:

- `NoFramingError` (RlpxFraming, `MinFirstChunk = 1`): `MessageQueue.ts:19` reads the
  length from whatever the first chunk holds.  A first chunk of one byte gives the
  high byte alone, the auth-ack is cut short, and the error callback ends the process.
  `MessageQueue.ts:17` says "First message should always contain the length".
- `StatusSent` (RlpxSession): a STATUS is sent only 500 ms after one was received
  (`Peer.ts:88-90`), so two nodes like this one never get a session;
  `network/rlpx/eth/readme.md:5` says "a Status message must be sent."
- `NoUnmatchedPong` (NodeDiscovery, `Overlapping = TRUE`): with a second `bootstrap` during
  the first one's await both pings go to the second node, whose pong fails the
  assertion of `NodeManager.ts:73`.  The class allows it;
  `scripts/connectToPeerWire.ts:36-42` maps `bootstrap` over a list of nodes at once, but
  cuts the list to one node.
- `PongReachesPinger` and `FindNodeAfterContact` (NodeDiscovery): after a second bootstrap
  what is meant for the first node goes to the second; `OneNodeIsServed` is the part that
  holds.
- `DeliveredUnpadded` (RlpxFraming): `decode` hands on a body with its padding; the
  skipped tests of `FrameCommunication.unit.test.ts:92-106` expect it without.
- `ReadsWhatItStored` (EvmMemory): `write(o)` expands by nothing when the buffer ends at
  `o` (`EvmMemory.ts:41`), and the byte is lost: by MSTORE8, and by every copy that goes
  byte by byte into a new word.  `OnlyLooseBytesFall` is the part that holds.
- `LoadsReturn` (EvmStorageGas, forked): for a slot it has an entry for, `read`
  (`EvmStorageForking.ts:28`) calls itself instead of `super.read`.
- `GasLeftIsWhatIsLeft` (EvmStorageGas): `_gasLeft` misses all dynamic costs;
  `Evm.opcodes.unit.test.ts:1178` takes it for the limit less the gas used.
- `RefundCapped` (EvmStorageGas, two executes): `execute` takes the refund off the bill
  and keeps the counter; resumed after a stop, as `EvmPuzzle.unit.test.ts:151` does, it
  takes it off again.  `Evm.ts:196` says "max one fifth is refunded".
- `CreateNamesItsContract` (EvmContexts): the nonce is never incremented, so a
  second CREATE pushes the address of the first contract.
- `SeesAllOfItsCaller` (EvmContexts): `EvmStorage.forEach` (`EvmStorage.ts:78-87`) reads the
  64 hex digits of a key as a decimal number, so that a fork has slots 0 to 9 of its
  caller, other slots for those from 0x0a on, or none of them; the TODO at
  `EvmSubContextCall.ts:125` knows of another fault of the copy.  `SeesItsCaller` is the
  part that holds.
- `ReturnDataIsTheCalls` (EvmContexts): a deployed contract keeps what its
  constructor returned (`Contract.ts:58`), and a call gets that; a case that is
  commented out, `Evm.opcodes.unit.test.ts:1373`, expects the call's.

Other things the models do because the code does.  A property that would fail on
them names them in its condition, or its run's constants leave them out:

- *Arithmetic* (EvmWords): words from 2^252 on are parsed as negative, and a number that
  is negative on the stack cannot be parsed again; SDIV divides unsigned; DIV rounds
  to 20 digits before it floors; BYTE is an `&&`; NOT goes through a 53-bit number;
  division by 0 leaves NaN or an infinity where the EVM has 0, and execution goes on with
  it until an opcode throws; a power beyond 10^(10^9) is an infinity; NOT of what is no
  number of JavaScript throws, and so does a shift to the left by 2^30 bits.  `Exact` and
  `Modular` are what is left.
- *Control* (EvmMachine): a jump may land on a 0x5b in push data (`RunsInstructions` has
  that as its condition); an unknown opcode throws before the pc is kept; stack,
  memory and storage survive `boot`; nothing compares the bill with the limit.
- *Scanner and parser*: a comment takes the word it touches; `//` inside `/* */` ends at
  the line; after an empty block the functions that follow are dropped silently
  (`HasEmptyBlock`); a name stays declared in later functions and texts (`known`);
  `else if` without `else` is refused.
- *Storage gas*: a fork touches what it copies, in its caller's access set, for nothing
  (`EvmSubContextCall.ts:130-133`): `PaidSlots` leaves those slots out, and `NewSlots` those
  a fork may have touched.
- *Compiler* (`MCProgram` writes contracts without these; `KeepsPromises` fails for a
  contract with any of the first two): variables and arguments all share slot 0
  (`AstToByteCode.ts:142-162`), so that a call with an argument overwrites the variable:
  the run's contracts with an argument declare none; an `if` with `else` jumps right only
  when the code of both branches has one length; an `if` without `else` always runs its
  body; a branch of two statements is not compiled; `x += y` adds 0 for a name; a
  condition compares names as 0; a function without `return` runs into the next and reverts;
  constants above 255, and code longer than 255 bytes, do not fit their PUSH1;
  deployments above 96 bytes are cut by the memory they use.
- *RLP and packets*: lists of exactly 55 bytes, lists of 256 bytes and more, and lists
  with long lists in them get a wrong head; ports are signed, a PONG has its UDP
  port twice, NEIGHBORS reads UDP for TCP, fields that look like a hex text are read as
  one, signatures are not checked (`PacketSurvives` is what is left).
- *Trie*: a split at the last nibble, or next to an earlier one, loses keys; a branch
  never gets a third child; a key that is a prefix of another, or is inserted again,
  throws; the empty key is ignored; a leaf answers to any key; values of one character,
  beyond ASCII or beginning with 0x do not survive being stored (`Kept` and
  `ValueSurvives`).

## What is proved

**RlpxFramingProofs**, for all sizes, all cuts and any number of frames, if the
first chunk has at least two bytes (`MinFirstChunk >= 2`; without it
`NoFramingError` fails, see above), auth-acks below 2^15 bytes and bodies below 2^23
(`AckAssumption`, `BodyAssumption`): the code reads both sizes as signed, and
`encodeHeader` throws for a body of more than 2^16:

- `StaysAligned`: `QueueAligned` is an invariant.  `NoFramingError` is not
  inductive: it says nothing of where the queue is.  `QueueAligned` adds that
  frames lie end to end, that what was consumed is a whole number of messages (or
  a header and the body still due), and that `limit` is the length of exactly the
  next one.  Each action either moves no boundary (`Data`, `FinishPacket`) or
  moves by one message.
- `TypeCorrect`, `NeverMisreads`, `InOrderDelivery` follow from it.
- `ImplementsOrderedChannel`: each step maps to a step of `MessageChannel` or a
  stutter.  Its liveness is only model-checked.

**RlpxSessionProofs**, for any packets, number of calls and order of timers:

- `FramesVerify` (`EgressInOrder`), `HelloComesFirst` (`HelloFirst`).  Neither is
  inductive: `EgressInOrder` holds as long as what was encoded was written, so
  `NothingDropped` adds that a connected session has encoded as many frames as are
  on its wire; `HelloFirst` needs to know that a second HELLO cannot be sent, and
  `Phases` says where a session stands: nothing on the wire, no timer and no
  sleeping reader before the auth-ack, the HELLO from then on.  Together they are
  `WireInv` (`SessionInvariant`).
- `SilentAfterDisconnect` (`NoWriteAfterDisconnect`): every frame needs the socket
  `Write` finds connected, and a session never reconnects (`NeverReconnects`).
- `OneRequestAnAnswer` (`RequestsFollowAnswers`): both sides are counted by the
  frames of the wire; only the step that takes a GET_BLOCK_HEADERS adds to one
  before the other.
- `RepliesInOrder` (`ReplyOrder`): `AllAnswered` says that a connected session has
  answered every packet that is owed a reply but the STATUS its reader sleeps over.
  So the next reply of any kind is to the packet just read, which stands behind
  all that were answered.
- `SessionUsesChannel`: each step maps to a step of `MessageChannel` or a stutter.
  With `ImplementsOrderedChannel` the session stands on what the receive path does.

**NodeDiscoveryProofs**, for any nodes and neighbours, and datagrams that are lost,
doubled or reordered:

- `PeersOnce` (`PeerOncePerIp`): the announcements of a packet of neighbours are
  those not seen before, each once (`NewNodesAre`).
- `PongsMatch` (`NoUnmatchedPong`), if `~Overlapping` and `~Repeated`: no second
  `bootstrap` during the first one's await, and none of a node already
  bootstrapped.  Without the first the property fails (see above); a node that is
  bootstrapped twice has the hash of its first ping overwritten.
  `PingsRecorded` is the invariant: the pings and pongs of a socket carry the hash
  kept for its address, and the socket that still awaits has none.
- `OneNodeServed` (`OneNodeIsServed`), with no such condition, for it speaks of one
  socket: everything in flight is that node's, and what asks for an answer comes
  after the node proved its endpoint (`OneNode`).

**EvmStorageGasProofs**, for any slots, numbers as values, original values,
inherited storage, costs, and any number of opcodes, executes and boots:

- `StoragePricedByItsEnd` (`NetPrice`): a storage has a worth, a sum over its slots
  by their original and current value (`Worth`), and each SSTORE's charge less
  its refund is 100, the first touch, and the change of that worth.  A fork adds to the
  touched slots and to `free` alike (`ForkTouches`).  So `NetPrice`
  is inductive together with the type invariant (`IInv`); the work is one case
  analysis (`PriceOfStore`) and the sizes of three sets (`WorthOfEntry`).
- `RefundsAreEarned` (`StorageIsPaid`): with no original values, the program's case,
  the refund counter is never negative and the first execute pays out at most it.  A slot
  that was not there at boot has an entry only once an opcode has touched it
  (`EntriesKnown`), so a fork finds it touched, unless another slot's key is read as it:
  `NewSlots` are paid for (`NewSlotsArePaid`).
- `StorageTyped`: the type invariant, with "what was touched stays touched".

**EvmMemoryProofs**, for any word size and divisor, any offsets, data and number of
opcodes:

- `MemoryPricedByHighest` (`PriceOfHighest`): each charge, or dropped charge, is the
  difference of two prices, so that the sum telescopes (`PriceOfAddress`).
- `SizeFollowsAccess` (`SizeIsReach`) and `WordsAreKept` (`OnlyLooseBytesFall`): the
  invariant says the same of the buffer in every opcode (`Covers`), by the
  arithmetic of rounding up (`Rounding`, `Expansions`): `write32` leaves the buffer
  longer than what it writes, `write` may stop one byte short, at the start of a
  word.  `MemoryTypeCorrect` adds that there are zeros beyond the buffer: so a
  byte that is lost reads as 0.

**EvmContextsProofs**, for any programs, salts, slots and words and any depth:

- `InvHolds`: the frames are a stack of which only the top acts.  `Sound` is what
  holds of a frame by itself: its network names each contract by the code it was
  created with.  `Follows` is what holds of a frame and its caller, which
  waits: the storage is still `Copy` of the caller's but for the slots written since,
  and the contract that is called is the one in the caller's network.  An opcode
  replaces the top, a call adds a frame (`ForkKeeps`), a return or a failure takes
  some off (`PopKeeps`) and leaves the caller with more contracts and none renamed
  (`GoesOn`).
- `ForksSeeTheCaller` (`SeesItsCaller`), `Create2Names` (`Create2NamesItsContract`) and
  the action property `CodeIsLaidDownOnce` (`CodeNeverChanges`) follow.

**EvmMachineProofs**, for any program, context, word size, network and bounds, and any
sequence of boots and steps:

- `Invariant`: `StuckOnlyAfterThrow` alone is not inductive: after an exception pc may or
  may not be the one before.  `IInv` adds that only STOP leaves pc where it was
  without throwing, and then the Evm does not run; that every exception but one
  is thrown with pc kept; and that the one that is not, the unknown opcode, is thrown
  again at the same pc.  There is a lemma for each way a step ends
  (`ContinuesKeepsIInv`, `ThrowsKeepsIInv`, ...) and one for each group of opcodes.
- `NeverStuckAlone` (`StuckOnlyAfterThrow`) and `ThrownStaysThrown` (`ThrewIsDead`) follow: after
  an exception the next step meets the guard, or the unknown opcode, and neither
  changes anything (`StepLoads`).

- `FromInstructionToInstruction` (`RunsInstructions`): where instructions start is a
  recursive function of the program (`ArgumentsAfter`); that it has the value its
  definition says is an induction over sets of numbers (`SetInduction`,
  `ArgumentsAfterIs`).  Then every step goes to the next instruction, ends, or
  jumps to a 0x5b, which stands at one by the property's condition (`StepMoves`).
- `WordsAreComputed` (`ComputesWords`), for any number of bytes in a word.  The
  invariant `Calculated` says that what the last step left, if it calculated, is the
  among the `Results` of an opcode on operands it can read; then two lemmas compare
  `Results` with the EVM's word, opcode by opcode: `ModularComputes` for all words,
  `ExactComputes` for words whose upper four bits are 0.  Of a division by 0, a power out
  of BigNumber's range, BYTE, and what NOT and DIV round (`Degenerate`, `Exact`)
  the theorem says nothing; elsewhere the results are numbers (`NumbersAreFinite`).  Powers of two are a recursive
  function, for the prover knows nothing of `2^n`: that they multiply and divide is
  proved (`PowersMultiply`, `PowersDivide`).  A word parsed as signed differs by a
  multiple of the modulus (`ParseIs`), which no sum, difference or product shows
  (`Congruent`, `ProductCongruent`); it has the word's bits below the modulus
  (`WordBits`), and what its other bits make is a multiple of it (`SumsAbove`), so that
  AND, OR and XOR of any words are right (`BitwiseWords`).  A divisor below twice the
  `Units` of a quotient keeps DIV's rounding from reaching the next number
  (`DivideSmall`).

**MerklePatriciaTrieProofs**, for any keys and values and any number of insertions:

- `NothingIsLost` (`NothingDangles`).  The invariant `TrieInv` says what shapes
  insert makes: what is stored is a leaf, an extension or a branch of one or two
  children, each referring to what is stored; the root is empty, a leaf, or an
  extension to a branch.  A node that is loaded is not the node that was stored, so the
  proof follows a Buffer through its item and back, of any length (`RereadIs`,
  with the digits of its length in `DigitsOfLength`): a key of two nibbles or more
  survives, a shorter one comes back empty (`KeyIsReread`).  An insertion that
  does not throw does one of five things (`WaysToInsert`): nothing, a first leaf, a
  leaf extended, the root split, a leaf below the root split.
- `TrieTyped`: the type invariant; a branch has one child or two.
- `RootIsPacked` (`RootKeyPacked`): keys of either parity and either kind; a leaf's
  flag has a nibble too many for an odd key, and `RootShape` has that a leaf at
  the root is even.
- `InsertedIsFound` (`ReadsBack`).  The invariant is `Kept => Found` beside `TrieInv`.
  `ReadsBack` alone is not inductive: it says where traverse ends, not by which nodes,
  and an insertion changes nodes in between.  `Leads` is the path of turns of its
  loop, to which an insertion adds at the front (`LeadsOn`) and which more stored nodes do
  not disturb (`LeadsMore`); `LeadsReads` ties it to `Traverse`.  `Found` says that
  every key inserted begins with the root's extension and leads to its value
  (`Reading`); that the extension ends where the first key does or where a key left
  the first (`Parted`), so that a split next to its end is a split next to another,
  which `Kept` excludes; and what leaves the branch below the root has: the one of the
  second key, after two insertions (`TwoKeys`), or those of keys that left the first
  there, to which no key of a kept history comes again (`Grown`, `LeafIsNotGrown`).
  Each way to insert keeps it (`FirstFound`, `SecondFound`, `SplitFound`,
  `LeafSplitFound`).

Only model-checked: all liveness (out of the prover's reach); `NeverIntoArguments`,
`KeepsPromises`, the scanner, the parser and the compiler, and lists of RLP with the
packets made of them, whose recursive definitions the prover cannot use.

## What is not modelled, and why

- Ciphers, MAC and signature arithmetic, hashes: taken to be ideal.
- ABI and transactions: formats without state.  SSZ and Ethash: arithmetic on 256-bit
  numbers and hashes of megabytes, of which a model on small numbers says nothing.
- Consensus rules: difficulties past TLC's integers; the block
  loader picks the fields of decoded RLP and keeps nothing.
- Account access gas: it needs the warm addresses of forks (see the plan).
- RLP numbers from 2^32 on (`BigIntEncoderDecoder`): beyond TLC's integers.
- The responder's half of the handshake: `Peer` only dials, tests alone reach it.
- In `EvmStorageGas`: `originalStorageValue` is never written by the program, so
  `Original` is 0 but for `storage_rule`; the 2300-gas check cannot fail, as SSTORE
  is always told 10000.  In `EvmContexts`: balances (a call with value throws before
  it forks), gas across contexts (CALL and CREATE2 drop it), SELFDESTRUCT.
- In `RlpxFraming`: a body of 2^16 bytes and more, which this node's encoder refuses and
  its decoder would read, from 2^23 on, as a negative size.
- In `EvmWords`: sums and products that themselves leave BigNumber's range, bitwise opcodes
  whose result has more than 10024 digits though their operands have not, and what
  follows a power that is a fraction.  The limits of the operands are there.
- In `EvmMachine`: dynamic gas (`EvmStorageGas` and `EvmMemory` have it), and what comes
  after CREATE or a call (`EvmContexts` has it).
- Container, loggers and utilities: wiring.

## Plan

1. *Done*: RlpxFraming, RlpxSession, NodeDiscovery, DiscoveryPackets; EvmStorageGas,
   EvmContexts, EvmMemory, EvmMachine; the Solidity compiler from text to calls; Rlp
   and the trie; proofs of all of them but the compiler and the packets.
2. Proofs about the discovery packets (`ReadAsWritten`): the lists of RLP written as
   recursive functions, and what is read of each written.
3. Account access gas with the warm addresses of forks (`AccessSets`).
