--------------------------- MODULE NodeDiscovery ---------------------------
(***************************************************************************)
(* Node discovery (discv4): NodeManager and NodeCommunication, driven the  *)
(* way scripts/connectToPeerWire.ts drives them, against honest nodes over *)
(* UDP.  A datagram once sent may arrive any number of times, in any       *)
(* order, or never.                                                        *)
(*                                                                         *)
(* NodeCommunication holds one socket and one connection, those of the     *)
(* last bootstrap, while every earlier socket keeps its 'message' handler  *)
(* with the address it was made for.                                       *)
(***************************************************************************)
EXTENDS Integers, Sequences, FiniteSets, Functions, SequencesExt

CONSTANTS
    Addresses,      \* the nodes to bootstrap from
    Ips,            \* addresses the nodes may name as neighbours
    MaxBootstraps,  \* bound: calls of bootstrap
    MaxHandled,     \* bound: datagrams handled
    Overlapping,    \* may bootstrap be called while another awaits?
    Repeated        \* may it be called again for the same node?

ASSUME DiscoveryAssumption ==
    /\ MaxBootstraps \in Nat
    /\ MaxHandled \in Nat
    /\ Overlapping \in BOOLEAN /\ Repeated \in BOOLEAN

VARIABLES
    sockets,        \* the address each socket's handler was made for
    connecting,     \* bootstraps that await connect
    pings,          \* pings sent: each hash is new
    pingRecord,     \* NodeManager.pingRecord, 0 when undefined
    stateRecord,    \* keys of NodeManager.stateRecord that are SENT_FIND_NEIGHBORS
    aliveDue,       \* handlers that await the sending of their pong
    nodeRecord,     \* NodeManager.nodeRecord
    peers,          \* 'peer' events, by ip
    contacted,      \* nodes whose ping or matching pong was handled
    pinged,         \* nodes whose ping was handled
    net,            \* every datagram sent
    handled,        \* datagrams handled
    crashed         \* a handler's promise was rejected: the process ends

recordVars  == <<pingRecord, stateRecord, nodeRecord>>
historyVars == <<peers, contacted, pinged, handled>>
vars == <<sockets, connecting, pings, recordVars, aliveDue, historyVars, net,
          crashed>>

NoTarget == "undefined"

Init ==
    /\ sockets = <<>>
    /\ connecting = <<>>
    /\ pings = 0
    /\ pingRecord = [a \in Addresses |-> 0]
    /\ stateRecord = {}
    /\ aliveDue = [a \in Addresses |-> 0]
    /\ nodeRecord = {}
    /\ peers = <<>>
    /\ contacted = {}
    /\ pinged = {}
    /\ net = {}
    /\ handled = 0
    /\ crashed = FALSE

---------------------------------------------------------------------------
(* NodeCommunication.sendMessage: whatever it is for, a message leaves      *)
(* through the last socket to the last connection.                          *)

Out(type, content) ==
    [dir |-> "out", type |-> type, sock |-> Len(sockets),
     node |-> Last(sockets), content |-> content]

\* NodeManager.hasSentNeighborMessage looks under `${address}${target}`, while
\* the state is kept under the address alone.
HasSentNeighborMessage(address, target) == <<address, target>> \in stateRecord

\* findNeighbors for each target, called from the 'alive' and 'peer' listeners
FindNeighbors(address, targets) ==
    LET due == {t \in targets : ~HasSentNeighborMessage(address, t)}
    IN  /\ net' = net \cup {Out("FIND_NODE", t) : t \in due}
        /\ stateRecord' = IF due = {} THEN stateRecord
                          ELSE stateRecord \cup {<<address>>}

---------------------------------------------------------------------------
(* bootstrap *)

\* up to the await: a new socket, a new connection
Connect(address) ==
    /\ ~crashed
    /\ Len(sockets) < MaxBootstraps
    /\ Overlapping \/ connecting = <<>>
    /\ Repeated \/ address \notin Range(sockets)
    /\ stateRecord' = stateRecord \ {<<address>>}
    /\ sockets' = Append(sockets, address)
    /\ connecting' = Append(connecting, address)
    /\ UNCHANGED <<pings, pingRecord, nodeRecord, aliveDue, historyVars, net,
                   crashed>>

\* Seeded faults: the hash is not kept; neighbours are asked for at once.
SendPingUnrecorded ==
    /\ ~crashed
    /\ connecting # <<>>
    /\ connecting' = Tail(connecting)
    /\ pings' = pings + 1
    /\ net' = net \cup {Out("PING", pings')}
    /\ UNCHANGED <<sockets, recordVars, aliveDue, historyVars, crashed>>

SendPingAndFindNode ==
    /\ ~crashed
    /\ connecting # <<>>
    /\ connecting' = Tail(connecting)
    /\ pings' = pings + 1
    /\ pingRecord' = [pingRecord EXCEPT ![Head(connecting)] = pings']
    /\ net' = net \cup {Out("PING", pings'), Out("FIND_NODE", NoTarget)}
    /\ UNCHANGED <<sockets, stateRecord, nodeRecord, aliveDue, historyVars,
                   crashed>>

\* after the await
SendPing ==
    /\ ~crashed
    /\ connecting # <<>>
    /\ connecting' = Tail(connecting)
    /\ pings' = pings + 1
    /\ pingRecord' = [pingRecord EXCEPT ![Head(connecting)] = pings']
    /\ net' = net \cup {Out("PING", pings')}
    /\ UNCHANGED <<sockets, stateRecord, nodeRecord, aliveDue, historyVars,
                   crashed>>

---------------------------------------------------------------------------
(* messageHandler.  A bootstrap that awaits connect goes on before any      *)
(* datagram is looked at.                                                   *)

Receive(d, type) ==
    /\ ~crashed
    /\ connecting = <<>>
    /\ handled < MaxHandled
    /\ d \in net /\ d.dir = "in" /\ d.type = type
    /\ handled' = handled + 1

HandlePing(d) ==
    /\ Receive(d, "PING")
    /\ net' = net \cup {Out("PONG", d.content)}
    /\ aliveDue' = [aliveDue EXCEPT ![sockets[d.sock]] = @ + 1]
    /\ contacted' = contacted \cup {d.node}
    /\ pinged' = pinged \cup {d.node}
    /\ UNCHANGED <<sockets, connecting, pings, recordVars, peers, crashed>>

\* the rest of the handler, once the pong was sent: 'alive'
Alive(address) ==
    /\ ~crashed
    /\ connecting = <<>>
    /\ aliveDue[address] > 0
    /\ aliveDue' = [aliveDue EXCEPT ![address] = @ - 1]
    /\ IF HasSentNeighborMessage(address, NoTarget)
       THEN UNCHANGED <<net, stateRecord>>
       ELSE FindNeighbors(address, {NoTarget})
    /\ UNCHANGED <<sockets, connecting, pings, pingRecord, nodeRecord,
                   historyVars, crashed>>

\* The hash must be that of the last ping to the handler's address.
PongMatches(d) == pingRecord[sockets[d.sock]] = d.content

HandlePong(d) ==
    /\ Receive(d, "PONG")
    /\ IF ~PongMatches(d)
       THEN /\ crashed' = TRUE
            /\ UNCHANGED <<net, stateRecord, contacted>>
       ELSE /\ contacted' = contacted \cup {d.node}
            /\ IF HasSentNeighborMessage(sockets[d.sock], NoTarget)
               THEN UNCHANGED <<net, stateRecord>>
               ELSE FindNeighbors(sockets[d.sock], {NoTarget})
            /\ UNCHANGED crashed
    /\ UNCHANGED <<sockets, connecting, pings, pingRecord, nodeRecord,
                   aliveDue, peers, pinged>>

\* Seeded fault: only repeats within the packet are left out.
NewNodesInPacket(ips) == IF ips[1] = ips[2] THEN <<ips[1]>> ELSE ips

\* nodes not seen before, each at its first place in the packet
NewNodes(ips) ==
    LET Unseen(ip, seen) == IF ip \in seen THEN <<>> ELSE <<ip>>
    IN  Unseen(ips[1], nodeRecord) \o Unseen(ips[2], nodeRecord \cup {ips[1]})

HandleNeighbors(d) ==
    LET new == NewNodes(d.content)
    IN  /\ Receive(d, "NEIGHBORS")
        /\ nodeRecord' = nodeRecord \cup Range(new)
        /\ peers' = peers \o new
        /\ FindNeighbors(sockets[d.sock], Range(new))
        /\ UNCHANGED <<sockets, connecting, pings, pingRecord, aliveDue,
                       contacted, pinged, crashed>>

---------------------------------------------------------------------------
(* The other nodes: they answer what reaches them, and ping back.           *)

In(d, type, content) ==
    [dir |-> "in", type |-> type, sock |-> d.sock, node |-> d.node,
     content |-> content]

NodeSends(d, type, content) ==
    /\ net' = net \cup {In(d, type, content)}
    /\ UNCHANGED <<sockets, connecting, pings, recordVars, aliveDue,
                   historyVars, crashed>>

NodeAnswersPing(d) ==
    /\ d.type = "PING"
    /\ \/ NodeSends(d, "PONG", d.content)
       \/ NodeSends(d, "PING", d.node)

\* two neighbours to a packet, perhaps on one ip
NodeAnswersFindNode(d) ==
    /\ d.type = "FIND_NODE"
    /\ \E ips \in [1 .. 2 -> Ips] : NodeSends(d, "NEIGHBORS", ips)

Next ==
    \/ \E a \in Addresses : Connect(a) \/ Alive(a)
    \/ SendPing
    \/ \E d \in net : HandlePing(d) \/ HandlePong(d) \/ HandleNeighbors(d)
    \/ \E d \in {e \in net : e.dir = "out"} :
         NodeAnswersPing(d) \/ NodeAnswersFindNode(d)

Spec == Init /\ [][Next]_vars

---------------------------------------------------------------------------
(* Properties *)

TypeOK ==
    /\ sockets \in Seq(Addresses) /\ Len(sockets) <= MaxBootstraps
    /\ connecting \in Seq(Addresses)
    /\ pings \in 0 .. MaxBootstraps
    /\ pingRecord \in [Addresses -> 0 .. MaxBootstraps]
    /\ aliveDue \in [Addresses -> Nat]
    /\ nodeRecord \subseteq Ips
    /\ peers \in Seq(Ips)
    /\ contacted \subseteq Addresses
    /\ pinged \subseteq Addresses
    /\ stateRecord \subseteq {<<a>> : a \in Addresses}
    /\ \A d \in net :
         /\ d.sock \in 1 .. Len(sockets) /\ d.node \in Addresses
         /\ d.type = "NEIGHBORS" => d.content \in [1 .. 2 -> Ips]
    /\ handled \in 0 .. MaxHandled
    /\ crashed \in BOOLEAN

\* However often and by whomever a neighbour is named, its 'peer' event comes
\* once, so nodes.json lists no ip twice (NodeManager.ts:82-92).
PeerOncePerIp == IsInjective(peers) /\ Range(peers) = nodeRecord

\* No honest answer, late, doubled or out of order, trips the assertion
\* 'Unmatched pong hash' (NodeManager.ts:70-74).
NoUnmatchedPong == ~crashed

\* A node whose ping we handled was sent the pong to it (NodeManager.ts:52-64).
PongReachesPinger ==
    \A a \in pinged :
        \E d \in net : /\ d.dir = "out" /\ d.type = "PONG"
                       /\ d.node = a /\ d.content = a

\* FIND_NODE goes only to nodes that proved their endpoint by a ping or a
\* matching pong (NodeManager.ts:65-77, connectToPeerWire.ts:19-22).
FindNodeAfterContact ==
    \A d \in net : d.dir = "out" /\ d.type = "FIND_NODE" => d.node \in contacted

\* As long as there was one bootstrap, with whatever the network does to its
\* datagrams, both hold; a second bootstrap takes the connection from the first
\* node and neither does.
OneNodeIsServed == Len(sockets) = 1 => PongReachesPinger /\ FindNodeAfterContact
===========================================================================
