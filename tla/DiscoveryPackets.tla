--------------------------- MODULE DiscoveryPackets ---------------------------
(***************************************************************************)
(* The packets of node discovery between writing and reading: a packet is   *)
(* written by this node or by an honest peer, and WireMessageDecoder reads   *)
(* it.  An address is its bytes, a port and a time are numbers.              *)
(* NodeDiscovery models when packets are sent; here is what of them arrives. *)
(***************************************************************************)
EXTENDS Rlp, FiniteSets

CONSTANTS
    Pings,          \* packets this node or a peer writes, by type
    Pongs,
    FindNodes,
    Neighborhoods

VARIABLES
    written,        \* the packet, who wrote it and of what type
    datagram,       \* what is on the wire
    read            \* what the decoder made of it

vars == <<written, datagram, read>>

Nothing == [nothing |-> TRUE]
Refused == [refused |-> TRUE]

\* An absent port: null in a PingPacket.
NoPort == -1

----------------------------------------------------------------------------
(* Encoders *)

PortBytes(port) == Bytes(BigEndian(port))
OptionalPort(port) == IF port = NoPort THEN Bytes(<<>>) ELSE PortBytes(port)

\* PingPacketEncodeDecode.encode: the version is always 4.
PingItems(p) ==
    List(<<Amount(4),
           List(<<Bytes(p.fromIp), OptionalPort(p.fromUdpPort),
                  OptionalPort(p.fromTcpPort)>>),
           List(<<Bytes(p.toIp), PortBytes(p.toUdpPort), PortBytes(p.toTcpPort)>>),
           Bytes(BigEndian(p.expiration))>>
         \o [i \in DOMAIN p.sequence |-> Amount(p.sequence[i])])

\* PongPacketEncodeDecode.encode: convertPort writes the UDP port whatever it
\* is given.
PongItems(p) ==
    List(<<List(<<Bytes(p.toIp), PortBytes(p.toUdpPort), PortBytes(p.toUdpPort)>>),
           Bytes(p.hash), Bytes(BigEndian(p.expiration))>>)

FindNodeItems(p) == List(<<Bytes(p.target), Amount(p.expiration)>>)

----------------------------------------------------------------------------
(* What the protocol says of a packet, and RLP as it is defined: how honest  *)
(* peers write, and what the encoders are held against.                     *)

UInt(n) == IF n \in {NoPort, 0} THEN Bytes(<<>>) ELSE Bytes(BigEndian(n))
Endpoint(ip, udp, tcp) == <<Bytes(ip), UInt(udp), UInt(tcp)>>

PeersItems(type, p) ==
    CASE type = "PING" ->
            List(<<UInt(4), List(Endpoint(p.fromIp, p.fromUdpPort, p.fromTcpPort)),
                   List(Endpoint(p.toIp, p.toUdpPort, p.toTcpPort)),
                   UInt(p.expiration)>>
                 \o [i \in DOMAIN p.sequence |-> UInt(p.sequence[i])])
      [] type = "PONG" ->
            List(<<List(Endpoint(p.toIp, p.toUdpPort, p.toTcpPort)),
                   Bytes(p.hash), UInt(p.expiration)>>)
      [] type = "FIND_NODE" -> List(<<Bytes(p.target), UInt(p.expiration)>>)
      [] type = "NEIGHBORS" ->
            List(<<List([i \in DOMAIN p.nodes |->
                       List(Append(Endpoint(p.nodes[i].ip, p.nodes[i].udpPort,
                                            p.nodes[i].tcpPort),
                                   Bytes(p.nodes[i].publicKey)))]),
                   UInt(p.expiration)>>)

RECURSIVE Canonical(_)
Headed(short, content) ==
    LET size == BigEndian(Len(content))
    IN  IF Len(content) <= 55 THEN <<short + Len(content)>> \o content
        ELSE <<short + 55 + Len(size)>> \o size \o content

Canonical(v) ==
    CASE IsBytes(v) -> IF Len(v.bytes) = 1 /\ v.bytes[1] < 128 THEN v.bytes
                       ELSE Headed(128, v.bytes)
      [] IsAmount(v) -> Canonical(UInt(v.number))
      [] IsList(v) -> Headed(192, FlattenSeq([i \in DOMAIN v.items |->
                                                 Canonical(v.items[i])]))

----------------------------------------------------------------------------
(* PacketEncapsulation.  The hash is over the signature, the type and the    *)
(* message; nobody checks the signature.                                    *)

Hash(type, message) == <<type, message>>

Encapsulated(type, message) ==
    [hash |-> Hash(type, message), type |-> type, message |-> message]

----------------------------------------------------------------------------
(* Decoders: a record of what is read, or Refused when one of them throws.   *)

\* Buffer.readIntBE: signed.
SignedInt(bytes) ==
    IF bytes[1] < 128 THEN ToNumber(bytes)
    ELSE ToNumber(bytes) - 256 ^ Len(bytes)
NumberFromBuffer(bytes) == IF bytes = <<>> THEN 0 ELSE SignedInt(bytes)

\* parseHexIp: of the 16 bytes of a version 6 address the first ten.
IsIp(bytes) == Len(bytes) \in {4, 16}
HexIp(bytes) == IF Len(bytes) = 4 THEN bytes ELSE SubSeq(bytes, 1, 10)

\* Seeded fault: the ports of the recipient are read the other way round, as
\* those of a pong are.
DecodePingSwapped(items) ==
    LET from == [i \in 1..3 |-> AsBuffer(items[2].items[i])]
        to == [i \in 1..3 |-> AsBuffer(items[3].items[i])]
        ports == {from[2], from[3], to[2], to[3]}
    IN  IF IsIp(from[1]) /\ IsIp(to[1]) /\ <<>> \notin ports
        THEN [version |-> AsNumber(items[1]), expiration |-> AsNumber(items[4]),
              fromIp |-> HexIp(from[1]),
              fromUdpPort |-> SignedInt(from[2]), fromTcpPort |-> SignedInt(from[3]),
              toIp |-> HexIp(to[1]),
              toUdpPort |-> SignedInt(to[3]), toTcpPort |-> SignedInt(to[2])]
        ELSE Refused

DecodePing(items) ==
    LET from == [i \in 1..3 |-> AsBuffer(items[2].items[i])]
        to == [i \in 1..3 |-> AsBuffer(items[3].items[i])]
        ports == {from[2], from[3], to[2], to[3]}
    IN  IF IsIp(from[1]) /\ IsIp(to[1]) /\ <<>> \notin ports
        THEN [version |-> AsNumber(items[1]), expiration |-> AsNumber(items[4]),
              fromIp |-> HexIp(from[1]),
              fromUdpPort |-> SignedInt(from[2]), fromTcpPort |-> SignedInt(from[3]),
              toIp |-> HexIp(to[1]),
              toUdpPort |-> SignedInt(to[2]), toTcpPort |-> SignedInt(to[3])]
        ELSE Refused

\* The ports are read in the order TCP, UDP.
DecodePong(items) ==
    LET to == [i \in 1..3 |-> AsBuffer(items[1].items[i])]
    IN  IF IsIp(to[1])
        THEN [toIp |-> HexIp(to[1]), toTcpPort |-> NumberFromBuffer(to[2]),
              toUdpPort |-> NumberFromBuffer(to[3]),
              hash |-> items[2], expiration |-> AsNumber(items[3])]
        ELSE Refused

\* Both must be strings; a time is read as hex whether it is or not.
IsString(item) == DOMAIN item \in {{"hex"}, {"text"}}
DecodeFindNode(items) ==
    IF IsString(items[1]) /\ IsString(items[2])
    THEN [target |-> items[1],
          expiration |-> IF "hex" \in DOMAIN items[2] THEN ToNumber(items[2].hex)
                         ELSE ParseHex(items[2].text)]
    ELSE Refused

DecodeNeighbors(items) ==
    LET fields(n) == [i \in 1..4 |-> AsBuffer(items[1].items[n].items[i])]
    IN  IF \A n \in DOMAIN items[1].items : IsIp(fields(n)[1])
        THEN [nodes |-> [n \in DOMAIN items[1].items |->
                [ip |-> HexIp(fields(n)[1]),
                 tcpPort |-> NumberFromBuffer(fields(n)[2]),
                 udpPort |-> NumberFromBuffer(fields(n)[3]),
                 publicKey |-> fields(n)[4]]]]
        ELSE Refused

\* WireMessageDecoder.decode
DecodePacket(d) ==
    LET rlp == Decode(d.message, 1)
    IN  CASE d.hash # Hash(d.type, d.message) -> Refused
          [] ~rlp.ok \/ ~IsList(rlp.value) -> Refused
          [] d.type = "PING" -> DecodePing(rlp.value.items)
          [] d.type = "PONG" -> DecodePong(rlp.value.items)
          [] d.type = "FIND_NODE" -> DecodeFindNode(rlp.value.items)
          [] d.type = "NEIGHBORS" -> DecodeNeighbors(rlp.value.items)

----------------------------------------------------------------------------
Init ==
    /\ written = Nothing
    /\ datagram = Nothing
    /\ read = Nothing

Write(by, type, p, items) ==
    /\ written = Nothing
    /\ written' = [by |-> by, type |-> type, packet |-> p]
    /\ datagram' = Encapsulated(type, IF by = "us" THEN Encoded(items)
                                      ELSE Canonical(items))
    /\ UNCHANGED read

WritePing == \E p \in Pings : Write("us", "PING", p, PingItems(p))
WritePong == \E p \in Pongs : Write("us", "PONG", p, PongItems(p))
WriteFindNode == \E p \in FindNodes : Write("us", "FIND_NODE", p, FindNodeItems(p))

PeerWrites ==
    \E type \in {"PING", "PONG", "FIND_NODE", "NEIGHBORS"} :
        \E p \in CASE type = "PING" -> Pings
                   [] type = "PONG" -> Pongs
                   [] type = "FIND_NODE" -> FindNodes
                   [] type = "NEIGHBORS" -> Neighborhoods :
            Write("peer", type, p, PeersItems(type, p))

Receive ==
    /\ datagram # Nothing
    /\ read = Nothing
    /\ read' = DecodePacket(datagram)
    /\ UNCHANGED <<written, datagram>>

Next == WritePing \/ WritePong \/ WriteFindNode \/ PeerWrites \/ Receive

Spec == Init /\ [][Next]_vars

----------------------------------------------------------------------------
(* Properties *)

Byte == 0..255

\* What is written, sent and read are of the forms the code gives them, and a
\* datagram is one the socket takes: at most 1280 bytes.
TypeOK ==
    /\ written = Nothing <=> datagram = Nothing
    /\ datagram # Nothing =>
        /\ datagram.message \in Seq(Byte)
        /\ 98 + Len(datagram.message) <= 1280
    /\ read # Nothing => datagram # Nothing

\* A packet whose fields survive the guessing of the decoder: no field looks
\* like a hex text, ports are below 2^15 when they take two bytes and below
\* 2^7 when they take one, and a pong's or a neighbour's two ports are one.
Survives(bytes) == ~BeginsAsHex(bytes)
PortSurvives(port) ==
    port = NoPort \/ (Survives(BigEndian(port)) /\ BigEndian(port)[1] < 128)
IpSurvives(ip) == Len(ip) = 4 /\ Survives(ip)

PacketSurvives(type, p) ==
    CASE type = "PING" ->
            /\ IpSurvives(p.fromIp) /\ IpSurvives(p.toIp)
            /\ \A port \in {p.fromUdpPort, p.fromTcpPort, p.toUdpPort, p.toTcpPort} :
                   PortSurvives(port)
      [] type = "PONG" ->
            IpSurvives(p.toIp) /\ PortSurvives(p.toUdpPort) /\ p.toTcpPort = p.toUdpPort
      [] type = "FIND_NODE" -> NotAscii(BigEndian(p.expiration))
      [] type = "NEIGHBORS" ->
            \A n \in DOMAIN p.nodes :
                /\ IpSurvives(p.nodes[n].ip) /\ PortSurvives(p.nodes[n].udpPort)
                /\ p.nodes[n].tcpPort = p.nodes[n].udpPort

PortRead(port) == IF port = NoPort THEN 0 ELSE port

Expected(type, p) ==
    CASE type = "PING" ->
            [version |-> 4, expiration |-> p.expiration,
             fromIp |-> p.fromIp, fromUdpPort |-> PortRead(p.fromUdpPort),
             fromTcpPort |-> PortRead(p.fromTcpPort),
             toIp |-> p.toIp, toUdpPort |-> p.toUdpPort, toTcpPort |-> p.toTcpPort]
      [] type = "PONG" ->
            [toIp |-> p.toIp, toTcpPort |-> p.toTcpPort, toUdpPort |-> p.toUdpPort,
             hash |-> HexText(p.hash), expiration |-> p.expiration]
      [] type = "FIND_NODE" -> [target |-> HexText(p.target), expiration |-> p.expiration]
      [] type = "NEIGHBORS" ->
            [nodes |-> [n \in DOMAIN p.nodes |->
                [ip |-> p.nodes[n].ip, tcpPort |-> p.nodes[n].tcpPort,
                 udpPort |-> p.nodes[n].udpPort, publicKey |-> p.nodes[n].publicKey]]]

\* What is read of a packet is what was written, by this node or by a peer,
\* though the decoder does not know the types of the fields and guesses: the
\* writers (PingPacketEncodeDecode.encode and the others), RlpEncoder,
\* RlpDecoder and ReadOutRlp agree on every packet whose fields survive.
ReadAsWritten ==
    read # Nothing /\ PacketSurvives(written.type, written.packet) =>
        read = Expected(written.type, written.packet)

\* What this node writes is the one encoding RLP has for the packet, which is
\* all a peer that follows the definition accepts: the head of a list says how
\* many bytes follow, also of lists in lists and of long strings
\* (ArrayEncoderDecoder.encode, StringEncoder.encode).  A ping of 55 bytes is
\* the exception: its list has the long form.
CanonicalOnWire ==
    written # Nothing /\ written.by = "us" =>
        LET items == CASE written.type = "PING" -> PingItems(written.packet)
                       [] written.type = "PONG" -> PongItems(written.packet)
                       [] written.type = "FIND_NODE" -> FindNodeItems(written.packet)
        IN  datagram.message = Canonical(items) \/ Len(Canonical(items)) = 56
=============================================================================
