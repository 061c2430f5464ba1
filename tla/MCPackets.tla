------------------------------- MODULE MCPackets -------------------------------
(***************************************************************************)
(* Packets for TLC: ports and addresses on either side of what the decoder  *)
(* guesses by, among them 0x3078, whose two bytes are the characters 0x.    *)
(***************************************************************************)
EXTENDS DiscoveryPackets

Localhost == <<127, 0, 0, 1>>
Anywhere == <<0, 0, 0, 0>>
LooksLikeHex == <<48, 120, 49, 50>>
Version6 == [i \in 1..16 |-> 200]

Ports == {0, 80, 128, 255, 256, 8248, 12408, 30303, 32768, 65535}
Times == {1654438346, 1633837924}       \* the second is the text abcd
LongBytes(n, b) == [i \in 1..n |-> b]

MCPings ==
    [fromIp : {Anywhere, Version6}, fromUdpPort : {NoPort, 30303},
     fromTcpPort : {NoPort, 30303}, toIp : {Localhost, LooksLikeHex, Version6},
     toUdpPort : Ports, toTcpPort : Ports, expiration : {1654438346},
     sequence : {<<>>, <<5>>}]

MCPongs ==
    [toIp : {Localhost, LooksLikeHex, Version6}, toUdpPort : Ports,
     toTcpPort : Ports, hash : {LongBytes(32, 171)}, expiration : Times]

MCFindNodes == [target : {LongBytes(64, 202), LongBytes(65, 4)}, expiration : Times]

Node(ip, port) ==
    [ip |-> ip, udpPort |-> port, tcpPort |-> port, publicKey |-> LongBytes(64, 221)]

MCNeighborhoods ==
    [nodes : {<<>>} \cup
             {[i \in 1..n |-> Node(IF i = 1 THEN ip ELSE Localhost, port)] :
                  n \in 1..5, ip \in {Localhost, LooksLikeHex}, port \in Ports},
     expiration : Times]
=============================================================================
