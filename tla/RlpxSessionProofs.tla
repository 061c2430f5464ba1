-------------------------- MODULE RlpxSessionProofs --------------------------
(***************************************************************************)
(* For every number of packets and pings: what a session writes, in which   *)
(* order, and that nothing is written once the socket is destroyed.         *)
(***************************************************************************)
EXTENDS RlpxSession, FiniteSetTheorems, TLAPS

(* Where a session stands.  Up to the auth-ack there is nothing on the wire, *)
(* afterwards there is the HELLO; a connected session has an open socket     *)
(* unless it has ended.                                                      *)
Phases ==
    /\ messageState # "PACKETS" =>
         /\ isConnected /\ wire = <<>> /\ processed = <<>>
         /\ headerTimers = 0 /\ reader # "status"
    /\ messageState = "PACKETS" /\ isConnected => wire # <<>>
    /\ reader = "ack" => messageState = "ACK"
    /\ socket = "connecting" => messageState = "AUTH"
    /\ isConnected /\ ~exited /\ messageState # "AUTH" => socket = "open"

(* A connected session writes what it encodes.                              *)
NothingDropped == isConnected => encoded = Len(wire)

WireInv == TypeOK /\ Phases /\ NothingDropped /\ EgressInOrder /\ HelloFirst

(* What the session knows of the packets it has read: whether a HELLO was    *)
(* among them, and that the reader sleeps over a STATUS only.                *)
ReadInv ==
    /\ isProtocolActive <=> "HELLO" \in {processed[i] : i \in DOMAIN processed}
    /\ reader = "status" =>
         /\ processed # <<>> /\ processed[Len(processed)] = "STATUS"
         /\ isProtocolActive

(* Connected, it has answered every packet that is owed a reply but the      *)
(* STATUS it sleeps over.                                                    *)
AllAnswered ==
    isConnected => Cardinality(Replies) + (IF reader = "status" THEN 1 ELSE 0)
                     = Cardinality(Owed)

ReplyInv == ReadInv /\ AllAnswered /\ ReplyOrder
----------------------------------------------------------------------------
(* The wire *)

(* A frame goes to the end of the wire of a connected session, under the    *)
(* number the egress MAC has reached, and nowhere else.                      *)
LEMMA SendWrites ==
    ASSUME TypeOK, NEW type \in FrameTypes, Send(type)
    PROVE  /\ encoded' = encoded + 1 /\ encoded' \in Nat
           /\ wire' \in Seq(Frames)
           /\ isConnected => wire' = Append(wire, [type |-> type, seq |-> encoded'])
           /\ ~isConnected => wire' = wire
<1>1. encoded \in Nat /\ wire \in Seq(Frames)
  BY DEF TypeOK
<1>2. encoded' = encoded + 1 /\ encoded' \in Nat \ {0}
  BY <1>1 DEF Send, Encode
<1>3. [type |-> type, seq |-> encoded'] \in Frames
  BY <1>2 DEF Frames
<1> QED
  BY <1>1, <1>2, <1>3 DEF Send, Write

(* What holds of the wire holds after a frame more: the first frame of all   *)
(* is the HELLO, any other finds the HELLO there.                            *)
LEMMA SendKeepsWire ==
    ASSUME WireInv, NEW type \in FrameTypes, Send(type),
           wire = <<>> /\ isConnected => type = "HELLO"
    PROVE  /\ encoded' \in Nat /\ wire' \in Seq(Frames)
           /\ isConnected => encoded' = Len(wire') /\ wire' # <<>>
           /\ EgressInOrder' /\ HelloFirst'
<1> DEFINE frame == [type |-> type, seq |-> encoded']
<1>1. encoded' = encoded + 1 /\ encoded' \in Nat /\ wire' \in Seq(Frames)
  BY SendWrites DEF WireInv
<1>2. encoded \in Nat /\ wire \in Seq(Frames)
  BY DEF WireInv, TypeOK
<1>3. CASE isConnected
  <2>1. wire' = Append(wire, frame)
    BY <1>3, SendWrites DEF WireInv
  <2>2. encoded = Len(wire)
    BY <1>3 DEF WireInv, NothingDropped
  <2> HIDE DEF frame
  <2>3. Len(wire') = Len(wire) + 1 /\ wire' # <<>>
    BY <2>1, <1>2
  <2>4. \A k \in 1 .. Len(wire) : wire'[k] = wire[k]
    BY <2>1, <1>2
  <2>5. wire'[Len(wire) + 1] = frame
    BY <2>1, <1>2
  <2>6. frame.seq = Len(wire) + 1 /\ frame.type = type
    BY <2>2, <1>1 DEF frame
  <2>7. EgressInOrder'
    BY <2>3, <2>4, <2>5, <2>6, <1>2 DEF WireInv, EgressInOrder
  <2>8. CASE wire = <<>>
    BY <2>8, <2>3, <2>5, <2>6, <2>7, <1>1, <2>2, <1>3 DEF HelloFirst
  <2>9. CASE wire # <<>>
    <3>1. 1 \in 1 .. Len(wire)
      BY <2>9, <1>2
    <3> QED
      BY <3>1, <2>9, <2>3, <2>4, <2>7, <1>1, <2>2, <1>3 DEF HelloFirst, WireInv
  <2> QED
    BY <2>8, <2>9
<1>4. CASE ~isConnected
  <2>1. wire' = wire
    BY <1>4, SendWrites DEF WireInv
  <2> QED
    BY <2>1, <1>1, <1>4 DEF WireInv, EgressInOrder, HelloFirst
<1> QED
  BY <1>3, <1>4

(* Taking a packet from the channel.                                         *)
LEMMA ReadTakes ==
    ASSUME TypeOK, NEW m, Read(m)
    PROVE  /\ m \in Packets /\ processed' = Append(processed, m)
           /\ processed' \in Seq(Packets) /\ inbox' = inbox
           /\ messageState = "PACKETS" /\ reader = "idle" /\ ~exited
<1>1. processed \in Seq(Packets) /\ inbox \in Seq(Packets)
  BY DEF TypeOK
<1>2. /\ Len(processed) < Len(inbox) /\ m = inbox[Len(processed) + 1]
      /\ processed' = Append(processed, m) /\ inbox' = inbox
      /\ messageState = "PACKETS" /\ reader = "idle" /\ ~exited
  BY DEF Read, Channel!Deliver
<1>3. Len(processed) + 1 \in 1 .. Len(inbox)
  BY <1>1, <1>2
<1>4. m \in Packets
  BY <1>1, <1>2, <1>3
<1> QED
  BY <1>1, <1>2, <1>4

(* The wire, the phases and the types are kept by an action that reads      *)
(* nothing and sends nothing, whatever else it does.                         *)
LEMMA SilentKeepsWire ==
    ASSUME WireInv, TypeOK', Phases', UNCHANGED <<wire, encoded>>,
           isConnected' => isConnected \/ socket = "connecting"
    PROVE  WireInv'
<1>1. isConnected' => isConnected
  BY DEF WireInv, Phases, TypeOK
<1> QED
  BY <1>1 DEF WireInv, NothingDropped, EgressInOrder, HelloFirst

LEMMA InitWire == Init => WireInv
<1> SUFFICES ASSUME Init PROVE WireInv
  OBVIOUS
<1>0. <<>> \in Seq(Frames) /\ <<>> \in Seq(Packets) /\ 0 \in 0 .. MaxPings
  BY BoundsAssumption DEF BoundsAssumption
<1>1. TypeOK
  BY <1>0 DEF Init, TypeOK
<1>2. wire = <<>> /\ encoded = 0
  BY DEF Init
<1>3. Phases /\ NothingDropped /\ EgressInOrder /\ HelloFirst
  BY <1>2 DEF Init, Phases, NothingDropped, EgressInOrder, HelloFirst
<1> QED
  BY <1>1, <1>3 DEF WireInv

(* Dialling, the handshake and the socket.                                   *)
LEMMA SocketKeepsWire ==
    ASSUME WireInv,
           \/ Connected \/ ConnectFails \/ SendAuth \/ RemoteAcks \/ ReadAck
           \/ RejectAck \/ ExitAfterPong \/ Timeout \/ Close
    PROVE  WireInv'
<1> USE DEF vars, remoteVars, egressVars, socketVars, peerVars, parserVars
<1>1. CASE Connected
  BY <1>1, SilentKeepsWire DEF Connected, WireInv, TypeOK, Phases
<1>2. CASE ConnectFails
  BY <1>2, SilentKeepsWire DEF ConnectFails, Exit, WireInv, TypeOK, Phases
<1>3. CASE SendAuth
  BY <1>3, SilentKeepsWire DEF SendAuth, WireInv, TypeOK, Phases
<1>4. CASE RemoteAcks
  BY <1>4, SilentKeepsWire DEF RemoteAcks, WireInv, TypeOK, Phases
<1>5. CASE ReadAck
  BY <1>5, SilentKeepsWire DEF ReadAck, WireInv, TypeOK, Phases
<1>6. CASE RejectAck
  BY <1>6, SilentKeepsWire DEF RejectAck, Exit, WireInv, TypeOK, Phases
<1>7. CASE ExitAfterPong
  BY <1>7, SilentKeepsWire DEF ExitAfterPong, Exit, WireInv, TypeOK, Phases
<1>8. CASE Timeout
  BY <1>8, SilentKeepsWire DEF Timeout, WireInv, TypeOK, Phases
<1>9. CASE Close
  BY <1>9, SilentKeepsWire DEF Close, Exit, WireInv, TypeOK, Phases
<1> QED
  BY <1>1, <1>2, <1>3, <1>4, <1>5, <1>6, <1>7, <1>8, <1>9

(* What the session writes without a packet to read.                         *)
LEMMA WritingKeepsWire ==
    ASSUME WireInv, ParseAck \/ AnswerStatus \/ RequestBlockHeaders \/ Ping
    PROVE  WireInv'
<1> USE DEF vars, remoteVars, egressVars, socketVars, peerVars, parserVars
<1>1. CASE ParseAck
  <2>1. Send("HELLO") /\ "HELLO" \in FrameTypes
    BY <1>1 DEF ParseAck, FrameTypes
  <2>2. wire = <<>> /\ isConnected
    BY <1>1 DEF ParseAck, WireInv, Phases
  <2>3. /\ encoded' \in Nat /\ wire' \in Seq(Frames)
        /\ isConnected => encoded' = Len(wire') /\ wire' # <<>>
        /\ EgressInOrder' /\ HelloFirst'
    BY <2>1, SendKeepsWire
  <2> QED
    BY <1>1, <2>2, <2>3 DEF ParseAck, WireInv, TypeOK, Phases, NothingDropped
<1>2. CASE AnswerStatus
  <2>1. Send("STATUS") /\ "STATUS" \in FrameTypes
    BY <1>2 DEF AnswerStatus, FrameTypes
  <2>2. isConnected => wire # <<>>
    BY <1>2 DEF AnswerStatus, WireInv, Phases
  <2>3. /\ encoded' \in Nat /\ wire' \in Seq(Frames)
        /\ isConnected => encoded' = Len(wire') /\ wire' # <<>>
        /\ EgressInOrder' /\ HelloFirst'
    BY <2>1, <2>2, SendKeepsWire
  <2> QED
    BY <1>2, <2>3 DEF AnswerStatus, WireInv, TypeOK, Phases, NothingDropped
<1>3. CASE RequestBlockHeaders
  <2>1. Send("GET_BLOCK_HEADERS") /\ "GET_BLOCK_HEADERS" \in FrameTypes
    BY <1>3 DEF RequestBlockHeaders, FrameTypes
  <2>2. messageState = "PACKETS" /\ (isConnected => wire # <<>>)
    BY <1>3 DEF RequestBlockHeaders, WireInv, Phases
  <2>3. /\ encoded' \in Nat /\ wire' \in Seq(Frames)
        /\ isConnected => encoded' = Len(wire') /\ wire' # <<>>
        /\ EgressInOrder' /\ HelloFirst'
    BY <2>1, <2>2, SendKeepsWire
  <2>4. headerTimers' \in Nat
    BY <1>3 DEF RequestBlockHeaders, WireInv, TypeOK
  <2> QED
    BY <1>3, <2>2, <2>3, <2>4
    DEF RequestBlockHeaders, WireInv, TypeOK, Phases, NothingDropped
<1>4. CASE Ping
  <2>1. Send("PING") /\ "PING" \in FrameTypes
    BY <1>4 DEF Ping, FrameTypes
  <2>2. messageState = "PACKETS" /\ (isConnected => wire # <<>>)
    BY <1>4 DEF Ping, WireInv, Phases
  <2>3. /\ encoded' \in Nat /\ wire' \in Seq(Frames)
        /\ isConnected => encoded' = Len(wire') /\ wire' # <<>>
        /\ EgressInOrder' /\ HelloFirst'
    BY <2>1, <2>2, SendKeepsWire
  <2>4. pings' \in 0 .. MaxPings
    BY <1>4, BoundsAssumption DEF Ping, WireInv, TypeOK
  <2> QED
    BY <1>4, <2>2, <2>3, <2>4 DEF Ping, WireInv, TypeOK, Phases, NothingDropped
<1> QED
  BY <1>1, <1>2, <1>3, <1>4

(* The remote: a packet more in the inbox.                                   *)
LEMMA RemoteKeepsWire ==
    ASSUME WireInv, RemoteSends
    PROVE  WireInv'
<1>1. /\ inbox' \in Seq(Packets)
      /\ UNCHANGED <<ackSent, egressVars, socketVars, peerVars, parserVars,
                     exited, processed>>
  BY DEF RemoteSends, Channel!Send, WireInv, TypeOK
<1> QED
  BY <1>1, SilentKeepsWire DEF WireInv, TypeOK, Phases, egressVars, socketVars,
     peerVars, parserVars

(* Reading a packet.                                                         *)
LEMMA ReadingKeepsWire ==
    ASSUME WireInv, ReadPacket
    PROVE  WireInv'
<1> USE DEF vars, remoteVars, egressVars, socketVars, peerVars, parserVars
<1>0. TypeOK
  BY DEF WireInv
<1>1. CASE ReadHello
  <2>1. /\ processed' \in Seq(Packets) /\ inbox' = inbox
        /\ messageState = "PACKETS" /\ reader = "idle" /\ ~exited
    BY <1>0, <1>1, ReadTakes DEF ReadHello
  <2> QED
    BY <1>1, <2>1, SilentKeepsWire DEF ReadHello, WireInv, TypeOK, Phases
<1>2. CASE ReadPing
  <2>1. PICK m \in Packets : Read(m)
    BY <1>2 DEF ReadPing
  <2>2. /\ processed' \in Seq(Packets) /\ inbox' = inbox
        /\ messageState = "PACKETS" /\ reader = "idle" /\ ~exited
    BY <1>0, <2>1, ReadTakes
  <2>3. Send("PONG") /\ "PONG" \in FrameTypes
    BY <1>2 DEF ReadPing, FrameTypes
  <2>4. isConnected => wire # <<>>
    BY <2>2 DEF WireInv, Phases
  <2>5. /\ encoded' \in Nat /\ wire' \in Seq(Frames)
        /\ isConnected => encoded' = Len(wire') /\ wire' # <<>>
        /\ EgressInOrder' /\ HelloFirst'
    BY <2>3, <2>4, SendKeepsWire
  <2> QED
    BY <1>2, <2>2, <2>5 DEF ReadPing, WireInv, TypeOK, Phases, NothingDropped
<1>3. CASE ReadPong
  <2>1. /\ processed' \in Seq(Packets) /\ inbox' = inbox
        /\ messageState = "PACKETS" /\ reader = "idle" /\ ~exited
    BY <1>0, <1>3, ReadTakes DEF ReadPong
  <2> QED
    BY <1>3, <2>1, SilentKeepsWire DEF ReadPong, WireInv, TypeOK, Phases
<1>4. CASE ReadDisconnect
  <2>1. /\ processed' \in Seq(Packets) /\ inbox' = inbox
        /\ messageState = "PACKETS" /\ reader = "idle" /\ ~exited
    BY <1>0, <1>4, ReadTakes DEF ReadDisconnect
  <2> QED
    BY <1>4, <2>1, SilentKeepsWire DEF ReadDisconnect, WireInv, TypeOK, Phases
<1>5. CASE ReadStatus
  <2>1. /\ processed' \in Seq(Packets) /\ inbox' = inbox
        /\ messageState = "PACKETS" /\ reader = "idle" /\ ~exited
    BY <1>0, <1>5, ReadTakes DEF ReadStatus
  <2> QED
    BY <1>5, <2>1, SilentKeepsWire DEF ReadStatus, WireInv, TypeOK, Phases
<1>6. CASE ReadGetBlockHeaders
  <2>2. /\ processed' \in Seq(Packets) /\ inbox' = inbox
        /\ messageState = "PACKETS" /\ reader = "idle" /\ ~exited
    BY <1>0, <1>6, ReadTakes DEF ReadGetBlockHeaders
  <2>3. Send("SEND_BLOCK_HEADERS") /\ "SEND_BLOCK_HEADERS" \in FrameTypes
    BY <1>6 DEF ReadGetBlockHeaders, FrameTypes
  <2>4. isConnected => wire # <<>>
    BY <2>2 DEF WireInv, Phases
  <2>5. /\ encoded' \in Nat /\ wire' \in Seq(Frames)
        /\ isConnected => encoded' = Len(wire') /\ wire' # <<>>
        /\ EgressInOrder' /\ HelloFirst'
    BY <2>3, <2>4, SendKeepsWire
  <2>6. headerTimers' \in Nat
    BY <1>0, <1>6 DEF ReadGetBlockHeaders, TypeOK
  <2> QED
    BY <1>6, <2>2, <2>5, <2>6
    DEF ReadGetBlockHeaders, WireInv, TypeOK, Phases, NothingDropped
<1>7. CASE ReadBlockHeaders
  <2>1. /\ processed' \in Seq(Packets) /\ inbox' = inbox
        /\ messageState = "PACKETS" /\ reader = "idle" /\ ~exited
    BY <1>0, <1>7, ReadTakes DEF ReadBlockHeaders
  <2> QED
    BY <1>7, <2>1, SilentKeepsWire DEF ReadBlockHeaders, WireInv, TypeOK, Phases
<1>8. CASE ReadUnexpected
  <2>1. PICK m : Read(m)
    BY <1>8 DEF ReadUnexpected
  <2>2. /\ processed' \in Seq(Packets) /\ inbox' = inbox
        /\ messageState = "PACKETS" /\ reader = "idle" /\ ~exited
    BY <1>0, <2>1, ReadTakes
  <2> QED
    BY <1>8, <2>2, SilentKeepsWire DEF ReadUnexpected, Exit, WireInv, TypeOK, Phases
<1> QED
  BY <1>1, <1>2, <1>3, <1>4, <1>5, <1>6, <1>7, <1>8 DEF ReadPacket

LEMMA NextKeepsWire == WireInv /\ [Next]_vars => WireInv'
<1> SUFFICES ASSUME WireInv, [Next]_vars PROVE WireInv'
  OBVIOUS
<1>1. CASE UNCHANGED vars
  BY <1>1 DEF vars, remoteVars, egressVars, socketVars, peerVars, parserVars,
     WireInv, TypeOK, Phases, NothingDropped, EgressInOrder, HelloFirst
<1>2. CASE Next
  BY <1>2, SocketKeepsWire, WritingKeepsWire, RemoteKeepsWire, ReadingKeepsWire
  DEF Next
<1> QED
  BY <1>1, <1>2

(* Where every session stands, and what it has written there.                *)
THEOREM SessionInvariant == Spec => []WireInv
  BY InitWire, NextKeepsWire, PTL DEF Spec

(* Every variable of a session keeps its type.                               *)
THEOREM SessionTyped == Spec => []TypeOK
<1>1. WireInv => TypeOK
  BY DEF WireInv
<1> QED
  BY <1>1, SessionInvariant, PTL

(* The remote can verify every frame it gets: the k-th frame that            *)
(* PeerConnection.sendMessage writes is the k-th that went through the       *)
(* egress MAC of EncodeFrame.                                                *)
THEOREM FramesVerify == Spec => []EgressInOrder
<1>1. WireInv => EgressInOrder
  BY DEF WireInv
<1> QED
  BY <1>1, SessionInvariant, PTL

(* Whatever timers fire and whatever the application sends, the HELLO comes  *)
(* first (CommunicationState.parseMessage sends it as soon as there are      *)
(* keys).                                                                    *)
THEOREM HelloComesFirst == Spec => []HelloFirst
<1>1. WireInv => HelloFirst
  BY DEF WireInv
<1> QED
  BY <1>1, SessionInvariant, PTL

(* A frame goes to an open socket only.                                      *)
LEMMA SendNeedsSocket ==
    ASSUME WireInv, NEW type \in FrameTypes, Send(type), ~exited,
           messageState # "AUTH", wire' # wire
    PROVE  socket = "open"
<1>1. isConnected
  BY SendWrites DEF WireInv
<1> QED
  BY <1>1 DEF WireInv, Phases

(* After a DISCONNECT nothing goes to the destroyed socket, whatever timers, *)
(* packets and pings are still to come (PeerConnection.sendMessage).         *)
THEOREM SilentAfterDisconnect == Spec => NoWriteAfterDisconnect
<1>1. WireInv /\ [Next]_vars => (wire' # wire => socket = "open")
  <2> SUFFICES ASSUME WireInv, [Next]_vars, wire' # wire PROVE socket = "open"
    OBVIOUS
  <2> USE DEF vars, remoteVars, egressVars, socketVars, peerVars, parserVars
  <2>1. CASE ParseAck
    BY <2>1, SendNeedsSocket DEF ParseAck, WireInv, Phases, FrameTypes
  <2>2. CASE AnswerStatus
    BY <2>2, SendNeedsSocket DEF AnswerStatus, WireInv, Phases, FrameTypes
  <2>3. CASE RequestBlockHeaders
    <3>1. messageState # "AUTH"
      BY <2>3 DEF RequestBlockHeaders, WireInv, TypeOK, Phases
    <3> QED
      BY <2>3, <3>1, SendNeedsSocket DEF RequestBlockHeaders, FrameTypes
  <2>4. CASE Ping
    BY <2>4, SendNeedsSocket DEF Ping, FrameTypes
  <2>5. CASE ReadPacket
    <3>1. CASE ReadPing
      BY <2>5, <3>1, SendNeedsSocket DEF ReadPing, Read, FrameTypes
    <3>2. CASE ReadGetBlockHeaders
      BY <2>5, <3>2, SendNeedsSocket DEF ReadGetBlockHeaders, Read, FrameTypes
    <3> QED
      BY <2>5, <3>1, <3>2 DEF ReadPacket, ReadHello, ReadPong, ReadDisconnect,
         ReadStatus, ReadBlockHeaders, ReadUnexpected
  <2>6. CASE UNCHANGED vars
    BY <2>6
  <2> QED
    BY <2>1, <2>2, <2>3, <2>4, <2>5, <2>6 DEF Next, Connected, ConnectFails,
       SendAuth, RemoteAcks, RemoteSends, ReadAck, RejectAck, ExitAfterPong,
       Timeout, Close
<1> QED
  BY <1>1, SessionInvariant, PTL DEF Spec, NoWriteAfterDisconnect

----------------------------------------------------------------------------
(* Counting frames *)

LEMMA FramesOfFinite ==
    ASSUME TypeOK, NEW types
    PROVE  /\ IsFiniteSet(FramesOf(types)) /\ Cardinality(FramesOf(types)) \in Nat
           /\ FramesOf(types) \subseteq 1 .. Len(wire)
<1>1. Len(wire) \in Nat /\ DOMAIN wire = 1 .. Len(wire)
  BY DEF TypeOK
<1>2. FramesOf(types) \subseteq 1 .. Len(wire)
  BY <1>1 DEF FramesOf
<1>3. IsFiniteSet(1 .. Len(wire))
  BY <1>1, FS_Interval
<1>4. IsFiniteSet(FramesOf(types))
  BY <1>2, <1>3, FS_Subset
<1> QED
  BY <1>2, <1>4, FS_CardinalityType

(* A frame counts once for the sets of types it is in.                       *)
LEMMA SendCounts ==
    ASSUME TypeOK, NEW type \in FrameTypes, Send(type), isConnected, NEW types
    PROVE  /\ type \in types =>
                /\ FramesOf(types)' = FramesOf(types) \cup {Len(wire) + 1}
                /\ Cardinality(FramesOf(types)') = Cardinality(FramesOf(types)) + 1
           /\ type \notin types => FramesOf(types)' = FramesOf(types)
<1> DEFINE frame == [type |-> type, seq |-> encoded']
<1>1. wire' = Append(wire, frame) /\ frame.type = type
  BY SendWrites
<1> HIDE DEF frame
<1>2. wire \in Seq(Frames) /\ Len(wire) \in Nat
  BY DEF TypeOK
<1>3. /\ DOMAIN wire' = 1 .. Len(wire) + 1 /\ DOMAIN wire = 1 .. Len(wire)
      /\ \A k \in 1 .. Len(wire) : wire'[k] = wire[k]
      /\ wire'[Len(wire) + 1] = frame
  BY <1>1, <1>2
<1>4. CASE type \in types
  <2>1. FramesOf(types)' = FramesOf(types) \cup {Len(wire) + 1}
    BY <1>1, <1>2, <1>3, <1>4 DEF FramesOf
  <2>2. Len(wire) + 1 \notin FramesOf(types)
    BY <1>2, <1>3 DEF FramesOf
  <2> QED
    BY <1>4, <2>1, <2>2, FramesOfFinite, FS_AddElement
<1>5. CASE type \notin types
  BY <1>1, <1>2, <1>3, <1>5 DEF FramesOf
<1> QED
  BY <1>4, <1>5

(* The connection never comes back.                                          *)
LEMMA NeverReconnects ==
    ASSUME WireInv, [Next]_vars
    PROVE  isConnected' => isConnected
<1> USE DEF vars, remoteVars, egressVars, socketVars, peerVars, parserVars
<1>1. CASE Connected
  BY <1>1 DEF Connected, WireInv, Phases
<1>2. CASE ReadPacket
  BY <1>2 DEF ReadPacket, ReadHello, ReadPing, ReadPong, ReadDisconnect,
     ReadStatus, ReadGetBlockHeaders, ReadBlockHeaders, ReadUnexpected
<1> QED
  BY <1>1, <1>2 DEF Next, ConnectFails, SendAuth, RemoteAcks, RemoteSends,
     ReadAck, ParseAck, RejectAck, AnswerStatus, RequestBlockHeaders,
     ExitAfterPong, Ping, Timeout, Close

(* A frame that neither asks for headers nor sends any.                      *)
LEMMA OtherFramesKeepCounts ==
    ASSUME TypeOK, NEW type \in FrameTypes \ {"GET_BLOCK_HEADERS", "SEND_BLOCK_HEADERS"},
           Send(type)
    PROVE  /\ Count("GET_BLOCK_HEADERS")' = Count("GET_BLOCK_HEADERS")
           /\ Count("SEND_BLOCK_HEADERS")' = Count("SEND_BLOCK_HEADERS")
<1>1. CASE isConnected
  <2>1. /\ FramesOf({"GET_BLOCK_HEADERS"})' = FramesOf({"GET_BLOCK_HEADERS"})
        /\ FramesOf({"SEND_BLOCK_HEADERS"})' = FramesOf({"SEND_BLOCK_HEADERS"})
    BY <1>1, SendCounts
  <2> QED
    BY <2>1 DEF Count
<1>2. CASE ~isConnected
  BY <1>2, SendWrites DEF Count, FramesOf
<1> QED
  BY <1>1, <1>2

LEMMA NextKeepsCounts ==
    WireInv /\ RequestsFollowAnswers /\ [Next]_vars => RequestsFollowAnswers'
<1> SUFFICES ASSUME WireInv, RequestsFollowAnswers, [Next]_vars
             PROVE  RequestsFollowAnswers'
  OBVIOUS
<1> USE DEF vars, remoteVars, egressVars, socketVars, peerVars, parserVars
<1>a. TypeOK
  BY DEF WireInv
<1>b. isConnected' => isConnected
  BY NeverReconnects
<1>c. /\ Count("GET_BLOCK_HEADERS") \in Nat /\ Count("SEND_BLOCK_HEADERS") \in Nat
      /\ headerTimers \in Nat
  BY <1>a, FramesOfFinite DEF Count, TypeOK
<1>1. CASE ReadGetBlockHeaders
  <2>1. Send("SEND_BLOCK_HEADERS") /\ headerTimers' = headerTimers + 1
    BY <1>1 DEF ReadGetBlockHeaders
  <2>2. "SEND_BLOCK_HEADERS" \in FrameTypes
    BY DEF FrameTypes
  <2>3. CASE isConnected
    <3>1. FramesOf({"GET_BLOCK_HEADERS"})' = FramesOf({"GET_BLOCK_HEADERS"})
      BY <1>a, <2>1, <2>2, <2>3, SendCounts
    <3>2. Cardinality(FramesOf({"SEND_BLOCK_HEADERS"})')
            = Cardinality(FramesOf({"SEND_BLOCK_HEADERS"})) + 1
      BY <1>a, <2>1, <2>2, <2>3, SendCounts
    <3>3. /\ Count("GET_BLOCK_HEADERS")' = Count("GET_BLOCK_HEADERS")
          /\ Count("SEND_BLOCK_HEADERS")' = Count("SEND_BLOCK_HEADERS") + 1
      BY <3>1, <3>2 DEF Count
    <3> QED
      BY <2>1, <2>3, <3>3, <1>c DEF RequestsFollowAnswers
  <2>4. CASE ~isConnected
    BY <1>a, <1>b, <2>1, <2>2, <2>4, SendWrites DEF RequestsFollowAnswers, Count, FramesOf
  <2> QED
    BY <2>3, <2>4
<1>2. CASE RequestBlockHeaders
  <2>1. Send("GET_BLOCK_HEADERS") /\ headerTimers' = headerTimers - 1 /\ headerTimers > 0
    BY <1>2 DEF RequestBlockHeaders
  <2>2. "GET_BLOCK_HEADERS" \in FrameTypes
    BY DEF FrameTypes
  <2>3. CASE isConnected
    <3>1. FramesOf({"SEND_BLOCK_HEADERS"})' = FramesOf({"SEND_BLOCK_HEADERS"})
      BY <1>a, <2>1, <2>2, <2>3, SendCounts
    <3>2. Cardinality(FramesOf({"GET_BLOCK_HEADERS"})')
            = Cardinality(FramesOf({"GET_BLOCK_HEADERS"})) + 1
      BY <1>a, <2>1, <2>2, <2>3, SendCounts
    <3>3. /\ Count("GET_BLOCK_HEADERS")' = Count("GET_BLOCK_HEADERS") + 1
          /\ Count("SEND_BLOCK_HEADERS")' = Count("SEND_BLOCK_HEADERS")
      BY <3>1, <3>2 DEF Count
    <3> QED
      BY <2>1, <2>3, <3>3, <1>c DEF RequestsFollowAnswers
  <2>4. CASE ~isConnected
    BY <1>a, <1>b, <2>1, <2>2, <2>4, SendWrites DEF RequestsFollowAnswers, Count, FramesOf
  <2> QED
    BY <2>3, <2>4
<1>3. ASSUME headerTimers' = headerTimers,
             Count("GET_BLOCK_HEADERS")' = Count("GET_BLOCK_HEADERS"),
             Count("SEND_BLOCK_HEADERS")' = Count("SEND_BLOCK_HEADERS")
      PROVE  RequestsFollowAnswers'
  BY <1>3, <1>b DEF RequestsFollowAnswers
<1>4. CASE ParseAck \/ AnswerStatus \/ Ping \/ ReadPing
  <2>1. PICK type \in FrameTypes \ {"GET_BLOCK_HEADERS", "SEND_BLOCK_HEADERS"} : Send(type)
    BY <1>4 DEF ParseAck, AnswerStatus, Ping, ReadPing, FrameTypes
  <2>2. headerTimers' = headerTimers
    BY <1>4 DEF ParseAck, AnswerStatus, Ping, ReadPing
  <2> QED
    BY <1>a, <2>1, <2>2, <1>3, OtherFramesKeepCounts
<1>5. ASSUME UNCHANGED <<wire, headerTimers>>
      PROVE  RequestsFollowAnswers'
  BY <1>5, <1>3 DEF Count, FramesOf
<1>6. CASE ReadPacket /\ ~ReadPing /\ ~ReadGetBlockHeaders
  BY <1>5, <1>6 DEF ReadPacket, ReadHello, ReadPong, ReadDisconnect, ReadStatus,
     ReadBlockHeaders, ReadUnexpected
<1>7. CASE UNCHANGED vars
  BY <1>5, <1>7
<1> QED
  BY <1>1, <1>2, <1>4, <1>5, <1>6, <1>7 DEF Next, Connected, ConnectFails,
     SendAuth, RemoteAcks, RemoteSends, ReadAck, RejectAck, ExitAfterPong,
     Timeout, Close

(* Each answer to GET_BLOCK_HEADERS is followed by one request of ours and   *)
(* no more, as long as the session is connected                              *)
(* (CommunicationState.constructMessage).                                    *)
THEOREM OneRequestAnAnswer == Spec => []RequestsFollowAnswers
<1>1. Init => RequestsFollowAnswers
  <2> SUFFICES ASSUME Init PROVE RequestsFollowAnswers
    OBVIOUS
  <2>1. wire = <<>> /\ headerTimers = 0
    BY DEF Init
  <2>2. FramesOf({"GET_BLOCK_HEADERS"}) = {} /\ FramesOf({"SEND_BLOCK_HEADERS"}) = {}
    BY <2>1 DEF FramesOf
  <2>3. Cardinality({}) = 0
    BY FS_EmptySet
  <2>4. Count("GET_BLOCK_HEADERS") = 0 /\ Count("SEND_BLOCK_HEADERS") = 0
    BY <2>2, <2>3 DEF Count
  <2> QED
    BY <2>1, <2>4 DEF RequestsFollowAnswers
<1> QED
  BY <1>1, NextKeepsCounts, SessionInvariant, PTL DEF Spec

----------------------------------------------------------------------------
(* Replies in order *)

(* A packet of type m is answered so, once the packets before it have told   *)
(* whether there was a HELLO.                                                *)
ReplyTo(m, active) ==
    CASE m = "PING" -> "PONG"
      [] m = "STATUS" -> IF active THEN "STATUS" ELSE "PONG"
      [] m = "GET_BLOCK_HEADERS" /\ active -> "SEND_BLOCK_HEADERS"
      [] OTHER -> "none"

LEMMA OwedFinite ==
    ASSUME TypeOK
    PROVE  /\ IsFiniteSet(Owed) /\ Cardinality(Owed) \in Nat
           /\ Owed \subseteq 1 .. Len(processed)
<1>1. Len(processed) \in Nat /\ DOMAIN processed = 1 .. Len(processed)
  BY DEF TypeOK
<1>2. Owed \subseteq 1 .. Len(processed)
  BY <1>1 DEF Owed
<1>3. IsFiniteSet(1 .. Len(processed))
  BY <1>1, FS_Interval
<1>4. IsFiniteSet(Owed)
  BY <1>2, <1>3, FS_Subset
<1> QED
  BY <1>2, <1>4, FS_CardinalityType

(* Reading a packet leaves what was owed as it was, and adds the reply to it *)
(* at the end.                                                               *)
LEMMA ReadOwes ==
    ASSUME TypeOK, ReadInv, NEW m, Read(m), NEW n, n = Len(processed) + 1
    PROVE  /\ n \in Nat \ {0}
           /\ \A i \in DOMAIN processed : Reply(i)' = Reply(i)
           /\ Reply(n)' = ReplyTo(m, isProtocolActive \/ m = "HELLO")
           /\ Reply(n)' # "none" => Owed' = Owed \cup {n}
           /\ Reply(n)' = "none" => Owed' = Owed
<1>1. processed' = Append(processed, m) /\ processed \in Seq(Packets)
  BY ReadTakes DEF TypeOK
<1>2. /\ n \in Nat \ {0} /\ DOMAIN processed = 1 .. n - 1 /\ DOMAIN processed' = 1 .. n
      /\ \A i \in 1 .. n - 1 : processed'[i] = processed[i]
      /\ processed'[n] = m
  BY <1>1
<1>3. ASSUME NEW i \in 1 .. n - 1 PROVE Reply(i)' = Reply(i)
  <2>1. \A j \in 1 .. i : processed'[j] = processed[j]
    BY <1>2
  <2> QED
    BY <2>1, <1>2 DEF Reply
<1>4. (\E j \in 1 .. n : processed'[j] = "HELLO") <=> isProtocolActive \/ m = "HELLO"
  BY <1>2 DEF ReadInv
<1>5. Reply(n)' = ReplyTo(m, isProtocolActive \/ m = "HELLO")
  BY <1>2, <1>4 DEF Reply, ReplyTo
<1>6. Owed' = {i \in 1 .. n : Reply(i)' # "none"}
  BY <1>2 DEF Owed
<1> QED
  BY <1>2, <1>3, <1>5, <1>6 DEF Owed

(* The packets and the frames before a place stay as they are.               *)
LEMMA OwedBefore ==
    ASSUME TypeOK, NEW n, n = Len(processed) + 1,
           Owed' = Owed \/ Owed' = Owed \cup {n}
    PROVE  /\ \A i \in Owed : i \in Owed' /\ Before(Owed', i) = Before(Owed, i)
           /\ Owed' = Owed \cup {n} =>
                 /\ Before(Owed', n) = Cardinality(Owed)
                 /\ Cardinality(Owed') = Cardinality(Owed) + 1
<1>1. Owed \subseteq 1 .. Len(processed) /\ Len(processed) \in Nat
  BY OwedFinite DEF TypeOK
<1>2. ASSUME NEW i \in Owed PROVE i \in Owed' /\ Before(Owed', i) = Before(Owed, i)
  <2>1. {j \in Owed' : j < i} = {j \in Owed : j < i}
    BY <1>1
  <2> QED
    BY <2>1 DEF Before
<1>3. ASSUME Owed' = Owed \cup {n}
      PROVE  /\ Before(Owed', n) = Cardinality(Owed)
             /\ Cardinality(Owed') = Cardinality(Owed) + 1
  <2>0. n \in Nat /\ \A j \in Owed : j < n
    BY <1>1
  <2>1. {j \in Owed' : j < n} = Owed
    BY <1>3, <2>0
  <2>2. n \notin Owed
    BY <1>1
  <2> QED
    BY <1>3, <2>1, <2>2, OwedFinite, FS_AddElement DEF Before
<1> QED
  BY <1>2, <1>3

LEMMA RepliesBefore ==
    ASSUME TypeOK, NEW n, n = Len(wire) + 1,
           Replies' = Replies \/ Replies' = Replies \cup {n}
    PROVE  /\ \A k \in Replies : k \in Replies' /\ Before(Replies', k) = Before(Replies, k)
           /\ Replies' = Replies \cup {n} => Before(Replies', n) = Cardinality(Replies)
<1>1. Replies \subseteq 1 .. Len(wire) /\ Len(wire) \in Nat
  BY FramesOfFinite DEF TypeOK, Replies
<1>2. ASSUME NEW k \in Replies PROVE k \in Replies' /\ Before(Replies', k) = Before(Replies, k)
  <2>1. {j \in Replies' : j < k} = {j \in Replies : j < k}
    BY <1>1
  <2> QED
    BY <2>1 DEF Before
<1>3. ASSUME Replies' = Replies \cup {n} PROVE Before(Replies', n) = Cardinality(Replies)
  <2>0. n \in Nat /\ \A j \in Replies : j < n
    BY <1>1
  <2>1. {j \in Replies' : j < n} = Replies
    BY <1>3, <2>0
  <2> QED
    BY <2>1 DEF Before
<1> QED
  BY <1>2, <1>3

(* Replies stay in order when the new ones answer what is owed at their      *)
(* place.                                                                    *)
LEMMA OrderKept ==
    ASSUME ReplyOrder,
           \A i \in Owed : /\ i \in Owed' /\ Reply(i)' = Reply(i)
                          /\ Before(Owed', i) = Before(Owed, i),
           \A k \in Replies : /\ wire'[k] = wire[k]
                             /\ Before(Replies', k) = Before(Replies, k),
           \A k \in Replies' \ Replies : \E i \in Owed' :
               /\ wire'[k].type = Reply(i)'
               /\ Before(Replies', k) = Before(Owed', i)
    PROVE  ReplyOrder'
<1> SUFFICES ASSUME NEW k \in Replies'
             PROVE  \E i \in Owed' : /\ wire'[k].type = Reply(i)'
                                    /\ Before(Replies', k) = Before(Owed', i)
  BY DEF ReplyOrder, Before
<1>1. CASE k \in Replies
  <2>1. PICK i \in Owed : /\ wire[k].type = Reply(i)
                         /\ Before(Replies, k) = Before(Owed, i)
    BY <1>1 DEF ReplyOrder
  <2> QED
    BY <1>1, <2>1
<1>2. CASE k \notin Replies
  BY <1>2
<1> QED
  BY <1>1, <1>2

(* Nothing read, and no reply written.                                       *)
LEMMA UnrelatedKeepsReplies ==
    ASSUME WireInv, ReplyInv, UNCHANGED <<processed, isProtocolActive>>,
           Replies' = Replies, \A k \in Replies : wire'[k] = wire[k],
           isConnected' => isConnected,
           reader' = "status" <=> reader = "status"
    PROVE  ReplyInv'
<1>1. Owed' = Owed /\ \A i \in Owed : Reply(i)' = Reply(i)
  BY DEF Owed, Reply
<1>2. ReplyOrder'
  BY <1>1, OrderKept DEF ReplyInv
<1>3. AllAnswered'
  BY <1>1 DEF ReplyInv, AllAnswered
<1>4. ReadInv'
  BY DEF ReplyInv, ReadInv
<1> QED
  BY <1>2, <1>3, <1>4 DEF ReplyInv

(* A packet read, nothing written: it is owed no reply, or it is a STATUS    *)
(* and the reader sleeps.                                                    *)
LEMMA ReadingKeepsReplies ==
    ASSUME WireInv, ReplyInv, NEW m, Read(m), UNCHANGED wire,
           isProtocolActive' <=> isProtocolActive \/ m = "HELLO",
           isConnected' => isConnected,
           \/ reader' = "idle" /\ ReplyTo(m, isProtocolActive \/ m = "HELLO") = "none"
           \/ reader' = "status" /\ m = "STATUS" /\ isProtocolActive
    PROVE  ReplyInv'
<1>a. TypeOK /\ ReadInv
  BY DEF WireInv, ReplyInv
<1>n. PICK n : n = Len(processed) + 1
  OBVIOUS
<1>1. /\ processed' = Append(processed, m) /\ reader = "idle"
      /\ processed \in Seq(Packets)
  BY <1>a, ReadTakes DEF TypeOK
<1>2. /\ n \in Nat \ {0}
      /\ \A i \in DOMAIN processed : Reply(i)' = Reply(i)
      /\ Reply(n)' = ReplyTo(m, isProtocolActive \/ m = "HELLO")
      /\ Reply(n)' # "none" => Owed' = Owed \cup {n}
      /\ Reply(n)' = "none" => Owed' = Owed
  BY <1>a, <1>n, ReadOwes
<1>3. /\ \A i \in Owed : i \in Owed' /\ Before(Owed', i) = Before(Owed, i)
      /\ Owed' = Owed \cup {n} => Cardinality(Owed') = Cardinality(Owed) + 1
  BY <1>a, <1>n, <1>2, OwedBefore
<1>4. Replies' = Replies
  BY DEF Replies, FramesOf
<1>5. Owed \subseteq DOMAIN processed
  BY DEF Owed
<1>6. ReplyOrder'
  BY <1>2, <1>3, <1>4, <1>5, OrderKept DEF ReplyInv
<1>7. reader' = "status" => Reply(n)' # "none"
  BY <1>2 DEF ReplyTo
<1>8. Cardinality(Replies) \in Nat /\ Cardinality(Owed) \in Nat
  BY <1>a, FramesOfFinite, OwedFinite DEF Replies
<1>9. AllAnswered'
  <2>1. isConnected => Cardinality(Replies) = Cardinality(Owed)
    BY <1>1, <1>8 DEF ReplyInv, AllAnswered
  <2>2. CASE reader' = "idle"
    BY <1>2, <1>4, <1>8, <2>1, <2>2 DEF AllAnswered
  <2>3. CASE reader' = "status"
    BY <1>2, <1>3, <1>4, <1>7, <1>8, <2>1, <2>3 DEF AllAnswered
  <2> QED
    BY <2>2, <2>3
<1>10. ReadInv'
  <2>1. {processed'[i] : i \in DOMAIN processed'}
          = {processed[i] : i \in DOMAIN processed} \cup {m}
    BY <1>1
  <2>2. processed' # <<>> /\ processed'[Len(processed')] = m
    BY <1>1
  <2> QED
    BY <2>1, <2>2, <1>a DEF ReadInv
<1> QED
  BY <1>6, <1>9, <1>10 DEF ReplyInv

(* A packet read and answered at once.                                       *)
LEMMA AnsweringKeepsReplies ==
    ASSUME WireInv, ReplyInv, NEW m, Read(m), m # "HELLO",
           NEW type \in {"PONG", "SEND_BLOCK_HEADERS"}, Send(type),
           type = ReplyTo(m, isProtocolActive),
           UNCHANGED <<isConnected, isProtocolActive, reader>>
    PROVE  ReplyInv'
<1>a. TypeOK /\ ReadInv
  BY DEF WireInv, ReplyInv
<1>n. PICK n : n = Len(processed) + 1
  OBVIOUS
<1>p. PICK p : p = Len(wire) + 1
  OBVIOUS
<1>1. /\ processed' = Append(processed, m) /\ reader = "idle"
      /\ processed \in Seq(Packets) /\ wire \in Seq(Frames)
  BY <1>a, ReadTakes DEF TypeOK
<1>2. /\ \A i \in DOMAIN processed : Reply(i)' = Reply(i)
      /\ Reply(n)' = type /\ Owed' = Owed \cup {n}
  <2>1. Reply(n)' = ReplyTo(m, isProtocolActive)
    <3>1. Reply(n)' = ReplyTo(m, isProtocolActive \/ m = "HELLO")
      BY <1>a, <1>n, ReadOwes
    <3> QED
      BY <3>1 DEF ReplyTo
  <2>2. type # "none"
    OBVIOUS
  <2> QED
    BY <1>a, <1>n, <2>1, <2>2, ReadOwes
<1>3. /\ \A i \in Owed : i \in Owed' /\ Before(Owed', i) = Before(Owed, i)
      /\ Before(Owed', n) = Cardinality(Owed)
      /\ Cardinality(Owed') = Cardinality(Owed) + 1
  BY <1>a, <1>n, <1>2, OwedBefore
<1>4. Owed \subseteq DOMAIN processed
  BY DEF Owed
<1>5. type \in FrameTypes
  BY DEF FrameTypes
<1>6. ReadInv'
  <2>1. {processed'[i] : i \in DOMAIN processed'}
          = {processed[i] : i \in DOMAIN processed} \cup {m}
    BY <1>1
  <2> QED
    BY <2>1, <1>1, <1>a DEF ReadInv
<1>7. Cardinality(Replies) \in Nat /\ Cardinality(Owed) \in Nat
  BY <1>a, FramesOfFinite, OwedFinite DEF Replies
<1>8. CASE ~isConnected
  <2>1. wire' = wire
    BY <1>8, <1>5, <1>a, SendWrites
  <2>2. Replies' = Replies
    BY <2>1 DEF Replies, FramesOf
  <2>3. ReplyOrder'
    BY <1>2, <1>3, <1>4, <2>1, <2>2, OrderKept DEF ReplyInv
  <2> QED
    BY <1>6, <1>8, <2>3 DEF ReplyInv, AllAnswered
<1>9. CASE isConnected
  <2>1. /\ Replies' = Replies \cup {p}
        /\ Cardinality(Replies') = Cardinality(Replies) + 1
    BY <1>9, <1>5, <1>a, <1>p, SendCounts DEF Replies
  <2>2. /\ \A k \in Replies : Before(Replies', k) = Before(Replies, k)
        /\ Before(Replies', p) = Cardinality(Replies)
    BY <2>1, <1>a, <1>p, RepliesBefore
  <2>3. wire' = Append(wire, [type |-> type, seq |-> encoded'])
    BY <1>9, <1>5, <1>a, SendWrites
  <2>4. wire'[p].type = type /\ \A k \in 1 .. Len(wire) : wire'[k] = wire[k]
    BY <1>1, <1>p, <2>3
  <2>5. Replies \subseteq 1 .. Len(wire)
    BY <1>a, FramesOfFinite DEF Replies
  <2>6. Cardinality(Replies) = Cardinality(Owed)
    BY <1>1, <1>7, <1>9 DEF ReplyInv, AllAnswered
  <2>7. ReplyOrder'
    BY <1>2, <1>3, <1>4, <2>1, <2>2, <2>4, <2>5, <2>6, OrderKept DEF ReplyInv
  <2>8. AllAnswered'
    BY <1>1, <1>3, <1>7, <2>1, <2>6 DEF AllAnswered
  <2> QED
    BY <1>6, <2>7, <2>8 DEF ReplyInv
<1> QED
  BY <1>8, <1>9

(* The STATUS the reader slept over is answered.                             *)
LEMMA AnswerStatusKeepsReplies ==
    ASSUME WireInv, ReplyInv, AnswerStatus
    PROVE  ReplyInv'
<1> USE DEF remoteVars, socketVars, peerVars
<1>a. TypeOK /\ ReadInv
  BY DEF WireInv, ReplyInv
<1>n. PICK n : n = Len(processed)
  OBVIOUS
<1>p. PICK p : p = Len(wire) + 1
  OBVIOUS
<1>1. /\ Send("STATUS") /\ reader = "status" /\ reader' = "idle"
      /\ UNCHANGED <<processed, isProtocolActive, isConnected>>
      /\ processed \in Seq(Packets) /\ wire \in Seq(Frames)
  BY <1>a DEF AnswerStatus, TypeOK
<1>2. /\ n \in Nat \ {0} /\ DOMAIN processed = 1 .. n
      /\ processed[n] = "STATUS" /\ isProtocolActive
  BY <1>a, <1>n, <1>1 DEF ReadInv
<1>3. Owed' = Owed /\ \A i \in DOMAIN processed : Reply(i)' = Reply(i)
  BY <1>1 DEF Owed, Reply
<1>4. Reply(n) = "STATUS" /\ n \in Owed
  <2>1. \E j \in 1 .. n : processed[j] = "HELLO"
    BY <1>a, <1>2 DEF ReadInv
  <2>2. Reply(n) = "STATUS"
    BY <1>2, <2>1 DEF Reply
  <2> QED
    BY <1>2, <2>2 DEF Owed
<1>5. Cardinality(Owed) = Before(Owed, n) + 1 /\ Before(Owed, n) \in Nat
  <2>1. Owed = {j \in Owed : j < n} \cup {n} /\ n \notin {j \in Owed : j < n}
    BY <1>2, <1>4 DEF Owed
  <2>2. IsFiniteSet({j \in Owed : j < n})
    BY <1>a, OwedFinite, FS_Subset
  <2> QED
    BY <2>1, <2>2, FS_AddElement, FS_CardinalityType DEF Before
<1>6. "STATUS" \in FrameTypes
  BY DEF FrameTypes
<1>7. Cardinality(Replies) \in Nat
  BY <1>a, FramesOfFinite DEF Replies
<1>8. Owed \subseteq DOMAIN processed
  BY DEF Owed
<1>9. ReadInv'
  BY <1>1, <1>a DEF ReadInv
<1>10. CASE ~isConnected
  <2>1. wire' = wire
    BY <1>1, <1>6, <1>10, <1>a, SendWrites
  <2>2. Replies' = Replies
    BY <2>1 DEF Replies, FramesOf
  <2>3. ReplyOrder'
    BY <1>3, <1>8, <2>1, <2>2, OrderKept DEF ReplyInv
  <2> QED
    BY <1>1, <1>9, <1>10, <2>3 DEF ReplyInv, AllAnswered
<1>11. CASE isConnected
  <2>1. /\ Replies' = Replies \cup {p}
        /\ Cardinality(Replies') = Cardinality(Replies) + 1
    BY <1>1, <1>6, <1>11, <1>a, <1>p, SendCounts DEF Replies
  <2>2. /\ \A k \in Replies : Before(Replies', k) = Before(Replies, k)
        /\ Before(Replies', p) = Cardinality(Replies)
    BY <2>1, <1>a, <1>p, RepliesBefore
  <2>3. wire' = Append(wire, [type |-> "STATUS", seq |-> encoded'])
    BY <1>1, <1>6, <1>11, <1>a, SendWrites
  <2>4. wire'[p].type = "STATUS" /\ \A k \in 1 .. Len(wire) : wire'[k] = wire[k]
    BY <1>1, <1>p, <2>3
  <2>5. Replies \subseteq 1 .. Len(wire)
    BY <1>a, FramesOfFinite DEF Replies
  <2>6. Cardinality(Replies) + 1 = Cardinality(Owed)
    BY <1>1, <1>11 DEF ReplyInv, AllAnswered
  <2>7. Before(Owed, n) = Cardinality(Replies)
    BY <1>5, <1>7, <2>6
  <2>8. ReplyOrder'
    BY <1>3, <1>4, <1>8, <2>1, <2>2, <2>4, <2>5, <2>7, OrderKept DEF ReplyInv
  <2>9. AllAnswered'
    BY <1>1, <1>3, <1>7, <2>1, <2>6 DEF AllAnswered
  <2> QED
    BY <1>9, <2>8, <2>9 DEF ReplyInv
<1> QED
  BY <1>10, <1>11

(* A frame that is no reply leaves the replies where they are.               *)
LEMMA OtherFramesKeepReplies ==
    ASSUME TypeOK, NEW type \in {"HELLO", "PING", "GET_BLOCK_HEADERS"}, Send(type)
    PROVE  Replies' = Replies /\ \A k \in Replies : wire'[k] = wire[k]
<1>1. type \in FrameTypes
  BY DEF FrameTypes
<1>2. CASE isConnected
  <2>1. Replies' = Replies
    BY <1>1, <1>2, SendCounts DEF Replies
  <2>2. Replies \subseteq 1 .. Len(wire) /\ wire \in Seq(Frames)
    BY FramesOfFinite DEF Replies, TypeOK
  <2>3. wire' = Append(wire, [type |-> type, seq |-> encoded'])
    BY <1>1, <1>2, SendWrites
  <2> QED
    BY <2>1, <2>2, <2>3
<1>3. CASE ~isConnected
  BY <1>1, <1>3, SendWrites DEF Replies, FramesOf
<1> QED
  BY <1>2, <1>3

(* One step for each packet.                                                 *)
LEMMA ReadPacketKeepsReplies ==
    ASSUME WireInv, ReplyInv, ReadPacket
    PROVE  ReplyInv'
<1> USE DEF egressVars, socketVars, peerVars, parserVars
<1>0. isProtocolActive \in BOOLEAN /\ TypeOK
  BY DEF WireInv, TypeOK
<1>1. CASE ReadHello
  <2>1. Read("HELLO") /\ reader = "idle" /\ ReplyTo("HELLO", TRUE) = "none"
    BY <1>1 DEF ReadHello, Read, ReplyTo
  <2> QED
    BY <1>0, <1>1, <2>1, ReadingKeepsReplies DEF ReadHello, ReplyTo
<1>2. CASE ReadPing
  <2>1. PICK m \in Packets : Read(m) /\ IsPing(m)
    BY <1>2 DEF ReadPing
  <2>2. m # "HELLO" /\ ReplyTo(m, isProtocolActive) = "PONG"
    BY <2>1 DEF IsPing, ReplyTo
  <2> QED
    BY <1>2, <2>1, <2>2, AnsweringKeepsReplies DEF ReadPing
<1>3. CASE ReadPong
  <2>1. Read("PONG") /\ reader = "idle"
    BY <1>3 DEF ReadPong, Read
  <2> QED
    BY <1>0, <1>3, <2>1, ReadingKeepsReplies DEF ReadPong, ReplyTo
<1>4. CASE ReadDisconnect
  <2>1. Read("DISCONNECT") /\ reader = "idle"
    BY <1>4 DEF ReadDisconnect, Read
  <2> QED
    BY <1>0, <1>4, <2>1, ReadingKeepsReplies DEF ReadDisconnect, ReplyTo
<1>5. CASE ReadStatus
  BY <1>0, <1>5, ReadingKeepsReplies DEF ReadStatus
<1>6. CASE ReadGetBlockHeaders
  <2>1. ReplyTo("GET_BLOCK_HEADERS", isProtocolActive) = "SEND_BLOCK_HEADERS"
    BY <1>6 DEF ReadGetBlockHeaders, ReplyTo
  <2> QED
    BY <1>6, <2>1, AnsweringKeepsReplies DEF ReadGetBlockHeaders
<1>7. CASE ReadBlockHeaders
  <2>1. Read("SEND_BLOCK_HEADERS") /\ reader = "idle"
    BY <1>7 DEF ReadBlockHeaders, Read
  <2> QED
    BY <1>0, <1>7, <2>1, ReadingKeepsReplies DEF ReadBlockHeaders, ReplyTo
<1>8. CASE ReadUnexpected
  <2>1. PICK m \in (IF isProtocolActive
                   THEN {"HELLO", "DISCONNECT", "OTHER"}
                   ELSE {"GET_BLOCK_HEADERS", "SEND_BLOCK_HEADERS", "OTHER"}) :
          Read(m)
    BY <1>8 DEF ReadUnexpected
  <2>2. /\ m = "HELLO" => isProtocolActive
        /\ ReplyTo(m, isProtocolActive \/ m = "HELLO") = "none"
    BY <2>1 DEF ReplyTo
  <2>3. reader = "idle"
    BY <2>1 DEF Read
  <2> QED
    BY <1>0, <1>8, <2>1, <2>2, <2>3, ReadingKeepsReplies DEF ReadUnexpected
<1> QED
  BY <1>1, <1>2, <1>3, <1>4, <1>5, <1>6, <1>7, <1>8 DEF ReadPacket

LEMMA NextKeepsReplies == WireInv /\ ReplyInv /\ [Next]_vars => ReplyInv'
<1> SUFFICES ASSUME WireInv, ReplyInv, [Next]_vars PROVE ReplyInv'
  OBVIOUS
<1> USE DEF vars, remoteVars, egressVars, socketVars, peerVars, parserVars
<1>0. TypeOK /\ (isConnected' => isConnected)
  BY NeverReconnects DEF WireInv
<1>1. CASE ParseAck
  <2>1. Replies' = Replies /\ \A k \in Replies : wire'[k] = wire[k]
    BY <1>0, <1>1, OtherFramesKeepReplies DEF ParseAck
  <2> QED
    BY <1>0, <1>1, <2>1, UnrelatedKeepsReplies DEF ParseAck
<1>2. CASE RequestBlockHeaders
  <2>1. Replies' = Replies /\ \A k \in Replies : wire'[k] = wire[k]
    BY <1>0, <1>2, OtherFramesKeepReplies DEF RequestBlockHeaders
  <2> QED
    BY <1>0, <1>2, <2>1, UnrelatedKeepsReplies DEF RequestBlockHeaders
<1>3. CASE Ping
  <2>1. Replies' = Replies /\ \A k \in Replies : wire'[k] = wire[k]
    BY <1>0, <1>3, OtherFramesKeepReplies DEF Ping
  <2> QED
    BY <1>0, <1>3, <2>1, UnrelatedKeepsReplies DEF Ping
<1>4. ASSUME UNCHANGED <<wire, processed, isProtocolActive>>,
             reader' = "status" <=> reader = "status"
      PROVE  ReplyInv'
  <2>1. Replies' = Replies
    BY <1>4 DEF Replies, FramesOf
  <2> QED
    BY <1>0, <1>4, <2>1, UnrelatedKeepsReplies
<1>5. CASE \/ Connected \/ ConnectFails \/ SendAuth \/ RemoteAcks \/ RemoteSends
           \/ ReadAck \/ RejectAck \/ ExitAfterPong \/ Timeout \/ Close
  BY <1>4, <1>5 DEF Connected, ConnectFails, SendAuth, RemoteAcks, RemoteSends,
     Channel!Send, ReadAck, RejectAck, ExitAfterPong, Timeout, Close
<1>6. CASE UNCHANGED vars
  BY <1>4, <1>6
<1> QED
  BY <1>1, <1>2, <1>3, <1>5, <1>6, AnswerStatusKeepsReplies, ReadPacketKeepsReplies
  DEF Next

LEMMA InitReplies == Init => ReplyInv
<1> SUFFICES ASSUME Init PROVE ReplyInv
  OBVIOUS
<1>1. wire = <<>> /\ processed = <<>> /\ reader = "idle" /\ ~isProtocolActive
  BY DEF Init
<1>2. Replies = {} /\ Owed = {}
  BY <1>1 DEF Replies, FramesOf, Owed
<1>3. ReplyOrder
  BY <1>2 DEF ReplyOrder
<1>4. AllAnswered
  BY <1>1, <1>2, FS_EmptySet DEF AllAnswered
<1>5. ReadInv
  BY <1>1 DEF ReadInv
<1> QED
  BY <1>3, <1>4, <1>5 DEF ReplyInv

(* Whatever comes in while a STATUS waits for its half second, replies leave *)
(* in the order of the packets they answer (PeerConnection.isReading).       *)
THEOREM RepliesInOrder == Spec => []ReplyOrder
<1>1. Spec => []ReplyInv
  BY InitReplies, NextKeepsReplies, SessionInvariant, PTL DEF Spec
<1>2. ReplyInv => ReplyOrder
  BY DEF ReplyInv
<1> QED
  BY <1>1, <1>2, PTL

----------------------------------------------------------------------------
(* The session and the framing below it *)

(* A session takes from the channel that RlpxFraming implements nothing but  *)
(* the next packet, and the remote puts packets at its end: what is proved   *)
(* of sessions holds over the byte stream.                                   *)
THEOREM SessionUsesChannel == Spec => Channel!ChannelSafety
<1>1. Init => Channel!ChannelInit
  BY DEF Init, Channel!ChannelInit
<1>2. [Next]_vars => [Channel!ChannelNext]_(Channel!channelVars)
  <2> SUFFICES ASSUME [Next]_vars
               PROVE  Channel!ChannelNext \/ UNCHANGED <<inbox, processed>>
    BY DEF Channel!channelVars
  <2> USE DEF vars, remoteVars, egressVars, socketVars, peerVars, parserVars
  <2>1. CASE RemoteSends
    BY <2>1 DEF RemoteSends, Channel!ChannelNext
  <2>2. CASE ReadPacket
    <3>1. Channel!Deliver
      BY <2>2 DEF ReadPacket, ReadHello, ReadPing, ReadPong, ReadDisconnect,
         ReadStatus, ReadGetBlockHeaders, ReadBlockHeaders, ReadUnexpected, Read
    <3> QED
      BY <3>1 DEF Channel!ChannelNext
  <2> QED
    BY <2>1, <2>2 DEF Next, Connected, ConnectFails, SendAuth, RemoteAcks,
       ReadAck, ParseAck, RejectAck, AnswerStatus, RequestBlockHeaders,
       ExitAfterPong, Ping, Timeout, Close
<1> QED
  BY <1>1, <1>2, PTL DEF Spec, Channel!ChannelSafety

=============================================================================
