---------------------------- MODULE RlpxSession ----------------------------
(***************************************************************************)
(* One outbound RLPx session as Peer, PeerConnection, PeerConnectionState  *)
(* and CommunicationState drive it: dialling, the AUTH/ACK handshake, the  *)
(* exchange of packets, and the ways a session ends.  What the remote      *)
(* sends arrives through MessageChannel, which RlpxFraming implements.     *)
(*                                                                         *)
(* JavaScript runs one event at a time, so an action is the handler of one *)
(* timer or socket event with the microtasks it queues: encoding a reply   *)
(* and writing it belong to the same action, while every sleep() and the   *)
(* decryption of the auth-ack separate two actions.                        *)
(***************************************************************************)
EXTENDS Integers, Sequences, FiniteSets

CONSTANTS
    MaxMessages,    \* bound: packets the remote sends after its auth-ack
    MaxPings        \* bound: pings the application sends

ASSUME BoundsAssumption == MaxMessages \in Nat /\ MaxPings \in Nat

VARIABLES
    socket,             \* the TCP socket
    isConnected,        \* PeerConnection.isConnected
    messageState,       \* PeerConnectionState._state
    reader,             \* PeerConnection.isReading, and what is awaited
    isProtocolActive,   \* CommunicationState.isProtocolActive
    knowsVersion,       \* Peer.protocolVersion is set
    sentStatus,         \* Peer.sentStatus: the 3 s timer to the exit runs
    headerTimers,       \* sleep(1500) pending after a SEND_BLOCK_HEADERS
    encoded,            \* frames the egress MAC went through
    wire,               \* frames written to the socket
    announced,          \* Peer emitted 'disconnect'
    exited,             \* process.exit ran
    ackSent,            \* the remote sent its auth-ack
    inbox,              \* packets the remote sent, in order
    processed,          \* packets the reader took, in order
    pings               \* pings the application sent

remoteVars  == <<ackSent, inbox>>
egressVars  == <<encoded, wire>>
socketVars  == <<socket, isConnected, announced>>
peerVars    == <<knowsVersion, sentStatus, headerTimers, pings>>
parserVars  == <<messageState, reader, isProtocolActive>>
vars == <<remoteVars, egressVars, socketVars, peerVars, parserVars,
          processed, exited>>

\* OTHER: an id the session does not know, or a payload that does not decode
Packets == {"HELLO", "DISCONNECT", "PING", "PONG", "STATUS",
            "GET_BLOCK_HEADERS", "SEND_BLOCK_HEADERS", "OTHER"}

Channel == INSTANCE MessageChannel WITH
    Messages <- Packets, sent <- inbox, delivered <- processed

Init ==
    /\ socket = "connecting"
    /\ isConnected = TRUE
    /\ messageState = "AUTH"
    /\ reader = "idle"
    /\ isProtocolActive = FALSE
    /\ knowsVersion = FALSE
    /\ sentStatus = FALSE
    /\ headerTimers = 0
    /\ encoded = 0
    /\ wire = <<>>
    /\ announced = FALSE
    /\ exited = FALSE
    /\ ackSent = FALSE
    /\ inbox = <<>>
    /\ processed = <<>>
    /\ pings = 0

---------------------------------------------------------------------------
(* Sending *)

\* RlpxMessageEncoder advances the egress MAC whether or not the frame is
\* then written.
Encode == encoded' = encoded + 1

\* Seeded faults: a frame is dropped while a packet is being handled; the
\* connection is not checked.
WriteUnlessBusy(type) ==
    wire' = IF isConnected /\ reader # "status"
            THEN Append(wire, [type |-> type, seq |-> encoded']) ELSE wire

WriteAlways(type) == wire' = Append(wire, [type |-> type, seq |-> encoded'])

\* PeerConnection.sendMessage
Write(type) ==
    wire' = IF isConnected
            THEN Append(wire, [type |-> type, seq |-> encoded']) ELSE wire

Send(type) == Encode /\ Write(type)

Exit == exited' = TRUE

---------------------------------------------------------------------------
(* Dialling and the handshake *)

Connected ==
    /\ ~exited
    /\ socket = "connecting"
    /\ socket' = "open"
    /\ isConnected' = TRUE
    /\ UNCHANGED <<remoteVars, egressVars, announced, peerVars, parserVars,
                   processed, exited>>

\* Nobody listens to 'error' before the connection is up: the event is thrown.
ConnectFails ==
    /\ ~exited
    /\ socket = "connecting"
    /\ socket' = "closed"
    /\ Exit
    /\ UNCHANGED <<remoteVars, egressVars, isConnected, announced, peerVars,
                   parserVars, processed>>

\* Peer.sendMessage(AUTH_EIP_8); the auth message is not a frame.
SendAuth ==
    /\ ~exited
    /\ socket = "open"
    /\ messageState = "AUTH"
    /\ messageState' = "ACK"
    /\ UNCHANGED <<remoteVars, egressVars, socketVars, peerVars, reader,
                   isProtocolActive, processed, exited>>

RemoteAcks ==
    /\ socket = "open"
    /\ messageState = "ACK"
    /\ ~ackSent
    /\ ackSent' = TRUE
    /\ UNCHANGED <<inbox, egressVars, socketVars, peerVars, parserVars,
                   processed, exited>>

\* After its auth-ack the remote may send at once.
RemoteSends ==
    /\ ackSent
    /\ socket = "open"
    /\ Len(inbox) < MaxMessages
    /\ \E m \in Packets : Channel!Send(m)
    /\ UNCHANGED <<ackSent, egressVars, socketVars, peerVars, parserVars,
                   exited>>

ReadAck ==
    /\ ~exited
    /\ reader = "idle"
    /\ messageState = "ACK"
    /\ ackSent
    /\ reader' = "ack"
    /\ UNCHANGED <<remoteVars, egressVars, socketVars, peerVars, messageState,
                   isProtocolActive, processed, exited>>

\* Seeded fault: the HELLO is left to somebody else.
ParseAckSilently ==
    /\ ~exited
    /\ reader = "ack"
    /\ reader' = "idle"
    /\ messageState' = "PACKETS"
    /\ UNCHANGED <<remoteVars, egressVars, socketVars, peerVars,
                   isProtocolActive, processed, exited>>

ParseAck ==
    /\ ~exited
    /\ reader = "ack"
    /\ reader' = "idle"
    /\ messageState' = "PACKETS"
    /\ Send("HELLO")
    /\ UNCHANGED <<remoteVars, socketVars, peerVars, isProtocolActive,
                   processed, exited>>

\* The auth-ack does not decrypt or fails an assertion.
RejectAck ==
    /\ ~exited
    /\ reader = "ack"
    /\ Exit
    /\ UNCHANGED <<remoteVars, egressVars, socketVars, peerVars, parserVars,
                   processed>>

---------------------------------------------------------------------------
(* parsePacket, one action for each branch *)

\* Seeded fault: the reader does not wait for the packet in hand.
ReadBusy(m) ==
    /\ ~exited
    /\ messageState = "PACKETS"
    /\ Channel!Deliver
    /\ m = inbox[Len(processed) + 1]

\* Unless a message is still being parsed, the 100 ms reader takes the next.
Read(m) ==
    /\ ~exited
    /\ reader = "idle"
    /\ messageState = "PACKETS"
    /\ Channel!Deliver
    /\ m = inbox[Len(processed) + 1]

ReadHello ==
    /\ Read("HELLO")
    /\ ~isProtocolActive
    /\ isProtocolActive' = TRUE
    /\ knowsVersion' = TRUE
    /\ UNCHANGED <<ackSent, egressVars, socketVars, sentStatus, headerTimers,
                   pings, messageState, reader, exited>>

\* Before the hello RlpxMessageDecoder takes id 16, STATUS, for a PING.
IsPing(m) == m = "PING" \/ (m = "STATUS" /\ ~isProtocolActive)

ReadPing ==
    /\ \E m \in Packets : Read(m) /\ IsPing(m)
    /\ Send("PONG")
    /\ UNCHANGED <<ackSent, socketVars, peerVars, parserVars, exited>>

\* Peer's 'pong' handler: after the hello it ends the process 3 s later.
ReadPong ==
    /\ Read("PONG")
    /\ sentStatus' = (sentStatus \/ knowsVersion)
    /\ UNCHANGED <<ackSent, egressVars, socketVars, knowsVersion, headerTimers,
                   pings, parserVars, exited>>

ReadDisconnect ==
    /\ Read("DISCONNECT")
    /\ ~isProtocolActive
    /\ socket' = "destroyed"
    /\ isConnected' = FALSE
    /\ announced' = TRUE
    /\ UNCHANGED <<ackSent, egressVars, peerVars, parserVars, exited>>

\* The handler sleeps 500 ms before it asks Peer for the STATUS.
ReadStatus ==
    /\ Read("STATUS")
    /\ isProtocolActive
    /\ reader' = "status"
    /\ UNCHANGED <<ackSent, egressVars, socketVars, peerVars, messageState,
                   isProtocolActive, exited>>

\* The request is answered at once; 1500 ms later we ask for headers too.
ReadGetBlockHeaders ==
    /\ Read("GET_BLOCK_HEADERS")
    /\ isProtocolActive
    /\ Send("SEND_BLOCK_HEADERS")
    /\ headerTimers' = headerTimers + 1
    /\ UNCHANGED <<ackSent, socketVars, knowsVersion, sentStatus, pings,
                   parserVars, exited>>

ReadBlockHeaders ==
    /\ Read("SEND_BLOCK_HEADERS")
    /\ isProtocolActive
    /\ UNCHANGED <<ackSent, egressVars, socketVars, peerVars, parserVars,
                   exited>>

\* parsePacket throws: the error callback ends the process.
ReadUnexpected ==
    /\ \E m \in (IF isProtocolActive
                 THEN {"HELLO", "DISCONNECT", "OTHER"}
                 ELSE {"GET_BLOCK_HEADERS", "SEND_BLOCK_HEADERS", "OTHER"}) :
         Read(m)
    /\ Exit
    /\ UNCHANGED <<ackSent, egressVars, socketVars, peerVars, parserVars>>

ReadPacket ==
    \/ ReadHello \/ ReadPing \/ ReadPong \/ ReadDisconnect \/ ReadStatus
    \/ ReadGetBlockHeaders \/ ReadBlockHeaders \/ ReadUnexpected

---------------------------------------------------------------------------
(* Timers and the application *)

\* Seeded fault: the handler gives up, with the reader taken, once a timeout
\* was announced.
AnswerStatusUnlessTimeout ==
    /\ ~exited
    /\ reader = "status"
    /\ ~announced
    /\ Send("STATUS")
    /\ reader' = "idle"
    /\ UNCHANGED <<remoteVars, socketVars, peerVars, messageState,
                   isProtocolActive, processed, exited>>

\* sleep(500) is over: emit 'sendStatus', then the reader is free again.
AnswerStatus ==
    /\ ~exited
    /\ reader = "status"
    /\ Send("STATUS")
    /\ reader' = "idle"
    /\ UNCHANGED <<remoteVars, socketVars, peerVars, messageState,
                   isProtocolActive, processed, exited>>

\* Seeded fault: the timer is an interval.
RequestBlockHeadersAgain ==
    /\ ~exited
    /\ headerTimers > 0
    /\ Send("GET_BLOCK_HEADERS")
    /\ UNCHANGED <<remoteVars, socketVars, peerVars, parserVars, processed,
                   exited>>

\* sleep(1500) is over: emit 'requestBlockHeaders'.
RequestBlockHeaders ==
    /\ ~exited
    /\ headerTimers > 0
    /\ headerTimers' = headerTimers - 1
    /\ Send("GET_BLOCK_HEADERS")
    /\ UNCHANGED <<remoteVars, socketVars, knowsVersion, sentStatus, pings,
                   parserVars, processed, exited>>

\* sleep(3000) is over.
ExitAfterPong ==
    /\ ~exited
    /\ sentStatus
    /\ Exit
    /\ UNCHANGED <<remoteVars, egressVars, socketVars, peerVars, parserVars,
                   processed>>

\* Peer.sendMessage(PING), once there are frame keys
Ping ==
    /\ ~exited
    /\ messageState = "PACKETS"
    /\ pings < MaxPings
    /\ pings' = pings + 1
    /\ Send("PING")
    /\ UNCHANGED <<remoteVars, socketVars, knowsVersion, sentStatus,
                   headerTimers, parserVars, processed, exited>>

---------------------------------------------------------------------------
(* The socket *)

\* 10 s of silence: the socket stays as it is.
Timeout ==
    /\ ~exited
    /\ socket = "open"
    /\ announced' = TRUE
    /\ UNCHANGED <<remoteVars, egressVars, socket, isConnected, peerVars,
                   parserVars, processed, exited>>

\* 'close', after either side closed: PeerConnection's, then Peer's listener
Close ==
    /\ ~exited
    /\ socket \in {"open", "destroyed"}
    /\ socket' = "closed"
    /\ announced' = TRUE
    /\ Exit
    /\ UNCHANGED <<remoteVars, egressVars, isConnected, peerVars, parserVars,
                   processed>>

Next ==
    \/ Connected \/ ConnectFails \/ SendAuth
    \/ RemoteAcks \/ RemoteSends
    \/ ReadAck \/ ParseAck \/ RejectAck
    \/ ReadPacket
    \/ AnswerStatus \/ RequestBlockHeaders \/ ExitAfterPong
    \/ Ping
    \/ Timeout \/ Close

(* The reader's interval and every sleep fire, the awaited decryption       *)
(* settles, and a destroyed socket is closed.  The application, the remote  *)
(* and the network owe nothing.                                             *)
Fairness ==
    /\ WF_vars(ReadAck) /\ WF_vars(ParseAck \/ RejectAck)
    /\ WF_vars(ReadPacket)
    /\ WF_vars(AnswerStatus) /\ WF_vars(RequestBlockHeaders)
    /\ WF_vars(ExitAfterPong)
    /\ WF_vars(socket = "destroyed" /\ Close)

Spec == Init /\ [][Next]_vars /\ Fairness

---------------------------------------------------------------------------
(* Properties *)

FrameTypes == {"HELLO", "PING", "PONG", "STATUS", "GET_BLOCK_HEADERS",
               "SEND_BLOCK_HEADERS"}
Frames == [type : FrameTypes, seq : Nat \ {0}]

TypeOK ==
    /\ socket \in {"connecting", "open", "destroyed", "closed"}
    /\ isConnected \in BOOLEAN
    /\ messageState \in {"AUTH", "ACK", "PACKETS"}
    /\ reader \in {"idle", "ack", "status"}
    /\ isProtocolActive \in BOOLEAN
    /\ knowsVersion \in BOOLEAN
    /\ sentStatus \in BOOLEAN
    /\ headerTimers \in Nat
    /\ encoded \in Nat
    /\ wire \in Seq(Frames)
    /\ announced \in BOOLEAN
    /\ exited \in BOOLEAN
    /\ ackSent \in BOOLEAN
    /\ inbox \in Seq(Packets)
    /\ processed \in Seq(Packets)
    /\ pings \in 0 .. MaxPings

FramesOf(types) == {k \in DOMAIN wire : wire[k].type \in types}
Count(type) == Cardinality(FramesOf({type}))

\* The remote can verify what it gets: the frames on the wire are the first
\* frames the egress MAC went through, none missing and none out of order
\* (EncodeFrame's running MAC against PeerConnection.sendMessage's guard).
EgressInOrder == \A k \in 1 .. Len(wire) : wire[k].seq = k

\* The first frame a session writes is its HELLO (CommunicationState.ts:125-138).
HelloFirst == wire # <<>> => wire[1].type = "HELLO"

\* The reply a packet is owed, told by whether a HELLO came before it.
Reply(i) ==
    LET active == \E j \in 1 .. i : processed[j] = "HELLO"
    IN  CASE processed[i] = "PING" -> "PONG"
          [] processed[i] = "STATUS" -> IF active THEN "STATUS" ELSE "PONG"
          [] processed[i] = "GET_BLOCK_HEADERS" /\ active -> "SEND_BLOCK_HEADERS"
          [] OTHER -> "none"

Owed == {i \in DOMAIN processed : Reply(i) # "none"}

Replies == FramesOf({"PONG", "STATUS", "SEND_BLOCK_HEADERS"})

Before(positions, k) == Cardinality({j \in positions : j < k})

\* Replies leave in the order of the packets they answer, although a STATUS
\* is answered half a second after it was read (PeerConnection.isReading): the
\* n-th reply written is that to the n-th packet that is owed one.
ReplyOrder ==
    \A k \in Replies : \E i \in Owed :
        /\ wire[k].type = Reply(i)
        /\ Before(Replies, k) = Before(Owed, i)

\* The block headers we ask for follow those we sent: never more requests
\* than answers, and the timer of each answer fires once
\* (CommunicationState.ts:98-100).
RequestsFollowAnswers ==
    /\ Count("GET_BLOCK_HEADERS") <= Count("SEND_BLOCK_HEADERS")
    /\ isConnected => Count("GET_BLOCK_HEADERS") + headerTimers
                        = Count("SEND_BLOCK_HEADERS")

\* After a DISCONNECT nothing is written to the destroyed socket, whatever
\* timers, queued packets or application calls are still to come
\* (PeerConnection.ts:46-52, 89).
NoWriteAfterDisconnect == [][wire' # wire => socket = "open"]_vars

\* Every packet the remote gets through is read and answered, unless the
\* process ends.
RepliesSent ==
    \A n \in 1 .. MaxMessages :
        Len(inbox) >= n ~> \/ exited
                           \/ /\ Len(processed) >= n
                              /\ Cardinality(Replies) = Cardinality(Owed)

\* "Once a connection is established, a Status message must be sent."
StatusSent ==
    (isProtocolActive /\ ~exited) ~> (Count("STATUS") > 0 \/ exited)
===========================================================================
