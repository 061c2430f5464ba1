--------------------------- MODULE RlpxFraming ----------------------------
(***************************************************************************)
(* The receive path of one RLPx connection, from the bytes TCP hands to    *)
(* PeerConnection's 'data' handler up to the messages handed to the packet *)
(* handler: MessageQueue (which cuts the byte stream at its limit), the    *)
(* 100 ms reader of PeerConnection, PeerConnectionState.parseAck and       *)
(* FrameCommunication.decode (which moves the limit).                      *)
(*                                                                         *)
(* Bytes are positions in the remote's stream: the queue holds the         *)
(* positions consumed .. received-1.  The ingress MAC is a running hash,   *)
(* so a header or body verifies exactly when it is made of the bytes of    *)
(* the next frame that has not been authenticated yet.                     *)
(***************************************************************************)
EXTENDS Integers, Sequences

CONSTANTS
    HeaderSize,     \* bytes of a frame header with its MAC (32)
    MacSize,        \* bytes of a body MAC (16)
    Block,          \* a body is padded to a multiple of this (16)
    Radix,          \* values of one byte (256)
    AckSizes,       \* sizes a remote may announce for its auth-ack
    BodySizes,      \* sizes of the messages the remote frames
    MaxFrames,      \* bound: frames the remote writes
    MinFirstChunk   \* least number of bytes in the first 'data' event

ASSUME SizesAssumption ==
    /\ HeaderSize \in Nat \ {0}
    /\ MacSize \in Nat \ {0}
    /\ Block \in Nat \ {0}
    /\ Radix \in Nat \ {0}
    /\ BodySizes \subseteq Nat \ {0}
    /\ MaxFrames \in Nat
    /\ MinFirstChunk \in Nat \ {0}

\* EIP-8 sizes: announced in two bytes that the queue reads as signed.
ASSUME AckAssumption ==
    AckSizes \subseteq {n \in Nat \ {0} : 2 * n < Radix * Radix}

\* A frame announces its size in three bytes, which decode reads as signed.
\* encodeHeader throws for a message of more than 2^16 bytes: no frame is
\* written, and the size read is never negative.
ASSUME BodyAssumption ==
    BodySizes \subseteq {n \in Nat \ {0} : 2 * n < Radix * Radix * Radix}

VARIABLES
    ackSize,        \* size announced in the remote's auth-ack, 0 before it
    frames,         \* frames the remote wrote: where each starts, its size
    written,        \* bytes the remote wrote
    received,       \* bytes handed to MessageQueue.add
    consumed,       \* bytes MessageQueue.read has cut off
    limit,          \* MessageQueue.limit, 0 when undefined
    isReady,        \* MessageQueue.isReady
    isReading,      \* PeerConnection.isReading
    parsing,        \* the auth-ack whose decryption is awaited, if any
    messageState,   \* PeerConnectionState.state, once AUTH was sent
    frameState,     \* FrameCommunication.state
    ingress,        \* the frame the ingress MAC is at
    delivered,      \* messages handed to the packet handler
    failed          \* the error callback ran: process.exit(0)

remoteVars == <<ackSize, frames, written>>
queueVars  == <<received, consumed, limit, isReady>>
frameVars  == <<frameState, ingress, delivered>>
vars == <<remoteVars, queueVars, frameVars, isReading, parsing, messageState,
          failed>>

PrefixSize == 2

NoMessage == [lo |-> 0, hi |-> 0]

---------------------------------------------------------------------------
(* Sizes, on both sides of the wire *)

\* EncodeFrame.getPadding
Padding(size) == IF size % Block = 0 THEN 0 ELSE Block - (size % Block)

Padded(size) == size + Padding(size)

FrameSize(size) == HeaderSize + Padded(size) + MacSize

\* Seeded faults: the padding of the body is forgotten; its MAC is taken off.
BodyLimitUnpadded(size) == size + MacSize
BodyLimitWithoutMac(size) == size - MacSize

\* FrameCommunication.decode: what must follow a header before the body is read
BodyLimit(size) ==
    LET nextSize == size + MacSize
    IN  IF size % Block > 0 THEN nextSize + (Block - (size % Block))
                            ELSE nextSize

\* getNumberFromBuffer(data.slice(0, 2)): a chunk of one byte gives the high
\* byte alone; the number read is signed.
Signed(value, range) == IF 2 * value < range THEN value ELSE value - range

AnnouncedSize(chunk) ==
    IF chunk = 1 THEN Signed(ackSize \div Radix, Radix)
                 ELSE Signed(ackSize, Radix * Radix)

\* getNumberFromBuffer(header.slice(0, 3))
AnnouncedBody == Signed(frames[ingress].size, Radix * Radix * Radix)

---------------------------------------------------------------------------
Init ==
    /\ ackSize = 0
    /\ frames = <<>>
    /\ written = 0
    /\ received = 0
    /\ consumed = 0
    /\ limit = 0
    /\ isReady = FALSE
    /\ isReading = FALSE
    /\ parsing = NoMessage
    /\ messageState = "ACK"
    /\ frameState = "HEADER"
    /\ ingress = 1
    /\ delivered = <<>>
    /\ failed = FALSE

(* The remote node: its auth-ack, then frames, which may follow at once.   *)

WriteAck ==
    /\ ackSize = 0
    /\ \E n \in AckSizes :
         /\ ackSize' = n
         /\ written' = PrefixSize + n
    /\ UNCHANGED <<frames, queueVars, frameVars, isReading, parsing,
                   messageState, failed>>

\* EncodeFrame.encodeHeader and encodeBody
WriteFrame ==
    /\ ackSize # 0
    /\ Len(frames) < MaxFrames
    /\ \E size \in BodySizes :
         /\ frames' = Append(frames, [start |-> written, size |-> size])
         /\ written' = written + FrameSize(size)
    /\ UNCHANGED <<ackSize, queueVars, frameVars, isReading, parsing,
                   messageState, failed>>

(* The 'data' event: TCP hands over any number of the bytes in flight.     *)

Add(chunk) ==
    /\ limit' = IF limit = 0 THEN AnnouncedSize(chunk) + PrefixSize ELSE limit
    /\ received' = received + chunk
    /\ isReady' = TRUE
    /\ UNCHANGED consumed

Data ==
    /\ ~failed
    /\ \E chunk \in 1 .. (written - received) :
         /\ received = 0 => chunk >= MinFirstChunk
         /\ Add(chunk)
    /\ UNCHANGED <<remoteVars, frameVars, isReading, parsing, messageState,
                   failed>>

---------------------------------------------------------------------------
(* The reader: every 100 ms, unless a message is still being parsed, read  *)
(* cuts limit bytes off the queue once they are there.                     *)

\* the message read returns
Message == [lo |-> consumed, hi |-> consumed + limit]

Read ==
    /\ ~failed
    /\ ~isReading
    /\ isReady
    /\ limit # 0
    /\ limit <= received - consumed
    /\ consumed' = consumed + limit
    /\ UNCHANGED <<received, isReady>>

ReadAck ==
    /\ messageState = "ACK"
    /\ Read
    /\ isReading' = TRUE
    /\ parsing' = Message
    /\ UNCHANGED <<remoteVars, limit, frameVars, messageState, failed>>

\* The decryption parseAck awaits succeeds on the whole auth-ack only; then
\* the frame keys are set up and the reader waits for a header.
ParseAck ==
    /\ ~failed
    /\ parsing # NoMessage
    /\ parsing' = NoMessage
    /\ isReading' = FALSE
    /\ IF parsing = [lo |-> 0, hi |-> PrefixSize + ackSize]
       THEN /\ messageState' = "PACKETS"
            /\ limit' = HeaderSize
            /\ UNCHANGED failed
       ELSE /\ failed' = TRUE
            /\ UNCHANGED <<messageState, limit>>
    /\ UNCHANGED <<remoteVars, received, consumed, isReady, frameVars>>

\* m starts with the header of the frame the ingress MAC is at.
HeaderVerifies(m) ==
    /\ ingress <= Len(frames)
    /\ m.lo = frames[ingress].start
    /\ m.hi - m.lo >= HeaderSize

\* After its first skip bytes, m is the body of that frame and its MAC.
BodyVerifies(m, skip) ==
    /\ ingress <= Len(frames)
    /\ m.lo + skip = frames[ingress].start + HeaderSize
    /\ m.hi = m.lo + skip + Padded(frames[ingress].size) + MacSize

\* The header announces a body that cannot all be in m.
BodyToCome(m) ==
    (m.hi - m.lo) - HeaderSize < AnnouncedBody + MacSize

MessageVerifies(m) ==
    IF frameState = "HEADER"
    THEN HeaderVerifies(m) /\ (BodyToCome(m) \/ BodyVerifies(m, HeaderSize))
    ELSE BodyVerifies(m, 0)

\* decode in state HEADER when the body has yet to come
AwaitBody ==
    /\ frameState' = "BODY"
    /\ limit' = BodyLimit(AnnouncedBody)
    /\ UNCHANGED <<ingress, delivered, isReading, failed>>

\* Seeded faults: the MAC is handed on; the next limit is not set.
DeliverBodyAndMac(m, skip) ==
    /\ delivered' = Append(delivered,
                           [id |-> ingress, length |-> (m.hi - m.lo) - skip])
    /\ ingress' = ingress + 1
    /\ frameState' = "HEADER"
    /\ limit' = HeaderSize
    /\ isReading' \in BOOLEAN
    /\ UNCHANGED failed

DeliverBodyKeepLimit(m, skip) ==
    /\ delivered' = Append(delivered,
                           [id |-> ingress,
                            length |-> (m.hi - m.lo) - skip - MacSize])
    /\ ingress' = ingress + 1
    /\ frameState' = "HEADER"
    /\ isReading' \in BOOLEAN
    /\ UNCHANGED <<limit, failed>>

\* parseBody hands on all of the body, padding included; the packet handler
\* may then sleep (for a STATUS it does), which keeps isReading set.
DeliverBody(m, skip) ==
    /\ delivered' = Append(delivered,
                           [id |-> ingress,
                            length |-> (m.hi - m.lo) - skip - MacSize])
    /\ ingress' = ingress + 1
    /\ frameState' = "HEADER"
    /\ limit' = HeaderSize
    /\ isReading' \in BOOLEAN
    /\ UNCHANGED failed

\* decode throws: a MAC does not match.
Abort ==
    /\ failed' = TRUE
    /\ UNCHANGED <<frameVars, limit, isReading>>

ReadFrame ==
    /\ messageState = "PACKETS"
    /\ Read
    /\ IF ~MessageVerifies(Message) THEN Abort
       ELSE IF frameState = "BODY" THEN DeliverBody(Message, 0)
       ELSE IF BodyToCome(Message) THEN AwaitBody
       ELSE DeliverBody(Message, HeaderSize)
    /\ UNCHANGED <<remoteVars, parsing, messageState>>

\* Seeded fault: isReading is not cleared.
FinishPacketStuck ==
    /\ ~failed
    /\ isReading
    /\ parsing = NoMessage
    /\ UNCHANGED vars

\* The packet handler's promise settles.
FinishPacket ==
    /\ ~failed
    /\ isReading
    /\ parsing = NoMessage
    /\ isReading' = FALSE
    /\ UNCHANGED <<remoteVars, queueVars, frameVars, parsing, messageState,
                   failed>>

Next ==
    \/ WriteAck \/ WriteFrame
    \/ Data
    \/ ReadAck \/ ParseAck
    \/ ReadFrame \/ FinishPacket

(* TCP delivers what it accepted, the 100 ms timer keeps firing and awaited *)
(* promises settle; the remote may stop writing whenever it likes.          *)
Fairness ==
    /\ WF_vars(Data)
    /\ WF_vars(ReadAck) /\ WF_vars(ParseAck)
    /\ WF_vars(ReadFrame) /\ WF_vars(FinishPacket)

Safety == Init /\ [][Next]_vars

Spec == Safety /\ Fairness

---------------------------------------------------------------------------
(* Properties *)

FrameRecords == [start : Nat, size : BodySizes]
DeliveredRecords == [id : Nat, length : Nat]
Spans == [lo : Nat, hi : Nat]

TypeOK ==
    /\ ackSize \in AckSizes \cup {0}
    /\ frames \in Seq(FrameRecords)
    /\ written \in Nat
    /\ received \in Nat
    /\ consumed \in Nat
    /\ limit \in Nat
    /\ isReady \in BOOLEAN
    /\ isReading \in BOOLEAN
    /\ parsing \in Spans
    /\ messageState \in {"ACK", "PACKETS"}
    /\ frameState \in {"HEADER", "BODY"}
    /\ ingress \in Nat \ {0}
    /\ delivered \in Seq(DeliveredRecords)
    /\ failed \in BOOLEAN

\* However TCP cuts or joins the remote's bytes, no auth-ack fails to decrypt
\* and no MAC fails to verify, so the error callback never ends the process
\* (PeerConnection.ts:60-67).
NoFramingError == ~failed

\* What the packet handler got is the remote's frames in order, none lost,
\* doubled or merged, each as long as its padded body.
DeliveredInOrder ==
    /\ Len(delivered) <= Len(frames)
    /\ \A i \in 1 .. Len(delivered) :
         delivered[i] = [id |-> i, length |-> Padded(frames[i].size)]

\* A body reaches the packet handler at its own length, without the padding
\* of its frame, as FrameCommunication.unit.test.ts:92-106 expects.  It does not
\* hold: see the README.
DeliveredUnpadded ==
    \A i \in 1 .. Len(delivered) :
        delivered[i].length = frames[delivered[i].id].size

(* The inductive invariant.  Frames lie one behind the other after the      *)
(* auth-ack; between two reads the queue starts at the start of the         *)
(* auth-ack, of a header or of a body, and the limit is the length of       *)
(* exactly that part.                                                       *)

\* where frame i starts, or will start if it is the next to be written
NextStart(i) == IF i <= Len(frames) THEN frames[i].start ELSE written

StreamLaidOut ==
    /\ ackSize = 0 => written = 0 /\ frames = <<>>
    /\ ackSize # 0 => NextStart(1) = PrefixSize + ackSize
    /\ \A i \in 1 .. Len(frames) :
         NextStart(i + 1) = frames[i].start + FrameSize(frames[i].size)

BytesInOrder == consumed <= received /\ received <= written

HandshakePhase ==
    messageState = "ACK" =>
        /\ frameState = "HEADER" /\ ingress = 1 /\ delivered = <<>>
        /\ IF received = 0 THEN limit = 0
           ELSE ackSize # 0 /\ limit = PrefixSize + ackSize
        /\ \/ parsing = NoMessage /\ consumed = 0 /\ ~isReading
           \/ /\ parsing = [lo |-> 0, hi |-> PrefixSize + ackSize]
              /\ consumed = PrefixSize + ackSize /\ received # 0 /\ isReading

PacketPhase ==
    messageState = "PACKETS" =>
        /\ ackSize # 0 /\ received # 0 /\ parsing = NoMessage
        /\ Len(delivered) = ingress - 1 /\ ingress <= Len(frames) + 1
        /\ \/ /\ frameState = "HEADER"
              /\ consumed = NextStart(ingress) /\ limit = HeaderSize
           \/ /\ frameState = "BODY" /\ ingress <= Len(frames)
              /\ consumed = NextStart(ingress) + HeaderSize
              /\ limit = Padded(frames[ingress].size) + MacSize

QueueAligned ==
    /\ TypeOK
    /\ StreamLaidOut
    /\ BytesInOrder
    /\ HandshakePhase
    /\ PacketPhase
    /\ DeliveredInOrder
    /\ NoFramingError

\* The framing layer implements the ordered message channel.
Channel == INSTANCE MessageChannel WITH
    Messages  <- [id : 1 .. MaxFrames, length : {Padded(b) : b \in BodySizes}],
    sent      <- [i \in 1 .. Len(frames) |->
                    [id |-> i, length |-> Padded(frames[i].size)]],
    delivered <- delivered

ImplementsChannel == Channel!ChannelSpec
===========================================================================
