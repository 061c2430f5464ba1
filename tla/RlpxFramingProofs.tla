------------------------- MODULE RlpxFramingProofs -------------------------
(***************************************************************************)
(* For every header, MAC and block size, every set of auth-ack and message *)
(* sizes and any number of frames: if the first 'data' event carries at    *)
(* least two bytes, the receive path never misreads the stream.            *)
(***************************************************************************)
EXTENDS RlpxFraming, TLAPS

\* The whole two-byte prefix comes with the first chunk.
WholePrefix == MinFirstChunk >= PrefixSize

---------------------------------------------------------------------------
(* Sizes *)

\* EncodeFrame.getPadding fills up to the next multiple of the block size.
LEMMA PaddingNat ==
    ASSUME NEW size \in BodySizes
    PROVE  /\ size \in Nat \ {0}
           /\ size % Block \in 0 .. (Block - 1)
           /\ Padding(size) \in Nat
           /\ Padded(size) \in Nat \ {0}
           /\ FrameSize(size) \in Nat \ {0}
  <1>1. size \in Nat \ {0} /\ Block \in Nat \ {0}
    BY SizesAssumption
  <1>2. size % Block \in 0 .. (Block - 1)
    BY <1>1
  <1>3. Padding(size) \in Nat
    BY <1>1, <1>2 DEF Padding
  <1>4. Padded(size) \in Nat \ {0}
    BY <1>1, <1>3 DEF Padded
  <1>5. FrameSize(size) \in Nat \ {0}
    BY <1>4, SizesAssumption DEF FrameSize
  <1> QED BY <1>1, <1>2, <1>3, <1>4, <1>5

\* The receiver waits for exactly what the sender padded (FrameCommunication
\* .decode against EncodeFrame.getPadding).
LEMMA PaddingAgrees ==
    ASSUME NEW size \in BodySizes
    PROVE  BodyLimit(size) = Padded(size) + MacSize
  <1>1. size \in Nat \ {0} /\ size % Block \in 0 .. (Block - 1)
    BY PaddingNat
  <1>2. MacSize \in Nat /\ Block \in Nat
    BY SizesAssumption
  <1> QED BY <1>1, <1>2 DEF BodyLimit, Padded, Padding

\* Two bytes give the announced size back.
LEMMA AnnouncedWhole ==
    ASSUME NEW chunk \in Nat, chunk >= PrefixSize, ackSize \in AckSizes
    PROVE  AnnouncedSize(chunk) = ackSize
  <1>1. chunk # 1
    BY DEF PrefixSize
  <1>2. 2 * ackSize < Radix * Radix
    BY AckAssumption
  <1> QED BY <1>1, <1>2 DEF AnnouncedSize, Signed

\* So do three bytes.
LEMMA AnnouncedBodyWhole ==
    ASSUME frames[ingress].size \in BodySizes
    PROVE  AnnouncedBody = frames[ingress].size
  <1>1. 2 * frames[ingress].size < Radix * Radix * Radix
    BY BodyAssumption
  <1> QED BY <1>1 DEF AnnouncedBody, Signed

---------------------------------------------------------------------------
(* QueueAligned is inductive *)

\* A new frame starts where the next frame was to start.
LEMMA NextStartKept ==
    ASSUME QueueAligned, WriteFrame, NEW i \in 1 .. (Len(frames) + 1)
    PROVE  NextStart(i)' = NextStart(i)
  <1>1. PICK size \in BodySizes :
          frames' = Append(frames, [start |-> written, size |-> size])
    BY DEF WriteFrame
  <1>2. frames \in Seq(FrameRecords) /\ written \in Nat
    BY DEF QueueAligned, TypeOK
  <1>3. [start |-> written, size |-> size] \in FrameRecords
    BY <1>2 DEF FrameRecords
  <1>4. /\ Len(frames') = Len(frames) + 1
        /\ \A j \in 1 .. Len(frames) : frames'[j] = frames[j]
        /\ frames'[Len(frames) + 1] = [start |-> written, size |-> size]
    BY <1>1, <1>2, <1>3
  <1> QED BY <1>2, <1>4 DEF NextStart

\* A frame of an admissible body is a frame record.
LEMMA FrameTyped ==
    ASSUME TypeOK, NEW i \in 1 .. Len(frames)
    PROVE  /\ frames[i].start \in Nat
           /\ frames[i].size \in BodySizes
  <1>1. frames \in Seq(FrameRecords)
    BY DEF TypeOK
  <1>2. frames[i] \in FrameRecords
    BY <1>1
  <1> QED BY <1>2 DEF FrameRecords

\* A new MessageQueue is aligned: nothing written, nothing received.
LEMMA InitAligned == Init => QueueAligned
  <1> SUFFICES ASSUME Init PROVE QueueAligned
    OBVIOUS
  <1>1. TypeOK
    <2>1. frames \in Seq(FrameRecords) /\ delivered \in Seq(DeliveredRecords)
      BY DEF Init
    <2>2. parsing \in Spans
      BY DEF Init, NoMessage, Spans
    <2>3. isReady \in BOOLEAN /\ isReading \in BOOLEAN /\ failed \in BOOLEAN
      BY Zenon DEF Init
    <2>4. /\ ackSize \in AckSizes \cup {0}
          /\ written \in Nat /\ received \in Nat /\ consumed \in Nat
          /\ limit \in Nat /\ ingress \in Nat \ {0}
          /\ messageState \in {"ACK", "PACKETS"}
          /\ frameState \in {"HEADER", "BODY"}
      BY DEF Init
    <2> QED BY <2>1, <2>2, <2>3, <2>4 DEF TypeOK
  <1>2. StreamLaidOut /\ BytesInOrder
    BY DEF Init, StreamLaidOut, BytesInOrder
  <1>3. HandshakePhase /\ PacketPhase
    BY DEF Init, HandshakePhase, PacketPhase
  <1>4. DeliveredInOrder /\ NoFramingError
    BY DEF Init, DeliveredInOrder, NoFramingError
  <1> QED BY <1>1, <1>2, <1>3, <1>4 DEF QueueAligned

\* The remote's auth-ack is what an unread queue waits for.
LEMMA WriteAckAligned ==
    ASSUME QueueAligned, WriteAck
    PROVE  QueueAligned'
  <1> USE DEF QueueAligned
  <1>1. PICK n \in AckSizes : ackSize' = n /\ written' = PrefixSize + n
    BY DEF WriteAck
  <1>2. ackSize = 0 /\ written = 0 /\ frames = <<>> /\ n \in Nat \ {0}
    BY AckAssumption DEF WriteAck, StreamLaidOut
  <1>3. UNCHANGED <<frames, queueVars, frameVars, isReading, parsing,
                    messageState, failed>>
    BY DEF WriteAck
  <1>4. received = 0 /\ messageState = "ACK"
    BY <1>2 DEF BytesInOrder, PacketPhase, TypeOK
  <1>5. TypeOK'
    BY <1>1, <1>2, <1>3 DEF TypeOK, queueVars, frameVars, PrefixSize
  <1>6. StreamLaidOut'
    BY <1>1, <1>2, <1>3 DEF StreamLaidOut, NextStart
  <1>7. BytesInOrder'
    BY <1>1, <1>2, <1>3, <1>4 DEF BytesInOrder, queueVars, TypeOK, PrefixSize
  <1>8. HandshakePhase'
    BY <1>1, <1>2, <1>3, <1>4
       DEF HandshakePhase, queueVars, frameVars, TypeOK
  <1>9. PacketPhase' /\ DeliveredInOrder' /\ NoFramingError'
    BY <1>2, <1>3, <1>4
       DEF PacketPhase, DeliveredInOrder, NoFramingError, queueVars, frameVars
  <1> QED BY <1>5, <1>6, <1>7, <1>8, <1>9

\* A further frame of the remote lies behind all that was read.
LEMMA WriteFrameAligned ==
    ASSUME QueueAligned, WriteFrame
    PROVE  QueueAligned'
  <1> USE DEF QueueAligned
  <1>1. PICK size \in BodySizes :
          /\ frames' = Append(frames, [start |-> written, size |-> size])
          /\ written' = written + FrameSize(size)
    BY DEF WriteFrame
  <1>2. frames \in Seq(FrameRecords) /\ written \in Nat /\ ackSize # 0
    BY DEF TypeOK, WriteFrame
  <1>3. [start |-> written, size |-> size] \in FrameRecords
    BY <1>2 DEF FrameRecords
  <1>4. /\ frames' \in Seq(FrameRecords)
        /\ Len(frames') = Len(frames) + 1
        /\ \A j \in 1 .. Len(frames) : frames'[j] = frames[j]
        /\ frames'[Len(frames) + 1] = [start |-> written, size |-> size]
    BY <1>1, <1>2, <1>3
  <1>5. FrameSize(size) \in Nat \ {0}
    BY PaddingNat
  <1>6. UNCHANGED <<ackSize, queueVars, frameVars, isReading, parsing,
                    messageState, failed>>
    BY DEF WriteFrame
  <1>7. \A i \in 1 .. (Len(frames) + 1) : NextStart(i)' = NextStart(i)
    BY NextStartKept
  <1>8. TypeOK'
    BY <1>1, <1>2, <1>4, <1>5, <1>6 DEF TypeOK, queueVars, frameVars
  <1>9. StreamLaidOut'
    <2>1. NextStart(1)' = NextStart(1)
      BY <1>2, <1>7
    <2>2. ASSUME NEW i \in 1 .. Len(frames)
          PROVE  NextStart(i + 1)' = frames'[i].start + FrameSize(frames'[i].size)
      BY <1>2, <1>4, <1>7 DEF StreamLaidOut
    <2>3. ASSUME NEW i \in 1 .. Len(frames')
          PROVE  NextStart(i + 1)' = frames'[i].start + FrameSize(frames'[i].size)
      <3>1. CASE i \in 1 .. Len(frames)
        BY <2>2, <3>1
      <3>2. CASE i = Len(frames) + 1
        BY <3>2, <1>1, <1>2, <1>4 DEF NextStart
      <3> QED BY <3>1, <3>2, <1>2, <1>4
    <2> QED BY <2>1, <2>3, <1>2, <1>6 DEF StreamLaidOut
  <1>10. BytesInOrder'
    BY <1>1, <1>2, <1>5, <1>6 DEF BytesInOrder, queueVars, TypeOK
  <1>11. HandshakePhase'
    BY <1>6 DEF HandshakePhase, queueVars, frameVars
  <1>12. PacketPhase'
    <2>1. CASE messageState = "PACKETS"
      <3>1. ingress \in 1 .. (Len(frames) + 1)
        BY <2>1, <1>2 DEF PacketPhase, TypeOK
      <3>2. NextStart(ingress)' = NextStart(ingress)
        BY <3>1, <1>6, <1>7 DEF frameVars
      <3>3. ingress <= Len(frames) => frames'[ingress] = frames[ingress]
        BY <3>1, <1>4
      <3> QED BY <2>1, <3>1, <3>2, <3>3, <1>2, <1>4, <1>6
              DEF PacketPhase, queueVars, frameVars
    <2>2. CASE messageState # "PACKETS"
      BY <2>2, <1>6 DEF PacketPhase
    <2> QED BY <2>1, <2>2
  <1>13. DeliveredInOrder'
    <2>1. delivered' = delivered /\ Len(delivered) \in Nat
      BY <1>6 DEF frameVars, TypeOK
    <2>2. \A i \in 1 .. Len(delivered) :
            delivered[i] = [id |-> i, length |-> Padded(frames[i].size)]
      BY DEF DeliveredInOrder
    <2>3. \A i \in 1 .. Len(delivered) : frames'[i] = frames[i]
      BY <1>2, <1>4, <2>1 DEF DeliveredInOrder
    <2>4. Len(delivered') <= Len(frames')
      BY <1>2, <1>4, <2>1 DEF DeliveredInOrder
    <2> QED BY <2>1, <2>2, <2>3, <2>4 DEF DeliveredInOrder
  <1>14. NoFramingError'
    BY <1>6 DEF NoFramingError
  <1> QED BY <1>8, <1>9, <1>10, <1>11, <1>12, <1>13, <1>14

\* A chunk on the socket, MessageQueue.add, moves no boundary; the first one
\* sets the limit to the length of the auth-ack.
LEMMA DataAligned ==
    ASSUME WholePrefix, QueueAligned, Data
    PROVE  QueueAligned'
  <1> USE DEF QueueAligned
  <1>1. PICK chunk \in 1 .. (written - received) :
          /\ received = 0 => chunk >= MinFirstChunk
          /\ Add(chunk)
    BY DEF Data
  <1>2. /\ received' = received + chunk
        /\ limit' = IF limit = 0 THEN AnnouncedSize(chunk) + PrefixSize
                    ELSE limit
        /\ isReady' = TRUE
        /\ consumed' = consumed
    BY <1>1 DEF Add
  <1>3. UNCHANGED <<remoteVars, frameVars, isReading, parsing, messageState,
                    failed>>
    BY DEF Data
  <1>4. /\ chunk \in Nat \ {0} /\ received \in Nat /\ written \in Nat
        /\ consumed \in Nat /\ limit \in Nat
        /\ received + chunk <= written
    BY <1>1 DEF TypeOK
  <1>5. ackSize \in AckSizes /\ ackSize \in Nat \ {0}
    BY <1>4, AckAssumption DEF StreamLaidOut, TypeOK
  <1>6. CASE limit = 0
    <2>1. messageState = "ACK" /\ received = 0
      <3>1. ASSUME messageState = "PACKETS" PROVE FALSE
        <4>1. frameState = "BODY" /\ ingress \in 1 .. Len(frames)
          BY <3>1, <1>6, SizesAssumption DEF PacketPhase, TypeOK
        <4>2. frames[ingress].size \in BodySizes
          BY <4>1, FrameTyped DEF TypeOK
        <4>3. limit = Padded(frames[ingress].size) + MacSize
          BY <3>1, <4>1 DEF PacketPhase
        <4>4. Padded(frames[ingress].size) \in Nat \ {0}
          BY <4>2, PaddingNat
        <4> QED BY <4>3, <4>4, <1>6, SizesAssumption
      <3> QED BY <3>1, <1>5, <1>6, <1>4 DEF HandshakePhase, TypeOK, PrefixSize
    <2>2. chunk >= PrefixSize
      BY <2>1, <1>1, <1>4, SizesAssumption DEF WholePrefix, PrefixSize
    <2>3. limit' = PrefixSize + ackSize
      <3>1. AnnouncedSize(chunk) = ackSize
        BY <2>2, <1>4, <1>5, AnnouncedWhole
      <3> QED BY <3>1, <1>2, <1>5, <1>6 DEF PrefixSize
    <2>4. TypeOK' /\ BytesInOrder' /\ NoFramingError'
      BY <2>3, <1>2, <1>3, <1>4, <1>5
         DEF TypeOK, BytesInOrder, NoFramingError, remoteVars, frameVars,
             PrefixSize
    <2>5. StreamLaidOut' /\ DeliveredInOrder'
      BY <1>3 DEF StreamLaidOut, NextStart, DeliveredInOrder, remoteVars,
                  frameVars
    <2>6. HandshakePhase' /\ PacketPhase'
      BY <2>1, <2>3, <1>2, <1>3, <1>4, <1>5
         DEF HandshakePhase, PacketPhase, remoteVars, frameVars
    <2> QED BY <2>4, <2>5, <2>6
  <1>7. CASE limit # 0
    <2>1. limit' = limit /\ received' # 0 /\ (messageState = "ACK" => received # 0)
      BY <1>2, <1>4, <1>7 DEF HandshakePhase
    <2>2. TypeOK' /\ BytesInOrder' /\ NoFramingError'
      BY <2>1, <1>2, <1>3, <1>4 
         DEF TypeOK, BytesInOrder, NoFramingError, remoteVars, frameVars
    <2>3. StreamLaidOut' /\ DeliveredInOrder'
      BY <1>3 DEF StreamLaidOut, NextStart, DeliveredInOrder, remoteVars, frameVars
    <2>4. HandshakePhase'
      BY <2>1, <1>2, <1>3 DEF HandshakePhase, remoteVars, frameVars
    <2>5. PacketPhase'
      BY <2>1, <1>2, <1>3 DEF PacketPhase, NextStart, remoteVars, frameVars
    <2> QED BY <2>2, <2>3, <2>4, <2>5
  <1> QED BY <1>6, <1>7

\* MessageQueue.read takes exactly the auth-ack from the queue.
LEMMA ReadAckAligned ==
    ASSUME QueueAligned, ReadAck
    PROVE  QueueAligned'
  <1> USE DEF QueueAligned
  <1>1. /\ messageState = "ACK" /\ ~isReading /\ limit # 0
        /\ limit <= received - consumed
        /\ consumed' = consumed + limit
        /\ isReading' = TRUE
        /\ parsing' = [lo |-> consumed, hi |-> consumed + limit]
    BY DEF ReadAck, Read, Message
  <1>2. UNCHANGED <<remoteVars, received, isReady, limit, frameVars,
                    messageState, failed>>
    BY DEF ReadAck, Read
  <1>3. /\ received # 0 /\ ackSize # 0 /\ limit = PrefixSize + ackSize
        /\ consumed = 0
    BY <1>1 DEF HandshakePhase
  <1>4. /\ parsing' = [lo |-> 0, hi |-> PrefixSize + ackSize]
        /\ consumed' = PrefixSize + ackSize
        /\ limit \in Nat /\ received \in Nat /\ consumed' <= received
    BY <1>1, <1>3 DEF TypeOK
  <1>5. TypeOK' /\ BytesInOrder'
    BY <1>1, <1>2, <1>3, <1>4
       DEF TypeOK, BytesInOrder, remoteVars, frameVars, Spans
  <1>6. StreamLaidOut' /\ DeliveredInOrder' /\ NoFramingError'
    BY <1>2 DEF StreamLaidOut, NextStart, DeliveredInOrder, NoFramingError,
                remoteVars, frameVars
  <1>7. HandshakePhase' /\ PacketPhase'
    BY <1>1, <1>2, <1>3, <1>4
       DEF HandshakePhase, PacketPhase, remoteVars, frameVars
  <1> QED BY <1>5, <1>6, <1>7

\* parseAck leaves the reader waiting for a header.
LEMMA ParseAckAligned ==
    ASSUME QueueAligned, ParseAck
    PROVE  QueueAligned'
  <1> USE DEF QueueAligned
  <1>1. /\ messageState = "ACK"
        /\ parsing = [lo |-> 0, hi |-> PrefixSize + ackSize]
        /\ consumed = PrefixSize + ackSize /\ received # 0 /\ ackSize # 0
        /\ ingress = 1 /\ frameState = "HEADER" /\ delivered = <<>>
    BY DEF ParseAck, HandshakePhase, PacketPhase, TypeOK
  <1>2. /\ parsing' = NoMessage /\ isReading' = FALSE
        /\ messageState' = "PACKETS" /\ limit' = HeaderSize
        /\ failed' = failed
    BY <1>1 DEF ParseAck
  <1>3. UNCHANGED <<remoteVars, received, consumed, isReady, frameVars>>
    BY DEF ParseAck
  <1>4. TypeOK' /\ BytesInOrder'
    BY <1>2, <1>3, SizesAssumption
       DEF TypeOK, BytesInOrder, remoteVars, frameVars, Spans, NoMessage
  <1>5. StreamLaidOut' /\ DeliveredInOrder' /\ NoFramingError'
    BY <1>2, <1>3 DEF StreamLaidOut, NextStart, DeliveredInOrder,
                      NoFramingError, remoteVars, frameVars
  <1>6. HandshakePhase'
    BY <1>2 DEF HandshakePhase
  <1>7. PacketPhase'
    <2>1. consumed = NextStart(1)
      BY <1>1 DEF StreamLaidOut
    <2>2. frames \in Seq(FrameRecords) /\ Len(frames) \in Nat
      BY DEF TypeOK
    <2> QED BY <2>1, <2>2, <1>1, <1>2, <1>3
            DEF PacketPhase, NextStart, remoteVars, frameVars
  <1> QED BY <1>4, <1>5, <1>6, <1>7

\* What the reader finds when it reads in state PACKETS: with a header due,
\* the header of the next frame; with a body due, that body and its MAC.
LEMMA ReadFrameVerifies ==
    ASSUME QueueAligned, ReadFrame
    PROVE  /\ ingress \in 1 .. Len(frames)
           /\ consumed = NextStart(ingress) + (IF frameState = "BODY"
                                               THEN HeaderSize ELSE 0)
           /\ consumed' = consumed + limit /\ consumed' <= received
           /\ MessageVerifies(Message)
           /\ frameState = "HEADER" => BodyToCome(Message)
  <1> USE DEF QueueAligned
  <1>1. /\ messageState = "PACKETS" /\ limit <= received - consumed
        /\ consumed' = consumed + limit
    BY DEF ReadFrame, Read
  <1>2. /\ consumed \in Nat /\ received \in Nat /\ written \in Nat
        /\ limit \in Nat /\ ingress \in Nat \ {0} /\ Len(frames) \in Nat
        /\ HeaderSize \in Nat \ {0} /\ MacSize \in Nat \ {0}
        /\ received <= written
    BY SizesAssumption DEF TypeOK, BytesInOrder
  <1>3. consumed' <= received
    BY <1>1, <1>2
  <1>4. CASE frameState = "HEADER"
    <2>1. consumed = NextStart(ingress) /\ limit = HeaderSize
      BY <1>1, <1>4 DEF PacketPhase
    <2>2. ingress <= Len(frames)
      BY <2>1, <1>1, <1>2 DEF NextStart
    <2>3. frames[ingress].size \in Nat \ {0} /\ frames[ingress].start \in Nat
      BY <2>2, <1>2, FrameTyped, PaddingNat
    <2>4. consumed = frames[ingress].start
      BY <2>1, <2>2 DEF NextStart
    <2>5. AnnouncedBody = frames[ingress].size
      BY <2>2, <1>2, FrameTyped, AnnouncedBodyWhole
    <2>6. HeaderVerifies(Message) /\ BodyToCome(Message)
      BY <2>1, <2>2, <2>3, <2>4, <2>5, <1>2 DEF HeaderVerifies, BodyToCome, Message
    <2> QED BY <2>1, <2>2, <2>6, <1>1, <1>2, <1>3, <1>4 DEF MessageVerifies
  <1>5. CASE frameState = "BODY"
    <2>1. /\ ingress <= Len(frames)
          /\ consumed = NextStart(ingress) + HeaderSize
          /\ limit = Padded(frames[ingress].size) + MacSize
      BY <1>1, <1>5 DEF PacketPhase
    <2>2. Padded(frames[ingress].size) \in Nat /\ frames[ingress].start \in Nat
      BY <2>1, <1>2, FrameTyped, PaddingNat
    <2>3. consumed = frames[ingress].start + HeaderSize
      BY <2>1 DEF NextStart
    <2>4. BodyVerifies(Message, 0)
      BY <2>1, <2>2, <2>3, <1>2 DEF BodyVerifies, Message
    <2> QED BY <2>1, <2>4, <1>1, <1>2, <1>3, <1>5 DEF MessageVerifies
  <1> QED BY <1>4, <1>5 DEF TypeOK

\* A read in state BODY hands on the padded body the header announced.
LEMMA ReadBodyDelivers ==
    ASSUME QueueAligned, ReadFrame, frameState = "BODY"
    PROVE  /\ delivered' = Append(delivered,
                    [id |-> ingress, length |-> Padded(frames[ingress].size)])
           /\ ingress' = ingress + 1 /\ frameState' = "HEADER"
           /\ limit' = HeaderSize /\ isReading' \in BOOLEAN
           /\ failed' = failed
  <1> USE DEF QueueAligned
  <1>1. /\ ingress \in 1 .. Len(frames) /\ MessageVerifies(Message)
        /\ messageState = "PACKETS"
    BY ReadFrameVerifies DEF ReadFrame
  <1>2. limit = Padded(frames[ingress].size) + MacSize
    BY <1>1 DEF PacketPhase
  <1>3. /\ Padded(frames[ingress].size) \in Nat /\ MacSize \in Nat
        /\ consumed \in Nat
    BY <1>1, FrameTyped, PaddingNat, SizesAssumption DEF TypeOK
  <1>4. (Message.hi - Message.lo) - 0 - MacSize = Padded(frames[ingress].size)
    BY <1>2, <1>3 DEF Message
  <1>5. DeliverBody(Message, 0)
    BY <1>1 DEF ReadFrame
  <1>6. /\ delivered' = Append(delivered,
               [id |-> ingress,
                length |-> (Message.hi - Message.lo) - 0 - MacSize])
        /\ ingress' = ingress + 1 /\ frameState' = "HEADER"
        /\ limit' = HeaderSize /\ isReading' \in BOOLEAN
        /\ failed' = failed
    BY <1>5, Zenon DEF DeliverBody
  <1> QED BY <1>4, <1>6, Zenon

\* FrameCommunication.decode leaves the limit at the length of what comes next.
LEMMA ReadFrameAligned ==
    ASSUME QueueAligned, ReadFrame
    PROVE  QueueAligned'
  <1> USE DEF QueueAligned
  <1>1. /\ messageState = "PACKETS" /\ parsing = NoMessage /\ ackSize # 0
        /\ received # 0 /\ Len(delivered) = ingress - 1
        /\ UNCHANGED <<remoteVars, parsing, messageState, received, isReady>>
    BY DEF ReadFrame, Read, PacketPhase
  <1>2. /\ ingress \in 1 .. Len(frames) /\ MessageVerifies(Message)
        /\ consumed' = consumed + limit /\ consumed' <= received
        /\ frameState = "HEADER" => BodyToCome(Message)
    BY ReadFrameVerifies
  <1>3. /\ consumed \in Nat /\ limit \in Nat /\ received \in Nat
        /\ HeaderSize \in Nat \ {0} /\ MacSize \in Nat \ {0}
        /\ Len(frames) \in Nat /\ consumed' \in Nat
    BY <1>2, SizesAssumption DEF TypeOK
  <1>4. /\ frames[ingress].size \in BodySizes
        /\ Padded(frames[ingress].size) \in Nat \ {0}
        /\ BodyLimit(AnnouncedBody) = Padded(frames[ingress].size) + MacSize
    BY <1>2, FrameTyped, PaddingNat, PaddingAgrees, AnnouncedBodyWhole
  <1>5. StreamLaidOut' /\ BytesInOrder' /\ HandshakePhase'
    BY <1>1, <1>2 DEF StreamLaidOut, NextStart, BytesInOrder, HandshakePhase,
                      remoteVars
  <1>6. CASE frameState = "HEADER"
    <2>1. AwaitBody
      BY <1>2, <1>6 DEF ReadFrame
    <2>2. /\ frameState' = "BODY"
          /\ limit' = Padded(frames[ingress].size) + MacSize
          /\ UNCHANGED <<ingress, delivered, isReading, failed>>
      BY <2>1, <1>4 DEF AwaitBody
    <2>3. TypeOK'
      BY <2>2, <1>1, <1>3, <1>4 DEF TypeOK, remoteVars
    <2>4. PacketPhase'
      BY <2>2, <1>1, <1>2, <1>3, <1>6 DEF PacketPhase, NextStart, remoteVars
    <2>5. DeliveredInOrder' /\ NoFramingError'
      BY <2>2, <1>1 DEF DeliveredInOrder, NoFramingError, remoteVars
    <2> QED BY <2>3, <2>4, <2>5, <1>5
  <1>7. CASE frameState = "BODY"
    <2> DEFINE message == [id |-> ingress,
                           length |-> Padded(frames[ingress].size)]
    <2>1. /\ consumed = NextStart(ingress) + HeaderSize
          /\ limit = Padded(frames[ingress].size) + MacSize
      BY <1>1, <1>7 DEF PacketPhase
    <2>3. /\ delivered' = Append(delivered, message)
          /\ ingress' = ingress + 1 /\ frameState' = "HEADER"
          /\ limit' = HeaderSize /\ isReading' \in BOOLEAN
          /\ failed' = failed
      BY <1>7, ReadBodyDelivers
    <2>4. message \in DeliveredRecords /\ delivered \in Seq(DeliveredRecords)
      BY <1>2, <1>4 DEF DeliveredRecords, TypeOK
    <2>5. /\ delivered' \in Seq(DeliveredRecords)
          /\ Len(delivered') = Len(delivered) + 1
          /\ \A i \in 1 .. Len(delivered) : delivered'[i] = delivered[i]
          /\ delivered'[Len(delivered) + 1] = message
      BY <2>3, <2>4
    <2>6. TypeOK'
      BY <2>3, <2>5, <1>1, <1>3 DEF TypeOK, remoteVars
    <2>7. consumed' = NextStart(ingress + 1)
      <3>1. NextStart(ingress + 1)
              = frames[ingress].start + FrameSize(frames[ingress].size)
        BY <1>2 DEF StreamLaidOut
      <3>2. frames[ingress].start \in Nat
        BY <1>2, FrameTyped
      <3>3. consumed' = (frames[ingress].start + HeaderSize)
                        + (Padded(frames[ingress].size) + MacSize)
        BY <2>1, <1>2 DEF NextStart
      <3> QED BY <3>1, <3>2, <3>3, <1>3, <1>4 DEF FrameSize
    <2>8. PacketPhase'
      BY <2>3, <2>5, <2>7, <1>1, <1>2, <1>3
         DEF PacketPhase, NextStart, remoteVars
    <2>9. DeliveredInOrder'
      <3>1. ASSUME NEW i \in 1 .. Len(delivered')
            PROVE  delivered'[i] = [id |-> i, length |-> Padded(frames[i].size)]
        <4>1. CASE i \in 1 .. Len(delivered)
          BY <4>1, <2>5 DEF DeliveredInOrder
        <4>2. CASE i = Len(delivered) + 1
          <5>1. i = ingress /\ delivered'[i] = message
            BY <4>2, <2>5, <1>1, <1>2
          <5> QED BY <5>1
        <4> QED BY <3>1, <4>1, <4>2, <2>4, <2>5
      <3>2. Len(delivered') <= Len(frames) /\ frames' = frames
        BY <2>5, <1>1, <1>2, <1>3 DEF remoteVars
      <3> QED BY <3>1, <3>2 DEF DeliveredInOrder
    <2> QED BY <2>3, <2>6, <2>8, <2>9, <1>5 DEF NoFramingError
  <1> QED BY <1>6, <1>7 DEF TypeOK

\* Clearing isReading touches no byte.
LEMMA FinishPacketAligned ==
    ASSUME QueueAligned, FinishPacket
    PROVE  QueueAligned'
  <1> USE DEF QueueAligned
  <1>1. /\ parsing = NoMessage /\ isReading /\ isReading' = FALSE
        /\ UNCHANGED <<remoteVars, queueVars, frameVars, parsing,
                       messageState, failed>>
    BY DEF FinishPacket
  <1>2. messageState = "PACKETS"
    <2>1. SUFFICES ASSUME messageState = "ACK"
                   PROVE  FALSE
      BY DEF TypeOK
    <2>2. parsing = [lo |-> 0, hi |-> PrefixSize + ackSize] /\ ackSize # 0
      BY <2>1, <1>1 DEF HandshakePhase
    <2>3. ackSize \in Nat
      BY <2>2, AckAssumption DEF TypeOK
    <2>4. parsing.hi = PrefixSize + ackSize /\ parsing.hi = 0
      BY <2>2, <1>1 DEF NoMessage
    <2> QED BY <2>3, <2>4 DEF PrefixSize
  <1>3. TypeOK' /\ BytesInOrder'
    BY <1>1 DEF TypeOK, BytesInOrder, remoteVars, queueVars, frameVars
  <1>4. StreamLaidOut' /\ DeliveredInOrder' /\ NoFramingError'
    BY <1>1 DEF StreamLaidOut, NextStart, DeliveredInOrder, NoFramingError,
                remoteVars, frameVars
  <1>5. HandshakePhase' /\ PacketPhase'
    BY <1>1, <1>2 DEF HandshakePhase, PacketPhase, NextStart, remoteVars,
                      queueVars, frameVars
  <1> QED BY <1>3, <1>4, <1>5

\* Neither does a step that changes nothing.
LEMMA StutterAligned ==
    ASSUME QueueAligned, UNCHANGED vars
    PROVE  QueueAligned'
  BY DEF QueueAligned, TypeOK, StreamLaidOut, BytesInOrder, HandshakePhase,
         PacketPhase, DeliveredInOrder, NoFramingError, NextStart, vars,
         remoteVars, queueVars, frameVars

\* The induction step, over all actions.
LEMMA NextAligned ==
    ASSUME WholePrefix, QueueAligned, [Next]_vars
    PROVE  QueueAligned'
  BY WriteAckAligned, WriteFrameAligned, DataAligned, ReadAckAligned,
     ParseAckAligned, ReadFrameAligned, FinishPacketAligned, StutterAligned
     DEF Next

---------------------------------------------------------------------------
(* Theorems *)

\* Between two reads the queue stands at the start of the auth-ack, of a
\* header or of a body, and its limit is the length of exactly that part
\* (MessageQueue.read, FrameCommunication.decode).
THEOREM StaysAligned ==
    ASSUME WholePrefix
    PROVE  Safety => []QueueAligned
  <1>1. Init => QueueAligned
    BY InitAligned
  <1>2. QueueAligned /\ [Next]_vars => QueueAligned'
    BY NextAligned
  <1> QED BY <1>1, <1>2, PTL DEF Safety

\* Type correctness.
THEOREM TypeCorrect ==
    ASSUME WholePrefix
    PROVE  Safety => []TypeOK
  <1>1. QueueAligned => TypeOK
    BY DEF QueueAligned
  <1> QED BY <1>1, StaysAligned, PTL

\* The error callback of PeerConnection's reader never runs: no auth-ack is
\* cut short and no MAC is checked against the wrong bytes.
THEOREM NeverMisreads ==
    ASSUME WholePrefix
    PROVE  Safety => []NoFramingError
  <1>1. QueueAligned => NoFramingError
    BY DEF QueueAligned
  <1> QED BY <1>1, StaysAligned, PTL

\* The packet handler gets the remote's frames, each once and in order.
THEOREM InOrderDelivery ==
    ASSUME WholePrefix
    PROVE  Safety => []DeliveredInOrder
  <1>1. QueueAligned => DeliveredInOrder
    BY DEF QueueAligned
  <1> QED BY <1>1, StaysAligned, PTL

---------------------------------------------------------------------------
(* RlpxFraming implements MessageChannel *)

Framed(i) == [id |-> i, length |-> Padded(frames[i].size)]

\* the sequence Channel substitutes for sent
Sent == [i \in 1 .. Len(frames) |-> Framed(i)]

\* A frame the remote writes is a Send of MessageChannel.
LEMMA WriteFrameSends ==
    ASSUME QueueAligned, WriteFrame
    PROVE  Channel!ChannelNext
  <1>1. PICK size \in BodySizes :
          frames' = Append(frames, [start |-> written, size |-> size])
    BY DEF WriteFrame
  <1>2. frames \in Seq(FrameRecords) /\ Len(frames) \in Nat
    BY DEF QueueAligned, TypeOK
  <1>3. [start |-> written, size |-> size] \in FrameRecords
    BY DEF FrameRecords, QueueAligned, TypeOK
  <1>4. /\ Len(frames') = Len(frames) + 1
        /\ \A j \in 1 .. Len(frames) : frames'[j] = frames[j]
        /\ frames'[Len(frames) + 1].size = size
    BY <1>1, <1>2, <1>3
  <1> DEFINE m == [id |-> Len(frames) + 1, length |-> Padded(size)]
  <1>5. m \in [id : 1 .. MaxFrames, length : {Padded(b) : b \in BodySizes}]
    BY <1>2, SizesAssumption DEF WriteFrame
  <1>6. Sent' = Append(Sent, m)
    <2>1. Sent' = [i \in 1 .. Len(frames') |->
                     [id |-> i, length |-> Padded(frames'[i].size)]]
      BY DEF Sent, Framed, Padded, Padding
    <2>2. Len(Sent) = Len(frames)
      BY <1>2 DEF Sent
    <2>3. Append(Sent, m) = [i \in 1 .. (Len(Sent) + 1) |->
                               IF i = Len(Sent) + 1 THEN m ELSE Sent[i]]
      BY DEF Sent
    <2>4. \A i \in 1 .. (Len(frames) + 1) :
            [id |-> i, length |-> Padded(frames'[i].size)]
              = IF i = Len(frames) + 1 THEN m ELSE Sent[i]
      BY <1>2, <1>4 DEF Sent, Framed
    <2> QED BY <2>1, <2>2, <2>3, <2>4, <1>4
  <1>7. delivered' = delivered
    BY DEF WriteFrame, frameVars
  <1> QED BY <1>5, <1>6, <1>7
          DEF Channel!ChannelNext, Channel!Send, Sent, Framed

\* A read in state PACKETS is a Deliver of MessageChannel or a stutter.
LEMMA ReadFrameDelivers ==
    ASSUME QueueAligned, ReadFrame
    PROVE  [Channel!ChannelNext]_(Channel!channelVars)
  <1>1. frames' = frames /\ messageState = "PACKETS"
    BY DEF ReadFrame, remoteVars
  <1>2. Sent' = Sent
    BY <1>1 DEF Sent, Framed, Padded, Padding
  <1>3. /\ ingress \in 1 .. Len(frames) /\ MessageVerifies(Message)
        /\ frameState = "HEADER" => BodyToCome(Message)
    BY ReadFrameVerifies
  <1>4. CASE frameState = "HEADER"
    <2>1. delivered' = delivered
      BY <1>3, <1>4 DEF ReadFrame, AwaitBody
    <2> QED BY <2>1, <1>2 DEF Channel!channelVars, Sent, Framed
  <1>5. CASE frameState = "BODY"
    <2>1. delivered' = Append(delivered, Framed(ingress))
      BY <1>5, ReadBodyDelivers DEF Framed
    <2>2. Len(delivered) = ingress - 1 /\ Len(frames) \in Nat
      BY <1>1 DEF QueueAligned, PacketPhase, TypeOK
    <2>3. Len(Sent) = Len(frames) /\ Sent[Len(delivered) + 1] = Framed(ingress)
      BY <2>2, <1>3 DEF Sent
    <2>4. Len(delivered) < Len(Sent)
      BY <2>2, <2>3, <1>3
    <2> QED BY <2>1, <2>3, <2>4, <1>2
            DEF Channel!ChannelNext, Channel!Deliver, Sent, Framed
  <1> QED BY <1>4, <1>5 DEF QueueAligned, TypeOK

\* Every step maps to a step of MessageChannel or a stutter.
LEMMA NextImplements ==
    ASSUME QueueAligned, [Next]_vars
    PROVE  [Channel!ChannelNext]_(Channel!channelVars)
  <1>1. CASE WriteFrame
    BY <1>1, WriteFrameSends
  <1>2. CASE ReadFrame
    BY <1>2, ReadFrameDelivers
  <1>3. CASE UNCHANGED <<frames, delivered>>
    BY <1>3 DEF Channel!channelVars, Padded, Padding
  <1>4. CASE WriteAck
    BY <1>4, <1>3 DEF WriteAck, frameVars
  <1>5. CASE Data
    BY <1>5, <1>3 DEF Data, frameVars, remoteVars
  <1>6. CASE ReadAck
    BY <1>6, <1>3 DEF ReadAck, frameVars, remoteVars
  <1>7. CASE ParseAck
    BY <1>7, <1>3 DEF ParseAck, frameVars, remoteVars
  <1>8. CASE FinishPacket
    BY <1>8, <1>3 DEF FinishPacket, frameVars, remoteVars
  <1>9. CASE UNCHANGED vars
    BY <1>9, <1>3 DEF vars, frameVars, remoteVars
  <1> QED BY <1>1, <1>2, <1>4, <1>5, <1>6, <1>7, <1>8, <1>9 DEF Next

\* The safety part of ImplementsChannel: the receive path is an ordered,
\* lossless channel of messages (MessageChannel), the frames the remote wrote
\* being what was sent.
THEOREM ImplementsOrderedChannel ==
    ASSUME WholePrefix
    PROVE  Safety => Channel!ChannelSafety
  <1>1. Init => Channel!ChannelInit
    BY DEF Init, Channel!ChannelInit
  <1>2. QueueAligned /\ [Next]_vars
          => [Channel!ChannelNext]_(Channel!channelVars)
    BY NextImplements
  <1> QED BY <1>1, <1>2, StaysAligned, PTL DEF Safety, Channel!ChannelSafety
===========================================================================
