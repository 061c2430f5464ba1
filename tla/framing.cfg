SPECIFICATION Spec
CONSTANTS
    HeaderSize = 2
    MacSize = 2
    Block = 2
    Radix = 4
    AckSizes <- AckSizesMC
    BodySizes <- BodySizesMC
    MaxFrames = 3
    MinFirstChunk = 2
INVARIANTS
    TypeOK
    NoFramingError
    DeliveredInOrder
    QueueAligned
PROPERTIES
    ImplementsChannel
CHECK_DEADLOCK FALSE
