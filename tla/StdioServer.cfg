SPECIFICATION Spec
CONSTANTS
    Messages <- MCAllMessages
    Streams <- MCStreams
    Modes = {"proxy", "standalone"}
    MaxBuffer = 6
    MaxChunk = 3
INVARIANTS
    TypeOK
    ClientLinesOnly
    OnlyLongLinesDrop
    AnsweredOnce
    OrderKept
CHECK_DEADLOCK FALSE
