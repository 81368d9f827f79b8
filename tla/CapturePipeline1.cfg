\* Pipes of four units, chunks of three, packets of two.
CONSTANTS
    PipeSize = 4
    Chunk = 3
    Packet = 2
SPECIFICATION PipeSpec
INVARIANTS
    NoDeadEnd
PROPERTIES
    StopEndsOrStrands
    PacketsFlow
CHECK_DEADLOCK FALSE
