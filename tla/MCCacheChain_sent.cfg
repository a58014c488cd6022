\* A load of a row is sent once the row operation is.
CONSTANTS
    z = z
    a = a
    b = b
    c = c
    Depth = 2
    Blocks <- TwoBlocks
    ZeroBlk = z
    Rows <- RowsAB
    Capacity = 1
    mshrs = 2
    write_buffers = 2
    wbReserve = 2
    tgts_per_mshr = 2
    MaxReqs = 4
    Cpu = "o3"
    Overlaps <- AfterSend
SPECIFICATION Spec
INVARIANT LoadsAreCurrent
\* The program ends.
CHECK_DEADLOCK FALSE
