\* Loads run beside one store or row operation on other rows.
CONSTANTS
    z = z
    a = a
    b = b
    c = c
    Depth = 2
    Blocks <- ThreeBlocks
    ZeroBlk = z
    Rows <- RowsAB
    Capacity = 1
    mshrs = 2
    write_buffers = 2
    wbReserve = 2
    tgts_per_mshr = 2
    MaxReqs = 3
    Cpu = "o3"
    Overlaps <- NoOverlap
SPECIFICATION Spec
\* The program ends.
CHECK_DEADLOCK FALSE
INVARIANTS  EvictionIsLast 
PROPERTIES EveryRequestAnswered
