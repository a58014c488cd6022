CONSTANTS
    d1 = d1  d2 = d2  c1 = c1  c2 = c2  s1 = s1  s2 = s2
    DmaPackets = {d1, d2}
    CpuPackets = {c1, c2}
    SnoopPackets = {s1, s2}
    MaxLatency = 2
    MaxTick = 9
    Cycle = 1
SPECIFICATION FairSpec
INVARIANTS SendIsPending DrainAgreement
PROPERTIES PacketsKeepOrder DrainEnds
