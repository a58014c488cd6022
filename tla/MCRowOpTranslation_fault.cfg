\* Row operations without page table walks: is a fault of a source taken?
CONSTANTS
    i1 = i1
    i2 = i2
    Insts <- TwoInsts
    Ops <- OneOfEach
    Cpus <- BothCpus
    Systems <- SyscallEmulation
    numSquashable = 2
    NoInst = NoInst
SPECIFICATION Spec
INVARIANT SourceFaultTaken
CHECK_DEADLOCK FALSE
