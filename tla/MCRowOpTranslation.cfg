\* Two row operations of every arity on both CPU models, both systems.
CONSTANTS
    i1 = i1
    i2 = i2
    Insts <- TwoInsts
    Ops <- OneOfEach
    Cpus <- BothCpus
    Systems <- BothSystems
    numSquashable = 2
    NoInst = NoInst
SPECIFICATION Spec
INVARIANT SentIsTranslated
PROPERTY VerdictStays
PROPERTY EveryRowOpEnds
\* The program ends.
CHECK_DEADLOCK FALSE
