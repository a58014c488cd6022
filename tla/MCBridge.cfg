\* Five packets, one of which expects no response; two slots for requests,
\* three for responses.
CONSTANTS
    p1 = p1
    p2 = p2
    p3 = p3
    p4 = p4
    p5 = p5
    Packets <- FivePackets
    NeedsResponse <- FourAnswered
    reqQueueLimit = 2
    respQueueLimit = 3
SPECIFICATION Spec
INVARIANT ResponsesFit
INVARIANT SendArmed
INVARIANT StallJustified
PROPERTY RequestsAnswered
