CONSTANTS
    NULL = NULL
    m1 = m1  m2 = m2  m3 = m3  s1 = s1  s2 = s2
    p1 = p1  p2 = p2  p3 = p3  p4 = p4  p5 = p5
    Masters = {m1, m2, m3}
    Owner <- MCOwner
    findPort <- MCfindPort
    Slaves = {s1, s2}
    Packets = {p1, p2, p3, p4}
    NeedsResponse = {p1, p2, p4}
SPECIFICATION Spec

INVARIANTS WaitsOnce NobodyForgotten
PROPERTIES StalledPassesOn
