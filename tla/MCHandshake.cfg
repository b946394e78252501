SPECIFICATION HandshakeSpec
CONSTANTS
    Controllers = {c1, c2, c3}
    Hosts = {h1, h2}
    SessionIds = {s1, s2, s3}
    None = None
SYMMETRY Symmetry
INVARIANTS
    Agreement
    HostKnowsPeer
CHECK_DEADLOCK FALSE
