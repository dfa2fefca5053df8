SPECIFICATION Spec
CONSTANTS
    Dests = {d1, d2, d3}
    Ifaces = {hub, auto}
    InIds = {i1, i2}
    OutIds = {o1, o2}
    Packets = {p1, p2}
    MAX_KNOWN = 1
    MAX_PATHS = 2
    MAX_LINKS = 1
    MAX_OUT_LINKS = 1
    MAX_PENDING_OUT = 1
    MAX_RECEIPTS = 1
    MaxKeys = 2
SYMMETRY IdSymmetry
INVARIANTS TablesInv OneSession KeyAgreed
