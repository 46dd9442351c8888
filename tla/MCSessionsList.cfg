SPECIFICATION Spec
CONSTANTS
    Conns = {k1, k2, k3}
    Fds = {f1, f2}
    None = None
CHECK_DEADLOCK FALSE
INVARIANTS
    ServedIsListed
