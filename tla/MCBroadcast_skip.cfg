SPECIFICATION BusSpec
CONSTANTS
    Sockets = {k1, k2}
    Broadcasts = {b1}
SYMMETRY Symmetry
INVARIANTS
    AllOpenReceive
CHECK_DEADLOCK FALSE
