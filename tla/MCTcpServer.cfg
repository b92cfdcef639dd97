CONSTANTS
    Locals = {l1, l2}
    Tunnels = {t1, t2}
    Candidates = {c1, c2}
    NoConn = NoConn
    ChannelSize = 1
    HandleLoops = 1
    MaxRestarts = 1
SPECIFICATION Spec
SYMMETRY Symmetry
INVARIANTS TypeOK OneOwner OwnedIsOpen
PROPERTIES ServesUsers
CHECK_DEADLOCK FALSE
