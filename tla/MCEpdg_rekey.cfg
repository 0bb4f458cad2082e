CONSTANTS
    SA = {a1, a2, a3}
    SPI = {i1, i2}
    Subscriber = {u1}
    Worker = {w1, w2}
    PgwHandler = {}
    ReadLoop = {}
    DpdReaper = {}
    HalfOpenReaper = {}
    None = None
    FirstAuth <- PlainAttach
SPECIFICATION Spec
SYMMETRY Symmetry
CHECK_DEADLOCK FALSE
INVARIANTS TypeOK AuthenticatedFirst PdnSessionAccounted SingleOwner NoLockCycle
