CONSTANTS
    SA = {a1}
    SPI = {i1}
    Subscriber = {u1}
    Worker = {w1}
    PgwHandler = {pd}
    ReadLoop = {}
    DpdReaper = {}
    HalfOpenReaper = {ho}
    None = None
    FirstAuth <- PlainAttach
SPECIFICATION Spec
SYMMETRY Symmetry
CHECK_DEADLOCK FALSE
INVARIANTS ResourcesOwned
