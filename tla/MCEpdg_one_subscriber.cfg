CONSTANTS
    SA = {a1}
    SPI = {i1}
    Subscriber = {u1}
    Worker = {w1}
    PgwHandler = {pd}
    ReadLoop = {rl}
    DpdReaper = {dp}
    HalfOpenReaper = {ho}
    None = None
    FirstAuth <- EitherAttach
SPECIFICATION FairSpec
CHECK_DEADLOCK FALSE
INVARIANTS ActiveIsConnected PdnSessionAccounted
PROPERTIES DeletedIsFinal  
