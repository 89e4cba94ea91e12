SPECIFICATION Spec
CONSTANTS
    localhost = localhost
    loopback = loopback
    bob = bob
    Key <- MCKey
    StrictMode <- MCStrictMode
    Offered <- MCOffered
    Accepts <- MCAccepts
    MaxHostKey = 2
    Task = {t1, t2}
    MaxAuthTries = 6
    MaxSessions = 1
    MaxConn = 2
    NoKey = NoKey
    NoTask = NoTask
INVARIANTS
    OneConnection
SYMMETRY Interchangeable
