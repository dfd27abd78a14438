\* One service thread; the status byte srv_register never sets may be neither
\* STATUS_CN nor STATUS_DCN: a SEND to that user then neither pushes nor stores.
CONSTANTS
    u1 = u1  u2 = u2  w1 = w1  w2 = w2
    Users <- MCUsers
    Workers = {w1}
    Tokens = {1, 2}
    IdMod = 3
    Junk = Junk
    NoFile = NoFile
    Empty = Empty
    None = None
    MaxReqs = 5
    MaxCrashes = 0
    RegStatus = {"DCN", "JUNK"}
    SendGarbage = {FALSE}
    ConnGarbage = {FALSE}
    PortOk = {TRUE, FALSE}
SPECIFICATION Spec
INVARIANT AcceptedNotLost
\* The request budget runs out with the service thread idle.
CHECK_DEADLOCK FALSE
