\* One service thread; the reply code srv_send never sets may be non-zero:
\* a pushed message is then also stored pending and delivered again.
CONSTANTS
    u1 = u1  u2 = u2  w1 = w1  w2 = w2
    Users <- MCUsers
    Workers = {w1}
    Tokens = {1, 2}
    IdMod = 3
    Junk = Junk
    NoFile = NoFile
    Empty = Empty
    None = None
    MaxReqs = 5
    MaxCrashes = 0
    RegStatus = {"DCN"}
    SendGarbage = {FALSE, TRUE}
    ConnGarbage = {FALSE}
    PortOk = {TRUE, FALSE}
SPECIFICATION Spec
INVARIANT DeliveredNotPending
\* The request budget runs out with the service threads idle.
CHECK_DEADLOCK FALSE
