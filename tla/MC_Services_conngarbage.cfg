\* One service thread; the reply code srv_connect reads before assigning it
\* may equal SRV_ERR_CN_ANY: a valid CONNECT is then never performed.
CONSTANTS
    u1 = u1  u2 = u2  w1 = w1  w2 = w2
    Users <- MCUsers
    Workers = {w1}
    Tokens = {1, 2}
    IdMod = 3
    Junk = Junk
    NoFile = NoFile
    Empty = Empty
    None = None
    MaxReqs = 3
    MaxCrashes = 0
    RegStatus = {"DCN"}
    SendGarbage = {FALSE}
    ConnGarbage = {FALSE, TRUE}
    PortOk = {TRUE, FALSE}
SPECIFICATION Spec
PROPERTY ValidConnectUpdates
\* The request budget runs out with the service threads idle.
CHECK_DEADLOCK FALSE
