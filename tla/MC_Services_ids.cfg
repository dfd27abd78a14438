\* Two service threads racing a CONNECT against a SEND to the same user:
\* the CONNECT writes back the entry it read before the SEND raised
\* last_msg_id, so two messages get the same id.
CONSTANTS
    u1 = u1  u2 = u2  w1 = w1  w2 = w2
    Users <- MCUsers
    Workers = {w1, w2}
    Tokens = {1, 2}
    IdMod = 3
    Junk = Junk
    NoFile = NoFile
    Empty = Empty
    None = None
    MaxReqs = 4
    MaxCrashes = 0
    RegStatus = {"DCN"}
    SendGarbage = {FALSE}
    ConnGarbage = {FALSE}
    PortOk = {TRUE, FALSE}
SPECIFICATION Spec
INVARIANT IdsDistinct
\* The request budget runs out with the service threads idle.
CHECK_DEADLOCK FALSE
