\* Two service threads: a stale CONNECT write-back between the SEND's
\* increment and its second ACK makes the ACK carry another id than the
\* message the recipient received.
CONSTANTS
    u1 = u1  u2 = u2  w1 = w1  w2 = w2
    Users <- MCUsers
    Workers = {w1, w2}
    Tokens = {1, 2}
    IdMod = 3
    Junk = Junk
    NoFile = NoFile
    Empty = Empty
    None = None
    MaxReqs = 4
    MaxCrashes = 0
    RegStatus = {"DCN"}
    SendGarbage = {FALSE}
    ConnGarbage = {FALSE}
    PortOk = {TRUE, FALSE}
SPECIFICATION Spec
INVARIANT AckMatchesDelivery
\* The request budget runs out with the service threads idle.
CHECK_DEADLOCK FALSE
