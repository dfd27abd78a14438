\* One service thread, with clients that may send a port string that does
\* not parse.  A failed push leaves the recipient DISCONNECTED with its old
\* endpoint; a CONNECT whose port does not parse replies a failure and
\* still flushes the mailbox to that endpoint.
CONSTANTS
    u1 = u1  u2 = u2  w1 = w1  w2 = w2
    Users <- MCUsers
    Workers = {w1}
    Tokens = {1, 2}
    IdMod = 3
    Junk = Junk
    NoFile = NoFile
    Empty = Empty
    None = None
    MaxReqs = 5
    MaxCrashes = 0
    RegStatus = {"DCN"}
    SendGarbage = {FALSE}
    ConnGarbage = {FALSE}
    PortOk = {TRUE, FALSE}
SPECIFICATION Spec
SYMMETRY UserSymmetry
PROPERTY ChatRefinement
\* The request budget runs out with the service thread idle.
CHECK_DEADLOCK FALSE
