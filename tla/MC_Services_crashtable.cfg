\* One service thread and one shutdown: a REGISTER interrupted after its
\* mkdir leaves a user table without a userdata entry.
CONSTANTS
    u1 = u1  u2 = u2  w1 = w1  w2 = w2
    Users <- MCUsers
    Workers = {w1}
    Tokens = {1, 2, 3}
    IdMod = 3
    Junk = Junk
    NoFile = NoFile
    Empty = Empty
    None = None
    MaxReqs = 3
    MaxCrashes = 1
    RegStatus = {"DCN"}
    SendGarbage = {FALSE}
    ConnGarbage = {FALSE}
    PortOk = {TRUE, FALSE}
SPECIFICATION Spec
\* The request budget runs out with the service thread idle.
CHECK_DEADLOCK FALSE
INVARIANT TableHasEntry
