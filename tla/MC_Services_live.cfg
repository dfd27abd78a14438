\* One service thread under weak fairness of its steps while it runs a
\* request, with one shutdown: five requests include a flush of two pending
\* messages and a shutdown in the middle of any request.
CONSTANTS
    u1 = u1  u2 = u2  w1 = w1  w2 = w2
    Users <- MCUsers
    Workers = {w1}
    Tokens = {1, 2, 3}
    IdMod = 3
    Junk = Junk
    NoFile = NoFile
    Empty = Empty
    None = None
    MaxReqs = 5
    MaxCrashes = 1
    RegStatus = {"DCN"}
    SendGarbage = {FALSE}
    ConnGarbage = {FALSE}
    PortOk = {TRUE, FALSE}
SPECIFICATION LiveSpec
PROPERTY RequestsComplete
\* The request budget runs out with the service thread idle.
CHECK_DEADLOCK FALSE
