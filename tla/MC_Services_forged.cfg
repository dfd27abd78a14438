\* Two service threads: a flush reads a pending file that is not yet
\* written (or already removed), ignores the failed READ and pushes what the
\* never-initialised pend_msg_entry holds.
CONSTANTS
    u1 = u1  u2 = u2  w1 = w1  w2 = w2
    Users <- MCUsers
    Workers = {w1, w2}
    Tokens = {1, 2}
    IdMod = 3
    Junk = Junk
    NoFile = NoFile
    Empty = Empty
    None = None
    MaxReqs = 4
    MaxCrashes = 0
    RegStatus = {"DCN"}
    SendGarbage = {FALSE}
    ConnGarbage = {FALSE}
    PortOk = {TRUE, FALSE}
SPECIFICATION Spec
INVARIANT NoForgedDelivery
\* The request budget runs out with the service threads idle.
CHECK_DEADLOCK FALSE
