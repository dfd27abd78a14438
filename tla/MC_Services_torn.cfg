\* Two service threads: a CONNECT flush reads a pending-message file that a
\* SEND has created but not yet written, ignores the failed READ, pushes a
\* stale entry and deletes the file; the SEND then writes to the unlinked
\* file and still answers SUCCESS.
CONSTANTS
    u1 = u1  u2 = u2  w1 = w1  w2 = w2
    Users <- MCUsers
    Workers = {w1, w2}
    Tokens = {1, 2}
    IdMod = 3
    Junk = Junk
    NoFile = NoFile
    Empty = Empty
    None = None
    MaxReqs = 4
    MaxCrashes = 0
    RegStatus = {"DCN"}
    SendGarbage = {FALSE}
    ConnGarbage = {FALSE}
    PortOk = {TRUE, FALSE}
SPECIFICATION Spec
INVARIANT AcceptedNotLost
\* The request budget runs out with the service threads idle.
CHECK_DEADLOCK FALSE
