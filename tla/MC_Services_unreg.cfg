\* Two service threads: a SEND stores a pending message while UNREGISTER
\* is inside remove_recursive; the rmdir of pend_msgs-table fails and the
\* user is left with a table but no user record.
CONSTANTS
    u1 = u1  u2 = u2  w1 = w1  w2 = w2
    Users <- MCUsers
    Workers = {w1, w2}
    Tokens = {1, 2}
    IdMod = 3
    Junk = Junk
    NoFile = NoFile
    Empty = Empty
    None = None
    MaxReqs = 4
    MaxCrashes = 0
    RegStatus = {"DCN"}
    SendGarbage = {FALSE}
    ConnGarbage = {FALSE}
    PortOk = {TRUE, FALSE}
SPECIFICATION Spec
INVARIANT TableHasEntry
\* The request budget runs out with the service threads idle.
CHECK_DEADLOCK FALSE
