\* One service thread and one server shutdown (SIGINT exit) at any step,
\* after which the server restarts over the store as it was left, under
\* weak fairness of the thread's steps while it runs a request.  Four
\* requests: enough for a shutdown in the middle of a SEND, a flush or a
\* REGISTER followed by requests that read what it left, and for a flush
\* of two pending messages (register, two self-sends, connect).
CONSTANTS
    u1 = u1  u2 = u2  w1 = w1  w2 = w2
    Users <- MCUsers
    Workers = {w1}
    Tokens = {1, 2, 3}
    IdMod = 3
    Junk = Junk
    NoFile = NoFile
    Empty = Empty
    None = None
    MaxReqs = 4
    MaxCrashes = 1
    RegStatus = {"DCN"}
    SendGarbage = {FALSE}
    ConnGarbage = {FALSE}
    PortOk = {TRUE, FALSE}
SPECIFICATION LiveSpec
INVARIANT AcceptedNotLost
INVARIANT IdsDistinct
INVARIANT AckMatchesDelivery
INVARIANT RegisterUnique
PROPERTY RequestsComplete
\* The request budget runs out with the service thread idle.
CHECK_DEADLOCK FALSE
