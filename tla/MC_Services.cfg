\* One service thread: the protocol with requests run one after another.
\* Two users, three SENDs and seven requests: enough for a send to a
\* disconnected user, a connect that drains it, a failed push that forces a
\* disconnect, and a reconnect.  Ids are kept modulo 3, so the third send
\* to a user wraps to id 0.  CONNECT carries a well-formed port here (the
\* unparsable port is explored by MC_Services_crash.cfg and the flush run),
\* and users are interchangeable, so states are reduced by symmetry.
\* Uninitialised values take their benign outcome here (see README).
CONSTANTS
    u1 = u1  u2 = u2  w1 = w1  w2 = w2
    Users <- MCUsers
    Workers = {w1}
    Tokens = {1, 2, 3}
    IdMod = 3
    Junk = Junk
    NoFile = NoFile
    Empty = Empty
    None = None
    MaxReqs = 7
    MaxCrashes = 0
    RegStatus = {"DCN"}
    SendGarbage = {FALSE}
    ConnGarbage = {FALSE}
    PortOk = {TRUE}
SPECIFICATION Spec
SYMMETRY UserSymmetry
INVARIANT TypeOK
INVARIANT AcceptedNotLost
INVARIANT IdsDistinct
INVARIANT AckMatchesDelivery
INVARIANT ConnectedMailboxEmpty
INVARIANT RegisterUnique
INVARIANT DeliveredNotPending
INVARIANT TableHasEntry
INVARIANT NoForgedDelivery
PROPERTY ChatRefinement
\* The request budget runs out with the service thread idle.
CHECK_DEADLOCK FALSE
