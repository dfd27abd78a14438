\* Every client sends; service threads access one user entry per request,
\* and that access may fail to read or write. Descriptor numbers are
\* reused lowest-first, as open() and accept() allocate them.
CONSTANTS
    w1 = w1  w2 = w2  w3 = w3
    Workers <- MCWorkers
    Main = Main
    NoThread = NoThread
    Capacity = 2
    MaxConns = 3
    SilentClients = FALSE
SPECIFICATION Spec
INVARIANT ConnSocketsOpen
\* All connections served: the idle server.
CHECK_DEADLOCK FALSE
