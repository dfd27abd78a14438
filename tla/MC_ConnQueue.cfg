\* Three service threads, a two-slot ring and three connections: enough for
\* the ring to wrap, for main to block on a full queue, for several service
\* threads to sleep on an empty one, and for a descriptor number closed by
\* one thread to be handed to another connection.
CONSTANTS
    w1 = w1  w2 = w2  w3 = w3
    Workers <- MCWorkers
    Main = Main
    NoThread = NoThread
    Capacity = 2
    MaxConns = 3
    SilentClients = FALSE
SPECIFICATION Spec
INVARIANT TypeOK
PROPERTY BufferRefinement
\* Once MaxConns connections are served every thread waits for work: the
\* idle server, which accept() keeps waiting in forever.
CHECK_DEADLOCK FALSE
