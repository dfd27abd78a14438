\* One client; every socket is closed after its request only if the request
\* fails on the socket.
CONSTANTS
    w1 = w1  w2 = w2  w3 = w3
    Workers <- MCWorkers
    Main = Main
    NoThread = NoThread
    Capacity = 2
    MaxConns = 3
    SilentClients = FALSE
SPECIFICATION Spec
INVARIANT NoDescriptorLeak
\* All connections served: the idle server.
CHECK_DEADLOCK FALSE
