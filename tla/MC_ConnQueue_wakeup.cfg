\* Two service threads. Clients may connect and never send, so a thread can stay in
\* recv forever; the question is whether a queued connection then still
\* reaches a service thread that sleeps with nothing to do.
CONSTANTS
    w1 = w1  w2 = w2  w3 = w3
    Workers <- MCTwoWorkers
    Main = Main
    NoThread = NoThread
    Capacity = 2
    MaxConns = 3
    SilentClients = TRUE
SPECIFICATION Spec

PROPERTY IdleWorkerTakesWork
\* Once MaxConns connections are served every thread waits for work: the
\* idle server, which accept() keeps waiting in forever.
CHECK_DEADLOCK FALSE
