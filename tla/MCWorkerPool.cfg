CONSTANTS
    w1 = w1
    w2 = w2
    w3 = w3
    k1 = k1
    k2 = k2
    k3 = k3
    k4 = k4
    k5 = k5
    NoConn = NoConn
    Workers = {w1, w2, w3}
    Conns <- MCConns
    MaxHeld = 2
    QCap = 2
SPECIFICATION Spec
\* Once every connection is accepted the listener blocks in accept() and the
\* workers in recv(): the program waits for clients, which is not a deadlock.
CHECK_DEADLOCK FALSE
PROPERTY EveryConnServed
