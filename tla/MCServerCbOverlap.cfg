\* server_cb on several task queue threads: a queued callback of an item may
\* start before the callback that queued it has returned.
SPECIFICATION Spec
CONSTANTS
    w1 = w1
    w2 = w2
    c1 = c1
    c2 = c2
    BridgeConn = bridge
    Works <- MCWorks
    BrokerWorks <- MCBroker
    Conns <- MCConns
    WillConns <- MCWill
    Overlap = TRUE
INVARIANTS
    CParamBalanced
\* fatal() ends the process.
CHECK_DEADLOCK FALSE
