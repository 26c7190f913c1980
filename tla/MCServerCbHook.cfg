\* May an online or offline event reach the webhook as a publish?
SPECIFICATION Spec
CONSTANTS
    w1 = w1
    w2 = w2
    c1 = c1
    c2 = c2
    BridgeConn = bridge
    Works <- MCWorks
    BrokerWorks <- MCBroker
    Conns <- MCConns
    WillConns <- MCWill
    Overlap = FALSE
INVARIANTS
    NoHookForEvents
\* fatal() ends the process.
CHECK_DEADLOCK FALSE
