\* server_cb with callbacks of one item run one after the other.
SPECIFICATION FairSpec
CONSTANTS
    w1 = w1
    w2 = w2
    c1 = c1
    c2 = c2
    BridgeConn = bridge
    Works <- MCWorks
    BrokerWorks <- MCBroker
    Conns <- MCConns
    WillConns <- MCWill
    Overlap = FALSE
INVARIANTS
    TypeOK
    CParamBalanced
    OwnsWhatItFrees
    ListensOnOwnCtx
PROPERTIES
    GoodPacketsKeepClient
    ReceivesAgain
\* fatal() ends the process.
CHECK_DEADLOCK FALSE
