\* One node relies on the session the upstream keeps for it.
SPECIFICATION Spec
CONSTANTS
    n1 = n1
    n2 = n2
    n3 = n3
    Nodes <- MCNodes
    CleanStart <- MCSaved
    Subscribing <- MCSubscribing
INVARIANTS
    ConnectedIsSubscribed
