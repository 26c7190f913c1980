\* Every node asks for a clean start, as nanomq.conf does.
SPECIFICATION ForwardSpec
CONSTANTS
    n1 = n1
    n2 = n2
    Nodes <- MCNodes
    CleanStart <- MCNodes
    Subscribing <- MCNodes
    Works = {w1}
    Msgs = {m1, m2}
    Routes <- MCRoutes
    NoMsg = NoMsg
    NoSend = NoSend
INVARIANTS
    ConnectedIsSubscribed
    ForwardRefsExact
    NeverAllDropped
PROPERTIES
    Resubscribes
    ForwardedReleased
