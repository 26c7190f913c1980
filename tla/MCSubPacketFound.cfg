SPECIFICATION Spec
CONSTANTS
    a = a
    b = b
    Topics = {a, b}
    Retained = {a}
    NoTopic = NoTopic
    NotUtf8 = NotUtf8
    MaxTopics = 2
    SubPackets <- MCSubPackets
    UnsubPackets <- MCUnsubPackets
INVARIANTS
    SuccessMeansFound
CHECK_DEADLOCK FALSE
