SPECIFICATION Spec
CONSTANTS
    a = a
    b = b
    Topics = {a, b}
    Retained = {a}
    NoTopic = NoTopic
    NotUtf8 = NotUtf8
    MaxTopics = 3
    SubPackets <- MCSubPackets
    UnsubPackets <- MCUnsubPackets
INVARIANTS
    TypeOK
    SubackTellsTruth
    RefusedChangesNothing
    RetainedAsAsked
    FreedReadExactly
    UnsubackTellsTruth
CHECK_DEADLOCK FALSE
