\* The protocol layer hands over the messages of a pipe one after the other.
SPECIFICATION FairSpec
CONSTANTS
    w1 = w1
    w2 = w2
    p1 = p1
    p2 = p2
    t1 = t1
    t2 = t2
    NoTopic = none
    Works <- MCWorks
    Pipes <- MCPipes
    Topics <- MCTopics
    Serial = TRUE
INVARIANTS
    TypeOK
    TreeAndQueueAgree
    GonePipesLeaveNothing
PROPERTIES
    ImplementsSubscriptions
    EveryPacketHandled
