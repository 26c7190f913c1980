\* Two messages of a pipe may be with two items at once.
SPECIFICATION Spec
CONSTANTS
    w1 = w1
    w2 = w2
    p1 = p1
    p2 = p2
    t1 = t1
    t2 = t2
    NoTopic = none
    Works <- MCWorks
    Pipes <- MCPipes
    Topics <- MCTopics
    Serial = FALSE
INVARIANTS
    GonePipesLeaveNothing
