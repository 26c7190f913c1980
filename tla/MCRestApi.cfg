\* The job protocol of the REST server, with what process_request does in it.
SPECIFICATION ApiSpec
CONSTANTS
    r1 = r1
    r2 = r2
    r3 = r3
    j1 = j1
    j2 = j2
    w1 = w1
    w2 = w2
    NULL = null
    Requests <- MCRequests
    Jobs <- MCJobs
    Workers <- MCWorkers
    Kind <- MCKind
    Objects <- MCObjects
    Broken <- MCBroken
INVARIANTS
    AnsweredOnce
    JobsNotShared
    JobsHoldTheirOwn
    RepliesMatch
    PublishedAsReported
PROPERTIES
    EveryRequestAnswered
\* Every request of the bounded set is answered, or fatal() has ended the process.
CHECK_DEADLOCK FALSE
