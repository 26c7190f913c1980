\* The callbacks of two items run at the same time.
SPECIFICATION Spec
CONSTANTS
    Works = {w1, w2}
    Pipes = {p1, p2}
    Topics = {t1, t2}
    Filters <- MCFilters
    Msgs = {m1, m2}
    Expiring = {m1, m2}
    Aliasing = {TRUE}
    Options = {0}
    NoTopic = NoTopic
    NoMsg = NoMsg
    NoPipe = NoPipe
SYMMETRY Symmetry
INVARIANTS
    TypeOK
    ReferencesExact
    OnlyRetainedGoAstray
    SentWithTopic
    NoRetainedMissed
PROPERTIES
    HandlingTerminates
