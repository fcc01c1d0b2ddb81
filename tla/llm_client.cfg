SPECIFICATION Spec
CONSTANTS
    c1 = c1
    c2 = c2
    c3 = c3
    w1 = w1
    w2 = w2
    w3 = w3
    m1 = m1
    m2 = m2
    Calls = {c1, c2, c3}
    Workflows = {w1, w2, w3}
    WorkflowOf <- EachItsOwn
    Models = {m1, m2}
    ModelOf <- TwoModels
    Unbounded = {c3}
    NoCall = NoCall
    NoModel = NoModel
    NoWorkflow = NoWorkflow
CHECK_DEADLOCK FALSE
INVARIANTS
    TypeOK
    NothingHeld
    LoggedUnlessLost
PROPERTY
    CallsEnd
