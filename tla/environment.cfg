SPECIFICATION Spec
CONSTANTS
    Runs = {r1, r2, r3}
    Workflows = {w1, w2}
    PullRequest <- OnePullRequest
    MaxRestarts = 1
    MaxFaults = 1
SYMMETRY Symmetry
INVARIANTS
    TypeOK
    AliveForReview
    ContainersGone
    HostClean
PROPERTY
    Isolation
