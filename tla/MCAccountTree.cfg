\* Three requests: of any kind but a graft; with grafts among them; or moves.
CONSTANTS
    R = R
    A = A
    B = B
    c1 = c1
    c2 = c2
    c3 = c3
    c4 = c4
    c5 = c5
    q1 = q1
    q2 = q2
    q3 = q3
    n1 = n1
    n2 = n2
    n3 = n3
    NoParent = NoParent
    NoReq = NoReq
    Same = Same
    Guids = {R, A, B, c1, c2, c3, c4, c5}
    Root = R
    Names = {n1, n2, n3}
    Reqs = {q1, q2, q3}
    New <- Fresh2
    Ops <- Requested
    InitTree <- Bare
    ForeignKey = TRUE
    MaxAttempts = 3
SPECIFICATION ScenarioSpec
\* The system stops when every request is answered.
CHECK_DEADLOCK FALSE
INVARIANT UniqueSiblings
INVARIANT TreeIsAcyclic
INVARIANT NoWaitCycle
