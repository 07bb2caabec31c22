SPECIFICATION Spec
CONSTANTS
    p1 = p1  p2 = p2  r1 = r1  r2 = r2  a = a  b = b
    Participant = {p1, p2}
    Eligible = {p1}
    Version = {1}
    Editable = {1}
    RuleCount = 1
    Take <- MCTakeOne
    Matches <- MCMatchesOne
    Payload = {a, b}
    Duration = 1
    EndAt = 2
    Request = {r1, r2}
    Caller <- MCTwins
    Calls = {"start", "submit", "saveAnswer"}
    MaxAttempts = 2
    MaxRevision = 2
    MaxTime = 1
SYMMETRY Symmetric
PROPERTY KeepsRegister
