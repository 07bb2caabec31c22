SPECIFICATION Spec
CONSTANTS
    p1 = p1  p2 = p2  r1 = r1  r2 = r2  a = a  b = b
    Participant = {p1, p2}
    Eligible = {p1}
    Version = {1, 2, 3}
    Editable = {}
    RuleCount = 2
    Take <- MCTakeTwo
    Matches <- MCMatchesTwo
    Payload = {a}
    Duration = 2
    EndAt = 2
    Request = {r1, r2}
    Caller <- MCTwins
    Calls = {"start", "submit"}
    MaxAttempts = 2
    MaxRevision = 1
    MaxTime = 2
INVARIANT OneLiveAttempt
