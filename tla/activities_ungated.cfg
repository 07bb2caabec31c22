SPECIFICATION Spec
CONSTANTS
    q1 = q1  q2 = q2
    Participant = {n1}
    Text = {x1}
    MaxPoints = 1
    MaxAttempts = 2
    File = {f1}
    Examinee = {n1}
    Question = {q1, q2}
    Objective = {q1}
    Points = 1
    Weight = {40, 60}
    MaxScore <- MCMaxScore
    Approver = {u1}
    NoApprover = NoApprover
    Enrollee = {e1}
    c1 = c1  l1 = l1
    Class = {c1}
    NoClass = NoClass
    Lesson = {l1}
    ClassOf <- MCClassOf
    Batch = Batch
    Presence = {"PRESENT", "SICK"}
    MaxCorrections = 1
    i1 = i1  r1 = r1  r2 = r2
    Item = {i1}
    Kind = {k1, k2}
    Content = {x1, x2}
    MaxVersions = 3
    Rule = {r1, r2}
    Matches <- MCMatches
    Need <- MCNeed
    Setting = {x1, x2}
    Candidate = {e1}
    Evaluation = {v1}
    User = {u1}
    Verdict = {PASS, FAIL}
    Reason = {y1}
    Nobody = Nobody
    NoReason = NoReason
    MaxLost = 1
    Activity = {a1, a2}
    ActivityType = {k1, k2}
    Taught = c1
    MaxMaterial = 3
    MaxPlace = 1
    MaxEdits = 1
    Organization = {o1, o2, o3}
    NoParent = NoParent
    s1 = s1  s2 = s2  t1 = t1  t2 = t2  g1 = g1  g2 = g2  p1 = p1  p2 = p2
    Booking = {s1, s2, t1, t2, g1, g2}
    Sort <- MCSort
    Holder <- MCHolder
    Period <- MCPeriod
    Handler = {h1}
    Mixes <- MCUngated
INVARIANT PublishedWasGated
CHECK_DEADLOCK FALSE
