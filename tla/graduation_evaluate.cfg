SPECIFICATION Spec
CONSTANTS
    e1 = e1  e2 = e2  h1 = h1  h2 = h2  s = s
    ClassSubject = {s}
    SubjectOf <- MCSubjectOf
    Assessment = {}
    TieUp = {}
    Enrollment = {e1}
    Cohort <- MCOne
    Offer <- MCOffer
    Results <- MCResults
    Handler = {h1, h2}
    Serves <- MCShared
    Calls = {"create", "status", "enrollment"}
    Failing = TRUE
    MaxRules = 2
    MaxEvaluations = 2
SYMMETRY Symmetric
INVARIANTS TypeOK VerdictStands
PROPERTY HistoryKept
