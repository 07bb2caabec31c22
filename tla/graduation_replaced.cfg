SPECIFICATION FairSpec
CONSTANTS
    e1 = e1  e2 = e2  h1 = h1  h2 = h2  s = s
    ClassSubject = {s}
    SubjectOf <- MCSubjectOf
    Assessment = {}
    TieUp = {}
    Enrollment = {e1, e2}
    Cohort <- MCCohort
    Offer <- MCOffer
    Results <- MCPoor
    Handler = {h1, h2}
    Serves <- MCApart
    Calls = {"create", "update", "status", "enrollment", "batch"}
    Failing = FALSE
    MaxRules = 1
    MaxEvaluations = 3
PROPERTY ReplacedInTheEnd
CHECK_DEADLOCK FALSE
