SPECIFICATION EngineSpec
CONSTANTS
    s1 = s1  s2 = s2  s3 = s3  law = law  ethics = ethics  exam = exam
    ClassSubject = {s1, s2, s3}
    SubjectOf <- MCSubjectOf
    Assessment = {exam}
    TieUp = {5999}
    Components <- MCComponents
    Percentage = {0, 8000}
    Grade <- MCGrade
    ExamScore = {0, 6000}
INVARIANT NothingObservedFails
PROPERTY RaiseKeepsPassed
CHECK_DEADLOCK FALSE
