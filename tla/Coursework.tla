----------------------------- MODULE Coursework -----------------------------
(***************************************************************************)
(* What a participant hands in and the marks for it: Submissions with the  *)
(* files of StoredFiles, Grading, and FinalGrades over both.               *)
(***************************************************************************)
EXTENDS FinalGrades

courseTables == <<tables, file, object, markTables, gradeTables>>

CourseworkInit ==
    SubmissionsInit /\ FilesInit /\ GradingInit /\ FinalGradesInit

\* The calls that each part answers.
SubmissionCalls == {"submit", "saveDraft", "edit", "files", "grade"}
AssignmentCalls == {"status", "maxScore", "attemptsAllowed"}
MarkCalls       == {"autoGrade", "manualGrade"}
GradeCalls      == {"component", "calculate", "recalculate", "approveGrade", "reopenGrade"}

CourseworkHandler(h) ==
    \/ /\ \/ Asked(SubmissionCalls) /\ HandleSubmission(h)
          \/ Asked(AssignmentCalls) /\ HandleAssignment(h)
       /\ UNCHANGED <<file, object, markTables, gradeTables>>
    \/ /\ Asked({"upload"}) /\ HandleFile(h)
       /\ UNCHANGED <<tables, markTables, gradeTables>>
    \/ /\ Asked(MarkCalls) /\ HandleMark(h)
       /\ UNCHANGED <<tables, file, object, gradeTables>>
    \/ /\ Asked(GradeCalls) /\ HandleGrade(h)
       /\ UNCHANGED <<tables, file, object, markTables>>

CourseworkOutside ==
    \/ /\ Asked({"upload"}) /\ (InitiateUpload \/ PutObject)
       /\ UNCHANGED <<tables, markTables, gradeTables>>
    \/ /\ \E p \in Examinee : Sit(p)
       /\ UNCHANGED <<tables, file, object, gradeTables>>

CourseworkRequest == SubmissionRequest \cup FileRequest \cup MarkRequest
                     \cup GradeRequest

CourseworkTypeOK ==
    SubmissionsTypeOK /\ FilesTypeOK /\ GradingTypeOK /\ FinalGradesTypeOK

-----------------------------------------------------------------------------
(* Properties *)

\* Marks stand on grades: only work that was handed in has a grade and what is
\* graded or returned has one, although the status and the grade are written
\* by separate commits of requests that overlap and may be lost in between.
MarksHaveGrades ==
    \A id \in Id : /\ Marked(Status(id)) => grade[id] # Ungraded
                   /\ grade[id] # Ungraded => HandedIn(Status(id))

\* Whatever is attached was confirmed by the storage at some time and its object
\* is there, however uploads, confirmations and archiving overlap with it.
AttachedWasConfirmed ==
    \A id \in Id : \A f \in attached[id] :
        file[f].confirmed /\ object[f] # "absent"

\* Requests that no other one crosses keep the promise of TASK-024; the limit of
\* attempts only if nobody saves drafts, which are not held to it.
Work == INSTANCE AssignmentWork WITH limited <- "saveDraft" \notin calls
KeepsAssignmentWork ==
    Work!Init /\ [][Promised(Work!Next, Work!vars)]_(Work!vars)

\* A final grade is approved if and only if it names who approved it, although a
\* calculation writes back a row that it has read some queries earlier, before an
\* approval or a reopening.
ApprovedByName ==
    \A p \in Participant :
        (finalGrade[p].status = "APPROVED") <=> (finalGrade[p].by # NoApprover)

\* Requests that no other one crosses keep the promises of TASK-046, 050 and 051.
Marks == INSTANCE MarkBook WITH
    score <- [p \in Examinee |-> attempt[p].score],
    due   <- [p \in Examinee |-> [q \in Answered(p) |-> Score(answer[p][q])]],
    best  <- [p \in Participant |->
                [work |-> Best(WorkScores(p), "work"),
                 exam |-> Best(ExamScores(p), "exam")]]
KeepsMarkBook ==
    Marks!Init /\ [][Promised(Marks!Next, Marks!vars)]_(Marks!vars)
=============================================================================
