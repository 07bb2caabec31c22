----------------------------- MODULE FinalGrades -----------------------------
(***************************************************************************)
(* Grading schemes and final grades for one class subject, over what the   *)
(* assignment and the exam have on record: the schemes of GradingService   *)
(* (apps/api/src/grading) and FinalGradesService over                      *)
(* PrismaFinalGradesRepository (apps/api/src/final-grades).                *)
(***************************************************************************)
EXTENDS Submissions, Grading

CONSTANTS
    Weight,        \* the weights that components are given, in percent
    MaxScore,      \* MaxScore[a]: the full score of the assessment a
    Approver, NoApprover

Assessment == {"work", "exam"}

ASSUME FinalGradesAssumption ==
    /\ Examinee \subseteq Participant
    /\ Weight \subseteq 1..100
    /\ MaxScore \in [Assessment -> Nat \ {0}]
    /\ NoApprover \notin Approver

VARIABLES
    component,     \* grading_components of the scheme
    finalGrade     \* final_grades

NoComponent == [weight |-> 0, required |-> FALSE]
NoGrade     == [status |-> "none", score |-> 0, by |-> NoApprover]

GradeStatus == {"CALCULATED", "APPROVED", "REOPENED"}

Weighed(c)  == {a \in Assessment : c[a] # NoComponent}
Weights(c)  == SumFunction([a \in Assessment |-> c[a].weight])

gradeTables == <<component, finalGrade>>

\* Where nobody adds components, there are two with the same weight; the one that
\* gets results is required.
FinalGradesInit ==
    /\ component = [a \in Assessment |->
            IF "component" \in calls THEN NoComponent
            ELSE [weight |-> 50, required |->
                    a = IF "grade" \in calls THEN "work" ELSE "exam"]]
    /\ finalGrade = [p \in Participant |-> NoGrade]

-----------------------------------------------------------------------------
(* GradingService.createComponent *)

\* getScheme, getAssessment and getSchemeComponents: the sum is what was there.
BeginComponent(h) == \E a \in Assessment, w \in Weight, r \in BOOLEAN :
    /\ "component" \in calls
    /\ Receive(h, [step |-> "duplicate", a |-> a, weight |-> w, required |-> r,
                   sum |-> Weights(component)])
    /\ UNCHANGED gradeTables

\* findComponentByAssessment, then the sum is judged.
CheckComponent(h) ==
    LET q == handler[h]
    IN  /\ At(h, "duplicate")
        /\ IF component[q.a] # NoComponent \/ q.sum + q.weight > 100
             THEN Finish(h) ELSE Goto(h, "component")
        /\ UNCHANGED gradeTables

\* The unique index refuses a second component for the assessment.
CreateComponent(h) ==
    LET q == handler[h]
    IN  /\ At(h, "component")
        /\ IF component[q.a] # NoComponent
             THEN Finish(h) /\ UNCHANGED component
             ELSE /\ component' = [component EXCEPT ![q.a] =
                        [weight |-> q.weight, required |-> q.required]]
                  /\ Commit(h)
        /\ UNCHANGED finalGrade

-----------------------------------------------------------------------------
(* calculate, recalculate *)

\* listAssessmentScores: what is graded or scored counts, the best result of each
\* assessment, as a percentage of its full score.
WorkScores(p) == {grade[id] : id \in {i \in Id : i[1] = p /\ grade[i] # Ungraded}}
ExamScores(p) == {attempt[x].score : x \in {x \in Examinee \cap {p} :
                    /\ attempt[x].status \in {"SUBMITTED", "EXPIRED"}
                    /\ attempt[x].score # Unscored}}

Best(S, a) == IF S = {} THEN -1 ELSE (Max(S) * 100) \div MaxScore[a]

Missing(c, best) == {a \in Weighed(c) : c[a].required /\ best[a] = -1}

\* In hundredths, as the column is.
Weighted(c, best) ==
    SumFunction([a \in Weighed(c) |-> IF best[a] = -1 THEN 0 ELSE best[a] * c[a].weight])

Calculating(p, s) == [step |-> s, p |-> p, scheme |-> component, score |-> 0,
                      best |-> [a \in Assessment |-> -1], row |-> NoGrade]

\* calculate: findSchemeById.
BeginCalculate(h) == \E p \in Participant :
    /\ "calculate" \in calls
    /\ Receive(h, Calculating(p, "submissions"))
    /\ UNCHANGED gradeTables

\* recalculate: findByEnrollmentClassSubject, refused when it is approved.
BeginRecalculate(h) == \E p \in Participant :
    /\ "recalculate" \in calls
    /\ finalGrade[p].status # "APPROVED"
    /\ Receive(h, Calculating(p, "scheme"))
    /\ UNCHANGED gradeTables

ReadScheme(h) ==
    /\ At(h, "scheme")
    /\ Reads(h, [handler[h] EXCEPT !.scheme = component, !.step = "submissions"])
    /\ UNCHANGED gradeTables

ReadSubmissions(h) ==
    /\ At(h, "submissions")
    /\ Reads(h, [handler[h] EXCEPT !.step = "attempts",
                    !.best["work"] = Best(WorkScores(handler[h].p), "work")])
    /\ UNCHANGED gradeTables

\* A required component without a score is refused.
ReadAttempts(h) ==
    LET q == handler[h]
        best == [q.best EXCEPT !["exam"] = Best(ExamScores(q.p), "exam")]
    IN  /\ At(h, "attempts")
        /\ IF Missing(q.scheme, best) # {} THEN Finish(h)
           ELSE Reads(h, [q EXCEPT !.best = best, !.step = "grade row",
                                   !.score = Weighted(q.scheme, best)])
        /\ UNCHANGED gradeTables

\* Mutation: the approver is not carried over.
ForgetApprover(row, score) ==
    [row EXCEPT !.score = score, !.by = NoApprover,
                !.status = IF @ = "APPROVED" THEN @ ELSE "CALCULATED"]

\* The row to write: an approved grade stays approved, with its approver, and
\* gets the new number all the same.
Renewed(row, score) ==
    [row EXCEPT !.score = score,
                !.status = IF @ = "APPROVED" THEN @ ELSE "CALCULATED"]

\* findByEnrollmentClassSubject
FindGrade(h) ==
    LET q == handler[h]
    IN  /\ At(h, "grade row")
        /\ Reads(h, [q EXCEPT !.row = finalGrade[q.p], !.step = "store grade"])
        /\ UNCHANGED gradeTables

\* upsertGrade: every column is written by id; a row that was not there when it
\* was looked for is created, once.
StoreGrade(h) ==
    LET q == handler[h]
    IN  /\ At(h, "store grade")
        /\ IF q.row = NoGrade /\ finalGrade[q.p] # NoGrade
             THEN Finish(h) /\ UNCHANGED finalGrade
             ELSE /\ finalGrade' = [finalGrade EXCEPT ![q.p] =
                                        Renewed(q.row, q.score)]
                  /\ Commit(h)
        /\ UNCHANGED component

-----------------------------------------------------------------------------
(* approve, reopen *)

\* findById: only the reopening looks at the status.
BeginApproveGrade(h) == \E p \in Participant, u \in Approver :
    /\ "approveGrade" \in calls
    /\ finalGrade[p] # NoGrade
    /\ Receive(h, [step |-> "grade status", p |-> p, status |-> "APPROVED", by |-> u])
    /\ UNCHANGED gradeTables

BeginReopenGrade(h) == \E p \in Participant :
    /\ "reopenGrade" \in calls
    /\ finalGrade[p].status = "APPROVED"
    /\ Receive(h, [step |-> "grade status", p |-> p, status |-> "REOPENED",
                   by |-> NoApprover])
    /\ UNCHANGED gradeTables

\* updateStatus: the status with its approver.
UpdateGradeStatus(h) ==
    LET q == handler[h]
    IN  /\ At(h, "grade status")
        /\ finalGrade' = [finalGrade EXCEPT ![q.p] = [@ EXCEPT !.status = q.status,
                                                               !.by = q.by]]
        /\ Commit(h)
        /\ UNCHANGED component

HandleGrade(h) ==
    \/ BeginComponent(h) \/ CheckComponent(h) \/ CreateComponent(h)
    \/ BeginCalculate(h) \/ BeginRecalculate(h) \/ ReadScheme(h)
    \/ ReadSubmissions(h) \/ ReadAttempts(h) \/ FindGrade(h) \/ StoreGrade(h)
    \/ BeginApproveGrade(h) \/ BeginReopenGrade(h) \/ UpdateGradeStatus(h)

ComponentRow == [weight: 0..100, required: BOOLEAN]
GradeRow     == [status: GradeStatus, score: Nat, by: Approver \cup {NoApprover}]

GradeRequest ==
    [step: {"duplicate", "component"}, a: Assessment, weight: Weight,
     required: BOOLEAN, sum: Nat]
    \cup [step: {"scheme", "submissions", "attempts", "grade row", "store grade"}, p: Participant,
          scheme: [Assessment -> ComponentRow], best: [Assessment -> Int],
          score: Nat, row: GradeRow \cup {NoGrade}]
    \cup [step: {"grade status"}, p: Participant, status: GradeStatus,
          by: Approver \cup {NoApprover}]

FinalGradesTypeOK ==
    /\ component \in [Assessment -> ComponentRow]
    /\ finalGrade \in [Participant -> GradeRow \cup {NoGrade}]

=============================================================================
