------------------------------ MODULE MarkBook ------------------------------
(***************************************************************************)
(* What grading promises, one atomic step at a time (tasks/TASK-046, 050   *)
(* and 051): the score of an attempt is the sum of its marks, a manual     *)
(* mark prevails, the weights of a scheme stay within 100 percent, a final *)
(* grade is the weighted sum of what is on record, and an approval ends    *)
(* only with a reopening.                                                  *)
(***************************************************************************)
EXTENDS Integers, Functions

CONSTANTS Examinee, Participant, Question, Objective, Points, Weight, Approver,
          NoApprover

VARIABLES
    due,      \* what the scoring rule gives to each answer there is
    best,     \* the best result on record in each assessment, or -1
    mark, score, component, finalGrade

vars == <<mark, score, component, finalGrade>>

Assessment == {"work", "exam"}
NoMark     == [auto |-> -1, manual |-> -1, final |-> -1]
None       == [weight |-> 0, required |-> FALSE]
NoGrade    == [status |-> "none", score |-> 0, by |-> NoApprover]

Sum(row) == SumFunction([q \in Question |->
                            IF row[q] = NoMark THEN 0 ELSE row[q].final])

\* Marking has not begun, or it is done by the rules below.
Init ==
    /\ \A p \in Examinee : \A q \in Question :
            mark[p][q].final = IF mark[p][q].manual = -1 THEN mark[p][q].auto
                               ELSE mark[p][q].manual
    /\ \A p \in Examinee : score[p] # Sum(mark[p]) =>
            score[p] = -1 /\ \A q \in Question : mark[p][q] = NoMark
    /\ component \in [Assessment -> [weight: 0..100, required: BOOLEAN]]
    /\ finalGrade = [p \in Participant |-> NoGrade]

\* New marks for some answers, and the score with them.
Rewrite(p, marks) ==
    /\ mark' = [mark EXCEPT ![p] = [q \in Question |->
            IF q \in DOMAIN marks THEN marks[q] ELSE mark[p][q]]]
    /\ score' = [score EXCEPT ![p] = Sum(mark'[p])]
    /\ UNCHANGED <<component, finalGrade>>

\* The mark that the scoring rule gives, and that a grader gives.
ByRule(row, x) == [row EXCEPT !.auto = x, !.final = IF row.manual = -1 THEN x ELSE row.manual]
ByHand(row, x) == [row EXCEPT !.manual = x, !.final = x]

AutoGrade(p) ==
    Rewrite(p, [q \in Objective \cap DOMAIN due[p] |-> ByRule(mark[p][q], due[p][q])])

ManualGrade(p) == \E x \in 0..Points : \E q \in DOMAIN due[p] :
    Rewrite(p, [r \in {q} |-> ByHand(mark[p][q], x)])

AddComponent(a) == \E w \in Weight, r \in BOOLEAN :
    /\ component[a] = None
    /\ component' = [component EXCEPT ![a] = [weight |-> w, required |-> r]]
    /\ SumFunction([b \in Assessment |-> component'[b].weight]) <= 100
    /\ UNCHANGED <<mark, score, finalGrade>>

\* Only the number of an approved grade can still change.
Calculate(p) ==
    LET S == {a \in Assessment : component[a] # None}
    IN  /\ \A a \in S : component[a].required => best[p][a] # -1
        /\ finalGrade' = [finalGrade EXCEPT
                ![p].score = SumFunction([a \in S |-> IF best[p][a] = -1 THEN 0
                                                ELSE best[p][a] * component[a].weight]),
                ![p].status = IF @ = "APPROVED" THEN @ ELSE "CALCULATED"]
        /\ UNCHANGED <<mark, score, component>>

Approve(p) == \E u \in Approver :
    /\ finalGrade[p] # NoGrade
    /\ finalGrade' = [finalGrade EXCEPT ![p].status = "APPROVED", ![p].by = u]
    /\ UNCHANGED <<mark, score, component>>

Reopen(p) ==
    /\ finalGrade[p].status = "APPROVED"
    /\ finalGrade' = [finalGrade EXCEPT ![p].status = "REOPENED", ![p].by = NoApprover]
    /\ UNCHANGED <<mark, score, component>>

Next == \/ \E p \in Examinee : AutoGrade(p) \/ ManualGrade(p)
        \/ \E a \in Assessment : AddComponent(a)
        \/ \E p \in Participant : Calculate(p) \/ Approve(p) \/ Reopen(p)
=============================================================================
