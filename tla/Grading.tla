------------------------------- MODULE Grading -------------------------------
(***************************************************************************)
(* Marks on the answers of exam attempts: GradingService over              *)
(* PrismaGradingRepository (apps/api/src/grading).  A participant has one  *)
(* attempt here.                                                           *)
(*                                                                         *)
(* Marking is one READ COMMITTED transaction of several statements.  A row *)
(* that it has written is locked until it ends, and others see it only     *)
(* then; what it reads meanwhile others may change.                        *)
(***************************************************************************)
EXTENDS Integers, FiniteSetsExt, Functions, Requests

CONSTANTS
    Examinee,      \* those who have an attempt
    Question,      \* the questions on everybody's paper
    Objective,     \* those whose version has a scoring rule
    Points         \* what a question is worth

ASSUME GradingAssumption ==
    /\ IsFiniteSet(Question) /\ Objective \subseteq Question
    /\ Points \in Nat

VARIABLES
    attempt,       \* exam_attempts: the status, and the score or -1
    answer,        \* attempt_answers, and whether an answer matches the rule
    mark           \* answer_grades

NoMark   == [auto |-> -1, manual |-> -1, final |-> -1]
Unscored == -1

Answered(p) == {q \in Question : answer[p][q] # "none"}

\* scoreObjective: the points or nothing.
Score(a) == IF a = "right" THEN Points ELSE 0

Total(row) == SumFunction([q \in Question |->
                            IF row[q] = NoMark THEN 0 ELSE row[q].final])

markTables == <<attempt, answer, mark>>

\* Where nobody sits the exam, the attempts are over already; where nobody marks
\* it, they are marked as well, by the rule or by hand.
GradingInit ==
    LET marked == calls \cap {"sit", "autoGrade", "manualGrade"} = {}
        full(q) == IF q \in Objective THEN [NoMark EXCEPT !.auto = Points, !.final = Points]
                   ELSE [NoMark EXCEPT !.manual = Points, !.final = Points]
        row == [q \in Question |-> IF marked THEN full(q) ELSE NoMark]
    IN  /\ attempt = [p \in Examinee |->
                [status |-> IF "sit" \in calls THEN "IN_PROGRESS" ELSE "SUBMITTED",
                 score  |-> IF marked THEN Total(row) ELSE Unscored]]
        /\ answer = [p \in Examinee |-> [q \in Question |->
                        IF "sit" \in calls THEN "none" ELSE "right"]]
        /\ mark = [p \in Examinee |-> row]

-----------------------------------------------------------------------------
(* The attempts module goes on meanwhile: answers until the attempt ends. *)

SaveAnswer(p) == \E q \in Question, a \in {"right", "wrong"} :
    /\ attempt[p].status = "IN_PROGRESS"
    /\ answer' = [answer EXCEPT ![p][q] = a]
    /\ WriteOutside
    /\ UNCHANGED <<attempt, mark>>

CloseAttempt(p) == \E s \in {"SUBMITTED", "EXPIRED"} :
    /\ attempt[p].status = "IN_PROGRESS"
    /\ attempt' = [attempt EXCEPT ![p].status = s]
    /\ WriteOutside
    /\ UNCHANGED <<answer, mark>>

-----------------------------------------------------------------------------
(* autoGradeAttempt, manualGrade *)

\* The transaction q is to write what due gives to the answers in todo; seen
\* are the manual marks it found, own the rows it has written.
Marking(p, due, todo, manual) ==
    [step |-> "mark answers", p |-> p, due |-> due, todo |-> todo, manual |-> manual,
     seen |-> [q \in Question |-> mark[p][q].manual],
     own |-> [q \in Question |-> NoMark], total |-> Unscored]

\* The attempt is read with its answers and their grades, whatever its status;
\* what one findUnique includes is taken as one read.
BeginAutoGrade(h) == \E p \in Examinee :
    /\ "autoGrade" \in calls
    /\ Receive(h, Marking(p, [q \in Question |-> Score(answer[p][q])],
                          Objective \cap Answered(p), FALSE))
    /\ UNCHANGED markTables

\* boundedScore: within the points of the question.
BeginManualGrade(h) == \E p \in Examinee, x \in 0..Points : \E q \in Answered(p) :
    /\ "manualGrade" \in calls
    /\ Receive(h, Marking(p, [r \in Question |-> x], {q}, TRUE))
    /\ UNCHANGED markTables

Locked(p, q) == \E g \in Handler :
    /\ handler[g].step \in {"mark answers", "rescore"}
    /\ handler[g].p = p /\ handler[g].own[q] # NoMark

\* Mutation: an automatic mark replaces the manual one.
UpsertedBlindly(t, q, row) ==
    IF t.manual THEN [row EXCEPT !.manual = t.due[q], !.final = t.due[q]]
    ELSE [row EXCEPT !.auto = t.due[q], !.final = t.due[q]]

\* The row as an upsert leaves it.  An automatic mark gives way to the manual one
\* that was found when the attempt was read.
Upserted(t, q, row) ==
    IF t.manual THEN [row EXCEPT !.manual = t.due[q], !.final = t.due[q]]
    ELSE [row EXCEPT !.auto = t.due[q],
            !.final = IF row # NoMark /\ t.seen[q] # -1
                        THEN t.seen[q] ELSE t.due[q]]

UpsertMark(h) ==
    LET t == handler[h]
    IN  /\ At(h, "mark answers")
        /\ \E q \in t.todo :
            /\ ~Locked(t.p, q)
            /\ Reads(h, [t EXCEPT !.todo = @ \ {q},
                                  !.own[q] = Upserted(t, q, mark[t.p][q])])
        /\ UNCHANGED markTables

\* The rows as the transaction sees them.
Seen(t) == [q \in Question |-> IF t.own[q] = NoMark THEN mark[t.p][q] ELSE t.own[q]]

\* recompute: the final scores are summed.
SumMarks(h) ==
    LET t == handler[h]
    IN  /\ At(h, "mark answers") /\ t.todo = {}
        /\ Reads(h, [t EXCEPT !.step = "rescore", !.total = Total(Seen(t))])
        /\ UNCHANGED markTables

\* The attempt gets the sum, and the transaction commits.
CommitMarks(h) ==
    LET t == handler[h]
    IN  /\ At(h, "rescore")
        /\ mark' = [mark EXCEPT ![t.p] = Seen(t)]
        /\ attempt' = [attempt EXCEPT ![t.p].score = t.total]
        /\ Commit(h)
        /\ UNCHANGED answer

HandleMark(h) == \/ BeginAutoGrade(h) \/ BeginManualGrade(h) \/ UpsertMark(h)
                 \/ SumMarks(h) \/ CommitMarks(h)

Sit(p) == "sit" \in calls /\ (SaveAnswer(p) \/ CloseAttempt(p))

MarkRow == [auto: -1..Points, manual: -1..Points, final: -1..Points]

MarkRequest ==
    [step: {"mark answers", "rescore"}, p: Examinee, due: [Question -> 0..Points],
     todo: SUBSET Question, manual: BOOLEAN, seen: [Question -> -1..Points],
     own: [Question -> MarkRow], total: Int]

GradingTypeOK ==
    /\ attempt \in [Examinee -> [status: {"IN_PROGRESS", "SUBMITTED", "EXPIRED"},
                                 score: Int]]
    /\ answer \in [Examinee -> [Question -> {"none", "right", "wrong"}]]
    /\ mark \in [Examinee -> [Question -> MarkRow]]
=============================================================================
