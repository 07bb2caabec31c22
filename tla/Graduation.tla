----------------------------- MODULE Graduation -----------------------------
(***************************************************************************)
(* Graduation rules and evaluations: GraduationService over                *)
(* PrismaGraduationRepository (apps/api/src/graduation).                   *)
(*                                                                         *)
(* Authors create, edit, publish and archive rules; evaluators judge an    *)
(* enrollment, or every enrollment of a batch, against one rule.  Every    *)
(* awaited query is one action.  An evaluation is named by its enrollment  *)
(* and its place in the order in which that enrollment's rows are written. *)
(***************************************************************************)
EXTENDS GraduationRules, Sequences

CONSTANTS
    Enrollment,      \* rows of enrollments, all of one education batch
    Cohort,          \* the same, in the order of enrolledAt
    Offer,           \* the component lists that authors submit
    Results,         \* what the other modules may have on record of somebody
    Handler,         \* requests that can be in flight at the same time
    Serves,          \* Serves[h]: the enrollments that request h may evaluate
    Calls,           \* the kinds of call that are made in this instance
    Failing,         \* whether a request may be lost between two queries
    MaxRules,        \* bound: rules ever created
    MaxEvaluations   \* bound: evaluations of one enrollment

Rule         == 1..MaxRules            \* in the order of createdAt
EvaluationNo == 1..MaxEvaluations
EvaluationId == Enrollment \X EvaluationNo

ASSUME GraduationAssumption ==
    /\ Cohort \in Seq(Enrollment)
    /\ Serves \in [Handler -> SUBSET Enrollment]
    /\ Calls \subseteq {"create", "update", "status", "enrollment", "batch"}
    /\ Failing \in BOOLEAN
    /\ MaxRules \in Nat /\ MaxEvaluations \in Nat

VARIABLES
    rule,        \* graduation_rules with their components
    results,     \* attendance summaries, final grades and exam scores
    evaluation,  \* graduation_evaluations
    dropped,     \* history: whose verdict was superseded by a request that
                 \* was lost before it wrote another, and under which rule
    handler      \* the requests in flight

vars == <<rule, results, evaluation, dropped, handler>>

NoRule       == [status |-> "none"]
NoEvaluation == [outcome |-> "none"]
Latest       == 0                      \* no graduationRuleId was given

RuleRow == [status: {"DRAFT", "PUBLISHED", "ARCHIVED"}, reworded: BOOLEAN,
            components: Offer]

Verdicts == {"ELIGIBLE", "NOT_ELIGIBLE"}

EvaluationRow == [outcome: Verdicts \cup {"SUPERSEDED"}, eligible: BOOLEAN,
                  rule: Rule]

Written(id)  == evaluation[id] # NoEvaluation
Standing(id) == evaluation[id].outcome \in Verdicts
Count(e)     == Cardinality({n \in EvaluationNo : Written(<<e, n>>)})
Judged(e, k) == {n \in EvaluationNo : /\ Written(<<e, n>>)
                                      /\ evaluation[<<e, n>>].rule = k}
Stands(e, k) == \E n \in Judged(e, k) : Standing(<<e, n>>)
Rules        == {k \in Rule : rule[k] # NoRule}

Idle      == [step |-> "idle"]
At(h, s)  == handler[h].step = s
Finish(h) == handler' = [handler EXCEPT ![h] = Idle]

Init ==
    /\ rule = [k \in Rule |-> NoRule]
    /\ results \in [Enrollment -> Results]
    /\ evaluation = [id \in EvaluationId |-> NoEvaluation]
    /\ dropped = {}
    /\ handler = [h \in Handler |-> Idle]

-----------------------------------------------------------------------------
(* Rules *)

\* createRule: the components are validated, then one create writes them all.
\* They never change afterwards.
CreateRule == \E C \in Offer :
    LET k == Cardinality(Rules) + 1
    IN  /\ "create" \in Calls
        /\ k \in Rule /\ WellFormed(C)
        /\ rule' = [rule EXCEPT ![k] = [status |-> "DRAFT", components |-> C,
                                        reworded |-> FALSE]]
        /\ UNCHANGED <<results, evaluation, dropped, handler>>

\* updateRule: the rule is read and refused only when it is PUBLISHED.
ReadForUpdate(h) == \E k \in Rules :
    /\ "update" \in Calls /\ At(h, "idle")
    /\ rule[k].status # "PUBLISHED"
    /\ handler' = [handler EXCEPT ![h] = [step |-> "update", rule |-> k]]
    /\ UNCHANGED <<rule, results, evaluation, dropped>>

\* Then its name and description are written by id.
UpdateRule(h) ==
    /\ At(h, "update")
    /\ rule' = [rule EXCEPT ![handler[h].rule].reworded = TRUE]
    /\ Finish(h)
    /\ UNCHANGED <<results, evaluation, dropped>>

\* Moving to the status a rule already has is allowed.
Allowed(from, to) ==
    \/ from = to
    \/ from = "DRAFT" /\ to \in {"PUBLISHED", "ARCHIVED"}
    \/ from = "PUBLISHED" /\ to = "ARCHIVED"

\* changeStatus: the rule is read and the move judged.
ReadForStatus(h) == \E k \in Rules, to \in {"DRAFT", "PUBLISHED", "ARCHIVED"} :
    /\ "status" \in Calls /\ At(h, "idle")
    /\ rule[k].status # "ARCHIVED"
    /\ Allowed(rule[k].status, to)
    /\ to = "PUBLISHED" => WellFormed(rule[k].components)
    /\ handler' = [handler EXCEPT ![h] =
                    [step |-> "status", rule |-> k, to |-> to]]
    /\ UNCHANGED <<rule, results, evaluation, dropped>>

\* Then the status is written by id, whatever it has become.
ChangeStatus(h) ==
    /\ At(h, "status")
    /\ rule' = [rule EXCEPT ![handler[h].rule].status = handler[h].to]
    /\ Finish(h)
    /\ UNCHANGED <<results, evaluation, dropped>>

-----------------------------------------------------------------------------
(* Evaluations *)

Published == {k \in Rules : rule[k].status = "PUBLISHED"}

\* resolveRule: the named rule, or the newest published one.  Every rule has
\* version 1, so newest means created last.
Resolvable(choice) == IF choice = Latest THEN Published # {}
                                         ELSE choice \in Published
Resolve(choice)    == IF choice = Latest THEN Max(Published) ELSE choice

EmptyHanded(choice, queue) ==
    [step |-> "attendance", choice |-> choice, queue |-> queue, rule |-> Latest,
     seen |-> [attendance |-> None, grades |-> None, exams |-> None],
     eligible |-> FALSE]

\* POST evaluations/enrollment.
ReceiveEnrollment(h) == \E e \in Serves[h], choice \in Rules \cup {Latest} :
    /\ "enrollment" \in Calls /\ At(h, "idle")
    /\ handler' = [handler EXCEPT ![h] = EmptyHanded(choice, <<e>>)]
    /\ UNCHANGED <<rule, results, evaluation, dropped>>

\* POST evaluations/batch: the rule is resolved once, then every enrollment of
\* the batch is evaluated against it in turn.
ReceiveBatch(h) == \E choice \in Rules \cup {Latest} :
    /\ "batch" \in Calls /\ At(h, "idle")
    /\ Resolvable(choice) /\ Cohort # <<>>
    /\ handler' = [handler EXCEPT ![h] = EmptyHanded(Resolve(choice), Cohort)]
    /\ UNCHANGED <<rule, results, evaluation, dropped>>

Subject(h) == Head(handler[h].queue)

\* loadEvaluationContext: three queries, three moments.
ReadAttendance(h) ==
    /\ At(h, "attendance")
    /\ handler' = [handler EXCEPT ![h] = [@ EXCEPT
            !.seen.attendance = results[Subject(h)].attendance,
            !.step = "grades"]]
    /\ UNCHANGED <<rule, results, evaluation, dropped>>

ReadGrades(h) ==
    /\ At(h, "grades")
    /\ handler' = [handler EXCEPT ![h] = [@ EXCEPT
            !.seen.grades = results[Subject(h)].grades, !.step = "exams"]]
    /\ UNCHANGED <<rule, results, evaluation, dropped>>

ReadExams(h) ==
    /\ At(h, "exams")
    /\ handler' = [handler EXCEPT ![h] = [@ EXCEPT
            !.seen.exams = results[Subject(h)].exams, !.step = "rule"]]
    /\ UNCHANGED <<rule, results, evaluation, dropped>>

\* resolveRule and the verdict; an unpublished rule ends the whole request.
Judge(h) ==
    /\ At(h, "rule")
    /\ IF ~Resolvable(handler[h].choice) THEN Finish(h)
       ELSE LET k == Resolve(handler[h].choice)
            IN  handler' = [handler EXCEPT ![h] = [@ EXCEPT
                    !.rule = k, !.step = "supersede",
                    !.eligible = Eligible(rule[k].components, handler[h].seen)]]
    /\ UNCHANGED <<rule, results, evaluation, dropped>>

Superseded(row) == [row EXCEPT !.outcome = "SUPERSEDED"]

\* Mutation: the rule is missing from the WHERE.
SupersedeEveryRule(h) ==
    /\ At(h, "supersede")
    /\ evaluation' = [id \in EvaluationId |->
            IF id[1] = Subject(h) /\ Standing(id)
              THEN Superseded(evaluation[id]) ELSE evaluation[id]]
    /\ handler' = [handler EXCEPT ![h].step = "write"]
    /\ UNCHANGED <<rule, results, dropped>>

\* Mutation: the earlier verdicts are deleted.
SupersedeByDeletion(h) ==
    /\ At(h, "supersede")
    /\ evaluation' = [id \in EvaluationId |->
            IF /\ id[1] = Subject(h) /\ Standing(id)
               /\ evaluation[id].rule = handler[h].rule
              THEN NoEvaluation ELSE evaluation[id]]
    /\ handler' = [handler EXCEPT ![h].step = "write"]
    /\ UNCHANGED <<rule, results, dropped>>

\* supersedeOpenEvaluations: one updateMany, committed by itself.
Supersede(h) ==
    /\ At(h, "supersede")
    /\ evaluation' = [id \in EvaluationId |->
            IF /\ id[1] = Subject(h) /\ Standing(id)
               /\ evaluation[id].rule = handler[h].rule
              THEN Superseded(evaluation[id]) ELSE evaluation[id]]
    /\ handler' = [handler EXCEPT ![h].step = "write"]
    /\ UNCHANGED <<rule, results, dropped>>

\* What is left of the request after one enrollment.
Continue(h) ==
    handler' = [handler EXCEPT ![h] =
        IF Len(@.queue) = 1 THEN Idle
                            ELSE EmptyHanded(@.choice, Tail(@.queue))]

\* Mutation: the row keeps the rule that was asked for, not the one resolved.
CreateForChoice(h) ==
    LET e == Subject(h)
        k == Count(e) + 1
    IN  /\ At(h, "write")
        /\ k \in EvaluationNo
        /\ evaluation' = [evaluation EXCEPT ![<<e, k>>] =
                [outcome |-> IF handler[h].eligible THEN "ELIGIBLE"
                                                    ELSE "NOT_ELIGIBLE",
                 eligible |-> handler[h].eligible, rule |-> handler[h].choice]]
        /\ dropped' = dropped \ {<<e, handler[h].rule>>}
        /\ Continue(h)
        /\ UNCHANGED <<rule, results>>

\* Mutation: a verdict that repeats an earlier one is not written again.
CreateIfChanged(h) ==
    LET e == Subject(h)
        k == Count(e) + 1
        row == [outcome |-> IF handler[h].eligible THEN "ELIGIBLE"
                                                   ELSE "NOT_ELIGIBLE",
                eligible |-> handler[h].eligible, rule |-> handler[h].rule]
    IN  /\ At(h, "write")
        /\ k \in EvaluationNo
        /\ IF \E n \in EvaluationNo : evaluation[<<e, n>>] = Superseded(row)
             THEN UNCHANGED evaluation
             ELSE evaluation' = [evaluation EXCEPT ![<<e, k>>] = row]
        /\ dropped' = dropped \ {<<e, handler[h].rule>>}
        /\ Continue(h)
        /\ UNCHANGED <<rule, results>>

\* createEvaluation: the row and its details, in one transaction.
CreateEvaluation(h) ==
    LET e == Subject(h)
        k == Count(e) + 1
    IN  /\ At(h, "write")
        /\ k \in EvaluationNo
        /\ evaluation' = [evaluation EXCEPT ![<<e, k>>] =
                [outcome |-> IF handler[h].eligible THEN "ELIGIBLE"
                                                    ELSE "NOT_ELIGIBLE",
                 eligible |-> handler[h].eligible, rule |-> handler[h].rule]]
        /\ dropped' = dropped \ {<<e, handler[h].rule>>}
        /\ Continue(h)
        /\ UNCHANGED <<rule, results>>

-----------------------------------------------------------------------------

\* A lost connection or a restart between two queries.
Abandon(h) ==
    /\ Failing /\ ~At(h, "idle")
    /\ dropped' = IF At(h, "write") /\ Judged(Subject(h), handler[h].rule) # {}
                       /\ ~Stands(Subject(h), handler[h].rule)
                    THEN dropped \cup {<<Subject(h), handler[h].rule>>}
                    ELSE dropped
    /\ Finish(h)
    /\ UNCHANGED <<rule, results, evaluation>>

\* Attendance, grading and the exams go on meanwhile.
RecordResults(e) == \E x \in Results \ {results[e]} :
    /\ results' = [results EXCEPT ![e] = x]
    /\ UNCHANGED <<rule, evaluation, dropped, handler>>

Author(h)   == ReadForUpdate(h) \/ UpdateRule(h)
               \/ ReadForStatus(h) \/ ChangeStatus(h)
Continued(h) == \/ ReadAttendance(h) \/ ReadGrades(h) \/ ReadExams(h)
                \/ Judge(h) \/ Supersede(h) \/ CreateEvaluation(h)
Evaluate(h) == ReceiveEnrollment(h) \/ ReceiveBatch(h) \/ Continued(h)

Own  == CreateRule \/ \E h \in Handler : Author(h) \/ Evaluate(h) \/ Abandon(h)
Next == Own \/ \E e \in Enrollment : RecordResults(e)

Spec     == Init /\ [][Next]_vars
FairSpec == Spec /\ \A h \in Handler : WF_vars(Continued(h))

-----------------------------------------------------------------------------
(* Properties *)

Handling(q) ==
    CASE q.step = "idle"   -> q = Idle
      [] q.step = "update" -> q \in [step: {"update"}, rule: Rule]
      [] q.step = "status" -> q \in [step: {"status"}, rule: Rule,
                                     to: {"DRAFT", "PUBLISHED", "ARCHIVED"}]
      [] OTHER -> /\ q.step \in {"attendance", "grades", "exams", "rule",
                                 "supersede", "write"}
                  /\ q.choice \in Rule \cup {Latest}
                  /\ q.queue \in Seq(Enrollment) \ {<<>>}
                  /\ q.step \in {"supersede", "write"} => q.rule \in Rule
                  /\ q.eligible \in BOOLEAN

\* Every row keeps to its columns and every handler to the locals of its step.
TypeOK ==
    /\ rule \in [Rule -> RuleRow \cup {NoRule}]
    /\ results \in [Enrollment -> Results]
    /\ evaluation \in [EvaluationId -> EvaluationRow \cup {NoEvaluation}]
    /\ dropped \subseteq Enrollment \X Rule
    /\ \A h \in Handler : Handling(handler[h])

Writing(e, k) == \E h \in Handler :
    At(h, "write") /\ Subject(h) = e /\ handler[h].rule = k

\* Whoever was judged under a rule has a standing verdict under it, or one that
\* is about to be written: evaluators of one enrollment that interleave, and
\* those that work under another rule, take no verdict away.  The one gap there
\* can be is a request lost between its two writes.
VerdictStands ==
    \A e \in Enrollment, k \in Rule : Judged(e, k) # {} =>
        Stands(e, k) \/ Writing(e, k) \/ <<e, k>> \in dropped

\* The claim of graduation.service.ts:256: if the write fails, the previous
\* verdict is still the live one rather than being lost.
VerdictNeverLost ==
    \A e \in Enrollment, k \in Rule :
        Judged(e, k) # {} => Stands(e, k) \/ Writing(e, k)

\* History is kept: a row stays, under its rule and with its snapshot, and the
\* only thing that ever happens to it is to be superseded.
HistoryKept ==
    [][\A id \in EvaluationId : Written(id) =>
        evaluation'[id] \in {evaluation[id], Superseded(evaluation[id])}]_vars

\* A verdict that was taken away is replaced by a new one in the end, if no
\* request is lost and the bound on evaluations leaves room.
ReplacedInTheEnd ==
    \A e \in Enrollment, k \in Rule :
        Judged(e, k) # {} ~> Stands(e, k) \/ Count(e) = MaxEvaluations
=============================================================================
