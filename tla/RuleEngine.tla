----------------------------- MODULE RuleEngine -----------------------------
(***************************************************************************)
(* The rule engine over the results of one participant as other modules    *)
(* record better ones: what loadEvaluationContext finds                    *)
(* (apps/api/src/graduation/graduation.repository.ts) and what             *)
(* evaluateEnrollment says of it (graduation-rules.ts).                    *)
(***************************************************************************)
EXTENDS GraduationRules

CONSTANTS
    Components,     \* the components that a rule is made from
    Percentage,     \* attendance percentages
    Grade,          \* final grades
    ExamScore       \* scores of exam attempts

ASSUME EngineAssumption ==
    /\ WellFormed(Components)
    /\ Percentage \cup Grade \cup ExamScore \subseteq Nat

VARIABLE context    \* the EnrollmentEvaluationContext

Context == [attendance: Percentage \cup {None},
            grades: [ClassSubject -> Grade \cup {None}],
            exams: [Assessment -> ExamScore \cup {None}]]

EngineInit == context \in Context

\* A grade that was there is raised.
RaiseGrade(s) == \E g \in Grade :
    /\ context.grades[s] # None /\ g > context.grades[s]
    /\ context' = [context EXCEPT !.grades[s] = g]

\* An attempt is scored, and it is the first or the best.
RaiseExam(a) == \E x \in ExamScore :
    /\ x > context.exams[a]
    /\ context' = [context EXCEPT !.exams[a] = x]

\* A percentage is computed, the first or a better one.
RaiseAttendance == \E p \in Percentage :
    /\ p > context.attendance
    /\ context' = [context EXCEPT !.attendance = p]

EngineNext == \/ \E s \in ClassSubject : RaiseGrade(s)
              \/ \E a \in Assessment : RaiseExam(a)
              \/ RaiseAttendance

EngineSpec == EngineInit /\ [][EngineNext]_context

-----------------------------------------------------------------------------
(* Properties *)

\* A better result never costs anybody a component: not through the rounding of
\* the mean, and not by counting in what was left out before.
RaiseKeepsPassed ==
    [][\A c \in Components : Passed(c, context) => Passed(c, context)']_context

\* There is something on record that c asks for.
OnRecord(c) ==
    \/ c.type = "ATTENDANCE_PERCENTAGE" /\ context.attendance # None
    \/ c.type = "FINAL_SCORE" /\ \E s \in ClassSubject : context.grades[s] # None
    \/ /\ c.type = "REQUIRED_SUBJECT"
       /\ \E s \in ClassSubject : SubjectOf[s] = c.ref /\ context.grades[s] # None
    \/ c.type = "FINAL_EXAM" /\ context.exams[c.ref] # None

\* Nobody is eligible under a rule that requires something nobody observed,
\* even when its threshold is zero or absent (graduation-rules.ts:14).
NothingObservedFails ==
    \A C \in SUBSET Components :
        Eligible(C, context) => \A c \in C : c.required => OnRecord(c)
=============================================================================
