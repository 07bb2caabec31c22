--------------------------- MODULE GraduationRules ---------------------------
(***************************************************************************)
(* The pure part of the graduation rule engine: what one participant's     *)
(* results say about one rule (apps/api/src/graduation/graduation-rules.ts)*)
(*                                                                         *)
(* Scores, percentages and thresholds have two decimals in the database;   *)
(* here they are whole hundredths.  The mean is computed in binary floating*)
(* point: when it lies exactly between two hundredths its float may fall   *)
(* on either side, which TieUp decides for each lower neighbour.           *)
(***************************************************************************)
EXTENDS Integers, FiniteSetsExt, Functions

CONSTANTS
    ClassSubject,   \* the class subjects an enrollment is graded in
    SubjectOf,      \* SubjectOf[s]: the curriculum subject of class subject s
    Assessment,     \* assessments that a final exam may belong to
    TieUp           \* floors of the tied means whose float rounds up

ASSUME RulesAssumption ==
    /\ IsFiniteSet(ClassSubject)
    /\ TieUp \subseteq Nat

None == -1          \* null: nothing was observed, or no threshold was set

HundredPercent == 10000

ComponentType == {"ATTENDANCE_PERCENTAGE", "FINAL_SCORE", "REQUIRED_SUBJECT",
                  "FINAL_EXAM"}

\* A component's threshold is a percentage and its reference is given when its
\* type needs one; the label tells components of one rule apart.
WellFormed(components) ==
    /\ components # {}
    /\ \A c \in components :
        /\ c.type \in ComponentType
        /\ c.threshold \in 0..HundredPercent \cup {None}
        /\ c.type \in {"ATTENDANCE_PERCENTAGE", "FINAL_SCORE"}
            => c.threshold # None
        /\ c.type = "REQUIRED_SUBJECT" => c.ref # None
        /\ c.type = "FINAL_EXAM" => c.ref \in Assessment
    /\ \A c, d \in components :
        c.type = d.type /\ c.label = d.label => c = d

\* Mutation: a score of zero is falsy, hence taken for a missing one.
GradedAboveZero(ctx) == {s \in ClassSubject : ctx.grades[s] > 0}

Graded(ctx) == {s \in ClassSubject : ctx.grades[s] # None}

\* Number((sum / n).toFixed(2)), in hundredths.
Rounded(sum, n) ==
    LET q == sum \div n
        r == 2 * (sum % n)
    IN  IF r > n \/ (r = n /\ q \in TieUp) THEN q + 1 ELSE q

MeanScore(ctx) ==
    IF Graded(ctx) = {} THEN None
    ELSE Rounded(SumFunction([s \in Graded(ctx) |-> ctx.grades[s]]),
                 Cardinality(Graded(ctx)))

BestOf(S) == IF S = {} THEN None ELSE Max(S)

Observed(c, ctx) ==
    CASE c.type = "ATTENDANCE_PERCENTAGE" -> ctx.attendance
      [] c.type = "FINAL_SCORE" -> MeanScore(ctx)
      [] c.type = "REQUIRED_SUBJECT" ->
            BestOf({ctx.grades[s] : s \in {t \in Graded(ctx) :
                                            SubjectOf[t] = c.ref}})
      [] c.type = "FINAL_EXAM" -> ctx.exams[c.ref]

\* Mutation: a missing observation counts as zero.
PassedFromZero(c, ctx) ==
    LET zeroed == IF Observed(c, ctx) = None THEN 0 ELSE Observed(c, ctx)
    IN  zeroed >= (IF c.threshold = None THEN 0 ELSE c.threshold)

Passed(c, ctx) ==
    /\ Observed(c, ctx) # None
    /\ Observed(c, ctx) >= (IF c.threshold = None THEN 0 ELSE c.threshold)

\* Only the required components decide.
Eligible(components, ctx) == \A c \in components : c.required => Passed(c, ctx)
=============================================================================
