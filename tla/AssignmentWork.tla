--------------------------- MODULE AssignmentWork ---------------------------
(***************************************************************************)
(* What the handling of assignments promises, one atomic step at a time    *)
(* (tasks/TASK-024): attempts follow each other within the limit, work     *)
(* that has been handed in is frozen, its files from the moment it is      *)
(* graded, grades stay under the ceiling, and nothing goes back a status.  *)
(***************************************************************************)
EXTENDS Integers, FiniteSets

CONSTANTS Participant, Answer, NoText, File, MaxPoints, MaxAttempts

VARIABLES
    limited,   \* whether the limit binds: drafts are not held to it
    assignment, submission, attached, grade

vars == <<limited, assignment, submission, attached, grade>>

Id       == Participant \X (1..MaxAttempts)
Status(id) == submission[id].status
Recorded == {id \in Id : Status(id) # "none"}
Open     == {id \in Id : Status(id) \in {"DRAFT", "SUBMITTED"}}

Init ==
    /\ limited \in BOOLEAN
    /\ assignment \in [status: {"DRAFT", "PUBLISHED"}, allowed: {1},
                       ceiling: {MaxPoints}]
    /\ submission \in [Id -> [status: {"none"}, text: {NoText}]
                            \cup [status: {"SUBMITTED"}, text: Answer \ {NoText}]]
    /\ \A id \in Recorded : id[2] = 1
    /\ attached = [id \in Id |-> {}]
    /\ grade = [id \in Id |-> -1]

\* The next attempt, as a draft or handed in; a draft is taken further only by
\* its owner, and while it is one nothing else is begun.
Begin(p) == \E n \in 1..MaxAttempts, s \in {"DRAFT", "SUBMITTED"}, t \in Answer :
    /\ \A m \in 1..MaxAttempts : m < n <=> <<p, m>> \in Recorded
    /\ \A m \in 1..MaxAttempts : Status(<<p, m>>) # "DRAFT"
    /\ limited => n <= assignment.allowed
    /\ s = "SUBMITTED" => t # NoText
    /\ submission' = [submission EXCEPT ![<<p, n>>] = [status |-> s, text |-> t]]
    /\ UNCHANGED <<assignment, attached, grade>>

\* A draft is rewritten or handed in, with a text or a file.
Continue(id) == \E s \in {"DRAFT", "SUBMITTED"}, t \in Answer :
    /\ Status(id) = "DRAFT"
    /\ s = "SUBMITTED" => t # NoText \/ attached[id] # {}
    /\ submission' = [submission EXCEPT ![id] = [status |-> s, text |-> t]]
    /\ UNCHANGED <<assignment, attached, grade>>

ChangeFiles(id) == \E S \in SUBSET File :
    /\ id \in Open
    /\ attached' = [attached EXCEPT ![id] = S]
    /\ UNCHANGED <<assignment, submission, grade>>

\* A grade can be given again, also after the work has gone back.
Grade(id) == \E x \in 0..assignment.ceiling :
    /\ Status(id) \in {"SUBMITTED", "GRADED", "RETURNED"}
    /\ grade' = [grade EXCEPT ![id] = x]
    /\ UNCHANGED <<assignment, submission, attached>>

Advance(id) == \E to \in {"GRADED", "RETURNED"} :
    /\ grade[id] >= 0
    /\ Status(id) = IF to = "GRADED" THEN "SUBMITTED" ELSE "GRADED"
    /\ submission' = [submission EXCEPT ![id].status = to]
    /\ UNCHANGED <<assignment, attached, grade>>

\* The ceiling never drops below a grade, the limit never below what is there.
Change == \E s \in {"DRAFT", "PUBLISHED", "CLOSED", "ARCHIVED"},
             x \in 0..MaxPoints, n \in 1..MaxAttempts :
    /\ assignment.status # "ARCHIVED"
    /\ s = "DRAFT" => assignment.status = "DRAFT"
    /\ x # assignment.ceiling => \A id \in Id : grade[id] <= x
    /\ n # assignment.allowed => Cardinality(Recorded) <= n
    /\ assignment' = [status |-> s, ceiling |-> x, allowed |-> n]
    /\ UNCHANGED <<submission, attached, grade>>

Next == UNCHANGED limited /\ (
    \/ \E p \in Participant : Begin(p)
    \/ \E id \in Id : Continue(id) \/ ChangeFiles(id) \/ Grade(id) \/ Advance(id)
    \/ Change)

Spec == Init /\ [][Next]_vars
=============================================================================
