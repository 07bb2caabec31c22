------------------------------ MODULE RollBook ------------------------------
(***************************************************************************)
(* What enrollments and attendance promise together (TASK-030, TASK-032),  *)
(* each request as one atomic step: only an open session takes marks, for  *)
(* active enrollments of its class; a mark changes later by a correction   *)
(* only, which names the mark that it replaces.                            *)
(***************************************************************************)
EXTENDS Sequences

CONSTANTS Enrollee, Class, NoClass, Lesson, ClassOf, Presence

VARIABLES enrolled, lesson, record, correction

vars == <<enrolled, lesson, record, correction>>

Init ==
    /\ \A e \in Enrollee : enrolled[e].status \in {"none", "ACTIVE"}
    /\ \A l \in Lesson : lesson[l] \in {"none", "OPEN"}
    /\ \A l \in Lesson : \A e \in Enrollee : correction[l][e] = <<>>

Enroll(e) ==
    /\ enrolled[e].status = "none"
    /\ enrolled'[e].status # "none"
    /\ enrolled' = [enrolled EXCEPT ![e] = enrolled'[e]]
    /\ UNCHANGED <<lesson, record, correction>>

\* Completed and withdrawn are left for active only.
Move(e) ==
    /\ enrolled[e].status # enrolled'[e].status
    /\ "ACTIVE" \in {enrolled[e].status, enrolled'[e].status}
    /\ enrolled[e].class = enrolled'[e].class
    /\ enrolled' = [enrolled EXCEPT ![e] = enrolled'[e]]
    /\ UNCHANGED <<lesson, record, correction>>

Transfer(e) == \E c \in Class :
    /\ enrolled[e].status = "ACTIVE"
    /\ enrolled' = [enrolled EXCEPT ![e].class = c]
    /\ UNCHANGED <<lesson, record, correction>>

SetLesson(l) == \E s \in {"DRAFT", "OPEN", "CLOSED", "CANCELLED"} :
    /\ lesson' = [lesson EXCEPT ![l] = s]
    /\ UNCHANGED <<enrolled, record, correction>>

Take(l) ==
    /\ lesson[l] = "OPEN"
    /\ \A e \in Enrollee : record'[l][e] # record[l][e] =>
            /\ record'[l][e] \in Presence
            /\ enrolled[e].status = "ACTIVE"
            /\ enrolled[e].class \in {ClassOf[l], NoClass}
    /\ record' = [record EXCEPT ![l] = record'[l]]
    /\ UNCHANGED <<enrolled, lesson, correction>>

Correct(l, e) == \E m \in Presence :
    /\ lesson[l] # "CANCELLED"
    /\ record[l][e] \notin {"none", m}
    /\ record' = [record EXCEPT ![l][e] = m]
    /\ correction' = [correction EXCEPT ![l][e] =
                        Append(@, [from |-> record[l][e], to |-> m])]
    /\ UNCHANGED <<enrolled, lesson>>

Next ==
    \/ \E e \in Enrollee : Enroll(e) \/ Move(e) \/ Transfer(e)
    \/ \E l \in Lesson : SetLesson(l) \/ Take(l) \/ \E e \in Enrollee : Correct(l, e)
=============================================================================
