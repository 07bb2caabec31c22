----------------------------- MODULE Enrollments -----------------------------
(***************************************************************************)
(* Enrollments in one batch: EnrollmentsService (apps/api/src/enrollments). *)
(* Handlers read a row, judge it and write by id.                          *)
(***************************************************************************)
EXTENDS Requests

CONSTANTS Enrollee,         \* persons, each enrolled once in the batch
          Class, NoClass    \* the classes of the batch

ASSUME EnrollmentsAssumption == NoClass \notin Class

VARIABLE enrolled           \* enrollments; completed: completedAt is set

EnrollmentStatus == {"ACTIVE", "WITHDRAWN", "COMPLETED"}
NotEnrolled == [status |-> "none", class |-> NoClass, completed |-> FALSE]

Registered(s, c) == [status |-> s, class |-> c, completed |-> s = "COMPLETED"]

\* Where nobody enrolls, everyone is in a class.
EnrollmentsInit ==
    enrolled \in IF "enroll" \in calls THEN [Enrollee -> {NotEnrolled}]
                 ELSE [Enrollee -> {Registered("ACTIVE", c) : c \in Class}]

\* ALLOWED_TRANSITIONS
CanMove(from, to) ==
    \/ from = "ACTIVE" /\ to \in {"WITHDRAWN", "COMPLETED"}
    \/ from \in {"WITHDRAWN", "COMPLETED"} /\ to = "ACTIVE"

-----------------------------------------------------------------------------
\* create: findByPersonAndBatch, then a row that the unique index may refuse.
BeginEnroll(h) == \E e \in Enrollee, s \in EnrollmentStatus, c \in Class \cup {NoClass} :
    /\ "enroll" \in calls
    /\ enrolled[e] = NotEnrolled
    /\ Receive(h, [step |-> "enroll", e |-> e, row |-> Registered(s, c)])
    /\ UNCHANGED enrolled

CreateEnrollment(h) ==
    LET q == handler[h]
    IN  /\ At(h, "enroll")
        /\ IF enrolled[q.e] # NotEnrolled
             THEN Finish(h) /\ UNCHANGED enrolled
             ELSE enrolled' = [enrolled EXCEPT ![q.e] = q.row] /\ Commit(h)

\* changeStatus: the new status and the completion date, both from the row read.
BeginEnrollmentStatus(h) == \E e \in Enrollee, to \in EnrollmentStatus :
    /\ "enrollment status" \in calls
    /\ CanMove(enrolled[e].status, to)
    /\ Receive(h, [step |-> "enrollment status", e |-> e, to |-> to, row |-> enrolled[e]])
    /\ UNCHANGED enrolled

\* Mutation: reopening a completed enrollment keeps its completion date.
CompletedOnce(row, to) == to = "COMPLETED" \/ row.completed

Completed(row, to) ==
    \/ to = "COMPLETED"
    \/ row.completed /\ ~(to = "ACTIVE" /\ row.status = "COMPLETED")

SetEnrollmentStatus(h) ==
    LET q == handler[h]
    IN  /\ At(h, "enrollment status")
        /\ enrolled' = [enrolled EXCEPT ![q.e].status = q.to,
                                        ![q.e].completed = Completed(q.row, q.to)]
        /\ Commit(h)

\* transferClass: only of an active enrollment.
BeginTransfer(h) == \E e \in Enrollee, c \in Class :
    /\ "transfer" \in calls
    /\ enrolled[e].status = "ACTIVE" /\ enrolled[e].class # c
    /\ Receive(h, [step |-> "transfer", e |-> e, class |-> c])
    /\ UNCHANGED enrolled

Transfer(h) ==
    LET q == handler[h]
    IN  /\ At(h, "transfer")
        /\ enrolled' = [enrolled EXCEPT ![q.e].class = q.class]
        /\ Commit(h)

HandleEnrollment(h) ==
    \/ BeginEnroll(h) \/ CreateEnrollment(h) \/ BeginEnrollmentStatus(h) \/ SetEnrollmentStatus(h)
    \/ BeginTransfer(h) \/ Transfer(h)

EnrollmentRow == [status: EnrollmentStatus, class: Class \cup {NoClass},
                  completed: BOOLEAN]

EnrollmentRequest ==
    [step: {"enroll"}, e: Enrollee, row: EnrollmentRow]
    \cup [step: {"enrollment status"}, e: Enrollee, to: EnrollmentStatus, row: EnrollmentRow]
    \cup [step: {"transfer"}, e: Enrollee, class: Class]

EnrollmentsTypeOK == enrolled \in [Enrollee -> EnrollmentRow \cup {NotEnrolled}]
=============================================================================
