----------------------------- MODULE Submissions -----------------------------
(***************************************************************************)
(* The work that participants hand in for one assignment, its files and    *)
(* its grades: AssignmentsService and SubmissionsService over              *)
(* PrismaAssignmentsRepository (apps/api/src/assignments).                 *)
(*                                                                         *)
(* A submission is named by <<participant, attempt number>>, which         *)
(* assignment_submissions declares unique; a grade by its submission, a    *)
(* file link by the submission and the file, all three unique.             *)
(***************************************************************************)
EXTENDS Integers, FiniteSets, StoredFiles

CONSTANTS
    Participant,  \* active enrollments of the assignment's class
    Text,         \* text answers that are not blank
    MaxPoints,    \* bound: scores and ceilings are at most this
    MaxAttempts   \* bound: attempts of one participant

NoText == "no text"

ASSUME SubmissionsAssumption ==
    /\ IsFiniteSet(Participant) /\ NoText \notin Text
    /\ MaxPoints \in Nat /\ MaxAttempts \in Nat \ {0}

VARIABLES
    assignment,   \* the row of assignments
    submission,   \* assignment_submissions
    attached,     \* assignment_submission_files: the files of a submission
    grade         \* assignment_grades: the score

Ungraded  == -1
NoWork    == [status |-> "none", text |-> NoText]
AttemptNo == 1..MaxAttempts
Id        == Participant \X AttemptNo
Answer    == Text \cup {NoText}

Exists(id)  == submission[id] # NoWork
Status(id)  == submission[id].status
HandedIn(s) == s \in {"SUBMITTED", "GRADED", "RETURNED"}
Marked(s)   == s \in {"GRADED", "RETURNED"}

Numbers(p)  == {n \in AttemptNo : Exists(<<p, n>>)}
Drafts(p)   == {n \in Numbers(p) : Status(<<p, n>>) = "DRAFT"}
Latest(S)     == IF S = {} THEN 0 ELSE CHOOSE n \in S : \A m \in S : m <= n

work   == <<submission, attached, grade>>
tables == <<assignment, work>>

\* Where nobody moves the assignment, it is published already; where nobody
\* submits, everybody has.
SubmissionsInit ==
    /\ assignment = [status |-> IF "status" \in calls THEN "DRAFT" ELSE "PUBLISHED",
                     allowed |-> 1, ceiling |-> MaxPoints]
    /\ submission \in [Id -> {NoWork} \cup [status: {"SUBMITTED"}, text: Text]]
    /\ \A id \in Id : Exists(id) <=> "submit" \notin calls /\ id[2] = 1
    /\ attached = [id \in Id |-> {}]
    /\ grade = [id \in Id |-> Ungraded]

-----------------------------------------------------------------------------
(* submit, saveDraft *)

\* findById of the assignment; its limit is kept for later.
BeginSubmit(h) == \E p \in Participant, t \in Answer :
    /\ "submit" \in calls
    /\ assignment.status = "PUBLISHED"
    /\ Receive(h, [step |-> "latest", p |-> p, no |-> 0, text |-> t,
                   status |-> "SUBMITTED", allowed |-> assignment.allowed])
    /\ UNCHANGED tables

\* findLatestSubmission: an open draft passes without a look at the limit.
FindLatest(h) ==
    LET p == handler[h].p
        last == Latest(Numbers(p))
    IN  /\ At(h, "latest")
        /\ IF last # 0 /\ last \notin Drafts(p)
             THEN Goto(h, "limit") ELSE Goto(h, "draft")
        /\ UNCHANGED tables

\* Mutation: one attempt more than allowed.
CheckLimitLate(h) ==
    /\ At(h, "limit")
    /\ IF Latest(Numbers(handler[h].p)) > handler[h].allowed
         THEN Finish(h) ELSE Goto(h, "draft")
    /\ UNCHANGED tables

CheckLimit(h) ==
    /\ At(h, "limit")
    /\ IF Latest(Numbers(handler[h].p)) >= handler[h].allowed
         THEN Finish(h) ELSE Goto(h, "draft")
    /\ UNCHANGED tables

BeginDraft(h) == \E p \in Participant, t \in Answer :
    /\ "saveDraft" \in calls
    /\ assignment.status = "PUBLISHED"
    /\ Receive(h, [step |-> "draft", p |-> p, no |-> 0, text |-> t,
                   status |-> "DRAFT", allowed |-> 0])
    /\ UNCHANGED tables

\* The text a draft is handed in with is the one it had when it was found.
Carried(q, id) == IF q.status = "SUBMITTED" /\ q.text = NoText
                    THEN submission[id].text ELSE q.text

\* findDraftOrNull: the newest draft is reused, with its number.
FindDraft(h) ==
    LET q  == handler[h]
        no == Latest(Drafts(q.p))
        found == [q EXCEPT !.no = no, !.text = Carried(q, <<q.p, no>>)]
    IN  /\ At(h, "draft")
        /\ \/ /\ q.status = "SUBMITTED" /\ q.text = NoText
              /\ IF no = 0 THEN Finish(h)
                           ELSE Reads(h, [found EXCEPT !.step = "files"])
           \/ /\ q.status = "DRAFT" \/ q.text # NoText
              /\ IF no = 0 THEN Goto(h, "number")
                           ELSE Reads(h, [found EXCEPT !.step = "update"])
        /\ UNCHANGED tables

\* listFiles: work without text needs a file.
CountFiles(h) ==
    /\ At(h, "files")
    /\ IF attached[<<handler[h].p, handler[h].no>>] = {}
         THEN Finish(h) ELSE Goto(h, "update")
    /\ UNCHANGED tables

\* maxAttemptNo
ReadNumber(h) ==
    LET no == Latest(Numbers(handler[h].p)) + 1
    IN  /\ At(h, "number")
        /\ no <= MaxAttempts
        /\ Reads(h, [handler[h] EXCEPT !.no = no, !.step = "create"])
        /\ UNCHANGED tables

\* createSubmission: the unique index may refuse the number.
CreateSubmission(h) ==
    LET q  == handler[h]
        id == <<q.p, q.no>>
    IN  /\ At(h, "create")
        /\ IF Exists(id)
             THEN Finish(h) /\ UNCHANGED submission
             ELSE /\ submission' = [submission EXCEPT ![id] =
                        [status |-> q.status, text |-> q.text]]
                  /\ Commit(h)
        /\ UNCHANGED <<assignment, attached, grade>>

\* updateSubmission by id: a draft handed in or saved, whatever it is by now.
\* Saving writes the text only.
UpdateSubmission(h) ==
    LET q  == handler[h]
        id == <<q.p, q.no>>
    IN  /\ At(h, "update")
        /\ submission' = [submission EXCEPT ![id] =
                [status |-> IF q.status = "SUBMITTED"
                              THEN "SUBMITTED" ELSE Status(id),
                 text |-> q.text]]
        /\ Commit(h)
        /\ UNCHANGED <<assignment, attached, grade>>

\* updateTextAnswer: only of what was read as a draft.
BeginEdit(h) == \E id \in Id, t \in Answer :
    /\ "edit" \in calls
    /\ Status(id) = "DRAFT"
    /\ Receive(h, [step |-> "update", p |-> id[1], no |-> id[2], text |-> t,
                   status |-> "DRAFT", allowed |-> 0])
    /\ UNCHANGED tables

-----------------------------------------------------------------------------
(* attachFile, detachFile *)

FilesOpen(s) == s \in {"DRAFT", "SUBMITTED"}

BeginFiles(h) == \E id \in Id, f \in File, s \in {"file", "linked"} :
    /\ "files" \in calls
    /\ FilesOpen(Status(id))
    /\ Receive(h, [step |-> s, id |-> id, f |-> f])
    /\ UNCHANGED tables

\* Mutation: a file whose upload is announced can be attached.
ReadFileEarly(h) ==
    /\ At(h, "file")
    /\ IF file[handler[h].f].status \in {"PENDING", "UPLOADED", "ACTIVE"}
         THEN Goto(h, "free") ELSE Finish(h)
    /\ UNCHANGED tables

\* findStoredFileContext: only a confirmed file is attached.
ReadFile(h) ==
    /\ At(h, "file")
    /\ IF file[handler[h].f].status \in {"UPLOADED", "ACTIVE"}
         THEN Goto(h, "free") ELSE Finish(h)
    /\ UNCHANGED tables

\* findFileLink
FindLink(h) ==
    LET linked == handler[h].f \in attached[handler[h].id]
    IN  /\ \/ /\ At(h, "free")
              /\ IF linked THEN Finish(h) ELSE Goto(h, "attach")
           \/ /\ At(h, "linked")
              /\ IF linked THEN Goto(h, "detach") ELSE Finish(h)
        /\ UNCHANGED tables

Attach(h) ==
    LET q == handler[h]
    IN  /\ At(h, "attach")
        /\ IF q.f \in attached[q.id]
             THEN Finish(h) /\ UNCHANGED attached
             ELSE /\ attached' = [attached EXCEPT ![q.id] = @ \cup {q.f}]
                  /\ Commit(h)
        /\ UNCHANGED <<assignment, submission, grade>>

Detach(h) ==
    LET q == handler[h]
    IN  /\ At(h, "detach")
        /\ IF q.f \notin attached[q.id]
             THEN Finish(h) /\ UNCHANGED attached
             ELSE /\ attached' = [attached EXCEPT ![q.id] = @ \ {q.f}]
                  /\ Commit(h)
        /\ UNCHANGED <<assignment, submission, grade>>

-----------------------------------------------------------------------------
(* grade, returnToParticipant *)

\* Mutation: a draft can be graded.
GradableAsDraft(s) == s # "none"

Gradable(s) == HandedIn(s)

\* findSubmissionById: the status is kept, the transitions are judged on it.
BeginGrade(h) == \E id \in Id, x \in 0..MaxPoints, back \in BOOLEAN :
    /\ "grade" \in calls
    /\ Gradable(Status(id))
    /\ Receive(h, [step |-> "ceiling", id |-> id, score |-> x,
                   status |-> Status(id), back |-> back])
    /\ UNCHANGED tables

ReadCeiling(h) ==
    /\ At(h, "ceiling")
    /\ IF handler[h].score > assignment.ceiling
         THEN Finish(h) ELSE Goto(h, "grade")
    /\ UNCHANGED tables

\* The move that comes next for a submission that was read with status s.
\* Re-grading what was returned is refused, after the grade has been written.
NextStatus(s, back) ==
    IF s = "SUBMITTED" THEN "GRADED"
    ELSE IF s = "GRADED" /\ back THEN "RETURNED" ELSE "stop"

\* upsertGrade
UpsertGrade(h) ==
    LET q == handler[h]
    IN  /\ At(h, "grade")
        /\ grade' = [grade EXCEPT ![q.id] = q.score]
        /\ IF NextStatus(q.status, q.back) = "stop"
             THEN Commit(h) ELSE Commits(h, [q EXCEPT !.step = "mark"])
        /\ UNCHANGED <<assignment, submission, attached>>

\* updateSubmission: to GRADED and, when the work goes back, to RETURNED.
Mark(h) ==
    LET q  == handler[h]
        to == NextStatus(q.status, q.back)
    IN  /\ At(h, "mark")
        /\ submission' = [submission EXCEPT ![q.id].status = to]
        /\ IF NextStatus(to, q.back) = "stop"
             THEN Commit(h) ELSE Commits(h, [q EXCEPT !.status = to])
        /\ UNCHANGED <<assignment, attached, grade>>

BeginReturn(h) == \E id \in Id :
    /\ "grade" \in calls
    /\ Status(id) = "GRADED"
    /\ Receive(h, [step |-> "mark", id |-> id, score |-> grade[id],
                   status |-> "GRADED", back |-> TRUE])
    /\ UNCHANGED tables

-----------------------------------------------------------------------------
(* AssignmentsService: changeStatus, update *)

AllowedAssignmentTransition(from, to) ==
    \/ from = "DRAFT" /\ to \in {"PUBLISHED", "ARCHIVED"}
    \/ from = "PUBLISHED" /\ to \in {"CLOSED", "ARCHIVED"}
    \/ from = "CLOSED" /\ to \in {"PUBLISHED", "ARCHIVED"}

BeginStatus(h) == \E to \in {"PUBLISHED", "CLOSED", "ARCHIVED"} :
    /\ "status" \in calls
    /\ AllowedAssignmentTransition(assignment.status, to)
    /\ Receive(h, [step |-> "status", to |-> to])
    /\ UNCHANGED tables

WriteStatus(h) ==
    /\ At(h, "status")
    /\ assignment' = [assignment EXCEPT !.status = handler[h].to]
    /\ Commit(h)
    /\ UNCHANGED work

\* update: a new ceiling, a new limit or both; -1 and 0 stand for not given.
BeginUpdate(h) == \E x \in -1..MaxPoints, n \in 0..MaxAttempts :
    /\ assignment.status # "ARCHIVED"
    /\ x >= 0 \/ n > 0
    /\ x >= 0 => "maxScore" \in calls
    /\ n > 0 => "attemptsAllowed" \in calls
    /\ Receive(h, [step |-> IF x >= 0 THEN "list" ELSE "count",
                   ceiling |-> x, allowed |-> n, left |-> {}])
    /\ UNCHANGED tables

\* The grades in S are still to be looked at.
LookAt(h, S) ==
    Reads(h, [handler[h] EXCEPT !.left = S,
                !.step = IF S # {} THEN "grades"
                         ELSE IF handler[h].allowed > 0 THEN "count" ELSE "write"])

\* assertMaxScoreNotBelowGrades: the submissions are listed, then the grade of
\* each is looked up; the order makes no difference.
ListForCeiling(h) ==
    /\ At(h, "list")
    /\ LookAt(h, {id \in Id : Exists(id)})
    /\ UNCHANGED tables

CheckGrade(h) ==
    /\ At(h, "grades")
    /\ \E id \in handler[h].left :
        IF grade[id] > handler[h].ceiling
          THEN Finish(h) ELSE LookAt(h, handler[h].left \ {id})
    /\ UNCHANGED tables

\* assertAttemptsNotBelowUsed: counts what is recorded, of everybody.
CountRecorded(h) ==
    /\ At(h, "count")
    /\ IF handler[h].allowed < Cardinality({id \in Id : Exists(id)})
         THEN Finish(h) ELSE Goto(h, "write")
    /\ UNCHANGED tables

\* Mutation: a ceiling that is not given is written all the same.
WriteUndefined(h) ==
    LET q == handler[h]
    IN  /\ At(h, "write")
        /\ assignment' = [assignment EXCEPT
                !.ceiling = q.ceiling,
                !.allowed = IF q.allowed > 0 THEN q.allowed ELSE @]
        /\ Commit(h)
        /\ UNCHANGED work

WriteUpdate(h) ==
    LET q == handler[h]
    IN  /\ At(h, "write")
        /\ assignment' = [assignment EXCEPT
                !.ceiling = IF q.ceiling >= 0 THEN q.ceiling ELSE @,
                !.allowed = IF q.allowed > 0 THEN q.allowed ELSE @]
        /\ Commit(h)
        /\ UNCHANGED work

-----------------------------------------------------------------------------

HandleSubmit(h) ==
    \/ BeginSubmit(h) \/ FindLatest(h) \/ CheckLimit(h) \/ BeginDraft(h)
    \/ FindDraft(h) \/ CountFiles(h) \/ ReadNumber(h) \/ CreateSubmission(h)
    \/ UpdateSubmission(h) \/ BeginEdit(h)

HandleLink(h) ==
    BeginFiles(h) \/ ReadFile(h) \/ FindLink(h) \/ Attach(h) \/ Detach(h)

HandleAssess(h) ==
    BeginGrade(h) \/ ReadCeiling(h) \/ UpsertGrade(h) \/ Mark(h) \/ BeginReturn(h)

HandleSubmission(h) == HandleSubmit(h) \/ HandleLink(h) \/ HandleAssess(h)

HandleAssignment(h) ==
    \/ BeginStatus(h) \/ WriteStatus(h)
    \/ BeginUpdate(h) \/ ListForCeiling(h) \/ CheckGrade(h) \/ CountRecorded(h)
    \/ WriteUpdate(h)

SubmissionRequest ==
    [step: {"latest", "limit", "draft", "files", "number", "create", "update"},
     p: Participant, no: Nat, text: Answer, status: {"DRAFT", "SUBMITTED"},
     allowed: Nat]
    \cup [step: {"file", "linked", "free", "attach", "detach"}, id: Id, f: File]
    \cup [step: {"ceiling", "grade", "mark"}, id: Id, score: Int,
          status: {"DRAFT", "SUBMITTED", "GRADED", "RETURNED"}, back: BOOLEAN]
    \cup [step: {"status"}, to: {"PUBLISHED", "CLOSED", "ARCHIVED"}]
    \cup [step: {"list", "grades", "count", "write"}, ceiling: Int, allowed: Nat,
          left: SUBSET Id]

SubmissionsTypeOK ==
    /\ assignment \in [status: {"DRAFT", "PUBLISHED", "CLOSED", "ARCHIVED"},
                       allowed: AttemptNo, ceiling: 0..MaxPoints]
    /\ submission \in [Id -> [status: {"none", "DRAFT", "SUBMITTED", "GRADED",
                                       "RETURNED"}, text: Answer]]
    /\ attached \in [Id -> SUBSET File]
    /\ grade \in [Id -> 0..MaxPoints \cup {Ungraded}]
=============================================================================
