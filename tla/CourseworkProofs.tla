-------------------------- MODULE CourseworkProofs --------------------------
(***************************************************************************)
(* Proofs for the whole of Academy of the promises about an assignment and *)
(* its work, of the mark book, and of the courseware and the progress      *)
(* through it: what the requests of the other components do to these       *)
(* tables is TablesElse, BookElse and CoursewareElse.                      *)
(*                                                                         *)
(* The last four sections type the tables and the slots of the work, the   *)
(* files, the marks and the final grades, one invariant for each           *)
(* (WorkTyped, FilesTyped, MarksAre, GradesAre).                           *)
(***************************************************************************)
EXTENDS AcademyProofs

-----------------------------------------------------------------------------
(* KeepsAssignmentWork *)

\* What any step of the whole does to the assignment and its work.
LEMMA TablesElse ==
    ASSUME Steppable, [Next]_vars
    PROVE  \/ \E h \in Handler : \/ HandleSubmit(h)
                                 \/ HandleLink(h)
                                 \/ HandleAssess(h)
                                 \/ HandleAssignment(h)
           \/ /\ UNCHANGED tables
              /\ Unentered(SubmitsSteps) /\ Unentered(LinksSteps) /\ Unentered(AssessSteps) /\ Unentered(AssignmentsSteps)
<1> DEFINE Same == UNCHANGED tables
           Own(h) == \/ HandleSubmit(h)
                     \/ HandleLink(h)
                     \/ HandleAssess(h)
                     \/ HandleAssignment(h)
<1>0. SubmitsSteps \in Parts /\ LinksSteps \in Parts /\ AssessSteps \in Parts /\ AssignmentsSteps \in Parts
  BY DEF Parts
<1>1. ASSUME NEW h \in Handler, Operate(h)
      PROVE  Own(h) \/ (Same /\ Unentered(SubmitsSteps) /\ Unentered(LinksSteps) /\ Unentered(AssessSteps) /\ Unentered(AssignmentsSteps))
  <2>1. \/ Own(h)
        \/ Same /\ HandleFile(h)
        \/ Same /\ HandleMark(h)
        \/ Same /\ HandleGrade(h)
        \/ Same /\ HandleAttendance(h)
        \/ Same /\ HandleEnrollment(h)
        \/ Same /\ HandleQuestion(h)
        \/ Same /\ HandleExam(h)
        \/ Same /\ HandleDecision(h)
        \/ Same /\ HandleLearning(h)
        \/ Same /\ HandleOrganization(h)
        \/ Same /\ HandleCalendar(h)
    BY <1>1
    DEF Operate, CourseworkHandler, HandleSubmission, HandleSetup,
        vars, requests, courseTables, tables, work, markTables, gradeTables,
        attendanceTables, rollTables, setupTables, bankTables, decisionTables,
        catalogTables, learningTables, institutionTables
  <2> HIDE DEF Same, Own
  <2>2. Own(h) \/ (Same /\ Unentered(SubmitsSteps))
    BY <1>0, <2>1, OthersUnentered, PartsDiffer
  <2>3. Own(h) \/ (Same /\ Unentered(LinksSteps))
    BY <1>0, <2>1, OthersUnentered, PartsDiffer
  <2>4. Own(h) \/ (Same /\ Unentered(AssessSteps))
    BY <1>0, <2>1, OthersUnentered, PartsDiffer
  <2>5. Own(h) \/ (Same /\ Unentered(AssignmentsSteps))
    BY <1>0, <2>1, OthersUnentered, PartsDiffer
  <2> QED
    BY <2>2, <2>3, <2>4, <2>5
<1>2. ASSUME NEW h \in Handler, LoseRequest(h)
      PROVE  Same /\ Unentered(SubmitsSteps) /\ Unentered(LinksSteps) /\ Unentered(AssessSteps) /\ Unentered(AssignmentsSteps)
  <2>1. Same
    BY <1>2 DEF LoseRequest, LoseDecision, vars, requests, courseTables, tables, work, markTables, gradeTables,
               attendanceTables, rollTables, setupTables, bankTables,
               decisionTables, catalogTables, learningTables, institutionTables
  <2> QED
    BY <1>0, <1>2, <2>1, LossUnentered
<1>3. ASSUME Outside
      PROVE  Same /\ Unentered(SubmitsSteps) /\ Unentered(LinksSteps) /\ Unentered(AssessSteps) /\ Unentered(AssignmentsSteps)
  <2>1. Same
    BY <1>3 DEF Outside, CourseworkOutside, CreateLesson, InitiateUpload, PutObject,
            Sit, SaveAnswer, CloseAttempt, DecisionsOutside, Evaluate, Supersede,
            WriteOutside, requests, vars, courseTables, tables, work, markTables,
            gradeTables, attendanceTables, rollTables, setupTables, bankTables,
            decisionTables, catalogTables, learningTables, institutionTables
  <2> QED
    BY <1>3, <2>1, OutsideMoves DEF Unentered
<1>4. ASSUME UNCHANGED vars
      PROVE  Same /\ Unentered(SubmitsSteps) /\ Unentered(LinksSteps) /\ Unentered(AssessSteps) /\ Unentered(AssignmentsSteps)
  BY <1>4 DEF Unentered, vars, requests, courseTables, tables, work, markTables, gradeTables,
       attendanceTables, rollTables, setupTables, bankTables, decisionTables,
       catalogTables, learningTables, institutionTables
<1> HIDE DEF Same, Own
<1>5. \/ \E h \in Handler : Own(h)
      \/ Same /\ Unentered(SubmitsSteps) /\ Unentered(LinksSteps) /\ Unentered(AssessSteps) /\ Unentered(AssignmentsSteps)
  BY <1>1, <1>2, <1>3, <1>4 DEF Next
<1> QED
  BY <1>5 DEF Same, Own

\* Latest is the greatest of some attempt numbers.
LEMMA LatestIsGreatest ==
    ASSUME NEW S, S \subseteq AttemptNo
    PROVE  /\ S = {} => Latest(S) = 0
           /\ S # {} => Latest(S) \in S /\ \A m \in S : m <= Latest(S)
<1>1. ASSUME S # {} PROVE Latest(S) \in S /\ \A m \in S : m <= Latest(S)
  <2> DEFINE T == {MaxAttempts - n : n \in S}
             R == {r \in Nat \X Nat : r[1] < r[2]}
  <2>1. T \subseteq Nat /\ T # {}
    <3>1. \A n \in S : MaxAttempts - n \in Nat
      BY SubmissionsAssumption DEF AttemptNo
    <3> QED
      BY <1>1, <3>1
  <2>2. WellFounded!IsWellFoundedOn(R, Nat)
    BY WellFounded!NatLessThanWellFounded DEF WellFounded!OpToRel
  <2>3. PICK x \in T : \A y \in T : ~(y < x)
    <3>1. \A x, y \in Nat : y < x => <<y, x>> \in R
      OBVIOUS
    <3> HIDE DEF T, R
    <3>2. PICK x \in T : \A y \in T : <<y, x>> \notin R
      BY <2>1, <2>2, WellFounded!WFMin
    <3> QED
      BY <2>1, <3>1, <3>2
  <2>4. PICK n \in S : x = MaxAttempts - n
    BY <2>3
  <2>5. \A m \in S : m <= n
    BY <2>3, <2>4, SubmissionsAssumption DEF AttemptNo
  <2> QED
    BY <1>1, <2>5 DEF Latest
<1> QED
  BY <1>1 DEF Latest

\* What a request holds, whoever crosses it.
WorkHolds(q) ==
    /\ q.step \in SubmitsSteps =>
        /\ q \in [step: SubmitsSteps, p: Participant, no: Nat, text: Answer,
                  status: {"DRAFT", "SUBMITTED"}, allowed: Nat]
        /\ q.step \in {"latest", "limit"} => q.status = "SUBMITTED"
        /\ q.step \in {"draft", "number", "create"} =>
            (q.status = "SUBMITTED" \/ "saveDraft" \in calls)
        /\ q.step \in {"number", "create"} => (q.status = "DRAFT" \/ q.text # NoText)
        /\ q.step = "create" =>
            q.no \in AttemptNo /\ \A m \in AttemptNo : m < q.no => Exists(<<q.p, m>>)
        /\ q.step \in {"files", "update"} => q.no \in AttemptNo /\ Exists(<<q.p, q.no>>)
    /\ q.step \in LinksSteps => q \in [step: LinksSteps, id: Id, f: File]
    /\ q.step \in AssessSteps =>
        /\ q \in [step: AssessSteps, id: Id, score: 0..MaxPoints,
                  status: {"SUBMITTED", "GRADED", "RETURNED"}, back: BOOLEAN]
        /\ q.step = "mark" => grade[q.id] # Ungraded /\ NextStatus(q.status, q.back) # "stop"
    /\ q.step = "status" => q \in [step: {"status"}, to: {"PUBLISHED", "CLOSED", "ARCHIVED"}]
    /\ q.step \in {"list", "grades", "count", "write"} =>
        /\ q \in [step: {"list", "grades", "count", "write"}, ceiling: -1..MaxPoints,
                  allowed: 0..MaxAttempts, left: SUBSET Id]
        /\ q.step \in {"list", "grades"} => q.ceiling >= 0

\* The limit leaves room for one attempt more, if it binds.
Room(p) == "saveDraft" \in calls \/ Latest(Numbers(p)) < assignment.allowed

UnderCeiling(S, x) == \A id \in S : grade[id] <= x

\* What it knows besides while it is uncrossed.
WorkKnows(q) ==
    /\ q.step \in {"latest", "limit"} => assignment.allowed = q.allowed
    /\ q.step = "draft" => Room(q.p) \/ Drafts(q.p) # {}
    /\ q.step = "number" => Room(q.p) /\ Drafts(q.p) = {}
    /\ q.step = "create" =>
        /\ Drafts(q.p) = {}
        /\ "saveDraft" \in calls \/ q.no <= assignment.allowed
    /\ q.step \in {"files", "update"} => Status(<<q.p, q.no>>) = "DRAFT"
    /\ q.step = "update" /\ q.status = "SUBMITTED" =>
        q.text # NoText \/ attached[<<q.p, q.no>>] # {}
    /\ q.step \in LinksSteps => FilesOpen(Status(q.id))
    /\ q.step \in AssessSteps => Status(q.id) = q.status
    /\ q.step = "grade" => q.score <= assignment.ceiling
    /\ q.step = "status" => AllowedAssignmentTransition(assignment.status, q.to)
    /\ q.step \in {"list", "grades", "count", "write"} => assignment.status # "ARCHIVED"
    /\ q.step = "grades" => UnderCeiling(Id \ q.left, q.ceiling)
    /\ q.step \in {"count", "write"} /\ q.ceiling >= 0 => UnderCeiling(Id, q.ceiling)
    /\ q.step = "write" /\ q.allowed > 0 =>
        Cardinality({id \in Id : Exists(id)}) <= q.allowed

\* Attempts of a participant follow each other, and only what is not there has the
\* status of NoWork.
WorkNumbered ==
    /\ SubmissionsTypeOK
    /\ \A id \in Id : Exists(id) <=> Status(id) # "none"
    /\ \A p \in Participant : \A m, n \in AttemptNo :
            m < n /\ Exists(<<p, n>>) => Exists(<<p, m>>)

WorkHeld ==
    /\ WorkNumbered
    /\ \A h \in Handler : /\ WorkHolds(handler[h])
                          /\ h \notin crossed => WorkKnows(handler[h])

\* A slot that is idle holds and knows nothing.
LEMMA WorkIdle ==
    ASSUME NEW q, q.step = "idle"
    PROVE  WorkHolds(q) /\ WorkKnows(q)
BY DEF WorkHolds, WorkKnows, SubmitsSteps, LinksSteps, AssessSteps

\* Nothing that is there goes away, and no grade.
WorkStays ==
    /\ \A id \in Id : Exists(id) => Exists(id)'
    /\ \A id \in Id : grade[id] # Ungraded => grade'[id] # Ungraded

\* A slot that stays as it is holds what it held, and knows it if the tables stay or it
\* is crossed.
LEMMA WorkUnmoved ==
    ASSUME Undisturbed, WorkHeld, WorkStays, NEW g \in Handler, handler'[g] = handler[g],
           UNCHANGED tables \/ g \in crossed' \/ handler[g].step = "idle"
    PROVE  WorkHolds(handler[g])' /\ (g \notin crossed => WorkKnows(handler[g]))'
<1> DEFINE q == handler[g]
<1>1. calls' = calls /\ WorkHolds(q)
  BY DEF Undisturbed, WorkHeld
<1>2. WorkHolds(q)'
  <2>1. \A p \in Participant, n \in AttemptNo : Exists(<<p, n>>) => Exists(<<p, n>>)'
    BY DEF WorkStays, Id
  <2>2. q.step \in AssessSteps => q.id \in Id
    BY <1>1 DEF WorkHolds
  <2>3. q.step \in SubmitsSteps => q.p \in Participant
    BY <1>1 DEF WorkHolds
  <2> QED
    BY <1>1, <2>1, <2>2, <2>3 DEF WorkHolds, WorkStays, Exists
<1>3. CASE q.step = "idle"
  BY <1>2, <1>3 DEF WorkKnows, SubmitsSteps, LinksSteps, AssessSteps
<1>4. CASE g \in crossed'
  BY <1>2, <1>4
<1>5. CASE UNCHANGED tables /\ q.step # "idle" /\ g \notin crossed'
  <2>1. g \notin crossed
    BY <1>5 DEF Undisturbed, InFlight, At
  <2>2. WorkKnows(q)
    BY <2>1 DEF WorkHeld
  <2>3. /\ assignment' = assignment /\ submission' = submission
        /\ attached' = attached /\ grade' = grade
    BY <1>5 DEF tables, work
  <2>4. /\ \A p : Room(p)' <=> Room(p)
        /\ \A p : Drafts(p)' = Drafts(p)
        /\ \A S, x : UnderCeiling(S, x)' <=> UnderCeiling(S, x)
        /\ \A id : Status(id)' = Status(id)
        /\ {id \in Id : Exists(id)}' = {id \in Id : Exists(id)}
    BY <1>1, <2>3 DEF Room, Drafts, Numbers, UnderCeiling, Status, Exists
  <2>5. CASE q.step \in SubmitsSteps
    <3>1. q.step \notin LinksSteps \cup AssessSteps \cup {"status", "list", "grades", "count", "write"}
      BY <2>5 DEF SubmitsSteps, LinksSteps, AssessSteps
    <3> QED
      BY <1>1, <1>2, <2>2, <2>3, <2>4, <3>1 DEF WorkKnows
  <2>6. CASE q.step \notin SubmitsSteps
    <3>1. q.step \notin {"latest", "limit", "draft", "number", "create", "files", "update"}
      BY <2>6 DEF SubmitsSteps
    <3> QED
      BY <1>2, <2>2, <2>3, <2>4, <3>1 DEF WorkKnows
  <2> QED
    BY <2>5, <2>6
<1> QED
  BY <1>3, <1>4, <1>5

\* A read that leaves the tables as they are and whose slot holds and knows its due.
LEMMA TablesRead ==
    ASSUME Steppable, WorkHeld, Undisturbed, NEW h \in Handler, NEW m, Reads(h, m),
           UNCHANGED tables, m = Idle \/ (WorkHolds(m) /\ (h \notin crossed => WorkKnows(m)))
    PROVE  WorkHeld' /\ UNCHANGED Work!vars
<1>1. /\ assignment' = assignment /\ submission' = submission
      /\ attached' = attached /\ grade' = grade /\ calls' = calls
  BY DEF tables, work, Undisturbed
<1>2. WorkStays
  BY <1>1 DEF WorkStays, Exists
<1>3. ASSUME NEW g \in Handler, g # h
      PROVE  WorkHolds(handler[g])' /\ (g \notin crossed => WorkKnows(handler[g]))'
  <2>1. handler'[g] = handler[g]
    BY <1>3 DEF Steppable, Reads
  <2> QED
    BY <1>2, <1>3, <2>1, WorkUnmoved
<1>4. WorkHolds(handler[h])' /\ (h \notin crossed => WorkKnows(handler[h]))'
  <2>1. handler'[h] = m
    BY DEF Steppable, Reads
  <2>2. CASE m = Idle
    <3>1. handler'[h].step = "idle"
      BY <2>1, <2>2 DEF Idle
    <3> QED
      BY <3>1 DEF WorkHolds, WorkKnows, SubmitsSteps, LinksSteps, AssessSteps
  <2>3. CASE m # Idle
    <3>1. WorkHolds(m) /\ (h \notin crossed => WorkKnows(m)) /\ crossed' = crossed
      BY <2>3 DEF Reads
    <3>2. WorkHolds(m)'
      BY <1>1, <3>1 DEF WorkHolds, Exists
    <3>3. h \notin crossed => WorkKnows(m)'
      BY <1>1, <3>1 DEF WorkKnows, Room, Drafts, Numbers, UnderCeiling, Status, Exists
    <3> QED
      BY <2>1, <3>1, <3>2, <3>3 DEF WorkHolds, WorkKnows
  <2> QED
    BY <2>2, <2>3
<1>5. WorkNumbered'
  BY <1>1 DEF WorkHeld, WorkNumbered, SubmissionsTypeOK, Exists, Status
<1> QED
  BY <1>1, <1>3, <1>4, <1>5 DEF WorkHeld, Work!vars

\* A commit crosses all the others, and takes nothing away.
LEMMA TablesWritten ==
    ASSUME Steppable, WorkHeld, Undisturbed, NEW h \in Handler, ~At(h, "idle"), NEW m,
           Commits(h, m), WorkNumbered', WorkStays,
           m = Idle \/ (WorkHolds(m)' /\ (h \notin crossed => WorkKnows(m)'))
    PROVE  WorkHeld'
<1>1. ASSUME NEW g \in Handler, g # h
      PROVE  WorkHolds(handler[g])' /\ (g \notin crossed => WorkKnows(handler[g]))'
  <2>1. handler'[g] = handler[g] /\ (g \in crossed' \/ handler[g].step = "idle")
    BY <1>1 DEF Steppable, Commits, InFlight, At
  <2> QED
    BY <1>1, <2>1, WorkUnmoved
<1>2. WorkHolds(handler[h])' /\ (h \notin crossed => WorkKnows(handler[h]))'
  <2>1. handler'[h] = m
    BY DEF Steppable, Commits
  <2>2. CASE m = Idle
    <3>1. handler'[h].step = "idle"
      BY <2>1, <2>2 DEF Idle
    <3> QED
      BY <3>1 DEF WorkHolds, WorkKnows, SubmitsSteps, LinksSteps, AssessSteps
  <2>3. CASE m # Idle
    <3>1. WorkHolds(m)' /\ (h \notin crossed => WorkKnows(m)')
      BY <2>3
    <3>2. h \in crossed => h \in crossed'
      BY <2>3 DEF Commits, InFlight
    <3> QED
      BY <2>1, <3>1, <3>2 DEF WorkHolds, WorkKnows
  <2> QED
    BY <2>2, <2>3
<1> QED
  BY <1>1, <1>2 DEF WorkHeld

\* A request that moves in a step of the promise is not crossed.
LEMMA MovedUncrossed ==
    ASSUME Steppable, NEW h \in Handler, NEW m, Reads(h, m) \/ Commits(h, m),
           m # handler[h], Uncrossed
    PROVE  h \notin crossed
BY DEF Uncrossed, Reads, Commits, Steppable

\* What is recorded are the attempts that are there.
LEMMA RecordedExist ==
    ASSUME WorkHeld
    PROVE  /\ Work!Id = Id /\ Work!Recorded = {id \in Id : Exists(id)}
           /\ \A id : Work!Status(id) = Status(id)
BY DEF WorkHeld, WorkNumbered, Work!Id, Id, AttemptNo, Work!Recorded, Work!Status, Status

\* One more attempt, or another status or text of one, is numbered as before.
LEMMA WorkRewritten ==
    ASSUME WorkHeld, NEW id \in Id,
           NEW row \in [status: {"DRAFT", "SUBMITTED", "GRADED", "RETURNED"}, text: Answer],
           submission' = [submission EXCEPT ![id] = row],
           UNCHANGED <<assignment, attached, grade>>,
           \A m \in AttemptNo : m < id[2] => Exists(<<id[1], m>>)
    PROVE  WorkNumbered' /\ WorkStays
<1>1. submission'[id] = row /\ \A i \in Id \ {id} : submission'[i] = submission[i]
  BY DEF WorkHeld, WorkNumbered, SubmissionsTypeOK
<1>2. row # NoWork /\ row.status # "none"
  BY DEF NoWork
<1>3. \A i \in Id : Exists(i)' <=> (Exists(i) \/ i = id)
  BY <1>1, <1>2 DEF Exists
<1>4. SubmissionsTypeOK'
  BY DEF WorkHeld, WorkNumbered, SubmissionsTypeOK
<1>5. \A i \in Id : Exists(i)' <=> Status(i)' # "none"
  BY <1>1, <1>2, <1>3 DEF WorkHeld, WorkNumbered, Status
<1>6. ASSUME NEW p \in Participant, NEW m \in AttemptNo, NEW n \in AttemptNo,
             m < n, Exists(<<p, n>>)'
      PROVE  Exists(<<p, m>>)'
  <2>1. <<p, m>> \in Id /\ <<p, n>> \in Id
    BY DEF Id
  <2>2. CASE Exists(<<p, n>>)
    BY <1>3, <1>6, <2>1, <2>2 DEF WorkHeld, WorkNumbered
  <2>3. CASE <<p, n>> = id
    BY <1>3, <1>6, <2>1, <2>3
  <2> QED
    BY <1>3, <1>6, <2>1, <2>2, <2>3
<1> QED
  BY <1>3, <1>4, <1>5, <1>6 DEF WorkNumbered, WorkStays

\* Attempts of a participant are numbered one after another: with no draft among them
\* and the first ones before n there, n is the next one if it is not there yet.
LEMMA NextAttempt ==
    ASSUME WorkHeld, NEW p \in Participant, NEW n \in AttemptNo, ~Exists(<<p, n>>),
           \A m \in AttemptNo : m < n => Exists(<<p, m>>)
    PROVE  \A m \in 1..MaxAttempts : m < n <=> <<p, m>> \in Work!Recorded
<1>1. ASSUME NEW m \in AttemptNo, Exists(<<p, m>>) PROVE m < n
  <2>1. ~(n < m)
    BY <1>1 DEF WorkHeld, WorkNumbered
  <2>2. m # n
    BY <1>1
  <2> QED
    BY <2>1, <2>2 DEF AttemptNo
<1> QED
  BY <1>1, RecordedExist DEF AttemptNo, Id

\* What the newest number says of the others.
LEMMA NewestNumber ==
    ASSUME WorkHeld, NEW p \in Participant
    PROVE  /\ Latest(Numbers(p)) \in 0..MaxAttempts
           /\ \A m \in AttemptNo : m <= Latest(Numbers(p)) <=> Exists(<<p, m>>)
<1> DEFINE S == Numbers(p)
<1>1. S \subseteq AttemptNo /\ \A m \in AttemptNo : m \in S <=> Exists(<<p, m>>)
  BY DEF Numbers
<1>2. \A m, n \in AttemptNo : m < n /\ n \in S => m \in S
  BY <1>1 DEF WorkHeld, WorkNumbered
<1> HIDE DEF S
<1>3. CASE S = {}
  <2>1. Latest(S) = 0
    BY <1>1, <1>3, LatestIsGreatest
  <2> QED
    BY <1>1, <1>3, <2>1, SubmissionsAssumption DEF S, AttemptNo
<1>4. CASE S # {}
  <2>1. Latest(S) \in S /\ \A m \in S : m <= Latest(S)
    BY <1>1, <1>4, LatestIsGreatest
  <2>2. PICK k \in AttemptNo : k = Latest(S)
    BY <1>1, <2>1
  <2>3. \A m \in AttemptNo : m <= k <=> m \in S
    BY <1>2, <2>1, <2>2 DEF AttemptNo
  <2> QED
    BY <1>1, <2>2, <2>3, SubmissionsAssumption DEF S, AttemptNo
<1> QED
  BY <1>3, <1>4

\* The newest draft is one.
LEMMA NewestDraft ==
    ASSUME NEW p \in Participant
    PROVE  /\ Drafts(p) = {} => Latest(Drafts(p)) = 0
           /\ Drafts(p) # {} => /\ Latest(Drafts(p)) \in AttemptNo
                                /\ Exists(<<p, Latest(Drafts(p))>>)
                                /\ Status(<<p, Latest(Drafts(p))>>) = "DRAFT"
<1>1. Drafts(p) \subseteq AttemptNo
  BY DEF Drafts, Numbers
<1>2. \A n \in Drafts(p) : Exists(<<p, n>>) /\ Status(<<p, n>>) = "DRAFT"
  BY DEF Drafts, Numbers
<1> QED
  BY <1>1, <1>2, LatestIsGreatest

\* Every action of submit, saveDraft and updateTextAnswer keeps what is known, and if it
\* is not one of a crossed request it is a step of the promise.
LEMMA SubmitsWork ==
    ASSUME Steppable, WorkHeld, Undisturbed, NEW h \in Handler, HandleSubmit(h)
    PROVE  WorkHeld' /\ (Uncrossed => UNCHANGED Work!vars \/ Work!Next)
<1> DEFINE q == handler[h]
           Requests == [step: SubmitsSteps, p: Participant, no: Nat, text: Answer,
                        status: {"DRAFT", "SUBMITTED"}, allowed: Nat]
           to(s) == [q EXCEPT !.step = s]
           at(s, n, t) == [q EXCEPT !.step = s, !.no = n, !.text = t]
           Fine == UNCHANGED Work!vars \/ Work!Next
           Due(m) == m = Idle \/ (WorkHolds(m) /\ (h \notin crossed => WorkKnows(m)))
<1>0. WorkHolds(q) /\ (h \notin crossed => WorkKnows(q)) /\ SubmissionsTypeOK
  BY DEF WorkHeld, WorkNumbered
<1>a. ASSUME NEW m, Reads(h, m), UNCHANGED tables, Due(m)
      PROVE  WorkHeld' /\ Fine
  BY <1>a, TablesRead
<1>b. ASSUME NEW m, Commits(h, m), ~At(h, "idle"), WorkNumbered', WorkStays, m = Idle
      PROVE  WorkHeld' /\ (Uncrossed => h \notin crossed)
  <2>1. WorkHeld'
    BY <1>b, TablesWritten
  <2>2. Uncrossed => h \notin crossed
    BY <1>b, MovedUncrossed DEF At, Idle
  <2> QED
    BY <2>1, <2>2
<1>c. q.step \in SubmitsSteps => q \in Requests
  BY <1>0 DEF WorkHolds
<1>d. ASSUME q.step \in SubmitsSteps, NEW s \in SubmitsSteps
      PROVE  /\ to(s) \in Requests /\ to(s).step = s /\ to(s).p = q.p /\ to(s).no = q.no
             /\ to(s).text = q.text /\ to(s).status = q.status /\ to(s).allowed = q.allowed
  BY <1>c, <1>d
<1>e. ASSUME q.step \in SubmitsSteps, NEW s \in SubmitsSteps, NEW n \in Nat, NEW t \in Answer
      PROVE  /\ at(s, n, t) \in Requests /\ at(s, n, t).step = s /\ at(s, n, t).p = q.p
             /\ at(s, n, t).no = n /\ at(s, n, t).text = t
             /\ at(s, n, t).status = q.status
  BY <1>c, <1>e
<1>f. /\ \A s : Goto(h, s) => Reads(h, to(s))
      /\ Finish(h) => Reads(h, Idle)
  BY DEF Goto, Finish
<1>g. AttemptNo \subseteq Nat \ {0}
  BY DEF AttemptNo
<1> SUFFICES WorkHeld' /\ (Uncrossed => Fine)
  OBVIOUS
<1> HIDE DEF to, at, Fine
<1>1. CASE BeginSubmit(h)
  <2>1. PICK p \in Participant, t \in Answer :
            /\ Reads(h, [step |-> "latest", p |-> p, no |-> 0, text |-> t,
                         status |-> "SUBMITTED", allowed |-> assignment.allowed])
            /\ UNCHANGED tables
    BY <1>1 DEF BeginSubmit, Receive
  <2> DEFINE m == [step |-> "latest", p |-> p, no |-> 0, text |-> t,
                   status |-> "SUBMITTED", allowed |-> assignment.allowed]
  <2>2. assignment.allowed \in Nat
    BY <1>0, <1>g DEF SubmissionsTypeOK
  <2>3. m \in Requests /\ m.step = "latest" /\ m.status = "SUBMITTED" /\ m.allowed = assignment.allowed
    BY <2>2 DEF SubmitsSteps
  <2> HIDE DEF m
  <2>4. WorkHolds(m) /\ WorkKnows(m)
    BY <2>3 DEF WorkHolds, WorkKnows, LinksSteps, AssessSteps
  <2> QED
    BY <1>a, <2>1, <2>4 DEF m
<1>2. CASE FindLatest(h)
  <2>1. q.step = "latest" /\ q.step \in SubmitsSteps
    BY <1>2 DEF FindLatest, At, SubmitsSteps
  <2>2. /\ q.p \in Participant /\ q.status = "SUBMITTED"
        /\ h \notin crossed => assignment.allowed = q.allowed
    BY <1>0, <2>1 DEF WorkHolds, WorkKnows
  <2> DEFINE last == Latest(Numbers(q.p))
  <2>3. CASE Goto(h, "limit") /\ UNCHANGED tables
    <3>1. WorkHolds(to("limit")) /\ (h \notin crossed => WorkKnows(to("limit")))
      BY <1>d, <2>1, <2>2 DEF WorkHolds, WorkKnows, SubmitsSteps, LinksSteps, AssessSteps
    <3> QED
      BY <1>a, <1>f, <2>3, <3>1
  <2>4. CASE Goto(h, "draft") /\ UNCHANGED tables /\ (last = 0 \/ last \in Drafts(q.p))
    <3>1. Room(q.p) \/ Drafts(q.p) # {}
      <4>1. assignment.allowed \in Nat \ {0}
        BY <1>0, <1>g DEF SubmissionsTypeOK
      <4> QED
        BY <2>4, <4>1 DEF Room
    <3>2. WorkHolds(to("draft")) /\ (h \notin crossed => WorkKnows(to("draft")))
      BY <1>d, <2>1, <2>2, <3>1 DEF WorkHolds, WorkKnows, SubmitsSteps, LinksSteps, AssessSteps
    <3> QED
      BY <1>a, <1>f, <2>4, <3>2
  <2> QED
    BY <1>2, <2>3, <2>4 DEF FindLatest
<1>3. CASE CheckLimit(h)
  <2>1. q.step = "limit" /\ q.step \in SubmitsSteps
    BY <1>3 DEF CheckLimit, At, SubmitsSteps
  <2>2. /\ q.p \in Participant /\ q.status = "SUBMITTED" /\ q.allowed \in Nat
        /\ h \notin crossed => assignment.allowed = q.allowed
    BY <1>0, <2>1 DEF WorkHolds, WorkKnows
  <2>3. CASE Finish(h) /\ UNCHANGED tables
    BY <1>a, <1>f, <2>3
  <2>4. CASE Goto(h, "draft") /\ UNCHANGED tables /\ ~(Latest(Numbers(q.p)) >= q.allowed)
    <3>1. h \notin crossed => Room(q.p)
      BY <2>2, <2>4, NewestNumber DEF Room
    <3>2. WorkHolds(to("draft")) /\ (h \notin crossed => WorkKnows(to("draft")))
      BY <1>d, <2>1, <2>2, <3>1 DEF WorkHolds, WorkKnows, SubmitsSteps, LinksSteps, AssessSteps
    <3> QED
      BY <1>a, <1>f, <2>4, <3>2
  <2> QED
    BY <1>3, <2>3, <2>4 DEF CheckLimit
<1>4. CASE BeginDraft(h)
  <2>1. PICK p \in Participant, t \in Answer :
            /\ Reads(h, [step |-> "draft", p |-> p, no |-> 0, text |-> t,
                         status |-> "DRAFT", allowed |-> 0])
            /\ UNCHANGED tables
    BY <1>4 DEF BeginDraft, Receive
  <2>2. "saveDraft" \in calls
    BY <1>4 DEF BeginDraft
  <2> DEFINE m == [step |-> "draft", p |-> p, no |-> 0, text |-> t,
                   status |-> "DRAFT", allowed |-> 0]
  <2>3. m \in Requests /\ m.step = "draft" /\ m.status = "DRAFT"
    BY DEF SubmitsSteps
  <2> HIDE DEF m
  <2>4. WorkHolds(m) /\ WorkKnows(m)
    BY <2>2, <2>3 DEF WorkHolds, WorkKnows, Room, SubmitsSteps, LinksSteps, AssessSteps
  <2> QED
    BY <1>a, <2>1, <2>4 DEF m
<1>5. CASE FindDraft(h)
  <2> DEFINE no   == Latest(Drafts(q.p))
             text == Carried(q, <<q.p, no>>)
  <2>1. q.step = "draft" /\ q.step \in SubmitsSteps
    BY <1>5 DEF FindDraft, At, SubmitsSteps
  <2>2. /\ q.p \in Participant /\ q.text \in Answer
        /\ q.status = "SUBMITTED" \/ "saveDraft" \in calls
        /\ h \notin crossed => Room(q.p) \/ Drafts(q.p) # {}
    BY <1>0, <2>1 DEF WorkHolds, WorkKnows
  <2>3. \/ Finish(h)
        \/ Goto(h, "number") /\ no = 0 /\ (q.status = "DRAFT" \/ q.text # NoText)
        \/ \E s \in {"files", "update"} :
              /\ Reads(h, at(s, no, text)) /\ no # 0
              /\ s = "update" => q.status = "DRAFT" \/ q.text # NoText
    <3>1. \A s : [[q EXCEPT !.no = no, !.text = text] EXCEPT !.step = s] = at(s, no, text)
      BY <1>c, <2>1 DEF at
    <3> QED
      BY <1>5, <3>1 DEF FindDraft
  <2>4. UNCHANGED tables
    BY <1>5 DEF FindDraft
  <2>5. CASE Goto(h, "number") /\ no = 0 /\ (q.status = "DRAFT" \/ q.text # NoText)
    <3>1. Drafts(q.p) = {}
      BY <1>g, <2>2, <2>5, NewestDraft
    <3>2. WorkHolds(to("number")) /\ (h \notin crossed => WorkKnows(to("number")))
      BY <1>d, <2>1, <2>2, <2>5, <3>1 DEF WorkHolds, WorkKnows, SubmitsSteps, LinksSteps, AssessSteps
    <3> QED
      BY <1>a, <1>f, <2>4, <2>5, <3>2
  <2>6. ASSUME NEW s \in {"files", "update"}, Reads(h, at(s, no, text)), no # 0,
               s = "update" => q.status = "DRAFT" \/ q.text # NoText
        PROVE  WorkHeld' /\ Fine
    <3>1. /\ no \in AttemptNo /\ Exists(<<q.p, no>>) /\ Status(<<q.p, no>>) = "DRAFT"
      BY <2>2, <2>6, NewestDraft
    <3>2. text \in Answer /\ (s = "update" /\ q.status = "SUBMITTED" => text # NoText)
      <4>1. submission[<<q.p, no>>].text \in Answer
        BY <1>0, <2>2, <3>1 DEF SubmissionsTypeOK, Id
      <4> QED
        BY <2>2, <2>6, <4>1 DEF Carried
    <3>3. PICK n \in AttemptNo : n = no
      BY <3>1
    <3>4. PICK t \in Answer : t = text
      BY <3>2
    <3>5. PICK m : m = at(s, n, t)
      OBVIOUS
    <3>6. /\ m \in Requests /\ m.step = s /\ m.p = q.p /\ m.no = n /\ m.text = t
          /\ m.status = q.status
      BY <1>e, <1>g, <2>1, <3>5 DEF SubmitsSteps
    <3> HIDE DEF no, text
    <3>7. WorkHolds(m) /\ WorkKnows(m)
      BY <3>1, <3>2, <3>3, <3>4, <3>6 DEF WorkHolds, WorkKnows, SubmitsSteps, LinksSteps, AssessSteps
    <3> QED
      BY <1>a, <2>4, <2>6, <3>3, <3>4, <3>5, <3>7
  <2> QED
    BY <1>a, <1>f, <2>3, <2>4, <2>5, <2>6
<1>6. CASE CountFiles(h)
  <2>1. q.step = "files" /\ q.step \in SubmitsSteps
    BY <1>6 DEF CountFiles, At, SubmitsSteps
  <2>2. /\ q.no \in AttemptNo /\ Exists(<<q.p, q.no>>)
        /\ h \notin crossed => Status(<<q.p, q.no>>) = "DRAFT"
    BY <1>0, <2>1 DEF WorkHolds, WorkKnows
  <2>3. CASE Finish(h) /\ UNCHANGED tables
    BY <1>a, <1>f, <2>3
  <2>4. CASE Goto(h, "update") /\ UNCHANGED tables /\ attached[<<q.p, q.no>>] # {}
    <3>1. WorkHolds(to("update")) /\ (h \notin crossed => WorkKnows(to("update")))
      BY <1>d, <2>1, <2>2, <2>4 DEF WorkHolds, WorkKnows, SubmitsSteps, LinksSteps, AssessSteps
    <3> QED
      BY <1>a, <1>f, <2>4, <3>1
  <2> QED
    BY <1>6, <2>3, <2>4 DEF CountFiles
<1>7. CASE ReadNumber(h)
  <2> DEFINE last == Latest(Numbers(q.p))
             m == [q EXCEPT !.no = last + 1, !.step = "create"]
  <2>1. q.step = "number" /\ q.step \in SubmitsSteps
    BY <1>7 DEF ReadNumber, At, SubmitsSteps
  <2>2. /\ q.p \in Participant /\ (q.status = "SUBMITTED" \/ "saveDraft" \in calls)
        /\ q.status = "DRAFT" \/ q.text # NoText
        /\ h \notin crossed => Room(q.p) /\ Drafts(q.p) = {}
    BY <1>0, <2>1 DEF WorkHolds, WorkKnows
  <2>3. last + 1 <= MaxAttempts /\ Reads(h, m) /\ UNCHANGED tables
    BY <1>7 DEF ReadNumber
  <2>4. /\ last + 1 \in AttemptNo
        /\ \A k \in AttemptNo : k < last + 1 => Exists(<<q.p, k>>)
    BY <2>2, <2>3, NewestNumber, SubmissionsAssumption DEF AttemptNo
  <2>5. PICK n \in AttemptNo : n = last + 1
    BY <2>4
  <2>6. /\ m \in Requests /\ m.step = "create" /\ m.p = q.p /\ m.no = n /\ m.text = q.text
        /\ m.status = q.status
    BY <1>c, <1>g, <2>1, <2>5 DEF SubmitsSteps
  <2>7. "saveDraft" \in calls \/ (Room(q.p) => n <= assignment.allowed)
    <3>1. last \in Nat /\ assignment.allowed \in Nat
      BY <1>0, <1>g, <2>2, NewestNumber, SubmissionsAssumption DEF SubmissionsTypeOK
    <3> QED
      BY <2>5, <3>1 DEF Room
  <2>8. \A k \in AttemptNo : k < n => Exists(<<q.p, k>>)
    BY <2>4, <2>5
  <2> HIDE DEF last, m
  <2>9. WorkHolds(m) /\ (h \notin crossed => WorkKnows(m))
    BY <2>2, <2>6, <2>7, <2>8 DEF WorkHolds, WorkKnows, SubmitsSteps, LinksSteps, AssessSteps
  <2> QED
    BY <1>a, <2>3, <2>9
<1>8. CASE CreateSubmission(h)
  <2> DEFINE id == <<q.p, q.no>>
             row == [status |-> q.status, text |-> q.text]
  <2>1. q.step = "create" /\ q.step \in SubmitsSteps
    BY <1>8 DEF CreateSubmission, At, SubmitsSteps
  <2>2. /\ q.p \in Participant /\ q.text \in Answer /\ q.status \in {"DRAFT", "SUBMITTED"}
        /\ q.no \in AttemptNo /\ \A m \in AttemptNo : m < q.no => Exists(<<q.p, m>>)
        /\ q.status = "DRAFT" \/ q.text # NoText
        /\ h \notin crossed => Drafts(q.p) = {}
        /\ h \notin crossed => "saveDraft" \in calls \/ q.no <= assignment.allowed
    BY <1>0, <2>1 DEF WorkHolds, WorkKnows
  <2>3. CASE Exists(id)
    BY <1>8, <1>a, <1>f, <2>3 DEF CreateSubmission, tables, work
  <2>4. CASE ~Exists(id)
    <3>1. /\ submission' = [submission EXCEPT ![id] = row] /\ Commits(h, Idle)
          /\ UNCHANGED <<assignment, attached, grade>>
      BY <1>8, <2>4 DEF CreateSubmission, Commit
    <3>2. id \in Id /\ id[1] = q.p /\ id[2] = q.no
      BY <2>2 DEF Id
    <3>3. WorkNumbered' /\ WorkStays
      <4>1. row \in [status: {"DRAFT", "SUBMITTED", "GRADED", "RETURNED"}, text: Answer]
        BY <2>2
      <4>2. \A m \in AttemptNo : m < id[2] => Exists(<<id[1], m>>)
        BY <2>2
      <4> HIDE DEF id, row
      <4> QED
        BY <3>1, <3>2, <4>1, <4>2, WorkRewritten
    <3>4. WorkHeld' /\ (Uncrossed => h \notin crossed)
      BY <1>b, <2>1, <3>1, <3>3 DEF At
    <3>5. ASSUME h \notin crossed PROVE Work!Begin(q.p)
      <4>1. \A m \in 1..MaxAttempts : m < q.no <=> <<q.p, m>> \in Work!Recorded
        BY <2>2, <2>4, NextAttempt
      <4>2. \A m \in 1..MaxAttempts : Work!Status(<<q.p, m>>) # "DRAFT"
        <5>1. ASSUME NEW m \in AttemptNo, Status(<<q.p, m>>) = "DRAFT" PROVE FALSE
          <6>1. Exists(<<q.p, m>>)
            BY <2>2, <5>1 DEF WorkHeld, WorkNumbered, Id
          <6> QED
            BY <2>2, <3>5, <5>1, <6>1 DEF Drafts, Numbers
        <5> QED
          BY <5>1, RecordedExist DEF AttemptNo
      <4>3. q.no \in 1..MaxAttempts
        BY <2>2 DEF AttemptNo
      <4> QED
        BY <2>2, <3>1, <3>5, <4>1, <4>2, <4>3 DEF Work!Begin
    <3>6. calls' = calls
      BY DEF Undisturbed
    <3> QED
      BY <2>2, <3>4, <3>5, <3>6 DEF Work!Next, Fine
  <2> QED
    BY <2>3, <2>4
<1>9. CASE UpdateSubmission(h)
  <2> DEFINE id == <<q.p, q.no>>
             row == [status |-> IF q.status = "SUBMITTED" THEN "SUBMITTED" ELSE Status(id),
                     text |-> q.text]
  <2>1. q.step = "update" /\ q.step \in SubmitsSteps
    BY <1>9 DEF UpdateSubmission, At, SubmitsSteps
  <2>2. /\ q.p \in Participant /\ q.text \in Answer /\ q.status \in {"DRAFT", "SUBMITTED"}
        /\ q.no \in AttemptNo /\ Exists(id)
        /\ h \notin crossed => Status(id) = "DRAFT"
        /\ h \notin crossed /\ q.status = "SUBMITTED" => q.text # NoText \/ attached[id] # {}
    BY <1>0, <2>1 DEF WorkHolds, WorkKnows
  <2>3. /\ submission' = [submission EXCEPT ![id] = row] /\ Commits(h, Idle)
        /\ UNCHANGED <<assignment, attached, grade>>
    BY <1>9 DEF UpdateSubmission, Commit
  <2>4. id \in Id /\ id[1] = q.p /\ id[2] = q.no
    BY <2>2 DEF Id
  <2>5. row \in [status: {"DRAFT", "SUBMITTED", "GRADED", "RETURNED"}, text: Answer]
    BY <1>0, <2>2, <2>4 DEF WorkHeld, WorkNumbered, SubmissionsTypeOK, Status
  <2>6. \A m \in AttemptNo : m < id[2] => Exists(<<id[1], m>>)
    BY <2>2, <2>4 DEF WorkHeld, WorkNumbered
  <2> HIDE DEF id
  <2>7. WorkNumbered' /\ WorkStays
    BY <2>3, <2>4, <2>5, <2>6, WorkRewritten
  <2>8. WorkHeld' /\ (Uncrossed => h \notin crossed)
    BY <1>b, <2>1, <2>3, <2>7 DEF At
  <2>9. ASSUME h \notin crossed PROVE Work!Continue(id)
    <3>1. row = [status |-> q.status, text |-> q.text]
      BY <2>2, <2>9
    <3>2. Work!Status(id) = "DRAFT"
      BY <2>2, <2>9, RecordedExist
    <3> QED
      BY <2>2, <2>3, <2>9, <3>1, <3>2 DEF Work!Continue
  <2>10. calls' = calls /\ id \in Work!Id
    BY <2>4, RecordedExist DEF Undisturbed
  <2> QED
    BY <2>8, <2>9, <2>10 DEF Work!Next, Fine
<1>10. CASE BeginEdit(h)
  <2>1. PICK id \in Id, t \in Answer :
            /\ Status(id) = "DRAFT"
            /\ Reads(h, [step |-> "update", p |-> id[1], no |-> id[2], text |-> t,
                         status |-> "DRAFT", allowed |-> 0])
            /\ UNCHANGED tables
    BY <1>10 DEF BeginEdit, Receive
  <2> DEFINE m == [step |-> "update", p |-> id[1], no |-> id[2], text |-> t,
                   status |-> "DRAFT", allowed |-> 0]
  <2>2. id[1] \in Participant /\ id[2] \in AttemptNo /\ <<id[1], id[2]>> = id /\ Exists(id)
    BY <2>1 DEF Id, WorkHeld, WorkNumbered
  <2>3. /\ m \in Requests /\ m.step = "update" /\ m.status = "DRAFT"
        /\ m.p = id[1] /\ m.no = id[2]
    BY <1>g, <2>2 DEF SubmitsSteps
  <2> HIDE DEF m
  <2>4. WorkHolds(m) /\ WorkKnows(m)
    BY <2>1, <2>2, <2>3 DEF WorkHolds, WorkKnows, SubmitsSteps, LinksSteps, AssessSteps
  <2> QED
    BY <1>a, <2>1, <2>4 DEF m
<1> QED
  BY <1>1, <1>2, <1>3, <1>4, <1>5, <1>6, <1>7, <1>8, <1>9, <1>10 DEF HandleSubmit

\* Every action of attachFile and detachFile keeps what is known, and if it is not one of
\* a crossed request it is a step of the promise.
LEMMA LinksWork ==
    ASSUME Steppable, WorkHeld, Undisturbed, NEW h \in Handler, HandleLink(h)
    PROVE  WorkHeld' /\ (Uncrossed => UNCHANGED Work!vars \/ Work!Next)
<1> DEFINE q == handler[h]
           Requests == [step: LinksSteps, id: Id, f: File]
           to(s) == [q EXCEPT !.step = s]
           Fine == UNCHANGED Work!vars \/ Work!Next
           Due(m) == m = Idle \/ (WorkHolds(m) /\ (h \notin crossed => WorkKnows(m)))
<1> SUFFICES WorkHeld' /\ (Uncrossed => Fine)
  OBVIOUS
<1>0. /\ WorkHolds(q) /\ (h \notin crossed => WorkKnows(q)) /\ SubmissionsTypeOK
      /\ calls' = calls
  BY DEF WorkHeld, WorkNumbered, Undisturbed
<1>a. ASSUME NEW m, Reads(h, m), UNCHANGED tables, Due(m)
      PROVE  WorkHeld' /\ Fine
  BY <1>a, TablesRead
<1>b. ASSUME Commits(h, Idle), ~At(h, "idle"), UNCHANGED <<assignment, submission, grade>>,
             attached' \in [Id -> SUBSET File]
      PROVE  WorkHeld' /\ (Uncrossed => h \notin crossed)
  <2>1. WorkNumbered' /\ WorkStays
    BY <1>b DEF WorkHeld, WorkNumbered, SubmissionsTypeOK, Exists, Status, WorkStays
  <2>2. WorkHeld'
    BY <1>b, <2>1, TablesWritten
  <2>3. Idle # handler[h]
    BY <1>b DEF At, Idle
  <2>4. Uncrossed => h \notin crossed
    BY <1>b, <2>3, MovedUncrossed
  <2> QED
    BY <2>2, <2>4
<1>c. ASSUME q.step \in LinksSteps
      PROVE  q \in Requests /\ (h \notin crossed => FilesOpen(Status(q.id)))
  BY <1>0, <1>c DEF WorkHolds, WorkKnows
<1>d. ASSUME q.step \in LinksSteps, NEW s \in LinksSteps
      PROVE  Due(to(s))
  <2>1. to(s) \in Requests /\ to(s).step = s /\ to(s).id = q.id
    BY <1>c, <1>d
  <2> HIDE DEF to
  <2>2. WorkHolds(to(s)) /\ (h \notin crossed => WorkKnows(to(s)))
    BY <1>c, <1>d, <2>1 DEF WorkHolds, WorkKnows, SubmitsSteps, LinksSteps, AssessSteps
  <2> QED
    BY <2>2
<1>e. ASSUME q.step \in LinksSteps, h \notin crossed PROVE q.id \in Work!Open
  BY <1>c, <1>e, RecordedExist DEF FilesOpen, Work!Open
<1>f. /\ \A s : Goto(h, s) => Reads(h, to(s))
      /\ Finish(h) => Reads(h, Idle)
  BY DEF Goto, Finish
<1> HIDE DEF to, Fine
<1>1. CASE BeginFiles(h)
  <2>1. PICK id \in Id, f \in File, s \in {"file", "linked"} :
            /\ FilesOpen(Status(id))
            /\ Reads(h, [step |-> s, id |-> id, f |-> f])
            /\ UNCHANGED tables
    BY <1>1 DEF BeginFiles, Receive
  <2> DEFINE m == [step |-> s, id |-> id, f |-> f]
  <2>2. m \in Requests /\ m.step = s /\ m.id = id
    BY DEF LinksSteps
  <2> HIDE DEF m
  <2>3. WorkHolds(m) /\ WorkKnows(m)
    BY <2>1, <2>2 DEF WorkHolds, WorkKnows, SubmitsSteps, LinksSteps, AssessSteps
  <2> QED
    BY <1>a, <2>1, <2>3 DEF m
<1>2. CASE ReadFile(h)
  <2>1. q.step \in LinksSteps /\ UNCHANGED tables /\ (Finish(h) \/ Goto(h, "free"))
    BY <1>2 DEF ReadFile, At, LinksSteps
  <2>2. Due(to("free"))
    BY <1>d, <2>1 DEF LinksSteps
  <2> QED
    BY <1>a, <1>f, <2>1, <2>2
<1>3. CASE FindLink(h)
  <2>1. /\ q.step \in LinksSteps /\ UNCHANGED tables
        /\ Finish(h) \/ Goto(h, "attach") \/ Goto(h, "detach")
    BY <1>3 DEF FindLink, At, LinksSteps
  <2>2. Due(to("attach")) /\ Due(to("detach"))
    BY <1>d, <2>1 DEF LinksSteps
  <2> QED
    BY <1>a, <1>f, <2>1, <2>2
<1>4. CASE Attach(h) \/ Detach(h)
  <2>1. /\ q.step \in LinksSteps /\ ~At(h, "idle") /\ UNCHANGED <<assignment, submission, grade>>
        /\ \/ Finish(h) /\ UNCHANGED attached
           \/ /\ Commits(h, Idle)
              /\ \/ attached' = [attached EXCEPT ![q.id] = @ \cup {q.f}]
                 \/ attached' = [attached EXCEPT ![q.id] = @ \ {q.f}]
    BY <1>4 DEF Attach, Detach, At, LinksSteps, Commit
  <2>2. CASE Finish(h) /\ UNCHANGED attached
    BY <1>a, <1>f, <2>1, <2>2 DEF tables, work
  <2>3. CASE Commits(h, Idle) /\ ~(Finish(h) /\ UNCHANGED attached)
    <3>1. q.id \in Id /\ q.f \in File
      BY <1>c, <2>1
    <3>2. PICK S \in SUBSET File : attached' = [attached EXCEPT ![q.id] = S]
      BY <1>0, <2>1, <2>3, <3>1 DEF SubmissionsTypeOK
    <3>3. attached' \in [Id -> SUBSET File]
      BY <1>0, <3>2 DEF SubmissionsTypeOK
    <3>4. WorkHeld' /\ (Uncrossed => h \notin crossed)
      BY <1>b, <2>1, <2>3, <3>3
    <3>5. h \notin crossed => Work!ChangeFiles(q.id)
      BY <1>e, <2>1, <3>2 DEF Work!ChangeFiles
    <3> QED
      BY <1>0, <3>1, <3>4, <3>5, RecordedExist DEF Work!Next, Fine
  <2> QED
    BY <2>1, <2>2, <2>3
<1> QED
  BY <1>1, <1>2, <1>3, <1>4 DEF HandleLink

\* Every action of grade and returnToParticipant keeps what is known, and if it is not one
\* of a crossed request it is a step of the promise.
LEMMA AssessWork ==
    ASSUME Steppable, WorksGraded, WorkHeld, Undisturbed, NEW h \in Handler, HandleAssess(h)
    PROVE  WorkHeld' /\ (Uncrossed => UNCHANGED Work!vars \/ Work!Next)
<1> DEFINE q == handler[h]
           Requests == [step: AssessSteps, id: Id, score: 0..MaxPoints,
                        status: {"SUBMITTED", "GRADED", "RETURNED"}, back: BOOLEAN]
           to(s) == [q EXCEPT !.step = s]
           Fine == UNCHANGED Work!vars \/ Work!Next
           Due(m) == m = Idle \/ (WorkHolds(m) /\ (h \notin crossed => WorkKnows(m)))
<1> SUFFICES WorkHeld' /\ (Uncrossed => Fine)
  OBVIOUS
<1>0. /\ WorkHolds(q) /\ (h \notin crossed => WorkKnows(q)) /\ SubmissionsTypeOK
      /\ calls' = calls
  BY DEF WorkHeld, WorkNumbered, Undisturbed
<1>a. ASSUME NEW m, Reads(h, m), UNCHANGED tables, Due(m)
      PROVE  WorkHeld' /\ Fine
  BY <1>a, TablesRead
<1>b. ASSUME NEW m, Commits(h, m), ~At(h, "idle"), m # q, WorkNumbered', WorkStays,
             m = Idle \/ (WorkHolds(m)' /\ (h \notin crossed => WorkKnows(m)'))
      PROVE  WorkHeld' /\ (Uncrossed => h \notin crossed)
  BY <1>b, TablesWritten, MovedUncrossed
<1>c. ASSUME q.step \in AssessSteps
      PROVE  q \in Requests /\ (h \notin crossed => Status(q.id) = q.status)
  BY <1>0, <1>c DEF WorkHolds, WorkKnows
<1>f. /\ Goto(h, "grade") => Reads(h, to("grade"))
      /\ Finish(h) => Reads(h, Idle)
  BY DEF Goto, Finish
<1> HIDE DEF Fine
<1>1. CASE BeginGrade(h) \/ BeginReturn(h)
  <2>1. PICK id \in Id, x \in 0..MaxPoints, back \in BOOLEAN, s \in {"ceiling", "mark"} :
            /\ HandedIn(Status(id))
            /\ s = "mark" => grade[id] # Ungraded /\ NextStatus(Status(id), back) # "stop"
            /\ Reads(h, [step |-> s, id |-> id, score |-> x, status |-> Status(id),
                         back |-> back])
            /\ UNCHANGED tables
    <3>1. CASE BeginGrade(h)
      BY <3>1 DEF BeginGrade, Receive, Gradable
    <3>2. CASE BeginReturn(h)
      <4>1. PICK id \in Id :
                /\ Status(id) = "GRADED"
                /\ Reads(h, [step |-> "mark", id |-> id, score |-> grade[id],
                             status |-> "GRADED", back |-> TRUE])
                /\ UNCHANGED tables
        BY <3>2 DEF BeginReturn, Receive
      <4>2. grade[id] # Ungraded
        BY <4>1 DEF WorksGraded, Graded, Marked
      <4>3. grade[id] \in 0..MaxPoints
        BY <1>0, <4>2 DEF SubmissionsTypeOK
      <4>4. NextStatus("GRADED", TRUE) # "stop" /\ HandedIn("GRADED")
        BY DEF NextStatus, HandedIn
      <4> QED
        BY <4>1, <4>2, <4>3, <4>4
    <3> QED
      BY <1>1, <3>1, <3>2
  <2> DEFINE m == [step |-> s, id |-> id, score |-> x, status |-> Status(id), back |-> back]
  <2>2. /\ m \in Requests /\ m.step = s /\ m.id = id /\ m.status = Status(id)
        /\ m.back = back
    BY <2>1 DEF AssessSteps, HandedIn
  <2> HIDE DEF m
  <2>3. WorkHolds(m) /\ WorkKnows(m)
    BY <2>1, <2>2 DEF WorkHolds, WorkKnows, SubmitsSteps, LinksSteps, AssessSteps
  <2> QED
    BY <1>a, <2>1, <2>3 DEF m
<1>2. CASE ReadCeiling(h)
  <2>1. q.step = "ceiling" /\ q.step \in AssessSteps
    BY <1>2 DEF ReadCeiling, At, AssessSteps
  <2>2. CASE Finish(h) /\ UNCHANGED tables
    BY <1>a, <1>f, <2>2
  <2>3. CASE Goto(h, "grade") /\ UNCHANGED tables /\ ~(q.score > assignment.ceiling)
    <3>1. /\ to("grade") \in Requests /\ to("grade").step = "grade" /\ to("grade").id = q.id
          /\ to("grade").status = q.status /\ to("grade").score = q.score
      BY <1>c, <2>1 DEF AssessSteps
    <3>2. q.score <= assignment.ceiling
      BY <1>0, <1>c, <2>1, <2>3, SubmissionsAssumption DEF SubmissionsTypeOK
    <3> HIDE DEF to
    <3>3. WorkHolds(to("grade")) /\ (h \notin crossed => WorkKnows(to("grade")))
      BY <1>c, <2>1, <3>1, <3>2 DEF WorkHolds, WorkKnows, SubmitsSteps, LinksSteps, AssessSteps
    <3> QED
      BY <1>a, <1>f, <2>3, <3>3
  <2> QED
    BY <1>2, <2>2, <2>3 DEF ReadCeiling
<1>3. CASE UpsertGrade(h)
  <2>1. q.step = "grade" /\ q.step \in AssessSteps /\ ~At(h, "idle")
    BY <1>3 DEF UpsertGrade, At, AssessSteps
  <2>2. /\ q.id \in Id /\ q.score \in 0..MaxPoints
        /\ q.status \in {"SUBMITTED", "GRADED", "RETURNED"}
        /\ h \notin crossed => Status(q.id) = q.status /\ q.score <= assignment.ceiling
    BY <1>0, <1>c, <2>1 DEF WorkKnows
  <2>3. /\ grade' = [grade EXCEPT ![q.id] = q.score]
        /\ UNCHANGED <<assignment, submission, attached>>
    BY <1>3 DEF UpsertGrade
  <2>4. PICK m : /\ Commits(h, m)
                 /\ m = IF NextStatus(q.status, q.back) = "stop" THEN Idle
                        ELSE [q EXCEPT !.step = "mark"]
    BY <1>3 DEF UpsertGrade, Commit
  <2>5. q.score # Ungraded
    BY <2>2, SubmissionsAssumption DEF Ungraded
  <2>6. WorkNumbered' /\ WorkStays
    BY <2>2, <2>3, <2>5 DEF WorkHeld, WorkNumbered, SubmissionsTypeOK, Exists, Status, WorkStays
  <2>7. m # q
    <3>1. Idle # q
      BY <2>1 DEF Idle, At
    <3>2. [q EXCEPT !.step = "mark"] # q
      BY <1>c, <2>1
    <3> QED
      BY <2>4, <3>1, <3>2
  <2>8. m = Idle \/ (WorkHolds(m)' /\ (h \notin crossed => WorkKnows(m)'))
    <3>1. CASE NextStatus(q.status, q.back) # "stop"
      <4>1. /\ m \in Requests /\ m.step = "mark" /\ m.id = q.id /\ m.status = q.status
            /\ m.back = q.back
        BY <1>c, <2>1, <2>4, <3>1 DEF AssessSteps
      <4>2. grade'[q.id] # Ungraded
        BY <1>0, <2>2, <2>3, <2>5 DEF SubmissionsTypeOK
      <4>3. \A i : Status(i)' = Status(i)
        BY <2>3 DEF Status
      <4>4. PICK n, b, i : n \in {"SUBMITTED", "GRADED", "RETURNED"} /\ n = q.status /\ b = q.back /\ i = q.id
        BY <2>2
      <4>5. WorkHolds(m)'
        BY <3>1, <4>1, <4>2, <4>4 DEF WorkHolds, SubmitsSteps, LinksSteps, AssessSteps
      <4>6. h \notin crossed => Status(i)' = n
        BY <2>2, <4>3, <4>4
      <4>7. h \notin crossed => WorkKnows(m)'
        BY <4>1, <4>4, <4>6 DEF WorkKnows, SubmitsSteps, LinksSteps, AssessSteps
      <4> QED
        BY <4>5, <4>7
    <3> QED
      BY <2>4, <3>1
  <2>9. WorkHeld' /\ (Uncrossed => h \notin crossed)
    BY <1>b, <2>1, <2>4, <2>6, <2>7, <2>8
  <2>10. ASSUME h \notin crossed PROVE Work!Grade(q.id)
    <3>1. q.score \in 0..assignment.ceiling
      BY <1>0, <2>2, <2>10 DEF SubmissionsTypeOK
    <3> QED
      BY <2>2, <2>3, <2>10, <3>1, RecordedExist DEF Work!Grade
  <2> QED
    BY <1>0, <2>2, <2>9, <2>10, RecordedExist DEF Work!Next, Fine
<1>4. CASE Mark(h)
  <2> DEFINE next == NextStatus(q.status, q.back)
  <2>1. q.step = "mark" /\ q.step \in AssessSteps /\ ~At(h, "idle")
    BY <1>4 DEF Mark, At, AssessSteps
  <2>2. /\ q \in Requests /\ grade[q.id] # Ungraded /\ next # "stop"
        /\ h \notin crossed => Status(q.id) = q.status
    BY <1>0, <1>c, <2>1 DEF WorkHolds
  <2>3. PICK m : /\ Commits(h, m)
                 /\ m = IF NextStatus(next, q.back) = "stop" THEN Idle ELSE [q EXCEPT !.status = next]
    BY <1>4 DEF Mark, Commit
  <2>4. /\ submission' = [submission EXCEPT ![q.id].status = next]
        /\ UNCHANGED <<assignment, attached, grade>>
    BY <1>4 DEF Mark
  <2>5. PICK new \in {"GRADED", "RETURNED"}, id \in Id :
            /\ new = next /\ id = q.id
            /\ q.status = IF new = "GRADED" THEN "SUBMITTED" ELSE "GRADED"
    BY <2>2 DEF NextStatus
  <2> HIDE DEF next
  <2> DEFINE row == [status |-> new, text |-> submission[id].text]
  <2>6. /\ row \in [status: {"DRAFT", "SUBMITTED", "GRADED", "RETURNED"}, text: Answer]
        /\ submission' = [submission EXCEPT ![id] = row] /\ submission'[id].status = new
    <3>1. submission[id] \in [status: {"none", "DRAFT", "SUBMITTED", "GRADED", "RETURNED"},
                               text: Answer]
      BY <1>0 DEF SubmissionsTypeOK
    <3>2. [submission[id] EXCEPT !.status = new] = row
      BY <3>1
    <3>3. submission' = [submission EXCEPT ![id] = [submission[id] EXCEPT !.status = new]]
      BY <2>4, <2>5
    <3>4. submission' = [submission EXCEPT ![id] = row]
      BY <3>2, <3>3
    <3>5. submission'[id] = row
      BY <1>0, <3>4 DEF SubmissionsTypeOK
    <3> QED
      BY <3>1, <3>4, <3>5
  <2>7. \A n \in AttemptNo : n < id[2] => Exists(<<id[1], n>>)
    <3>1. Exists(id) /\ id = <<id[1], id[2]>> /\ id[1] \in Participant /\ id[2] \in AttemptNo
      BY <2>2, <2>5 DEF WorksGraded, Graded, Handed, HandedIn, WorkHeld, WorkNumbered, Id
    <3> QED
      BY <3>1 DEF WorkHeld, WorkNumbered
  <2> HIDE DEF row
  <2>8. WorkNumbered' /\ WorkStays
    BY <2>4, <2>6, <2>7, WorkRewritten
  <2>9. m = Idle \/ (WorkHolds(m)' /\ (h \notin crossed => WorkKnows(m)'))
    <3>1. CASE NextStatus(next, q.back) # "stop"
      <4>1. /\ m \in Requests /\ m.step = "mark" /\ m.id = id /\ m.status = new
            /\ NextStatus(m.status, m.back) # "stop"
        BY <2>1, <2>2, <2>3, <2>5, <3>1
      <4>2. grade'[id] # Ungraded /\ Status(id)' = new
        BY <2>2, <2>4, <2>5, <2>6 DEF Status
      <4>3. WorkHolds(m)' /\ WorkKnows(m)'
        BY <4>1, <4>2 DEF WorkHolds, WorkKnows, SubmitsSteps, LinksSteps, AssessSteps
      <4> QED
        BY <4>3
    <3> QED
      BY <2>3, <3>1
  <2>10. m # q
    <3>1. Idle # q
      BY <2>1 DEF Idle, At
    <3>2. [q EXCEPT !.status = next] # q
      BY <2>2, <2>5
    <3> QED
      BY <2>3, <3>1, <3>2
  <2>11. WorkHeld' /\ (Uncrossed => h \notin crossed)
    BY <1>b, <2>1, <2>3, <2>8, <2>9, <2>10
  <2>12. ASSUME h \notin crossed PROVE Work!Advance(id)
    <3>1. grade[id] >= 0
      BY <1>0, <2>2, <2>5 DEF SubmissionsTypeOK
    <3>2. Work!Status(id) = IF new = "GRADED" THEN "SUBMITTED" ELSE "GRADED"
      BY <2>2, <2>5, <2>12, RecordedExist
    <3> QED
      BY <2>4, <2>5, <3>1, <3>2 DEF Work!Advance
  <2> QED
    BY <1>0, <2>11, <2>12, RecordedExist DEF Work!Next, Fine
<1> QED
  BY <1>1, <1>2, <1>3, <1>4 DEF HandleAssess

\* Every action of changeStatus and update keeps what is known, and if it is not one of a
\* crossed request it is a step of the promise.
LEMMA AssignmentsWork ==
    ASSUME Steppable, WorksGraded, WorkHeld, Undisturbed, NEW h \in Handler,
           HandleAssignment(h)
    PROVE  WorkHeld' /\ (Uncrossed => UNCHANGED Work!vars \/ Work!Next)
<1> DEFINE q == handler[h]
           Updates == {"list", "grades", "count", "write"}
           Requests == [step: Updates, ceiling: -1..MaxPoints, allowed: 0..MaxAttempts,
                        left: SUBSET Id]
           to(s) == [q EXCEPT !.step = s]
           Fine == UNCHANGED Work!vars \/ Work!Next
           Due(m) == m = Idle \/ (WorkHolds(m) /\ (h \notin crossed => WorkKnows(m)))
<1> SUFFICES WorkHeld' /\ (Uncrossed => Fine)
  OBVIOUS
<1>0. /\ WorkHolds(q) /\ (h \notin crossed => WorkKnows(q)) /\ SubmissionsTypeOK
      /\ calls' = calls
  BY DEF WorkHeld, WorkNumbered, Undisturbed
<1>a. ASSUME NEW m, Reads(h, m), UNCHANGED tables, Due(m)
      PROVE  WorkHeld' /\ Fine
  BY <1>a, TablesRead
<1>b. ASSUME Commits(h, Idle), ~At(h, "idle"), UNCHANGED work, SubmissionsTypeOK'
      PROVE  WorkHeld' /\ (Uncrossed => h \notin crossed)
  <2>1. /\ \A id : (Exists(id)' <=> Exists(id)) /\ Status(id)' = Status(id)
        /\ grade' = grade
    BY <1>b DEF work, Exists, Status
  <2>2. WorkNumbered' /\ WorkStays
    BY <1>b, <2>1 DEF WorkHeld, WorkNumbered, WorkStays
  <2>3. Idle # q
    BY <1>b DEF At, Idle
  <2> QED
    BY <1>b, <2>2, <2>3, TablesWritten, MovedUncrossed
<1>c. ASSUME q.step \in Updates
      PROVE  q \in Requests /\ (h \notin crossed => assignment.status # "ARCHIVED")
  BY <1>0, <1>c DEF WorkHolds, WorkKnows
<1>d. ASSUME NEW m, m \in Requests, assignment.status # "ARCHIVED" \/ h \in crossed,
             m.step \in {"list", "grades"} => m.ceiling >= 0,
             m.step = "grades" => UnderCeiling(Id \ m.left, m.ceiling) \/ h \in crossed,
             m.step \in {"count", "write"} /\ m.ceiling >= 0 =>
                UnderCeiling(Id, m.ceiling) \/ h \in crossed,
             m.step = "write" /\ m.allowed > 0 =>
                Cardinality({id \in Id : Exists(id)}) <= m.allowed \/ h \in crossed
      PROVE  Due(m)
  BY <1>d DEF WorkHolds, WorkKnows, SubmitsSteps, LinksSteps, AssessSteps
<1>f. Finish(h) => Reads(h, Idle)
  BY DEF Finish
<1> HIDE DEF to, Fine, Due
<1>g. ASSUME NEW S \in SUBSET Id, LookAt(h, S), UNCHANGED tables, q.step \in {"list", "grades"},
             h \notin crossed => UnderCeiling(Id \ S, q.ceiling)
      PROVE  WorkHeld' /\ Fine
  <2>1. q \in Requests /\ q.ceiling >= 0
    BY <1>0, <1>c, <1>g DEF WorkHolds
  <2>2. PICK s \in {"grades", "count", "write"} :
            /\ Reads(h, [q EXCEPT !.left = S, !.step = s])
            /\ s # "grades" => S = {}
            /\ s = "write" => ~(q.allowed > 0)
    BY <1>g DEF LookAt
  <2> DEFINE m == [q EXCEPT !.left = S, !.step = s]
  <2>3. m \in Requests /\ m.step = s
    BY <2>1
  <2>4. m.left = S /\ m.ceiling = q.ceiling /\ m.allowed = q.allowed
    BY <2>1
  <2> HIDE DEF m
  <2>5. S = {} => Id \ S = Id
    OBVIOUS
  <2>6. Due(m)
    BY <1>c, <1>d, <1>g, <2>1, <2>2, <2>3, <2>4, <2>5
  <2> QED
    BY <1>a, <1>g, <2>2, <2>6 DEF m
<1>1. CASE BeginStatus(h)
  <2>1. PICK new \in {"PUBLISHED", "CLOSED", "ARCHIVED"} :
            /\ AllowedAssignmentTransition(assignment.status, new)
            /\ Reads(h, [step |-> "status", to |-> new])
            /\ UNCHANGED tables
    BY <1>1 DEF BeginStatus, Receive
  <2> DEFINE m == [step |-> "status", to |-> new]
  <2>2. /\ m.step = "status" /\ m.to = new
        /\ m \in [step: {"status"}, to: {"PUBLISHED", "CLOSED", "ARCHIVED"}]
    OBVIOUS
  <2> HIDE DEF m
  <2>3. WorkHolds(m) /\ WorkKnows(m)
    BY <2>1, <2>2 DEF WorkHolds, WorkKnows, SubmitsSteps, LinksSteps, AssessSteps
  <2> QED
    BY <1>a, <2>1, <2>3 DEF m, Due
<1>2. CASE WriteStatus(h)
  <2>1. /\ q.step = "status" /\ Commits(h, Idle) /\ UNCHANGED work /\ ~At(h, "idle")
        /\ assignment' = [assignment EXCEPT !.status = q.to]
    BY <1>2 DEF WriteStatus, At, Commit
  <2>2. q.to \in {"PUBLISHED", "CLOSED", "ARCHIVED"}
    BY <1>0, <2>1 DEF WorkHolds
  <2>3. /\ assignment' = [status |-> q.to, ceiling |-> assignment.ceiling,
                          allowed |-> assignment.allowed]
        /\ SubmissionsTypeOK'
    BY <1>0, <2>1, <2>2 DEF SubmissionsTypeOK, work
  <2>4. WorkHeld' /\ (Uncrossed => h \notin crossed)
    BY <1>b, <2>1, <2>3
  <2>5. ASSUME h \notin crossed PROVE Work!Change
    <3>1. AllowedAssignmentTransition(assignment.status, q.to)
      BY <1>0, <2>1, <2>5 DEF WorkKnows
    <3>2. assignment.status # "ARCHIVED"
      BY <3>1 DEF AllowedAssignmentTransition
    <3>3. assignment.ceiling \in 0..MaxPoints /\ assignment.allowed \in 1..MaxAttempts
      BY <1>0 DEF SubmissionsTypeOK, AttemptNo
    <3> QED
      BY <2>1, <2>2, <2>3, <3>2, <3>3 DEF Work!Change, work
  <2> QED
    BY <1>0, <2>4, <2>5 DEF Work!Next, Fine
<1>3. CASE BeginUpdate(h)
  <2>1. PICK x \in -1..MaxPoints, n \in 0..MaxAttempts, s \in {"list", "count"} :
            /\ assignment.status # "ARCHIVED"
            /\ s = IF x >= 0 THEN "list" ELSE "count"
            /\ Reads(h, [step |-> s, ceiling |-> x, allowed |-> n, left |-> {}])
            /\ UNCHANGED tables
    BY <1>3 DEF BeginUpdate, Receive
  <2> DEFINE m == [step |-> s, ceiling |-> x, allowed |-> n, left |-> {}]
  <2>2. m \in Requests /\ m.step = s /\ m.ceiling = x
    OBVIOUS
  <2> HIDE DEF m
  <2>3. Due(m)
    BY <1>d, <2>1, <2>2
  <2> QED
    BY <1>a, <2>1, <2>3 DEF m
<1>4. CASE ListForCeiling(h)
  <2> DEFINE S == {id \in Id : Exists(id)}
  <2>1. q.step = "list" /\ LookAt(h, S) /\ UNCHANGED tables
    BY <1>4 DEF ListForCeiling, At
  <2>2. q.ceiling \in -1..MaxPoints /\ q.ceiling >= 0
    BY <1>0, <1>c, <2>1 DEF WorkHolds
  <2>3. ASSUME NEW id \in Id \ S PROVE grade[id] <= q.ceiling
    <3>1. grade[id] = Ungraded
      BY <2>3 DEF WorksGraded, Graded, Handed, HandedIn, WorkHeld, WorkNumbered
    <3> QED
      BY <2>2, <3>1, SubmissionsAssumption DEF Ungraded
  <2>4. UnderCeiling(Id \ S, q.ceiling)
    BY <2>3 DEF UnderCeiling
  <2> HIDE DEF S
  <2>5. S \in SUBSET Id
    BY DEF S
  <2> QED
    BY <1>g, <2>1, <2>4, <2>5
<1>5. CASE CheckGrade(h)
  <2>1. q.step = "grades" /\ UNCHANGED tables
    BY <1>5 DEF CheckGrade, At
  <2>2. CASE Finish(h)
    BY <1>a, <1>f, <2>1, <2>2 DEF Due
  <2>3. CASE ~Finish(h)
    <3>1. PICK id \in q.left : ~(grade[id] > q.ceiling) /\ LookAt(h, q.left \ {id})
      BY <1>5, <2>3 DEF CheckGrade
    <3>2. q.left \subseteq Id /\ q.ceiling \in -1..MaxPoints
      BY <1>c, <2>1
    <3>3. grade[id] <= q.ceiling
      <4>1. grade[id] \in Int
        BY <1>0, <3>1, <3>2, SubmissionsAssumption DEF SubmissionsTypeOK, Ungraded
      <4> QED
        BY <3>1, <3>2, <4>1, SubmissionsAssumption
    <3>4. h \notin crossed => UnderCeiling(Id \ q.left, q.ceiling)
      BY <1>0, <2>1 DEF WorkKnows
    <3>5. h \notin crossed => UnderCeiling(Id \ (q.left \ {id}), q.ceiling)
      BY <3>3, <3>4 DEF UnderCeiling
    <3> QED
      BY <1>g, <2>1, <3>1, <3>2, <3>5
  <2> QED
    BY <2>2, <2>3
<1>6. CASE CountRecorded(h)
  <2> DEFINE n == Cardinality({id \in Id : Exists(id)})
  <2>1. q.step = "count" /\ UNCHANGED tables
    BY <1>6 DEF CountRecorded, At
  <2>2. CASE Finish(h)
    BY <1>a, <1>f, <2>1, <2>2 DEF Due
  <2>3. CASE ~(q.allowed < n) /\ Goto(h, "write")
    <3>1. q \in Requests /\ (h \notin crossed => assignment.status # "ARCHIVED")
      BY <1>c, <2>1
    <3>2. to("write") \in Requests /\ to("write").step = "write"
      BY <3>1 DEF to
    <3>3. to("write").ceiling = q.ceiling /\ to("write").allowed = q.allowed
      BY <3>1 DEF to
    <3>4. n \in Nat
      <4>1. IsFiniteSet(AttemptNo)
        BY SubmissionsAssumption, FS_Interval DEF AttemptNo
      <4>2. IsFiniteSet(Id)
        BY <4>1, SubmissionsAssumption, FS_Product DEF Id
      <4>3. IsFiniteSet({id \in Id : Exists(id)})
        BY <4>2, FS_Subset
      <4> QED
        BY <4>3, FS_CardinalityType
    <3> HIDE DEF n
    <3>5. n <= q.allowed
      BY <2>3, <3>1, <3>4, SubmissionsAssumption
    <3>6. q.ceiling >= 0 => UnderCeiling(Id, q.ceiling) \/ h \in crossed
      BY <1>0, <2>1 DEF WorkKnows
    <3>7. Due(to("write"))
      BY <1>d, <3>1, <3>2, <3>3, <3>5, <3>6 DEF n
    <3>8. Reads(h, to("write"))
      BY <2>3 DEF Goto, to
    <3> QED
      BY <1>a, <2>1, <3>7, <3>8
  <2> QED
    BY <1>6, <2>2, <2>3 DEF CountRecorded
<1>7. CASE WriteUpdate(h)
  <2>1. /\ q.step = "write" /\ Commits(h, Idle) /\ UNCHANGED work /\ ~At(h, "idle")
        /\ assignment' = [assignment EXCEPT
                !.ceiling = IF q.ceiling >= 0 THEN q.ceiling ELSE @,
                !.allowed = IF q.allowed > 0 THEN q.allowed ELSE @]
    BY <1>7 DEF WriteUpdate, At, Commit
  <2>2. q.ceiling \in -1..MaxPoints /\ q.allowed \in 0..MaxAttempts
    BY <1>c, <2>1
  <2>3. /\ assignment.ceiling \in 0..MaxPoints /\ assignment.allowed \in 1..MaxAttempts
        /\ assignment.status \in {"DRAFT", "PUBLISHED", "CLOSED", "ARCHIVED"}
    BY <1>0 DEF SubmissionsTypeOK, AttemptNo
  <2>4. PICK x \in 0..MaxPoints : x = IF q.ceiling >= 0 THEN q.ceiling ELSE assignment.ceiling
    BY <2>2, <2>3, SubmissionsAssumption
  <2>5. PICK n \in 1..MaxAttempts : n = IF q.allowed > 0 THEN q.allowed ELSE assignment.allowed
    BY <2>2, <2>3, SubmissionsAssumption
  <2>6. assignment' = [status |-> assignment.status, ceiling |-> x, allowed |-> n]
    <3>1. assignment' = [assignment EXCEPT !.ceiling = x, !.allowed = n]
      BY <2>1, <2>4, <2>5
    <3> QED
      BY <1>0, <3>1 DEF SubmissionsTypeOK
  <2>7. SubmissionsTypeOK'
    BY <1>0, <2>1, <2>3, <2>6 DEF SubmissionsTypeOK, work, AttemptNo
  <2>8. WorkHeld' /\ (Uncrossed => h \notin crossed)
    BY <1>b, <2>1, <2>7
  <2>9. ASSUME h \notin crossed PROVE Work!Change
    <3>1. /\ assignment.status # "ARCHIVED"
          /\ q.ceiling >= 0 => UnderCeiling(Id, q.ceiling)
          /\ q.allowed > 0 => Cardinality({id \in Id : Exists(id)}) <= q.allowed
      BY <1>0, <2>1, <2>9 DEF WorkKnows
    <3>2. x # assignment.ceiling => \A id \in Work!Id : grade[id] <= x
      BY <2>4, <3>1, RecordedExist DEF UnderCeiling
    <3>3. n # assignment.allowed => Cardinality(Work!Recorded) <= n
      BY <2>5, <3>1, RecordedExist
    <3>4. n # assignment.allowed => Work!Cardinality(Work!Recorded) <= n
      BY <3>3 DEF Cardinality, Work!Cardinality
    <3> QED
      BY <2>1, <2>3, <2>6, <3>1, <3>2, <3>4 DEF Work!Change, work
  <2> QED
    BY <1>0, <2>8, <2>9 DEF Work!Next, Fine
<1> QED
  BY <1>1, <1>2, <1>3, <1>4, <1>5, <1>6, <1>7 DEF HandleAssignment

\* What every step of the whole keeps, and that a step that crosses nothing keeps the
\* promise.
LEMMA WorkStep ==
    ASSUME Steppable, WorksGraded, WorkHeld, [Next]_vars
    PROVE  WorkHeld' /\ (Uncrossed => UNCHANGED Work!vars \/ Work!Next)
<1>0. Undisturbed
  BY NextUndisturbed
<1>1. ASSUME NEW h \in Handler,
             HandleSubmit(h) \/ HandleLink(h) \/ HandleAssess(h) \/ HandleAssignment(h)
      PROVE  WorkHeld' /\ (Uncrossed => UNCHANGED Work!vars \/ Work!Next)
  BY <1>0, <1>1, SubmitsWork, LinksWork, AssessWork, AssignmentsWork
<1>2. ASSUME UNCHANGED tables, Unentered(SubmitsSteps), Unentered(LinksSteps),
             Unentered(AssessSteps), Unentered(AssignmentsSteps)
      PROVE  WorkHeld' /\ UNCHANGED Work!vars
  <2>1. /\ assignment' = assignment /\ submission' = submission
        /\ attached' = attached /\ grade' = grade /\ calls' = calls
    BY <1>0, <1>2 DEF tables, work, Undisturbed
  <2>2. WorkStays /\ WorkNumbered'
    BY <2>1 DEF WorkStays, WorkHeld, WorkNumbered, SubmissionsTypeOK, Exists, Status
  <2>3. ASSUME NEW g \in Handler
        PROVE  WorkHolds(handler[g])' /\ (g \notin crossed => WorkKnows(handler[g]))'
    <3>1. CASE handler'[g] = handler[g]
      BY <1>0, <1>2, <2>2, <3>1, WorkUnmoved
    <3>2. CASE handler'[g] # handler[g]
      <4>1. handler'[g].step \notin
                SubmitsSteps \cup LinksSteps \cup AssessSteps \cup AssignmentsSteps
        BY <1>2, <3>2 DEF Unentered
      <4> QED
        BY <4>1 DEF WorkHolds, WorkKnows, SubmitsSteps, LinksSteps, AssessSteps, AssignmentsSteps
    <3> QED
      BY <3>1, <3>2
  <2> QED
    BY <2>1, <2>2, <2>3 DEF WorkHeld, Work!vars
<1> QED
  BY <1>1, <1>2, TablesElse

\* Nothing has been read yet, and at most the first attempts are there.
LEMMA InitWork == Init => WorkHeld /\ Work!Init
<1> SUFFICES ASSUME Init PROVE WorkHeld /\ Work!Init
  OBVIOUS
<1>1. SubmissionsInit /\ RequestsInit
  BY DEF Init, CourseworkInit
<1>2. ASSUME NEW h \in Handler
      PROVE  WorkHolds(handler[h]) /\ (h \notin crossed => WorkKnows(handler[h]))
  <2>1. handler[h].step = "idle"
    BY <1>1 DEF RequestsInit, Idle
  <2> QED
    BY <2>1, WorkIdle
<1>3. /\ Id = Work!Id /\ AttemptNo = 1..MaxAttempts /\ 1 \in AttemptNo
      /\ MaxPoints \in 0..MaxPoints /\ Answer \ {NoText} = Text
  BY SubmissionsAssumption DEF Id, Work!Id, AttemptNo, Answer
<1>4. ASSUME NEW id \in Id
      PROVE  /\ submission[id] \in [status: {"none"}, text: {NoText}]
                                   \cup [status: {"SUBMITTED"}, text: Text]
             /\ Exists(id) <=> Status(id) # "none"
             /\ Exists(id) => id[2] = 1
  <2>1. NoWork \in [status: {"none"}, text: {NoText}]
    BY DEF NoWork
  <2>2. submission[id] \in {NoWork} \cup [status: {"SUBMITTED"}, text: Text]
    BY <1>1 DEF SubmissionsInit
  <2>3. \A row \in [status: {"SUBMITTED"}, text: Text] : row # NoWork /\ row.status # "none"
    BY DEF NoWork
  <2>4. NoWork.status = "none"
    BY DEF NoWork
  <2> QED
    BY <1>1, <2>1, <2>2, <2>3, <2>4 DEF SubmissionsInit, Exists, Status
<1>5. assignment \in [status: {"DRAFT", "PUBLISHED"}, allowed: {1}, ceiling: {MaxPoints}]
  BY <1>1 DEF SubmissionsInit
<1>6. submission \in [Id -> [status: {"none"}, text: {NoText}]
                            \cup [status: {"SUBMITTED"}, text: Text]]
  BY <1>1, <1>4 DEF SubmissionsInit
<1>7. attached = [id \in Id |-> {}] /\ grade = [id \in Id |-> -1]
  BY <1>1 DEF SubmissionsInit, Ungraded
<1>8. SubmissionsTypeOK
  <2>1. submission \in [Id -> [status: {"none", "DRAFT", "SUBMITTED", "GRADED", "RETURNED"},
                               text: Answer]]
    BY <1>6 DEF Answer
  <2> QED
    BY <1>3, <1>5, <1>7, <2>1 DEF SubmissionsTypeOK, Ungraded
<1>9. \A p \in Participant : \A m, n \in AttemptNo :
            m < n /\ Exists(<<p, n>>) => Exists(<<p, m>>)
  <2>1. ASSUME NEW p \in Participant, NEW m \in AttemptNo, NEW n \in AttemptNo,
               Exists(<<p, n>>)
        PROVE  ~(m < n)
    <3>1. n = 1
      BY <1>4, <2>1 DEF Id
    <3> QED
      BY <3>1 DEF AttemptNo
  <2> QED
    BY <2>1
<1>10. WorkHeld
  BY <1>2, <1>4, <1>8, <1>9 DEF WorkHeld, WorkNumbered
<1>11. \A id \in Work!Recorded : id[2] = 1
  BY <1>4, <1>10, RecordedExist
<1> QED
  BY <1>3, <1>5, <1>6, <1>7, <1>10, <1>11 DEF Work!Init

\* What requests about the work hold, and know if they are uncrossed, however they overlap.
LEMMA WorkAlwaysHeld == Spec => [](WorksGraded /\ WorkHeld)
<1>1. Init => WorksGraded /\ WorkHeld
  BY InitWorksGraded, InitWork
<1>2. Steppable /\ WorksGraded /\ WorkHeld /\ [Next]_vars => WorksGraded' /\ WorkHeld'
  BY WorksGradedNext, WorkStep
<1> QED
  BY <1>1, <1>2, AlwaysSteppable, PTL DEF Spec

\* Requests that no other one crosses keep the promise of TASK-024, for any numbers of
\* participants, attempts, files, points and requests: attempts follow each other and stay
\* within the limit, work handed in is frozen, its files once it is graded, no grade is
\* above the ceiling and no status goes back.
THEOREM AssignmentWorkKept == Spec => KeepsAssignmentWork
<1>1. Init => Work!Init
  BY InitWork
<1>2. Steppable /\ WorksGraded /\ WorkHeld /\ [Next]_vars =>
        [Promised(Work!Next, Work!vars)]_(Work!vars)
  BY WorkStep DEF Promised
<1> QED
  BY <1>1, <1>2, WorkAlwaysHeld, AlwaysSteppable, PTL DEF Spec, KeepsAssignmentWork

-----------------------------------------------------------------------------
(* KeepsCourseware *)

\* What HandleAttendance leaves alone.
LEMMA AttendanceKeepsEnrolled ==
    ASSUME NEW h, HandleAttendance(h)
    PROVE  UNCHANGED enrolled
BY DEF HandleAttendance, BeginLessonStatus, SetLessonStatus, BeginRoll, CheckEnrollments,
       RecordRoll, BeginCorrection, ApplyCorrection, BeginRefresh, ReadClassRows, ReadPlace,
       ReadLessons, ReadMembers, ReadRecords, StoreSummary, SkipSummary, attendanceTables,
       rollTables

\* What any step of the whole does to the catalogue, the progress and the enrollments.
LEMMA CoursewareElse ==
    ASSUME Steppable, [Next]_vars
    PROVE  \/ \E h \in Handler : \/ HandleLearning(h) /\ UNCHANGED enrolled
                                 \/ HandleEnrollment(h) /\ UNCHANGED learningTables
           \/ /\ UNCHANGED <<learningTables, enrolled>>
              /\ Unentered(LearningSteps) /\ Unentered(EnrollmentsSteps)
<1> DEFINE Same == UNCHANGED <<learningTables, enrolled>>
           Own(h) == \/ HandleLearning(h) /\ UNCHANGED enrolled
                     \/ HandleEnrollment(h) /\ UNCHANGED learningTables
<1>0. LearningSteps \in Parts /\ EnrollmentsSteps \in Parts
  BY DEF Parts
<1>1. ASSUME NEW h \in Handler, Operate(h)
      PROVE  Own(h) \/ (Same /\ Unentered(LearningSteps) /\ Unentered(EnrollmentsSteps))
  <2>1. \/ Own(h)
        \/ Same /\ HandleSubmit(h)
        \/ Same /\ HandleLink(h)
        \/ Same /\ HandleAssess(h)
        \/ Same /\ HandleAssignment(h)
        \/ Same /\ HandleFile(h)
        \/ Same /\ HandleMark(h)
        \/ Same /\ HandleGrade(h)
        \/ Same /\ HandleAttendance(h)
        \/ Same /\ HandleQuestion(h)
        \/ Same /\ HandleExam(h)
        \/ Same /\ HandleDecision(h)
        \/ Same /\ HandleOrganization(h)
        \/ Same /\ HandleCalendar(h)
    BY <1>1, AttendanceKeepsEnrolled
    DEF Operate, CourseworkHandler, HandleSubmission, HandleSetup,
        vars, requests, courseTables, tables, work, markTables, gradeTables,
        attendanceTables, rollTables, setupTables, bankTables, decisionTables,
        catalogTables, learningTables, institutionTables
  <2> HIDE DEF Same, Own
  <2>2. Own(h) \/ (Same /\ Unentered(LearningSteps))
    BY <1>0, <2>1, OthersUnentered, PartsDiffer
  <2>3. Own(h) \/ (Same /\ Unentered(EnrollmentsSteps))
    BY <1>0, <2>1, OthersUnentered, PartsDiffer
  <2> QED
    BY <2>2, <2>3
<1>2. ASSUME NEW h \in Handler, LoseRequest(h)
      PROVE  Same /\ Unentered(LearningSteps) /\ Unentered(EnrollmentsSteps)
  <2>1. Same
    BY <1>2 DEF LoseRequest, LoseDecision, vars, requests, courseTables, tables, work, markTables, gradeTables,
               attendanceTables, rollTables, setupTables, bankTables,
               decisionTables, catalogTables, learningTables, institutionTables
  <2> QED
    BY <1>0, <1>2, <2>1, LossUnentered
<1>3. ASSUME Outside
      PROVE  Same /\ Unentered(LearningSteps) /\ Unentered(EnrollmentsSteps)
  <2>1. Same
    BY <1>3 DEF Outside, CourseworkOutside, CreateLesson, InitiateUpload, PutObject,
            Sit, SaveAnswer, CloseAttempt, DecisionsOutside, Evaluate, Supersede,
            WriteOutside, requests, vars, courseTables, tables, work, markTables,
            gradeTables, attendanceTables, rollTables, setupTables, bankTables,
            decisionTables, catalogTables, learningTables, institutionTables
  <2> QED
    BY <1>3, <2>1, OutsideMoves DEF Unentered
<1>4. ASSUME UNCHANGED vars
      PROVE  Same /\ Unentered(LearningSteps) /\ Unentered(EnrollmentsSteps)
  BY <1>4 DEF Unentered, vars, requests, courseTables, tables, work, markTables, gradeTables,
       attendanceTables, rollTables, setupTables, bankTables, decisionTables,
       catalogTables, learningTables, institutionTables
<1> HIDE DEF Same, Own
<1>5. \/ \E h \in Handler : Own(h)
      \/ Same /\ Unentered(LearningSteps) /\ Unentered(EnrollmentsSteps)
  BY <1>1, <1>2, <1>3, <1>4 DEF Next
<1> QED
  BY <1>5 DEF Same, Own

CountFields == {"total", "required", "completed", "completedRequired", "percent"}
GateSteps   == {"change"}
RenewSteps  == {"last version", "published version", "material version"}

\* What a request about the catalogue or the progress holds, whoever crosses it.
CourseHeld(q) ==
    /\ q.step \in {"live activities", "activity type"} =>
        {"k", "row"} \subseteq DOMAIN q /\ q.k \in ActivityType
    /\ q.step \in {"place", "activity"} =>
        /\ {"a", "row"} \subseteq DOMAIN q /\ q.a \in Activity
        /\ {"status", "kind", "place"} \subseteq DOMAIN q.row
        /\ q.row.status \in ActivityStatus
    /\ q.step \in GateSteps =>
        /\ {"a", "row", "sets", "todo"} \subseteq DOMAIN q /\ q.a \in Existing
        /\ {"status", "kind", "place"} \subseteq DOMAIN q.row
        /\ q.row.status \in ActivityStatus
    /\ q.step = "reorder" => DOMAIN q.plan \subseteq Existing
    /\ q.step = "material" => q.a \in Activity /\ q.status \in {"DRAFT", "ARCHIVED"}
    /\ q.step \in {"version state", "material status"} =>
        /\ {"a", "number", "to"} \subseteq DOMAIN q /\ q.a \in Activity
        /\ q.to \in ActivityStatus
    /\ q.step \in RenewSteps =>
        /\ {"a", "number", "old"} \subseteq DOMAIN q /\ q.a \in Activity
        /\ q.step # "last version" => q.number \in Nat \ {0}
    /\ q.step \in {"progress row", "progress"} =>
        {"e", "a", "status", "started"} \subseteq DOMAIN q /\ q.e \in Enrollee /\ q.a \in Activity
    /\ q.step \in {"counts", "aggregate"} =>
        /\ {"e", "of", "row"} \subseteq DOMAIN q /\ q.e \in Enrollee
        /\ CountFields \subseteq DOMAIN q.row
        /\ q.of \subseteq {"activities", "progress"}

\* The column c of the activity once the change is written.
Changed(q, c) == IF c \in q.sets THEN q.row[c] ELSE activity[q.a][c]

\* The column is written as the request holds it, and what has been asked was found: an
\* open meeting, an active type, and material or a type that requires none.
GateKnown(q) ==
    /\ activity[q.a].status # "ARCHIVED"
    /\ Changed(q, "status") = q.row.status /\ Changed(q, "kind") = q.row.kind
    /\ q.row.status = "PUBLISHED" /\ "meeting" \notin q.todo => meeting # "ARCHIVED"
    /\ q.row.status = "PUBLISHED" \/ q.row.kind # activity[q.a].kind =>
        /\ "type" \notin q.todo => activityType[q.row.kind].active
        /\ "count" \notin q.todo /\ "contents" \notin q.todo =>
            \/ PublishedMaterial(q.a) # {}
            \/ "type" \notin q.todo /\ ~activityType[q.row.kind].requires

Renewable(a) == \E n \in DOMAIN material[a] : material[a][n] # "ARCHIVED"

\* What it knows besides while it is uncrossed: of the meeting, the types and activities,
CatalogKnown(q) ==
    /\ q.step = "meeting" => CanMoveMeeting(meeting, q.to)
    /\ q.step = "activity type" /\ activityType[q.k].active /\ ~q.row.active =>
        \A a \in Existing : activity[a].kind = q.k => activity[a].status = "ARCHIVED"
    /\ q.step \in {"place", "activity"} => activityType[q.row.kind].active
    /\ q.step \in GateSteps => GateKnown(q)
    /\ q.step = "reorder" => q.plan \in Orders(Existing)

\* of the materials,
MaterialKnown(q) ==
    /\ q.step = "material" => /\ q.a \in Existing /\ material[q.a] = <<>>
                              /\ activity[q.a].status # "ARCHIVED"
    /\ q.step \in {"version state", "material status"} =>
        /\ q.number \in DOMAIN material[q.a]
        /\ CanMoveActivity(material[q.a][q.number], q.to)
    /\ q.step = "material status" /\ q.to = "PUBLISHED" => PublishedMaterial(q.a) = {}
    /\ q.step \in RenewSteps => Renewable(q.a)
    /\ q.step \in {"published version", "material version"} => q.number = Len(material[q.a]) + 1
    /\ q.step = "material version" =>
        /\ q.old \in PublishedMaterial(q.a) \cup {0}
        /\ \A n \in PublishedMaterial(q.a) : n <= q.old

\* of the progress and what it comes to.
ProgressKnown(q) ==
    /\ q.step \in {"progress row", "progress"} => EligibleForProgress(q.e, q.a)
    /\ q.step = "progress" =>
        /\ ~(progress[q.e][q.a].status = "COMPLETED" /\ q.status = "NOT_STARTED")
        /\ q.started = (progress[q.e][q.a].started \/ q.status # "NOT_STARTED")
    /\ q.step \in {"counts", "aggregate"} =>
        /\ "activities" \in q.of => /\ q.row.total = Cardinality(Live)
                                    /\ q.row.required = Cardinality(RequiredOf(Live))
        /\ "progress" \in q.of =>
            /\ q.row.completed = Cardinality(Done(q.e))
            /\ q.row.completedRequired = Cardinality(RequiredOf(Done(q.e)))
    /\ q.step = "aggregate" => {"activities", "progress"} \subseteq q.of

CourseKnown(q) == CatalogKnown(q) /\ MaterialKnown(q) /\ ProgressKnown(q)

IsActivity(row) == {"status", "kind", "place"} \subseteq DOMAIN row /\ row.status \in ActivityStatus

CourseTyped ==
    /\ activityType = [k \in ActivityType |-> activityType[k]]
    /\ activity = [a \in Activity |-> activity[a]]
    /\ \A a \in Activity : activity[a] = NoActivity \/ IsActivity(activity[a])
    /\ material = [a \in Activity |-> material[a]]
    /\ \A a \in Activity : \E S : material[a] \in Seq(S)
    /\ progress = [e \in Enrollee |-> progress[e]]
    /\ \A e \in Enrollee : progress[e] = [a \in Activity |-> progress[e][a]]
    /\ aggregate = [e \in Enrollee |-> aggregate[e]]

CourseFine ==
    /\ CourseTyped
    /\ \A h \in Handler : /\ CourseHeld(handler[h])
                          /\ h \notin crossed => CourseKnown(handler[h])

\* A request that is none of this kind holds and knows nothing of it.
LEMMA CourseIgnored ==
    ASSUME NEW q, q.step \notin LearningSteps
    PROVE  CourseHeld(q) /\ CourseKnown(q)
BY DEF CourseHeld, CourseKnown, CatalogKnown, MaterialKnown, ProgressKnown, LearningSteps,
       GateSteps, RenewSteps

\* Activities are not deleted.
ActivitiesStay == \A a \in Existing : a \in Existing'

\* What is held is held as long as they are not.
LEMMA CourseHolds ==
    ASSUME ActivitiesStay, NEW q, CourseHeld(q)
    PROVE  CourseHeld(q)'
BY DEF ActivitiesStay, CourseHeld

\* What is known depends on the tables of this part and on the enrollments.
LEMMA CourseSame ==
    ASSUME UNCHANGED <<learningTables, enrolled>>, NEW q, CourseKnown(q)
    PROVE  CourseKnown(q)'
<1>1. /\ meeting' = meeting /\ activityType' = activityType /\ activity' = activity
      /\ material' = material /\ progress' = progress /\ enrolled' = enrolled
  BY DEF learningTables
<1>2. /\ Existing' = Existing
      /\ GateKnown(q)' <=> GateKnown(q)
      /\ PublishedMaterial(q.a)' = PublishedMaterial(q.a)
      /\ Renewable(q.a)' <=> Renewable(q.a)
      /\ EligibleForProgress(q.e, q.a)' <=> EligibleForProgress(q.e, q.a)
  BY <1>1 DEF Existing, Changed, GateKnown, PublishedMaterial, Renewable, EligibleForProgress
<1>3. Orders(Existing)' = Orders(Existing)
  BY <1>2 DEF Orders
<1>4. Live' = Live /\ Done(q.e)' = Done(q.e)
  BY <1>1, <1>2 DEF Live, Done
<1>5. /\ RequiredOf(Live)' = RequiredOf(Live)
      /\ RequiredOf(Done(q.e))' = RequiredOf(Done(q.e))
  BY <1>1, <1>4 DEF RequiredOf
<1>6. CatalogKnown(q)'
  BY <1>1, <1>2, <1>3 DEF CourseKnown, CatalogKnown
<1>7. MaterialKnown(q)'
  BY <1>1, <1>2 DEF CourseKnown, MaterialKnown
<1>8. ProgressKnown(q)'
  BY <1>1, <1>2, <1>4, <1>5 DEF CourseKnown, ProgressKnown
<1> QED
  BY <1>6, <1>7, <1>8 DEF CourseKnown

\* A slot that stays as it is knows no less, if the tables stay or it is crossed.
LEMMA CourseStays ==
    ASSUME Undisturbed, ActivitiesStay, NEW g \in Handler, handler'[g] = handler[g],
           CourseHeld(handler[g]), g \notin crossed => CourseKnown(handler[g]),
           UNCHANGED <<learningTables, enrolled>> \/ g \in crossed' \/ handler[g].step = "idle"
    PROVE  /\ CourseHeld(handler[g])'
           /\ g \notin crossed' => CourseKnown(handler[g])'
<1>0. CourseHeld(handler[g])'
  <2>1. \A q : CourseHeld(q) => CourseHeld(q)'
    BY CourseHolds
  <2> QED
    BY <2>1
<1>1. CASE handler[g].step = "idle"
  <2>1. "idle" \notin LearningSteps
    BY DEF LearningSteps
  <2>2. CourseKnown(handler[g])'
    BY <1>1 DEF CourseKnown, CatalogKnown, MaterialKnown, ProgressKnown, GateSteps, RenewSteps
  <2> QED
    BY <1>0, <2>2
<1>2. CASE g \in crossed'
  BY <1>0, <1>2
<1>3. CASE UNCHANGED <<learningTables, enrolled>> /\ g \notin crossed' /\ handler[g].step # "idle"
  <2>1. g \notin crossed
    BY <1>3 DEF Undisturbed, InFlight, At
  <2>2. \A q : CourseKnown(q) => CourseKnown(q)'
    BY <1>3, CourseSame
  <2> QED
    BY <1>0, <2>1, <2>2
<1> QED
  BY <1>1, <1>2, <1>3

\* A read that leaves the tables as they are and whose slot holds what it knows.
LEMMA CourseReads ==
    ASSUME Steppable, CourseFine, Undisturbed, NEW h \in Handler, NEW m, Reads(h, m),
           UNCHANGED <<learningTables, enrolled>>,
           m.step \in LearningSteps => CourseHeld(m) /\ (h \notin crossed => CourseKnown(m))
    PROVE  CourseFine' /\ UNCHANGED Course!vars
<1>0. ActivitiesStay
  BY DEF ActivitiesStay, learningTables, Existing
<1>1. ASSUME NEW g \in Handler, g # h
      PROVE  /\ CourseHeld(handler[g])'
             /\ g \notin crossed' => CourseKnown(handler[g])'
  BY <1>0, <1>1, CourseStays DEF Steppable, Reads, CourseFine
<1>2. handler'[h] = m
  BY DEF Steppable, Reads
<1>3. CourseHeld(m) /\ (h \notin crossed => CourseKnown(m))
  BY CourseIgnored
<1>4. h \notin crossed' => CourseKnown(m)'
  <2>1. CASE m = Idle
    <3>1. Idle.step \notin LearningSteps
      BY DEF Idle, LearningSteps
    <3>2. CourseKnown(m)
      BY <2>1, <3>1, CourseIgnored
    <3> QED
      BY <3>2, CourseSame
  <2>2. CASE m # Idle
    BY <1>3, <2>2, CourseSame DEF Reads
  <2> QED
    BY <2>1, <2>2
<1>5. CourseTyped' /\ UNCHANGED Course!vars
  BY DEF CourseFine, CourseTyped, learningTables, Course!vars
<1>6. CourseHeld(m)'
  BY <1>0, <1>3, CourseHolds
<1> QED
  BY <1>1, <1>2, <1>4, <1>5, <1>6 DEF CourseFine

\* A commit crosses all the others; its own request is done or goes on.
LEMMA CourseWritten ==
    ASSUME Steppable, CourseFine, Undisturbed, NEW h \in Handler, NEW m, Commits(h, m),
           ActivitiesStay, CourseHeld(m), CourseKnown(m)', CourseTyped'
    PROVE  CourseFine'
<1>1. ASSUME NEW g \in Handler, g # h
      PROVE  /\ CourseHeld(handler[g])'
             /\ g \notin crossed' => CourseKnown(handler[g])'
  <2>1. handler'[g] = handler[g] /\ (g \in crossed' \/ handler[g].step = "idle")
    BY <1>1 DEF Steppable, Commits, InFlight, At
  <2> QED
    BY <1>1, <2>1, CourseStays DEF CourseFine
<1>2. handler'[h] = m
  BY DEF Steppable, Commits
<1>3. CourseHeld(m)'
  BY CourseHolds
<1> QED
  BY <1>1, <1>2, <1>3 DEF CourseFine


\* A step keeps what is known, and unless it is one of a crossed request it is a step of
\* the courseware.
CourseKept == CourseFine' /\ (Uncrossed => UNCHANGED Course!vars \/ Course!Next)

\* A request is answered by its write.
LEMMA CourseDone ==
    ASSUME Steppable, CourseFine, Undisturbed, NEW h \in Handler, Commit(h),
           handler[h].step \in LearningSteps, ActivitiesStay, CourseTyped',
           h \notin crossed => Course!Next
    PROVE  CourseKept
<1>1. Idle.step \notin LearningSteps
  BY DEF Idle, LearningSteps
<1>2. CourseHeld(Idle) /\ CourseKnown(Idle)'
  <2>1. CourseKnown(Idle)'
    BY DEF CourseKnown, CatalogKnown, MaterialKnown, ProgressKnown, Idle, GateSteps, RenewSteps
  <2> QED
    BY <1>1, <2>1, CourseIgnored
<1>3. CourseFine'
  BY <1>2, CourseWritten DEF Commit
<1>4. handler[h] # Idle
  BY <1>1
<1>5. handler'[h] = Idle
  BY DEF Commit, Commits, Steppable
<1>6. Uncrossed => h \notin crossed
  BY <1>4, <1>5 DEF Uncrossed
<1> QED
  BY <1>3, <1>6 DEF CourseKept

\* A request is answered by nothing.
LEMMA CourseEnds ==
    ASSUME Steppable, CourseFine, Undisturbed, NEW h \in Handler, Finish(h),
           UNCHANGED <<learningTables, enrolled>>
    PROVE  CourseKept
<1>1. Idle.step \notin LearningSteps
  BY DEF Idle, LearningSteps
<1> QED
  BY <1>1, CourseReads DEF CourseKept, Finish

\* The activities that there are, in the words of the promise.
LEMMA PlannedExist ==
    ASSUME CourseTyped
    PROVE  /\ Course!Planned = Existing
           /\ \A s : Course!In(s) = {a \in Activity : activity[a].status = s}
           /\ \A a \in Existing : a \in Activity /\ IsActivity(activity[a])
           /\ \A a \in Activity : activity[a].status = "none" <=> a \notin Existing
           /\ \A a : Course!Readable(a) = PublishedMaterial(a)
<1>1. "none" \notin ActivityStatus /\ NoActivity.status = "none"
  BY DEF ActivityStatus, NoActivity
<1>2. \A a \in Activity : activity[a].status = "none" <=> a \notin Existing
  BY <1>1 DEF CourseTyped, Existing, IsActivity
<1> QED
  BY <1>2 DEF CourseTyped, Existing, Course!Planned, Course!In, Course!Readable, PublishedMaterial

\* LearningMeetingsService and LearningActivityTypesService keep the promise.
LEMMA MeetingsKept ==
    ASSUME Steppable, CourseFine, Undisturbed, NEW h \in Handler, UNCHANGED enrolled,
           \/ BeginMeeting(h) \/ SetMeeting(h)
           \/ BeginActivityType(h) \/ CountLive(h) \/ SetActivityType(h)
    PROVE  CourseKept
<1> DEFINE q == handler[h]
<1>0. CourseTyped /\ CourseHeld(q) /\ (h \notin crossed => CourseKnown(q))
  BY DEF CourseFine
<1>a. ASSUME NEW m, Reads(h, m), UNCHANGED learningTables,
             m.step \in LearningSteps => CourseHeld(m) /\ (h \notin crossed => CourseKnown(m))
      PROVE  CourseKept
  BY <1>a, CourseReads DEF CourseKept
<1>b. ASSUME Finish(h), UNCHANGED learningTables PROVE CourseKept
  BY <1>b, CourseEnds
<1>1. CASE BeginMeeting(h)
  <2>1. PICK to : CanMoveMeeting(meeting, to) /\ Reads(h, [step |-> "meeting", to |-> to])
    BY <1>1 DEF BeginMeeting, Receive
  <2> DEFINE m == [step |-> "meeting", to |-> to]
  <2>2. m.step = "meeting" /\ m.to = to /\ Reads(h, m) /\ UNCHANGED learningTables
    BY <1>1, <2>1 DEF BeginMeeting
  <2> HIDE DEF m
  <2>3. CourseHeld(m) /\ CourseKnown(m)
    BY <2>1, <2>2 DEF CourseHeld, CourseKnown, CatalogKnown, MaterialKnown, ProgressKnown,
                      GateSteps, RenewSteps
  <2> QED
    BY <1>a, <2>2, <2>3
<1>2. CASE SetMeeting(h)
  <2>1. /\ At(h, "meeting") /\ meeting' = q.to /\ Commit(h)
        /\ UNCHANGED <<activityType, activity, material, progress, aggregate>>
    BY <1>2 DEF SetMeeting
  <2>2. q.step \in LearningSteps
    BY <2>1 DEF At, LearningSteps
  <2>3. CourseTyped' /\ ActivitiesStay
    BY <1>0, <2>1 DEF CourseTyped, ActivitiesStay, Existing
  <2>4. ASSUME h \notin crossed PROVE Course!Next
    <3>1. CanMoveMeeting(meeting, q.to)
      BY <1>0, <2>1, <2>4 DEF At, CourseKnown, CatalogKnown
    <3>2. Course!MoveMeeting
      BY <2>1, <3>1 DEF CanMoveMeeting, Course!MoveMeeting
    <3> QED
      BY <3>2 DEF Course!Next
  <2> QED
    BY <2>1, <2>2, <2>3, <2>4, CourseDone
<1>3. CASE BeginActivityType(h)
  <2>1. PICK k \in ActivityType, active \in BOOLEAN, requires \in BOOLEAN :
            Reads(h, [step |-> IF activityType[k].active /\ ~active THEN "live activities"
                               ELSE "activity type",
                      k |-> k, row |-> [active |-> active, requires |-> requires]])
    BY <1>3 DEF BeginActivityType, Receive
  <2> DEFINE m == [step |-> IF activityType[k].active /\ ~active THEN "live activities"
                            ELSE "activity type",
                   k |-> k, row |-> [active |-> active, requires |-> requires]]
  <2>2. /\ m.step \in {"live activities", "activity type"}
        /\ m.step = "activity type" => ~(activityType[m.k].active /\ ~m.row.active)
        /\ {"k", "row"} \subseteq DOMAIN m /\ m.k \in ActivityType
        /\ Reads(h, m) /\ UNCHANGED learningTables
    BY <1>3, <2>1 DEF BeginActivityType
  <2> HIDE DEF m
  <2>3. CourseHeld(m) /\ CourseKnown(m)
    BY <2>2 DEF CourseHeld, CourseKnown, CatalogKnown, MaterialKnown, ProgressKnown,
                GateSteps, RenewSteps
  <2> QED
    BY <1>a, <2>2, <2>3
<1>4. CASE CountLive(h)
  <2>1. At(h, "live activities") /\ UNCHANGED learningTables
    BY <1>4 DEF CountLive
  <2>2. CASE Finish(h)
    BY <1>b, <2>1, <2>2
  <2>3. CASE /\ ~\E a \in Existing : activity[a].kind = q.k /\ activity[a].status # "ARCHIVED"
             /\ Goto(h, "activity type")
    <3>1. {"k", "row"} \subseteq DOMAIN q /\ q.k \in ActivityType
      BY <1>0, <2>1 DEF At, CourseHeld
    <3>2. PICK m : /\ m.step = "activity type" /\ m.k = q.k /\ m.row = q.row
                   /\ {"k", "row"} \subseteq DOMAIN m /\ Reads(h, m)
      BY <2>3, <3>1 DEF Goto, Steppable
    <3>3. CourseHeld(m) /\ CourseKnown(m)
      BY <2>3, <3>1, <3>2 DEF CourseHeld, CourseKnown, CatalogKnown, MaterialKnown, ProgressKnown,
                  GateSteps, RenewSteps
    <3> QED
      BY <1>a, <2>1, <3>2, <3>3
  <2> QED
    BY <1>4, <2>2, <2>3 DEF CountLive
<1>5. CASE SetActivityType(h)
  <2>1. /\ At(h, "activity type") /\ activityType' = [activityType EXCEPT ![q.k] = q.row]
        /\ Commit(h) /\ UNCHANGED <<meeting, activity, material, progress, aggregate>>
    BY <1>5 DEF SetActivityType
  <2>2. q.step \in LearningSteps /\ q.k \in ActivityType
    BY <1>0, <2>1 DEF At, LearningSteps, CourseHeld
  <2>3. CourseTyped' /\ ActivitiesStay
    BY <1>0, <2>1 DEF CourseTyped, ActivitiesStay, Existing
  <2>4. ASSUME h \notin crossed PROVE Course!Next
    <3>1. activityType'[q.k] = q.row
      BY <1>0, <2>1, <2>2 DEF CourseTyped
    <3>2. activityType[q.k].active /\ ~q.row.active =>
            \A a \in Existing : activity[a].kind = q.k => activity[a].status = "ARCHIVED"
      BY <1>0, <2>1, <2>4 DEF At, CourseKnown, CatalogKnown
    <3>3. Course!ChangeType(q.k)
      BY <1>0, <2>1, <3>1, <3>2, PlannedExist DEF Course!ChangeType
    <3> QED
      BY <2>2, <3>3 DEF Course!Next
  <2> QED
    BY <2>1, <2>2, <2>3, <2>4, CourseDone
<1> QED
  BY <1>1, <1>2, <1>3, <1>4, <1>5


\* LearningActivitiesService.create keeps the promise.
LEMMA CreationsKept ==
    ASSUME Steppable, CourseFine, Undisturbed, NEW h \in Handler, UNCHANGED enrolled,
           BeginActivity(h) \/ ChoosePlace(h) \/ CreateActivity(h) \/ CheckGate(h)
    PROVE  CourseKept
<1> DEFINE q == handler[h]
<1>0. CourseTyped /\ CourseHeld(q) /\ (h \notin crossed => CourseKnown(q))
  BY DEF CourseFine
<1>a. ASSUME NEW m, Reads(h, m), UNCHANGED learningTables,
             m.step \in LearningSteps => CourseHeld(m) /\ (h \notin crossed => CourseKnown(m))
      PROVE  CourseKept
  BY <1>a, CourseReads DEF CourseKept
<1>b. ASSUME Finish(h), UNCHANGED learningTables PROVE CourseKept
  BY <1>b, CourseEnds
<1>1. CASE BeginActivity(h)
  <2>1. PICK a \in Activity, k \in ActivityType, s \in ActivityStatus :
            /\ activityType[k].active
            /\ Reads(h, [step |-> "place", a |-> a,
                         row |-> [status |-> s, kind |-> k, required |-> TRUE, place |-> 0]])
    BY <1>1 DEF BeginActivity, Receive
  <2> DEFINE m == [step |-> "place", a |-> a,
                   row |-> [status |-> s, kind |-> k, required |-> TRUE, place |-> 0]]
  <2>2. /\ m.step = "place" /\ m.a = a /\ m.row.kind = k /\ m.row.status = s
        /\ {"a", "row"} \subseteq DOMAIN m /\ {"status", "kind", "place"} \subseteq DOMAIN m.row
        /\ Reads(h, m) /\ UNCHANGED learningTables
    BY <1>1, <2>1 DEF BeginActivity
  <2> HIDE DEF m
  <2>3. CourseHeld(m) /\ CourseKnown(m)
    BY <2>1, <2>2 DEF CourseHeld, CourseKnown, CatalogKnown, MaterialKnown, ProgressKnown,
                      GateSteps, RenewSteps
  <2> QED
    BY <1>a, <2>2, <2>3
<1>2. CASE ChoosePlace(h)
  <2>1. /\ At(h, "place") /\ UNCHANGED learningTables
        /\ \E n : Reads(h, [q EXCEPT !.step = "activity", !.row.place = n])
    BY <1>2 DEF ChoosePlace
  <2>2. /\ {"a", "row"} \subseteq DOMAIN q /\ q.a \in Activity
        /\ {"status", "kind", "place"} \subseteq DOMAIN q.row /\ q.row.status \in ActivityStatus
        /\ h \notin crossed => activityType[q.row.kind].active
    BY <1>0, <2>1 DEF At, CourseHeld, CourseKnown, CatalogKnown
  <2>3. PICK m : /\ m.step = "activity" /\ m.a = q.a /\ m.row.kind = q.row.kind
                 /\ m.row.status = q.row.status /\ {"a", "row"} \subseteq DOMAIN m
                 /\ {"status", "kind", "place"} \subseteq DOMAIN m.row /\ Reads(h, m)
    BY <2>1, <2>2 DEF Steppable
  <2>4. CourseHeld(m) /\ (h \notin crossed => CourseKnown(m))
    BY <2>2, <2>3 DEF CourseHeld, CourseKnown, CatalogKnown, MaterialKnown, ProgressKnown,
                      GateSteps, RenewSteps
  <2> QED
    BY <1>a, <2>1, <2>3, <2>4
<1>3. CASE CreateActivity(h)
  <2>1. At(h, "activity") /\ UNCHANGED <<meeting, activityType, material, progress, aggregate>>
    BY <1>3 DEF CreateActivity
  <2>2. /\ q.step \in LearningSteps /\ q.a \in Activity /\ IsActivity(q.row)
        /\ h \notin crossed => activityType[q.row.kind].active
    BY <1>0, <2>1 DEF At, LearningSteps, CourseHeld, CourseKnown, CatalogKnown, IsActivity
  <2>3. CASE Finish(h) /\ UNCHANGED activity
    BY <1>b, <2>1, <2>3 DEF learningTables
  <2>4. ASSUME q.row.place \notin {activity[a].place : a \in Existing}, q.a \notin Existing,
               activity' = [activity EXCEPT ![q.a] = q.row],
               \/ q.row.status = "PUBLISHED" /\ Commits(h, [step |-> "gate", a |-> q.a])
               \/ Commit(h)
        PROVE  CourseKept
    <3>1. activity'[q.a] = q.row /\ \A a \in Activity \ {q.a} : activity'[a] = activity[a]
      BY <1>0, <2>2, <2>4 DEF CourseTyped
    <3>2. q.row # NoActivity
      BY <2>2 DEF IsActivity, NoActivity, ActivityStatus
    <3>3. ActivitiesStay
      BY <2>4, <3>1, <3>2 DEF ActivitiesStay, Existing
    <3>4. CourseTyped'
      BY <1>0, <2>1, <2>2, <2>4, <3>1 DEF CourseTyped, IsActivity
    <3>5. ASSUME h \notin crossed PROVE Course!Next
      <4>1. q.a \in Course!In("none") /\ q.row.status # "none"
        BY <1>0, <2>2, <2>4, PlannedExist DEF IsActivity, ActivityStatus
      <4>2. \A b \in Course!Planned : activity'[q.a].place # activity[b].place
        BY <1>0, <2>4, <3>1, PlannedExist
      <4>3. Course!Add(q.a)
        BY <2>1, <2>2, <2>4, <3>1, <3>5, <4>1, <4>2 DEF Course!Add
      <4> QED
        BY <2>2, <4>3 DEF Course!Next
    <3>6. CASE Commit(h)
      BY <2>2, <3>3, <3>4, <3>5, <3>6, CourseDone
    <3>7. CASE Commits(h, [step |-> "gate", a |-> q.a])
      <4>1. PICK m : m = [step |-> "gate", a |-> q.a]
        OBVIOUS
      <4>2. CourseHeld(m) /\ CourseKnown(m)'
        BY <4>1 DEF CourseHeld, CourseKnown, CatalogKnown, MaterialKnown, ProgressKnown,
                    GateSteps, RenewSteps
      <4>3. CourseFine' /\ handler'[h] = m /\ q # m
        BY <2>1, <3>3, <3>4, <3>7, <4>1, <4>2, CourseWritten DEF Commits, Steppable, At
      <4> QED
        BY <3>5, <4>3 DEF CourseKept, Uncrossed
    <3> QED
      BY <2>4, <3>6, <3>7
  <2> QED
    BY <1>3, <2>3, <2>4 DEF CreateActivity
<1>4. CASE CheckGate(h)
  BY <1>4, <1>b DEF CheckGate
<1> QED
  BY <1>1, <1>2, <1>3, <1>4


\* What a request that goes on to change an activity knows, it holds and nothing else.
LEMMA GatePassed ==
    ASSUME NEW m, m.step \in GateSteps, {"a", "row", "sets", "todo"} \subseteq DOMAIN m,
           m.a \in Existing, {"status", "kind", "place"} \subseteq DOMAIN m.row,
           m.row.status \in ActivityStatus
    PROVE  CourseHeld(m) /\ (GateKnown(m) => CourseKnown(m))
<1>1. CourseHeld(m)
  BY DEF CourseHeld, GateSteps, RenewSteps
<1>2. MaterialKnown(m) /\ ProgressKnown(m)
  BY DEF MaterialKnown, ProgressKnown, GateSteps, RenewSteps
<1>3. GateKnown(m) => CatalogKnown(m)
  BY DEF CatalogKnown, GateSteps
<1> QED
  BY <1>1, <1>2, <1>3 DEF CourseKnown

\* LearningActivitiesService.changeStatus and update know nothing yet where they begin.
LEMMA AmendKnown ==
    ASSUME CourseTyped, NEW h, BeginActivityStatus(h) \/ BeginActivityEdit(h)
    PROVE  \E m : /\ Reads(h, m) /\ CourseHeld(m) /\ CourseKnown(m)
                  /\ UNCHANGED learningTables
<1> DEFINE Fit(a, row, sets, todo) ==
        /\ a \in Existing /\ {"status", "kind", "place"} \subseteq DOMAIN row
        /\ row.status \in ActivityStatus /\ activity[a].status # "ARCHIVED"
        /\ "status" \notin sets => row.status = activity[a].status
        /\ "kind" \notin sets => row.kind = activity[a].kind
        /\ row.status = "PUBLISHED" => {"meeting", "type", "contents"} \subseteq todo
        /\ row.kind # activity[a].kind => {"type", "count"} \subseteq todo
<1>1. ASSUME NEW a \in Existing, IsActivity(activity[a]), EditActivity(h, a)
      PROVE  \E row, sets, order, todo : Amend(h, a, row, sets, order, todo) /\ Fit(a, row, sets, todo)
  <2>1. PICK k, s, r, n, sets :
          /\ s \in ActivityStatus /\ activity[a].status # "ARCHIVED" /\ ("kind" \in sets <=> k # activity[a].kind)
          /\ "status" \notin sets => s = activity[a].status
          /\ Amend(h, a, [status |-> s, kind |-> k, required |-> r, place |-> n], sets,
                   IF "kind" \in sets THEN AskedByKind ELSE AskedByEdit,
                   {"meeting"} \cup (sets \cap {"place"})
                   \cup (IF "kind" \in sets THEN {"type", "count"} ELSE {})
                   \cup (IF s = "PUBLISHED" THEN {"type", "contents"} ELSE {}))
    BY <1>1 DEF EditActivity
  <2>2. PICK row : row = [status |-> s, kind |-> k, required |-> r, place |-> n]
    OBVIOUS
  <2>3. PICK todo : todo = {"meeting"} \cup (sets \cap {"place"})
                   \cup (IF "kind" \in sets THEN {"type", "count"} ELSE {})
                   \cup (IF s = "PUBLISHED" THEN {"type", "contents"} ELSE {})
    OBVIOUS
  <2>4. Fit(a, row, sets, todo)
    BY <2>1, <2>2, <2>3
  <2> HIDE DEF Fit
  <2> QED
    BY <2>1, <2>2, <2>3, <2>4
<1> HIDE DEF Fit
<1>4. ASSUME NEW a, NEW row, NEW sets, NEW order, NEW todo, UNCHANGED learningTables,
             Amend(h, a, row, sets, order, todo), Fit(a, row, sets, todo)
      PROVE  \E m : /\ Reads(h, m) /\ CourseHeld(m) /\ CourseKnown(m)
                    /\ UNCHANGED learningTables
  <2> DEFINE m == [step |-> "change", a |-> a, row |-> row, sets |-> sets, order |-> order,
                   todo |-> todo]
  <2>1. /\ m.step = "change" /\ m.a = a /\ m.row = row /\ m.sets = sets /\ m.todo = todo
        /\ {"a", "row", "sets", "todo"} \subseteq DOMAIN m /\ Reads(h, m)
    BY <1>4 DEF Amend, Receive
  <2> HIDE DEF m
  <2>2. GateKnown(m)
    BY <1>4, <2>1 DEF GateKnown, Changed, Fit
  <2>3. CourseHeld(m) /\ CourseKnown(m)
    BY <1>4, <2>1, <2>2, GatePassed DEF GateSteps, Fit
  <2> QED
    BY <1>4, <2>1, <2>3
<1>2. CASE BeginActivityStatus(h)
  <2>0. UNCHANGED learningTables
    BY <1>2, Zenon DEF BeginActivityStatus
  <2>1. PICK a \in Existing, to \in ActivityStatus :
          /\ CanMoveActivity(activity[a].status, to)
          /\ Amend(h, a, [activity[a] EXCEPT !.status = to], {"status"}, AskedByStatus,
                   IF to = "PUBLISHED" THEN {"type", "meeting", "contents"} ELSE {})
    BY <1>2, Zenon DEF BeginActivityStatus
  <2>2. PICK row : row = [activity[a] EXCEPT !.status = to]
    OBVIOUS
  <2>3. PICK todo : todo = IF to = "PUBLISHED" THEN {"type", "meeting", "contents"} ELSE {}
    OBVIOUS
  <2>4. IsActivity(activity[a])
    BY <2>1, PlannedExist
  <2>5. Fit(a, row, {"status"}, todo)
    BY <2>1, <2>2, <2>3, <2>4 DEF IsActivity, CanMoveActivity, Fit
  <2>6. Amend(h, a, row, {"status"}, AskedByStatus, todo) /\ Fit(a, row, {"status"}, todo)
    BY <2>1, <2>2, <2>3, <2>5
  <2> QED
    BY <1>4, <2>0, <2>6
<1>3. CASE BeginActivityEdit(h)
  <2>1. PICK a \in Existing : EditActivity(h, a)
    BY <1>3, Zenon DEF BeginActivityEdit
  <2>2. UNCHANGED learningTables
    BY <1>3, Zenon DEF BeginActivityEdit
  <2>3. IsActivity(activity[a])
    BY <2>1, PlannedExist
  <2> QED
    BY <1>1, <1>4, <2>1, <2>2, <2>3
<1> QED
  BY <1>1, <1>2, <1>3

\* They keep the promise.
LEMMA ChangesKept ==
    ASSUME Steppable, CourseFine, Undisturbed, NEW h \in Handler, UNCHANGED enrolled,
           \/ BeginActivityStatus(h) \/ BeginActivityEdit(h) \/ AskType(h) \/ AskMeeting(h)
           \/ AskContents(h) \/ AskPlace(h) \/ ChangeActivity(h)
    PROVE  CourseKept
<1> DEFINE q == handler[h]
<1>0. CourseTyped /\ CourseHeld(q) /\ (h \notin crossed => CourseKnown(q))
  BY DEF CourseFine
<1>a. ASSUME NEW m, Reads(h, m), UNCHANGED learningTables,
             m.step \in LearningSteps => CourseHeld(m) /\ (h \notin crossed => CourseKnown(m))
      PROVE  CourseKept
  BY <1>a, CourseReads DEF CourseKept
<1>b. ASSUME Finish(h), UNCHANGED learningTables PROVE CourseKept
  BY <1>b, CourseEnds
<1>c. ASSUME At(h, "change")
      PROVE  /\ {"a", "row", "sets", "todo"} \subseteq DOMAIN q /\ q.a \in Existing
             /\ {"status", "kind", "place"} \subseteq DOMAIN q.row
             /\ q.row.status \in ActivityStatus /\ q.step \in LearningSteps
             /\ h \notin crossed => GateKnown(q)
  BY <1>0, <1>c DEF At, CourseHeld, CourseKnown, CatalogKnown, GateSteps, LearningSteps
<1>d. ASSUME NEW X, Learned(h, X), At(h, "change"), UNCHANGED learningTables,
             h \notin crossed /\ GateKnown(q) /\ q.row.status = "PUBLISHED" /\ "meeting" \in X =>
                meeting # "ARCHIVED",
             h \notin crossed /\ GateKnown(q) /\ "type" \in X => activityType[q.row.kind].active,
             h \notin crossed /\ GateKnown(q) /\ ("count" \in X \/ "contents" \in X) =>
                \/ PublishedMaterial(q.a) # {}
                \/ "type" \in X /\ ~activityType[q.row.kind].requires
      PROVE  CourseKept
  <2>1. PICK m : /\ m.step = "change" /\ m.a = q.a /\ m.row = q.row /\ m.sets = q.sets
                 /\ m.todo = q.todo \ X /\ DOMAIN m = DOMAIN q /\ Reads(h, m)
    BY <1>c, <1>d DEF Learned, Steppable, At
  <2>2. h \notin crossed => GateKnown(m)
    <3>1. \A c : Changed(m, c) = Changed(q, c)
      BY <2>1 DEF Changed
    <3> QED
      BY <1>c, <1>d, <2>1, <3>1 DEF GateKnown
  <2>3. CourseHeld(m) /\ (h \notin crossed => CourseKnown(m))
    BY <1>c, <1>d, <2>1, <2>2, GatePassed DEF GateSteps
  <2> QED
    BY <1>a, <1>d, <2>1, <2>3
<1>1. CASE BeginActivityStatus(h) \/ BeginActivityEdit(h)
  BY <1>0, <1>1, <1>a, AmendKnown
<1>2. CASE AskType(h)
  <2>1. At(h, "change") /\ UNCHANGED learningTables
    BY <1>2 DEF AskType, Turn
  <2>2. \/ Finish(h)
        \/ /\ activityType[q.row.kind].active
           /\ \/ activityType[q.row.kind].requires /\ Learned(h, {"type"})
              \/ /\ ~activityType[q.row.kind].requires
                 /\ Learned(h, {"type", "count", "contents"})
    BY <1>2 DEF AskType
  <2> QED
    BY <1>b, <1>d, <2>1, <2>2
<1>3. CASE AskMeeting(h)
  <2>1. At(h, "change") /\ UNCHANGED learningTables
    BY <1>3 DEF AskMeeting, Turn
  <2>2. \/ Finish(h)
        \/ ~(q.row.status = "PUBLISHED" /\ meeting = "ARCHIVED") /\ Learned(h, {"meeting"})
    BY <1>3 DEF AskMeeting
  <2> QED
    BY <1>b, <1>d, <2>1, <2>2
<1>4. CASE AskContents(h)
  <2>1. At(h, "change") /\ UNCHANGED learningTables
    BY <1>4 DEF AskContents, Turn
  <2>2. PICK x \in {"count", "contents"} :
           Finish(h) \/ (PublishedMaterial(q.a) # {} /\ Learned(h, {x}))
    BY <1>4 DEF AskContents
  <2> QED
    BY <1>b, <1>d, <2>1, <2>2
<1>5. CASE AskPlace(h)
  <2>1. At(h, "change") /\ UNCHANGED learningTables
    BY <1>5 DEF AskPlace, Turn
  <2>2. Finish(h) \/ Learned(h, {"place"})
    BY <1>5 DEF AskPlace
  <2> QED
    BY <1>b, <1>d, <2>1, <2>2
<1>6. CASE ChangeActivity(h)
  <2>1. /\ At(h, "change") /\ q.todo = {}
        /\ UNCHANGED <<meeting, activityType, material, progress, aggregate>>
    BY <1>6 DEF ChangeActivity
  <2>2. CASE Finish(h) /\ UNCHANGED activity
    BY <1>b, <2>1, <2>2 DEF learningTables
  <2>3. ASSUME ~("place" \in q.sets /\ Taken(q.a, q.row.place)), Commit(h),
               activity' = [activity EXCEPT ![q.a] =
                    [c \in DOMAIN @ |-> IF c \in q.sets THEN q.row[c] ELSE @[c]]]
        PROVE  CourseKept
    <3>1. q.a \in Activity /\ IsActivity(activity[q.a])
      BY <1>0, <1>c, <2>1, PlannedExist
    <3>2. PICK new : /\ activity' = [activity EXCEPT ![q.a] = new] /\ activity'[q.a] = new
                     /\ IsActivity(new) /\ new.status = Changed(q, "status")
                     /\ new.kind = Changed(q, "kind") /\ new.place = Changed(q, "place")
      <4> DEFINE new == [c \in DOMAIN activity[q.a] |->
                            IF c \in q.sets THEN q.row[c] ELSE activity[q.a][c]]
      <4>1. activity' = [activity EXCEPT ![q.a] = new] /\ activity'[q.a] = new
        BY <1>0, <2>3, <3>1 DEF CourseTyped
      <4>2. DOMAIN new = DOMAIN activity[q.a]
        OBVIOUS
      <4>3. \A c \in {"status", "kind", "place"} : new[c] = Changed(q, c)
        BY <3>1 DEF IsActivity, Changed
      <4> HIDE DEF new
      <4>4. IsActivity(new)
        BY <1>c, <2>1, <3>1, <4>2, <4>3 DEF IsActivity, Changed
      <4> QED
        BY <4>1, <4>3, <4>4
    <3>3. ActivitiesStay
      BY <1>0, <3>1, <3>2 DEF ActivitiesStay, CourseTyped, Existing, IsActivity, NoActivity,
                              ActivityStatus
    <3>4. CourseTyped'
      <4>1. \A a \in Activity : activity'[a] = NoActivity \/ IsActivity(activity'[a])
        BY <1>0, <3>2 DEF CourseTyped
      <4>2. activity' = [a \in Activity |-> activity'[a]]
        BY <1>0, <3>2 DEF CourseTyped
      <4>3. /\ meeting' = meeting /\ activityType' = activityType /\ material' = material
            /\ progress' = progress /\ aggregate' = aggregate
        BY <2>1
      <4> QED
        BY <1>0, <4>1, <4>2, <4>3 DEF CourseTyped
    <3>5. ASSUME h \notin crossed PROVE Course!Next
      <4>1. /\ activity[q.a].status # "ARCHIVED"
            /\ new.status = q.row.status /\ new.kind = q.row.kind
            /\ new.status = "PUBLISHED" => meeting # "ARCHIVED"
            /\ new.status = "PUBLISHED" \/ new.kind # activity[q.a].kind =>
                  /\ activityType[new.kind].active
                  /\ activityType[new.kind].requires => PublishedMaterial(q.a) # {}
        BY <1>c, <2>1, <3>2, <3>5 DEF GateKnown
      <4>2. q.a \in Course!In("DRAFT") \cup Course!In("PUBLISHED")
        BY <1>0, <3>1, <4>1, PlannedExist DEF IsActivity, ActivityStatus
      <4>3. new.place # activity[q.a].place =>
              \A b \in Course!Planned \ {q.a} : activity[b].place # new.place
        BY <1>0, <2>3, <3>2, PlannedExist DEF Changed, Taken
      <4>4. Course!Readable(q.a) = PublishedMaterial(q.a)
        BY <1>0, PlannedExist
      <4>5. Course!Change(q.a)
        BY <2>1, <3>2, <4>1, <4>2, <4>3, <4>4 DEF Course!Change
      <4> QED
        BY <3>1, <4>5 DEF Course!Next
    <3> QED
      BY <1>c, <2>1, <2>3, <3>3, <3>4, <3>5, CourseDone
  <2> QED
    BY <1>6, <2>2, <2>3 DEF ChangeActivity
<1> QED
  BY <1>1, <1>2, <1>3, <1>4, <1>5, <1>6

\* An order fills the places from the first on.
LEMMA OrderFills ==
    ASSUME NEW A, IsFiniteSet(A), NEW plan \in Orders(A)
    PROVE  {plan[a] : a \in A} = 1 .. Cardinality(A)
<1> DEFINE N == 1 .. Cardinality(A)
<1>1. Cardinality(A) \in Nat
  BY FS_CardinalityType
<1>2. IsFiniteSet(N) /\ Cardinality(N) = Cardinality(A)
  BY <1>1, FS_Interval
<1>3. plan \in [A -> N] /\ \A a, b \in A : plan[a] = plan[b] => a = b
  BY DEF Orders, IsInjective
<1> HIDE DEF N
<1>4. plan \in Injection(A, N)
  BY <1>3 DEF Injection, IsInjective
<1>5. plan \in Surjection(A, N)
  BY <1>2, <1>4, FS_Injection
<1>6. \A n \in N : \E a \in A : plan[a] = n
  BY <1>5 DEF Surjection
<1> QED
  BY <1>3, <1>6 DEF N

\* LearningActivitiesService.reorder keeps the promise.
LEMMA OrderKept ==
    ASSUME Steppable, CourseFine, Undisturbed, NEW h \in Handler, UNCHANGED enrolled,
           BeginReorder(h) \/ Reorder(h)
    PROVE  CourseKept
<1> DEFINE q == handler[h]
<1>0. CourseTyped /\ CourseHeld(q) /\ (h \notin crossed => CourseKnown(q))
  BY DEF CourseFine
<1>1. CASE BeginReorder(h)
  <2>1. PICK plan \in Orders(Existing) : Reads(h, [step |-> "reorder", plan |-> plan])
    BY <1>1 DEF BeginReorder, Receive
  <2> DEFINE m == [step |-> "reorder", plan |-> plan]
  <2>2. m.step = "reorder" /\ m.plan = plan /\ Reads(h, m) /\ UNCHANGED learningTables
    BY <1>1, <2>1 DEF BeginReorder
  <2>3. DOMAIN plan = Existing
    BY DEF Orders
  <2> HIDE DEF m
  <2>4. CourseHeld(m) /\ CourseKnown(m)
    BY <2>2, <2>3 DEF CourseHeld, CourseKnown, CatalogKnown, MaterialKnown, ProgressKnown,
                      GateSteps, RenewSteps
  <2> QED
    BY <2>2, <2>4, CourseReads DEF CourseKept
<1>2. CASE Reorder(h)
  <2>1. At(h, "reorder") /\ UNCHANGED <<meeting, activityType, material, progress, aggregate>>
    BY <1>2 DEF Reorder
  <2>2. q.step \in LearningSteps /\ DOMAIN q.plan \subseteq Existing
    BY <1>0, <2>1 DEF At, LearningSteps, CourseHeld
  <2>3. CASE Finish(h) /\ UNCHANGED activity
    BY <2>1, <2>3, CourseEnds DEF learningTables
  <2>4. CASE /\ activity' = [a \in Activity |->
                    IF a \in DOMAIN q.plan THEN [activity[a] EXCEPT !.place = q.plan[a]]
                    ELSE activity[a]]
             /\ Commit(h)
    <3>1. ASSUME NEW a \in Existing
          PROVE  /\ IsActivity(activity'[a]) /\ activity'[a].status = activity[a].status
                 /\ a \in DOMAIN q.plan => activity'[a].place = q.plan[a]
      <4>1. a \in Activity /\ IsActivity(activity[a])
        BY <1>0, PlannedExist
      <4> QED
        BY <2>4, <4>1 DEF IsActivity
    <3>2. \A a \in Activity \ Existing : activity'[a] = activity[a]
      BY <2>2, <2>4
    <3>3. ActivitiesStay
      BY <1>0, <3>1, PlannedExist DEF ActivitiesStay, Existing, IsActivity, NoActivity,
                                      ActivityStatus
    <3>4. CourseTyped'
      BY <1>0, <2>1, <2>4, <3>1, <3>2 DEF CourseTyped, IsActivity, Existing
    <3>5. ASSUME h \notin crossed PROVE Course!Next
      <4>1. q.plan \in Orders(Existing)
        BY <1>0, <2>1, <3>5 DEF At, CourseKnown, CatalogKnown
      <4>2. IsFiniteSet(Existing)
        BY FS_Subset, LearningAssumption DEF Existing
      <4>3. DOMAIN q.plan = Existing
        BY <4>1 DEF Orders
      <4>4. {activity'[a].place : a \in Existing} = {q.plan[a] : a \in Existing}
        BY <3>1, <4>3
      <4>5. {activity'[a].place : a \in Existing} = 1 .. Cardinality(Existing)
        BY <4>1, <4>2, <4>4, OrderFills
      <4>6. activity' = [a \in Activity |-> IF a \notin Existing THEN activity[a]
                            ELSE [activity[a] EXCEPT !.place = activity'[a].place]]
        BY <2>4, <3>1, <4>3
      <4>7. Course!Rearrange
        BY <1>0, <2>1, <3>1, <4>5, <4>6, PlannedExist DEF Course!Rearrange, Course!Cardinality, Cardinality
      <4> QED
        BY <4>7 DEF Course!Next
    <3> QED
      BY <2>2, <2>4, <3>3, <3>4, <3>5, CourseDone
  <2> QED
    BY <1>2, <2>3, <2>4 DEF Reorder
<1> QED
  BY <1>1, <1>2


\* The greatest of some version numbers, or 0 and there is none.
LEMMA GreatestNumber ==
    ASSUME NEW k \in Nat, NEW S \in SUBSET (1 .. k)
    PROVE  Max(S \cup {0}) \in S \cup {0} /\ \A n \in S : n <= Max(S \cup {0})
<1> DEFINE T == {k - n : n \in S \cup {0}}
           R == {r \in Nat \X Nat : r[1] < r[2]}
<1>1. T \subseteq Nat /\ T # {}
  <2>1. \A n \in S \cup {0} : k - n \in Nat
    OBVIOUS
  <2>2. k - 0 \in T
    OBVIOUS
  <2> QED
    BY <2>1, <2>2
<1>2. WellFounded!IsWellFoundedOn(R, Nat)
  BY WellFounded!NatLessThanWellFounded DEF WellFounded!OpToRel
<1>3. PICK x \in T : \A y \in T : ~(y < x)
  <2>1. \A x, y \in Nat : y < x => <<y, x>> \in R
    OBVIOUS
  <2> HIDE DEF T, R
  <2>2. PICK x \in T : \A y \in T : <<y, x>> \notin R
    BY <1>1, <1>2, WellFounded!WFMin
  <2> QED
    BY <1>1, <2>1, <2>2
<1>4. PICK n \in S \cup {0} : x = k - n
  BY <1>3
<1>5. ASSUME NEW m \in S \cup {0} PROVE n >= m
  <2>1. k - m \in T
    OBVIOUS
  <2>2. m \in Nat /\ n \in Nat
    OBVIOUS
  <2> HIDE DEF T
  <2> QED
    BY <1>3, <1>4, <2>1, <2>2
<1>6. /\ Max(S \cup {0}) \in S \cup {0}
      /\ \A m \in S \cup {0} : Max(S \cup {0}) >= m
  BY <1>4, <1>5 DEF Max
<1> QED
  BY <1>6

\* A version whose status is changed is one of a sequence as long.
LEMMA VersionChanged ==
    ASSUME NEW S, NEW s \in Seq(S), NEW n, NEW to
    PROVE  [s EXCEPT ![n] = to] \in Seq(S \cup {to})
<1> DEFINE r == [s EXCEPT ![n] = to]
<1>1. DOMAIN r = 1 .. Len(s) /\ r = [m \in 1 .. Len(s) |-> r[m]]
  OBVIOUS
<1>2. \A m \in 1 .. Len(s) : r[m] \in S \cup {to}
  OBVIOUS
<1> HIDE DEF r
<1>3. r \in [1 .. Len(s) -> S \cup {to}] /\ Len(s) \in Nat
  BY <1>1, <1>2
<1> QED
  BY <1>3 DEF r

\* A material after its newest published version, if there is one, has been replaced.
Replaced(s, old) ==
    [n \in 1 .. Len(s) + 1 |-> IF n = Len(s) + 1 THEN "PUBLISHED"
                               ELSE IF n = old THEN "SUPERSEDED" ELSE s[n]]

LEMMA ReplacedByRenewal ==
    ASSUME NEW S, NEW s \in Seq(S), NEW P, P = {n \in DOMAIN s : s[n] = "PUBLISHED"},
           NEW old \in P \cup {0}, \A n \in P : n <= old
    PROVE  Replaced(s, old) =
             Append([n \in DOMAIN s |-> IF P # {} /\ n = Course!Newest(P)
                                          THEN "SUPERSEDED" ELSE s[n]], "PUBLISHED")
<1> DEFINE t == [n \in DOMAIN s |-> IF P # {} /\ n = Course!Newest(P) THEN "SUPERSEDED" ELSE s[n]]
<1>1. DOMAIN s = 1 .. Len(s) /\ Len(s) \in Nat /\ P \subseteq 1 .. Len(s)
  OBVIOUS
<1>2. ASSUME P # {} PROVE Course!Newest(P) = old
  <2>1. old \in P
    BY <1>1, <1>2
  <2>2. \A m \in P : m <= old
    OBVIOUS
  <2>3. Course!Newest(P) \in P /\ \A m \in P : m <= Course!Newest(P)
    BY <2>1, <2>2 DEF Course!Newest
  <2>4. PICK x \in P : x = Course!Newest(P) /\ \A m \in P : m <= x
    BY <2>3
  <2>5. old <= x /\ x <= old /\ old \in Nat /\ x \in Nat
    BY <1>1, <2>1, <2>2, <2>4
  <2> QED
    BY <2>4, <2>5
<1>3. \A n \in 1 .. Len(s) : t[n] = IF n = old THEN "SUPERSEDED" ELSE s[n]
  <2>1. CASE P = {}
    BY <1>1, <2>1
  <2>2. CASE P # {}
    BY <1>1, <1>2, <2>2
  <2> QED
    BY <2>1, <2>2
<1>4. t \in Seq(S \cup {"SUPERSEDED", "PUBLISHED"}) /\ Len(t) = Len(s)
  <2>1. t \in [1 .. Len(s) -> S \cup {"SUPERSEDED", "PUBLISHED"}]
    BY <1>1
  <2> HIDE DEF t
  <2> QED
    BY <1>1, <2>1
<1> HIDE DEF t
<1> DEFINE u == Append(t, "PUBLISHED")
<1>5. u \in Seq(S \cup {"SUPERSEDED", "PUBLISHED"}) /\ Len(u) = Len(s) + 1
  BY <1>4
<1>6. ASSUME NEW n \in 1 .. Len(s) + 1
      PROVE  u[n] = IF n = Len(s) + 1 THEN "PUBLISHED" ELSE t[n]
  BY <1>1, <1>4
<1>7. u = Replaced(s, old)
  <2> HIDE DEF u
  <2>1. u = [n \in 1 .. Len(u) |-> u[n]]
    BY <1>5
  <2> QED
    BY <1>1, <1>3, <1>5, <1>6, <2>1 DEF Replaced
<1> QED
  BY <1>7 DEF t, u


\* LearningContentsService.create and update keep the promise.
LEMMA MaterialsKept ==
    ASSUME Steppable, CourseFine, Undisturbed, NEW h \in Handler, UNCHANGED enrolled,
           \/ BeginMaterial(h) \/ CreateMaterial(h)
           \/ BeginMaterialStatus(h) \/ CheckVersionState(h) \/ SetMaterialStatus(h)
    PROVE  CourseKept
<1> DEFINE q == handler[h]
<1>0. CourseTyped /\ CourseHeld(q) /\ (h \notin crossed => CourseKnown(q))
  BY DEF CourseFine
<1>a. ASSUME NEW m, Reads(h, m), UNCHANGED learningTables,
             m.step \in LearningSteps => CourseHeld(m) /\ (h \notin crossed => CourseKnown(m))
      PROVE  CourseKept
  BY <1>a, CourseReads DEF CourseKept
<1>b. ASSUME Finish(h), UNCHANGED learningTables PROVE CourseKept
  BY <1>b, CourseEnds
<1>1. CASE BeginMaterial(h)
  <2>1. PICK a \in Existing, s \in {"DRAFT", "ARCHIVED"} :
            /\ material[a] = <<>> /\ activity[a].status # "ARCHIVED"
            /\ Reads(h, [step |-> "material", a |-> a, status |-> s])
    BY <1>1 DEF BeginMaterial, Receive
  <2> DEFINE m == [step |-> "material", a |-> a, status |-> s]
  <2>2. m.step = "material" /\ m.a = a /\ m.status = s /\ Reads(h, m) /\ UNCHANGED learningTables
    BY <1>1, <2>1 DEF BeginMaterial
  <2>3. a \in Activity
    BY DEF Existing
  <2> HIDE DEF m
  <2>4. CourseHeld(m) /\ CourseKnown(m)
    BY <2>1, <2>2, <2>3 DEF CourseHeld, CourseKnown, CatalogKnown, MaterialKnown, ProgressKnown,
                      GateSteps, RenewSteps
  <2> QED
    BY <1>a, <2>2, <2>4
<1>2. CASE CreateMaterial(h)
  <2>1. /\ At(h, "material") /\ material' = [material EXCEPT ![q.a] = <<q.status>>] /\ Commit(h)
        /\ UNCHANGED <<meeting, activityType, activity, progress, aggregate>>
    BY <1>2 DEF CreateMaterial
  <2>2. q.step \in LearningSteps /\ q.a \in Activity /\ q.status \in {"DRAFT", "ARCHIVED"}
    BY <1>0, <2>1 DEF At, LearningSteps, CourseHeld
  <2>3. \A a \in Activity : \E S : material'[a] \in Seq(S)
    <3>1. <<q.status>> \in Seq({q.status})
      OBVIOUS
    <3> QED
      BY <1>0, <2>1, <2>2, <3>1 DEF CourseTyped
  <2>4. ActivitiesStay /\ CourseTyped'
    BY <1>0, <2>1, <2>3 DEF CourseTyped, ActivitiesStay, Existing, IsActivity
  <2>5. ASSUME h \notin crossed PROVE Course!Next
    <3>1. q.a \in Existing /\ material[q.a] = <<>> /\ activity[q.a].status # "ARCHIVED"
      BY <1>0, <2>1, <2>5 DEF At, CourseKnown, MaterialKnown
    <3>2. q.a \in Course!In("DRAFT") \cup Course!In("PUBLISHED")
      BY <1>0, <2>2, <3>1, PlannedExist DEF IsActivity, ActivityStatus
    <3>3. Course!Provide(q.a)
      BY <2>1, <2>2, <3>1, <3>2 DEF Course!Provide
    <3> QED
      BY <2>2, <3>3 DEF Course!Next
  <2> QED
    BY <2>1, <2>2, <2>4, <2>5, CourseDone
<1>3. CASE BeginMaterialStatus(h)
  <2>1. PICK a \in Activity : \E n \in DOMAIN material[a], to \in ActivityStatus :
            /\ CanMoveActivity(material[a][n], to)
            /\ Reads(h, [step |-> IF to = "PUBLISHED" THEN "version state" ELSE "material status",
                         a |-> a, number |-> n, to |-> to])
    BY <1>3 DEF BeginMaterialStatus, Receive
  <2>2. PICK n \in DOMAIN material[a], to \in ActivityStatus :
            /\ CanMoveActivity(material[a][n], to)
            /\ Reads(h, [step |-> IF to = "PUBLISHED" THEN "version state" ELSE "material status",
                         a |-> a, number |-> n, to |-> to])
    BY <2>1
  <2> DEFINE m == [step |-> IF to = "PUBLISHED" THEN "version state" ELSE "material status",
                   a |-> a, number |-> n, to |-> to]
  <2>3. /\ m.step \in {"version state", "material status"}
        /\ m.step = "material status" => to # "PUBLISHED"
        /\ {"a", "number", "to"} \subseteq DOMAIN m /\ m.a = a /\ m.number = n /\ m.to = to
        /\ Reads(h, m) /\ UNCHANGED learningTables
    BY <1>3, <2>2 DEF BeginMaterialStatus
  <2> HIDE DEF m
  <2>4. CourseHeld(m) /\ CourseKnown(m)
    BY <2>2, <2>3 DEF CourseHeld, CourseKnown, CatalogKnown, MaterialKnown, ProgressKnown,
                      GateSteps, RenewSteps
  <2> QED
    BY <1>a, <2>3, <2>4
<1>4. CASE CheckVersionState(h)
  <2>1. /\ At(h, "version state") /\ UNCHANGED learningTables
        /\ IF PublishedMaterial(q.a) # {} THEN Finish(h) ELSE Goto(h, "material status")
    BY <1>4 DEF CheckVersionState
  <2>2. CASE Finish(h)
    BY <1>b, <2>1, <2>2
  <2>3. CASE PublishedMaterial(q.a) = {} /\ Goto(h, "material status")
    <3>1. /\ {"a", "number", "to"} \subseteq DOMAIN q /\ q.a \in Activity /\ q.to \in ActivityStatus
          /\ h \notin crossed => /\ q.number \in DOMAIN material[q.a]
                                 /\ CanMoveActivity(material[q.a][q.number], q.to)
      BY <1>0, <2>1 DEF At, CourseHeld, CourseKnown, MaterialKnown
    <3>2. PICK m : /\ m.step = "material status" /\ m.a = q.a /\ m.number = q.number /\ m.to = q.to
                   /\ {"a", "number", "to"} \subseteq DOMAIN m /\ Reads(h, m)
      BY <2>3, <3>1 DEF Goto, Steppable
    <3>3. CourseHeld(m) /\ (h \notin crossed => CourseKnown(m))
      BY <2>3, <3>1, <3>2 DEF CourseHeld, CourseKnown, CatalogKnown, MaterialKnown, ProgressKnown,
                        GateSteps, RenewSteps
    <3> QED
      BY <1>a, <2>1, <3>2, <3>3
  <2> QED
    BY <2>1, <2>2, <2>3
<1>5. CASE SetMaterialStatus(h)
  <2>1. /\ At(h, "material status") /\ material' = [material EXCEPT ![q.a][q.number] = q.to]
        /\ Commit(h) /\ UNCHANGED <<meeting, activityType, activity, progress, aggregate>>
    BY <1>5 DEF SetMaterialStatus
  <2>2. q.step \in LearningSteps /\ q.a \in Activity /\ q.to \in ActivityStatus
    BY <1>0, <2>1 DEF At, LearningSteps, CourseHeld
  <2>3. \A a \in Activity : \E S : material'[a] \in Seq(S)
    <3>1. PICK S : material[q.a] \in Seq(S)
      BY <1>0, <2>2 DEF CourseTyped
    <3>2. [material[q.a] EXCEPT ![q.number] = q.to] \in Seq(S \cup {q.to})
      BY <3>1, VersionChanged
    <3> QED
      BY <1>0, <2>1, <2>2, <3>2 DEF CourseTyped
  <2>4. ActivitiesStay /\ CourseTyped'
    BY <1>0, <2>1, <2>3 DEF CourseTyped, ActivitiesStay, Existing, IsActivity
  <2>5. ASSUME h \notin crossed PROVE Course!Next
    <3>1. /\ q.number \in DOMAIN material[q.a]
          /\ CanMoveActivity(material[q.a][q.number], q.to)
          /\ q.to = "PUBLISHED" => PublishedMaterial(q.a) = {}
      BY <1>0, <2>1, <2>5 DEF At, CourseKnown, MaterialKnown
    <3>2. material[q.a][q.number] \in {"DRAFT", "PUBLISHED"} \ {q.to}
      BY <3>1 DEF CanMoveActivity
    <3>3. Course!MoveMaterial(q.a)
      BY <1>0, <2>1, <2>2, <3>1, <3>2, PlannedExist DEF Course!MoveMaterial, ActivityStatus
    <3> QED
      BY <2>2, <3>3 DEF Course!Next
  <2> QED
    BY <2>1, <2>2, <2>4, <2>5, CourseDone
<1> QED
  BY <1>1, <1>2, <1>3, <1>4, <1>5

\* LearningContentsService.createVersion keeps the promise.
LEMMA RenewalsKept ==
    ASSUME Steppable, CourseFine, Undisturbed, NEW h \in Handler, UNCHANGED enrolled,
           \/ BeginMaterialVersion(h) \/ ReadLastVersion(h) \/ ReadPublishedVersion(h)
           \/ CreateMaterialVersion(h)
    PROVE  CourseKept
<1> DEFINE q == handler[h]
<1>0. CourseTyped /\ CourseHeld(q) /\ (h \notin crossed => CourseKnown(q))
  BY DEF CourseFine
<1>a. ASSUME NEW m, Reads(h, m), UNCHANGED learningTables,
             m.step \in LearningSteps => CourseHeld(m) /\ (h \notin crossed => CourseKnown(m))
      PROVE  CourseKept
  BY <1>a, CourseReads DEF CourseKept
<1>b. ASSUME Finish(h), UNCHANGED learningTables PROVE CourseKept
  BY <1>b, CourseEnds
<1>c. q.step \in RenewSteps =>
        /\ {"a", "number", "old"} \subseteq DOMAIN q /\ q.a \in Activity
        /\ h \notin crossed => Renewable(q.a)
  BY <1>0 DEF CourseHeld, CourseKnown, MaterialKnown
<1>1. CASE BeginMaterialVersion(h)
  <2>1. PICK a \in Activity : Renewable(a) /\
            Reads(h, [step |-> "last version", a |-> a, number |-> 0, old |-> 0])
    BY <1>1 DEF BeginMaterialVersion, Receive, Renewable
  <2> DEFINE m == [step |-> "last version", a |-> a, number |-> 0, old |-> 0]
  <2>2. /\ m.step = "last version" /\ m.a = a /\ {"a", "number", "old"} \subseteq DOMAIN m
        /\ Reads(h, m) /\ UNCHANGED learningTables
    BY <1>1, <2>1 DEF BeginMaterialVersion
  <2> HIDE DEF m
  <2>3. CourseHeld(m) /\ CourseKnown(m)
    BY <2>1, <2>2 DEF CourseHeld, CourseKnown, CatalogKnown, MaterialKnown, ProgressKnown,
                      GateSteps, RenewSteps
  <2> QED
    BY <1>a, <2>2, <2>3
<1>2. CASE ReadLastVersion(h)
  <2>1. /\ At(h, "last version") /\ UNCHANGED learningTables
        /\ Reads(h, [q EXCEPT !.step = "published version", !.number = Len(material[q.a]) + 1])
    BY <1>2 DEF ReadLastVersion
  <2>2. q.step \in RenewSteps
    BY <2>1 DEF At, RenewSteps
  <2>3. PICK m : /\ m.step = "published version" /\ m.a = q.a /\ m.number = Len(material[q.a]) + 1
                 /\ {"a", "number", "old"} \subseteq DOMAIN m /\ Reads(h, m)
    BY <1>c, <2>1, <2>2 DEF Steppable
  <2>4. Len(material[q.a]) + 1 \in Nat \ {0}
    <3>1. PICK S : material[q.a] \in Seq(S)
      BY <1>0, <1>c, <2>2 DEF CourseTyped
    <3>2. Len(material[q.a]) \in Nat
      BY <3>1
    <3> QED
      BY <3>2
  <2>5. CourseHeld(m) /\ (h \notin crossed => CourseKnown(m))
    BY <1>c, <2>2, <2>3, <2>4 DEF CourseHeld, CourseKnown, CatalogKnown, MaterialKnown,
                      ProgressKnown, GateSteps, RenewSteps
  <2> QED
    BY <1>a, <2>1, <2>3, <2>5
<1>3. CASE ReadPublishedVersion(h)
  <2>1. /\ At(h, "published version") /\ UNCHANGED learningTables
        /\ Reads(h, [q EXCEPT !.step = "material version",
                              !.old = Max(PublishedMaterial(q.a) \cup {0})])
    BY <1>3 DEF ReadPublishedVersion
  <2>2. /\ q.step \in RenewSteps /\ q.number \in Nat \ {0}
        /\ h \notin crossed => q.number = Len(material[q.a]) + 1
    BY <1>0, <2>1 DEF At, RenewSteps, CourseHeld, CourseKnown, MaterialKnown
  <2>3. PICK m : /\ m.step = "material version" /\ m.a = q.a /\ m.number = q.number
                 /\ m.old = Max(PublishedMaterial(q.a) \cup {0})
                 /\ {"a", "number", "old"} \subseteq DOMAIN m /\ Reads(h, m)
    BY <1>c, <2>1, <2>2 DEF Steppable
  <2>4. /\ m.old \in PublishedMaterial(q.a) \cup {0}
        /\ \A n \in PublishedMaterial(q.a) : n <= m.old
    <3>1. PICK S : material[q.a] \in Seq(S)
      BY <1>0, <1>c, <2>2 DEF CourseTyped
    <3>2. Len(material[q.a]) \in Nat /\ PublishedMaterial(q.a) \in SUBSET (1 .. Len(material[q.a]))
      BY <3>1 DEF PublishedMaterial
    <3> QED
      BY <2>3, <3>2, GreatestNumber
  <2>5. CourseHeld(m)
    BY <1>c, <2>2, <2>3 DEF CourseHeld, GateSteps, RenewSteps
  <2>6. h \notin crossed => CourseKnown(m)
    BY <1>c, <2>2, <2>3, <2>4 DEF CourseKnown, CatalogKnown, MaterialKnown, ProgressKnown,
                      GateSteps, RenewSteps
  <2> QED
    BY <1>a, <2>1, <2>3, <2>5, <2>6
<1>4. CASE CreateMaterialVersion(h)
  <2>1. At(h, "material version") /\ UNCHANGED <<meeting, activityType, activity, progress, aggregate>>
    BY <1>4 DEF CreateMaterialVersion
  <2>2. q.step \in LearningSteps /\ q.step \in RenewSteps /\ q.number \in Nat \ {0} /\ q.a \in Activity
    BY <1>0, <2>1 DEF At, LearningSteps, RenewSteps, CourseHeld
  <2>3. CASE Finish(h) /\ UNCHANGED material
    BY <1>b, <2>1, <2>3 DEF learningTables
  <2>4. CASE /\ material' = [material EXCEPT ![q.a] =
                    [n \in 1 .. q.number |-> IF n = q.number THEN "PUBLISHED"
                                             ELSE IF n = q.old THEN "SUPERSEDED" ELSE @[n]]]
             /\ Commit(h)
    <3> DEFINE s == material[q.a]
               r == [n \in 1 .. q.number |-> IF n = q.number THEN "PUBLISHED"
                                             ELSE IF n = q.old THEN "SUPERSEDED" ELSE s[n]]
    <3>1. material' = [material EXCEPT ![q.a] = r] /\ material'[q.a] = r
      BY <1>0, <2>2, <2>4 DEF CourseTyped
    <3>2. \A a \in Activity : \E S : material'[a] \in Seq(S)
      <4> DEFINE T == {r[n] : n \in 1 .. q.number}
      <4>1. r \in [1 .. q.number -> T] /\ q.number \in Nat
        BY <2>2
      <4> HIDE DEF r, T
      <4>2. r \in Seq(T)
        BY <4>1
      <4> QED
        BY <1>0, <2>2, <3>1, <4>2 DEF CourseTyped
    <3>3. ActivitiesStay /\ CourseTyped'
      BY <1>0, <2>1, <2>4, <3>2 DEF CourseTyped, ActivitiesStay, Existing, IsActivity
    <3>4. ASSUME h \notin crossed PROVE Course!Next
      <4>1. /\ Renewable(q.a) /\ q.number = Len(s) + 1
            /\ q.old \in PublishedMaterial(q.a) \cup {0}
            /\ \A n \in PublishedMaterial(q.a) : n <= q.old
        BY <1>0, <2>1, <2>2, <3>4 DEF At, CourseKnown, MaterialKnown
      <4>2. PICK S : s \in Seq(S)
        BY <1>0, <2>2 DEF CourseTyped
      <4>3. r = Replaced(s, q.old)
        BY <4>1 DEF Replaced
      <4> DEFINE P == Course!Readable(q.a)
      <4>4. P = PublishedMaterial(q.a) /\ P = {n \in DOMAIN s : s[n] = "PUBLISHED"}
        BY DEF Course!Readable, PublishedMaterial
      <4> HIDE DEF r, s, P
      <4>5. r = Append([n \in DOMAIN s |-> IF P # {} /\ n = Course!Newest(P)
                                             THEN "SUPERSEDED" ELSE s[n]], "PUBLISHED")
        BY <4>1, <4>2, <4>3, <4>4, ReplacedByRenewal
      <4>6. material' = [material EXCEPT ![q.a] = Append(
              [n \in DOMAIN @ |-> IF Course!Readable(q.a) # {} /\ n = Course!Newest(Course!Readable(q.a))
                                  THEN "SUPERSEDED" ELSE @[n]], "PUBLISHED")]
        BY <1>0, <2>2, <3>1, <4>5 DEF CourseTyped, s, P
      <4>7. \E n \in DOMAIN material[q.a] : material[q.a][n] # "ARCHIVED"
        BY <4>1 DEF Renewable
      <4>8. Course!Renew(q.a)
        BY <2>1, <4>6, <4>7 DEF Course!Renew, Course!Append, Append
      <4> QED
        BY <2>2, <4>8 DEF Course!Next
    <3> QED
      BY <2>2, <2>4, <3>3, <3>4, CourseDone
  <2> QED
    BY <1>4, <2>3, <2>4 DEF CreateMaterialVersion
<1> QED
  BY <1>1, <1>2, <1>3, <1>4


\* The share of what is done is 0 if nothing is, and 100 if all is.
LEMMA ShareOfAll ==
    ASSUME NEW A, IsFiniteSet(A), NEW D \in SUBSET A
    PROVE  /\ D = {} => ShareDone(Cardinality(D), Cardinality(A)) = 0
           /\ D = A /\ A # {} => ShareDone(Cardinality(D), Cardinality(A)) = 100
<1>1. Cardinality(A) \in Nat /\ (A # {} => Cardinality(A) > 0)
  BY FS_CardinalityType, FS_EmptySet
<1>2. \A x \in {0, 100} : Min({100, x}) = x
  BY DEF Min
<1>3. ASSUME NEW t \in Nat PROVE ShareDone(0, t) = 0
  <2>1. t > 0 => (200 * 0 + t) \div (2 * t) = 0
    OBVIOUS
  <2> QED
    BY <1>2, <2>1 DEF ShareDone
<1>4. ASSUME NEW t \in Nat, t > 0 PROVE ShareDone(t, t) = 100
  <2>1. (200 * t + t) \div (2 * t) = 100
    BY <1>4
  <2> QED
    BY <1>2, <1>4, <2>1 DEF ShareDone
<1>5. Cardinality({}) = 0
  BY FS_EmptySet
<1> QED
  BY <1>1, <1>3, <1>4, <1>5

\* LearningProgressService.recordProgress, up to the upsert, keeps the promise.
LEMMA ProgressKept ==
    ASSUME Steppable, CourseFine, Undisturbed, NEW h \in Handler, UNCHANGED enrolled,
           BeginProgress(h) \/ ReadProgress(h) \/ SaveProgress(h)
    PROVE  CourseKept
<1> DEFINE q == handler[h]
<1>0. CourseTyped /\ CourseHeld(q) /\ (h \notin crossed => CourseKnown(q))
  BY DEF CourseFine
<1>a. ASSUME NEW m, Reads(h, m), UNCHANGED learningTables,
             m.step \in LearningSteps => CourseHeld(m) /\ (h \notin crossed => CourseKnown(m))
      PROVE  CourseKept
  BY <1>a, CourseReads DEF CourseKept
<1>b. ASSUME Finish(h), UNCHANGED learningTables PROVE CourseKept
  BY <1>b, CourseEnds
<1>1. CASE BeginProgress(h)
  <2>1. PICK e \in Enrollee, a \in Activity, s \in {"NOT_STARTED", "IN_PROGRESS", "COMPLETED"} :
            /\ EligibleForProgress(e, a)
            /\ Reads(h, [step |-> "progress row", e |-> e, a |-> a, status |-> s,
                         started |-> FALSE])
    BY <1>1 DEF BeginProgress, Receive
  <2> DEFINE m == [step |-> "progress row", e |-> e, a |-> a, status |-> s, started |-> FALSE]
  <2>2. /\ m.step = "progress row" /\ m.e = e /\ m.a = a
        /\ {"e", "a", "status", "started"} \subseteq DOMAIN m
        /\ Reads(h, m) /\ UNCHANGED learningTables
    BY <1>1, <2>1 DEF BeginProgress
  <2> HIDE DEF m
  <2>3. CourseHeld(m) /\ CourseKnown(m)
    BY <2>1, <2>2 DEF CourseHeld, CourseKnown, CatalogKnown, MaterialKnown, ProgressKnown,
                      GateSteps, RenewSteps
  <2> QED
    BY <1>a, <2>2, <2>3
<1>2. CASE ReadProgress(h)
  <2> DEFINE row == progress[q.e][q.a]
  <2>1. /\ At(h, "progress row") /\ UNCHANGED learningTables
        /\ IF row.status = "COMPLETED" /\ q.status = "NOT_STARTED" THEN Finish(h)
           ELSE Reads(h, [q EXCEPT !.step = "progress",
                                   !.started = row.started \/ q.status # "NOT_STARTED"])
    BY <1>2 DEF ReadProgress
  <2>2. /\ {"e", "a", "status", "started"} \subseteq DOMAIN q /\ q.e \in Enrollee /\ q.a \in Activity
        /\ h \notin crossed => EligibleForProgress(q.e, q.a)
    BY <1>0, <2>1 DEF At, CourseHeld, CourseKnown, ProgressKnown
  <2>3. CASE Finish(h)
    BY <1>b, <2>1, <2>3
  <2>4. CASE /\ ~(row.status = "COMPLETED" /\ q.status = "NOT_STARTED")
             /\ Reads(h, [q EXCEPT !.step = "progress",
                                   !.started = row.started \/ q.status # "NOT_STARTED"])
    <3> DEFINE now == row.started \/ q.status # "NOT_STARTED"
    <3>1. PICK b : b = now /\ Reads(h, [q EXCEPT !.step = "progress", !.started = b])
      BY <2>4, Zenon
    <3>2. PICK m : /\ m.step = "progress" /\ m.e = q.e /\ m.a = q.a /\ m.status = q.status
                   /\ m.started = b
                   /\ {"e", "a", "status", "started"} \subseteq DOMAIN m /\ Reads(h, m)
      BY <2>2, <3>1 DEF Steppable
    <3>3. CourseHeld(m)
      BY <2>2, <3>2 DEF CourseHeld, GateSteps, RenewSteps
    <3>4. CatalogKnown(m) /\ MaterialKnown(m)
      BY <3>2 DEF CatalogKnown, MaterialKnown, GateSteps, RenewSteps
    <3>5. h \notin crossed => ProgressKnown(m)
      BY <2>2, <2>4, <3>1, <3>2 DEF ProgressKnown
    <3> QED
      BY <1>a, <2>1, <3>2, <3>3, <3>4, <3>5 DEF CourseKnown
  <2> QED
    BY <2>1, <2>3, <2>4
<1>3. CASE SaveProgress(h)
  <2> DEFINE row == progress[q.e][q.a]
             new == [status |-> q.status, started |-> row.started \/ q.started]
  <2>1. /\ At(h, "progress") /\ UNCHANGED <<meeting, activityType, activity, material, aggregate>>
        /\ progress' = [progress EXCEPT ![q.e][q.a] =
                            [status |-> q.status, started |-> @.started \/ q.started]]
        /\ Commits(h, [step |-> "counts", e |-> q.e, of |-> {}, row |-> NoAggregate])
    BY <1>3 DEF SaveProgress
  <2>2. q.e \in Enrollee /\ q.a \in Activity
    BY <1>0, <2>1 DEF At, CourseHeld
  <2>3. /\ progress' = [progress EXCEPT ![q.e] = [progress[q.e] EXCEPT ![q.a] = new]]
        /\ progress'[q.e][q.a] = new
    BY <1>0, <2>1, <2>2 DEF CourseTyped
  <2>4. new.status = q.status /\ (new.started <=> row.started \/ q.started)
    BY Zenon
  <2> HIDE DEF new
  <2>5. ActivitiesStay
    BY <2>1 DEF ActivitiesStay, Existing
  <2>6. CourseTyped'
    <3>1. \A e \in Enrollee : progress'[e] = [a \in Activity |-> progress'[e][a]]
      BY <1>0, <2>2, <2>3 DEF CourseTyped
    <3>2. progress' = [e \in Enrollee |-> progress'[e]]
      BY <1>0, <2>2, <2>3 DEF CourseTyped
    <3> QED
      BY <1>0, <2>1, <3>1, <3>2 DEF CourseTyped
  <2>7. PICK m : /\ m.step = "counts" /\ m.e = q.e /\ m.of = {} /\ m.row = NoAggregate
                 /\ {"e", "of", "row"} \subseteq DOMAIN m /\ Commits(h, m)
    BY <2>1
  <2>8. CourseHeld(m)
    <3>1. CountFields \subseteq DOMAIN NoAggregate
      BY DEF CountFields, NoAggregate
    <3> QED
      BY <2>2, <2>7, <3>1 DEF CourseHeld, GateSteps, RenewSteps
  <2>9. CourseKnown(m)'
    BY <2>7 DEF CourseKnown, CatalogKnown, MaterialKnown, ProgressKnown, GateSteps, RenewSteps
  <2>10. CourseFine' /\ handler'[h] = m /\ q # m
    BY <2>1, <2>5, <2>6, <2>7, <2>8, <2>9, CourseWritten DEF Commits, Steppable, At
  <2>11. ASSUME h \notin crossed PROVE Course!Next
    <3>1. /\ EligibleForProgress(q.e, q.a)
          /\ ~(row.status = "COMPLETED" /\ q.status = "NOT_STARTED")
          /\ q.started = (row.started \/ q.status # "NOT_STARTED")
      BY <1>0, <2>1, <2>11 DEF At, CourseKnown, ProgressKnown
    <3>2. new.started = (row.started \/ new.status # "NOT_STARTED")
      BY <2>4, <3>1 DEF new
    <3>3. q.a \in Course!In("PUBLISHED")
      BY <2>2, <3>1 DEF EligibleForProgress, Course!In
    <3>4. progress' = [progress EXCEPT ![q.e][q.a] = progress'[q.e][q.a]]
      BY <2>3
    <3>5. Course!Advance(q.e, q.a)
      BY <2>1, <2>3, <2>4, <3>1, <3>2, <3>3, <3>4 DEF EligibleForProgress, Course!Advance
    <3> QED
      BY <2>2, <3>5 DEF Course!Next
  <2> QED
    BY <2>10, <2>11 DEF CourseKept, Uncrossed
<1> QED
  BY <1>1, <1>2, <1>3

\* LearningProgressService.refreshAggregate keeps the promise.
LEMMA SummaryKept ==
    ASSUME Steppable, CourseFine, Undisturbed, NEW h \in Handler, UNCHANGED enrolled,
           ReadCounts(h) \/ StoreAggregate(h)
    PROVE  CourseKept
<1> DEFINE q == handler[h]
<1>0. CourseTyped /\ CourseHeld(q) /\ (h \notin crossed => CourseKnown(q))
  BY DEF CourseFine
<1>a. ASSUME NEW m, Reads(h, m), UNCHANGED learningTables,
             m.step \in LearningSteps => CourseHeld(m) /\ (h \notin crossed => CourseKnown(m))
      PROVE  CourseKept
  BY <1>a, CourseReads DEF CourseKept
<1>b. q.step \in {"counts", "aggregate"} =>
        /\ {"e", "of", "row"} \subseteq DOMAIN q /\ q.e \in Enrollee
        /\ CountFields \subseteq DOMAIN q.row /\ q.of \subseteq {"activities", "progress"}
        /\ h \notin crossed => ProgressKnown(q)
  BY <1>0 DEF CourseHeld, CourseKnown
<1>1. CASE ReadCounts(h)
  <2> DEFINE After(f, row) == [q EXCEPT !.step = IF q.of = {} THEN @ ELSE "aggregate",
                                       !.of = @ \cup {f}, !.row = row]
             ActivityRead == [q.row EXCEPT !.total = Cardinality(Live),
                                           !.required = Cardinality(RequiredOf(Live))]
             DoneRead == [q.row EXCEPT !.completed = Cardinality(Done(q.e)),
                                       !.completedRequired = Cardinality(RequiredOf(Done(q.e)))]
  <2>0. At(h, "counts") /\ UNCHANGED learningTables /\ q.step = "counts"
    BY <1>1 DEF ReadCounts, At
  <2>1. \/ "activities" \notin q.of /\ Reads(h, After("activities", ActivityRead))
        \/ "progress" \notin q.of /\ Reads(h, After("progress", DoneRead))
    BY <1>1 DEF ReadCounts
  <2>2. /\ CountFields \subseteq DOMAIN ActivityRead
        /\ ActivityRead.total = Cardinality(Live)
        /\ ActivityRead.required = Cardinality(RequiredOf(Live))
        /\ ActivityRead.completed = q.row.completed
        /\ ActivityRead.completedRequired = q.row.completedRequired
    BY <1>b, <2>0 DEF CountFields
  <2>3. /\ CountFields \subseteq DOMAIN DoneRead
        /\ DoneRead.total = q.row.total /\ DoneRead.required = q.row.required
        /\ DoneRead.completed = Cardinality(Done(q.e))
        /\ DoneRead.completedRequired = Cardinality(RequiredOf(Done(q.e)))
    BY <1>b, <2>0 DEF CountFields
  <2>4. \A f, row : /\ After(f, row).step = IF q.of = {} THEN "counts" ELSE "aggregate"
                    /\ After(f, row).e = q.e /\ After(f, row).of = q.of \cup {f}
                    /\ After(f, row).row = row /\ {"e", "of", "row"} \subseteq DOMAIN After(f, row)
    BY <1>b, <2>0 DEF Steppable
  <2> HIDE DEF ActivityRead, DoneRead, After
  <2>5. ASSUME NEW f \in {"activities", "progress"}, f \notin q.of, NEW row,
               CountFields \subseteq DOMAIN row, Reads(h, After(f, row)),
               ProgressKnown(q) /\ "activities" \in q.of \cup {f} =>
                    /\ row.total = Cardinality(Live)
                    /\ row.required = Cardinality(RequiredOf(Live)),
               ProgressKnown(q) /\ "progress" \in q.of \cup {f} =>
                    /\ row.completed = Cardinality(Done(q.e))
                    /\ row.completedRequired = Cardinality(RequiredOf(Done(q.e)))
        PROVE  CourseKept
    <3>1. PICK m : /\ m.step = IF q.of = {} THEN "counts" ELSE "aggregate"
                   /\ m.e = q.e /\ m.of = q.of \cup {f} /\ m.row = row
                   /\ {"e", "of", "row"} \subseteq DOMAIN m /\ Reads(h, m)
      BY <2>4, <2>5
    <3>2. CourseHeld(m)
      BY <1>b, <2>0, <2>5, <3>1 DEF CourseHeld, GateSteps, RenewSteps
    <3>3. CatalogKnown(m) /\ MaterialKnown(m)
      BY <3>1 DEF CatalogKnown, MaterialKnown, GateSteps, RenewSteps
    <3>4. m.step = "aggregate" => {"activities", "progress"} \subseteq m.of
      BY <1>b, <2>0, <2>5, <3>1
    <3>5. h \notin crossed => ProgressKnown(m)
      <4>1. m.step \notin {"progress row", "progress"}
        BY <3>1
      <4> QED
        BY <1>b, <2>0, <2>5, <3>1, <3>4, <4>1 DEF ProgressKnown
    <3> QED
      BY <1>a, <2>0, <3>1, <3>2, <3>3, <3>5 DEF CourseKnown
  <2>6. CASE "activities" \notin q.of /\ Reads(h, After("activities", ActivityRead))
    <3>1. ProgressKnown(q) /\ "progress" \in q.of \cup {"activities"} =>
            /\ q.row.completed = Cardinality(Done(q.e))
            /\ q.row.completedRequired = Cardinality(RequiredOf(Done(q.e)))
      BY <2>0 DEF ProgressKnown
    <3> QED
      BY <2>2, <2>5, <2>6, <3>1
  <2>7. CASE "progress" \notin q.of /\ Reads(h, After("progress", DoneRead))
    <3>1. ProgressKnown(q) /\ "activities" \in q.of \cup {"progress"} =>
            /\ q.row.total = Cardinality(Live)
            /\ q.row.required = Cardinality(RequiredOf(Live))
      BY <2>0 DEF ProgressKnown
    <3> QED
      BY <2>3, <2>5, <2>7, <3>1
  <2> QED
    BY <2>1, <2>6, <2>7
<1>2. CASE StoreAggregate(h)
  <2> DEFINE share == ShareDone(q.row.completed, q.row.total)
             count == [q.row EXCEPT !.percent = share]
  <2>1. /\ At(h, "aggregate") /\ aggregate' = [aggregate EXCEPT ![q.e] = count] /\ Commit(h)
        /\ UNCHANGED <<meeting, activityType, activity, material, progress>>
    BY <1>2 DEF StoreAggregate
  <2>2. q.step \in LearningSteps /\ q.step = "aggregate"
    BY <2>1 DEF At, LearningSteps
  <2>3. aggregate'[q.e] = count
    BY <1>0, <1>b, <2>1, <2>2 DEF CourseTyped
  <2>4. /\ count.total = q.row.total /\ count.required = q.row.required
        /\ count.completed = q.row.completed
        /\ count.completedRequired = q.row.completedRequired
        /\ count.percent = share
    BY <1>b, <2>2 DEF CountFields
  <2> HIDE DEF count, share
  <2>5. ActivitiesStay /\ CourseTyped'
    BY <1>0, <2>1 DEF CourseTyped, ActivitiesStay, Existing, IsActivity
  <2>6. ASSUME h \notin crossed PROVE Course!Next
    <3>1. /\ q.row.total = Cardinality(Live) /\ q.row.required = Cardinality(RequiredOf(Live))
          /\ q.row.completed = Cardinality(Done(q.e))
          /\ q.row.completedRequired = Cardinality(RequiredOf(Done(q.e)))
      BY <1>b, <2>2, <2>6 DEF ProgressKnown
    <3>2. Course!In("PUBLISHED") = Live
      BY <1>0, PlannedExist DEF Live, ActivityStatus
    <3>3. Done(q.e) = {a \in Live : progress[q.e][a].status = "COMPLETED"}
          /\ RequiredOf(Live) = {a \in Live : activity[a].required}
          /\ RequiredOf(Done(q.e)) = Done(q.e) \cap {a \in Live : activity[a].required}
      BY DEF Done, RequiredOf
    <3>4. IsFiniteSet(Live) /\ Done(q.e) \in SUBSET Live
      <4>1. Live \in SUBSET Activity
        BY DEF Live, Existing
      <4> QED
        BY <4>1, FS_Subset, LearningAssumption DEF Done
    <3>5. /\ Done(q.e) = {} => count.percent = 0
          /\ Done(q.e) = Live /\ Live # {} => count.percent = 100
      BY <2>4, <3>1, <3>4, ShareOfAll DEF share
    <3>6. aggregate' = [aggregate EXCEPT ![q.e] = aggregate'[q.e]]
      BY <2>1, <2>3
    <3>7. /\ count.total = Cardinality(Live) /\ count.completed = Cardinality(Done(q.e))
          /\ count.required = Cardinality({a \in Live : activity[a].required})
          /\ count.completedRequired
               = Cardinality(Done(q.e) \cap {a \in Live : activity[a].required})
      BY <2>4, <3>1, <3>3
    <3> DEFINE all == Course!In("PUBLISHED")
    <3>8. /\ {a \in all : progress[q.e][a].status = "COMPLETED"} = Done(q.e)
          /\ {a \in all : activity[a].required} = RequiredOf(Live)
      BY <3>2, <3>3
    <3>9. \A S : Course!Cardinality(S) = Cardinality(S)
      BY DEF Course!Cardinality, Cardinality
    <3>10. UNCHANGED <<meeting, activityType, activity, material, progress>>
      BY <2>1
    <3> HIDE DEF all
    <3>11. /\ aggregate'[q.e].total = Course!Cardinality(all)
           /\ aggregate'[q.e].completed = Course!Cardinality(Done(q.e))
           /\ aggregate'[q.e].required = Course!Cardinality(RequiredOf(Live))
           /\ aggregate'[q.e].completedRequired
                =  Course!Cardinality(Done(q.e) \cap RequiredOf(Live))
           /\ Done(q.e) = {} => aggregate'[q.e].percent = 0
           /\ Done(q.e) = all /\ all # {} => aggregate'[q.e].percent = 100
      BY <2>3, <3>2, <3>3, <3>5, <3>7, <3>9 DEF all
    <3>12. Course!Summarise(q.e)
      BY <3>6, <3>8, <3>10, <3>11 DEF Course!Summarise, all
    <3> QED
      BY <1>b, <2>2, <3>12 DEF Course!Next
  <2> QED
    BY <2>1, <2>2, <2>5, <2>6, CourseDone
<1> QED
  BY <1>1, <1>2


\* EnrollmentsService changes nothing of the courseware, and crosses whoever has read an
\* enrollment.
LEMMA EnrollmentsKeepCourse ==
    ASSUME Steppable, CourseFine, Undisturbed, NEW h \in Handler, HandleEnrollment(h),
           UNCHANGED learningTables
    PROVE  CourseKept
<1>a. ASSUME NEW m, Reads(h, m), UNCHANGED enrolled, m.step \notin LearningSteps
      PROVE  CourseKept
  BY <1>a, CourseReads DEF CourseKept
<1>b. ASSUME Commit(h) PROVE CourseKept
  <2>1. ActivitiesStay /\ CourseTyped' /\ UNCHANGED Course!vars
    BY DEF CourseFine, CourseTyped, ActivitiesStay, Existing, learningTables, Course!vars
  <2>2. Idle.step \notin LearningSteps
    BY DEF Idle, LearningSteps
  <2>3. CourseHeld(Idle)
    BY <2>2, CourseIgnored
  <2>4. CourseKnown(Idle)'
    BY DEF CourseKnown, CatalogKnown, MaterialKnown, ProgressKnown, Idle, GateSteps, RenewSteps
  <2> QED
    BY <1>b, <2>1, <2>3, <2>4, CourseWritten DEF Commit, CourseKept
<1>c. ASSUME Finish(h), UNCHANGED enrolled PROVE CourseKept
  BY <1>c, CourseEnds
<1>1. CASE BeginEnroll(h)
  <2>1. PICK m : Reads(h, m) /\ m.step = "enroll" /\ UNCHANGED enrolled
    BY <1>1 DEF BeginEnroll, Receive
  <2> QED
    BY <1>a, <2>1 DEF LearningSteps
<1>2. CASE CreateEnrollment(h)
  BY <1>2, <1>b, <1>c DEF CreateEnrollment
<1>3. CASE BeginEnrollmentStatus(h)
  <2>1. PICK m : Reads(h, m) /\ m.step = "enrollment status" /\ UNCHANGED enrolled
    BY <1>3 DEF BeginEnrollmentStatus, Receive
  <2> QED
    BY <1>a, <2>1 DEF LearningSteps
<1>4. CASE SetEnrollmentStatus(h)
  BY <1>4, <1>b DEF SetEnrollmentStatus
<1>5. CASE BeginTransfer(h)
  <2>1. PICK m : Reads(h, m) /\ m.step = "transfer" /\ UNCHANGED enrolled
    BY <1>5 DEF BeginTransfer, Receive
  <2> QED
    BY <1>a, <2>1 DEF LearningSteps
<1>6. CASE Transfer(h)
  BY <1>6, <1>b DEF Transfer
<1> QED
  BY <1>1, <1>2, <1>3, <1>4, <1>5, <1>6 DEF HandleEnrollment

\* Every step of the whole keeps what is known, and if it is not one of a crossed request
\* it is a step of the courseware.
LEMMA CourseStep ==
    ASSUME Steppable, CourseFine, [Next]_vars
    PROVE  CourseKept
<1>0. Undisturbed
  BY NextUndisturbed
<1>1. ASSUME NEW h \in Handler, HandleLearning(h), UNCHANGED enrolled
      PROVE  CourseKept
  BY <1>0, <1>1, MeetingsKept, CreationsKept, ChangesKept, OrderKept, MaterialsKept,
     RenewalsKept, ProgressKept, SummaryKept DEF HandleLearning
<1>2. ASSUME NEW h \in Handler, HandleEnrollment(h), UNCHANGED learningTables
      PROVE  CourseKept
  BY <1>0, <1>2, EnrollmentsKeepCourse
<1>3. ASSUME UNCHANGED <<learningTables, enrolled>>, Unentered(LearningSteps)
      PROVE  CourseKept
  <2>1. ActivitiesStay /\ CourseTyped' /\ UNCHANGED Course!vars
    BY <1>3 DEF CourseFine, CourseTyped, ActivitiesStay, Existing, learningTables, Course!vars
  <2>2. ASSUME NEW g \in Handler
        PROVE  /\ CourseHeld(handler[g])'
               /\ g \notin crossed' => CourseKnown(handler[g])'
    <3>1. CASE handler'[g] = handler[g]
      BY <1>0, <1>3, <2>1, <3>1, CourseStays DEF CourseFine
    <3>2. CASE handler'[g] # handler[g]
      <4>1. PICK m : m = handler'[g]
        OBVIOUS
      <4>2. m.step \notin LearningSteps
        BY <1>3, <3>2, <4>1 DEF Unentered
      <4>3. CourseHeld(m) /\ CourseKnown(m)
        BY <4>2, CourseIgnored
      <4>4. CourseHeld(m)' /\ CourseKnown(m)'
        BY <1>3, <2>1, <4>3, CourseHolds, CourseSame
      <4> QED
        BY <4>1, <4>4
    <3> QED
      BY <3>1, <3>2
  <2> QED
    BY <2>1, <2>2 DEF CourseFine, CourseKept
<1> QED
  BY <1>1, <1>2, <1>3, CoursewareElse

\* Nobody has read anything yet, and what is published has its material.
LEMMA InitCourse == Init => CourseFine /\ Course!Init
<1> SUFFICES ASSUME Init PROVE CourseFine /\ Course!Init
  OBVIOUS
<1>1. LearningInit /\ \A h \in Handler : handler[h] = Idle
  BY DEF Init, RequestsInit
<1>2. PICK place : activity = [a \in Activity |->
            IF "activity" \in calls \/ ("reorder" \notin calls /\ place[a] > 1) THEN NoActivity
            ELSE [status |-> IF "progress" \in calls THEN "PUBLISHED" ELSE "DRAFT",
                  kind |-> CHOOSE k \in ActivityType : TRUE,
                  required |-> place[a] = 1, place |-> place[a]]]
  BY <1>1 DEF LearningInit
<1>3. ASSUME NEW a \in Activity
      PROVE  /\ activity[a] = NoActivity \/ IsActivity(activity[a])
             /\ activity[a].status \in {"none", "DRAFT", "PUBLISHED"}
             /\ activity[a].status = "PUBLISHED" => activity[a] # NoActivity /\ "progress" \in calls
  <2>1. CASE activity[a] = NoActivity
    BY <2>1 DEF NoActivity
  <2>2. CASE activity[a] = [status |-> IF "progress" \in calls THEN "PUBLISHED" ELSE "DRAFT",
                  kind |-> CHOOSE k \in ActivityType : TRUE,
                  required |-> place[a] = 1, place |-> place[a]]
    BY <2>2 DEF IsActivity, ActivityStatus, NoActivity
  <2> QED
    BY <1>2, <2>1, <2>2
<1>4. ASSUME NEW a \in Activity
      PROVE  /\ material[a] \in {<<>>, <<"PUBLISHED">>, <<"DRAFT">>}
             /\ activity[a].status = "PUBLISHED" => material[a] = <<"PUBLISHED">>
  BY <1>1, <1>3 DEF LearningInit
<1>5. ASSUME NEW a \in Activity PROVE \E S : material[a] \in Seq(S)
  <2> DEFINE S == {"PUBLISHED", "DRAFT"}
  <2>1. <<>> \in Seq(S) /\ <<"PUBLISHED">> \in Seq(S) /\ <<"DRAFT">> \in Seq(S)
    OBVIOUS
  <2> HIDE DEF S
  <2> QED
    BY <1>4, <2>1
<1>6. CourseTyped
  BY <1>1, <1>2, <1>3, <1>5 DEF CourseTyped, LearningInit
<1>7. ASSUME NEW h \in Handler PROVE CourseHeld(handler[h]) /\ CourseKnown(handler[h])
  <2>1. Idle.step \notin LearningSteps
    BY DEF Idle, LearningSteps
  <2>2. handler[h].step \notin LearningSteps
    BY <1>1, <2>1
  <2> QED
    BY <2>2, CourseIgnored
<1>8. ASSUME NEW a \in Activity
      PROVE  /\ activity[a].status = "PUBLISHED" => Course!Readable(a) # {}
             /\ Cardinality(Course!Readable(a)) <= 1
  <2>1. /\ Course!Readable(a) \in {{}, {1}}
        /\ material[a] = <<"PUBLISHED">> => Course!Readable(a) = {1}
    <3>1. CASE material[a] = <<>>
      BY <3>1 DEF Course!Readable
    <3>2. CASE material[a] = <<"PUBLISHED">>
      BY <3>2 DEF Course!Readable
    <3>3. CASE material[a] = <<"DRAFT">>
      <4>1. Course!Readable(a) = {}
        BY <3>3 DEF Course!Readable
      <4>2. material[a] # <<"PUBLISHED">>
        BY <3>3
      <4> QED
        BY <4>1, <4>2
    <3> QED
      BY <1>4, <3>1, <3>2, <3>3
  <2>2. Cardinality({}) = 0 /\ Cardinality({1}) = 1
    BY FS_EmptySet, FS_Singleton
  <2>3. activity[a].status = "PUBLISHED" => Course!Readable(a) = {1}
    BY <1>4, <2>1
  <2> QED
    BY <2>1, <2>2, <2>3
<1>9. \A k \in ActivityType : activityType[k].active
  BY <1>1 DEF LearningInit
<1>10. Course!Init
  BY <1>8, <1>9 DEF Course!Init, Course!In, Course!Cardinality, Cardinality
<1> QED
  BY <1>6, <1>7, <1>10 DEF CourseFine

\* The services of the learning catalogue and the progress implement the courseware: in a
\* request that no other one crosses an activity opens with what its type requires, in a
\* meeting that is not archived and at a place of its own, a material has at most one
\* published version, progress is made where it may be, and a summary counts what there is.
THEOREM CoursewareKept == Spec => KeepsCourseware
<1>1. Init => Steppable /\ CourseFine /\ Course!Init
  BY InitSteppable, InitCourse
<1>2. Steppable /\ CourseFine /\ [Next]_vars => Steppable' /\ CourseFine'
  BY StepSteppable, CourseStep DEF CourseKept
<1>3. Steppable /\ CourseFine /\ [Next]_vars
        => [Promised(Course!Next, Course!vars)]_(Course!vars)
  BY CourseStep DEF CourseKept, Promised
<1> QED
  BY <1>1, <1>2, <1>3, PTL DEF Spec, KeepsCourseware

-----------------------------------------------------------------------------
(* KeepsMarkBook *)

\* What marks and final grades are computed from, and they themselves.
bookTables == <<grade, markTables, gradeTables>>

\* Whoever is in flight and stays as it is, is crossed.
AllCrossed == \A g \in InFlight : handler'[g] = handler[g] => g \in crossed'

\* A commit crosses all the others.
LEMMA CommitsAllCrossed ==
    ASSUME Steppable, NEW h \in Handler, NEW m, Commits(h, m), m # handler[h]
    PROVE  AllCrossed
BY DEF Steppable, Commits, AllCrossed, InFlight, At

\* A submission that is graded crosses whoever is in flight.
LEMMA AssessCrosses ==
    ASSUME Steppable, NEW h \in Handler, HandleAssess(h)
    PROVE  UNCHANGED grade \/ AllCrossed
<1>1. CASE UpsertGrade(h)
  <2>1. handler[h].step = "grade"
    BY <1>1 DEF UpsertGrade, At
  <2>2. PICK m : Commits(h, m) /\ (m = Idle \/ m = [handler[h] EXCEPT !.step = "mark"])
    BY <1>1 DEF UpsertGrade, Commit
  <2>3. m.step # "grade"
    <3>1. Idle.step # "grade"
      BY DEF Idle
    <3> QED
      BY <2>2, <3>1 DEF Steppable
  <2> QED
    BY <2>1, <2>2, <2>3, CommitsAllCrossed
<1> QED
  BY <1>1 DEF HandleAssess, BeginGrade, ReadCeiling, Mark, BeginReturn, tables, work

\* What HandleSubmit leaves alone of what it shares with the marks.
LEMMA SubmitsKeepGrades ==
    ASSUME NEW h, HandleSubmit(h)
    PROVE  UNCHANGED grade
BY DEF HandleSubmit, BeginSubmit, FindLatest, CheckLimit, BeginDraft, FindDraft,
       CountFiles, ReadNumber, CreateSubmission, UpdateSubmission, BeginEdit, tables, work

\* What any step of the whole does to marks, schemes and final grades, and to the grades
\* of the work that they draw on.
LEMMA BookElse ==
    ASSUME Steppable, [Next]_vars
    PROVE  \/ \E h \in Handler : \/ HandleMark(h) /\ UNCHANGED <<grade, gradeTables>>
                                 \/ HandleGrade(h) /\ UNCHANGED <<grade, markTables>>
           \/ (\E p \in Examinee : Sit(p)) /\ UNCHANGED <<grade, gradeTables>>
           \/ /\ UNCHANGED <<markTables, gradeTables>> /\ (UNCHANGED grade \/ AllCrossed)
              /\ Unentered(MarksSteps) /\ Unentered(GradesSteps)
<1> DEFINE Kept == UNCHANGED <<markTables, gradeTables>>
           Same == UNCHANGED bookTables
           Away == Unentered(MarksSteps) /\ Unentered(GradesSteps)
           Own(h) == \/ HandleMark(h) /\ UNCHANGED <<grade, gradeTables>>
                     \/ HandleGrade(h) /\ UNCHANGED <<grade, markTables>>
<1>0. MarksSteps \in Parts /\ GradesSteps \in Parts
  BY DEF Parts
<1>1. ASSUME NEW h \in Handler, Operate(h)
      PROVE  Own(h) \/ (Kept /\ (UNCHANGED grade \/ AllCrossed) /\ Away)
  <2>1. \/ Own(h)
        \/ Kept /\ HandleAssess(h)
        \/ Same /\ HandleSubmit(h)
        \/ Same /\ HandleLink(h)
        \/ Same /\ HandleAssignment(h)
        \/ Same /\ HandleFile(h)
        \/ Same /\ HandleAttendance(h)
        \/ Same /\ HandleEnrollment(h)
        \/ Same /\ HandleQuestion(h)
        \/ Same /\ HandleExam(h)
        \/ Same /\ HandleDecision(h)
        \/ Same /\ HandleLearning(h)
        \/ Same /\ HandleOrganization(h)
        \/ Same /\ HandleCalendar(h)
    BY <1>1, SubmitsKeepGrades, LinksKeepWorks, AssignmentsKeepWork
    DEF Operate, CourseworkHandler, HandleSubmission, HandleSetup, bookTables, courseTables,
        tables, work
  <2>2. Same => Kept /\ UNCHANGED grade
    BY DEF bookTables
  <2> HIDE DEF Same, Own, Kept
  <2>3. Own(h) \/ (Kept /\ HandleAssess(h)) \/ (Same /\ Unentered(MarksSteps))
    BY <1>0, <2>1, OthersUnentered, PartsDiffer
  <2>4. Own(h) \/ (Kept /\ HandleAssess(h)) \/ (Same /\ Unentered(GradesSteps))
    BY <1>0, <2>1, OthersUnentered, PartsDiffer
  <2>5. HandleAssess(h) => Away
    BY <1>0, OthersUnentered, PartsDiffer
  <2>6. HandleAssess(h) => UNCHANGED grade \/ AllCrossed
    BY AssessCrosses
  <2> QED
    BY <2>2, <2>3, <2>4, <2>5, <2>6
<1>2. ASSUME NEW h \in Handler, LoseRequest(h)
      PROVE  Same /\ Away
  <2>1. Same
    BY <1>2 DEF LoseRequest, LoseDecision, bookTables, courseTables, tables, work
  <2> QED
    BY <1>0, <1>2, <2>1, LossUnentered
<1>3. ASSUME Outside
      PROVE  \/ Same /\ Away
             \/ (\E p \in Examinee : Sit(p)) /\ UNCHANGED <<grade, gradeTables>>
  <2>1. Away
    BY <1>3, OutsideMoves DEF Unentered
  <2> QED
    BY <1>3, <2>1 DEF Outside, CourseworkOutside, CreateLesson, InitiateUpload, PutObject,
            DecisionsOutside, Evaluate, Supersede, bookTables, courseTables, tables, work
<1>4. ASSUME UNCHANGED vars
      PROVE  Same /\ Away
  BY <1>4 DEF Unentered, vars, requests, bookTables, courseTables, tables, work
<1>5. Same => Kept /\ UNCHANGED grade
  BY DEF bookTables
<1> HIDE DEF Same, Own, Kept, Away
<1>6. \/ \E h \in Handler : Own(h)
      \/ (\E p \in Examinee : Sit(p)) /\ UNCHANGED <<grade, gradeTables>>
      \/ Kept /\ (UNCHANGED grade \/ AllCrossed) /\ Away
  BY <1>1, <1>2, <1>3, <1>4, <1>5 DEF Next
<1> QED
  BY <1>6 DEF Own, Kept, Away

MarkFields       == {"p", "due", "todo", "manual", "seen", "own", "total"}
MarkNumbers      == [auto: Int, manual: Int, final: Int]
ComponentSteps   == {"duplicate", "component"}
CalculationSteps == {"scheme", "submissions", "attempts", "grade row", "store grade"}

\* What a request about marks or final grades holds, whoever crosses it.
BookHeld(q) ==
    /\ q.step \in MarksSteps =>
        /\ MarkFields \subseteq DOMAIN q /\ q.p \in Examinee
        /\ q.due \in [Question -> Nat] /\ q.seen \in [Question -> Int]
        /\ q.own \in [Question -> MarkNumbers] /\ q.todo \subseteq Question
    /\ q.step \in ComponentSteps =>
        /\ {"a", "weight", "required", "sum"} \subseteq DOMAIN q
        /\ q.a \in Assessment /\ q.weight \in Weight /\ q.required \in BOOLEAN
    /\ q.step \in CalculationSteps =>
        /\ {"p", "scheme", "best", "score", "row"} \subseteq DOMAIN q /\ q.p \in Participant
        /\ q.best = [a \in Assessment |-> q.best[a]]
    /\ q.step = "grade status" =>
        /\ {"p", "status", "by"} \subseteq DOMAIN q /\ q.p \in Participant
        /\ \/ q.status = "APPROVED" /\ q.by \in Approver
           \/ q.status = "REOPENED" /\ q.by = NoApprover

\* The transaction q is to mark the answers W, and what is not to do any more is done.
Judged(q, W) ==
    /\ W \subseteq Answered(q.p) /\ q.todo \subseteq W
    /\ IF q.manual THEN \E r \in W : W = {r} /\ q.due[r] <= Points
       ELSE W = Objective \cap Answered(q.p) /\ \A r \in W : q.due[r] = Score(answer[q.p][r])
    /\ \A r \in Question :
            q.own[r] = IF r \in W \ q.todo THEN Upserted(q, r, mark[q.p][r]) ELSE NoMark

\* What a request about marks knows as long as no other one has crossed it.
MarkKnown(q) == q.step \in MarksSteps =>
    /\ q.seen = [r \in Question |-> mark[q.p][r].manual]
    /\ \E W \in SUBSET Question : Judged(q, W)
    /\ q.step = "rescore" => q.todo = {} /\ q.total = Total(Seen(q))

\* What one about schemes and final grades knows.
GradeKnown(q) ==
    /\ q.step \in ComponentSteps => q.sum = Weights(component)
    /\ q.step = "component" => q.sum + q.weight <= 100
    /\ q.step \in CalculationSteps \ {"scheme"} => q.scheme = component
    /\ q.step \in {"attempts", "grade row", "store grade"} =>
            q.best["work"] = Best(WorkScores(q.p), "work")
    /\ q.step \in {"grade row", "store grade"} =>
            /\ q.best["exam"] = Best(ExamScores(q.p), "exam")
            /\ Missing(q.scheme, q.best) = {} /\ q.score = Weighted(q.scheme, q.best)
    /\ q.step = "store grade" => q.row = finalGrade[q.p]
    /\ q.step = "grade status" => IF q.status = "APPROVED" THEN finalGrade[q.p] # NoGrade
                                  ELSE finalGrade[q.p].status = "APPROVED"

BookKnown(q) == MarkKnown(q) /\ GradeKnown(q)

BookTyped ==
    /\ attempt = [p \in Examinee |-> attempt[p]]
    /\ \A p \in Examinee : {"status", "score"} \subseteq DOMAIN attempt[p]
    /\ mark \in [Examinee -> [Question -> MarkNumbers]]
    /\ component \in [Assessment -> [weight: Int, required: BOOLEAN]]

BookFine ==
    /\ BookTyped
    /\ \A h \in Handler : /\ BookHeld(handler[h])
                          /\ h \notin crossed => BookKnown(handler[h])

\* A request that is none of this kind holds and knows nothing of it.
LEMMA BookIgnored ==
    ASSUME NEW q, q.step \notin MarksSteps, q.step \notin GradesSteps
    PROVE  BookHeld(q) /\ BookKnown(q) /\ BookKnown(q)'
BY DEF BookHeld, BookKnown, MarkKnown, GradeKnown, MarksSteps, GradesSteps,
       ComponentSteps, CalculationSteps

LEMMA BookIdle == BookHeld(Idle) /\ BookKnown(Idle) /\ BookKnown(Idle)'
<1>1. Idle.step \notin MarksSteps /\ Idle.step \notin GradesSteps
  BY DEF Idle, MarksSteps, GradesSteps
<1> QED
  BY <1>1, BookIgnored

\* What is known depends on these tables only.
LEMMA BookSame ==
    ASSUME UNCHANGED bookTables, NEW q, BookKnown(q)
    PROVE  BookKnown(q)'
<1>1. /\ grade' = grade /\ attempt' = attempt /\ answer' = answer /\ mark' = mark
      /\ component' = component /\ finalGrade' = finalGrade
  BY DEF bookTables, markTables, gradeTables
<1>2. /\ Answered(q.p)' = Answered(q.p) /\ Seen(q)' = Seen(q)
      /\ \A r, row : Upserted(q, r, row)' = Upserted(q, r, row)
      /\ WorkScores(q.p)' = WorkScores(q.p) /\ ExamScores(q.p)' = ExamScores(q.p)
  BY <1>1 DEF Answered, Seen, Upserted, WorkScores, ExamScores
<1>3. \A W : Judged(q, W) => Judged(q, W)'
  BY <1>1, <1>2 DEF Judged
<1>4. MarkKnown(q)'
  BY <1>1, <1>2, <1>3 DEF BookKnown, MarkKnown
<1>5. GradeKnown(q)'
  BY <1>1, <1>2 DEF BookKnown, GradeKnown
<1> QED
  BY <1>4, <1>5 DEF BookKnown

\* A slot that stays as it is knows no less, if the tables stay or it is crossed.
LEMMA BookStays ==
    ASSUME Undisturbed, NEW g \in Handler, handler'[g] = handler[g],
           BookHeld(handler[g]), g \notin crossed => BookKnown(handler[g]),
           UNCHANGED bookTables \/ g \in crossed' \/ handler[g].step = "idle"
    PROVE  /\ BookHeld(handler[g])'
           /\ g \notin crossed' => BookKnown(handler[g])'
<1>0. BookHeld(handler[g])'
  BY DEF BookHeld
<1>1. CASE handler[g].step = "idle"
  <2>1. "idle" \notin MarksSteps /\ "idle" \notin GradesSteps
    BY DEF MarksSteps, GradesSteps
  <2>2. PICK q : q = handler[g]
    OBVIOUS
  <2>3. BookKnown(q)'
    BY <1>1, <2>1, <2>2, BookIgnored
  <2> QED
    BY <1>0, <2>2, <2>3
<1>2. CASE g \in crossed'
  BY <1>0, <1>2
<1>3. CASE UNCHANGED bookTables /\ g \notin crossed' /\ handler[g].step # "idle"
  <2>1. g \notin crossed
    BY <1>3 DEF Undisturbed, InFlight, At
  <2>2. \A q : BookKnown(q) => BookKnown(q)'
    BY <1>3, BookSame
  <2> QED
    BY <1>0, <2>1, <2>2
<1> QED
  BY <1>1, <1>2, <1>3

\* A step keeps what is known, and unless it is one of a crossed request it is a step of
\* the mark book.
BookKept == BookFine' /\ (Uncrossed => UNCHANGED Marks!vars \/ Marks!Next)

\* A read that leaves the tables as they are and whose slot holds what it knows.
LEMMA BookReads ==
    ASSUME Steppable, BookFine, Undisturbed, NEW h \in Handler, NEW m, Reads(h, m),
           UNCHANGED bookTables,
           m.step \in MarksSteps \cup GradesSteps => BookHeld(m) /\ (h \notin crossed => BookKnown(m))
    PROVE  BookKept
<1>1. ASSUME NEW g \in Handler, g # h
      PROVE  /\ BookHeld(handler[g])'
             /\ g \notin crossed' => BookKnown(handler[g])'
  BY <1>1, BookStays DEF Steppable, Reads, BookFine
<1>2. handler'[h] = m
  BY DEF Steppable, Reads
<1>3. BookHeld(m) /\ (h \notin crossed => BookKnown(m))
  BY BookIgnored
<1>4. h \notin crossed' => BookKnown(m)'
  <2>1. CASE m = Idle
    BY <2>1, BookIdle
  <2>2. CASE m # Idle
    BY <1>3, <2>2, BookSame DEF Reads
  <2> QED
    BY <2>1, <2>2
<1>5. BookTyped' /\ UNCHANGED Marks!vars
  BY DEF BookFine, BookTyped, bookTables, markTables, gradeTables, Marks!vars
<1>6. BookHeld(m)'
  BY <1>3 DEF BookHeld
<1> QED
  BY <1>1, <1>2, <1>4, <1>5, <1>6 DEF BookFine, BookKept

\* A request is answered by nothing.
LEMMA BookEnds ==
    ASSUME Steppable, BookFine, Undisturbed, NEW h \in Handler, Finish(h),
           UNCHANGED bookTables
    PROVE  BookKept
<1>1. Idle.step \notin MarksSteps \cup GradesSteps
  BY DEF Idle, MarksSteps, GradesSteps
<1> QED
  BY <1>1, BookReads DEF Finish

\* A request is answered by its write.
LEMMA BookDone ==
    ASSUME Steppable, BookFine, Undisturbed, NEW h \in Handler, Commit(h),
           handler[h].step # "idle", BookTyped', h \notin crossed => Marks!Next
    PROVE  BookKept
<1>1. ASSUME NEW g \in Handler, g # h
      PROVE  /\ BookHeld(handler[g])'
             /\ g \notin crossed' => BookKnown(handler[g])'
  <2>1. handler'[g] = handler[g] /\ (g \in crossed' \/ handler[g].step = "idle")
    BY <1>1 DEF Steppable, Commit, Commits, InFlight, At
  <2> QED
    BY <1>1, <2>1, BookStays DEF BookFine
<1>2. handler'[h] = Idle
  BY DEF Steppable, Commit, Commits
<1>3. BookHeld(Idle)' /\ BookKnown(Idle)'
  BY BookIdle DEF BookHeld
<1>4. handler[h] # Idle
  BY DEF Idle
<1>5. Uncrossed => h \notin crossed
  BY <1>2, <1>4 DEF Uncrossed
<1> QED
  BY <1>1, <1>2, <1>3, <1>5 DEF BookFine, BookKept

\* The sums of the promise are those of the services.
LEMMA SameSums == ASSUME NEW f PROVE Marks!SumFunction(f) = SumFunction(f)
BY DEF Marks!SumFunction, Marks!SumFunctionOnSet, Marks!FoldFunctionOnSet,
       Marks!MapThenFoldSet, SumFunction, SumFunctionOnSet, FoldFunctionOnSet, MapThenFoldSet

\* A sum of marks, in the words of the promise.
LEMMA SameTotals == ASSUME NEW row PROVE Marks!Sum(row) = Total(row)
BY SameSums DEF Marks!Sum, Total, Marks!NoMark, NoMark

\* What a marking transaction writes is a mark.
LEMMA UpsertedIsMark ==
    ASSUME NEW t, NEW q \in Question, t.due \in [Question -> Nat], t.seen \in [Question -> Int],
           NEW row \in MarkNumbers
    PROVE  Upserted(t, q, row) \in MarkNumbers /\ Upserted(t, q, row) # NoMark
<1> DEFINE x == t.due[q]
           y == IF row # NoMark /\ t.seen[q] # -1 THEN t.seen[q] ELSE t.due[q]
<1>1. x \in Nat /\ x \in Int /\ x # -1 /\ y \in Int
  OBVIOUS
<1>2. Upserted(t, q, row) \in {[row EXCEPT !.manual = x, !.final = x],
                              [row EXCEPT !.auto = x, !.final = y]}
  BY DEF Upserted
<1> HIDE DEF x, y
<1>3. /\ [row EXCEPT !.manual = x, !.final = x] \in MarkNumbers
      /\ [row EXCEPT !.manual = x, !.final = x].manual = x
  BY <1>1 DEF MarkNumbers
<1>4. /\ [row EXCEPT !.auto = x, !.final = y] \in MarkNumbers
      /\ [row EXCEPT !.auto = x, !.final = y].auto = x
  BY <1>1 DEF MarkNumbers
<1>5. NoMark.auto = -1 /\ NoMark.manual = -1
  BY DEF NoMark
<1> QED
  BY <1>1, <1>2, <1>3, <1>4, <1>5

\* A transaction that begins knows what it has read.
LEMMA MarkingBegins ==
    ASSUME Steppable, BookFine, Undisturbed, NEW h \in Handler, UNCHANGED bookTables,
           NEW p \in Examinee, NEW due \in [Question -> Nat], NEW W \in SUBSET Answered(p),
           NEW manual \in BOOLEAN,
           manual => \E r \in W : W = {r} /\ due[r] <= Points,
           ~manual => W = Objective \cap Answered(p) /\ \A r \in W : due[r] = Score(answer[p][r]),
           Reads(h, Marking(p, due, W, manual))
    PROVE  BookKept
<1> DEFINE m == Marking(p, due, W, manual)
<1>1. /\ m.step = "mark answers" /\ m.p = p /\ m.due = due /\ m.todo = W /\ m.manual = manual
      /\ m.seen = [q \in Question |-> mark[p][q].manual]
      /\ m.own = [q \in Question |-> NoMark] /\ MarkFields \subseteq DOMAIN m
  BY DEF Marking, MarkFields
<1>2. Reads(h, m)
  OBVIOUS
<1> HIDE DEF m
<1>3. W \subseteq Question
  BY DEF Answered
<1>4. NoMark \in MarkNumbers
  BY DEF NoMark, MarkNumbers
<1>5. \A q \in Question : mark[p][q].manual \in Int
  BY DEF BookFine, BookTyped, MarkNumbers
<1>6. m.step \in MarksSteps /\ m.step \notin GradesSteps /\ m.step # "rescore"
  BY <1>1 DEF MarksSteps, GradesSteps
<1>7. BookHeld(m)
  BY <1>1, <1>3, <1>4, <1>5, <1>6
  DEF BookHeld, GradesSteps, ComponentSteps, CalculationSteps
<1>8. Judged(m, W)
  BY <1>1 DEF Judged
<1>9. BookKnown(m)
  BY <1>1, <1>3, <1>6, <1>8
  DEF BookKnown, MarkKnown, GradeKnown, GradesSteps, ComponentSteps, CalculationSteps
<1> QED
  BY <1>2, <1>7, <1>9, BookReads

\* What an uncrossed transaction commits is what the scoring rule or the grader has given,
\* with a manual mark before an automatic one.
LEMMA MarksCommitted ==
    ASSUME BookTyped, NEW t, t.step = "rescore", BookHeld(t), MarkKnown(t), UNCHANGED gradeTables,
           mark' = [mark EXCEPT ![t.p] = Seen(t)],
           attempt' = [attempt EXCEPT ![t.p].score = t.total]
    PROVE  Marks!Next
<1> DEFINE who == t.p
<1>0. /\ who \in Examinee /\ t.due \in [Question -> Nat] /\ t.seen \in [Question -> Int]
      /\ t.seen = [r \in Question |-> mark[who][r].manual]
      /\ t.todo = {} /\ t.total = Total(Seen(t))
  BY DEF BookHeld, MarkKnown, MarksSteps
<1>1. PICK W \in SUBSET Question : Judged(t, W)
  BY DEF MarkKnown, MarksSteps
<1>2. /\ mark[who] \in [Question -> MarkNumbers]
      /\ \A r \in Question : mark[who][r] \in MarkNumbers
  BY <1>0 DEF BookTyped
<1>3. \A r \in Question : t.own[r] = IF r \in W THEN Upserted(t, r, mark[who][r]) ELSE NoMark
  BY <1>0, <1>1 DEF Judged
<1>4. \A r \in Question : Upserted(t, r, mark[who][r]) # NoMark
  BY <1>0, <1>2, UpsertedIsMark
<1>5. Seen(t) = [r \in Question |-> IF r \in W THEN Upserted(t, r, mark[who][r]) ELSE mark[who][r]]
  BY <1>3, <1>4 DEF Seen
<1>6. mark'[who] = Seen(t)
  BY <1>0 DEF BookTyped
<1>7. [x \in Examinee |-> attempt'[x].score] =
        [[x \in Examinee |-> attempt[x].score] EXCEPT ![who] = Marks!Sum(mark'[who])]
  <2>1. Marks!Sum(mark'[who]) = t.total
    BY <1>0, <1>6, SameTotals
  <2>2. \A x \in Examinee :
            attempt'[x].score = IF x = who THEN t.total ELSE attempt[x].score
    BY <1>0 DEF BookTyped
  <2>3. PICK old : old = [x \in Examinee |-> attempt[x].score]
    OBVIOUS
  <2>4. [x \in Examinee |-> attempt'[x].score] = [old EXCEPT ![who] = t.total]
    BY <1>0, <2>2, <2>3
  <2> QED
    BY <2>1, <2>3, <2>4
<1>9. CASE t.manual
  <2>1. PICK q \in W : W = {q} /\ t.due[q] <= Points
    BY <1>1, <1>9 DEF Judged
  <2>2. q \in Answered(who) /\ t.due[q] \in 0 .. Points
    BY <1>0, <1>1, <2>1, GradingAssumption DEF Judged
  <2> DEFINE x     == t.due[q]
             marks == [r \in {q} |-> Marks!ByHand(mark[who][q], x)]
  <2>3. DOMAIN marks = W /\ \A r \in W : marks[r] = Upserted(t, r, mark[who][r])
    BY <1>9, <2>1 DEF Upserted, Marks!ByHand
  <2> HIDE DEF marks
  <2>4. Seen(t) = [r \in Question |-> IF r \in DOMAIN marks THEN marks[r] ELSE mark[who][r]]
    BY <1>5, <2>3
  <2>5. Marks!Rewrite(who, marks)
    BY <1>7, <2>4 DEF Marks!Rewrite, gradeTables
  <2>6. q \in DOMAIN [y \in Examinee |-> [r \in Answered(y) |-> Score(answer[y][r])]][who]
    BY <1>0, <2>2
  <2>7. x \in 0 .. Points
    BY <2>2
  <2> HIDE DEF x
  <2>8. Marks!ManualGrade(who)
    BY <2>5, <2>6, <2>7, Zenon DEF Marks!ManualGrade, marks
  <2> QED
    BY <1>0, <2>8 DEF Marks!Next
<1>10. CASE ~t.manual
  <2>1. W = Objective \cap Answered(who) /\ \A r \in W : t.due[r] = Score(answer[who][r])
    BY <1>1, <1>10 DEF Judged
  <2> DEFINE due   == [r \in Answered(who) |-> Score(answer[who][r])]
             marks == [r \in Objective \cap DOMAIN due |-> Marks!ByRule(mark[who][r], due[r])]
  <2>2. ASSUME NEW r \in W PROVE marks[r] = Upserted(t, r, mark[who][r])
    <3>1. due[r] = t.due[r] /\ r \in Question /\ r \in Objective \cap DOMAIN due
      BY <2>1, <2>2
    <3>2. t.seen[r] = mark[who][r].manual
      BY <1>0, <3>1
    <3>3. mark[who][r] = NoMark => mark[who][r].manual = -1
      BY DEF NoMark
    <3>4. (IF mark[who][r] # NoMark /\ t.seen[r] # -1 THEN t.seen[r] ELSE t.due[r])
            = (IF mark[who][r].manual = -1 THEN due[r] ELSE mark[who][r].manual)
      BY <3>1, <3>2, <3>3
    <3>5. marks[r] = Marks!ByRule(mark[who][r], due[r])
      BY <3>1
    <3> QED
      BY <1>10, <3>1, <3>4, <3>5 DEF Upserted, Marks!ByRule
  <2>3. DOMAIN marks = W
    BY <2>1
  <2> DEFINE all  == [p \in Examinee |-> [q \in Answered(p) |-> Score(answer[p][q])]]
             auto == [q \in Objective \cap DOMAIN all[who] |-> Marks!ByRule(mark[who][q], all[who][q])]
  <2>4. auto = marks
    <3>1. all[who] = due
      BY <1>0
    <3> HIDE DEF all, due
    <3> QED
      BY <3>1
  <2> HIDE DEF marks, auto
  <2>5. Seen(t) = [r \in Question |-> IF r \in DOMAIN auto THEN auto[r] ELSE mark[who][r]]
    BY <1>5, <2>2, <2>3, <2>4
  <2>6. Marks!Rewrite(who, auto)
    BY <1>7, <2>5 DEF Marks!Rewrite, gradeTables
  <2>7. Marks!AutoGrade(who)
    BY <2>6, Zenon DEF Marks!AutoGrade, auto
  <2> QED
    BY <1>0, <2>7 DEF Marks!Next
<1> QED
  BY <1>9, <1>10

\* Marking, as one or the other of its queries.
LEMMA MarksKept ==
    ASSUME Steppable, BookFine, Undisturbed, NEW h \in Handler, HandleMark(h),
           UNCHANGED <<grade, gradeTables>>
    PROVE  BookKept
<1> DEFINE t == handler[h]
<1>0. /\ BookTyped /\ BookHeld(t) /\ (h \notin crossed => BookKnown(t))
      /\ "step" \in DOMAIN t
  BY DEF BookFine, Steppable
<1>a. ASSUME UNCHANGED markTables PROVE UNCHANGED bookTables
  BY <1>a DEF bookTables
<1>1. CASE BeginAutoGrade(h)
  <2>1. PICK p \in Examinee : Reads(h, Marking(p, [q \in Question |-> Score(answer[p][q])],
                                             Objective \cap Answered(p), FALSE))
    BY <1>1 DEF BeginAutoGrade, Receive
  <2>2. [q \in Question |-> Score(answer[p][q])] \in [Question -> Nat]
    BY GradingAssumption DEF Score
  <2>3. UNCHANGED bookTables
    BY <1>1, <1>a DEF BeginAutoGrade
  <2>4. \A r \in Objective \cap Answered(p) :
            [q \in Question |-> Score(answer[p][q])][r] = Score(answer[p][r])
    BY DEF Answered
  <2> QED
    BY <2>1, <2>2, <2>3, <2>4, MarkingBegins
<1>2. CASE BeginManualGrade(h)
  <2>1. PICK p \in Examinee, x \in 0 .. Points : \E q \in Answered(p) :
            Reads(h, Marking(p, [r \in Question |-> x], {q}, TRUE))
    BY <1>2 DEF BeginManualGrade, Receive
  <2>2. PICK q \in Answered(p) : Reads(h, Marking(p, [r \in Question |-> x], {q}, TRUE))
    BY <2>1
  <2>3. UNCHANGED bookTables
    BY <1>2, <1>a DEF BeginManualGrade
  <2>4. /\ [r \in Question |-> x] \in [Question -> Nat]
        /\ q \in {q} /\ [r \in Question |-> x][q] <= Points
    BY GradingAssumption DEF Answered
  <2> QED
    BY <2>2, <2>3, <2>4, MarkingBegins
<1>3. CASE UpsertMark(h)
  <2>1. PICK q \in t.todo : Reads(h, [t EXCEPT !.todo = @ \ {q},
                                  !.own[q] = Upserted(t, q, mark[t.p][q])])
    BY <1>3 DEF UpsertMark
  <2>10. PICK new : new = Upserted(t, q, mark[t.p][q])
    OBVIOUS
  <2>2. t.step = "mark answers" /\ t.step \in MarksSteps /\ t.step \notin GradesSteps
    BY <1>3 DEF UpsertMark, At, MarksSteps, GradesSteps
  <2>3. /\ MarkFields \subseteq DOMAIN t /\ t.p \in Examinee
        /\ t.due \in [Question -> Nat] /\ t.seen \in [Question -> Int]
        /\ t.own \in [Question -> MarkNumbers] /\ t.todo \subseteq Question
    BY <1>0, <2>2 DEF BookHeld
  <2>4. PICK m : /\ m = [t EXCEPT !.todo = @ \ {q}, !.own[q] = new]
                 /\ Reads(h, m)
    BY <2>1, <2>10
  <2>5. /\ m.step = "mark answers" /\ m.p = t.p /\ m.due = t.due /\ m.seen = t.seen
        /\ m.manual = t.manual /\ m.todo = t.todo \ {q} /\ m.own = [t.own EXCEPT ![q] = new]
        /\ MarkFields \subseteq DOMAIN m
    BY <1>0, <2>2, <2>3, <2>4 DEF MarkFields
  <2>11. m.p = t.p /\ m.todo = t.todo \ {q} /\ m.own[q] = new
         /\ \A r \in Question : r # q => m.own[r] = t.own[r]
    BY <2>3, <2>5
  <2>6. new \in MarkNumbers
    <3>1. mark[t.p][q] \in MarkNumbers
      BY <1>0, <2>3 DEF BookTyped
    <3> QED
      BY <2>3, <2>10, <3>1, UpsertedIsMark
  <2>7. BookHeld(m)
    BY <2>2, <2>3, <2>5, <2>6
    DEF BookHeld, MarksSteps, GradesSteps, ComponentSteps, CalculationSteps
  <2>8. ASSUME h \notin crossed PROVE BookKnown(m)
    <3>1. /\ t.seen = [r \in Question |-> mark[t.p][r].manual]
          /\ \E W \in SUBSET Question : Judged(t, W)
      BY <1>0, <2>2, <2>8 DEF BookKnown, MarkKnown
    <3>2. PICK W \in SUBSET Question : Judged(t, W)
      BY <3>1
    <3>3. \A r, row : Upserted(m, r, row) = Upserted(t, r, row)
      BY <2>5 DEF Upserted
    <3>4. q \in W
      BY <3>2 DEF Judged
    <3>5. ASSUME NEW r \in Question
          PROVE  m.own[r] = IF r \in W \ m.todo THEN Upserted(m, r, mark[m.p][r]) ELSE NoMark
      <4>1. t.own[r] = IF r \in W \ t.todo THEN Upserted(t, r, mark[t.p][r]) ELSE NoMark
        BY <3>2 DEF Judged
      <4>2. CASE r = q
        <5>1. m.own[q] = Upserted(m, q, mark[m.p][q])
          BY <2>10, <2>11, <3>3
        <5>2. q \in W \ m.todo
          BY <2>11, <3>4
        <5> QED
          BY <4>2, <5>1, <5>2
      <4>3. CASE r # q
        BY <2>11, <3>3, <4>1, <4>3
      <4> QED
        BY <4>2, <4>3
    <3>6. Judged(m, W)
      BY <2>5, <3>2, <3>5 DEF Judged
    <3> QED
      BY <2>5, <3>1, <3>6
      DEF BookKnown, MarkKnown, GradeKnown, GradesSteps, ComponentSteps, CalculationSteps
  <2>9. UNCHANGED bookTables
    BY <1>3, <1>a DEF UpsertMark
  <2> QED
    BY <2>4, <2>7, <2>8, <2>9, BookReads
<1>4. CASE SumMarks(h)
  <2>2. /\ t.step = "mark answers" /\ t.step \in MarksSteps /\ t.step \notin GradesSteps
        /\ t.todo = {} /\ UNCHANGED bookTables
    BY <1>4, <1>a DEF SumMarks, At, MarksSteps, GradesSteps
  <2>3. /\ MarkFields \subseteq DOMAIN t /\ t.p \in Examinee
        /\ t.due \in [Question -> Nat] /\ t.seen \in [Question -> Int]
        /\ t.own \in [Question -> MarkNumbers] /\ t.todo \subseteq Question
    BY <1>0, <2>2 DEF BookHeld
  <2>4. PICK m : /\ m = [t EXCEPT !.step = "rescore", !.total = Total(Seen(t))]
                 /\ Reads(h, m)
    BY <1>4 DEF SumMarks
  <2>5. /\ m.step = "rescore" /\ m.p = t.p /\ m.due = t.due /\ m.seen = t.seen
        /\ m.manual = t.manual /\ m.todo = t.todo /\ m.own = t.own
        /\ m.total = Total(Seen(t)) /\ MarkFields \subseteq DOMAIN m
    BY <1>0, <2>2, <2>3, <2>4 DEF MarkFields
  <2>6. "rescore" \in MarksSteps /\ "rescore" \notin GradesSteps
    BY DEF MarksSteps, GradesSteps
  <2>7. BookHeld(m)
    BY <2>3, <2>5, <2>6 DEF BookHeld, GradesSteps, ComponentSteps, CalculationSteps
  <2>8. ASSUME h \notin crossed PROVE BookKnown(m)
    <3>1. /\ t.seen = [r \in Question |-> mark[t.p][r].manual]
          /\ \E W \in SUBSET Question : Judged(t, W)
      BY <1>0, <2>2, <2>8 DEF BookKnown, MarkKnown
    <3>2. /\ Seen(m) = Seen(t)
          /\ \A r, row : Upserted(m, r, row) = Upserted(t, r, row)
      BY <2>5 DEF Seen, Upserted
    <3>3. \A W : Judged(t, W) => Judged(m, W)
      BY <2>5, <3>2 DEF Judged
    <3> QED
      BY <2>2, <2>5, <2>6, <3>1, <3>2, <3>3
      DEF BookKnown, MarkKnown, GradeKnown, GradesSteps, ComponentSteps, CalculationSteps
  <2> QED
    BY <2>2, <2>4, <2>7, <2>8, BookReads
<1>5. CASE CommitMarks(h)
  <2>1. /\ t.step = "rescore" /\ t.step \in MarksSteps /\ Commit(h)
        /\ mark' = [mark EXCEPT ![t.p] = Seen(t)]
        /\ attempt' = [attempt EXCEPT ![t.p].score = t.total]
    BY <1>5 DEF CommitMarks, At, MarksSteps
  <2>2. /\ t.p \in Examinee /\ t.own \in [Question -> MarkNumbers]
    BY <1>0, <2>1 DEF BookHeld
  <2>3. Seen(t) \in [Question -> MarkNumbers]
    BY <1>0, <2>2 DEF Seen, BookTyped
  <2>4. BookTyped'
    <3>1. mark' \in [Examinee -> [Question -> MarkNumbers]]
      BY <1>0, <2>1, <2>2, <2>3 DEF BookTyped
    <3>2. /\ attempt' = [p \in Examinee |-> attempt'[p]]
          /\ \A p \in Examinee : {"status", "score"} \subseteq DOMAIN attempt'[p]
      BY <1>0, <2>1, <2>2 DEF BookTyped
    <3> QED
      BY <1>0, <3>1, <3>2 DEF BookTyped, gradeTables
  <2>5. h \notin crossed => Marks!Next
    BY <1>0, <2>1, MarksCommitted DEF BookKnown
  <2>6. t.step # "idle"
    BY <2>1
  <2> QED
    BY <2>1, <2>4, <2>5, <2>6, BookDone
<1> QED
  BY <1>1, <1>2, <1>3, <1>4, <1>5 DEF HandleMark

\* Weights are integers, and so are their sums.
LEMMA WeightsAreIntegers ==
    /\ \A w \in Weight : w \in Int
    /\ IsFiniteSet(Assessment)
    /\ BookTyped => Weights(component) \in Int
<1>1. \A w \in Weight : w \in Int
  BY FinalGradesAssumption
<1>2. IsFiniteSet(Assessment)
  <2>1. IsFiniteSet({"work"} \cup {"exam"})
    BY FS_Singleton, FS_Union
  <2> QED
    BY <2>1 DEF Assessment
<1>3. ASSUME BookTyped PROVE Weights(component) \in Int
  <2>1. [a \in Assessment |-> component[a].weight] \in [Assessment -> Int]
    BY <1>3 DEF BookTyped
  <2> QED
    BY <1>2, <2>1, SumIsInteger DEF Weights
<1> QED
  BY <1>1, <1>2, <1>3

\* A component that is within the rest of 100 percent joins the scheme.
LEMMA SchemeGrows ==
    ASSUME BookTyped, UNCHANGED <<grade, markTables, finalGrade>>,
           NEW a \in Assessment, NEW w \in Weight, NEW r \in BOOLEAN,
           component[a] = NoComponent, Weights(component) + w <= 100,
           component' = [component EXCEPT ![a] = [weight |-> w, required |-> r]]
    PROVE  Marks!Next
<1> DEFINE f == [b \in Assessment |-> component[b].weight]
           e == [b \in Marks!Assessment |-> component'[b].weight]
<1>1. f \in [Assessment -> Int] /\ f[a] = 0
  BY DEF BookTyped, NoComponent
<1>2. w \in Int
  BY WeightsAreIntegers
<1>3. IsFiniteSet(Assessment)
  BY WeightsAreIntegers
<1>4. e = [f EXCEPT ![a] = w]
  <2>1. \A b \in Assessment : component'[b].weight = IF b = a THEN w ELSE component[b].weight
    BY DEF BookTyped
  <2> QED
    BY <2>1 DEF Marks!Assessment, Assessment
<1>5. Weights(component) = SumFunction(f)
  BY DEF Weights
<1> HIDE DEF e, f
<1>6. SumFunction(f) \in Int
  BY <1>1, <1>3, SumIsInteger
<1>7. SumFunction([f EXCEPT ![a] = w]) = SumFunction(f) + w - f[a]
  BY <1>1, <1>2, <1>3, SumOfChanged
<1>8. Marks!SumFunction(e) <= 100
  <2>1. Marks!SumFunction(e) = SumFunction(e)
    BY SameSums
  <2> QED
    BY <1>1, <1>2, <1>4, <1>5, <1>6, <1>7, <2>1
<1>9. Marks!AddComponent(a)
  <2>1. UNCHANGED <<mark, [p \in Examinee |-> attempt[p].score], finalGrade>>
    BY DEF markTables
  <2>2. component[a] = Marks!None
    BY DEF NoComponent, Marks!None
  <2> QED
    BY <1>8, <2>1, <2>2 DEF Marks!AddComponent, e
<1> QED
  BY <1>9 DEF Marks!Next, Marks!Assessment, Assessment

\* A grade is computed from the scheme and the best results that are on record.
LEMMA GradeComputed ==
    ASSUME BookTyped, GradesSigned, UNCHANGED <<grade, markTables, component>>,
           NEW p \in Participant, NEW b,
           b["work"] = Best(WorkScores(p), "work"), b["exam"] = Best(ExamScores(p), "exam"),
           Missing(component, b) = {},
           finalGrade' = [finalGrade EXCEPT ![p] =
                                Renewed(finalGrade[p], Weighted(component, b))]
    PROVE  Marks!Next
<1> DEFINE all == [x \in Participant |->
                        [work |-> Best(WorkScores(x), "work"), exam |-> Best(ExamScores(x), "exam")]]
           S   == {a \in Marks!Assessment : component[a] # Marks!None}
           f   == [a \in S |-> IF all[p][a] = -1 THEN 0 ELSE all[p][a] * component[a].weight]
           g   == [a \in Weighed(component) |-> IF b[a] = -1 THEN 0 ELSE b[a] * component[a].weight]
<1>1. S = Weighed(component)
  BY DEF Weighed, Marks!Assessment, Assessment, Marks!None, NoComponent
<1>2. \A a \in S : all[p][a] = b[a]
  BY DEF Marks!Assessment
<1>3. f = g
  BY <1>1, <1>2
<1>4. \A a \in S : component[a].required => all[p][a] # -1
  BY <1>1, <1>2 DEF Missing
<1>5. Weighted(component, b) = SumFunction(g)
  BY DEF Weighted
<1> DEFINE x == Marks!SumFunction(f)
<1>6. Weighted(component, b) = x
  BY <1>3, <1>5, SameSums
<1> HIDE DEF g
<1>7. finalGrade' = [finalGrade EXCEPT ![p].score = x,
                            ![p].status = IF @ = "APPROVED" THEN @ ELSE "CALCULATED"]
  <2> HIDE DEF x
  <2>1. /\ finalGrade = [y \in Participant |-> finalGrade[y]]
        /\ {"status", "score", "by"} \subseteq DOMAIN finalGrade[p]
    BY DEF GradesSigned, Signed
  <2>2. finalGrade' = [finalGrade EXCEPT ![p] = Renewed(finalGrade[p], x)]
    BY <1>6
  <2> QED
    BY <2>1, <2>2 DEF Renewed
<1>8. UNCHANGED <<mark, [y \in Examinee |-> attempt[y].score], component>>
  BY DEF markTables
<1>9. Marks!Calculate(p)
  BY <1>4, <1>7, <1>8, Zenon DEF Marks!Calculate
<1> QED
  BY <1>9 DEF Marks!Next

\* Schemes and final grades, as one or the other of their queries.
LEMMA GradesKept ==
    ASSUME Steppable, GradesSigned, BookFine, Undisturbed, NEW h \in Handler, HandleGrade(h),
           UNCHANGED <<grade, markTables>>
    PROVE  BookKept
<1> DEFINE q == handler[h]
<1>0. BookTyped /\ BookHeld(q) /\ (h \notin crossed => BookKnown(q)) /\ "step" \in DOMAIN q
  BY DEF BookFine, Steppable
<1>a. ASSUME UNCHANGED gradeTables PROVE UNCHANGED bookTables
  BY <1>a DEF bookTables
<1>b. \A m : m.step \in GradesSteps => m.step \notin MarksSteps
  BY DEF GradesSteps, MarksSteps
<1>1. CASE BeginComponent(h)
  <2>0. PICK a \in Assessment, w \in Weight, r \in BOOLEAN :
            Reads(h, [step |-> "duplicate", a |-> a, weight |-> w, required |-> r,
                      sum |-> Weights(component)])
    BY <1>1 DEF BeginComponent, Receive
  <2>1. PICK m : /\ m = [step |-> "duplicate", a |-> a, weight |-> w, required |-> r,
                         sum |-> Weights(component)]
                 /\ Reads(h, m)
    BY <2>0
  <2>2. m.step = "duplicate" /\ "duplicate" \in GradesSteps
    BY <2>1 DEF GradesSteps
  <2>3. BookHeld(m)
    BY <1>b, <2>1, <2>2 DEF BookHeld, ComponentSteps, CalculationSteps
  <2>4. BookKnown(m)
    BY <1>b, <2>1, <2>2 DEF BookKnown, MarkKnown, GradeKnown, ComponentSteps, CalculationSteps
  <2>5. UNCHANGED bookTables
    BY <1>1, <1>a DEF BeginComponent
  <2> QED
    BY <2>1, <2>3, <2>4, <2>5, BookReads
<1>2. CASE CheckComponent(h)
  <2>1. UNCHANGED bookTables /\ q.step = "duplicate"
    BY <1>2, <1>a DEF CheckComponent, At
  <2>2. CASE Finish(h)
    BY <2>1, <2>2, BookEnds
  <2>3. CASE Goto(h, "component") /\ ~(component[q.a] # NoComponent \/ q.sum + q.weight > 100)
    <3>1. PICK m : m = [q EXCEPT !.step = "component"] /\ Reads(h, m)
      BY <2>3 DEF Goto
    <3>2. /\ {"a", "weight", "required", "sum"} \subseteq DOMAIN q
          /\ q.a \in Assessment /\ q.weight \in Weight /\ q.required \in BOOLEAN
      BY <1>0, <2>1 DEF BookHeld, ComponentSteps
    <3>3. /\ m.step = "component" /\ m.a = q.a /\ m.weight = q.weight
          /\ m.required = q.required /\ m.sum = q.sum
          /\ {"a", "weight", "required", "sum"} \subseteq DOMAIN m
      BY <1>0, <3>1, <3>2
    <3>4. "component" \in GradesSteps
      BY DEF GradesSteps
    <3>5. BookHeld(m)
      BY <1>b, <3>2, <3>3, <3>4 DEF BookHeld, ComponentSteps, CalculationSteps
    <3>6. ASSUME h \notin crossed PROVE BookKnown(m)
      <4>1. q.sum = Weights(component)
        BY <1>0, <2>1, <3>6 DEF BookKnown, GradeKnown, ComponentSteps
      <4>2. q.sum \in Int /\ q.weight \in Int
        BY <1>0, <3>2, <4>1, WeightsAreIntegers
      <4> QED
        BY <1>b, <2>3, <3>3, <3>4, <4>1, <4>2
        DEF BookKnown, MarkKnown, GradeKnown, ComponentSteps, CalculationSteps
    <3> QED
      BY <2>1, <3>1, <3>5, <3>6, BookReads
  <2> QED
    BY <1>2, <2>2, <2>3 DEF CheckComponent
<1>3. CASE CreateComponent(h)
  <2>1. q.step = "component" /\ UNCHANGED finalGrade
    BY <1>3 DEF CreateComponent, At
  <2>2. CASE Finish(h) /\ UNCHANGED component
    BY <2>1, <2>2, <1>a, BookEnds DEF gradeTables
  <2>3. CASE /\ component[q.a] = NoComponent /\ Commit(h)
             /\ component' = [component EXCEPT ![q.a] =
                                    [weight |-> q.weight, required |-> q.required]]
    <3>1. q.a \in Assessment /\ q.weight \in Weight /\ q.required \in BOOLEAN
      BY <1>0, <2>1 DEF BookHeld, ComponentSteps
    <3>2. BookTyped'
      <4>1. q.weight \in Int
        BY <3>1, WeightsAreIntegers
      <4>2. component' \in [Assessment -> [weight: Int, required: BOOLEAN]]
        BY <1>0, <2>3, <3>1, <4>1 DEF BookTyped
      <4> QED
        BY <1>0, <4>2 DEF BookTyped, markTables
    <3>3. h \notin crossed => Marks!Next
      <4>1. h \notin crossed => Weights(component) + q.weight <= 100
        BY <1>0, <2>1 DEF BookKnown, GradeKnown, ComponentSteps
      <4> QED
        BY <1>0, <2>1, <2>3, <3>1, <4>1, SchemeGrows
    <3>4. q.step # "idle"
      BY <2>1
    <3> QED
      BY <2>3, <3>2, <3>3, <3>4, BookDone
  <2> QED
    BY <1>3, <2>2, <2>3 DEF CreateComponent
<1>4. ASSUME NEW p \in Participant, NEW s \in {"submissions", "scheme"},
             Reads(h, Calculating(p, s)), UNCHANGED gradeTables
      PROVE  BookKept
  <2>1. PICK m : m = Calculating(p, s) /\ Reads(h, m)
    BY <1>4
  <2>2. /\ m.step = s /\ m.p = p /\ m.scheme = component
        /\ m.best = [a \in Assessment |-> -1]
        /\ {"p", "scheme", "best", "score", "row"} \subseteq DOMAIN m
    BY <2>1 DEF Calculating
  <2>3. s \in GradesSteps
    BY <1>4 DEF GradesSteps
  <2>4. BookHeld(m)
    BY <1>4, <1>b, <2>2, <2>3 DEF BookHeld, ComponentSteps, CalculationSteps
  <2>5. BookKnown(m)
    BY <1>4, <1>b, <2>2, <2>3 DEF BookKnown, MarkKnown, GradeKnown, ComponentSteps, CalculationSteps
  <2> QED
    BY <1>4, <1>a, <2>1, <2>4, <2>5, BookReads
<1>5. CASE BeginCalculate(h)
  BY <1>4, <1>5 DEF BeginCalculate, Receive
<1>6. CASE BeginRecalculate(h)
  BY <1>4, <1>6 DEF BeginRecalculate, Receive
<1>c. ASSUME q.step \in CalculationSteps
      PROVE  /\ {"p", "scheme", "best", "score", "row"} \subseteq DOMAIN q /\ q.p \in Participant
             /\ q.best = [a \in Assessment |-> q.best[a]]
  BY <1>0, <1>c DEF BookHeld
<1>7. CASE ReadScheme(h)
  <2>1. UNCHANGED bookTables /\ q.step = "scheme" /\ q.step \in CalculationSteps
    BY <1>7, <1>a DEF ReadScheme, At, CalculationSteps
  <2>2. PICK m : m = [q EXCEPT !.scheme = component, !.step = "submissions"] /\ Reads(h, m)
    BY <1>7 DEF ReadScheme
  <2>3. /\ m.step = "submissions" /\ m.p = q.p /\ m.best = q.best /\ m.scheme = component
        /\ {"p", "scheme", "best", "score", "row"} \subseteq DOMAIN m
    BY <1>0, <1>c, <2>1, <2>2
  <2>4. "submissions" \in GradesSteps
    BY DEF GradesSteps
  <2>5. BookHeld(m)
    BY <1>b, <1>c, <2>1, <2>3, <2>4 DEF BookHeld, ComponentSteps, CalculationSteps
  <2>6. BookKnown(m)
    BY <1>b, <2>3, <2>4 DEF BookKnown, MarkKnown, GradeKnown, ComponentSteps, CalculationSteps
  <2> QED
    BY <2>1, <2>2, <2>5, <2>6, BookReads
<1>8. CASE ReadSubmissions(h)
  <2>1. UNCHANGED bookTables /\ q.step = "submissions" /\ q.step \in CalculationSteps
    BY <1>8, <1>a DEF ReadSubmissions, At, CalculationSteps
  <2>2. PICK x : x = Best(WorkScores(q.p), "work")
    OBVIOUS
  <2>3. PICK m : m = [q EXCEPT !.step = "attempts", !.best["work"] = x] /\ Reads(h, m)
    BY <1>8, <2>2 DEF ReadSubmissions
  <2>4. /\ m.step = "attempts" /\ m.p = q.p /\ m.scheme = q.scheme
        /\ m.best = [q.best EXCEPT !["work"] = x]
        /\ {"p", "scheme", "best", "score", "row"} \subseteq DOMAIN m
    BY <1>0, <1>c, <2>1, <2>3
  <2>5. m.best["work"] = x /\ m.best = [a \in Assessment |-> m.best[a]]
    BY <1>c, <2>1, <2>4 DEF Assessment
  <2>6. "attempts" \in GradesSteps
    BY DEF GradesSteps
  <2>7. BookHeld(m)
    BY <1>b, <1>c, <2>1, <2>4, <2>5, <2>6 DEF BookHeld, ComponentSteps, CalculationSteps
  <2>8. ASSUME h \notin crossed PROVE BookKnown(m)
    <3>1. q.scheme = component
      BY <1>0, <2>1, <2>8 DEF BookKnown, GradeKnown
    <3> QED
      BY <1>b, <2>2, <2>4, <2>5, <2>6, <3>1
      DEF BookKnown, MarkKnown, GradeKnown, ComponentSteps, CalculationSteps
  <2> QED
    BY <2>1, <2>3, <2>7, <2>8, BookReads
<1>9. CASE ReadAttempts(h)
  <2>1. UNCHANGED bookTables /\ q.step = "attempts" /\ q.step \in CalculationSteps
    BY <1>9, <1>a DEF ReadAttempts, At, CalculationSteps
  <2>2. PICK b : b = [q.best EXCEPT !["exam"] = Best(ExamScores(q.p), "exam")]
    OBVIOUS
  <2>3. CASE Finish(h)
    BY <2>1, <2>3, BookEnds
  <2>4. CASE /\ Missing(q.scheme, b) = {}
             /\ Reads(h, [q EXCEPT !.best = b, !.step = "grade row",
                                   !.score = Weighted(q.scheme, b)])
    <3>1. PICK m : /\ m = [q EXCEPT !.best = b, !.step = "grade row",
                                    !.score = Weighted(q.scheme, b)]
                   /\ Reads(h, m)
      BY <2>4
    <3>2. /\ m.step = "grade row" /\ m.p = q.p /\ m.scheme = q.scheme /\ m.best = b
          /\ m.score = Weighted(q.scheme, b)
          /\ {"p", "scheme", "best", "score", "row"} \subseteq DOMAIN m
      BY <1>0, <1>c, <2>1, <3>1
    <3>3. /\ b["work"] = q.best["work"] /\ b["exam"] = Best(ExamScores(q.p), "exam")
          /\ b = [a \in Assessment |-> b[a]]
      BY <1>c, <2>1, <2>2 DEF Assessment
    <3>4. "grade row" \in GradesSteps
      BY DEF GradesSteps
    <3>5. BookHeld(m)
      BY <1>b, <1>c, <2>1, <3>2, <3>3, <3>4 DEF BookHeld, ComponentSteps, CalculationSteps
    <3>6. ASSUME h \notin crossed PROVE BookKnown(m)
      <4>1. q.scheme = component /\ q.best["work"] = Best(WorkScores(q.p), "work")
        BY <1>0, <2>1, <3>6 DEF BookKnown, GradeKnown, CalculationSteps
      <4> QED
        BY <1>b, <2>4, <3>2, <3>3, <3>4, <4>1
        DEF BookKnown, MarkKnown, GradeKnown, ComponentSteps, CalculationSteps
    <3> QED
      BY <2>1, <3>1, <3>5, <3>6, BookReads
  <2> QED
    BY <1>9, <2>2, <2>3, <2>4 DEF ReadAttempts
<1>10. CASE FindGrade(h)
  <2>1. UNCHANGED bookTables /\ q.step = "grade row" /\ q.step \in CalculationSteps
    BY <1>10, <1>a DEF FindGrade, At, CalculationSteps
  <2>2. PICK m : m = [q EXCEPT !.row = finalGrade[q.p], !.step = "store grade"] /\ Reads(h, m)
    BY <1>10 DEF FindGrade
  <2>3. /\ m.step = "store grade" /\ m.p = q.p /\ m.scheme = q.scheme /\ m.best = q.best
        /\ m.score = q.score /\ m.row = finalGrade[q.p]
        /\ {"p", "scheme", "best", "score", "row"} \subseteq DOMAIN m
    BY <1>0, <1>c, <2>1, <2>2
  <2>4. "store grade" \in GradesSteps
    BY DEF GradesSteps
  <2>5. BookHeld(m)
    BY <1>b, <1>c, <2>1, <2>3, <2>4 DEF BookHeld, ComponentSteps, CalculationSteps
  <2>6. ASSUME h \notin crossed PROVE BookKnown(m)
    <3>1. /\ q.scheme = component /\ q.best["work"] = Best(WorkScores(q.p), "work")
          /\ q.best["exam"] = Best(ExamScores(q.p), "exam")
          /\ Missing(q.scheme, q.best) = {} /\ q.score = Weighted(q.scheme, q.best)
      BY <1>0, <2>1, <2>6 DEF BookKnown, GradeKnown, CalculationSteps
    <3> QED
      BY <1>b, <2>3, <2>4, <3>1
      DEF BookKnown, MarkKnown, GradeKnown, ComponentSteps, CalculationSteps
  <2> QED
    BY <2>1, <2>2, <2>5, <2>6, BookReads
<1>11. CASE StoreGrade(h)
  <2>1. q.step = "store grade" /\ q.step \in CalculationSteps /\ UNCHANGED component
    BY <1>11 DEF StoreGrade, At, CalculationSteps
  <2>2. CASE Finish(h) /\ UNCHANGED finalGrade
    BY <2>1, <2>2, <1>a, BookEnds DEF gradeTables
  <2>3. CASE Commit(h) /\ finalGrade' = [finalGrade EXCEPT ![q.p] = Renewed(q.row, q.score)]
    <3>1. BookTyped'
      BY <1>0, <2>1 DEF BookTyped, markTables
    <3>2. ASSUME h \notin crossed PROVE Marks!Next
      <4>1. /\ q.scheme = component /\ q.best["work"] = Best(WorkScores(q.p), "work")
            /\ q.best["exam"] = Best(ExamScores(q.p), "exam") /\ q.row = finalGrade[q.p]
            /\ Missing(q.scheme, q.best) = {} /\ q.score = Weighted(q.scheme, q.best)
        BY <1>0, <2>1, <3>2 DEF BookKnown, GradeKnown, CalculationSteps
      <4>2. finalGrade' = [finalGrade EXCEPT ![q.p] =
                                Renewed(finalGrade[q.p], Weighted(component, q.best))]
        BY <2>3, <4>1
      <4>3. PICK b : b = q.best
        OBVIOUS
      <4> QED
        BY <1>0, <1>c, <2>1, <4>1, <4>2, <4>3, GradeComputed
    <3>3. q.step # "idle"
      BY <2>1
    <3> QED
      BY <2>3, <3>1, <3>2, <3>3, BookDone
  <2> QED
    BY <1>11, <2>2, <2>3 DEF StoreGrade
<1>12. CASE BeginApproveGrade(h)
  <2>0. PICK p \in Participant, u \in Approver :
            /\ Reads(h, [step |-> "grade status", p |-> p, status |-> "APPROVED", by |-> u])
            /\ finalGrade[p] # NoGrade
    BY <1>12 DEF BeginApproveGrade, Receive
  <2>1. PICK m : /\ m = [step |-> "grade status", p |-> p, status |-> "APPROVED", by |-> u]
                 /\ Reads(h, m) /\ finalGrade[p] # NoGrade
    BY <2>0
  <2>2. m.step = "grade status" /\ "grade status" \in GradesSteps
    BY <2>1 DEF GradesSteps
  <2>3. BookHeld(m)
    BY <1>b, <2>1, <2>2 DEF BookHeld, ComponentSteps, CalculationSteps
  <2>4. BookKnown(m)
    BY <1>b, <2>1, <2>2 DEF BookKnown, MarkKnown, GradeKnown, ComponentSteps, CalculationSteps
  <2>5. UNCHANGED bookTables
    BY <1>12, <1>a DEF BeginApproveGrade
  <2> QED
    BY <2>1, <2>3, <2>4, <2>5, BookReads
<1>13. CASE BeginReopenGrade(h)
  <2>0. PICK p \in Participant :
            /\ Reads(h, [step |-> "grade status", p |-> p, status |-> "REOPENED",
                          by |-> NoApprover])
            /\ finalGrade[p].status = "APPROVED"
    BY <1>13 DEF BeginReopenGrade, Receive
  <2>1. PICK m : /\ m = [step |-> "grade status", p |-> p, status |-> "REOPENED",
                         by |-> NoApprover]
                 /\ Reads(h, m) /\ finalGrade[p].status = "APPROVED"
    BY <2>0
  <2>2. m.step = "grade status" /\ "grade status" \in GradesSteps
    BY <2>1 DEF GradesSteps
  <2>3. BookHeld(m)
    BY <1>b, <2>1, <2>2 DEF BookHeld, ComponentSteps, CalculationSteps
  <2>4. BookKnown(m)
    BY <1>b, <2>1, <2>2 DEF BookKnown, MarkKnown, GradeKnown, ComponentSteps, CalculationSteps
  <2>5. UNCHANGED bookTables
    BY <1>13, <1>a DEF BeginReopenGrade
  <2> QED
    BY <2>1, <2>3, <2>4, <2>5, BookReads
<1>14. CASE UpdateGradeStatus(h)
  <2>1. /\ q.step = "grade status" /\ Commit(h) /\ UNCHANGED component
        /\ finalGrade' = [finalGrade EXCEPT ![q.p] = [@ EXCEPT !.status = q.status, !.by = q.by]]
    BY <1>14 DEF UpdateGradeStatus, At
  <2>2. /\ q.p \in Participant
        /\ \/ q.status = "APPROVED" /\ q.by \in Approver
           \/ q.status = "REOPENED" /\ q.by = NoApprover
    BY <1>0, <2>1 DEF BookHeld
  <2>3. BookTyped'
    BY <1>0, <2>1 DEF BookTyped, markTables
  <2>4. UNCHANGED <<mark, [y \in Examinee |-> attempt[y].score], component>>
    BY <2>1 DEF markTables
  <2>5. /\ finalGrade = [y \in Participant |-> finalGrade[y]]
        /\ {"status", "score", "by"} \subseteq DOMAIN finalGrade[q.p]
    BY <2>2 DEF GradesSigned, Signed
  <2>6. finalGrade' = [finalGrade EXCEPT ![q.p].status = q.status, ![q.p].by = q.by]
    BY <2>1, <2>2, <2>5
  <2>7. ASSUME h \notin crossed PROVE Marks!Next
    <3>1. CASE q.status = "APPROVED" /\ q.by \in Approver
      <4>1. finalGrade[q.p] # Marks!NoGrade
        BY <1>0, <2>1, <2>7, <3>1 DEF BookKnown, GradeKnown, NoGrade, Marks!NoGrade
      <4>2. Marks!Approve(q.p)
        BY <2>4, <2>6, <3>1, <4>1 DEF Marks!Approve
      <4> QED
        BY <2>2, <4>2 DEF Marks!Next
    <3>2. CASE q.status = "REOPENED" /\ q.by = NoApprover
      <4>1. finalGrade[q.p].status = "APPROVED"
        BY <1>0, <2>1, <2>7, <3>2 DEF BookKnown, GradeKnown
      <4>2. Marks!Reopen(q.p)
        BY <2>4, <2>6, <3>2, <4>1 DEF Marks!Reopen
      <4> QED
        BY <2>2, <4>2 DEF Marks!Next
    <3> QED
      BY <2>2, <3>1, <3>2
  <2>8. q.step # "idle"
    BY <2>1
  <2> QED
    BY <2>1, <2>3, <2>7, <2>8, BookDone
<1> QED
  BY <1>1, <1>2, <1>3, <1>5, <1>6, <1>7, <1>8, <1>9, <1>10, <1>11, <1>12, <1>13, <1>14
  DEF HandleGrade

\* Every step of the whole keeps what is known, and if it is not one of a crossed request
\* it is a step of the mark book.
LEMMA BookStep ==
    ASSUME Steppable, GradesSigned, BookFine, [Next]_vars
    PROVE  BookKept
<1>0. Undisturbed
  BY NextUndisturbed
<1>1. ASSUME NEW h \in Handler,
             \/ HandleMark(h) /\ UNCHANGED <<grade, gradeTables>>
             \/ HandleGrade(h) /\ UNCHANGED <<grade, markTables>>
      PROVE  BookKept
  BY <1>0, <1>1, MarksKept, GradesKept
<1>2. ASSUME NEW p \in Examinee, Sit(p), UNCHANGED <<grade, gradeTables>>
      PROVE  BookKept
  <2>1. /\ handler' = handler /\ crossed' = InFlight /\ UNCHANGED mark
        /\ attempt' = attempt \/ \E s : attempt' = [attempt EXCEPT ![p].status = s]
    BY <1>2 DEF Sit, SaveAnswer, CloseAttempt, WriteOutside
  <2>2. /\ attempt' = [x \in Examinee |-> attempt'[x]]
        /\ \A x \in Examinee : /\ {"status", "score"} \subseteq DOMAIN attempt'[x]
                               /\ attempt'[x].score = attempt[x].score
    BY <2>1 DEF BookFine, BookTyped
  <2>3. BookTyped'
    BY <1>2, <2>1, <2>2 DEF BookFine, BookTyped, gradeTables
  <2>4. UNCHANGED Marks!vars
    BY <1>2, <2>1, <2>2 DEF Marks!vars, gradeTables
  <2>5. ASSUME NEW g \in Handler
        PROVE  /\ BookHeld(handler[g])'
               /\ g \notin crossed' => BookKnown(handler[g])'
    <3>1. handler'[g] = handler[g] /\ (g \in crossed' \/ handler[g].step = "idle")
      BY <2>1 DEF InFlight, At
    <3> QED
      BY <1>0, <3>1, BookStays DEF BookFine
  <2> QED
    BY <2>3, <2>4, <2>5 DEF BookFine, BookKept
<1>3. ASSUME UNCHANGED <<markTables, gradeTables>>, UNCHANGED grade \/ AllCrossed,
             Unentered(MarksSteps), Unentered(GradesSteps)
      PROVE  BookKept
  <2>1. BookTyped' /\ UNCHANGED Marks!vars
    BY <1>3 DEF BookFine, BookTyped, markTables, gradeTables, Marks!vars
  <2>2. ASSUME NEW g \in Handler
        PROVE  /\ BookHeld(handler[g])'
               /\ g \notin crossed' => BookKnown(handler[g])'
    <3>1. CASE handler'[g] = handler[g]
      <4>1. UNCHANGED bookTables \/ g \in crossed' \/ handler[g].step = "idle"
        BY <1>3, <3>1 DEF bookTables, AllCrossed, InFlight, At
      <4> QED
        BY <1>0, <3>1, <4>1, BookStays DEF BookFine
    <3>2. CASE handler'[g] # handler[g]
      <4>1. PICK m : m = handler'[g]
        OBVIOUS
      <4>2. m.step \notin MarksSteps /\ m.step \notin GradesSteps
        BY <1>3, <3>2, <4>1 DEF Unentered
      <4>3. BookHeld(m)' /\ BookKnown(m)'
        BY <4>2, BookIgnored DEF BookHeld
      <4> QED
        BY <4>1, <4>3
    <3> QED
      BY <3>1, <3>2
  <2> QED
    BY <2>1, <2>2 DEF BookFine, BookKept
<1> QED
  BY <1>1, <1>2, <1>3, BookElse

\* Nobody has read anything yet, and what is marked is marked by the rules.
LEMMA InitBook == Init => BookFine /\ Marks!Init
<1> SUFFICES ASSUME Init PROVE BookFine /\ Marks!Init
  OBVIOUS
<1>1. GradingInit /\ FinalGradesInit /\ \A h \in Handler : handler[h] = Idle
  BY DEF Init, RequestsInit, CourseworkInit
<1> DEFINE full(q) == IF q \in Objective THEN [NoMark EXCEPT !.auto = Points, !.final = Points]
                      ELSE [NoMark EXCEPT !.manual = Points, !.final = Points]
           row == [q \in Question |-> IF calls \cap {"sit", "autoGrade", "manualGrade"} = {}
                                      THEN full(q) ELSE NoMark]
<1>2. Points \in Int /\ Points # -1
  BY GradingAssumption
<1>3. /\ NoMark \in MarkNumbers /\ NoMark.manual = -1
      /\ NoMark.final = IF NoMark.manual = -1 THEN NoMark.auto ELSE NoMark.manual
  BY DEF NoMark, MarkNumbers
<1>4. \A q \in Question :
        /\ full(q) \in MarkNumbers
        /\ full(q).final = IF full(q).manual = -1 THEN full(q).auto ELSE full(q).manual
  <2> DEFINE r == [NoMark EXCEPT !.auto = Points, !.final = Points]
             m == [NoMark EXCEPT !.manual = Points, !.final = Points]
  <2>0. ASSUME NEW old \in MarkNumbers, NEW x \in Int
        PROVE  /\ [old EXCEPT !.auto = x, !.final = x] \in MarkNumbers
               /\ [old EXCEPT !.auto = x, !.final = x].auto = x
               /\ [old EXCEPT !.auto = x, !.final = x].final = x
               /\ [old EXCEPT !.auto = x, !.final = x].manual = old.manual
               /\ [old EXCEPT !.manual = x, !.final = x] \in MarkNumbers
               /\ [old EXCEPT !.manual = x, !.final = x].manual = x
               /\ [old EXCEPT !.manual = x, !.final = x].final = x
    BY <2>0 DEF MarkNumbers
  <2>1. r \in MarkNumbers /\ r.final = r.auto /\ r.manual = -1
    BY <1>2, <1>3, <2>0
  <2>2. m \in MarkNumbers /\ m.final = Points /\ m.manual = Points
    BY <1>2, <1>3, <2>0
  <2>3. \A q : full(q) = IF q \in Objective THEN r ELSE m
    OBVIOUS
  <2> HIDE DEF r, m, full
  <2> QED
    BY <1>2, <2>1, <2>2, <2>3
<1> HIDE DEF full
<1>5. \A q \in Question :
        /\ row[q] \in MarkNumbers
        /\ row[q].final = IF row[q].manual = -1 THEN row[q].auto ELSE row[q].manual
  BY <1>3, <1>4
<1>6. row \in [Question -> MarkNumbers]
  BY <1>5
<1>7. /\ mark = [p \in Examinee |-> row]
      /\ attempt = [p \in Examinee |-> attempt[p]]
      /\ \A p \in Examinee : /\ {"status", "score"} \subseteq DOMAIN attempt[p]
                             /\ \/ attempt[p].score = Total(row)
                                \/ attempt[p].score = -1 /\ \A q \in Question : row[q] = NoMark
  BY <1>1, Zenon DEF GradingInit, Unscored, full
<1> HIDE DEF row
<1>8. component \in [Assessment -> [weight: 0 .. 100, required: BOOLEAN]]
  BY <1>1 DEF FinalGradesInit, NoComponent
<1>9. BookTyped
  BY <1>6, <1>7, <1>8 DEF BookTyped
<1>10. BookFine
  BY <1>1, <1>9, BookIdle DEF BookFine
<1>11. \A p \in Examinee : \A q \in Question :
            mark[p][q].final = IF mark[p][q].manual = -1 THEN mark[p][q].auto ELSE mark[p][q].manual
  BY <1>5, <1>7
<1>12. ASSUME NEW p \in Examinee, [x \in Examinee |-> attempt[x].score][p] # Marks!Sum(mark[p])
       PROVE  /\ [x \in Examinee |-> attempt[x].score][p] = -1
              /\ \A q \in Question : mark[p][q] = Marks!NoMark
  <2>1. Marks!Sum(mark[p]) = Total(mark[p])
    BY SameTotals
  <2>2. mark[p] = row
    BY <1>7
  <2> QED
    BY <1>7, <1>12, <2>1, <2>2 DEF NoMark, Marks!NoMark
<1>13. finalGrade = [p \in Participant |-> Marks!NoGrade]
  BY <1>1 DEF FinalGradesInit, NoGrade, Marks!NoGrade
<1>14. Marks!Init
  BY <1>8, <1>11, <1>12, <1>13 DEF Marks!Init, Marks!Assessment, Assessment
<1> QED
  BY <1>10, <1>14

\* The services of the gradings and the final grades implement the mark book: in a request
\* that no other one crosses the score of an attempt is the sum of its marks, a manual mark
\* prevails, the weights of a scheme stay within 100 percent, a final grade is the weighted
\* sum of what is on record, and an approval ends only with a reopening.
THEOREM MarkBookKept == Spec => KeepsMarkBook
<1>1. Init => Steppable /\ GradesSigned /\ BookFine /\ Marks!Init
  BY InitSteppable, InitGradesSigned, InitBook
<1>2. Steppable /\ GradesSigned /\ BookFine /\ [Next]_vars
        => Steppable' /\ GradesSigned' /\ BookFine'
  BY StepSteppable, GradesSignedNext, BookStep DEF BookKept
<1>3. Steppable /\ GradesSigned /\ BookFine /\ [Next]_vars
        => [Promised(Marks!Next, Marks!vars)]_(Marks!vars)
  BY BookStep DEF BookKept, Promised
<1> QED
  BY <1>1, <1>2, <1>3, PTL DEF Spec, KeepsMarkBook

-----------------------------------------------------------------------------
(* What the tables and slots of the work hold *)

\* The requests about the work, its files and its grades hold what they need.
WorkTyped == /\ Typed(SubmitsSteps, SubmissionRequest) /\ Typed(LinksSteps, SubmissionRequest)
             /\ Typed(AssessSteps, SubmissionRequest)
             /\ Typed(AssignmentsSteps, SubmissionRequest)

\* What WorkHolds says of a request makes it one of these.
LEMMA WorkHolders == ASSUME NEW q, WorkHolds(q)
    PROVE  q.step \in SubmitsSteps \cup LinksSteps \cup AssessSteps \cup AssignmentsSteps =>
               q \in SubmissionRequest
<1>1. CASE q.step \in SubmitsSteps
  BY <1>1 DEF WorkHolds, SubmitsSteps, SubmissionRequest
<1>2. CASE q.step \in LinksSteps
  BY <1>2 DEF WorkHolds, LinksSteps, SubmissionRequest
<1>3. CASE q.step \in AssessSteps
  <2>1. 0..MaxPoints \subseteq Int
    OBVIOUS
  <2> QED
    BY <1>3, <2>1 DEF WorkHolds, AssessSteps, SubmissionRequest
<1>4. CASE q.step = "status"
  BY <1>4 DEF WorkHolds, SubmissionRequest
<1>5. CASE q.step \in {"list", "grades", "count", "write"}
  <2>1. -1..MaxPoints \subseteq Int /\ 0..MaxAttempts \subseteq Nat
    OBVIOUS
  <2> QED
    BY <1>5, <2>1 DEF WorkHolds, SubmissionRequest
<1> QED
  BY <1>1, <1>2, <1>3, <1>4, <1>5 DEF AssignmentsSteps

\* The tables of the work keep to their columns, its requests hold what their steps need.
LEMMA WorkAlwaysTyped == Spec => [](SubmissionsTypeOK /\ WorkTyped)
<1>1. WorkHeld => SubmissionsTypeOK
  BY DEF WorkHeld, WorkNumbered
<1>2. WorkHeld => WorkTyped
  BY WorkHolders DEF WorkHeld, WorkTyped, Typed
<1> QED
  BY <1>1, <1>2, WorkAlwaysHeld, PTL

-----------------------------------------------------------------------------
(* What the tables and slots of the files hold *)

\* A request about a file holds the columns it needs, and goes on with them.
LEMMA FileRequests ==
    ASSUME Steppable, FilesTypeOK, Typed(FilesSteps, FileRequest), NEW h \in Handler, HandleFile(h)
    PROVE  Becomes(h, FileRequest)
<1> DEFINE q == handler[h]
<1>1. CASE BeginComplete(h)
  <2>1. PICK f \in File : Reads(h, [step |-> "head", f |-> f])
    BY <1>1 DEF BeginComplete, Receive
  <2> QED
    BY <2>1, GoesOn DEF FileRequest
<1>2. CASE HeadObject(h)
  <2>1. q \in [step: {"head", "confirm"}, f: File]
    BY <1>2 DEF HeadObject, At, Typed, FilesSteps, FileRequest
  <2>2. [q EXCEPT !.step = "confirm"] \in FileRequest
    BY <2>1 DEF FileRequest
  <2> QED
    BY <1>2, <2>2, GoesOn, IsDone DEF HeadObject, Goto
<1>3. CASE BeginMove(h)
  <2>1. PICK f \in File, to \in {"ACTIVE", "ARCHIVED"} :
          Reads(h, [step |-> "file status", f |-> f, to |-> to])
    BY <1>3 DEF BeginMove, Receive
  <2> QED
    BY <2>1, GoesOn DEF FileRequest
<1>4. CASE Confirm(h) \/ MoveFile(h)
  BY <1>4, IsDone DEF Confirm, MoveFile
<1> QED
  BY <1>1, <1>2, <1>3, <1>4 DEF HandleFile

\* Only FilesService takes a request to these steps.
LEMMA FilesTypedNext ==
    ASSUME Steppable, FilesTypeOK, Typed(FilesSteps, FileRequest), [Next]_vars
    PROVE  Typed(FilesSteps, FileRequest)'
<1>1. FilesSteps \in Parts
  BY DEF Parts
<1>2. Unentered(FilesSteps) \/ \E h \in Handler : HandleFile(h)
  BY <1>1, EnteredByOwn, PartsDiffer
<1> QED
  BY <1>1, <1>2, FileRequests, FilesMove, TypedElse

\* A request about a file always holds what its step needs.
LEMMA FilesTyped == Spec => []Typed(FilesSteps, FileRequest)
<1>1. Init => Typed(FilesSteps, FileRequest)
  BY InitTyped DEF Parts
<1>2. FilesConfirmed => FilesTypeOK
  BY DEF FilesConfirmed
<1> QED
  BY <1>1, <1>2, FilesTypedNext, FilesAlwaysConfirmed, AlwaysSteppable, PTL DEF Spec

-----------------------------------------------------------------------------
(* What the tables and slots of the marks hold *)

\* A mark as it is made; a mark is one of these or none.
Made   == [auto: -1..Points, manual: -1..Points, final: 0..Points]
MarkOrNone == Made \cup {NoMark}

\* A request about marks; the total is not negative, once there is one.
MarkAsked ==
    [step: MarksSteps, p: Examinee, due: [Question -> 0..Points],
     todo: SUBSET Question, manual: BOOLEAN, seen: [Question -> -1..Points],
     own: [Question -> MarkOrNone], total: Nat \cup {Unscored}]

\* The columns of attempts, answers and marks; a score is not negative, if there is one.
MarksAre ==
    /\ attempt \in [Examinee -> [status: {"IN_PROGRESS", "SUBMITTED", "EXPIRED"},
                                 score: Nat \cup {Unscored}]]
    /\ answer \in [Examinee -> [Question -> {"none", "right", "wrong"}]]
    /\ mark \in [Examinee -> [Question -> MarkOrNone]]

\* The marks are at least nothing, and so is their sum.
LEMMA TotalIsNatural ==
    ASSUME NEW row \in [Question -> MarkOrNone]
    PROVE  Total(row) \in Nat
<1> DEFINE f == [q \in Question |-> IF row[q] = NoMark THEN 0 ELSE row[q].final]
<1>1. f \in [Question -> Nat]
  BY GradingAssumption DEF MarkOrNone, Made
<1>2. IsFiniteSet(Question)
  BY GradingAssumption
<1> HIDE DEF f
<1>3. SumFunction(f) \in Nat
  BY <1>1, <1>2, SumIsNatural
<1> QED
  BY <1>3 DEF f, Total

\* What a transaction writes is a mark that is made.
LEMMA UpsertedIsMade ==
    ASSUME NEW t \in MarkAsked, NEW q \in Question, NEW row \in MarkOrNone
    PROVE  Upserted(t, q, row) \in Made
<1> DEFINE x == t.due[q]
           y == IF row # NoMark /\ t.seen[q] # -1 THEN t.seen[q] ELSE t.due[q]
<1>1. x \in 0..Points /\ y \in 0..Points /\ x \in -1..Points
  <2>1. t.due[q] \in 0..Points /\ t.seen[q] \in -1..Points
    BY DEF MarkAsked
  <2> QED
    BY <2>1, GradingAssumption
<1>2. Upserted(t, q, row) \in {[row EXCEPT !.manual = x, !.final = x],
                              [row EXCEPT !.auto = x, !.final = y]}
  BY DEF Upserted
<1> HIDE DEF x, y
<1>3. row \in [auto: -1..Points, manual: -1..Points, final: -1..Points]
  BY GradingAssumption DEF MarkOrNone, Made, NoMark
<1>4. [row EXCEPT !.manual = x, !.final = x] \in Made
  BY <1>1, <1>3 DEF Made
<1>5. [row EXCEPT !.auto = x, !.final = y] \in Made
  BY <1>1, <1>3 DEF Made
<1> QED
  BY <1>2, <1>4, <1>5

\* What a transaction sees are marks.
LEMMA SeenIsMarked ==
    ASSUME MarksAre, NEW t \in MarkAsked
    PROVE  Seen(t) \in [Question -> MarkOrNone]
BY DEF Seen, MarksAre, MarkAsked

\* A request about marks goes on with one.
LEMMA MarkRequests ==
    ASSUME Steppable, MarksAre, Typed(MarksSteps, MarkAsked), NEW h \in Handler, HandleMark(h)
    PROVE  Becomes(h, MarkAsked)
<1> DEFINE t == handler[h]
<1>0. ASSUME NEW p \in Examinee, NEW due \in [Question -> 0..Points], NEW W \in SUBSET Question,
             NEW manual \in BOOLEAN
      PROVE  Marking(p, due, W, manual) \in MarkAsked
  <2>1. \A q \in Question : mark[p][q].manual \in -1..Points
    BY GradingAssumption DEF MarksAre, MarkOrNone, Made, NoMark
  <2> QED
    BY <2>1 DEF Marking, MarkAsked, MarksSteps, MarkOrNone
<1>1. CASE BeginAutoGrade(h)
  <2>1. PICK p \in Examinee : Reads(h, Marking(p, [q \in Question |-> Score(answer[p][q])],
                                             Objective \cap Answered(p), FALSE))
    BY <1>1 DEF BeginAutoGrade, Receive
  <2>2. /\ [q \in Question |-> Score(answer[p][q])] \in [Question -> 0..Points]
        /\ Objective \cap Answered(p) \in SUBSET Question
    BY GradingAssumption DEF Score, Answered
  <2> QED
    BY <1>0, <2>1, <2>2, GoesOn
<1>2. CASE BeginManualGrade(h)
  <2>1. PICK p \in Examinee, x \in 0 .. Points : \E q \in Answered(p) :
            Reads(h, Marking(p, [r \in Question |-> x], {q}, TRUE))
    BY <1>2 DEF BeginManualGrade, Receive
  <2>2. PICK q \in Answered(p) : Reads(h, Marking(p, [r \in Question |-> x], {q}, TRUE))
    BY <2>1
  <2>3. [r \in Question |-> x] \in [Question -> 0..Points] /\ {q} \in SUBSET Question
    BY DEF Answered
  <2> QED
    BY <1>0, <2>2, <2>3, GoesOn
<1>3. CASE UpsertMark(h)
  <2>1. PICK q \in t.todo : Reads(h, [t EXCEPT !.todo = @ \ {q},
                                  !.own[q] = Upserted(t, q, mark[t.p][q])])
    BY <1>3 DEF UpsertMark
  <2>2. t \in MarkAsked
    BY <1>3 DEF UpsertMark, At, Typed, MarksSteps
  <2>3. PICK new : new = Upserted(t, q, mark[t.p][q])
    OBVIOUS
  <2>4. q \in Question /\ mark[t.p][q] \in MarkOrNone
    BY <2>2 DEF MarkAsked, MarksAre
  <2>5. new \in MarkOrNone
    BY <2>2, <2>3, <2>4, UpsertedIsMade DEF MarkOrNone
  <2>6. [t EXCEPT !.todo = @ \ {q}, !.own[q] = new] \in MarkAsked
    BY <2>2, <2>4, <2>5 DEF MarkAsked
  <2> QED
    BY <2>1, <2>3, <2>6, GoesOn
<1>4. CASE SumMarks(h)
  <2>1. Reads(h, [t EXCEPT !.step = "rescore", !.total = Total(Seen(t))])
    BY <1>4 DEF SumMarks
  <2>2. t \in MarkAsked
    BY <1>4 DEF SumMarks, At, Typed, MarksSteps
  <2>3. PICK n : n = Total(Seen(t))
    OBVIOUS
  <2>4. n \in Nat
    BY <2>2, <2>3, SeenIsMarked, TotalIsNatural
  <2>5. [t EXCEPT !.step = "rescore", !.total = n] \in MarkAsked
    BY <2>2, <2>4 DEF MarkAsked, MarksSteps
  <2> QED
    BY <2>1, <2>3, <2>5, GoesOn
<1>5. CASE CommitMarks(h)
  BY <1>5, IsDone DEF CommitMarks
<1> QED
  BY <1>1, <1>2, <1>3, <1>4, <1>5 DEF HandleMark

\* What it commits are marks.
LEMMA MarkWrites ==
    ASSUME Steppable, MarksAre, Typed(MarksSteps, MarkAsked), NEW h \in Handler, HandleMark(h)
    PROVE  MarksAre'
<1> DEFINE t == handler[h]
<1>1. CASE CommitMarks(h)
  <2>1. t \in MarkAsked
    BY <1>1 DEF CommitMarks, At, Typed, MarksSteps
  <2>2. t.p \in Examinee /\ t.total \in Nat \cup {Unscored}
    BY <2>1 DEF MarkAsked
  <2>3. Seen(t) \in [Question -> MarkOrNone]
    BY <2>1, SeenIsMarked
  <2>4. /\ mark' = [mark EXCEPT ![t.p] = Seen(t)] /\ answer' = answer
        /\ attempt' = [attempt EXCEPT ![t.p].score = t.total]
    BY <1>1 DEF CommitMarks
  <2> QED
    BY <2>2, <2>3, <2>4 DEF MarksAre
<1>2. CASE UNCHANGED markTables
  BY <1>2 DEF markTables, MarksAre
<1> QED
  BY <1>1, <1>2 DEF HandleMark, BeginAutoGrade, BeginManualGrade, UpsertMark, SumMarks

\* No step of the whole changes that.
LEMMA MarksAreNext ==
    ASSUME Steppable, MarksAre, Typed(MarksSteps, MarkAsked), [Next]_vars
    PROVE  MarksAre' /\ Typed(MarksSteps, MarkAsked)'
<1>1. MarksSteps \in Parts
  BY DEF Parts
<1>2. Unentered(MarksSteps) \/ \E h \in Handler : HandleMark(h)
  BY <1>1, EnteredByOwn, PartsDiffer
<1>3. Typed(MarksSteps, MarkAsked)'
  BY <1>1, <1>2, MarkRequests, MarksMove, TypedElse
<1>4. ASSUME NEW p \in Examinee, Sit(p) PROVE MarksAre'
  <2>1. CASE SaveAnswer(p)
    <3>1. PICK q \in Question, a \in {"right", "wrong"} :
              answer' = [answer EXCEPT ![p][q] = a] /\ UNCHANGED <<attempt, mark>>
      BY <2>1 DEF SaveAnswer
    <3> QED
      BY <3>1 DEF MarksAre
  <2>2. CASE CloseAttempt(p)
    <3>1. PICK s \in {"SUBMITTED", "EXPIRED"} :
              attempt' = [attempt EXCEPT ![p].status = s] /\ UNCHANGED <<answer, mark>>
      BY <2>2 DEF CloseAttempt
    <3> QED
      BY <3>1 DEF MarksAre
  <2> QED
    BY <1>4, <2>1, <2>2 DEF Sit
<1>5. ASSUME UNCHANGED markTables PROVE MarksAre'
  BY <1>5 DEF markTables, MarksAre
<1> QED
  BY <1>3, <1>4, <1>5, MarkWrites, BookElse

\* It is so at the start, where nothing is marked or everything is marked right.
LEMMA InitMarksAre == Init => MarksAre
<1> SUFFICES ASSUME Init PROVE MarksAre
  OBVIOUS
<1> DEFINE full == calls \cap {"sit", "autoGrade", "manualGrade"} = {}
           row == [q \in Question |-> IF full
                     THEN IF q \in Objective THEN [NoMark EXCEPT !.auto = Points, !.final = Points]
                          ELSE [NoMark EXCEPT !.manual = Points, !.final = Points]
                     ELSE NoMark]
<1>1. /\ attempt = [p \in Examinee |->
                [status |-> IF "sit" \in calls THEN "IN_PROGRESS" ELSE "SUBMITTED",
                 score  |-> IF full THEN Total(row) ELSE Unscored]]
      /\ answer = [p \in Examinee |-> [q \in Question |->
                        IF "sit" \in calls THEN "none" ELSE "right"]]
      /\ mark = [p \in Examinee |-> row]
  BY DEF Init, CourseworkInit, GradingInit
<1>2. /\ [NoMark EXCEPT !.auto = Points, !.final = Points] \in Made
      /\ [NoMark EXCEPT !.manual = Points, !.final = Points] \in Made
  <2>1. NoMark \in [auto: {-1}, manual: {-1}, final: {-1}]
    BY DEF NoMark
  <2>2. ASSUME NEW m \in [auto: {-1}, manual: {-1}, final: {-1}]
        PROVE  /\ [m EXCEPT !.auto = Points, !.final = Points] \in Made
               /\ [m EXCEPT !.manual = Points, !.final = Points] \in Made
    <3>1. /\ [m EXCEPT !.auto = Points] \in [auto: {Points}, manual: {-1}, final: {-1}]
          /\ [m EXCEPT !.manual = Points] \in [auto: {-1}, manual: {Points}, final: {-1}]
      OBVIOUS
    <3>2. Points \in 0..Points /\ Points \in -1..Points /\ -1 \in -1..Points
      BY GradingAssumption
    <3>3. ASSUME NEW n \in [auto: -1..Points, manual: -1..Points, final: {-1}]
          PROVE  [n EXCEPT !.final = Points] \in Made
      BY <3>2 DEF Made
    <3> QED
      BY <3>1, <3>2, <3>3
  <2> QED
    BY <2>1, <2>2
<1>3. row \in [Question -> MarkOrNone]
  BY <1>2 DEF MarkOrNone
<1> HIDE DEF row
<1>4. Total(row) \in Nat
  BY <1>3, TotalIsNatural
<1> QED
  BY <1>1, <1>3, <1>4 DEF MarksAre

\* So it is always.
LEMMA AlwaysMarksAre == Spec => [](MarksAre /\ Typed(MarksSteps, MarkAsked))
<1>1. Init => Typed(MarksSteps, MarkAsked)
  BY InitTyped DEF Parts
<1> QED
  BY <1>1, InitMarksAre, MarksAreNext, AlwaysSteppable, PTL DEF Spec

\* Which is what the types of the grading say, and more.
LEMMA MarksAreTyped == MarksAre /\ Typed(MarksSteps, MarkAsked) =>
                         GradingTypeOK /\ Typed(MarksSteps, MarkRequest)
<1>1. Made \subseteq MarkRow /\ NoMark \in MarkRow /\ Nat \cup {Unscored} \subseteq Int
  BY GradingAssumption DEF Made, NoMark, MarkRow, Unscored
<1>2. ASSUME NEW t \in MarkAsked PROVE t \in MarkRequest
  <2>1. MarkOrNone \subseteq MarkRow
    BY <1>1 DEF MarkOrNone
  <2> QED
    BY <1>1, <2>1 DEF MarkAsked, MarkRequest, MarksSteps
<1>3. MarksAre => GradingTypeOK
  BY <1>1 DEF MarksAre, GradingTypeOK, MarkOrNone
<1> QED
  BY <1>2, <1>3 DEF Typed

-----------------------------------------------------------------------------
(* What the tables and slots of the final grades hold *)

\* A result in hundredths of the greatest score, -1 for none.
Result == Nat \cup {-1}

\* A request about final grades; a result is not negative, if there is one.
GradeAsked ==
    [step: ComponentSteps, a: Assessment, weight: Weight, required: BOOLEAN, sum: Nat]
    \cup [step: CalculationSteps, p: Participant,
          scheme: [Assessment -> ComponentRow], best: [Assessment -> Result],
          score: Nat, row: GradeRow \cup {NoGrade}]
    \cup [step: {"grade status"}, p: Participant, status: GradeStatus,
          by: Approver \cup {NoApprover}]

\* The best of some scores is a result.
LEMMA BestIsResult ==
    ASSUME NEW S, IsFiniteSet(S), S \subseteq Nat, NEW a \in Assessment
    PROVE  Best(S, a) \in Result
<1>1. CASE S = {}
  BY <1>1 DEF Best, Result
<1>2. CASE S # {}
  <2>1. PICK x \in S : \A y \in S : y <= x
    <3>1. S \subseteq Int
      OBVIOUS
    <3> QED
      BY <1>2, <3>1, GreatestOf
  <2>2. \A y \in S : x >= y
    BY <2>1
  <2>3. Max(S) \in S
    BY <2>2 DEF Max
  <2>4. MaxScore[a] \in Nat \ {0}
    BY FinalGradesAssumption
  <2>5. \A n \in Nat, d \in Nat \ {0} : (n * 100) \div d \in Nat
    OBVIOUS
  <2> HIDE DEF Max
  <2> QED
    BY <1>2, <2>3, <2>4, <2>5 DEF Best, Result
<1> QED
  BY <1>1, <1>2

\* The results on record are such, of the work and of the exam.
LEMMA ResultsOnRecord ==
    ASSUME SubmissionsTypeOK, MarksAre, NEW p \in Participant
    PROVE  Best(WorkScores(p), "work") \in Result /\ Best(ExamScores(p), "exam") \in Result
<1>1. "work" \in Assessment /\ "exam" \in Assessment
  BY DEF Assessment
<1>2. WorkScores(p) \subseteq Nat /\ IsFiniteSet(WorkScores(p))
  <2>1. WorkScores(p) \subseteq 0..MaxPoints
    BY DEF WorkScores, SubmissionsTypeOK
  <2>2. IsFiniteSet(0..MaxPoints) /\ 0..MaxPoints \subseteq Nat
    BY SubmissionsAssumption, FS_Interval
  <2>3. IsFiniteSet(WorkScores(p))
    BY <2>1, <2>2, FS_Subset
  <2> QED
    BY <2>1, <2>2, <2>3
<1>3. ExamScores(p) \subseteq Nat /\ IsFiniteSet(ExamScores(p))
  <2>1. ExamScores(p) \subseteq {attempt[p].score}
    BY DEF ExamScores
  <2>2. IsFiniteSet({attempt[p].score})
    BY FS_Singleton
  <2>3. ExamScores(p) \subseteq Nat
    BY DEF ExamScores, MarksAre
  <2> QED
    BY <2>1, <2>2, <2>3, FS_Subset
<1> QED
  BY <1>1, <1>2, <1>3, BestIsResult

\* There are two assessments.
LEMMA AssessmentsAreFinite == IsFiniteSet(Assessment)
BY WeightsAreIntegers

\* The weights of a scheme come to a number.
LEMMA WeightsAreNatural ==
    ASSUME NEW c \in [Assessment -> ComponentRow]
    PROVE  Weights(c) \in Nat
<1> DEFINE f == [a \in Assessment |-> c[a].weight]
<1>1. f \in [Assessment -> Nat]
  BY DEF ComponentRow
<1> HIDE DEF f
<1>2. SumFunction(f) \in Nat
  BY <1>1, AssessmentsAreFinite, SumIsNatural
<1> QED
  BY <1>2 DEF f, Weights

\* The weighted sum of results is not negative.
LEMMA WeightedIsNatural ==
    ASSUME NEW c \in [Assessment -> ComponentRow], NEW best \in [Assessment -> Result]
    PROVE  Weighted(c, best) \in Nat
<1> DEFINE f == [a \in Weighed(c) |-> IF best[a] = -1 THEN 0 ELSE best[a] * c[a].weight]
<1>1. f \in [Weighed(c) -> Nat]
  <2>1. ASSUME NEW a \in Weighed(c)
        PROVE  (IF best[a] = -1 THEN 0 ELSE best[a] * c[a].weight) \in Nat
    <3>1. c[a].weight \in Nat /\ (best[a] = -1 \/ best[a] \in Nat)
      BY DEF Weighed, ComponentRow, Result
    <3>2. \A m, n \in Nat : m * n \in Nat
      OBVIOUS
    <3> QED
      BY <3>1, <3>2
  <2> QED
    BY <2>1
<1>2. IsFiniteSet(Weighed(c))
  BY AssessmentsAreFinite, FS_Subset DEF Weighed
<1> HIDE DEF f
<1>3. SumFunction(f) \in Nat
  BY <1>1, <1>2, SumIsNatural
<1> QED
  BY <1>3 DEF f, Weighted

\* What is written of a final grade or a component keeps to the columns.
LEMMA GradeRows ==
    /\ \A row \in GradeRow \cup {NoGrade}, n \in Nat : Renewed(row, n) \in GradeRow
    /\ \A row \in GradeRow \cup {NoGrade}, s \in GradeStatus, u \in Approver \cup {NoApprover} :
          [row EXCEPT !.status = s, !.by = u] \in GradeRow
    /\ \A a \in Weight, r \in BOOLEAN : [weight |-> a, required |-> r] \in ComponentRow
<1>1. NoGrade \in [status: {"none"}, score: Nat, by: Approver \cup {NoApprover}]
  BY DEF NoGrade
<1>2. ASSUME NEW row \in [status: GradeStatus \cup {"none"}, score: Nat, by: Approver \cup {NoApprover}],
             NEW n \in Nat, NEW s \in GradeStatus, NEW u \in Approver \cup {NoApprover}
      PROVE  Renewed(row, n) \in GradeRow /\ [row EXCEPT !.status = s, !.by = u] \in GradeRow
  BY <1>2 DEF Renewed, GradeRow, GradeStatus
<1>3. ASSUME NEW a \in Weight, NEW r \in BOOLEAN
      PROVE  [weight |-> a, required |-> r] \in ComponentRow
  <2>1. a \in 0..100
    BY FinalGradesAssumption
  <2> QED
    BY <2>1 DEF ComponentRow
<1>4. ASSUME NEW row \in GradeRow \cup {NoGrade}
      PROVE  row \in [status: GradeStatus \cup {"none"}, score: Nat, by: Approver \cup {NoApprover}]
  BY <1>1 DEF GradeRow
<1>5. ASSUME NEW row \in GradeRow \cup {NoGrade}, NEW n \in Nat
      PROVE  Renewed(row, n) \in GradeRow
  <2>1. "REOPENED" \in GradeStatus /\ NoApprover \in Approver \cup {NoApprover}
    BY DEF GradeStatus
  <2> QED
    BY <1>2, <1>4, <2>1
<1>6. ASSUME NEW row \in GradeRow \cup {NoGrade}, NEW s \in GradeStatus,
             NEW u \in Approver \cup {NoApprover}
      PROVE  [row EXCEPT !.status = s, !.by = u] \in GradeRow
  <2>1. 0 \in Nat
    OBVIOUS
  <2> QED
    BY <1>2, <1>4, <2>1
<1>7. \A row \in GradeRow \cup {NoGrade}, n \in Nat : Renewed(row, n) \in GradeRow
  BY <1>5
<1>8. \A a \in Weight, r \in BOOLEAN : [weight |-> a, required |-> r] \in ComponentRow
  BY <1>3
<1>9. \A row \in GradeRow \cup {NoGrade}, s \in GradeStatus, u \in Approver \cup {NoApprover} :
          [row EXCEPT !.status = s, !.by = u] \in GradeRow
  BY <1>6
<1> QED
  BY <1>7, <1>8, <1>9

\* The tables of the final grades and what their requests hold.
GradesAre == FinalGradesTypeOK /\ Typed(GradesSteps, GradeAsked)

\* What a request holds at each of its steps.
LEMMA GradeHolds ==
    ASSUME GradesAre, NEW h \in Handler
    PROVE  /\ handler[h].step \in ComponentSteps =>
                handler[h] \in [step: ComponentSteps, a: Assessment, weight: Weight,
                                required: BOOLEAN, sum: Nat]
           /\ handler[h].step \in CalculationSteps =>
                handler[h] \in [step: CalculationSteps, p: Participant,
                                scheme: [Assessment -> ComponentRow], best: [Assessment -> Result],
                                score: Nat, row: GradeRow \cup {NoGrade}]
           /\ handler[h].step = "grade status" =>
                handler[h] \in [step: {"grade status"}, p: Participant, status: GradeStatus,
                                by: Approver \cup {NoApprover}]
<1> DEFINE q == handler[h]
<1>1. q.step \in GradesSteps => q \in GradeAsked
  BY DEF GradesAre, Typed
<1>2. CASE q.step \in ComponentSteps
  BY <1>1, <1>2 DEF GradesSteps, GradeAsked, ComponentSteps, CalculationSteps
<1>3. CASE q.step \in CalculationSteps
  BY <1>1, <1>3 DEF GradesSteps, GradeAsked, ComponentSteps, CalculationSteps
<1>4. CASE q.step = "grade status"
  BY <1>1, <1>4 DEF GradesSteps, GradeAsked, ComponentSteps, CalculationSteps
<1> QED
  BY <1>2, <1>3, <1>4 DEF ComponentSteps, CalculationSteps

\* A request about final grades goes on with what its step needs.
LEMMA GradeRequests ==
    ASSUME Steppable, GradesAre, SubmissionsTypeOK, MarksAre, NEW h \in Handler, HandleGrade(h)
    PROVE  Becomes(h, GradeAsked)
<1> DEFINE q == handler[h]
           Calculations == [step: CalculationSteps, p: Participant,
                            scheme: [Assessment -> ComponentRow], best: [Assessment -> Result],
                            score: Nat, row: GradeRow \cup {NoGrade}]
<1>0. /\ component \in [Assessment -> ComponentRow]
      /\ \A p \in Participant : finalGrade[p] \in GradeRow \cup {NoGrade}
  BY DEF GradesAre, FinalGradesTypeOK
<1>a. Calculations \subseteq GradeAsked
  BY DEF GradeAsked
<1>b. q.step \in CalculationSteps => q \in Calculations
  BY GradeHolds
<1>c. ASSUME NEW p \in Participant, NEW s \in CalculationSteps
      PROVE  Calculating(p, s) \in GradeAsked
  BY <1>0, <1>a, <1>c DEF Calculating, Result
<1>1. CASE BeginComponent(h)
  <2>1. PICK a \in Assessment, w \in Weight, r \in BOOLEAN :
          Reads(h, [step |-> "duplicate", a |-> a, weight |-> w, required |-> r,
                    sum |-> Weights(component)])
    BY <1>1 DEF BeginComponent, Receive
  <2>2. PICK n \in Nat : n = Weights(component)
    BY <1>0, WeightsAreNatural
  <2>3. [step |-> "duplicate", a |-> a, weight |-> w, required |-> r, sum |-> n] \in GradeAsked
    BY DEF GradeAsked, ComponentSteps
  <2> QED
    BY <2>1, <2>2, <2>3, GoesOn
<1>2. CASE CheckComponent(h)
  <2>1. q \in [step: ComponentSteps, a: Assessment, weight: Weight, required: BOOLEAN, sum: Nat]
    BY <1>2, GradeHolds DEF CheckComponent, At, ComponentSteps
  <2>2. [q EXCEPT !.step = "component"] \in GradeAsked
    BY <2>1 DEF GradeAsked, ComponentSteps
  <2> QED
    BY <1>2, <2>2, GoesOn, IsDone DEF CheckComponent, Goto
<1>3. CASE BeginCalculate(h)
  BY <1>3, <1>c, GoesOn DEF BeginCalculate, Receive, CalculationSteps
<1>4. CASE BeginRecalculate(h)
  BY <1>4, <1>c, GoesOn DEF BeginRecalculate, Receive, CalculationSteps
<1>5. CASE ReadScheme(h)
  <2>1. q \in Calculations
    BY <1>5, <1>b DEF ReadScheme, At, CalculationSteps
  <2>2. [q EXCEPT !.scheme = component, !.step = "submissions"] \in Calculations
    BY <1>0, <2>1 DEF CalculationSteps
  <2> QED
    BY <1>5, <1>a, <2>2, GoesOn DEF ReadScheme
<1>6. CASE ReadSubmissions(h)
  <2>1. q \in Calculations
    BY <1>6, <1>b DEF ReadSubmissions, At, CalculationSteps
  <2>2. PICK x : x = Best(WorkScores(q.p), "work")
    OBVIOUS
  <2>3. x \in Result
    BY <2>1, <2>2, ResultsOnRecord
  <2>4. [q EXCEPT !.step = "attempts", !.best["work"] = x] \in Calculations
    BY <2>1, <2>3 DEF CalculationSteps, Assessment
  <2> QED
    BY <1>6, <1>a, <2>2, <2>4, GoesOn DEF ReadSubmissions
<1>7. CASE ReadAttempts(h)
  <2>1. q \in Calculations
    BY <1>7, <1>b DEF ReadAttempts, At, CalculationSteps
  <2>2. PICK b : b = [q.best EXCEPT !["exam"] = Best(ExamScores(q.p), "exam")]
    OBVIOUS
  <2>3. b \in [Assessment -> Result]
    BY <2>1, <2>2, ResultsOnRecord
  <2>4. PICK n : n = Weighted(q.scheme, b)
    OBVIOUS
  <2>5. n \in Nat
    BY <2>1, <2>3, <2>4, WeightedIsNatural
  <2>6. [q EXCEPT !.best = b, !.step = "grade row", !.score = n] \in Calculations
    BY <2>1, <2>3, <2>5 DEF CalculationSteps
  <2>7. \/ Finish(h)
        \/ Reads(h, [q EXCEPT !.best = b, !.step = "grade row", !.score = n])
    BY <1>7, <2>2, <2>4 DEF ReadAttempts
  <2> QED
    BY <1>a, <2>6, <2>7, GoesOn, IsDone
<1>8. CASE FindGrade(h)
  <2>1. q \in Calculations
    BY <1>8, <1>b DEF FindGrade, At, CalculationSteps
  <2>2. PICK row \in GradeRow \cup {NoGrade} : row = finalGrade[q.p]
    BY <1>0, <2>1
  <2>3. [q EXCEPT !.row = row, !.step = "store grade"] \in Calculations
    BY <2>1 DEF CalculationSteps
  <2> QED
    BY <1>8, <1>a, <2>2, <2>3, GoesOn DEF FindGrade
<1>9. CASE BeginApproveGrade(h)
  <2>1. PICK p \in Participant, u \in Approver :
          Reads(h, [step |-> "grade status", p |-> p, status |-> "APPROVED", by |-> u])
    BY <1>9 DEF BeginApproveGrade, Receive
  <2> QED
    BY <2>1, GoesOn DEF GradeAsked, GradeStatus
<1>10. CASE BeginReopenGrade(h)
  <2>1. PICK p \in Participant :
          Reads(h, [step |-> "grade status", p |-> p, status |-> "REOPENED", by |-> NoApprover])
    BY <1>10 DEF BeginReopenGrade, Receive
  <2> QED
    BY <2>1, GoesOn DEF GradeAsked, GradeStatus
<1>11. CASE CreateComponent(h) \/ StoreGrade(h) \/ UpdateGradeStatus(h)
  BY <1>11, IsDone DEF CreateComponent, StoreGrade, UpdateGradeStatus
<1> QED
  BY <1>1, <1>2, <1>3, <1>4, <1>5, <1>6, <1>7, <1>8, <1>9, <1>10, <1>11 DEF HandleGrade

\* What it writes keeps to the columns.
LEMMA GradeWrites ==
    ASSUME Steppable, GradesAre, NEW h \in Handler, HandleGrade(h)
    PROVE  FinalGradesTypeOK'
<1> DEFINE q == handler[h]
<1>0. FinalGradesTypeOK
  BY DEF GradesAre
<1>1. CASE CreateComponent(h)
  <2>1. q.a \in Assessment /\ q.weight \in Weight /\ q.required \in BOOLEAN
    BY <1>1, GradeHolds DEF CreateComponent, At, ComponentSteps
  <2>2. PICK row \in ComponentRow : row = [weight |-> q.weight, required |-> q.required]
    BY <2>1, GradeRows
  <2>3. component' = component \/ component' = [component EXCEPT ![q.a] = row]
    BY <1>1, <2>2 DEF CreateComponent
  <2> QED
    BY <1>0, <1>1, <2>1, <2>3 DEF FinalGradesTypeOK, CreateComponent
<1>2. CASE StoreGrade(h)
  <2>1. q.p \in Participant /\ q.row \in GradeRow \cup {NoGrade} /\ q.score \in Nat
    BY <1>2, GradeHolds DEF StoreGrade, At, CalculationSteps
  <2>2. PICK row \in GradeRow : row = Renewed(q.row, q.score)
    BY <2>1, GradeRows
  <2>3. finalGrade' = finalGrade \/ finalGrade' = [finalGrade EXCEPT ![q.p] = row]
    BY <1>2, <2>2 DEF StoreGrade
  <2> QED
    BY <1>0, <1>2, <2>1, <2>3 DEF FinalGradesTypeOK, StoreGrade
<1>3. CASE UpdateGradeStatus(h)
  <2>1. q.p \in Participant /\ q.status \in GradeStatus /\ q.by \in Approver \cup {NoApprover}
    BY <1>3, GradeHolds DEF UpdateGradeStatus, At
  <2>2. PICK row \in GradeRow : row = [finalGrade[q.p] EXCEPT !.status = q.status, !.by = q.by]
    BY <1>0, <2>1, GradeRows DEF FinalGradesTypeOK
  <2>3. finalGrade' = [finalGrade EXCEPT ![q.p] = row]
    BY <1>3, <2>2 DEF UpdateGradeStatus
  <2> QED
    BY <1>0, <1>3, <2>1, <2>3 DEF FinalGradesTypeOK, UpdateGradeStatus
<1>4. CASE UNCHANGED gradeTables
  BY <1>0, <1>4 DEF gradeTables, FinalGradesTypeOK
<1> QED
  BY <1>1, <1>2, <1>3, <1>4
  DEF HandleGrade, BeginComponent, CheckComponent, BeginCalculate, BeginRecalculate, ReadScheme,
      ReadSubmissions, ReadAttempts, FindGrade, BeginApproveGrade, BeginReopenGrade

\* No step of the whole changes that.
LEMMA GradesAreNext ==
    ASSUME Steppable, GradesAre, SubmissionsTypeOK, MarksAre, [Next]_vars
    PROVE  GradesAre'
<1>1. GradesSteps \in Parts
  BY DEF Parts
<1>2. Unentered(GradesSteps) \/ \E h \in Handler : HandleGrade(h)
  BY <1>1, EnteredByOwn, PartsDiffer
<1>3. Typed(GradesSteps, GradeAsked)'
  BY <1>1, <1>2, GradeRequests, GradesMove, TypedElse DEF GradesAre
<1>4. ASSUME UNCHANGED gradeTables PROVE FinalGradesTypeOK'
  BY <1>4 DEF gradeTables, FinalGradesTypeOK, GradesAre
<1>5. FinalGradesTypeOK'
  BY <1>4, GradeWrites, BookElse
<1> QED
  BY <1>3, <1>5 DEF GradesAre

\* It is so at the start, where nothing is asked yet.
LEMMA InitGradesAre == Init => GradesAre
<1> SUFFICES ASSUME Init PROVE GradesAre
  OBVIOUS
<1>1. Typed(GradesSteps, GradeAsked)
  BY InitTyped DEF Parts
<1>2. FinalGradesTypeOK
  BY DEF Init, CourseworkInit, FinalGradesInit, FinalGradesTypeOK, NoComponent, ComponentRow
<1> QED
  BY <1>1, <1>2 DEF GradesAre

\* So it is always.
LEMMA AlwaysGradesAre == Spec => []GradesAre
<1>1. Steppable /\ GradesAre /\ SubmissionsTypeOK /\ MarksAre /\ [Next]_vars => GradesAre'
  BY GradesAreNext
<1>2. WorkHeld => SubmissionsTypeOK
  BY DEF WorkHeld, WorkNumbered
<1> QED
  BY <1>1, <1>2, InitGradesAre, AlwaysSteppable, AlwaysMarksAre, WorkAlwaysHeld, PTL DEF Spec

\* Which is what the types of the final grades say, and more.
LEMMA GradesAreTyped == GradesAre => Typed(GradesSteps, GradeRequest)
<1>1. ASSUME NEW t \in GradeAsked PROVE t \in GradeRequest
  <2>1. Result \subseteq Int
    BY DEF Result
  <2> QED
    BY <2>1 DEF GradeAsked, GradeRequest, ComponentSteps, CalculationSteps
<1> QED
  BY <1>1 DEF Typed, GradesAre
=============================================================================
