# Cankonix LMS: a verification project

TLA+ models of the parts of the Lemdiklat Polri learning management system in
which requests overlap, fail halfway or rely on what they read a moment ago;
TLC runs that check them on small instances; and TLAPS proofs for all
instances. Paths below are relative to the repository.

1. [The system](#1-the-system) – its components, their state and their hazards
2. [The modules](#2-the-modules) – what each models and how it corresponds to the code
3. [The runs](#3-the-runs) – what each checks, its bounds and what it shows
4. [Fairness and deadlock](#4-fairness-and-deadlock)
5. [The proofs](#5-the-proofs)
6. [What the code does not promise](#6-what-the-code-does-not-promise)
7. [What is left out](#7-what-is-left-out)
8. [Plan](#8-plan)

## 1. The system

A monorepo. `apps/api` (NestJS, Prisma, PostgreSQL, S3-compatible storage,
Keycloak) keeps all state that matters; four Next.js portals (`apps/admin`,
`educator`, `executive`, `student`) call it over HTTP. The API is stateless
between requests and may run in several processes.

**Where concurrency comes from.** Every handler is an `async` function. Between
two awaited queries other requests of the same process, and of other processes,
run. PostgreSQL is used at its default level, READ COMMITTED, and almost no
handler locks a row: a handler reads, judges what it read, and writes by id.
What protects the data are unique indexes, conditional updates
(`updateMany ... where status`) and the few transactions with several writes.
In every module, therefore, *one awaited query is one action*; a transaction
whose writes commit together is one action; reads inside a transaction are
separate actions, because READ COMMITTED takes a new snapshot for each.

**How the components interact.** Mostly by reading each other's tables:

    QUESTION BANKS --published versions--> EXAMS, SESSIONS --> ATTEMPTS
    FILES --> SUBMISSIONS, GRADES ---+                            |
    attempts --> MARKING ------------+--> FINAL GRADES ----+      |
    ENROLLMENTS --> ATTENDANCE, CORRECTIONS, SUMMARIES ----+------+
        |                                                  v
        +--> LEARNING PROGRESS over the CATALOGUE    GRADUATION evaluations
                                                           |  (supersedes)
                                                           v
    stored files ------------------+                GRADUATION DECISIONS
                                   v                       v
                                CERTIFICATES <-------------+ --> public verification
    ORGANIZATIONS; SCHEDULES, EDUCATOR and CLASS STAFF assignments
    user accounts <--> KEYCLOAK PROVISIONING <--> Keycloak (HTTP, times out)
    all of them --> audit trail (a second write, after the commit)

The parts in capitals are modelled. For each component: its state, its
operations, what is hard, and what makes it correct.

| Component (`apps/api/src/...`) | State | Operations | Hard | Correct when |
|---|---|---|---|---|
| Exam attempts (`attempts`) | `exam_attempts`, frozen `attempt_questions`, `attempt_answers` with revisions | start, submit, saveAnswer, get | two tabs of one participant; the pool changes while a paper is drawn; the deadline | numbers without gaps, verdict agrees with the clock, complete papers, answers in time |
| Graduation (`graduation`) | rules with components and status, evaluations with snapshots | create, edit, publish and archive a rule; evaluate one or a batch | supersede and create are two commits; evaluators overlap | a verdict stands, history is kept, null never passes |
| Graduation decisions (`graduation-decisions`) | one decision per evaluation, audit entries | create, approve, correct, revoke | judged on an older read; audit after commit; the approver is optional | rows complete, trail explains the rows |
| Certificates (`certificates`) | templates with versions, certificates, revocations | template create, version, edit, status; issue, attach, revoke, verify | eligibility, template and file are checked several queries before the insert | derived from a decision that was in force, revoked with a reason, unique tokens |
| Keycloak provisioning (`keycloak-provisioning`, `user-accounts`) | `externalAuthId` here, users there | provision, linkExisting, password, status | two systems, no common transaction; lost replies | provisioning links no user that was never there, retries heal |
| Stored files (`files`) | status PENDING to ARCHIVED, object in the storage | intent, complete, activate, archive | two systems; stale transitions | confirmed before used |
| Assignments and submissions (`assignments`) | the assignment, submissions by attempt, files, grades | draft, submit, edit, attach, grade, return; status, ceiling and limit of the assignment | limit of attempts on one path only; grade before transition check | attempts within the limit, graded work unchanged, marks stand on grades |
| Grading (`grading`) | marks on answers, attempt score, weights of a scheme | auto-grade, manual grade, add a component | sums of what each grader saw | score = sum of the marks; weights within 100 |
| Final grades (`final-grades`) | number, status and approver | calculate, recalculate, approve, reopen | recalculation beside approval | an approved grade names its approver and is left by reopening only |
| Enrollments (`enrollments`) | status, class, completion date | create, change status, transfer | judged on older reads | completed exactly when dated |
| Attendance, corrections, summaries | sessions, records, corrections, counts | create and move a session, record, bulk, correct, refresh | a session closes meanwhile; old counts replace new ones; broken correction chains | closed records change by corrections only; summaries count the records |
| Question banks (`question-banks`) | questions, versions DRAFT, PUBLISHED, SUPERSEDED | create, retype, retire; draft, edit, publish | publication reads the predecessor outside the transaction | at most one published version, never none again; published text never edited |
| Exams and sessions (`exams`, `exam-sessions`) | settings, blueprint, statuses, participants | edit, blueprint, status, add participant | status checked on an older read | validated against what is published; scheduled exams do not change |
| Learning catalogue (`learning-*`) | meetings, types, activities in order, materials with versions | create, edit, publish, archive, reorder, new version | a gate judged on four queries; versions replaced outside the transaction | an open activity has what its type requires |
| Learning progress (`learning-progress`) | status per activity, a summary per enrollment | record; recount | the recount is a second commit from two queries | what was recorded is counted |
| Organizations (`organizations`) | a tree by parent | create, move | one query per ancestor, then a write | acyclic |
| Schedules, educator and class staff assignments (`academic-schedules`, `educator-assignments`, `class-staff-assignments`) | periods with a status | create, update, cancel or end | search for overlaps, then write | no two at once |
| Student exam runtime (`apps/student/src/features/exam`) | local edits, timers, acknowledged revisions | debounced save, flush, submit, expiry tick | edits while a save is in flight | what was typed reaches the server |
| Role assignments (`authorization`) | roles, permissions, scopes, validity | assign, add and remove scope, evaluate | the last scope removed reads as no restriction | scopes only narrow |
| Audit (`audit`) | entries | record | after the commit, may fail (documented at `audit.service.ts:54`) | see the decisions' trail |
| Authentication (`auth`) | cached keys | verify a token | key rotation | not modelled |
| Reference data, reporting, health, scripts, portals | rows; none | CRUD; reads | – | not modelled |

`PROJECT.json` lists the components with their sources and, under `hazards`, the
places where the code is hard to test, each with the properties that cover it.
Places of the same kind that are not in that list:
`graduation.service.ts:141` and `:179`, `graduation.repository.ts:171`,
`graduation-decision.service.ts:101`, `certificate.service.ts:169` and `:207`,
`keycloak-admin-client.ts:60`, `assignments.service.ts:143` and
`exam-runtime.tsx:146`; section 6 says what happens there.

## 2. The modules

| Module | Role |
|---|---|
| `ExamAttempts` | the attempt runtime, query by query |
| `ExamAttemptRegister` | what it promises: one atomic step per endpoint |
| `GraduationRules` | the pure rule engine, as operators |
| `RuleEngine` | the engine over the results of one participant as they improve (extends `GraduationRules`) |
| `Graduation` | rules and evaluations, query by query (extends `GraduationRules`) |
| `Certificates` | templates, issuance, revocation and verification, query by query, against the files and graduation modules |
| `CertificateRegister` | what the register promises to third parties |
| `KeycloakProvisioning` | accounts linked to Keycloak users, call by call |
| `Requests` | what all parts of the academy share: requests in flight, reads and commits |
| `StoredFiles`, `Submissions` | uploads; assignments, work handed in, its files and grades |
| `Grading`, `FinalGrades` | marks on exam answers; schemes and final grades over all results |
| `Coursework` | those four composed; promises `AssignmentWork`, `MarkBook` |
| `Enrollments`, `Attendance` | enrollments; sessions, records, corrections and summaries; promise `RollBook` |
| `QuestionVersions`, `ExamSetup` | questions and versions; an exam with its blueprint and session; promise `ExamPreparation` |
| `GraduationDecisions` | decisions and their audit trail; promise `DecisionLifecycle` |
| `Learning` | the catalogue of a class subject and the progress through it; promises `Courseware` |
| `Organizations`, `Calendar` | the hierarchy; schedules and assignments; promise `Institution` |
| `Academy` | all modules from `Requests` on, composed |
| `MC...` | values of the constants for TLC |
| `...Proofs` | theorems and their proofs |
| `Sums` | lemmas on sums over finite sets, used by several of them |

Common conventions. `handler` (in `ExamAttempts`, `request`) holds the requests
in flight: `step` names the next awaited query, the other fields are the locals
the handler has by then. `Idle` is a free slot. An action's guard is the
handler's condition for coming that far; a request that the code refuses
finishes, and a refusal that only repeats a read is left out. `Abandon` ends a
request between two queries: a lost connection, an aborted transaction, a
restart. A definition headed *Mutation* is a plausible bug and is not part of
the specification. A *history variable* records what happened for a property to
refer to: `stale` in `ExamAttempts`, `dropped` in `Graduation`, `once` in
`Certificates` and `crossed` in `Requests` guard nothing; `lost` in
`GraduationDecisions` also counts against its bound `MaxLost`.

**ExamAttempts** (`attempts/attempts.service.ts`). `attempt` is
`exam_attempts` with the frozen paper, keyed by the unique pair
(participant, number); `answer` is `attempt_answers` with payload, revision and
the server time it was judged by; `published` is the question pool; `now` the
server clock, which a handler reads once, at the start (`new Date()` in the
service methods, kept as `at`). `start` is
`ReceiveStart`, `FindParticipant`, `FindLive`, `CountAttempts`, `DrawQuestions`
(once per blueprint rule) and `CreateAttempt`, the only write, where the unique
index refuses a taken number; `submit` is `ReceiveSubmit`, `ReadDeadline`,
`ReadStatus`, `CloseAttempt`; `saveAnswer` is `ReceiveSave`, `CheckActive`,
`CheckCurrent` (replay, stale revision), `UpsertAnswer`. Questions are numbers
in the order of their ids, because the code draws by id order. `Caller[r]` are
the participants who may send the request `r`: nothing keeps two requests of one
participant apart, since one tab of the student's client already overlaps its
debounced saves with a submit. `stale` holds the requests that another one has
overtaken: it has written, for the same attempt or participant, what they read.

**Graduation** (`graduation/*`). `rule` (status, components), `results` (what
attendance, grading and exams have on record, changed by `RecordResults`),
`evaluation` keyed by enrollment and its place in the order of writing.
`updateRule` and `changeStatus` are a read and a write by id; an evaluation is
three reads of the context, `Judge`, `Supersede` and `CreateEvaluation`, which
commit separately; a batch repeats it over the cohort. `GraduationRules` works
in hundredths: the mean of scores is rounded as `toFixed(2)` of a binary float
does, where a tie can go either way, so `TieUp` fixes the direction per value.

**Certificates** (`certificates/*`). `template` by version of one code,
`certificate` and `revocation` by decision (both unique), `answer` the last
public verification. Issuance is six queries from `FindByDecision` to
`CreateCertificate`. The number and the verification code are drawn together
and stand as one token. `once` remembers the decisions that were in force, passed
the participant and rested on a standing ELIGIBLE evaluation at one and the same
moment, the templates that were ACTIVE and the files that were available. The
environment writes, supersedes, approves, revokes
and corrects what issuance reads, including the returns to force that the
overlaps of `GraduationDecisions` allow, and moves the files.

**KeycloakProvisioning** (`keycloak-provisioning/*`, `user-accounts`).
`keycloak` is the realm's users by subject, `link` is `external_auth_id`.
`provision` and `linkExisting` share their steps from `FindByUsername` on;
`SetExternalAuthId` is the compare-and-set. `LoseCreated` is a creation whose
answer is lost, `RejectStored` a rejection that `safeGetUser` takes for
absence. The operator clears a link or sets any identifier that no other account
has, one of no user of the realm included (`Stray`): `UserAccountsService.update`
asks Keycloak nothing. Keycloak's console adds, deletes
and disables users. Keycloak is external: unique names and addresses, and
subjects that are never used again, are taken from how the service relies on
them. Names are in the form in which Keycloak keeps them.

### The academy

`Requests` carries what the modules composed in `Academy` have in common. A call
arrives with the answer to its first query (`Receive`), goes on (`Goto`), and
ends by a commit (`Commit`) or without one (`Finish`). `crossed` remembers the
requests during which another one has committed. `calls`, one of `Mixes`, is the
set of calls that clients make together in a behaviour; it is chosen once and
nothing changes it. It keeps instances small: two slots that serve every kind of
call at once would have the states of all pairs of all parts, although only
those calls can disturb each other that share a table. A part none of whose
calls is made idles, with rows already there.

**What is promised of requests that overlap.** The code has no locks, and for
most endpoints section 6 names an overlap that breaks what the task documents
ask for. Two kinds of properties remain. Some hold whatever overlaps, because a
single statement writes the columns they relate; they are invariants and, but
for the types, all are proved. The others hold for a request that no other one
has crossed:

    KeepsX == X!Init /\ [][Promised(X!Next, X!vars)]_(X!vars)

says of every step that it is a step of the abstract specification X, changes
nothing of it, or belongs to a crossed request. Two requests may be in flight
and be lost anywhere; the request that read before the other's commit is
excused, and nobody else. That is a refinement of the sequential behaviour, with
the state that lost and crossed requests leave as a starting point: a first
request's partial writes must not make the next, undisturbed one misbehave.

**Submissions** (`assignments/*`, TASK-024). `submission` by participant and attempt
number, `grade` and `attached` by submission, `assignment` one row. `submit`
judges the assignment, counts, looks for a draft and hands in a draft or a new
row; `saveDraft` and `edit` write drafts; `gradeSubmission` is up to three
commits (the grade, GRADED, RETURNED). **StoredFiles** (`files/*`): the row here
and the object in the storage; `PutObject` is the client with its signed URL,
whenever it likes. **Grading** (`grading/*`): marking is a transaction of several
statements; a written row is locked until its end, what is read is not.
**FinalGrades** (`final-grades/*`): `calculate` reads scheme, scores and grades
one after another and writes number and status back from the row it read.

**Enrollments** (`enrollments/*`) and **Attendance** (`attendance*/*`, TASK-030 to
032). `ClassOf` gives the class of each session. A record, a bulk of records and
a correction end with a refresh of the summaries that is several count-and-write
pairs, one for each scope; the counting itself is modelled. A refresh that fails
is only logged, which is its loss.

**QuestionVersions** (`question-banks/*`) and **ExamSetup** (`exams/*`,
`exam-sessions/*`). `publish` reads the published version and then, in a
transaction, supersedes *that* one and publishes the draft. Validation counts
the pool rule by rule.

**GraduationDecisions** (`graduation-decisions/*`). One row per evaluation
(unique), each operation a read, a write by id, and `Audit` after the commit. The
approver of `ApproveGraduationDecisionDto` is optional: a decision can be in force
with no name on it, which is why `approved` (the timestamp `approvedAt`) and
`approvedBy` are two columns here as there.

**Learning** (`learning-*/*`, TASK-020 to 024). One meeting, its activities in
order, types, and materials with versions. A change of an activity, by
`changeStatus` or by `update`, which may write status, type, `isRequired` and
sequence at once, is a request that holds the row as it shall be, the columns it
writes and the queries it still has to ask, one action each in the endpoint's order
(`AskedByStatus`, `AskedByEdit`, `AskedByKind`). `update` may move an activity to
any free place. `create` inserts and judges afterwards. The
summary of a participant is computed from two queries sent at once, each of
which may be answered first.

**Organizations** and **Calendar**. A move walks up one ancestor per query. The
three calendars search for overlaps and write: schedules compare instants as
half-open periods, assignments whole days, inclusive.

**Refinement.** `ExamAttempts` implements `ExamAttemptRegister`, whatever
overlaps, but for the writes of overtaken requests: of these the register says
separately what they may still do (`Late`). `Certificates` implements
`CertificateRegister`, whatever overlaps, with `standing[d]` computed from the
certificate and revocation rows (`Standing`). The seven abstract specifications
of the academy are kept as described above, by the identity on tables, but for
`MarkBook`, whose `due` and `best` are computed from answers, grades and scores,
and for the limit of attempts in `AssignmentWork`, which binds only where nobody
saves drafts (`limited`).

## 3. The runs

| Run | Checks | Distinct states |
|---|---|---|
| `attempts_overlap` | `TypeOK` `Gapless` `VerdictByTheClock` `PaperComplete` `AnswersInTime` `ReadsStayTrue` `ClosedForGood` | 231 thousand |
| `attempts_register` | `KeepsRegister` | 758 thousand |
| `attempts_two_live` | `OneLiveAttempt`, violated | |
| `graduation_rules` | `NothingObservedFails` `RaiseKeepsPassed` | 1125 |
| `graduation_evaluate` | `TypeOK` `VerdictStands` `HistoryKept` | 1.05 million |
| `graduation_replaced` | `ReplacedInTheEnd` | 81 thousand |
| `graduation_lost_verdict` | `VerdictNeverLost`, violated | |
| `certificates_issue` | `TypeOK` `WithdrawnWithReason` `DerivedNotAuthored` `MadeFromReleased` `VersionsGapless` `KeepsRegister` | 788 thousand |
| `certificates_no_reason` | `VerifyGivesReason`, violated | |
| `provisioning_heals` | `TypeOK` `LinksHonest` `LiveLinkKept` `Healed` | 1.51 million |
| `academy` | `TypeOK`; whatever overlaps: `MarksHaveGrades` `AttachedWasConfirmed` `ApprovedByName` `CompletedIsDated` `RowComplete` `TrailExplains` `NeverUnpublished`; uncrossed: `KeepsAssignmentWork` `KeepsMarkBook` `KeepsRollBook` `FreshWhenAnswered` `KeepsPreparation` `KeepsLifecycle` `KeepsCourseware` `KeepsInstitution` | 1.04 million |
| `activities_ungated` | `PublishedWasGated`, violated | |

**attempts_overlap.** Any two requests of two participants, one of whom is not
eligible; two blueprint rules that share a question version, one version
that authors publish and supersede; two attempts; a duration longer than the
session, so that its end cuts the time short, and a clock that reaches it. Two
requests are enough for every race of two queries, and both the deadline and
the instant before it occur. Overlapping starts, saves and submits leave
numbers without gaps, complete papers without repetitions, a verdict that
agrees with the recorded time, and no answer sent out of time.

**attempts_register.** Any two requests of one participant, overlapping query by
query; two payloads, two revisions, two attempts, a clock that reaches the
deadline. A request that none has overtaken acts atomically, as the register says.
One that was overtaken - a start by a start, a submit by a submit, a save by
either a submit or another save of the same question - still does no more than
open the next attempt, restamp a closed one by its own deadline, or store late an
answer that was sent in time; a request that the register never allows has no
excuse in being one of several.

**attempts_two_live.** The finding of section 6.1.

**graduation_rules.** Every combination of grades none, 0, 59.99, 60.00 and
60.01 in three class subjects of two subjects, and of attendance and an exam
score, missing, zero or sufficient; every rule made of six components; steps
raise one result. 59.995 is the tie that rounds up. Raising a result never
loses a component, and nothing missing passes, not even a threshold of zero.

**graduation_evaluate.** Two requests on one enrollment, two rules that are
published and archived meanwhile, two evaluations, requests lost anywhere. A
verdict is missing only where a request was lost between its two writes.

**graduation_replaced.** Two enrollments, batches and single evaluations that
overlap, three evaluations each: each superseded verdict is replaced.

**graduation_lost_verdict.** The finding of section 6.2.

**certificates_issue.** One decision whose status and evidence change at any
time, two template versions, one file, two reasons, any two requests. A certificate
has behind it one moment at which its decision was in force and favourable and its
evidence standing and ELIGIBLE, one at which its template was ACTIVE, and one at
which its file was available, although all of these are read queries apart and may
be gone when the row is written. A template archived from DRAFT, a file archived
from PENDING and an evaluation superseded from NOT_ELIGIBLE occur and are behind none.
With one token the draws that fail are exercised too; that two decisions never
share a token is a theorem (`RegisterKept`) for any number of both.
**certificates_no_reason.** The finding of section 6.3.

**provisioning_heals.** Two accounts with the same user name, a second name
that only the console gives, three users, an identifier of none, two requests, one
fault and two changes from outside. That is enough for: a lost creation and its
retry; an operator's change during a request together with a fault; an identifier
of no user in a link that provisioning then meets; two requests that create, adopt
and link the same user; deletion of a linked user.

**academy.** Two requests in each of 53 mixes of calls, grouped in `MCAcademy`
by the tables they share: in a mix stand calls of which one reads or writes what
another writes. One participant with two attempts and one file; two answers, one
of them objective; two components of different weights; one enrollment, class
and session, with one correction; one question with four versions and two types,
two blueprint rules that need one and two published versions; one decision,
approved with a name or without, one lost audit entry; two activities on three
places, two types, three versions, at most one `update` of an activity beside
any other call (`MaxEdits`: two of them differ from an update beside a status
change only in the columns each writes); three organizations, the least that a
cycle of two moves and a walk of two queries needs; two entries in each calendar
over periods that touch, overlap and have no end. Two requests are enough for
every race of two queries, which is what the code's reads and writes by id
allow; a third actor occurs as what an earlier request left behind. Requests are
lost between any two queries. What it shows: a grade beside the work it grades,
a confirmation before each attachment, an approver beside each approved final
grade (the grade's DTO requires one; that of a graduation decision does not, so
there it is the timestamp that stands beside the approval, with a name or
without), a date beside each completion, a reason beside each revocation, a
published version once there was one, and a trail that explains the decisions
hold through every overlap and loss; and every request that nobody crosses does
what the task documents ask for, its recount included (`Courseware!Summarise`).
What *crossed* requests may do is not judged by the `Keeps...` properties at
all: they show the sequential behaviour on every state that overlaps and losses
leave behind. `FreshWhenAnswered`: when a change of the roll is answered,
uncrossed and with no refresh failed, each of its scopes shows what a recount
would give.

**activities_ungated.** The finding of section 6.4, with one request.

Symmetry (interchangeable requests) is used only in runs without liveness.

## 4. Fairness and deadlock

`Graduation!FairSpec` and `KeycloakProvisioning!FairSpec` have weak fairness
for the continuation of every request in flight, and for nothing else. Node's
event loop resumes an awaited query when its answer arrives, and every call to
Keycloak returns by an answer or by `requestTimeoutMs`
(`keycloak-admin-client.ts:306`). Nobody is obliged to call, edit or publish.
`ReplacedInTheEnd` excludes lost requests (`Failing = FALSE`): with them it is
false, which is finding 6.2. `Healed` is conditional: *if* provisioning is
asked for an account again and again, then its link is live, or in a conflict
that only an operator can settle, again and again. Faults and changes from
outside are bounded, so in the end they stop, as retrying presupposes.

`CHECK_DEADLOCK FALSE` stands where the instance comes to rest: in
`graduation_rules` when all results are at their best, in `graduation_replaced`
when the bound on evaluations is used up, in `academy` when the calls of a mix
have nothing left to change (every version published, every decision revoked).
All other passing runs check for deadlock.

## 5. The proofs

For all values of the constants, under the assumptions the modules state, which
type the constants, say that "nothing" is no value, that participants, enrolled
persons, attendance sessions, questions, items of the question bank and activities
are finitely many, that full scores are positive, and that there is at least one
activity type and one configuration of an exam (`ConstantsAssumption` of the
attempts, `RulesAssumption`, `EngineAssumption`, `GraduationAssumption`,
`CertificateAssumption`, `NothingAssumption`, `ProvisioningAssumption`, and in the
academy `SubmissionsAssumption`, `GradingAssumption`, `FinalGradesAssumption`,
`EnrollmentsAssumption`, `AttendanceAssumption`, `QuestionsAssumption`,
`ExamSetupAssumption`, `DecisionAssumption`, `LearningAssumption`,
`OrganizationsAssumption`, `CalendarAssumption`). `PeriodsSuffice` says that the
entries an instance begins with fit into its periods. Rows are finitely many in any
database; a full score of 0 is refused by `AssessmentsService` (`maxScore` is `> 0`,
`assessments.service.ts:45`), and where the calculation meets one all the same it
takes 100 in its place (`final-grades.repository.ts:112`); the types and the
configuration are what the rows that are there at the start refer to.

| Theorem | Establishes |
|---|---|
| `ExamAttemptsProofs!TypesCorrect`, `NumbersGapless`, `VerdictCorrect`, `AnswersCorrect`, `ReadsCorrect`, `PapersComplete` | `[]` of `TypeOK`, `Gapless`, `VerdictByTheClock`, `AnswersInTime`, `ReadsStayTrue`, `PaperComplete` |
| `ExamAttemptsProofs!ClosedStaysClosed` | `Spec => ClosedForGood` |
| `ExamAttemptsProofs!RegisterKept` | `Spec => KeepsRegister`, without further assumption |
| `GraduationProofs!TypesCorrect`, `VerdictsCorrect`, `HistoryCorrect` | `[]TypeOK`, `[]VerdictStands`, `Spec => HistoryKept` |
| `GraduationProofs!RaisesKeepPassed`, `NothingPassesUnseen` | of `RuleEngine`, `EngineSpec => RaiseKeepsPassed`, `[]NothingObservedFails` |
| `CertificatesProofs!TypeCorrect`, `RevocationsExplained`, `CertificatesDerived`, `CertificatesReleased`, `VersionsInOrder` | `[]` of the five invariants of `certificates_issue` |
| `CertificatesProofs!RegisterKept` | `Spec => KeepsRegister`, without further assumption |
| `ProvisioningProofs!TypesCorrect`, `LinksCorrect`, `LiveLinksKept` | `[]TypeOK`, `[]LinksHonest`, `Spec => LiveLinkKept` |
| `AcademyProofs!MarksStandOnGrades`, `OnlyConfirmedIsAttached`, `ApprovedGradesAreSigned`, `CompletedEnrollmentsAreDated`, `DecisionsAreComplete`, `TrailExplainsDecisions` | `[]` of `MarksHaveGrades`, `AttachedWasConfirmed`, `ApprovedByName`, `CompletedIsDated`, `RowComplete`, `TrailExplains` |
| `AcademyProofs!PublishedStaysPublished` | `Spec => NeverUnpublished` |
| `AcademyProofs!LifecycleKept`, `InstitutionKept` | `Spec => KeepsLifecycle`, `KeepsInstitution` |
| `CourseworkProofs!AssignmentWorkKept`, `MarkBookKept`, `CoursewareKept` | `Spec => KeepsAssignmentWork`, `KeepsMarkBook`, `KeepsCourseware` |
| `RegistersProofs!RollBookKept`, `PreparationKept`, `CountsFreshWhenAnswered` | `Spec => KeepsRollBook`, `KeepsPreparation`, `FreshWhenAnswered` |
| `RegistersProofs!AcademyTyped` | `[]TypeOK` of the academy, all components and slots |

*The argument.* None of the invariants is inductive alone, because a handler
writes by what it read some queries ago. Each proof therefore adds, per step of
a handler, what the handler may still rely on: which of the facts it read cannot
be undone by anybody else. For attempts (`ReadsStayTrue`) these are that rows
exist, keep start, deadline and paper, and that lower numbers are taken; *not*
that an attempt is still live. For certificates: that what the request has found
in force, in use or available is remembered as such (`once`), each from the
query on that looked at it. Every action is shown to preserve the strengthening
(one lemma per group of actions, steps that change no table by one common
lemma). A gapless set of numbers whose cardinality is known (`CountIsLast`) is
what makes `attemptNo = count + 1` free.

For `ExamAttempts` the refinement also needs `StatusStaysTrue`: what a request
has read of status, revision and the number of attempts is still so while it is
not in `stale`. It is inductive because each write makes stale just those
requests that have read what it writes. The writing step of an overtaken request
is then compared with what the register's `Late` steps allow. In both
refinements only the writing steps take a step of the register; all others
stutter. `PaperComplete` needs of the drawing that each of its steps has taken,
for every rule it has passed, exactly that rule's number of questions that match
it and none of them twice.

*Graduation.* Evaluations of a participant are numbered without gaps (`Gapless`),
so the number after their count is free (`NextIsFree`) and a write replaces no
row. `VerdictStands` says that whoever was judged under a rule has a standing
verdict under it, or a request is about to write one, or one was lost that had
superseded the last. With the types and the locals of each request (`Known`)
these are inductive: the step that supersedes is the one that leads to the
write, it supersedes under the rule it will write under, and only the write or
a loss leads out of it.

*The rule engine.* `RaisesKeepPassed` holds for all grades and thresholds, however
large, and wherever a tied mean falls (`TieUp`): the quotient and the remainder of
a larger sum are in order with those of a smaller one (`QuotientsInOrder`), so
rounding keeps the order of means (`RoundedInOrder`), the mean is taken over the
same subjects before and after (`MeanRaised`), and the best grade of a subject is
the greatest of a finite set (`BestRaised`). `EngineAssumption` is all
that `RuleEngine` assumes: the components are well-formed as `validateRuleComponents`
demands, and results are natural numbers.

*Provisioning.* A subject that Keycloak has created is never used again, so what
a request once read of it stays true when the user is deleted: it was created,
and once dead it is dead for good. `LinksHonest` needs that every subject a
request is about to link was created, also when the link it starts from is an
operator's identifier of no user; `LiveLinkKept` that a provision past the
look at the stored link has seen no live user behind it, or was refused the look.

*The academy.* All its theorems are about `Academy!Spec`: the whole composition,
any number of requests, any mix of calls. `AcademyProofs` has what the
composition needs and no component would show: every slot holds a request of
some component, a step of one component moves its own requests only and leaves
the tables of the others alone, and a lost request writes nothing. One lemma per
component (`...Else`) reduces a step of the academy, for the tables of that
component, to its own actions, a lost request or a stutter. The three modules
extend one another, `AcademyProofs`, `CourseworkProofs`, `RegistersProofs`,
because `AcademyTyped` needs them all; what they share is in the first sections
of `AcademyProofs`. The strengthenings are then local. `MarksHaveGrades` needs
that a request about to write GRADED or RETURNED has its grade stored, and that
nothing removes one; that work with a grade was handed in needs that no write
moves handed-in work back to a draft. `AttachedWasConfirmed` needs that a file's
confirmation is for good, so an attachment may rest on an old read.
`TrailExplains` carries, for each request between its commit and its audit
entry, the act still to be told. `NeverUnpublished` is an action property: the
only step that supersedes publishes another version in the same transaction.

*The promises of uncrossed requests.* `Undisturbed` is the fact they share: in
every step the tables stay as they are, or all other requests in flight are
crossed from then on. So all that a request has read is still so while it is not
crossed, and per step of its handler that is an invariant: `Fresh` for
decisions, `MoveKnown` and `EntryKnown` for the institution in `AcademyProofs`,
`RollKnown` for the roll, `CountKnown` for its counts and `PreparationKnown` for
questions and exams in `RegistersProofs`; `WorkKnows` for the work, `BookKnown` for
marks, schemes and final grades, and `CourseKnown` for the courseware in
`CourseworkProofs`. Beside it stands what even a crossed request keeps, the rows and
their types (`WorkHolds`). With that, a
commit is a step of the abstract specification, belongs to a crossed request, or
changes nothing. Seven of them take more than the reading:

- a moved organization stays in a tree because the walk has left behind a set of
  ancestors, closed under `parent` and without the moved one, that reaches the
  root (`TreeMoved`);
- the number of a new attempt is the next because the drafts and the rest of a
  participant's work are counted together (`NextAttempt`), and the latest of
  them is a greatest element (`LatestIsGreatest`); there and in `Graduation` the
  prover has no induction, and the least counterexample that `WFMin` gives
  stands in for it;
- an exam is validated rule by rule: the pools counted so far cover the rules that
  are no longer left, and a pool has a size because the questions are finitely
  many (`PoolCounted`). The attempt to prove `KeepsPreparation` also showed that it
  first said too much: it let a publication retire *every* published version,
  which held in a run with three versions only because the two that crossed
  publications leave need a fourth to show. It now says what `findPublished` does,
  and the run has four;
- what the courseware promises of a request rests on several reads of it: the
  gate on the type, the meeting, the place and the count of contents, of which
  each endpoint asks those it needs in its own order, so that a change is known to
  have passed those that are no longer left (`GatePassed`, `CatalogKnown`), a
  version on the last one and the published one (`MaterialKnown`), a summary on
  two counts (`ProgressKnown`). Activities are never deleted, so an order that
  names each once fills all their places (`OrderFills`); the greatest number of a
  version is again a greatest element of a finite set; and that a percentage is 0
  when nothing is done and 100 when all is takes the size of the sets counted
  (`ShareOfAll`), for which the activities are assumed finitely many;
- a refresh leaves behind it the scopes it has dealt with: each is still to come
  or its row is what a recount gives (`CountKnown`). The rows of persons are dealt
  with one by one in the order of a list that names each person of the class
  (`SetToSeq` of a finite set), and the tail of a list names what its head does not
  (`TailLeft`). That a stored count equals a recount takes that the tables read
  query by query are those of the moment it is stored;
- a score and the weights of a scheme are sums, which the community modules define
  by a fold, so a recursion. `Sums` first shows what a fold over integers
  is (`SumUnfolds`: the sum of nothing is 0, any other sum is that of one member and
  the rest), with the least set for which a statement fails in place of an
  induction, then that a sum of integers is one and that a sum changes by what one
  of its terms changes (`SumOfChanged`), which is what keeps the weights within 100.
  A marking transaction sees its own rows over those of others (`Seen`), so what it
  has done so far is part of what it knows: the answers it set out to mark, those
  it still has to, and for each of the others the row that the rule or the grader
  gives over the manual mark first read (`Judged`). A calculation knows the scheme
  and the best results it has read, and that no required one is missing;
- a record of the roll may be one of many in one transaction, so the roll book's
  step is judged on the whole set of marks.

*The types of the academy.* `TypeOK` is proved component by component, although no
component's types are an invariant alone: a handler writes back what it has read
some queries earlier, so the tables are typed only if the slots are, and the slots
only if the tables are. `Staged` says that a slot is idle or at a step of exactly
one component, and `Typed(S, R)` that whoever is at a step of `S` holds a request of
`R`. The steps of a component are entered by its own handlers only (`EnteredByOwn`),
so what is left to show for each is that its actions put requests of its kind into
their slots (`Becomes`, `TypedElse`) and rows of its kind into its tables. There is
one invariant for each component: `EnrollmentsAre`, `QuestionsAre`, `DecisionsAre`
and `InstitutionAsked` in `AcademyProofs`; `WorkTyped`, `FilesTyped`, `MarksAre` and
`GradesAre` in `CourseworkProofs`; `AttendanceAre`, `ExamsAre` and `LearningAre` in
`RegistersProofs`, where `AcademyTyped` puts them together. Several are narrower
than `TypeOK`, and have to be, because more than the shape of a row is at stake:

- a change that writes into a row finds one there, although it was looked up some
  queries ago: an enrollment that is moved, a question that changes its type, a
  decision that is corrected is never gone by then;
- a first version of a material is written where there is none, and by one request
  at most; any other is at most one past the last (`MaterialsHeld`). Otherwise the
  versions would not be a sequence;
- what is counted and computed is a natural number: the score of an attempt is a sum
  over finitely many questions, a final grade a weighted sum whose quotients have
  full scores other than 0 below them, a percentage of attendance a quotient that is
  not taken of an empty roll, and the presence of a class is counted over finitely
  many sessions and persons;
- which entry a decision's audit holds depends on the act, so `DecisionAsked` has the
  acts apart, where `DecisionRequest` mixes them.

The attempt to prove it corrected the models in two ways. Five assumptions that the
instances satisfied had not been stated (finitely many sessions and questions,
positive full scores, a type and a configuration to begin with). And the type of a
correction's request said that the status it replaces is one that an instance
records, where it is any status on record: they need not be the same, since the
roll may begin with others.

Only model-checked: all liveness (`ReplacedInTheEnd`, `Healed`), which the
prover cannot do. Every invariant and every action property of the passing runs is
a theorem.

## 6. What the code does not promise

### Findings: runs that expect a violation

1. **Two live attempts** (`attempts_two_live`, `attempts.service.ts:58`). A
   start that finds no live attempt, and counts only after another start has
   committed, gets number 2: both rows are live. `exam-load-security.test.cjs:971`
   says "exactly one attempt row exists, so no participant can end up with two
   active attempts".
2. **A lost verdict** (`graduation_lost_verdict`, `graduation.service.ts:256`).
   The comment there says the previous verdict is still live if the write
   fails; the supersession is committed before the write is tried.
3. **A revocation without its reason** (`certificates_no_reason`,
   `certificate.repository.ts:74`). The record made from the row drops the
   revocation, so verification answers REVOKED with no reason;
   `certificate-revocation.test.cjs:490` expects it, on an in-memory repository.
4. **A published activity without its content** (`activities_ungated`,
   `learning-activities.service.ts:66`). `create` inserts the row as PUBLISHED
   and judges it afterwards: the answer is 422 and the row stays. The comment at
   `:78` says that the gate applies so that no invalid published row is left
   behind.

### Overlaps the models contain and no property forbids

The modules have these behaviours; the properties are stated so that they hold
beside them. Most contradict a sentence of the repository.

*Attempts, graduation, certificates, Keycloak*

- A second submit that read IN_PROGRESS restamps a closed attempt
  (`exam-load-security.test.cjs:1012`), a save checked before the submit writes
  after it (`:849`), and two saves of one revision overwrite each other
  (`attempts.service.ts:196`). One tab is enough for them: the student's client
  sends debounced saves that overlap, and submits without awaiting them
  (`exam-runtime.tsx`). `KeepsRegister` does not exclude them; it says that only
  an overtaken request does such a thing, and how far it can go.
- A rule is edited although published in between (`graduation.service.ts:64`),
  and an archived or published rule goes back (`:426`), by overlapping requests.
- A decision is approved without an approver: `approvedByUserId` is optional
  (`graduation-decision.dto.ts:60-65`) and null is passed on and written
  (`graduation-decision.controller.ts:77`, `graduation-decision.service.ts:149`).
  One call does it. `RowComplete` says of an approver only that there is none
  without an approval.
- A revoked decision is approved again by an overlapping approval
  (`graduation-decision.service.ts:209`), one decision is approved twice
  (`:130`), and one is recorded against an evaluation just superseded (`:49`).
- A decision is checked, then revoked, then certified
  (`certificate.repository.ts:191` says it cannot be), an ACTIVE template is
  edited (`certificate.service.ts:129`), and an archived template becomes active
  again (`certificate-rules.ts:128`). `DerivedNotAuthored` is the part that
  survives: at one moment the decision was in force and its evidence eligible.
- An operator stores any identifier as a link, one that no Keycloak user has
  included (`user-accounts.service.ts:132`). `LinksHonest` is about all others;
  `Healed` says that provisioning asked again and again replaces even such a link
  by a live one, or ends in a conflict.
- A rejection of any kind while the stored Keycloak user is read counts as its
  absence (`keycloak-provisioning.service.ts:648`), so `provision` may replace a
  link that an operator assigned. `LiveLinkKept` names this exception.
- The third answer of `link` (`:427`, "typically a transient database error") is
  reached only when the link was cleared meanwhile: a failing query throws.
- Keycloak names are compared exactly (`keycloak-admin-client.ts:60`). For an
  account whose name the server keeps in another spelling, a retry does not find
  the user and ends in a conflict. The model takes names as the server keeps
  them; how it spells them is not in this repository.
- The evidence of one evaluation is read by separate queries
  (`graduation.repository.ts:171`) and may never have been true at one time.

*Work and grades*

- Grading a RETURNED submission again stores the grade and then answers 422
  (`submissions.service.ts:449`, `:471`). Files of work handed in with nothing
  else may be detached. Two submissions at once exceed `attemptsAllowed`.
- A signed URL still works after the confirmation (`files.service.ts:153`): the
  bytes that were confirmed can be replaced.
- `calculate` on an APPROVED grade overwrites its number and leaves it APPROVED.
  A calculation that crosses an approval undoes it, one that crosses a reopening
  restores it. An automatic mark that crosses a manual one can leave a final mark
  that is neither. Two components added at once can exceed 100 percent.
  `createScheme` validates components and does not store them.
- Whether a new ceiling is below a grade is judged on the first 100 submissions
  (`assignments.service.ts:143`).

*Attendance*

- A record that crosses the closing changes a closed session, which
  `attendance-corrections.service.ts:49` calls possible by corrections only;
  CLOSED may also go back to OPEN. Two corrections at once name the same
  previous status. Those enrolled without a class are recorded anywhere.
- A session created as CLOSED, and a transfer, refresh no summary
  (`attendance-summary.service.ts:281` says closing does); after a transfer the
  batch counts records of the old class, so it is not the exact sum that
  `attendance-summary.repository.ts:194` says it is.

*Exams*

- Two publications at once leave two published versions
  (`question-banks.service.ts:485`: "never"), of which each later one retires
  only the newest; a late write publishes a superseded
  version again, and a draft that is edited while it is published changes as a
  published version. A question and its first version are two commits.
- The blueprint of a VALIDATED exam may be edited and the exam then scheduled
  unvalidated. A repeated status rewrites an older one. A participant is added to
  a session that opens meanwhile.

*Learning and institution*

- Two versions of a material are published at once
  (`learning-contents.repository.ts:31`: "single PUBLISHED row"); archiving a
  material, or requiring content of a type, does not look at open activities;
  their status changes refresh no summary. Two recounts at once can leave more
  completed than there is. An update writes the type or the place it judged
  queries ago (`learning-activities.service.ts:147`), so an overlapping change can
  leave an open activity that its gate would have refused.
- Two moves at once make a cycle of organizations; every later walk up from it
  (`organizations.service.ts:173`) goes round for ever.
- Two assignments at once have two holders
  (`class-staff-assignments.repository.ts:90`: "exactly one"); an update brings
  back an entry that was ended meanwhile (`class-staff-assignments.service.ts:175`,
  `academic-schedules.service.ts:160`).

## 7. What is left out

In the modelled parts: response mapping and wording, lists and single reads,
audit entries except those of decisions, validation of formats, titles, texts
and dates that nothing modelled reads, permissions and scope checks, the creation
of single rows guarded by a unique column (assignment, scheme, bank, exam,
session, meeting, type), the name and address changes and the password, status
and activation calls of Keycloak provisioning. `PROJECT.json` says for each
component which operations these are. `Graduation` identifies an evaluation's
snapshot with the verdict drawn from it; several batches do not change what a
rule sees of another batch and there is one. `Certificates` has the versions of
one template code. `ExamAttempts` and `Certificates` take the tables they only
read (question pool, decisions, files) from an environment that changes
them at any time, in more ways than the academy's modules do; the session of the
attempts is a constant, of which `start` reads the end (`EndAt`, which no endpoint
changes) and the exam's duration (`Duration`), not the status. `Calendar` has one
class subject and one role, `Learning` one meeting.

Not modelled: the student's exam runtime, whose debounced client sends requests
that `ExamAttempts` admits in any overlap (edits carry the revision they were rendered
with, `exam-runtime.tsx:82`, and `flushPending` flushes only questions that have
a saved answer, `:146`); role assignments and permissions (single writes and an
evaluation without state); authentication (cryptography); reporting and health
(reads); reference data (single writes); scripts and portals. These are more
than half of the repository's lines: the portals, the client and the reports
display and count what the modelled parts keep.

## 8. Plan

The models were built in the order in which an error would hurt most: an exam
cannot be repeated, a verdict decides a career, a certificate is public; then the
registers they draw on. Next:

1. **ExamRuntime**: the student's client (debounced saves, acknowledged
   revisions, flush before submit, the expiry tick), composed with
   `ExamAttempts` for one participant: what was typed and acknowledged is stored.
2. **GraduationRecord**: `Graduation`, `GraduationDecisions` and `Certificates`
   over shared tables, in place of the environments.
3. Role assignments: scopes that are removed only narrow.
