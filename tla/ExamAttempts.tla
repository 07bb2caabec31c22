---------------------------- MODULE ExamAttempts ----------------------------
(***************************************************************************)
(* The exam attempt runtime: AttemptsService over                          *)
(* PrismaAttemptsRepository (apps/api/src/attempts/attempts.service.ts).   *)
(*                                                                         *)
(* The tables exam_attempts, attempt_questions and attempt_answers are the *)
(* state.  A request is one HTTP call in flight; every awaited query of    *)
(* its handler is one action, because PostgreSQL's READ COMMITTED lets     *)
(* other requests commit between two queries, inside $transaction as well  *)
(* as outside.  A transaction whose only write is its last statement       *)
(* writes and commits in that action.                                      *)
(*                                                                         *)
(* An attempt is named by <<participant, attemptNo>>, the pair that        *)
(* exam_attempts declares unique; a frozen question by its version, which  *)
(* attempt_questions declares unique within an attempt.                    *)
(***************************************************************************)
EXTENDS Integers, FiniteSets

CONSTANTS
    Participant,    \* rows of exam_participants
    Eligible,       \* those whose status is ELIGIBLE and whose exam has a
                    \* blueprint; the others are refused before any write
    Version,        \* question versions, numbered in the order of their ids
    Editable,       \* versions the authors publish or supersede during the run
    RuleCount,      \* the blueprint's rules are 1..RuleCount
    Take,           \* Take[i]: the questions that rule i draws
    Matches,        \* Matches[i]: the versions that rule i's filters accept
    Payload,        \* answer payloads
    Duration,       \* exam.durationMinutes
    EndAt,          \* session.endAt
    Request,        \* requests that can be in flight at the same time
    Caller,         \* Caller[r]: the participants whose client sends request r
    Calls,          \* the kinds of call the clients make in this instance
    MaxAttempts,    \* bound: attempts of one participant
    MaxRevision,    \* bound: the revision a client sends is below it
    MaxTime         \* bound: the clock stops here

Rule      == 1..RuleCount
AttemptNo == 1..MaxAttempts
AttemptId == Participant \X AttemptNo

ASSUME ConstantsAssumption ==
    /\ Eligible \subseteq Participant
    /\ Version \subseteq Nat /\ IsFiniteSet(Version)
    /\ Editable \subseteq Version
    /\ RuleCount \in Nat
    /\ Take \in [Rule -> Nat]
    /\ Matches \in [Rule -> SUBSET Version]
    /\ Duration \in Nat /\ EndAt \in Nat
    /\ Caller \in [Request -> SUBSET Participant]
    /\ Calls \subseteq {"start", "submit", "saveAnswer"}
    /\ MaxAttempts \in Nat \ {0}
    /\ MaxRevision \in Nat /\ MaxTime \in Nat

Never     == -1                       \* submittedAt IS NULL
NoAttempt == [status |-> "none"]      \* no row under this key
NoAnswer  == [revision |-> 0]         \* a stored revision is at least 1

VARIABLES
    now,        \* the server's clock
    published,  \* versions whose status is PUBLISHED
    attempt,    \* exam_attempts with their frozen attempt_questions
    answer,     \* attempt_answers, by attempt and version
    request,    \* the handlers in flight
    stale       \* history: the requests that another one has overtaken, so that
                \* something they have read and rely on is no longer so

vars == <<now, published, attempt, answer, request, stale>>

-----------------------------------------------------------------------------
(* Rows *)

Closed == {"SUBMITTED", "EXPIRED"}

Row == [status: {"IN_PROGRESS"} \cup Closed, startedAt: Nat, expiresAt: Nat,
        submittedAt: Nat \cup {Never}, paper: [Rule -> SUBSET Version]]

Answer == [payload: Payload, revision: Nat \ {0}, savedAt: Nat]

Exists(id)  == attempt[id] # NoAttempt
Live(id)    == attempt[id].status = "IN_PROGRESS"
Numbers(p)  == {n \in AttemptNo : Exists(<<p, n>>)}
Asked(row)  == UNION {row.paper[i] : i \in Rule}

Earliest(a, b) == IF a <= b THEN a ELSE b

\* findMany with take and orderBy id: the k versions of S with the least ids.
FirstOf(S, k) == {v \in S : Cardinality({w \in S : w <= v}) <= k}

-----------------------------------------------------------------------------
(* Requests: what a handler has received and read so far, by step *)

StartSteps  == {"participant", "resume", "count", "pool", "create"}
SubmitSteps == {"deadline", "status", "close"}
SaveSteps   == {"active", "current", "upsert"}

StartRequest ==
    [step: StartSteps, p: Participant, at: Nat, no: Nat, rule: Nat,
     paper: [Rule -> SUBSET Version]]

SubmitRequest ==
    [step: SubmitSteps, id: AttemptId, at: Nat, deadline: Nat]

SaveRequest ==
    [step: SaveSteps, id: AttemptId, v: Version, at: Nat,
     payload: Payload, revision: Nat]

Idle == [step |-> "idle"]

At(r, s)      == request[r].step = s
Keep(r, m)    == request' = [request EXCEPT ![r] = m] /\ UNCHANGED stale
Goto(r, s)    == Keep(r, [request[r] EXCEPT !.step = s])
Receive(r, m) == At(r, "idle") /\ Keep(r, m)

\* The end of a request, whose last query changed what those of S have read.
Overtake(r, S) == /\ request' = [request EXCEPT ![r] = Idle]
                  /\ stale' = (stale \cup S) \ {r}
Finish(r)      == Overtake(r, {})

\* A start relies on there being no live attempt, a submit and a save on the
\* attempt being live, a save on the revision it has compared its own with.
StartsOf(p)   == {s \in Request : /\ request[s].step \in {"count", "pool", "create"}
                                  /\ request[s].p = p}
ActsOn(id)    == {s \in Request : /\ request[s].step \in {"close", "current", "upsert"}
                                  /\ request[s].id = id}
Saves(id, v)  == {s \in Request : /\ request[s].step = "upsert"
                                  /\ request[s].id = id /\ request[s].v = v}

Init ==
    /\ now = 0
    /\ published = Version
    /\ attempt = [id \in AttemptId |-> NoAttempt]
    /\ answer = [id \in AttemptId |-> [v \in Version |-> NoAnswer]]
    /\ request = [r \in Request |-> Idle]
    /\ stale = {}

Tables == <<attempt, answer>>
World  == <<now, published>>

-----------------------------------------------------------------------------
(* POST /attempts: start *)

\* A call arrives; the service passes new Date() on.
ReceiveStart(r) ==
    /\ "start" \in Calls
    /\ \E p \in Caller[r] :
        /\ ~Exists(<<p, MaxAttempts>>)
        /\ Receive(r, [step |-> "participant", p |-> p, at |-> now,
                       no |-> 0, rule |-> 0, paper |-> [i \in Rule |-> {}]])
    /\ UNCHANGED <<World, Tables>>

\* findUnique of the participant with session, exam and blueprint.
FindParticipant(r) ==
    /\ At(r, "participant")
    /\ IF request[r].p \in Eligible THEN Goto(r, "resume") ELSE Finish(r)
    /\ UNCHANGED <<World, Tables>>

\* findFirst of a live attempt, which is the reply when there is one.
FindLive(r) ==
    /\ At(r, "resume")
    /\ IF \E n \in AttemptNo : Live(<<request[r].p, n>>)
         THEN Finish(r) ELSE Goto(r, "count")
    /\ UNCHANGED <<World, Tables>>

Deadline(at) == Earliest(at + Duration, EndAt)

\* Mutation: the attempt about to be created is counted too.
CountOneTooMany(r) ==
    /\ At(r, "count")
    /\ Cardinality(Numbers(request[r].p)) + 2 <= MaxAttempts
    /\ Keep(r, [request[r] EXCEPT
            !.no = Cardinality(Numbers(request[r].p)) + 2,
            !.step = IF RuleCount = 0 THEN "create" ELSE "pool"])
    /\ UNCHANGED <<World, Tables>>

\* count of all the participant's attempts, then the deadline is decided.
CountAttempts(r) ==
    /\ At(r, "count")
    /\ IF Deadline(request[r].at) <= request[r].at
         THEN Finish(r)
         ELSE /\ Cardinality(Numbers(request[r].p)) < MaxAttempts
              /\ Keep(r, [request[r] EXCEPT
                    !.no = Cardinality(Numbers(request[r].p)) + 1,
                    !.step = IF RuleCount = 0 THEN "create" ELSE "pool"])
    /\ UNCHANGED <<World, Tables>>

\* One iteration of the loop over the blueprint's rules: its findMany.
DrawQuestions(r) ==
    /\ At(r, "pool")
    /\ LET i    == request[r].rule + 1
           pool == FirstOf(published \cap Matches[i], Take[i])
       IN  IF Cardinality(pool) < Take[i]
             THEN Finish(r)
             ELSE Keep(r, [request[r] EXCEPT
                    !.paper[i] = pool, !.rule = i,
                    !.step = IF i = RuleCount THEN "create" ELSE "pool"])
    /\ UNCHANGED <<World, Tables>>

\* Mutation: unique(attempt_id, question_version_id) is missing.
RepeatsAllowed(paper) == TRUE

NoRepeats(paper) ==
    \A i, j \in Rule : i # j => paper[i] \cap paper[j] = {}

\* Mutation: an upsert on the unique pair where the code creates.
UpsertAttempt(r) ==
    LET q == request[r]
    IN  /\ At(r, "create")
        /\ IF ~NoRepeats(q.paper)
             THEN UNCHANGED attempt /\ Finish(r)
             ELSE /\ attempt' = [attempt EXCEPT ![<<q.p, q.no>>] =
                        [status |-> "IN_PROGRESS", startedAt |-> q.at,
                         expiresAt |-> Deadline(q.at), submittedAt |-> Never,
                         paper |-> q.paper]]
                  /\ Overtake(r, StartsOf(q.p))
        /\ UNCHANGED <<World, answer>>

\* create with its nested questions; the two unique indexes may refuse it.
CreateAttempt(r) ==
    LET q  == request[r]
        id == <<q.p, q.no>>
    IN  /\ At(r, "create")
        /\ IF Exists(id) \/ ~NoRepeats(q.paper)
             THEN UNCHANGED attempt /\ Finish(r)
             ELSE /\ attempt' = [attempt EXCEPT ![id] =
                        [status |-> "IN_PROGRESS", startedAt |-> q.at,
                         expiresAt |-> Deadline(q.at), submittedAt |-> Never,
                         paper |-> q.paper]]
                  /\ Overtake(r, StartsOf(q.p))
        /\ UNCHANGED <<World, answer>>

-----------------------------------------------------------------------------
(* POST /attempts/:id/submit *)

\* The client holds the id of an attempt that was committed.
ReceiveSubmit(r) ==
    /\ "submit" \in Calls
    /\ \E id \in Caller[r] \X AttemptNo :
        /\ Exists(id)
        /\ Receive(r, [step |-> "deadline", id |-> id, at |-> now,
                       deadline |-> 0])
    /\ UNCHANGED <<World, Tables>>

ReadDeadline(r) ==
    /\ At(r, "deadline")
    /\ Keep(r, [request[r] EXCEPT
            !.deadline = attempt[request[r].id].expiresAt,
            !.step = "status"])
    /\ UNCHANGED <<World, Tables>>

\* A finalized attempt is only read again.
ReadStatus(r) ==
    /\ At(r, "status")
    /\ IF Live(request[r].id) THEN Goto(r, "close") ELSE Finish(r)
    /\ UNCHANGED <<World, Tables>>

\* Mutation: a submission at the deadline itself still counts as in time.
CloseAtDeadline(r) ==
    LET q == request[r]
    IN  /\ At(r, "close")
        /\ attempt' = [attempt EXCEPT
                ![q.id].status =
                    IF q.at > q.deadline THEN "EXPIRED" ELSE "SUBMITTED",
                ![q.id].submittedAt = q.at]
        /\ Overtake(r, ActsOn(q.id))
        /\ UNCHANGED <<World, answer>>

\* update by id: the status read before is not part of the WHERE.
CloseAttempt(r) ==
    LET q == request[r]
    IN  /\ At(r, "close")
        /\ attempt' = [attempt EXCEPT
                ![q.id].status =
                    IF q.at >= q.deadline THEN "EXPIRED" ELSE "SUBMITTED",
                ![q.id].submittedAt = q.at]
        /\ Overtake(r, ActsOn(q.id))
        /\ UNCHANGED <<World, answer>>

-----------------------------------------------------------------------------
(* PUT /attempts/:attemptId/questions/:attemptQuestionId/answer *)

\* The DTO accepts every revision from 0 up.
ReceiveSave(r) ==
    /\ "saveAnswer" \in Calls
    /\ \E id \in Caller[r] \X AttemptNo, v \in Version, d \in Payload,
          n \in 0..(MaxRevision - 1) :
        /\ Exists(id)
        /\ Receive(r, [step |-> "active", id |-> id, v |-> v, at |-> now,
                       payload |-> d, revision |-> n])
    /\ UNCHANGED <<World, Tables>>

\* Mutation: an answer sent at the deadline itself is still taken.
CheckActiveAtDeadline(r) ==
    LET q == request[r]
    IN  /\ At(r, "active")
        /\ IF /\ q.v \in Asked(attempt[q.id])
              /\ Live(q.id)
              /\ q.at <= attempt[q.id].expiresAt
             THEN Goto(r, "current") ELSE Finish(r)
        /\ UNCHANGED <<World, Tables>>

\* findFirst of the question together with its attempt's status and deadline.
CheckActive(r) ==
    LET q == request[r]
    IN  /\ At(r, "active")
        /\ IF /\ q.v \in Asked(attempt[q.id])
              /\ Live(q.id)
              /\ q.at < attempt[q.id].expiresAt
             THEN Goto(r, "current") ELSE Finish(r)
        /\ UNCHANGED <<World, Tables>>

\* Mutation: the answer that is one revision behind is not stale.
StaleByTwo(q, stored) == stored # NoAnswer /\ q.revision + 1 < stored.revision

Replay(q, stored) == stored # NoAnswer /\ stored.payload = q.payload
Stale(q, stored)  == stored # NoAnswer /\ q.revision < stored.revision

\* findUnique of the stored answer: a replay, a stale write or a new answer.
CheckCurrent(r) ==
    LET q      == request[r]
        stored == answer[q.id][q.v]
    IN  /\ At(r, "current")
        /\ IF Replay(q, stored) \/ Stale(q, stored)
             THEN Finish(r) ELSE Goto(r, "upsert")
        /\ UNCHANGED <<World, Tables>>

\* Mutation: the revision is stored as it was sent.
UpsertSameRevision(r) ==
    LET q == request[r]
    IN  /\ At(r, "upsert")
        /\ answer' = [answer EXCEPT ![q.id][q.v] =
                [payload |-> q.payload, revision |-> q.revision,
                 savedAt |-> q.at]]
        /\ Overtake(r, Saves(q.id, q.v))
        /\ UNCHANGED <<World, attempt>>

\* upsert on the unique attempt_question_id: neither check is repeated.
UpsertAnswer(r) ==
    LET q == request[r]
    IN  /\ At(r, "upsert")
        /\ answer' = [answer EXCEPT ![q.id][q.v] =
                [payload |-> q.payload, revision |-> q.revision + 1,
                 savedAt |-> q.at]]
        /\ Overtake(r, Saves(q.id, q.v))
        /\ UNCHANGED <<World, attempt>>

-----------------------------------------------------------------------------
(* The rest of the system *)

\* A lost connection, a transaction timeout or a restart of the process ends a
\* handler before its next query; nothing uncommitted is left behind.
Abandon(r) ==
    /\ ~At(r, "idle")
    /\ Finish(r)
    /\ UNCHANGED <<World, Tables>>

\* QuestionVersion: an author publishes a draft, or a newer version supersedes.
PublishVersion(v) ==
    /\ v \in Editable \ published
    /\ published' = published \cup {v}
    /\ UNCHANGED <<now, Tables, request, stale>>

SupersedeVersion(v) ==
    /\ v \in Editable \cap published
    /\ published' = published \ {v}
    /\ UNCHANGED <<now, Tables, request, stale>>

Tick ==
    /\ now < MaxTime
    /\ now' = now + 1
    /\ UNCHANGED <<published, Tables, request, stale>>

Start(r)  == \/ ReceiveStart(r) \/ FindParticipant(r) \/ FindLive(r)
             \/ CountAttempts(r) \/ DrawQuestions(r) \/ CreateAttempt(r)
Submit(r) == ReceiveSubmit(r) \/ ReadDeadline(r) \/ ReadStatus(r) \/ CloseAttempt(r)
Save(r)   == ReceiveSave(r) \/ CheckActive(r) \/ CheckCurrent(r) \/ UpsertAnswer(r)

Next ==
    \/ \E r \in Request : Start(r) \/ Submit(r) \/ Save(r) \/ Abandon(r)
    \/ \E v \in Version : PublishVersion(v) \/ SupersedeVersion(v)
    \/ Tick

Spec == Init /\ [][Next]_vars

-----------------------------------------------------------------------------
(* Properties *)

\* Every variable keeps to its table's columns and every handler to the locals
\* of the step it has reached.
TypeOK ==
    /\ now \in Nat
    /\ published \subseteq Version
    /\ attempt \in [AttemptId -> Row \cup {NoAttempt}]
    /\ answer \in [AttemptId -> [Version -> Answer \cup {NoAnswer}]]
    /\ request \in [Request -> {Idle} \cup StartRequest \cup SubmitRequest
                                      \cup SaveRequest]

\* Attempt numbers are consecutive from 1: a number computed from a stale count
\* is refused by the unique index or is the next one, however many starts of
\* the same participant interleave between count and create.
Gapless ==
    \A p \in Participant, m, n \in AttemptNo :
        m < n /\ Exists(<<p, n>>) => Exists(<<p, m>>)

\* The verdict and the timestamps always tell the same story: an attempt is
\* EXPIRED exactly when its recorded submission is at or after its own
\* deadline, whichever of two racing submits wrote last, and the deadline lies
\* after the start and never past the end of the session.
VerdictByTheClock ==
    \A id \in AttemptId : Exists(id) =>
        LET row == attempt[id]
        IN  /\ row.status = "IN_PROGRESS" <=> row.submittedAt = Never
            /\ row.status = "SUBMITTED" => row.submittedAt < row.expiresAt
            /\ row.status = "EXPIRED" => row.submittedAt >= row.expiresAt
            /\ row.startedAt <= now
            /\ row.startedAt < row.expiresAt /\ row.expiresAt <= EndAt

\* The paper of an attempt is complete and asks no question twice, although the
\* pool may shrink or grow between the queries for two rules.
PaperComplete ==
    \A id \in AttemptId : Exists(id) =>
        /\ \A i, j \in Rule :
                i # j => attempt[id].paper[i] \cap attempt[id].paper[j] = {}
        /\ \A i \in Rule : /\ attempt[id].paper[i] \subseteq Matches[i]
                           /\ Cardinality(attempt[id].paper[i]) = Take[i]

\* Every stored answer is to a question of that attempt's paper and was sent
\* while the attempt's time ran, even when the write itself comes later.
AnswersInTime ==
    \A id \in AttemptId, v \in Version : answer[id][v] # NoAnswer =>
        /\ Exists(id)
        /\ v \in Asked(attempt[id])
        /\ attempt[id].startedAt <= answer[id][v].savedAt
        /\ answer[id][v].savedAt < attempt[id].expiresAt

\* What a handler may rely on across its queries, because no other request can
\* change it: its attempt exists and keeps its start, deadline and paper, and
\* every attempt numbered below the one it is about to create is there.  The
\* attempt's status and the stored revision are not among these facts.
StillTrue(q) ==
    /\ q.step # "idle" => q.at <= now
    /\ q.step \in {"pool", "create"} =>
        /\ q.at < Deadline(q.at)
        /\ q.no \in AttemptNo
        /\ \A n \in AttemptNo : n < q.no => Exists(<<q.p, n>>)
    /\ q.step \in SubmitSteps \cup SaveSteps =>
        /\ Exists(q.id)
        /\ attempt[q.id].startedAt <= q.at
    /\ q.step \in {"status", "close"} =>
        q.deadline = attempt[q.id].expiresAt
    /\ q.step \in {"current", "upsert"} =>
        /\ q.v \in Asked(attempt[q.id])
        /\ q.at < attempt[q.id].expiresAt

ReadsStayTrue == \A r \in Request : StillTrue(request[r])

\* What a handler may rely on besides as long as no other request overtakes it:
\* there is still no live attempt, the attempt is still live and the stored
\* revision is still not newer.
TrueUnlessOvertaken(q) ==
    /\ q.step \in {"count", "pool", "create"} =>
        \A n \in AttemptNo : ~Live(<<q.p, n>>)
    /\ q.step \in {"close", "current", "upsert"} => Live(q.id)
    /\ q.step = "upsert" => q.revision >= answer[q.id][q.v].revision

StatusStaysTrue == \A r \in Request \ stale : TrueUnlessOvertaken(request[r])

\* A closed attempt never comes back into play and no step replaces the frozen
\* part of a row: its start, its deadline and its paper.
ClosedForGood ==
    [][\A id \in AttemptId : Exists(id) =>
        /\ attempt[id].status \in Closed => attempt'[id].status \in Closed
        /\ attempt'[id].startedAt = attempt[id].startedAt
        /\ attempt'[id].expiresAt = attempt[id].expiresAt
        /\ attempt'[id].paper = attempt[id].paper]_vars

\* The claim of exam-load-security.test.cjs:963: a participant never has two
\* live attempts.
OneLiveAttempt ==
    \A p \in Participant, m, n \in AttemptNo :
        Live(<<p, m>>) /\ Live(<<p, n>>) => m = n

\* The promise of the attempt runtime, one atomic operation per endpoint.  Only
\* the write of a request that was overtaken by another one falls short of it,
\* and then by no more than a second live attempt, a new stamp on a closed
\* attempt with the verdict that stamp calls for, or a late answer.
Register == INSTANCE ExamAttemptRegister
Overtaken == \E r \in stale : request'[r] # request[r]
KeepsRegister ==
    /\ Register!Init
    /\ [][Register!Next \/ (Overtaken /\ Register!Late)]_<<attempt, answer>>
=============================================================================
