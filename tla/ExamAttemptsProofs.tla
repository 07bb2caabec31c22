------------------------- MODULE ExamAttemptsProofs -------------------------
(***************************************************************************)
(* Proofs about ExamAttempts and the register it implements, for every set *)
(* of participants and requests and every value of the bounds.             *)
(***************************************************************************)
EXTENDS ExamAttempts, FiniteSetTheorems, WellFoundedInduction, TLAPS

\* The inductive invariant: the rows' types and clocks, and what each handler
\* knows at each of its steps.
IInv ==
    /\ TypeOK
    /\ Gapless
    /\ VerdictByTheClock
    /\ AnswersInTime
    /\ ReadsStayTrue

-----------------------------------------------------------------------------
(* Facts about the operators *)

\* The deadline is a time, not past the end of the session.
LEMMA DeadlineType ==
    ASSUME NEW at \in Nat
    PROVE  Deadline(at) \in Nat /\ Deadline(at) <= EndAt
BY ConstantsAssumption DEF Deadline, Earliest

\* When the numbers in use are downward closed, the count of them is the
\* largest one: the number after it is the first that is free.
LEMMA CountIsLast ==
    ASSUME TypeOK, Gapless, NEW p \in Participant
    PROVE  /\ Cardinality(Numbers(p)) \in Nat
           /\ \A n \in AttemptNo :
                 Exists(<<p, n>>) <=> n <= Cardinality(Numbers(p))
<1> DEFINE S == Numbers(p)
           k == Cardinality(S)
<1>1. IsFiniteSet(AttemptNo)
  BY FS_Interval, ConstantsAssumption DEF AttemptNo
<1>2. /\ S \in SUBSET AttemptNo
      /\ \A n \in AttemptNo : n \in S <=> Exists(<<p, n>>)
      /\ \A m, n \in AttemptNo : m < n /\ n \in S => m \in S
  BY DEF Numbers, Gapless
<1>3. IsFiniteSet(S) /\ k \in Nat
  BY <1>1, <1>2, FS_Subset, FS_CardinalityType
<1>4. ASSUME NEW n \in AttemptNo, n \in S PROVE n <= k
  <2>1. (1..n) \in SUBSET S
    BY <1>2, <1>4, ConstantsAssumption DEF AttemptNo
  <2>2. Cardinality(1..n) = n
    BY FS_Interval, ConstantsAssumption DEF AttemptNo
  <2>3. Cardinality(1..n) <= Cardinality(S)
    BY <1>3, <2>1, FS_Subset
  <2> QED BY <2>2, <2>3
<1>5. ASSUME NEW n \in AttemptNo, n \notin S PROVE k < n
  <2>1. n \in Nat \ {0} /\ n - 1 \in Int
    BY ConstantsAssumption DEF AttemptNo
  <2>2. S \in SUBSET (1..(n - 1))
    BY <1>2, <1>5, <2>1, ConstantsAssumption DEF AttemptNo
  <2>3. /\ IsFiniteSet(1..(n - 1))
        /\ Cardinality(1..(n - 1)) = n - 1
    BY <2>1, FS_Interval
  <2>4. k <= n - 1
    BY <2>2, <2>3, FS_Subset
  <2> QED BY <1>3, <2>1, <2>4
<1>6. \A n \in AttemptNo : n \in Nat
  BY ConstantsAssumption DEF AttemptNo
<1> QED BY <1>2, <1>3, <1>4, <1>5, <1>6

\* A handler's step says which of its locals it has.
LEMMA RequestByStep ==
    ASSUME TypeOK, NEW r \in Request
    PROVE  /\ request[r].step \in StartSteps => request[r] \in StartRequest
           /\ request[r].step \in SubmitSteps => request[r] \in SubmitRequest
           /\ request[r].step \in SaveSteps => request[r] \in SaveRequest
BY DEF TypeOK, Idle, StartRequest, SubmitRequest, SaveRequest,
       StartSteps, SubmitSteps, SaveSteps

\* A row under a key is an attempt with all its columns.
LEMMA RowType ==
    ASSUME TypeOK, NEW id \in AttemptId, Exists(id)
    PROVE  attempt[id] \in Row
BY DEF TypeOK, Exists

-----------------------------------------------------------------------------
(* The invariant *)

USE DEF At, Keep, Goto, Receive, Overtake, Finish, World, Tables, vars

LEMMA InitIInv == Init => IInv
<1> SUFFICES ASSUME Init PROVE IInv
  OBVIOUS
<1> USE DEF Init, NoAttempt, NoAnswer, Idle
<1>1. TypeOK
  BY DEF TypeOK
<1>2. Gapless /\ VerdictByTheClock
  BY DEF Gapless, VerdictByTheClock, Exists, AttemptId
<1>3. AnswersInTime
  BY DEF AnswersInTime
<1>4. ReadsStayTrue
  BY DEF ReadsStayTrue, StillTrue, SubmitSteps, SaveSteps
<1> QED BY <1>1, <1>2, <1>3, <1>4 DEF IInv

\* A step that leaves the tables and the clock alone and takes one request to
\* new locals that are true of them keeps the invariant.
LEMMA RequestStep ==
    ASSUME IInv, NEW r \in Request, NEW m,
           request' = [request EXCEPT ![r] = m],
           UNCHANGED <<now, published, attempt, answer>>,
           m \in {Idle} \cup StartRequest \cup SubmitRequest \cup SaveRequest,
           StillTrue(m)
    PROVE  IInv'
<1>1. TypeOK'
  BY DEF IInv, TypeOK
<1>2. Gapless' /\ VerdictByTheClock' /\ AnswersInTime'
  BY DEF IInv, Gapless, VerdictByTheClock, AnswersInTime, Exists
<1>3. ReadsStayTrue'
  <2>1. \A s \in Request : StillTrue(request'[s])
    BY DEF IInv, TypeOK, ReadsStayTrue
  <2> QED BY <2>1 DEF ReadsStayTrue, StillTrue, Exists
<1> QED BY <1>1, <1>2, <1>3 DEF IInv

\* The end of a handler is such a step.
LEMMA FinishStep ==
    ASSUME IInv, NEW r \in Request, request' = [request EXCEPT ![r] = Idle],
           UNCHANGED <<now, published, attempt, answer>>
    PROVE  IInv'
BY RequestStep DEF Idle, StillTrue, SubmitSteps, SaveSteps

LEMMA StartSteps1 ==
    ASSUME IInv, NEW r \in Request,
           ReceiveStart(r) \/ FindParticipant(r) \/ FindLive(r)
             \/ CountAttempts(r) \/ DrawQuestions(r)
    PROVE  IInv'
<1> DEFINE q == request[r]
<1>0. TypeOK /\ StillTrue(q)
  BY DEF IInv, ReadsStayTrue
<1>1. CASE ReceiveStart(r)
  <2>1. PICK p \in Caller[r] :
          request' = [request EXCEPT ![r] =
            [step |-> "participant", p |-> p, at |-> now,
             no |-> 0, rule |-> 0, paper |-> [i \in Rule |-> {}]]]
    BY <1>1 DEF ReceiveStart
  <2> DEFINE m == [step |-> "participant", p |-> p, at |-> now,
                   no |-> 0, rule |-> 0, paper |-> [i \in Rule |-> {}]]
  <2>2. p \in Participant /\ now \in Nat
    BY <1>0, ConstantsAssumption DEF TypeOK
  <2>3. m \in StartRequest /\ StillTrue(m)
    BY <2>2 DEF StartRequest, StartSteps, StillTrue, SubmitSteps, SaveSteps
  <2> QED BY <1>1, <2>1, <2>3, RequestStep DEF ReceiveStart
<1>2. CASE FindParticipant(r)
  <2>1. CASE Finish(r)
    BY <1>2, <2>1, FinishStep DEF FindParticipant
  <2>2. CASE Goto(r, "resume")
    <3> DEFINE m == [q EXCEPT !.step = "resume"]
    <3>1. q \in StartRequest /\ q.step = "participant"
      BY <1>0, <1>2, RequestByStep DEF FindParticipant, StartSteps
    <3>2. m \in StartRequest /\ StillTrue(m)
      BY <1>0, <3>1
         DEF StartRequest, StartSteps, StillTrue, SubmitSteps, SaveSteps
    <3> QED BY <1>2, <2>2, <3>2, RequestStep DEF FindParticipant
  <2> QED BY <1>2, <2>1, <2>2 DEF FindParticipant
<1>3. CASE FindLive(r)
  <2>1. CASE Finish(r)
    BY <1>3, <2>1, FinishStep DEF FindLive
  <2>2. CASE Goto(r, "count")
    <3> DEFINE m == [q EXCEPT !.step = "count"]
    <3>1. q \in StartRequest /\ q.step = "resume"
      BY <1>0, <1>3, RequestByStep DEF FindLive, StartSteps
    <3>2. m \in StartRequest /\ StillTrue(m)
      BY <1>0, <3>1
         DEF StartRequest, StartSteps, StillTrue, SubmitSteps, SaveSteps
    <3> QED BY <1>3, <2>2, <3>2, RequestStep DEF FindLive
  <2> QED BY <1>3, <2>1, <2>2 DEF FindLive
<1>4. CASE CountAttempts(r)
  <2>1. CASE Finish(r)
    BY <1>4, <2>1, FinishStep DEF CountAttempts
  <2>2. CASE ~Finish(r)
    <3> DEFINE k == Cardinality(Numbers(q.p))
               m == [q EXCEPT !.no = k + 1,
                              !.step = IF RuleCount = 0 THEN "create" ELSE "pool"]
    <3>1. q \in StartRequest /\ q.step = "count"
      BY <1>0, <1>4, RequestByStep DEF CountAttempts, StartSteps
    <3>2. q.p \in Participant /\ q.at \in Nat /\ EndAt \in Nat
      BY <3>1, ConstantsAssumption DEF StartRequest
    <3>3. /\ k < MaxAttempts /\ q.at < Deadline(q.at)
          /\ request' = [request EXCEPT ![r] = m]
      <4>1. Deadline(q.at) \in Nat
        BY <3>2, DeadlineType
      <4>2. /\ ~(Deadline(q.at) <= q.at) /\ k < MaxAttempts
            /\ request' = [request EXCEPT ![r] = m]
        BY <1>4, <2>2 DEF CountAttempts
      <4> QED BY <3>2, <4>1, <4>2
    <3>4. k \in Nat /\ \A n \in AttemptNo : n < k + 1 => Exists(<<q.p, n>>)
      <4>1. Gapless
        BY DEF IInv
      <4>2. \A n \in AttemptNo : n \in Nat
        BY ConstantsAssumption DEF AttemptNo
      <4> QED BY <1>0, <3>2, <4>1, <4>2, CountIsLast
    <3>5. k + 1 \in AttemptNo
      BY <3>3, <3>4, ConstantsAssumption DEF AttemptNo
    <3>6. m \in StartRequest
      <4>1. k + 1 \in Nat
        BY <3>4
      <4>2. [q EXCEPT !.no = k + 1] \in StartRequest
        BY <3>1, <4>1 DEF StartRequest
      <4> QED BY <4>2 DEF StartRequest, StartSteps
    <3>7. StillTrue(m)
      BY <1>0, <3>1, <3>3, <3>4, <3>5
         DEF StartRequest, StillTrue, SubmitSteps, SaveSteps
    <3> QED BY <1>4, <3>3, <3>6, <3>7, RequestStep DEF CountAttempts
  <2> QED BY <2>1, <2>2
<1>5. CASE DrawQuestions(r)
  <2>1. CASE Finish(r)
    BY <1>5, <2>1, FinishStep DEF DrawQuestions
  <2>2. CASE ~Finish(r)
    <3> DEFINE i == q.rule + 1
               pool == FirstOf(published \cap Matches[i], Take[i])
               m == [q EXCEPT !.paper[i] = pool, !.rule = i,
                        !.step = IF i = RuleCount THEN "create" ELSE "pool"]
    <3>1. q \in StartRequest /\ q.step = "pool"
      BY <1>0, <1>5, RequestByStep DEF DrawQuestions, StartSteps
    <3>2. request' = [request EXCEPT ![r] = m]
      BY <1>5, <2>2 DEF DrawQuestions
    <3>3. pool \in SUBSET Version
      BY <1>0 DEF FirstOf, TypeOK
    <3>4. m \in StartRequest
      <4>1. [q.paper EXCEPT ![i] = pool] \in [Rule -> SUBSET Version]
        BY <3>1, <3>3 DEF StartRequest
      <4>2. i \in Nat
        BY <3>1 DEF StartRequest
      <4> QED BY <3>1, <4>1, <4>2 DEF StartRequest, StartSteps
    <3>5. StillTrue(m)
      BY <1>0, <3>1 DEF StartRequest, StillTrue, SubmitSteps, SaveSteps
    <3> QED BY <1>5, <3>2, <3>4, <3>5, RequestStep DEF DrawQuestions
  <2> QED BY <2>1, <2>2
<1> QED BY <1>1, <1>2, <1>3, <1>4, <1>5

\* What a handler has read stays true while every attempt keeps the frozen part
\* of its row and the clock does not go back.
LEMMA StaysTrue ==
    ASSUME TypeOK, TypeOK', NEW q,
           q \in {Idle} \cup StartRequest \cup SubmitRequest \cup SaveRequest,
           StillTrue(q), now <= now',
           \A id \in AttemptId : Exists(id) =>
               /\ Exists(id)'
               /\ attempt'[id].startedAt = attempt[id].startedAt
               /\ attempt'[id].expiresAt = attempt[id].expiresAt
               /\ attempt'[id].paper = attempt[id].paper
    PROVE  StillTrue(q)'
<1>1. now \in Nat /\ now' \in Nat
  BY DEF TypeOK
<1>2. CASE q = Idle
  BY <1>2 DEF Idle, StillTrue, SubmitSteps, SaveSteps
<1>3. CASE q \in StartRequest
  <2>1. q.at <= now => q.at <= now'
    BY <1>1, <1>3 DEF StartRequest
  <2>2. \A n \in AttemptNo : Exists(<<q.p, n>>) => Exists(<<q.p, n>>)'
    BY <1>3 DEF StartRequest, AttemptId
  <2> QED BY <1>3, <2>1, <2>2
          DEF StillTrue, StartRequest, StartSteps, SubmitSteps, SaveSteps
<1>4. CASE q \in SubmitRequest \cup SaveRequest
  <2>1. q.at \in Nat /\ q.id \in AttemptId
        /\ q.step \in SubmitSteps \cup SaveSteps
    BY <1>4 DEF SubmitRequest, SaveRequest
  <2>2. q.step # "idle" /\ q.step \notin {"pool", "create"}
    BY <2>1 DEF SubmitSteps, SaveSteps
  <2>3. Exists(q.id) /\ q.at <= now'
    BY <1>1, <2>1, <2>2 DEF StillTrue
  <2> QED BY <2>1, <2>2, <2>3 DEF StillTrue, Asked
<1> QED BY <1>2, <1>3, <1>4

\* The same for all requests when at most one of them ends.
LEMMA ReadsStay ==
    ASSUME IInv, TypeOK', now <= now',
           \A s \in Request : request'[s] \in {request[s], Idle},
           \A id \in AttemptId : Exists(id) =>
               /\ Exists(id)'
               /\ attempt'[id].startedAt = attempt[id].startedAt
               /\ attempt'[id].expiresAt = attempt[id].expiresAt
               /\ attempt'[id].paper = attempt[id].paper
    PROVE  ReadsStayTrue'
<1> SUFFICES ASSUME NEW s \in Request PROVE StillTrue(request[s])' 
  BY DEF ReadsStayTrue
<1>1. request[s] \in {Idle} \cup StartRequest \cup SubmitRequest \cup SaveRequest
  BY DEF IInv, TypeOK
<1>2. StillTrue(request[s]) /\ StillTrue(Idle)
  BY DEF IInv, ReadsStayTrue, StillTrue, Idle, SubmitSteps, SaveSteps
<1>3. \A q \in {request[s], Idle} :
        StillTrue(q) => (q = request'[s] => StillTrue(request[s])')
  <2> SUFFICES ASSUME NEW q \in {request[s], Idle}, StillTrue(q), q = request'[s]
               PROVE  StillTrue(request[s])'
    OBVIOUS
  <2>1. StillTrue(q)'
    BY <1>1, StaysTrue DEF IInv
  <2> QED BY <2>1 DEF StillTrue
<1> QED BY <1>2, <1>3

LEMMA CreateStep ==
    ASSUME IInv, NEW r \in Request, CreateAttempt(r)
    PROVE  IInv'
<1> DEFINE q == request[r]
           id == <<q.p, q.no>>
<1>0. TypeOK /\ StillTrue(q)
  BY DEF IInv, ReadsStayTrue
<1>1. q \in StartRequest /\ q.step = "create"
  BY <1>0, RequestByStep DEF CreateAttempt, StartSteps
<1>2. /\ id \in AttemptId /\ q.at \in Nat /\ q.at <= now
      /\ q.at < Deadline(q.at)
      /\ \A n \in AttemptNo : n < q.no => Exists(<<q.p, n>>)
  BY <1>0, <1>1 DEF StartRequest, StillTrue, AttemptId
<1>3. CASE UNCHANGED attempt
  BY <1>3, FinishStep DEF CreateAttempt
<1>4. CASE ~UNCHANGED attempt
  <2> DEFINE row == [status |-> "IN_PROGRESS", startedAt |-> q.at,
                     expiresAt |-> Deadline(q.at), submittedAt |-> Never,
                     paper |-> q.paper]
  <2>1. ~Exists(id) /\ attempt' = [attempt EXCEPT ![id] = row]
        /\ request' = [request EXCEPT ![r] = Idle]
        /\ UNCHANGED <<now, published, answer>>
    BY <1>4 DEF CreateAttempt
  <2>2. row \in Row
    BY <1>1, <1>2, DeadlineType DEF Row, StartRequest, Closed
  <2>3. TypeOK'
    BY <1>0, <1>2, <2>1, <2>2 DEF TypeOK
  <2>4. /\ attempt'[id] = row /\ row # NoAttempt
        /\ \A j \in AttemptId : j # id => attempt'[j] = attempt[j]
    BY <1>0, <1>2, <2>1 DEF TypeOK, NoAttempt
  <2>5. Gapless'
    BY <1>2, <2>4 DEF IInv, Gapless, Exists, AttemptId
  <2>6. VerdictByTheClock'
    <3> SUFFICES ASSUME NEW j \in AttemptId, Exists(j)'
                 PROVE LET w == attempt'[j]
                       IN /\ w.status = "IN_PROGRESS" <=> w.submittedAt = Never
                          /\ w.status = "SUBMITTED" => w.submittedAt < w.expiresAt
                          /\ w.status = "EXPIRED" => w.submittedAt >= w.expiresAt
                          /\ w.startedAt <= now
                          /\ w.startedAt < w.expiresAt /\ w.expiresAt <= EndAt
      BY <2>1 DEF VerdictByTheClock, Exists
    <3>1. CASE j = id
      BY <1>2, <2>4, <3>1, DeadlineType
    <3>2. CASE j # id
      BY <2>4, <3>2 DEF IInv, VerdictByTheClock, Exists
    <3> QED BY <3>1, <3>2
  <2>7. AnswersInTime'
    BY <1>2, <2>1, <2>4 DEF IInv, AnswersInTime, Exists, Asked
  <2>8. ReadsStayTrue'
    <3>1. \A s \in Request : request'[s] \in {request[s], Idle}
      BY <1>0, <2>1 DEF TypeOK
    <3>2. now <= now'
      BY <1>0, <2>1 DEF TypeOK
    <3> QED BY <2>1, <2>3, <2>4, <3>1, <3>2, ReadsStay DEF Exists
  <2> QED BY <2>3, <2>5, <2>6, <2>7, <2>8 DEF IInv
<1> QED BY <1>3, <1>4

LEMMA SubmitStep ==
    ASSUME IInv, NEW r \in Request, Submit(r)
    PROVE  IInv'
<1> DEFINE q == request[r]
<1>0. TypeOK /\ StillTrue(q)
  BY DEF IInv, ReadsStayTrue
<1>1. CASE ReceiveSubmit(r)
  <2>1. PICK id \in Caller[r] \X AttemptNo :
          /\ Exists(id)
          /\ request' = [request EXCEPT ![r] =
               [step |-> "deadline", id |-> id, at |-> now, deadline |-> 0]]
    BY <1>1 DEF ReceiveSubmit
  <2> DEFINE m == [step |-> "deadline", id |-> id, at |-> now, deadline |-> 0]
  <2>2. id \in AttemptId /\ now \in Nat
    BY <1>0, ConstantsAssumption DEF TypeOK, AttemptId
  <2>3. attempt[id].startedAt <= now
    BY <2>1, <2>2 DEF IInv, VerdictByTheClock
  <2>4. m \in SubmitRequest /\ StillTrue(m)
    BY <2>1, <2>2, <2>3 DEF SubmitRequest, SubmitSteps, StillTrue, SaveSteps
  <2> QED BY <1>1, <2>1, <2>4, RequestStep DEF ReceiveSubmit
<1>2. CASE ReadDeadline(r)
  <2> DEFINE m == [q EXCEPT !.deadline = attempt[q.id].expiresAt,
                            !.step = "status"]
  <2>1. q \in SubmitRequest /\ q.step = "deadline"
    BY <1>0, <1>2, RequestByStep DEF ReadDeadline, SubmitSteps
  <2>2. Exists(q.id) /\ q.id \in AttemptId
    BY <1>0, <2>1 DEF StillTrue, SubmitRequest, SubmitSteps
  <2>3. attempt[q.id].expiresAt \in Nat
    BY <1>0, <2>2, RowType DEF Row
  <2>4. m \in SubmitRequest /\ StillTrue(m)
    BY <1>0, <2>1, <2>3 DEF SubmitRequest, SubmitSteps, StillTrue, SaveSteps
  <2> QED BY <1>2, <2>4, RequestStep DEF ReadDeadline
<1>3. CASE ReadStatus(r)
  <2>1. CASE Finish(r)
    BY <1>3, <2>1, FinishStep DEF ReadStatus
  <2>2. CASE Goto(r, "close")
    <3> DEFINE m == [q EXCEPT !.step = "close"]
    <3>1. q \in SubmitRequest /\ q.step = "status"
      BY <1>0, <1>3, RequestByStep DEF ReadStatus, SubmitSteps
    <3>2. m \in SubmitRequest /\ StillTrue(m)
      BY <1>0, <3>1 DEF SubmitRequest, SubmitSteps, StillTrue, SaveSteps
    <3> QED BY <1>3, <2>2, <3>2, RequestStep DEF ReadStatus
  <2> QED BY <1>3, <2>1, <2>2 DEF ReadStatus
<1>4. CASE CloseAttempt(r)
  <2> DEFINE verdict == IF q.at >= q.deadline THEN "EXPIRED" ELSE "SUBMITTED"
             row == [attempt[q.id] EXCEPT !.status = verdict,
                                          !.submittedAt = q.at]
  <2>1. q \in SubmitRequest /\ q.step = "close"
    BY <1>0, <1>4, RequestByStep DEF CloseAttempt, SubmitSteps
  <2>2. /\ q.id \in AttemptId /\ Exists(q.id) /\ q.at \in Nat
        /\ q.deadline = attempt[q.id].expiresAt
    BY <1>0, <2>1 DEF StillTrue, SubmitRequest, SubmitSteps
  <2>3. attempt[q.id] \in Row
    BY <1>0, <2>2, RowType
  <2>4. row \in Row
    BY <2>2, <2>3 DEF Row, Closed
  <2>5. /\ attempt' = [attempt EXCEPT ![q.id] = row]
        /\ request' = [request EXCEPT ![r] = Idle]
        /\ UNCHANGED <<now, published, answer>>
    BY <1>0, <1>4, <2>2 DEF CloseAttempt, TypeOK
  <2>6. TypeOK'
    BY <1>0, <2>2, <2>4, <2>5 DEF TypeOK
  <2>7. /\ attempt'[q.id] = row /\ row # NoAttempt
        /\ row.startedAt = attempt[q.id].startedAt
        /\ row.expiresAt = attempt[q.id].expiresAt
        /\ row.paper = attempt[q.id].paper
        /\ row.status = verdict /\ row.submittedAt = q.at
        /\ \A j \in AttemptId : j # q.id => attempt'[j] = attempt[j]
    BY <1>0, <2>2, <2>3, <2>5 DEF TypeOK, NoAttempt, Row
  <2>8. Gapless' /\ AnswersInTime'
    <3>1. Gapless'
      BY <2>2, <2>7 DEF IInv, Gapless, Exists, AttemptId
    <3>2. AnswersInTime'
      BY <2>2, <2>5, <2>7 DEF IInv, AnswersInTime, Exists, Asked
    <3> QED
      BY <3>1, <3>2
  <2>9. VerdictByTheClock'
    BY <2>2, <2>3, <2>5, <2>7
       DEF IInv, VerdictByTheClock, Exists, Never, Row
  <2>10. ReadsStayTrue'
    <3>1. \A s \in Request : request'[s] \in {request[s], Idle}
      BY <1>0, <2>5 DEF TypeOK
    <3>2. now <= now'
      BY <1>0, <2>5 DEF TypeOK
    <3> QED BY <2>2, <2>6, <2>7, <3>1, <3>2, ReadsStay DEF Exists
  <2> QED BY <2>6, <2>8, <2>9, <2>10 DEF IInv
<1> QED BY <1>1, <1>2, <1>3, <1>4 DEF Submit

LEMMA SaveStep ==
    ASSUME IInv, NEW r \in Request, Save(r)
    PROVE  IInv'
<1> DEFINE q == request[r]
<1>0. TypeOK /\ StillTrue(q)
  BY DEF IInv, ReadsStayTrue
<1>1. CASE ReceiveSave(r)
  <2>1. PICK id \in Caller[r] \X AttemptNo, v \in Version, d \in Payload,
             n \in 0..(MaxRevision - 1) :
          /\ Exists(id)
          /\ request' = [request EXCEPT ![r] =
               [step |-> "active", id |-> id, v |-> v, at |-> now,
                payload |-> d, revision |-> n]]
    BY <1>1 DEF ReceiveSave
  <2> DEFINE m == [step |-> "active", id |-> id, v |-> v, at |-> now,
                   payload |-> d, revision |-> n]
  <2>2. id \in AttemptId /\ now \in Nat /\ n \in Nat
    BY <1>0, ConstantsAssumption DEF TypeOK, AttemptId
  <2>3. attempt[id].startedAt <= now
    BY <2>1, <2>2 DEF IInv, VerdictByTheClock
  <2>4. m \in SaveRequest
    BY <2>2 DEF SaveRequest, SaveSteps
  <2>5. StillTrue(m)
    BY <2>1, <2>2, <2>3 DEF SaveSteps, StillTrue, SubmitSteps
  <2> QED BY <1>1, <2>1, <2>4, <2>5, RequestStep DEF ReceiveSave
<1>2. CASE CheckActive(r)
  <2>1. CASE Finish(r)
    BY <1>2, <2>1, FinishStep DEF CheckActive
  <2>2. CASE ~Finish(r)
    <3> DEFINE m == [q EXCEPT !.step = "current"]
    <3>1. q \in SaveRequest /\ q.step = "active"
      BY <1>0, <1>2, RequestByStep DEF CheckActive, SaveSteps
    <3>2. /\ request' = [request EXCEPT ![r] = m]
          /\ q.v \in Asked(attempt[q.id]) /\ q.at < attempt[q.id].expiresAt
      BY <1>2, <2>2 DEF CheckActive
    <3>3. m \in SaveRequest /\ StillTrue(m)
      BY <1>0, <3>1, <3>2 DEF SaveRequest, SaveSteps, StillTrue, SubmitSteps
    <3> QED BY <1>2, <3>2, <3>3, RequestStep DEF CheckActive
  <2> QED BY <2>1, <2>2
<1>3. CASE CheckCurrent(r)
  <2>1. CASE Finish(r)
    BY <1>3, <2>1, FinishStep DEF CheckCurrent
  <2>2. CASE Goto(r, "upsert")
    <3> DEFINE m == [q EXCEPT !.step = "upsert"]
    <3>1. q \in SaveRequest /\ q.step = "current"
      BY <1>0, <1>3, RequestByStep DEF CheckCurrent, SaveSteps
    <3>2. m \in SaveRequest /\ StillTrue(m)
      BY <1>0, <3>1 DEF SaveRequest, SaveSteps, StillTrue, SubmitSteps
    <3> QED BY <1>3, <2>2, <3>2, RequestStep DEF CheckCurrent
  <2> QED BY <1>3, <2>1, <2>2 DEF CheckCurrent
<1>4. CASE UpsertAnswer(r)
  <2> DEFINE new == [payload |-> q.payload, revision |-> q.revision + 1,
                     savedAt |-> q.at]
  <2>1. q \in SaveRequest /\ q.step = "upsert"
    BY <1>0, <1>4, RequestByStep DEF UpsertAnswer, SaveSteps
  <2>2. /\ q.id \in AttemptId /\ q.v \in Version /\ Exists(q.id)
        /\ attempt[q.id].startedAt <= q.at
        /\ q.v \in Asked(attempt[q.id]) /\ q.at < attempt[q.id].expiresAt
    BY <1>0, <2>1 DEF StillTrue, SaveRequest, SaveSteps
  <2>3. /\ answer' = [answer EXCEPT ![q.id][q.v] = new]
        /\ request' = [request EXCEPT ![r] = Idle]
        /\ UNCHANGED <<now, published, attempt>>
    BY <1>4 DEF UpsertAnswer
  <2>4. new \in Answer
    BY <2>1 DEF SaveRequest, Answer
  <2>5. TypeOK'
    BY <1>0, <2>2, <2>3, <2>4 DEF TypeOK
  <2>6. Gapless' /\ VerdictByTheClock'
    BY <2>3 DEF IInv, Gapless, VerdictByTheClock, Exists
  <2>7. \A j \in AttemptId, w \in Version :
          answer'[j][w] = IF <<j, w>> = <<q.id, q.v>> THEN new ELSE answer[j][w]
    BY <1>0, <2>2, <2>3 DEF TypeOK
  <2>8. AnswersInTime'
    <3> SUFFICES ASSUME NEW j \in AttemptId, NEW w \in Version,
                        answer'[j][w] # NoAnswer
                 PROVE  /\ Exists(j) /\ w \in Asked(attempt[j])
                        /\ attempt[j].startedAt <= answer'[j][w].savedAt
                        /\ answer'[j][w].savedAt < attempt[j].expiresAt
      BY <2>3 DEF AnswersInTime, Exists, Asked
    <3>1. CASE <<j, w>> = <<q.id, q.v>>
      BY <2>2, <2>7, <3>1
    <3>2. CASE <<j, w>> # <<q.id, q.v>>
      BY <2>7, <3>2 DEF IInv, AnswersInTime
    <3> QED BY <3>1, <3>2
  <2>9. ReadsStayTrue'
    <3>1. \A s \in Request : request'[s] \in {request[s], Idle}
      BY <1>0, <2>3 DEF TypeOK
    <3>2. now <= now'
      BY <1>0, <2>3 DEF TypeOK
    <3> QED BY <2>3, <2>5, <3>1, <3>2, ReadsStay DEF Exists
  <2> QED BY <2>5, <2>6, <2>8, <2>9 DEF IInv
<1> QED BY <1>1, <1>2, <1>3, <1>4 DEF Save

LEMMA WorldStep ==
    ASSUME IInv, UNCHANGED <<attempt, answer, request>>,
           \/ now' = now + 1 /\ UNCHANGED published
           \/ published' \subseteq Version /\ UNCHANGED now
    PROVE  IInv'
<1>1. TypeOK' /\ now <= now'
  BY DEF IInv, TypeOK
<1>2. Gapless' /\ AnswersInTime'
  BY DEF IInv, Gapless, AnswersInTime, Exists, Asked
<1>3. VerdictByTheClock'
  <2>1. \A id \in AttemptId : Exists(id) => attempt[id].startedAt <= now'
    <3> SUFFICES ASSUME NEW id \in AttemptId, Exists(id)
                 PROVE  attempt[id].startedAt <= now'
      OBVIOUS
    <3>1. attempt[id].startedAt \in Nat /\ now \in Nat /\ now' \in Nat
      BY <1>1, RowType DEF IInv, Row, TypeOK
    <3>2. attempt[id].startedAt <= now
      BY DEF IInv, VerdictByTheClock
    <3> QED BY <1>1, <3>1, <3>2
  <2> QED BY <2>1 DEF IInv, VerdictByTheClock, Exists
<1>4. ReadsStayTrue'
  BY <1>1, ReadsStay DEF Exists, IInv
<1> QED BY <1>1, <1>2, <1>3, <1>4 DEF IInv

\* The invariant is inductive.
LEMMA NextIInv == IInv /\ [Next]_vars => IInv'
<1> SUFFICES ASSUME IInv, [Next]_vars PROVE IInv'
  OBVIOUS
<1>1. ASSUME NEW r \in Request, Start(r) PROVE IInv'
  BY <1>1, StartSteps1, CreateStep DEF Start
<1>2. ASSUME NEW r \in Request, Submit(r) PROVE IInv'
  BY <1>2, SubmitStep
<1>3. ASSUME NEW r \in Request, Save(r) PROVE IInv'
  BY <1>3, SaveStep
<1>4. ASSUME NEW r \in Request, Abandon(r) PROVE IInv'
  BY <1>4, FinishStep DEF Abandon
<1>5. ASSUME NEW v \in Version, PublishVersion(v) \/ SupersedeVersion(v)
      PROVE  IInv'
  <2>1. published \subseteq Version
    BY DEF IInv, TypeOK
  <2> QED BY <1>5, <2>1, WorldStep DEF PublishVersion, SupersedeVersion
<1>6. CASE Tick
  BY <1>6, WorldStep DEF Tick
<1>7. CASE UNCHANGED vars
  <2>1. published \subseteq Version
    BY DEF IInv, TypeOK
  <2> QED BY <1>7, <2>1, WorldStep
<1> QED BY <1>1, <1>2, <1>3, <1>4, <1>5, <1>6, <1>7 DEF Next

LEMMA Invariance == Spec => []IInv
BY InitIInv, NextIInv, PTL DEF Spec

-----------------------------------------------------------------------------
(* Theorems *)

\* Every row and every handler's locals keep their types.
THEOREM TypesCorrect == Spec => []TypeOK
BY Invariance, PTL DEF IInv

\* Attempt numbers have no gaps, however many starts of a participant overlap.
THEOREM NumbersGapless == Spec => []Gapless
BY Invariance, PTL DEF IInv

\* The verdict of an attempt agrees with its submission and its deadline, also
\* when several submits race.
THEOREM VerdictCorrect == Spec => []VerdictByTheClock
BY Invariance, PTL DEF IInv

\* No stored answer was sent outside its attempt's time or paper.
THEOREM AnswersCorrect == Spec => []AnswersInTime
BY Invariance, PTL DEF IInv

\* What a handler may take from one query to the next stays true.
THEOREM ReadsCorrect == Spec => []ReadsStayTrue
BY Invariance, PTL DEF IInv

-----------------------------------------------------------------------------
(* Papers *)

\* The order of the natural numbers is well-founded: every nonempty set of them
\* has a smallest element.
Below == OpToRel(<, Nat)

LEMMA BelowIs == Below = {ss \in Nat \X Nat : ss[1] < ss[2]}
BY DEF Below, OpToRel

LEMMA SmallestOf ==
    ASSUME NEW R \in SUBSET Nat, R # {}
    PROVE  \E n \in R : \A m \in R : n <= m
<1>1. IsWellFoundedOn(Below, Nat)
  BY NatLessThanWellFounded DEF Below
<1>2. PICK n \in R : \A m \in R : ~(<<m, n>> \in Below)
  BY <1>1, WFMin
<1>3. \A m \in R : m \in Nat /\ n \in Nat /\ ~(m < n)
  <2> TAKE m \in R
  <2>1. m \in Nat /\ n \in Nat
    OBVIOUS
  <2>2. <<m, n>> \in Nat \X Nat /\ <<m, n>>[1] = m /\ <<m, n>>[2] = n
    BY <2>1
  <2> QED BY <1>2, <2>1, <2>2, BelowIs
<1> QED BY <1>3

\* The versions up to v, v included.
UpTo(S, v) == {w \in S : w <= v}

LEMMA UpToGrows ==
    ASSUME NEW S \in SUBSET Nat, IsFiniteSet(S), NEW v \in S
    PROVE  /\ IsFiniteSet(UpTo(S, v)) /\ Cardinality(UpTo(S, v)) \in Nat
           /\ \A u \in S : v < u =>
                Cardinality(UpTo(S, v)) < Cardinality(UpTo(S, u))
<1>1. \A u \in S : /\ IsFiniteSet(UpTo(S, u))
                   /\ Cardinality(UpTo(S, u)) \in Nat
  <2> TAKE u \in S
  <2>1. UpTo(S, u) \in SUBSET S
    BY DEF UpTo
  <2> QED BY <2>1, FS_Subset, FS_CardinalityType
<1>2. ASSUME NEW u \in S, v < u
      PROVE  Cardinality(UpTo(S, v)) < Cardinality(UpTo(S, u))
  <2>1. /\ UpTo(S, v) \in SUBSET UpTo(S, u)
        /\ u \in UpTo(S, u) /\ u \notin UpTo(S, v)
    <3>1. v \in Nat /\ u \in Nat /\ \A w \in S : w \in Nat
      OBVIOUS
    <3>2. \A w \in S : w <= v => w <= u
      BY <1>2, <3>1
    <3>3. ~(u <= v) /\ u <= u
      BY <1>2, <3>1
    <3> QED BY <3>2, <3>3 DEF UpTo
  <2>2. /\ Cardinality(UpTo(S, v)) <= Cardinality(UpTo(S, u))
        /\ Cardinality(UpTo(S, v)) = Cardinality(UpTo(S, u))
                => UpTo(S, v) = UpTo(S, u)
    BY <1>1, <2>1, FS_Subset
  <2>3. /\ Cardinality(UpTo(S, v)) \in Nat
        /\ Cardinality(UpTo(S, u)) \in Nat
    BY <1>1
  <2> QED BY <2>1, <2>2, <2>3
<1> QED BY <1>1, <1>2

\* take: of a finite set no more than k versions are among the k first.
LEMMA FirstOfBounded ==
    ASSUME NEW S \in SUBSET Nat, IsFiniteSet(S), NEW k \in Nat
    PROVE  Cardinality(FirstOf(S, k)) <= k
<1> DEFINE F == FirstOf(S, k)
           R == {k - Cardinality(UpTo(S, v)) : v \in F}
<1>1. F = {v \in S : Cardinality(UpTo(S, v)) <= k}
  BY DEF FirstOf, UpTo
<1>2. \A v \in F : /\ v \in S /\ v \in Nat
                  /\ Cardinality(UpTo(S, v)) \in Nat
                  /\ Cardinality(UpTo(S, v)) <= k
  BY <1>1, UpToGrows
<1> HIDE DEF F
<1>3. CASE F = {}
  BY <1>3, FS_EmptySet DEF F
<1>4. CASE F # {}
  <2>1. R \in SUBSET Nat /\ R # {}
    BY <1>2, <1>4
  <2> HIDE DEF R
  <2>2. PICK n \in R : \A m \in R : n <= m
    BY <2>1, SmallestOf
  <2>3. PICK v \in F : n = k - Cardinality(UpTo(S, v))
    BY DEF R
  <2>4. \A u \in F : k - Cardinality(UpTo(S, v)) <= k - Cardinality(UpTo(S, u))
    BY <2>2, <2>3 DEF R
  <2>5. \A u \in F : ~(v < u)
    BY <1>2, <2>4, UpToGrows
  <2>6. F \in SUBSET UpTo(S, v)
    <3> SUFFICES ASSUME NEW u \in F PROVE u \in UpTo(S, v)
      OBVIOUS
    <3>1. u \in S /\ u \in Nat /\ v \in Nat /\ ~(v < u)
      BY <1>2, <2>5
    <3> QED BY <3>1 DEF UpTo
  <2>7. IsFiniteSet(UpTo(S, v)) /\ Cardinality(UpTo(S, v)) \in Nat
    BY <1>2, UpToGrows
  <2>8. Cardinality(F) <= Cardinality(UpTo(S, v)) /\ IsFiniteSet(F)
    BY <2>6, <2>7, FS_Subset
  <2>9. Cardinality(F) \in Nat
    BY <2>8, FS_CardinalityType
  <2> QED BY <1>2, <2>7, <2>8, <2>9 DEF F
<1> QED BY <1>3, <1>4

\* What has been drawn for the first n rules.
DrawnFor(paper, n) == \A i \in 1..n : /\ paper[i] \subseteq Matches[i]
                                      /\ Cardinality(paper[i]) = Take[i]

\* A start draws for one rule after another, and for all of them before it writes.
PaperKnown(q) ==
    /\ q.step \in {"participant", "resume", "count"} => q.rule = 0
    /\ q.step = "pool" => q.rule < RuleCount /\ DrawnFor(q.paper, q.rule)
    /\ q.step = "create" => DrawnFor(q.paper, RuleCount)

PapersKnown == \A r \in Request : PaperKnown(request[r])

LEMMA KnowsNoPaper ==
    ASSUME NEW q, q.step \notin StartSteps
    PROVE  PaperKnown(q)
BY DEF PaperKnown, StartSteps

\* A step that leaves the papers alone and one request with what it has drawn.
LEMMA PaperStep ==
    ASSUME TypeOK, PapersKnown, PaperComplete, NEW r \in Request, NEW m,
           request' = [request EXCEPT ![r] = m], PaperKnown(m),
           \A id \in AttemptId : Exists(id)' =>
                Exists(id) /\ attempt'[id].paper = attempt[id].paper
    PROVE  PapersKnown' /\ PaperComplete'
<1>1. PapersKnown'
  BY DEF TypeOK, PapersKnown, PaperKnown, DrawnFor
<1>2. PaperComplete'
  BY DEF PaperComplete
<1> QED BY <1>1, <1>2

LEMMA DrawStep ==
    ASSUME IInv, PapersKnown, PaperComplete, NEW r \in Request,
           CountAttempts(r) \/ DrawQuestions(r)
    PROVE  PapersKnown' /\ PaperComplete'
<1> DEFINE q == request[r]
<1>0. /\ TypeOK /\ PaperKnown(q) /\ PaperKnown(Idle)
      /\ \A id \in AttemptId : Exists(id)' => Exists(id) /\ attempt'[id] = attempt[id]
  BY KnowsNoPaper DEF IInv, PapersKnown, Idle, StartSteps, CountAttempts, DrawQuestions,
                      Exists
<1>1. CASE Finish(r)
  BY <1>0, <1>1, PaperStep
<1>2. CASE CountAttempts(r) /\ ~Finish(r)
  <2> DEFINE m == [q EXCEPT !.no = Cardinality(Numbers(q.p)) + 1,
                            !.step = IF RuleCount = 0 THEN "create" ELSE "pool"]
  <2>1. q \in StartRequest /\ q.rule = 0
    BY <1>0, <1>2, RequestByStep DEF CountAttempts, StartSteps, PaperKnown
  <2>2. request' = [request EXCEPT ![r] = m]
    BY <1>2 DEF CountAttempts
  <2>3. m.rule = 0 /\ m.step = IF RuleCount = 0 THEN "create" ELSE "pool"
    BY <2>1 DEF StartRequest
  <2>4. PaperKnown(m)
    BY <2>3, ConstantsAssumption DEF PaperKnown, DrawnFor
  <2> HIDE DEF m
  <2> QED BY <1>0, <2>2, <2>4, PaperStep
<1>3. CASE DrawQuestions(r) /\ ~Finish(r)
  <2> DEFINE i    == q.rule + 1
             S    == published \cap Matches[i]
             pool == FirstOf(S, Take[i])
             m    == [q EXCEPT !.paper[i] = pool, !.rule = i,
                        !.step = IF i = RuleCount THEN "create" ELSE "pool"]
  <2>1. q \in StartRequest /\ q.rule < RuleCount /\ DrawnFor(q.paper, q.rule)
    BY <1>0, <1>3, RequestByStep DEF DrawQuestions, StartSteps, PaperKnown
  <2>2. request' = [request EXCEPT ![r] = m] /\ ~(Cardinality(pool) < Take[i])
    BY <1>3 DEF DrawQuestions
  <2>3. i \in Rule /\ Take[i] \in Nat /\ q.rule \in Nat /\ RuleCount \in Nat
    BY <2>1, ConstantsAssumption DEF StartRequest, Rule
  <2>4. S \in SUBSET Nat /\ IsFiniteSet(S) /\ pool \in SUBSET S
    <3>1. S \in SUBSET Version
      BY <1>0 DEF TypeOK
    <3> QED BY <3>1, ConstantsAssumption, FS_Subset DEF FirstOf
  <2>5. Cardinality(pool) = Take[i]
    <3>1. Cardinality(pool) \in Nat
      BY <2>4, FS_Subset, FS_CardinalityType
    <3>2. Cardinality(pool) <= Take[i]
      BY <2>3, <2>4, FirstOfBounded
    <3> QED BY <2>2, <2>3, <3>1, <3>2
  <2>6. pool \subseteq Matches[i]
    BY <2>4
  <2> HIDE DEF pool
  <2>7. /\ m.rule = i /\ m.step = IF i = RuleCount THEN "create" ELSE "pool"
        /\ m.paper = [q.paper EXCEPT ![i] = pool]
    BY <2>1 DEF StartRequest
  <2>8. q.paper \in [Rule -> SUBSET Version]
    BY <2>1 DEF StartRequest
  <2> HIDE DEF m
  <2>9. DrawnFor(m.paper, i)
    <3> SUFFICES ASSUME NEW j \in 1..i
                 PROVE  m.paper[j] \subseteq Matches[j] /\ Cardinality(m.paper[j]) = Take[j]
      BY DEF DrawnFor
    <3>1. j \in Rule /\ (j = i \/ j \in 1..q.rule)
      BY <2>3 DEF Rule
    <3> QED BY <2>1, <2>3, <2>5, <2>6, <2>7, <2>8, <3>1 DEF DrawnFor
  <2>10. PaperKnown(m)
    BY <2>3, <2>7, <2>9 DEF PaperKnown, Rule
  <2> QED BY <1>0, <2>2, <2>10, PaperStep
<1> QED BY <1>1, <1>2, <1>3

LEMMA CreateKeepsPapers ==
    ASSUME IInv, PapersKnown, PaperComplete, NEW r \in Request, CreateAttempt(r)
    PROVE  PapersKnown' /\ PaperComplete'
<1> DEFINE q  == request[r]
           id == <<q.p, q.no>>
<1>0. TypeOK /\ PaperKnown(q) /\ PaperKnown(Idle)
  BY KnowsNoPaper DEF IInv, PapersKnown, Idle, StartSteps
<1>1. CASE UNCHANGED attempt
  BY <1>0, <1>1, PaperStep DEF CreateAttempt, Exists
<1>2. CASE ~UNCHANGED attempt
  <2>1. q \in StartRequest /\ q.step = "create" /\ id \in AttemptId
    <3>1. q \in StartRequest /\ q.step = "create"
      BY <1>0, <1>2, RequestByStep DEF CreateAttempt, StartSteps
    <3>2. q.no \in AttemptNo
      BY <3>1 DEF IInv, ReadsStayTrue, StillTrue
    <3> QED BY <3>1, <3>2 DEF StartRequest, AttemptId
  <2>2. NoRepeats(q.paper) /\ DrawnFor(q.paper, RuleCount)
    BY <1>0, <1>2, <2>1 DEF CreateAttempt, PaperKnown
  <2>3. /\ attempt'[id].paper = q.paper
        /\ \A j \in AttemptId : j # id => attempt'[j] = attempt[j]
    BY <1>0, <1>2, <2>1 DEF CreateAttempt, TypeOK
  <2>4. PapersKnown'
    BY <1>0 DEF CreateAttempt, TypeOK, PapersKnown, PaperKnown, DrawnFor
  <2>5. PaperComplete'
    <3> SUFFICES ASSUME NEW j \in AttemptId, Exists(j)'
                 PROVE  /\ \A a, b \in Rule :
                             a # b => attempt'[j].paper[a] \cap attempt'[j].paper[b] = {}
                        /\ DrawnFor(attempt'[j].paper, RuleCount)
      BY DEF PaperComplete, DrawnFor, Rule
    <3>1. CASE j = id
      BY <2>2, <2>3, <3>1 DEF NoRepeats
    <3>2. CASE j # id
      BY <2>3, <3>2 DEF PaperComplete, DrawnFor, Rule, Exists
    <3> QED BY <3>1, <3>2
  <2> QED BY <2>4, <2>5
<1> QED BY <1>1, <1>2

\* The other steps of a request draw nothing and write no paper.
LEMMA OtherPaperStep ==
    ASSUME IInv, PapersKnown, PaperComplete, NEW r \in Request,
           \/ ReceiveStart(r) \/ FindParticipant(r) \/ FindLive(r)
           \/ Submit(r) \/ Save(r) \/ Abandon(r)
    PROVE  PapersKnown' /\ PaperComplete'
<1> DEFINE q == request[r]
           Same == \A id \in AttemptId :
                     Exists(id)' => Exists(id) /\ attempt'[id].paper = attempt[id].paper
<1>0. TypeOK /\ PaperKnown(q) /\ PaperKnown(Idle)
  BY KnowsNoPaper DEF IInv, PapersKnown, Idle, StartSteps
<1>1. Same
  <2>1. CASE CloseAttempt(r)
    <3>1. q \in SubmitRequest /\ q.step = "close"
      BY <1>0, <2>1, RequestByStep DEF CloseAttempt, SubmitSteps
    <3>2. q.id \in AttemptId /\ Exists(q.id) /\ attempt[q.id] \in Row
      BY <1>0, <3>1, RowType DEF IInv, ReadsStayTrue, StillTrue, SubmitRequest, SubmitSteps
    <3> QED BY <1>0, <2>1, <3>2 DEF CloseAttempt, TypeOK, Exists, Row
  <2>2. CASE ~CloseAttempt(r)
    <3>1. UNCHANGED attempt
      BY <2>2 DEF ReceiveStart, FindParticipant, FindLive, Submit, ReceiveSubmit,
           ReadDeadline, ReadStatus, Save, ReceiveSave, CheckActive, CheckCurrent,
           UpsertAnswer, Abandon
    <3> QED BY <3>1 DEF Exists
  <2> QED BY <2>1, <2>2
<1>2. \E m : request' = [request EXCEPT ![r] = m] /\ PaperKnown(m)
  <2>1. CASE request' = [request EXCEPT ![r] = Idle]
    BY <1>0, <2>1
  <2>2. CASE ReceiveStart(r)
    BY <2>2 DEF ReceiveStart, PaperKnown
  <2>3. CASE (FindParticipant(r) \/ FindLive(r)) /\ ~Finish(r)
    <3>1. q \in StartRequest /\ q.rule = 0
      BY <1>0, <2>3, RequestByStep DEF FindParticipant, FindLive, StartSteps, PaperKnown
    <3>2. \A s \in {"resume", "count"} : PaperKnown([q EXCEPT !.step = s])
      BY <3>1 DEF StartRequest, PaperKnown
    <3> QED BY <2>3, <3>2 DEF FindParticipant, FindLive
  <2>4. CASE ReceiveSubmit(r) \/ ReceiveSave(r)
    BY <2>4, KnowsNoPaper DEF ReceiveSubmit, ReceiveSave, StartSteps
  <2>5. CASE (ReadDeadline(r) \/ ReadStatus(r)) /\ ~Finish(r)
    <3>1. q \in SubmitRequest
      BY <1>0, <2>5, RequestByStep DEF ReadDeadline, ReadStatus, SubmitSteps
    <3>2. \A s \in {"status", "close"} : \A d :
            [q EXCEPT !.deadline = d, !.step = s].step = s /\ [q EXCEPT !.step = s].step = s
      BY <3>1 DEF SubmitRequest
    <3> QED BY <2>5, <3>2, KnowsNoPaper DEF ReadDeadline, ReadStatus, StartSteps
  <2>6. CASE (CheckActive(r) \/ CheckCurrent(r)) /\ ~Finish(r)
    <3>1. q \in SaveRequest
      BY <1>0, <2>6, RequestByStep DEF CheckActive, CheckCurrent, SaveSteps
    <3>2. \A s \in {"current", "upsert"} : [q EXCEPT !.step = s].step = s
      BY <3>1 DEF SaveRequest
    <3> QED BY <2>6, <3>2, KnowsNoPaper DEF CheckActive, CheckCurrent, StartSteps
  <2> QED BY <2>1, <2>2, <2>3, <2>4, <2>5, <2>6
          DEF Submit, Save, CloseAttempt, UpsertAnswer, Abandon
<1> QED BY <1>0, <1>1, <1>2, PaperStep

LEMMA NextPapers ==
    ASSUME IInv, PapersKnown, PaperComplete, [Next]_vars
    PROVE  PapersKnown' /\ PaperComplete'
<1>1. ASSUME NEW r \in Request, Start(r) \/ Submit(r) \/ Save(r) \/ Abandon(r)
      PROVE  PapersKnown' /\ PaperComplete'
  BY <1>1, DrawStep, CreateKeepsPapers, OtherPaperStep DEF Start
<1>2. CASE UNCHANGED <<attempt, request>>
  BY <1>2 DEF PapersKnown, PaperKnown, DrawnFor, PaperComplete, Exists
<1> QED BY <1>1, <1>2 DEF Next, PublishVersion, SupersedeVersion, Tick

\* The paper of an attempt is complete and asks no question twice, although the
\* pool may shrink or grow between the queries for two rules.
THEOREM PapersComplete == Spec => []PaperComplete
<1>1. Init => PapersKnown /\ PaperComplete
  BY DEF Init, PapersKnown, PaperKnown, PaperComplete, Idle, Exists
<1>2. IInv /\ PapersKnown /\ PaperComplete /\ [Next]_vars
        => PapersKnown' /\ PaperComplete'
  BY NextPapers
<1> QED BY <1>1, <1>2, Invariance, PTL DEF Spec

-----------------------------------------------------------------------------
(***************************************************************************)
(* ExamAttempts implements ExamAttemptRegister: start, submit and          *)
(* saveAnswer each take effect in their one writing step, and every other  *)
(* step stutters.  A request that no other has overtaken writes what the   *)
(* register allows; one that was overtaken writes no worse than Late.      *)
(***************************************************************************)

\* Rows change in two ways only: a key that was free gets a live attempt, or an
\* attempt is closed in place.
LEMMA RowStep ==
    ASSUME IInv, [Next]_vars, attempt' # attempt
    PROVE  \E r \in Request : CreateAttempt(r) \/ CloseAttempt(r)
BY DEF Next, Start, Submit, Save, ReceiveStart, FindParticipant, FindLive,
       CountAttempts, DrawQuestions, ReceiveSubmit, ReadDeadline, ReadStatus,
       ReceiveSave, CheckActive, CheckCurrent, UpsertAnswer, Abandon,
       PublishVersion, SupersedeVersion, Tick

LEMMA CreateEffect ==
    ASSUME IInv, NEW r \in Request, CreateAttempt(r), attempt' # attempt
    PROVE  LET q  == request[r]
               id == <<q.p, q.no>>
           IN  /\ q \in StartRequest /\ q.step = "create"
               /\ id \in AttemptId /\ ~Exists(id)
               /\ attempt'[id].status = "IN_PROGRESS"
               /\ \A j \in AttemptId : j # id => attempt'[j] = attempt[j]
<1> DEFINE q == request[r]
<1>0. TypeOK /\ StillTrue(q)
  BY DEF IInv, ReadsStayTrue
<1>1. q \in StartRequest /\ q.step = "create"
  BY <1>0, RequestByStep DEF CreateAttempt, StartSteps
<1>2. <<q.p, q.no>> \in AttemptId
  BY <1>0, <1>1 DEF StartRequest, StillTrue, AttemptId
<1> QED BY <1>0, <1>1, <1>2 DEF CreateAttempt, TypeOK

LEMMA CloseEffect ==
    ASSUME IInv, NEW r \in Request, CloseAttempt(r)
    PROVE  LET q   == request[r]
               row == attempt'[q.id]
           IN  /\ q \in SubmitRequest /\ q.step = "close"
               /\ q.id \in AttemptId /\ Exists(q.id)
               /\ row = [attempt[q.id] EXCEPT
                    !.status = IF q.at >= attempt[q.id].expiresAt
                                 THEN "EXPIRED" ELSE "SUBMITTED",
                    !.submittedAt = q.at]
               /\ row.submittedAt = q.at /\ row.status \in Closed
               /\ row.startedAt = attempt[q.id].startedAt
               /\ row.expiresAt = attempt[q.id].expiresAt
               /\ row.paper = attempt[q.id].paper
               /\ \A j \in AttemptId : j # q.id => attempt'[j] = attempt[j]
<1> DEFINE q == request[r]
<1>0. TypeOK /\ StillTrue(q)
  BY DEF IInv, ReadsStayTrue
<1>1. q \in SubmitRequest /\ q.step = "close"
  BY <1>0, RequestByStep DEF CloseAttempt, SubmitSteps
<1>2. /\ q.id \in AttemptId /\ Exists(q.id)
      /\ q.deadline = attempt[q.id].expiresAt
  BY <1>0, <1>1 DEF SubmitRequest, SubmitSteps, StillTrue
<1>3. attempt[q.id] \in Row
  BY <1>0, <1>2, RowType
<1>4. attempt'[q.id] = [attempt[q.id] EXCEPT
          !.status = IF q.at >= attempt[q.id].expiresAt
                       THEN "EXPIRED" ELSE "SUBMITTED",
          !.submittedAt = q.at]
  BY <1>0, <1>2 DEF CloseAttempt, TypeOK
<1>5. \A j \in AttemptId : j # q.id => attempt'[j] = attempt[j]
  BY <1>0, <1>2 DEF CloseAttempt, TypeOK
<1> QED BY <1>1, <1>2, <1>3, <1>4, <1>5 DEF Row, Closed

\* An attempt that is closed stays closed, and no step touches the frozen part
\* of a row: not by a retried submit, not by a start that lost a race.
THEOREM ClosedStaysClosed == Spec => ClosedForGood
<1> DEFINE Frozen(id) == Exists(id) =>
             /\ attempt[id].status \in Closed => attempt'[id].status \in Closed
             /\ attempt'[id].startedAt = attempt[id].startedAt
             /\ attempt'[id].expiresAt = attempt[id].expiresAt
             /\ attempt'[id].paper = attempt[id].paper
<1>1. IInv /\ [Next]_vars => [\A id \in AttemptId : Frozen(id)]_vars
  <2> SUFFICES ASSUME IInv, [Next]_vars, NEW id \in AttemptId PROVE Frozen(id)
    OBVIOUS
  <2>1. CASE attempt' = attempt
    BY <2>1
  <2>2. CASE attempt' # attempt
    <3>1. PICK r \in Request : CreateAttempt(r) \/ CloseAttempt(r)
      BY <2>2, RowStep
    <3>2. CASE CreateAttempt(r)
      BY <2>2, <3>2, CreateEffect
    <3>3. CASE CloseAttempt(r)
      BY <3>3, CloseEffect
    <3> QED BY <3>1, <3>2, <3>3
  <2> QED BY <2>1, <2>2
<1> QED BY <1>1, Invariance, PTL DEF Spec, ClosedForGood

-----------------------------------------------------------------------------
(* What a request may rely on until it is overtaken *)

Acts(r) == Start(r) \/ Submit(r) \/ Save(r) \/ Abandon(r)

LEMMA NothingRelied == Init => StatusStaysTrue
BY DEF Init, StatusStaysTrue, TrueUnlessOvertaken, Idle

\* A request leaves the locals of the others alone, makes none of them less
\* stale, and is itself stale until it ends.
LEMMA OthersStay ==
    ASSUME TypeOK, NEW r \in Request, Acts(r)
    PROVE  /\ \A s \in Request : s # r =>
                request'[s] = request[s] /\ (s \in stale => s \in stale')
           /\ r \in stale => r \in stale' \/ request'[r] = Idle
<1> USE DEF TypeOK
<1>1. CASE Start(r)
  BY <1>1 DEF Start, ReceiveStart, FindParticipant, FindLive, CountAttempts,
              DrawQuestions, CreateAttempt
<1>2. CASE Submit(r)
  BY <1>2 DEF Submit, ReceiveSubmit, ReadDeadline, ReadStatus, CloseAttempt
<1>3. CASE Save(r)
  BY <1>3 DEF Save, ReceiveSave, CheckActive, CheckCurrent, UpsertAnswer
<1>4. CASE Abandon(r)
  BY <1>4 DEF Abandon
<1> QED BY <1>1, <1>2, <1>3, <1>4 DEF Acts

\* A request's facts hold as long as the tables stay.
LEMMA Carry ==
    ASSUME NEW s \in Request, TrueUnlessOvertaken(request[s]),
           request'[s] = request[s], UNCHANGED <<attempt, answer>>
    PROVE  TrueUnlessOvertaken(request[s])'
BY DEF TrueUnlessOvertaken, Live

\* A start that creates makes the facts of other starts of its participant
\* stale, and of no other request.
LEMMA CreateOvertakes ==
    ASSUME IInv, NEW r \in Request, NEW s \in Request, r # s,
           CreateAttempt(r), attempt' # attempt, request'[s] = request[s],
           s \notin stale', TrueUnlessOvertaken(request[s])
    PROVE  TrueUnlessOvertaken(request[s])'
<1> DEFINE q == request[s]
           p == request[r].p
           id == <<request[r].p, request[r].no>>
<1>0. TypeOK /\ StillTrue(q)
  BY DEF IInv, ReadsStayTrue
<1>1. /\ ~Exists(id) /\ UNCHANGED answer
      /\ \A j \in AttemptId : j # id => attempt'[j] = attempt[j]
      /\ s \notin StartsOf(p)
  BY CreateEffect DEF CreateAttempt
<1>2. CASE q.step \in {"count", "pool", "create"}
  <2>1. q.p # p /\ q.p \in Participant
    BY <1>0, <1>1, <1>2, RequestByStep DEF StartsOf, StartSteps, StartRequest
  <2>2. \A n \in AttemptNo : <<q.p, n>> \in AttemptId /\ <<q.p, n>> # id
    BY <2>1 DEF AttemptId
  <2> QED BY <1>1, <1>2, <2>2 DEF TrueUnlessOvertaken, Live
<1>3. CASE q.step \in {"close", "current", "upsert"}
  <2>1. q.id \in AttemptId /\ Exists(q.id)
    BY <1>0, <1>3, RequestByStep
       DEF SubmitSteps, SaveSteps, SubmitRequest, SaveRequest, StillTrue
  <2>2. attempt'[q.id] = attempt[q.id]
    BY <1>1, <2>1
  <2> QED BY <1>1, <1>3, <2>2 DEF TrueUnlessOvertaken, Live
<1> QED BY <1>2, <1>3 DEF TrueUnlessOvertaken

\* A submit makes stale what others take that attempt for.
LEMMA CloseOvertakes ==
    ASSUME IInv, NEW r \in Request, NEW s \in Request, r # s,
           CloseAttempt(r), request'[s] = request[s],
           s \notin stale', TrueUnlessOvertaken(request[s])
    PROVE  TrueUnlessOvertaken(request[s])'
<1> DEFINE q == request[s]
           id == request[r].id
<1>0. TypeOK /\ StillTrue(q)
  BY DEF IInv, ReadsStayTrue
<1>1. /\ id \in AttemptId /\ attempt'[id].status \in Closed
      /\ UNCHANGED answer
      /\ \A j \in AttemptId : j # id => attempt'[j] = attempt[j]
      /\ s \notin ActsOn(id)
  BY CloseEffect DEF CloseAttempt
<1>2. CASE q.step \in {"count", "pool", "create"}
  <2>1. q.p \in Participant
    BY <1>0, <1>2, RequestByStep DEF StartSteps, StartRequest
  <2>2. \A j \in AttemptId : ~Live(j) => ~Live(j)'
    BY <1>1 DEF Live, Closed
  <2>3. \A n \in AttemptNo : <<q.p, n>> \in AttemptId
    BY <2>1 DEF AttemptId
  <2> QED BY <1>2, <2>2, <2>3 DEF TrueUnlessOvertaken
<1>3. CASE q.step \in {"close", "current", "upsert"}
  <2>1. q.id \in AttemptId /\ q.id # id
    BY <1>0, <1>1, <1>3, RequestByStep
       DEF SubmitSteps, SaveSteps, SubmitRequest, SaveRequest, ActsOn
  <2>2. attempt'[q.id] = attempt[q.id]
    BY <1>1, <2>1
  <2> QED BY <1>1, <1>3, <2>2 DEF TrueUnlessOvertaken, Live
<1> QED BY <1>2, <1>3 DEF TrueUnlessOvertaken

\* A save makes stale the revisions that other saves of that answer have seen.
LEMMA SaveOvertakes ==
    ASSUME IInv, NEW r \in Request, NEW s \in Request, r # s,
           UpsertAnswer(r), request'[s] = request[s],
           s \notin stale', TrueUnlessOvertaken(request[s])
    PROVE  TrueUnlessOvertaken(request[s])'
<1> DEFINE q == request[s]
           id == request[r].id
           v == request[r].v
<1>0. TypeOK
  BY DEF IInv
<1>1. UNCHANGED attempt /\ s \notin Saves(id, v)
  BY DEF UpsertAnswer
<1>2. CASE q.step = "upsert"
  <2>1. /\ q.id \in AttemptId /\ q.v \in Version
        /\ q.id # id \/ q.v # v
    BY <1>0, <1>1, <1>2, RequestByStep DEF SaveSteps, SaveRequest, Saves
  <2>2. answer'[q.id][q.v] = answer[q.id][q.v]
    BY <1>0, <2>1 DEF UpsertAnswer, TypeOK
  <2> QED BY <1>1, <1>2, <2>2 DEF TrueUnlessOvertaken, Live
<1>3. CASE q.step # "upsert"
  BY <1>1, <1>3 DEF TrueUnlessOvertaken, Live
<1> QED BY <1>2, <1>3

\* The request that takes a step learns only what is so.
LEMMA ActingStep ==
    ASSUME IInv, NEW r \in Request, TrueUnlessOvertaken(request[r]), Acts(r)
    PROVE  TrueUnlessOvertaken(request[r])'
<1> DEFINE q == request[r]
<1> USE DEF TrueUnlessOvertaken
<1>0. TypeOK /\ StillTrue(q)
  BY DEF IInv, ReadsStayTrue
<1>1. CASE request'[r] = Idle
  BY <1>1 DEF Idle
<1>2. CASE ReceiveStart(r) \/ ReceiveSubmit(r) \/ ReceiveSave(r)
  <2>1. CASE ReceiveStart(r)
    BY <1>0, <2>1 DEF ReceiveStart, TypeOK
  <2>2. CASE ReceiveSubmit(r)
    BY <1>0, <2>2 DEF ReceiveSubmit, TypeOK
  <2>3. CASE ReceiveSave(r)
    BY <1>0, <2>3 DEF ReceiveSave, TypeOK
  <2> QED BY <1>2, <2>1, <2>2, <2>3
<1>3. CASE FindParticipant(r) /\ ~Finish(r)
  <2>1. q \in StartRequest
    BY <1>0, <1>3, RequestByStep DEF FindParticipant, StartSteps
  <2>2. request'[r] = [q EXCEPT !.step = "resume"]
    BY <1>0, <1>3 DEF FindParticipant, TypeOK
  <2> QED BY <2>1, <2>2 DEF StartRequest
<1>4. CASE FindLive(r) /\ ~Finish(r)
  <2>1. q \in StartRequest
    BY <1>0, <1>4, RequestByStep DEF FindLive, StartSteps
  <2>2. /\ request'[r] = [q EXCEPT !.step = "count"] /\ UNCHANGED attempt
        /\ \A n \in AttemptNo : ~Live(<<q.p, n>>)
    BY <1>0, <1>4 DEF FindLive, TypeOK
  <2> QED BY <2>1, <2>2 DEF StartRequest, Live
<1>5. CASE CountAttempts(r) /\ ~Finish(r)
  <2> DEFINE k == Cardinality(Numbers(q.p))
  <2>1. q \in StartRequest /\ q.step = "count"
    BY <1>0, <1>5, RequestByStep DEF CountAttempts, StartSteps
  <2>2. /\ request'[r] = [q EXCEPT !.no = k + 1,
                 !.step = IF RuleCount = 0 THEN "create" ELSE "pool"]
        /\ UNCHANGED attempt
    BY <1>0, <1>5 DEF CountAttempts, TypeOK
  <2>3. request'[r].p = q.p /\ request'[r].step \in {"create", "pool"}
    BY <2>1, <2>2 DEF StartRequest
  <2> QED BY <2>1, <2>2, <2>3 DEF Live
<1>6. CASE DrawQuestions(r) /\ ~Finish(r)
  <2> DEFINE i == q.rule + 1
             pool == FirstOf(published \cap Matches[i], Take[i])
  <2>1. q \in StartRequest /\ q.step = "pool"
    BY <1>0, <1>6, RequestByStep DEF DrawQuestions, StartSteps
  <2>2. /\ request'[r] = [q EXCEPT !.paper[i] = pool, !.rule = i,
                 !.step = IF i = RuleCount THEN "create" ELSE "pool"]
        /\ UNCHANGED attempt
    BY <1>0, <1>6 DEF DrawQuestions, TypeOK
  <2>3. request'[r].p = q.p /\ request'[r].step \in {"create", "pool"}
    BY <2>1, <2>2 DEF StartRequest
  <2> QED BY <2>1, <2>2, <2>3 DEF Live
<1>7. CASE ReadDeadline(r)
  <2>1. q \in SubmitRequest
    BY <1>0, <1>7, RequestByStep DEF ReadDeadline, SubmitSteps
  <2>2. request'[r].step = "status"
    BY <1>0, <1>7, <2>1 DEF ReadDeadline, TypeOK, SubmitRequest
  <2> QED BY <2>1, <2>2
<1>8. CASE ReadStatus(r) /\ ~Finish(r)
  <2>1. q \in SubmitRequest
    BY <1>0, <1>8, RequestByStep DEF ReadStatus, SubmitSteps
  <2>2. /\ request'[r] = [q EXCEPT !.step = "close"]
        /\ Live(q.id) /\ UNCHANGED attempt
    BY <1>0, <1>8 DEF ReadStatus, TypeOK
  <2> QED BY <2>1, <2>2 DEF SubmitRequest, Live
<1>9. CASE CheckActive(r) /\ ~Finish(r)
  <2>1. q \in SaveRequest
    BY <1>0, <1>9, RequestByStep DEF CheckActive, SaveSteps
  <2>2. /\ request'[r] = [q EXCEPT !.step = "current"]
        /\ Live(q.id) /\ UNCHANGED attempt
    BY <1>0, <1>9 DEF CheckActive, TypeOK
  <2> QED BY <2>1, <2>2 DEF SaveRequest, Live
<1>10. CASE CheckCurrent(r) /\ ~Finish(r)
  <2>1. q \in SaveRequest /\ q.step = "current"
    BY <1>0, <1>10, RequestByStep DEF CheckCurrent, SaveSteps
  <2>2. /\ request'[r] = [q EXCEPT !.step = "upsert"]
        /\ ~Stale(q, answer[q.id][q.v]) /\ UNCHANGED <<attempt, answer>>
    BY <1>0, <1>10 DEF CheckCurrent, TypeOK
  <2>3. q.revision >= answer[q.id][q.v].revision
    BY <1>0, <2>1, <2>2 DEF Stale, NoAnswer, TypeOK, SaveRequest, Answer
  <2> QED BY <2>1, <2>2, <2>3 DEF SaveRequest, Live
<1>11. CASE CreateAttempt(r) \/ CloseAttempt(r) \/ UpsertAnswer(r) \/ Finish(r)
  <2>1. request'[r] = Idle
    BY <1>0, <1>11 DEF CreateAttempt, CloseAttempt, UpsertAnswer, TypeOK
  <2> QED BY <1>1, <2>1
<1> QED BY <1>2, <1>3, <1>4, <1>5, <1>6, <1>7, <1>8, <1>9, <1>10, <1>11
        DEF Acts, Start, Submit, Save, Abandon

\* Only one step writes answers.
LEMMA AnswerStep ==
    ASSUME [Next]_vars, answer' # answer
    PROVE  \E r \in Request : UpsertAnswer(r)
BY DEF Next, Start, Submit, Save, ReceiveStart, FindParticipant, FindLive,
       CountAttempts, DrawQuestions, CreateAttempt, ReceiveSubmit, ReadDeadline,
       ReadStatus, CloseAttempt, ReceiveSave, CheckActive, CheckCurrent, Abandon,
       PublishVersion, SupersedeVersion, Tick

\* The same for the step of one request.
LEMMA ActorWrites ==
    ASSUME NEW r \in Request, Acts(r)
    PROVE  \/ CreateAttempt(r) /\ attempt' # attempt
           \/ CloseAttempt(r) \/ UpsertAnswer(r)
           \/ UNCHANGED <<attempt, answer>>
<1>1. CASE Start(r)
  BY <1>1 DEF Start, ReceiveStart, FindParticipant, FindLive, CountAttempts,
              DrawQuestions, CreateAttempt
<1>2. CASE Submit(r)
  BY <1>2 DEF Submit, ReceiveSubmit, ReadDeadline, ReadStatus
<1>3. CASE Save(r)
  BY <1>3 DEF Save, ReceiveSave, CheckActive, CheckCurrent
<1>4. CASE Abandon(r)
  BY <1>4 DEF Abandon
<1> QED BY <1>1, <1>2, <1>3, <1>4 DEF Acts

LEMMA ReliedNext ==
    ASSUME IInv, StatusStaysTrue, [Next]_vars
    PROVE  StatusStaysTrue'
<1> SUFFICES ASSUME NEW s \in Request, s \notin stale'
             PROVE  TrueUnlessOvertaken(request[s])'
  BY DEF StatusStaysTrue
<1>0. TypeOK /\ (s \notin stale => TrueUnlessOvertaken(request[s]))
  BY DEF IInv, StatusStaysTrue
<1>1. ASSUME NEW r \in Request, Acts(r)
      PROVE  TrueUnlessOvertaken(request[s])'
  <2>1. CASE r = s
    <3>1. CASE s \in stale
      <4>1. request'[s] = Idle
        BY <1>0, <1>1, <2>1, <3>1, OthersStay
      <4> QED BY <4>1 DEF TrueUnlessOvertaken, Idle
    <3>2. CASE s \notin stale
      BY <1>0, <1>1, <2>1, <3>2, ActingStep
    <3> QED BY <3>1, <3>2
  <2>2. CASE r # s
    <3>1. request'[s] = request[s] /\ TrueUnlessOvertaken(request[s])
      BY <1>0, <1>1, <2>2, OthersStay
    <3> QED BY <1>1, <2>2, <3>1, ActorWrites, Carry, CreateOvertakes,
               CloseOvertakes, SaveOvertakes
  <2> QED BY <2>1, <2>2
<1>2. CASE UNCHANGED <<attempt, answer, request, stale>>
  BY <1>0, <1>2, Carry
<1> QED BY <1>1, <1>2 DEF Next, Acts, PublishVersion, SupersedeVersion, Tick

-----------------------------------------------------------------------------
(* Refinement *)

LEMMA InitRefines == Init => Register!Init
BY DEF Init, Register!Init, Register!AttemptId, AttemptId

Kept == Register!Next \/ (Overtaken /\ Register!Late)

\* A request that writes ends, so it is seen to be overtaken when it was.
LEMMA WriterEnds ==
    ASSUME IInv, NEW r \in Request, r \in stale,
           CreateAttempt(r) \/ CloseAttempt(r) \/ UpsertAnswer(r)
    PROVE  Overtaken
<1>1. request'[r] = Idle /\ request[r].step # "idle"
  BY DEF IInv, TypeOK, CreateAttempt, CloseAttempt, UpsertAnswer
<1> QED BY <1>1 DEF Overtaken, Idle

\* A number that is free, with all below it in use, is the next one.
LEMMA NextNumber ==
    ASSUME IInv, NEW p \in Participant, NEW n \in AttemptNo, ~Exists(<<p, n>>),
           \A m \in AttemptNo : m < n => Exists(<<p, m>>)
    PROVE  \A m \in AttemptNo : m < n <=> Exists(<<p, m>>)
<1>1. \A m \in AttemptNo : m \in Nat
  BY ConstantsAssumption DEF AttemptNo
<1>2. \A m \in AttemptNo : n < m => ~Exists(<<p, m>>)
  BY DEF IInv, Gapless
<1> QED BY <1>1, <1>2

LEMMA CreateKept ==
    ASSUME IInv, StatusStaysTrue, NEW r \in Request, CreateAttempt(r),
           attempt' # attempt
    PROVE  Kept
<1> DEFINE q == request[r]
<1>1. /\ q.p \in Participant /\ q.no \in AttemptNo
      /\ q.step = "create" /\ UNCHANGED answer
      /\ \A m \in AttemptNo : m < q.no => Exists(<<q.p, m>>)
  <2>1. q \in StartRequest /\ q.step = "create" /\ StillTrue(q)
    BY CreateEffect DEF IInv, ReadsStayTrue
  <2> QED BY <2>1 DEF StartRequest, StillTrue, CreateAttempt
<1>2. \A m \in AttemptNo : m < q.no <=> Exists(<<q.p, m>>)
  BY <1>1, CreateEffect, NextNumber
<1>3. CASE r \in stale
  <2>1. Register!OpenSecond(q.p, q.no)
    BY <1>1, <1>2, CreateEffect
       DEF Register!OpenSecond, Register!OnlyAttempt, Register!AttemptId,
           AttemptId, Exists
  <2> QED BY <1>1, <1>3, <2>1, WriterEnds DEF Kept, Register!Late
<1>4. CASE r \notin stale
  <2>1. \A m \in AttemptNo : ~Live(<<q.p, m>>)
    BY <1>1, <1>4 DEF StatusStaysTrue, TrueUnlessOvertaken
  <2>2. Register!Open(q.p, q.no)
    BY <1>1, <1>2, <2>1, CreateEffect
       DEF Register!Open, Register!Live, Register!OnlyAttempt,
           Register!AttemptId, AttemptId, Live, Exists
  <2> QED BY <1>1, <2>2 DEF Kept, Register!Next
<1> QED BY <1>3, <1>4

LEMMA CloseKept ==
    ASSUME IInv, StatusStaysTrue, NEW r \in Request, CloseAttempt(r)
    PROVE  Kept
<1> DEFINE id == request[r].id
<1>1. /\ id \in AttemptId /\ Exists(id) /\ request[r].step = "close"
      /\ UNCHANGED answer
      /\ \A j \in AttemptId : j # id => attempt'[j] = attempt[j]
  BY CloseEffect DEF CloseAttempt
<1>2. Register!Judged(id)
  BY CloseEffect DEF Register!Judged
<1>3. attempt[id].status \in {"IN_PROGRESS", "SUBMITTED", "EXPIRED"}
  BY <1>1, RowType DEF IInv, Row, Closed
<1>4. CASE Live(id)
  <2>1. Register!Close(id)
    BY <1>1, <1>2, <1>4
       DEF Register!Close, Register!Live, Register!OnlyAttempt,
           Register!AttemptId, AttemptId, Live
  <2> QED BY <1>1, <2>1 DEF Kept, Register!Next, Register!AttemptId, AttemptId
<1>5. CASE ~Live(id)
  <2>1. r \in stale
    BY <1>1, <1>5 DEF StatusStaysTrue, TrueUnlessOvertaken
  <2>2. Register!Restamp(id)
    BY <1>1, <1>2, <1>3, <1>5
       DEF Register!Restamp, Register!OnlyAttempt, Register!AttemptId,
           AttemptId, Live
  <2> QED BY <1>1, <2>1, <2>2, WriterEnds
          DEF Kept, Register!Late, Register!AttemptId, AttemptId
<1> QED BY <1>4, <1>5

LEMMA SaveKept ==
    ASSUME IInv, StatusStaysTrue, NEW r \in Request, UpsertAnswer(r)
    PROVE  Kept
<1> DEFINE q == request[r]
<1>0. TypeOK /\ StillTrue(q)
  BY DEF IInv, ReadsStayTrue
<1>1. q \in SaveRequest /\ q.step = "upsert"
  BY <1>0, RequestByStep DEF UpsertAnswer, SaveSteps
<1>2. /\ q.id \in AttemptId /\ q.v \in Version /\ q.revision \in Nat
      /\ answer[q.id][q.v].revision \in Nat
  BY <1>0, <1>1 DEF SaveRequest, TypeOK, Answer, NoAnswer
<1>3. /\ answer'[q.id][q.v].revision = q.revision + 1
      /\ answer'[q.id][q.v].savedAt = q.at
      /\ \A j \in AttemptId, w \in Version :
            <<j, w>> # <<q.id, q.v>> => answer'[j][w] = answer[j][w]
      /\ UNCHANGED attempt
  BY <1>0, <1>2 DEF UpsertAnswer, TypeOK
<1>4. Register!OnlyAnswer(q.id, q.v)
  BY <1>3 DEF Register!OnlyAnswer, Register!AttemptId, AttemptId
<1>5. CASE r \in stale
  <2>1. Exists(q.id) /\ q.at < attempt[q.id].expiresAt
    BY <1>0, <1>1 DEF StillTrue, SaveSteps
  <2>2. answer'[q.id][q.v] # NoAnswer
    <3>1. q.revision + 1 # 0
      BY <1>2
    <3> QED BY <1>3, <3>1 DEF NoAnswer
  <2>3. Register!WriteLate(q.id, q.v)
    BY <1>3, <1>4, <2>1, <2>2 DEF Register!WriteLate, Exists
  <2> QED BY <1>2, <1>5, <2>3, WriterEnds
          DEF Kept, Register!Late, Register!AttemptId, AttemptId
<1>6. CASE r \notin stale
  <2>1. Live(q.id) /\ q.revision >= answer[q.id][q.v].revision
    BY <1>1, <1>6 DEF StatusStaysTrue, TrueUnlessOvertaken
  <2>2. answer'[q.id][q.v].revision > answer[q.id][q.v].revision
    BY <1>2, <1>3, <2>1
  <2>3. Register!Write(q.id, q.v)
    BY <1>3, <1>4, <2>1, <2>2 DEF Register!Write, Register!Live, Live
  <2> QED BY <1>2, <2>3 DEF Kept, Register!Next, Register!AttemptId, AttemptId
<1> QED BY <1>5, <1>6

LEMMA NextRefines ==
    ASSUME IInv, StatusStaysTrue, [Next]_vars
    PROVE  [Kept]_<<attempt, answer>>
<1>1. CASE attempt' # attempt
  <2>1. PICK r \in Request : CreateAttempt(r) \/ CloseAttempt(r)
    BY <1>1, RowStep
  <2> QED BY <1>1, <2>1, CreateKept, CloseKept
<1>2. CASE answer' # answer
  BY <1>2, AnswerStep, SaveKept
<1> QED BY <1>1, <1>2

\* Whatever overlaps, the attempt runtime keeps its promise wherever no request
\* was overtaken: start, submit and saveAnswer are atomic operations that never
\* open a second live attempt, never touch a closed one and never go back to an
\* older revision.  One that was overtaken can do no more than number a second
\* live attempt next, stamp a closed one anew by its own deadline, or store an
\* answer late that was sent in time.
THEOREM RegisterKept == Spec => KeepsRegister
<1>1. Init => StatusStaysTrue /\ Register!Init
  BY NothingRelied, InitRefines
<1>2. IInv /\ StatusStaysTrue /\ [Next]_vars => StatusStaysTrue'
  BY ReliedNext
<1>3. IInv /\ StatusStaysTrue /\ [Next]_vars => [Kept]_<<attempt, answer>>
  BY NextRefines
<1> QED BY <1>1, <1>2, <1>3, Invariance, PTL DEF Spec, KeepsRegister, Kept
=============================================================================
