--------------------------- MODULE GraduationProofs ---------------------------
(***************************************************************************)
(* Proofs about Graduation, for every set of enrollments, offers, results  *)
(* and requests and every value of the bounds; and, at the end, about the  *)
(* rule engine of RuleEngine, for every set of components and results.     *)
(***************************************************************************)
EXTENDS Graduation, RuleEngine, Sums, SequenceTheorems, WellFoundedInduction

EvaluationSteps == {"attendance", "grades", "exams", "rule", "supersede", "write"}

\* The locals of a request, spelled out: a request that evaluates has all six
\* of them, and a request that edits a rule has read that rule.
Known(q) ==
    /\ Handling(q)
    /\ q.step \in EvaluationSteps =>
        q = [step |-> q.step, choice |-> q.choice, queue |-> q.queue,
             rule |-> q.rule, seen |-> q.seen, eligible |-> q.eligible]

RequestsKnown ==
    /\ handler = [h \in Handler |-> handler[h]]
    /\ \A h \in Handler :
        /\ Known(handler[h])
        /\ handler[h].step \in {"update", "status"} => handler[h].rule \in Rules

\* The rows of one enrollment are numbered without a gap.
Gapless ==
    \A e \in Enrollment : \A m, n \in EvaluationNo :
        m < n /\ Written(<<e, n>>) => Written(<<e, m>>)

\* The inductive invariant.
IInv ==
    /\ TypeOK
    /\ RequestsKnown
    /\ Gapless
    /\ VerdictStands

-----------------------------------------------------------------------------
(* Facts about the operators *)

\* A nonempty set of rules has a newest one.
LEMMA NewestExists ==
    ASSUME NEW S \in SUBSET Rule, S # {}
    PROVE  Max(S) \in S
<1> DEFINE Above == OpToRel(<, Nat)
           R == {MaxRules - k : k \in S}
<1>0. MaxRules \in Nat /\ \A k \in S : k \in Nat /\ k <= MaxRules
  BY GraduationAssumption DEF Rule
<1>1. R \in SUBSET Nat /\ R # {}
  BY <1>0
<1>2. Above = {ss \in Nat \X Nat : ss[1] < ss[2]}
  BY DEF OpToRel
<1>3. IsWellFoundedOn(Above, Nat)
  BY NatLessThanWellFounded
<1> HIDE DEF Above, R
<1>4. PICK n \in R : \A m \in R : ~(<<m, n>> \in Above)
  BY <1>1, <1>3, WFMin
<1>5. \A m \in R : n <= m
  <2> TAKE m \in R
  <2>1. m \in Nat /\ n \in Nat
    BY <1>1
  <2>2. <<m, n>> \in Nat \X Nat /\ <<m, n>>[1] = m /\ <<m, n>>[2] = n
    BY <2>1
  <2> QED BY <1>2, <1>4, <2>1, <2>2
<1>6. PICK k \in S : n = MaxRules - k
  BY DEF R
<1>7. \A j \in S : k >= j
  <2> TAKE j \in S
  <2>1. MaxRules - k <= MaxRules - j
    BY <1>5, <1>6 DEF R
  <2> QED BY <1>0, <2>1
<1> QED BY <1>7 DEF Max

\* What resolveRule returns is a published rule.
LEMMA ResolveFinds ==
    ASSUME NEW choice, Resolvable(choice)
    PROVE  Resolve(choice) \in Published /\ Resolve(choice) \in Rule
<1>1. Published \in SUBSET Rule
  BY DEF Published, Rules
<1> QED BY <1>1, NewestExists DEF Resolvable, Resolve

\* A row that is written differs from none, and superseding leaves it written.
LEMMA SupersededRow ==
    ASSUME NEW row \in EvaluationRow
    PROVE  /\ row # NoEvaluation
           /\ Superseded(row) \in EvaluationRow
           /\ Superseded(row).rule = row.rule
           /\ Superseded(row).outcome = "SUPERSEDED"
BY DEF EvaluationRow, Superseded, NoEvaluation, Verdicts

\* With no gap in the numbers, the one after their count is free.
LEMMA NextIsFree ==
    ASSUME TypeOK, Gapless, NEW e \in Enrollment,
           Count(e) + 1 \in EvaluationNo
    PROVE  /\ Count(e) \in Nat
           /\ \A n \in EvaluationNo : Written(<<e, n>>) <=> n <= Count(e)
<1> DEFINE S == {n \in EvaluationNo : Written(<<e, n>>)}
           k == Count(e)
<1>0. MaxEvaluations \in Nat /\ EvaluationNo = 1..MaxEvaluations
  BY GraduationAssumption DEF EvaluationNo
<1>1. IsFiniteSet(EvaluationNo)
  BY <1>0, FS_Interval
<1>2. /\ S \in SUBSET EvaluationNo
      /\ \A n \in EvaluationNo : n \in S <=> Written(<<e, n>>)
      /\ \A m, n \in EvaluationNo : m < n /\ n \in S => m \in S
  BY DEF Gapless
<1>3. k = Cardinality(S)
  BY DEF Count
<1> HIDE DEF S, k
<1>4. IsFiniteSet(S) /\ k \in Nat
  BY <1>1, <1>2, <1>3, FS_Subset, FS_CardinalityType
<1>5. ASSUME NEW n \in EvaluationNo, n \in S PROVE n <= k
  <2>1. (1..n) \in SUBSET S
    BY <1>0, <1>2, <1>5
  <2>2. Cardinality(1..n) = n
    BY <1>0, FS_Interval
  <2>3. Cardinality(1..n) <= Cardinality(S)
    BY <1>4, <2>1, FS_Subset
  <2> QED BY <1>3, <2>2, <2>3
<1>6. ASSUME NEW n \in EvaluationNo, n \notin S PROVE k < n
  <2>1. S \in SUBSET (1..(n - 1))
    BY <1>0, <1>2, <1>6
  <2>2. IsFiniteSet(1..(n - 1)) /\ Cardinality(1..(n - 1)) = n - 1
    BY <1>0, FS_Interval
  <2>3. k <= n - 1
    BY <1>3, <2>1, <2>2, FS_Subset
  <2> QED BY <1>0, <1>4, <2>3
<1>7. \A n \in EvaluationNo : Written(<<e, n>>) <=> n <= k
  BY <1>0, <1>2, <1>4, <1>5, <1>6
<1> QED BY <1>4, <1>7 DEF k

-----------------------------------------------------------------------------
(* The locals of a request *)

\* One request takes a step to locals it may have, and no rule disappears.
LEMMA RequestStep ==
    ASSUME RequestsKnown, NEW h \in Handler, NEW m,
           handler' = [handler EXCEPT ![h] = m], Known(m),
           m.step \in {"update", "status"} => m.rule \in Rules',
           Rules \subseteq Rules'
    PROVE  /\ RequestsKnown'
           /\ \A x \in Handler : Handling(handler'[x])
           /\ handler'[h] = m
           /\ \A x \in Handler : x # h => handler'[x] = handler[x]
<1>1. /\ handler'[h] = m
      /\ \A x \in Handler : x # h => handler'[x] = handler[x]
      /\ handler' = [x \in Handler |-> handler'[x]]
  BY DEF RequestsKnown
<1>2. ASSUME NEW x \in Handler
      PROVE  /\ Known(handler'[x])
             /\ handler'[x].step \in {"update", "status"}
                    => handler'[x].rule \in Rules'
  BY <1>1 DEF RequestsKnown
<1>3. \A x \in Handler : Handling(handler'[x])
  BY <1>2 DEF Known
<1> QED BY <1>1, <1>2, <1>3 DEF RequestsKnown

\* Requests that stand still know what they knew, as long as no rule disappears.
LEMMA RequestsStandStill ==
    ASSUME RequestsKnown, handler' = handler, Rules \subseteq Rules'
    PROVE  RequestsKnown'
BY DEF RequestsKnown

LEMMA IdleKnown == Known(Idle) /\ Idle.step = "idle"
BY DEF Known, Handling, Idle, EvaluationSteps

LEMMA EmptyHandedKnown ==
    ASSUME NEW choice \in Rule \cup {Latest},
           NEW queue \in Seq(Enrollment), queue # <<>>
    PROVE  /\ Known(EmptyHanded(choice, queue))
           /\ EmptyHanded(choice, queue).step = "attendance"
BY DEF Known, Handling, EmptyHanded, EvaluationSteps

\* A request that evaluates, and whom.
LEMMA Evaluating ==
    ASSUME RequestsKnown, NEW h \in Handler, handler[h].step \in EvaluationSteps
    PROVE  /\ handler[h].choice \in Rule \cup {Latest}
           /\ handler[h].queue \in Seq(Enrollment) \ {<<>>}
           /\ handler[h].step \in {"supersede", "write"} => handler[h].rule \in Rule
           /\ handler[h].eligible \in BOOLEAN
           /\ Subject(h) \in Enrollment
           /\ \E a, b, c, d, e, f : handler[h] =
                [step |-> a, choice |-> b, queue |-> c, rule |-> d,
                 seen |-> e, eligible |-> f]
<1>1. Known(handler[h])
  BY DEF RequestsKnown
<1>2. /\ handler[h].choice \in Rule \cup {Latest}
      /\ handler[h].queue \in Seq(Enrollment) \ {<<>>}
      /\ handler[h].step \in {"supersede", "write"} => handler[h].rule \in Rule
      /\ handler[h].eligible \in BOOLEAN
  BY <1>1 DEF Known, Handling, EvaluationSteps
<1>3. Subject(h) \in Enrollment
  BY <1>2, HeadTailProperties DEF Subject
<1>4. \E a, b, c, d, e, f : handler[h] =
            [step |-> a, choice |-> b, queue |-> c, rule |-> d,
             seen |-> e, eligible |-> f]
  BY <1>1 DEF Known
<1> QED BY <1>2, <1>3, <1>4

\* An evaluating request goes on to another of its steps.
LEMMA StepOn ==
    ASSUME NEW q, Known(q), q.step \in EvaluationSteps,
           NEW s \in {"grades", "exams", "rule"}, NEW seen
    PROVE  LET m == [step |-> s, choice |-> q.choice, queue |-> q.queue,
                     rule |-> q.rule, seen |-> seen, eligible |-> q.eligible]
           IN  Known(m) /\ m.step = s
<1> DEFINE m == [step |-> s, choice |-> q.choice, queue |-> q.queue,
                 rule |-> q.rule, seen |-> seen, eligible |-> q.eligible]
<1>1. Handling(m)
  BY DEF Known, Handling, EvaluationSteps
<1> QED BY <1>1 DEF Known

\* What is left of a request is still a request.
LEMMA ContinueKnown ==
    ASSUME RequestsKnown, NEW h \in Handler, handler[h].step \in EvaluationSteps
    PROVE  LET m == IF Len(handler[h].queue) = 1 THEN Idle
                    ELSE EmptyHanded(handler[h].choice, Tail(handler[h].queue))
           IN  Known(m) /\ m.step \in {"idle", "attendance"}
<1> DEFINE queue == handler[h].queue
<1>1. handler[h].choice \in Rule \cup {Latest} /\ queue \in Seq(Enrollment) \ {<<>>}
  BY Evaluating
<1>2. Len(queue) # 1 => Tail(queue) \in Seq(Enrollment) /\ Tail(queue) # <<>>
  <2>1. Len(queue) \in Nat /\ Len(queue) # 0
    <3>1. queue \in Seq(Enrollment) /\ queue # <<>>
      BY <1>1
    <3>2. \A seq \in Seq(Enrollment) : seq # <<>> => Len(seq) \in Nat \ {0}
      BY EmptySeq
    <3>3. Len(queue) \in Nat \ {0}
      BY <3>1, <3>2
    <3> QED BY <3>3
  <2>2. Tail(queue) \in Seq(Enrollment) /\ Len(Tail(queue)) = Len(queue) - 1
    BY <1>1, HeadTailProperties
  <2>3. ASSUME NEW t, t = <<>> PROVE Len(t) = 0
    BY <2>3
  <2> HIDE DEF queue
  <2>4. Tail(queue) = <<>> => Len(Tail(queue)) = 0
    BY <2>3
  <2> QED BY <2>1, <2>2, <2>4
<1> QED BY <1>1, <1>2, IdleKnown, EmptyHandedKnown

-----------------------------------------------------------------------------
(* Steps that write no evaluation *)

\* A request that was not between its two writes moves, and leaves the
\* evaluations alone.
LEMMA QuietStep ==
    ASSUME IInv, NEW h \in Handler, NEW m,
           handler' = [handler EXCEPT ![h] = m], Known(m),
           m.step \in {"update", "status"} => m.rule \in Rules',
           ~At(h, "write"),
           UNCHANGED <<results, evaluation, dropped>>,
           rule' \in [Rule -> RuleRow \cup {NoRule}], Rules \subseteq Rules'
    PROVE  IInv'
<1>1. /\ RequestsKnown'
      /\ \A x \in Handler : Handling(handler'[x])
      /\ \A x \in Handler : x # h => handler'[x] = handler[x]
  BY RequestStep DEF IInv
<1>2. TypeOK'
  BY <1>1 DEF IInv, TypeOK
<1>3. Gapless'
  BY DEF IInv, Gapless, Written
<1>4. VerdictStands'
  <2>1. \A e \in Enrollment, k \in Rule :
            /\ Judged(e, k)' = Judged(e, k)
            /\ Stands(e, k)' = Stands(e, k)
    BY DEF Judged, Stands, Standing, Written
  <2>2. \A e \in Enrollment, k \in Rule : Writing(e, k) => Writing(e, k)'
    BY <1>1 DEF Writing, At, Subject
  <2> QED BY <2>1, <2>2 DEF IInv, VerdictStands
<1> QED BY <1>1, <1>2, <1>3, <1>4 DEF IInv

\* A row of a rule that is written differs from none.
LEMMA RuleRowIsThere ==
    ASSUME NEW row \in RuleRow
    PROVE  row # NoRule
BY DEF RuleRow, NoRule

\* Writing a row of a rule keeps every rule that is there.
LEMMA RuleWritten ==
    ASSUME TypeOK, NEW k \in Rule, NEW row \in RuleRow,
           rule' = [rule EXCEPT ![k] = row]
    PROVE  rule' \in [Rule -> RuleRow \cup {NoRule}] /\ Rules \subseteq Rules'
<1>1. rule \in [Rule -> RuleRow \cup {NoRule}]
  BY DEF TypeOK
<1>2. rule' \in [Rule -> RuleRow \cup {NoRule}]
  BY <1>1
<1>3. \A j \in Rule : rule'[j] = IF j = k THEN row ELSE rule[j]
  BY <1>1
<1> QED BY <1>2, <1>3, RuleRowIsThere DEF Rules

\* What an author's request knows about its rule.
LEMMA Authoring ==
    ASSUME IInv, NEW h \in Handler, handler[h].step \in {"update", "status"}
    PROVE  /\ handler[h].rule \in Rule
           /\ rule[handler[h].rule] \in RuleRow
           /\ At(h, "status") => handler[h].to \in {"DRAFT", "PUBLISHED", "ARCHIVED"}
<1>1. handler[h].rule \in Rules /\ Handling(handler[h])
  BY DEF IInv, RequestsKnown, Known
<1>2. At(h, "status") => handler[h].to \in {"DRAFT", "PUBLISHED", "ARCHIVED"}
  BY <1>1 DEF At, Handling
<1> QED BY <1>1, <1>2 DEF IInv, TypeOK, Rules

LEMMA CreateRuleStep == IInv /\ CreateRule => IInv'
<1> SUFFICES ASSUME IInv, CreateRule PROVE IInv'
  OBVIOUS
<1> DEFINE k == Cardinality(Rules) + 1
<1>1. PICK C \in Offer :
        /\ k \in Rule
        /\ rule' = [rule EXCEPT ![k] = [status |-> "DRAFT", components |-> C,
                                        reworded |-> FALSE]]
        /\ UNCHANGED <<results, evaluation, dropped, handler>>
  BY DEF CreateRule
<1>2. [status |-> "DRAFT", components |-> C, reworded |-> FALSE] \in RuleRow
  BY DEF RuleRow
<1>3. rule' \in [Rule -> RuleRow \cup {NoRule}] /\ Rules \subseteq Rules'
  BY <1>1, <1>2, RuleWritten DEF IInv
<1>4. TypeOK' /\ RequestsKnown'
  BY <1>1, <1>3, RequestsStandStill DEF IInv, TypeOK
<1>5. Gapless' /\ VerdictStands'
  BY <1>1 DEF IInv, Gapless, VerdictStands, Judged, Stands, Standing, Written,
              Writing, At, Subject
<1> QED BY <1>4, <1>5 DEF IInv

LEMMA AuthorStep ==
    ASSUME IInv, NEW h \in Handler, Author(h)
    PROVE  IInv'
<1>0. rule \in [Rule -> RuleRow \cup {NoRule}]
  BY DEF IInv, TypeOK
<1>1. CASE ReadForUpdate(h)
  <2>1. PICK k \in Rules :
            handler' = [handler EXCEPT ![h] = [step |-> "update", rule |-> k]]
    BY <1>1 DEF ReadForUpdate
  <2>2. Known([step |-> "update", rule |-> k])
    BY DEF Known, Handling, EvaluationSteps, Rules
  <2>3. Rules' = Rules /\ UNCHANGED <<rule, results, evaluation, dropped>> /\ At(h, "idle")
    BY <1>1 DEF ReadForUpdate, Rules
  <2> QED BY <1>0, <2>1, <2>2, <2>3, QuietStep DEF At
<1>2. CASE ReadForStatus(h)
  <2>1. PICK k \in Rules, to \in {"DRAFT", "PUBLISHED", "ARCHIVED"} :
            handler' = [handler EXCEPT ![h] =
                            [step |-> "status", rule |-> k, to |-> to]]
    BY <1>2 DEF ReadForStatus
  <2>2. Known([step |-> "status", rule |-> k, to |-> to])
    BY DEF Known, Handling, EvaluationSteps, Rules
  <2>3. Rules' = Rules /\ UNCHANGED <<rule, results, evaluation, dropped>> /\ At(h, "idle")
    BY <1>2 DEF ReadForStatus, Rules
  <2> QED BY <1>0, <2>1, <2>2, <2>3, QuietStep DEF At
<1>3. CASE UpdateRule(h)
  <2> DEFINE k == handler[h].rule
             row == [rule[k] EXCEPT !.reworded = TRUE]
  <2>1. k \in Rule /\ rule[k] \in RuleRow /\ At(h, "update")
    BY <1>3, Authoring DEF UpdateRule, At
  <2>2. row \in RuleRow
    BY <2>1 DEF RuleRow
  <2>3. rule' = [rule EXCEPT ![k] = row]
    BY <1>3 DEF UpdateRule
  <2>4. /\ handler' = [handler EXCEPT ![h] = Idle]
        /\ UNCHANGED <<results, evaluation, dropped>>
    BY <1>3 DEF UpdateRule, Finish
  <2>5. rule' \in [Rule -> RuleRow \cup {NoRule}] /\ Rules \subseteq Rules'
    BY <2>1, <2>2, <2>3, RuleWritten DEF IInv
  <2> QED BY <2>1, <2>4, <2>5, IdleKnown, QuietStep DEF At
<1>4. CASE ChangeStatus(h)
  <2> DEFINE k == handler[h].rule
             row == [rule[k] EXCEPT !.status = handler[h].to]
  <2>1. /\ k \in Rule /\ rule[k] \in RuleRow /\ At(h, "status")
        /\ handler[h].to \in {"DRAFT", "PUBLISHED", "ARCHIVED"}
    BY <1>4, Authoring DEF ChangeStatus, At
  <2>2. row \in RuleRow
    BY <2>1 DEF RuleRow
  <2>3. rule' = [rule EXCEPT ![k] = row]
    BY <1>4 DEF ChangeStatus
  <2>4. /\ handler' = [handler EXCEPT ![h] = Idle]
        /\ UNCHANGED <<results, evaluation, dropped>>
    BY <1>4 DEF ChangeStatus, Finish
  <2>5. rule' \in [Rule -> RuleRow \cup {NoRule}] /\ Rules \subseteq Rules'
    BY <2>1, <2>2, <2>3, RuleWritten DEF IInv
  <2> QED BY <2>1, <2>4, <2>5, IdleKnown, QuietStep DEF At
<1> QED BY <1>1, <1>2, <1>3, <1>4 DEF Author

-----------------------------------------------------------------------------
(* Evaluations *)

LEMMA ReceiveStep ==
    ASSUME IInv, NEW h \in Handler, ReceiveEnrollment(h) \/ ReceiveBatch(h)
    PROVE  IInv'
<1>0. rule \in [Rule -> RuleRow \cup {NoRule}] /\ Rules \subseteq Rule
  BY DEF IInv, TypeOK, Rules
<1>1. CASE ReceiveEnrollment(h)
  <2>1. PICK e \in Serves[h], choice \in Rules \cup {Latest} :
            handler' = [handler EXCEPT ![h] = EmptyHanded(choice, <<e>>)]
    BY <1>1 DEF ReceiveEnrollment
  <2>2. e \in Enrollment
    BY GraduationAssumption
  <2>3. <<e>> \in Seq(Enrollment) /\ <<e>> # <<>>
    BY <2>2
  <2>4. UNCHANGED <<rule, results, evaluation, dropped>> /\ At(h, "idle")
    BY <1>1 DEF ReceiveEnrollment
  <2>5. choice \in Rule \cup {Latest}
    BY <1>0
  <2>6. /\ Known(EmptyHanded(choice, <<e>>))
        /\ EmptyHanded(choice, <<e>>).step = "attendance"
    BY <2>3, <2>5, EmptyHandedKnown
  <2> QED BY <1>0, <2>1, <2>4, <2>6, QuietStep DEF At, Rules
<1>2. CASE ReceiveBatch(h)
  <2>1. PICK choice \in Rules \cup {Latest} :
            /\ Resolvable(choice)
            /\ handler' = [handler EXCEPT ![h] = EmptyHanded(Resolve(choice), Cohort)]
    BY <1>2 DEF ReceiveBatch
  <2>2. Cohort \in Seq(Enrollment) /\ Cohort # <<>>
    BY <1>2, GraduationAssumption DEF ReceiveBatch
  <2>3. UNCHANGED <<rule, results, evaluation, dropped>> /\ At(h, "idle")
    BY <1>2 DEF ReceiveBatch
  <2>4. Resolve(choice) \in Rule \cup {Latest}
    BY <2>1, ResolveFinds
  <2>5. /\ Known(EmptyHanded(Resolve(choice), Cohort))
        /\ EmptyHanded(Resolve(choice), Cohort).step = "attendance"
    BY <2>2, <2>4, EmptyHandedKnown
  <2> QED BY <1>0, <2>1, <2>3, <2>5, QuietStep DEF At, Rules
<1> QED BY <1>1, <1>2

LEMMA ReadStep ==
    ASSUME IInv, NEW h \in Handler,
           ReadAttendance(h) \/ ReadGrades(h) \/ ReadExams(h)
    PROVE  IInv'
<1>0. rule \in [Rule -> RuleRow \cup {NoRule}]
  BY DEF IInv, TypeOK
<1>1. CASE ReadAttendance(h)
  <2> DEFINE x == results[Subject(h)].attendance
             s == [handler[h].seen EXCEPT !.attendance = x]
             m == [step |-> "grades", choice |-> handler[h].choice,
                   queue |-> handler[h].queue, rule |-> handler[h].rule,
                   seen |-> s, eligible |-> handler[h].eligible]
  <2>1. /\ handler' = [handler EXCEPT ![h] =
                [handler[h] EXCEPT !.seen.attendance = x, !.step = "grades"]]
        /\ UNCHANGED <<rule, results, evaluation, dropped>> /\ At(h, "attendance")
    BY <1>1 DEF ReadAttendance
  <2>2. [handler[h] EXCEPT !.seen.attendance = x, !.step = "grades"] = m
    <3> HIDE DEF x
    <3> DEFINE r == [handler[h] EXCEPT !.seen.attendance = x]
    <3>1. handler[h].step \in EvaluationSteps
      BY <2>1 DEF At, EvaluationSteps
    <3>2. PICK a, b, c, d, e, f : handler[h] =
            [step |-> a, choice |-> b, queue |-> c, rule |-> d,
             seen |-> e, eligible |-> f]
      BY <3>1, Evaluating DEF IInv
    <3>3. m = [step |-> "grades", choice |-> b, queue |-> c, rule |-> d,
               seen |-> [e EXCEPT !.attendance = x], eligible |-> f]
      BY <3>2
    <3>4. r = [step |-> a, choice |-> b, queue |-> c, rule |-> d,
               seen |-> [e EXCEPT !.attendance = x], eligible |-> f]
      BY <3>2
    <3>5. [handler[h] EXCEPT !.seen.attendance = x, !.step = "grades"]
            = [r EXCEPT !.step = "grades"]
      OBVIOUS
    <3> HIDE DEF r
    <3>6. [r EXCEPT !.step = "grades"] =
              [step |-> "grades", choice |-> b, queue |-> c, rule |-> d,
               seen |-> [e EXCEPT !.attendance = x], eligible |-> f]
      BY <3>4
    <3> QED BY <3>3, <3>5, <3>6
  <2>3. Known(m) /\ m.step = "grades"
    <3>1. handler[h].step \in EvaluationSteps /\ Known(handler[h])
      BY <2>1 DEF At, EvaluationSteps, IInv, RequestsKnown
    <3> HIDE DEF s
    <3> QED BY <3>1, StepOn
  <2> HIDE DEF m
  <2> QED BY <1>0, <2>1, <2>2, <2>3, QuietStep DEF At, Rules
<1>2. CASE ReadGrades(h)
  <2> DEFINE x == results[Subject(h)].grades
             s == [handler[h].seen EXCEPT !.grades = x]
             m == [step |-> "exams", choice |-> handler[h].choice,
                   queue |-> handler[h].queue, rule |-> handler[h].rule,
                   seen |-> s, eligible |-> handler[h].eligible]
  <2>1. /\ handler' = [handler EXCEPT ![h] =
                [handler[h] EXCEPT !.seen.grades = x, !.step = "exams"]]
        /\ UNCHANGED <<rule, results, evaluation, dropped>> /\ At(h, "grades")
    BY <1>2 DEF ReadGrades
  <2>2. [handler[h] EXCEPT !.seen.grades = x, !.step = "exams"] = m
    <3> HIDE DEF x
    <3> DEFINE r == [handler[h] EXCEPT !.seen.grades = x]
    <3>1. handler[h].step \in EvaluationSteps
      BY <2>1 DEF At, EvaluationSteps
    <3>2. PICK a, b, c, d, e, f : handler[h] =
            [step |-> a, choice |-> b, queue |-> c, rule |-> d,
             seen |-> e, eligible |-> f]
      BY <3>1, Evaluating DEF IInv
    <3>3. m = [step |-> "exams", choice |-> b, queue |-> c, rule |-> d,
               seen |-> [e EXCEPT !.grades = x], eligible |-> f]
      BY <3>2
    <3>4. r = [step |-> a, choice |-> b, queue |-> c, rule |-> d,
               seen |-> [e EXCEPT !.grades = x], eligible |-> f]
      BY <3>2
    <3>5. [handler[h] EXCEPT !.seen.grades = x, !.step = "exams"]
            = [r EXCEPT !.step = "exams"]
      OBVIOUS
    <3> HIDE DEF r
    <3>6. [r EXCEPT !.step = "exams"] =
              [step |-> "exams", choice |-> b, queue |-> c, rule |-> d,
               seen |-> [e EXCEPT !.grades = x], eligible |-> f]
      BY <3>4
    <3> QED BY <3>3, <3>5, <3>6
  <2>3. Known(m) /\ m.step = "exams"
    <3>1. handler[h].step \in EvaluationSteps /\ Known(handler[h])
      BY <2>1 DEF At, EvaluationSteps, IInv, RequestsKnown
    <3> HIDE DEF s
    <3> QED BY <3>1, StepOn
  <2> HIDE DEF m
  <2> QED BY <1>0, <2>1, <2>2, <2>3, QuietStep DEF At, Rules
<1>3. CASE ReadExams(h)
  <2> DEFINE x == results[Subject(h)].exams
             s == [handler[h].seen EXCEPT !.exams = x]
             m == [step |-> "rule", choice |-> handler[h].choice,
                   queue |-> handler[h].queue, rule |-> handler[h].rule,
                   seen |-> s, eligible |-> handler[h].eligible]
  <2>1. /\ handler' = [handler EXCEPT ![h] =
                [handler[h] EXCEPT !.seen.exams = x, !.step = "rule"]]
        /\ UNCHANGED <<rule, results, evaluation, dropped>> /\ At(h, "exams")
    BY <1>3 DEF ReadExams
  <2>2. [handler[h] EXCEPT !.seen.exams = x, !.step = "rule"] = m
    <3> HIDE DEF x
    <3> DEFINE r == [handler[h] EXCEPT !.seen.exams = x]
    <3>1. handler[h].step \in EvaluationSteps
      BY <2>1 DEF At, EvaluationSteps
    <3>2. PICK a, b, c, d, e, f : handler[h] =
            [step |-> a, choice |-> b, queue |-> c, rule |-> d,
             seen |-> e, eligible |-> f]
      BY <3>1, Evaluating DEF IInv
    <3>3. m = [step |-> "rule", choice |-> b, queue |-> c, rule |-> d,
               seen |-> [e EXCEPT !.exams = x], eligible |-> f]
      BY <3>2
    <3>4. r = [step |-> a, choice |-> b, queue |-> c, rule |-> d,
               seen |-> [e EXCEPT !.exams = x], eligible |-> f]
      BY <3>2
    <3>5. [handler[h] EXCEPT !.seen.exams = x, !.step = "rule"]
            = [r EXCEPT !.step = "rule"]
      OBVIOUS
    <3> HIDE DEF r
    <3>6. [r EXCEPT !.step = "rule"] =
              [step |-> "rule", choice |-> b, queue |-> c, rule |-> d,
               seen |-> [e EXCEPT !.exams = x], eligible |-> f]
      BY <3>4
    <3> QED BY <3>3, <3>5, <3>6
  <2>3. Known(m) /\ m.step = "rule"
    <3>1. handler[h].step \in EvaluationSteps /\ Known(handler[h])
      BY <2>1 DEF At, EvaluationSteps, IInv, RequestsKnown
    <3> HIDE DEF s
    <3> QED BY <3>1, StepOn
  <2> HIDE DEF m
  <2> QED BY <1>0, <2>1, <2>2, <2>3, QuietStep DEF At, Rules
<1> QED BY <1>1, <1>2, <1>3

LEMMA JudgeStep ==
    ASSUME IInv, NEW h \in Handler, Judge(h)
    PROVE  IInv'
<1>0. rule \in [Rule -> RuleRow \cup {NoRule}]
  BY DEF IInv, TypeOK
<1>1. /\ UNCHANGED <<rule, results, evaluation, dropped>> /\ At(h, "rule")
      /\ handler[h].step \in EvaluationSteps /\ Known(handler[h])
  BY DEF Judge, At, EvaluationSteps, IInv, RequestsKnown
<1>2. CASE ~Resolvable(handler[h].choice)
  <2>1. handler' = [handler EXCEPT ![h] = Idle]
    BY <1>2 DEF Judge, Finish
  <2> QED BY <1>0, <1>1, <2>1, IdleKnown, QuietStep DEF At, Rules
<1>3. CASE Resolvable(handler[h].choice)
  <2> DEFINE k == Resolve(handler[h].choice)
             b == Eligible(rule[k].components, handler[h].seen)
             m == [step |-> "supersede", choice |-> handler[h].choice,
                   queue |-> handler[h].queue, rule |-> k,
                   seen |-> handler[h].seen, eligible |-> b]
  <2>1. handler' = [handler EXCEPT ![h] =
            [handler[h] EXCEPT !.rule = k, !.step = "supersede", !.eligible = b]]
    BY <1>3 DEF Judge
  <2>2. k \in Rule
    BY <1>3, ResolveFinds
  <2>3. b \in BOOLEAN
    BY DEF Eligible
  <2> HIDE DEF k, b
  <2>4. [handler[h] EXCEPT !.rule = k, !.step = "supersede", !.eligible = b] = m
    <3> DEFINE r == [handler[h] EXCEPT !.rule = k]
               t == [r EXCEPT !.step = "supersede"]
    <3>1. PICK u, v, w, x, y, z : handler[h] =
            [step |-> u, choice |-> v, queue |-> w, rule |-> x,
             seen |-> y, eligible |-> z]
      BY <1>1, Evaluating DEF IInv
    <3>2. m = [step |-> "supersede", choice |-> v, queue |-> w, rule |-> k,
               seen |-> y, eligible |-> b]
      BY <3>1
    <3>3. r = [step |-> u, choice |-> v, queue |-> w, rule |-> k,
               seen |-> y, eligible |-> z]
      BY <3>1
    <3>4. [handler[h] EXCEPT !.rule = k, !.step = "supersede", !.eligible = b]
            = [t EXCEPT !.eligible = b]
      OBVIOUS
    <3> HIDE DEF r
    <3>5. t = [step |-> "supersede", choice |-> v, queue |-> w, rule |-> k,
               seen |-> y, eligible |-> z]
      BY <3>3
    <3> HIDE DEF t
    <3>6. [t EXCEPT !.eligible = b] =
              [step |-> "supersede", choice |-> v, queue |-> w, rule |-> k,
               seen |-> y, eligible |-> b]
      BY <3>5
    <3> QED BY <3>2, <3>4, <3>6
  <2>5. Known(m) /\ m.step = "supersede"
    BY <1>1, <2>2, <2>3 DEF Known, Handling, EvaluationSteps
  <2> HIDE DEF m
  <2> QED BY <1>0, <1>1, <2>1, <2>4, <2>5, QuietStep DEF At, Rules
<1> QED BY <1>2, <1>3

\* A verdict that stands is that of a row, and a row is written.
LEMMA RowsWritten ==
    ASSUME TypeOK, NEW id \in EvaluationId
    PROVE  /\ Written(id) <=> evaluation[id] \in EvaluationRow
           /\ Standing(id) => Written(id)
<1>1. evaluation[id] \in EvaluationRow \cup {NoEvaluation}
  BY DEF TypeOK
<1>2. \A row \in EvaluationRow : row # NoEvaluation
  BY SupersededRow
<1>3. NoEvaluation.outcome \notin Verdicts
  BY DEF NoEvaluation, Verdicts
<1> QED BY <1>1, <1>2, <1>3 DEF Written, Standing

LEMMA SupersedeStep ==
    ASSUME IInv, NEW h \in Handler, Supersede(h)
    PROVE  /\ IInv'
           /\ \A id \in EvaluationId : Written(id) =>
                evaluation'[id] \in {evaluation[id], Superseded(evaluation[id])}
<1> DEFINE e == Subject(h)
           k == handler[h].rule
           m == [handler[h] EXCEPT !.step = "write"]
<1>1. /\ TypeOK /\ RequestsKnown /\ At(h, "supersede")
      /\ handler[h].step \in EvaluationSteps
  BY DEF IInv, Supersede, At, EvaluationSteps
<1>2. e \in Enrollment /\ k \in Rule
  BY <1>1, Evaluating DEF At
<1>3. Known(m) /\ m.step = "write" /\ m.queue = handler[h].queue /\ m.rule = k
  <2>1. PICK u, v, w, x, y, z : handler[h] =
            [step |-> u, choice |-> v, queue |-> w, rule |-> x,
             seen |-> y, eligible |-> z]
    BY <1>1, Evaluating
  <2>2. m = [step |-> "write", choice |-> v, queue |-> w, rule |-> x,
             seen |-> y, eligible |-> z]
    BY <2>1
  <2>3. /\ v \in Rule \cup {Latest} /\ w \in Seq(Enrollment) \ {<<>>}
        /\ x \in Rule /\ z \in BOOLEAN
    BY <1>1, <2>1, Evaluating DEF At
  <2>4. handler[h].queue = w /\ k = x
    BY <2>1
  <2> HIDE DEF m, k
  <2> QED BY <2>2, <2>3, <2>4 DEF Known, Handling, EvaluationSteps
<1>4. /\ handler' = [handler EXCEPT ![h] = m]
      /\ UNCHANGED <<rule, results, dropped>>
      /\ evaluation' = [id \in EvaluationId |->
            IF /\ id[1] = e /\ Standing(id) /\ evaluation[id].rule = k
              THEN Superseded(evaluation[id]) ELSE evaluation[id]]
  BY DEF Supersede
<1> HIDE DEF e, k, m
<1>5. \A id \in EvaluationId :
        \/ /\ id[1] = e /\ Standing(id) /\ evaluation[id].rule = k
           /\ evaluation'[id] = Superseded(evaluation[id])
        \/ /\ ~(id[1] = e /\ Standing(id) /\ evaluation[id].rule = k)
           /\ evaluation'[id] = evaluation[id]
  BY <1>4
<1>6. \A id \in EvaluationId :
        /\ Written(id)' <=> Written(id)
        /\ Written(id) => evaluation'[id].rule = evaluation[id].rule
        /\ evaluation'[id] \in EvaluationRow \cup {NoEvaluation}
  <2> TAKE id \in EvaluationId
  <2>1. evaluation[id] \in EvaluationRow \cup {NoEvaluation}
    BY <1>1 DEF TypeOK
  <2>2. CASE evaluation'[id] = evaluation[id]
    BY <2>1, <2>2 DEF Written
  <2>3. CASE Standing(id) /\ evaluation'[id] = Superseded(evaluation[id])
    <3>1. evaluation[id] \in EvaluationRow
      BY <1>1, <2>3, RowsWritten
    <3>2. /\ evaluation'[id] \in EvaluationRow
          /\ evaluation'[id].rule = evaluation[id].rule
      BY <2>3, <3>1, SupersededRow
    <3> QED BY <3>1, <3>2, SupersededRow DEF Written
  <2> QED BY <1>5, <2>2, <2>3
<1>7. /\ RequestsKnown'
      /\ \A x \in Handler : Handling(handler'[x])
      /\ handler'[h] = m
      /\ \A x \in Handler : x # h => handler'[x] = handler[x]
  <2>1. Rules' = Rules
    BY <1>4 DEF Rules
  <2> QED BY <1>1, <1>3, <1>4, <2>1, RequestStep
<1>8. TypeOK'
  <2>1. evaluation' \in [EvaluationId -> EvaluationRow \cup {NoEvaluation}]
    BY <1>4, <1>6
  <2> QED BY <1>1, <1>4, <1>7, <2>1 DEF TypeOK
<1>9. Gapless'
  BY <1>6 DEF IInv, Gapless, EvaluationId
<1>10. VerdictStands'
  <2> SUFFICES ASSUME NEW f \in Enrollment, NEW j \in Rule, Judged(f, j)' # {}
               PROVE  Stands(f, j)' \/ Writing(f, j)' \/ <<f, j>> \in dropped'
    BY DEF VerdictStands
  <2>1. CASE f = e /\ j = k
    <3>1. At(h, "write")' /\ Subject(h)' = e /\ handler'[h].rule = k
      BY <1>3, <1>7 DEF At, Subject, e
    <3> QED BY <2>1, <3>1 DEF Writing
  <2>2. CASE ~(f = e /\ j = k)
    <3>1. \A n \in EvaluationNo : <<f, n>> \in EvaluationId /\ <<f, n>>[1] = f
      BY DEF EvaluationId
    <3>2. Judged(f, j)' = Judged(f, j)
      BY <1>6, <3>1 DEF Judged
    <3>3. \A n \in Judged(f, j) : evaluation'[<<f, n>>] = evaluation[<<f, n>>]
      BY <1>5, <2>2, <3>1 DEF Judged
    <3>4. Stands(f, j) => Stands(f, j)'
      BY <3>2, <3>3 DEF Stands, Standing
    <3>5. Writing(f, j) => Writing(f, j)'
      BY <1>1, <1>7 DEF Writing, At, Subject
    <3> QED BY <1>4, <3>2, <3>4, <3>5 DEF IInv, VerdictStands
  <2> QED BY <2>1, <2>2
<1> QED BY <1>5, <1>7, <1>8, <1>9, <1>10 DEF IInv

LEMMA CreateStep ==
    ASSUME IInv, NEW h \in Handler, CreateEvaluation(h)
    PROVE  /\ IInv'
           /\ \A id \in EvaluationId : Written(id) =>
                evaluation'[id] \in {evaluation[id], Superseded(evaluation[id])}
<1> DEFINE e == Subject(h)
           k == Count(e) + 1
           r == handler[h].rule
           row == [outcome |-> IF handler[h].eligible THEN "ELIGIBLE"
                                                      ELSE "NOT_ELIGIBLE",
                   eligible |-> handler[h].eligible, rule |-> r]
           m == IF Len(handler[h].queue) = 1 THEN Idle
                ELSE EmptyHanded(handler[h].choice, Tail(handler[h].queue))
<1>1. /\ TypeOK /\ RequestsKnown /\ Gapless /\ At(h, "write")
      /\ handler[h].step \in EvaluationSteps
  BY DEF IInv, CreateEvaluation, At, EvaluationSteps
<1>2. e \in Enrollment /\ r \in Rule /\ handler[h].eligible \in BOOLEAN
  BY <1>1, Evaluating DEF At
<1>3. row \in EvaluationRow /\ row.outcome \in Verdicts /\ row.rule = r
  BY <1>2 DEF EvaluationRow, Verdicts
<1>4. Known(m) /\ m.step \in {"idle", "attendance"}
  BY <1>1, ContinueKnown
<1>5. /\ k \in EvaluationNo
      /\ evaluation' = [evaluation EXCEPT ![<<e, k>>] = row]
      /\ handler' = [handler EXCEPT ![h] = m]
      /\ dropped' = dropped \ {<<e, r>>}
      /\ UNCHANGED <<rule, results>>
  BY DEF CreateEvaluation, Continue
<1>6. /\ Count(e) \in Nat
      /\ \A n \in EvaluationNo : n \in Nat /\ (Written(<<e, n>>) <=> n <= Count(e))
  BY <1>1, <1>2, <1>5, NextIsFree, GraduationAssumption DEF EvaluationNo
<1>7. ~Written(<<e, k>>) /\ \A n \in EvaluationNo : n < k => Written(<<e, n>>)
  BY <1>5, <1>6
<1> HIDE DEF e, k, r, row, m
<1>8. <<e, k>> \in EvaluationId
  BY <1>2, <1>5 DEF EvaluationId
<1>9. \A id \in EvaluationId :
        evaluation'[id] = IF id = <<e, k>> THEN row ELSE evaluation[id]
  BY <1>1, <1>5, <1>8 DEF TypeOK
<1>10. \A id \in EvaluationId : Written(id)' <=> Written(id) \/ id = <<e, k>>
  BY <1>3, <1>9, SupersededRow DEF Written
<1>11. \A f \in Enrollment, n \in EvaluationNo :
        <<f, n>> \in EvaluationId /\ (<<f, n>> = <<e, k>> <=> f = e /\ n = k)
  BY DEF EvaluationId
<1>12. /\ RequestsKnown'
       /\ \A x \in Handler : Handling(handler'[x])
       /\ \A x \in Handler : x # h => handler'[x] = handler[x]
  <2>1. Rules' = Rules
    BY <1>5 DEF Rules
  <2> QED BY <1>1, <1>4, <1>5, <2>1, RequestStep
<1>13. TypeOK'
  <2>1. evaluation' \in [EvaluationId -> EvaluationRow \cup {NoEvaluation}]
    BY <1>1, <1>3, <1>5 DEF TypeOK
  <2> QED BY <1>1, <1>5, <1>12, <2>1 DEF TypeOK
<1>14. Gapless'
  <2> SUFFICES ASSUME NEW f \in Enrollment, NEW i \in EvaluationNo,
                      NEW n \in EvaluationNo, i < n, Written(<<f, n>>)'
               PROVE  Written(<<f, i>>)'
    BY DEF Gapless
  <2>1. CASE Written(<<f, n>>)
    BY <1>1, <1>10, <1>11, <2>1 DEF Gapless
  <2>2. CASE f = e /\ n = k
    BY <1>7, <1>10, <1>11, <2>2
  <2> QED BY <1>10, <1>11, <2>1, <2>2
<1>15. VerdictStands'
  <2> SUFFICES ASSUME NEW f \in Enrollment, NEW j \in Rule, Judged(f, j)' # {}
               PROVE  Stands(f, j)' \/ Writing(f, j)' \/ <<f, j>> \in dropped'
    BY DEF VerdictStands
  <2>1. CASE f = e /\ j = r
    <3>0. PICK n \in EvaluationNo : n = k
      BY <1>5
    <3>1. evaluation'[<<f, n>>] = row /\ Written(<<f, n>>)'
      BY <1>8, <1>9, <1>10, <2>1, <3>0
    <3>2. n \in Judged(f, j)'
      BY <1>3, <2>1, <3>1 DEF Judged
    <3>3. Standing(<<f, n>>)'
      BY <1>3, <3>1 DEF Standing
    <3> QED BY <3>2, <3>3 DEF Stands
  <2>2. CASE ~(f = e /\ j = r)
    <3>1. \A n \in EvaluationNo : f = e /\ n = k => ~Written(<<f, n>>)
      BY <1>7
    <3>2. Judged(f, j)' = Judged(f, j)
      <4>1. ASSUME NEW n \in EvaluationNo
            PROVE  n \in Judged(f, j)' <=> n \in Judged(f, j)
        <5>1. CASE f = e /\ n = k
          BY <1>3, <1>9, <1>11, <2>2, <3>1, <5>1 DEF Judged
        <5>2. CASE ~(f = e /\ n = k)
          BY <1>9, <1>10, <1>11, <5>2 DEF Judged
        <5> QED BY <5>1, <5>2
      <4> QED BY <4>1 DEF Judged
    <3>3. \A n \in Judged(f, j) : evaluation'[<<f, n>>] = evaluation[<<f, n>>]
      BY <1>9, <1>11, <3>1 DEF Judged
    <3>4. Stands(f, j) => Stands(f, j)'
      BY <3>2, <3>3 DEF Stands, Standing
    <3>5. Writing(f, j) => Writing(f, j)'
      BY <1>12, <2>2 DEF Writing, At, Subject, e, r
    <3>6. <<f, j>> \in dropped => <<f, j>> \in dropped'
      BY <1>5, <2>2
    <3> QED BY <3>2, <3>4, <3>5, <3>6 DEF IInv, VerdictStands
  <2> QED BY <2>1, <2>2
<1>16. \A id \in EvaluationId : Written(id) => evaluation'[id] = evaluation[id]
  BY <1>7, <1>9
<1> QED BY <1>12, <1>13, <1>14, <1>15, <1>16 DEF IInv

LEMMA AbandonStep ==
    ASSUME IInv, NEW h \in Handler, Abandon(h)
    PROVE  IInv'
<1>1. /\ TypeOK /\ RequestsKnown
      /\ handler' = [handler EXCEPT ![h] = Idle]
      /\ UNCHANGED <<rule, results, evaluation>>
  BY DEF IInv, Abandon, Finish
<1>2. /\ RequestsKnown'
      /\ \A x \in Handler : Handling(handler'[x])
      /\ \A x \in Handler : x # h => handler'[x] = handler[x]
  <2>1. Rules' = Rules
    BY <1>1 DEF Rules
  <2> QED BY <1>1, <2>1, IdleKnown, RequestStep
<1>3. At(h, "write") => Subject(h) \in Enrollment /\ handler[h].rule \in Rule
  BY <1>1, Evaluating DEF At, EvaluationSteps
<1>4. TypeOK'
  <2>1. dropped' \subseteq Enrollment \X Rule
    BY <1>1, <1>3 DEF TypeOK, Abandon
  <2> QED BY <1>1, <1>2, <2>1 DEF TypeOK
<1>5. Gapless'
  BY <1>1 DEF IInv, Gapless, Written
<1>6. VerdictStands'
  <2> SUFFICES ASSUME NEW f \in Enrollment, NEW j \in Rule, Judged(f, j)' # {}
               PROVE  Stands(f, j)' \/ Writing(f, j)' \/ <<f, j>> \in dropped'
    BY DEF VerdictStands
  <2>1. Judged(f, j)' = Judged(f, j) /\ Stands(f, j)' = Stands(f, j)
    BY <1>1 DEF Judged, Stands, Standing, Written
  <2>2. dropped \subseteq dropped'
    BY DEF Abandon
  <2>3. CASE At(h, "write") /\ Subject(h) = f /\ handler[h].rule = j
    <3>1. ~Stands(f, j) => <<f, j>> \in dropped'
      BY <2>1, <2>3 DEF Abandon
    <3> QED BY <2>1, <3>1
  <2>4. CASE ~(At(h, "write") /\ Subject(h) = f /\ handler[h].rule = j)
    <3>1. Writing(f, j) => Writing(f, j)'
      BY <1>2, <2>4 DEF Writing, At, Subject
    <3> QED BY <2>1, <2>2, <3>1 DEF IInv, VerdictStands
  <2> QED BY <2>3, <2>4
<1> QED BY <1>2, <1>4, <1>5, <1>6 DEF IInv

\* What the other modules record concerns nobody's verdict.
LEMMA RecordStep ==
    ASSUME IInv, NEW e \in Enrollment, RecordResults(e)
    PROVE  IInv'
<1>1. UNCHANGED <<rule, evaluation, dropped, handler>>
  BY DEF RecordResults
<1>2. TypeOK'
  BY <1>1 DEF IInv, TypeOK, RecordResults
<1>3. RequestsKnown' /\ Gapless' /\ VerdictStands'
  BY <1>1 DEF IInv, RequestsKnown, Rules, Gapless, VerdictStands, Judged, Stands,
              Standing, Written, Writing, At, Subject
<1> QED BY <1>2, <1>3 DEF IInv

-----------------------------------------------------------------------------
(* The theorems *)

LEMMA InitIInv == Init => IInv
<1> SUFFICES ASSUME Init PROVE IInv
  OBVIOUS
<1>1. RequestsKnown
  BY IdleKnown DEF Init, RequestsKnown
<1>2. TypeOK
  BY <1>1 DEF Init, TypeOK, RequestsKnown, Known
<1>3. \A id \in EvaluationId : ~Written(id)
  BY DEF Init, Written
<1>4. Gapless /\ VerdictStands
  BY <1>3 DEF Gapless, VerdictStands, Judged, EvaluationId
<1> QED BY <1>1, <1>2, <1>4 DEF IInv

LEMMA NextIInv == IInv /\ [Next]_vars => IInv'
<1> SUFFICES ASSUME IInv, [Next]_vars PROVE IInv'
  OBVIOUS
<1>1. CASE CreateRule
  BY <1>1, CreateRuleStep
<1>2. CASE \E h \in Handler : Author(h) \/ Evaluate(h) \/ Abandon(h)
  <2>1. PICK h \in Handler : Author(h) \/ Evaluate(h) \/ Abandon(h)
    BY <1>2
  <2> QED BY <2>1, AuthorStep, ReceiveStep, ReadStep, JudgeStep, SupersedeStep,
             CreateStep, AbandonStep DEF Evaluate, Continued
<1>3. CASE \E e \in Enrollment : RecordResults(e)
  BY <1>3, RecordStep
<1>4. CASE UNCHANGED vars
  BY <1>4 DEF vars, IInv, TypeOK, RequestsKnown, Rules, Gapless, VerdictStands,
              Judged, Stands, Standing, Written, Writing, At, Subject
<1> QED BY <1>1, <1>2, <1>3, <1>4 DEF Next, Own

LEMMA Invariance == Spec => []IInv
BY InitIInv, NextIInv, PTL DEF Spec

\* Every row keeps to its columns and every handler to the locals of its step.
THEOREM TypesCorrect == Spec => []TypeOK
BY Invariance, PTL DEF IInv

\* Whoever was judged under a rule has a standing verdict under it, or one that
\* is about to be written, unless a request was lost between its two writes;
\* and this however many requests evaluate one enrollment at the same time.
THEOREM VerdictsCorrect == Spec => []VerdictStands
BY Invariance, PTL DEF IInv

\* No evaluation is deleted or rewritten: the only thing that ever happens to a
\* row is to be superseded, under its rule and with its snapshot.
THEOREM HistoryCorrect == Spec => HistoryKept
<1> DEFINE Kept == \A id \in EvaluationId : Written(id) =>
                evaluation'[id] \in {evaluation[id], Superseded(evaluation[id])}
<1>1. IInv /\ [Next]_vars => [Kept]_vars
  <2> SUFFICES ASSUME IInv, Next PROVE Kept
    OBVIOUS
  <2>1. CASE CreateRule
    BY <2>1 DEF CreateRule
  <2>2. CASE \E h \in Handler : Author(h) \/ Evaluate(h) \/ Abandon(h)
    <3>1. PICK h \in Handler : Author(h) \/ Evaluate(h) \/ Abandon(h)
      BY <2>2
    <3>2. CASE Supersede(h)
      BY <3>2, SupersedeStep
    <3>3. CASE CreateEvaluation(h)
      BY <3>3, CreateStep
    <3>4. CASE ~Supersede(h) /\ ~CreateEvaluation(h)
      <4>1. evaluation' = evaluation
        BY <3>1, <3>4
           DEF Author, Evaluate, Continued, Abandon, ReadForUpdate, UpdateRule,
               ReadForStatus, ChangeStatus, ReceiveEnrollment, ReceiveBatch,
               ReadAttendance, ReadGrades, ReadExams, Judge
      <4> QED BY <4>1
    <3> QED BY <3>2, <3>3, <3>4
  <2>3. CASE \E e \in Enrollment : RecordResults(e)
    BY <2>3 DEF RecordResults
  <2> QED BY <2>1, <2>2, <2>3 DEF Next, Own
<1> QED BY <1>1, Invariance, PTL DEF Spec, HistoryKept

-----------------------------------------------------------------------------
(* The rule engine *)

Observation == Nat \cup {None}

\* What is recorded of a participant: numbers, or nothing.
Recorded(x) ==
    /\ {"attendance", "grades", "exams"} \subseteq DOMAIN x
    /\ x.attendance \in Observation
    /\ x.grades \in [ClassSubject -> Observation]
    /\ x.exams \in [Assessment -> Observation]

\* No result of y is worse than it was in x, and the same subjects are graded.
Better(x, y) ==
    /\ x.attendance <= y.attendance
    /\ \A s \in ClassSubject : /\ x.grades[s] <= y.grades[s]
                               /\ y.grades[s] = None => x.grades[s] = None
                               /\ x.grades[s] = None => y.grades[s] = None
    /\ \A a \in Assessment : x.exams[a] <= y.exams[a]

\* The whole part of a quotient and the remainder.
LEMMA Quotient ==
    ASSUME NEW n \in Nat \ {0}, NEW a \in Nat
    PROVE  /\ a \div n \in Nat /\ a % n \in 0 .. n - 1
           /\ a = n * (a \div n) + (a % n)
<1>1. a % n \in 0 .. n - 1
  OBVIOUS
<1>2. a \div n \in Int
  OBVIOUS
<1>3. a = n * (a \div n) + (a % n)
  OBVIOUS
<1>4. a \div n \in Nat
  OBVIOUS
<1> QED
  BY <1>1, <1>3, <1>4

\* The smaller of two numbers has the smaller quotient, or the same one and a
\* remainder that is not larger.
LEMMA QuotientsInOrder ==
    ASSUME NEW n \in Nat \ {0}, NEW a \in Nat, NEW b \in Nat, a <= b
    PROVE  \/ a \div n < b \div n
           \/ a \div n = b \div n /\ a % n <= b % n
<1> DEFINE p == a \div n
           q == b \div n
           r == a % n
           s == b % n
<1>1. /\ p \in Nat /\ r \in 0 .. n - 1 /\ a = n * p + r
      /\ q \in Nat /\ s \in 0 .. n - 1 /\ b = n * q + s
  BY Quotient
<1> HIDE DEF p, q, r, s
<1>2. CASE q < p
  <2>1. PICK d \in Nat : p = q + 1 + d
    <3>1. p - q - 1 \in Nat /\ p = q + 1 + (p - q - 1)
      BY <1>1, <1>2
    <3> QED
      BY <3>1
  <2>2. n * p = n * q + n + n * d
    BY <1>1, <2>1
  <2>3. n * d \in Nat /\ n * q \in Nat /\ n * p \in Nat
    BY <1>1, <2>1
  <2> QED
    BY <1>1, <2>2, <2>3
<1>3. CASE p = q
  <2>1. n * p \in Nat /\ n * q = n * p
    BY <1>1, <1>3
  <2> QED
    BY <1>1, <1>3, <2>1 DEF p, q, r, s
<1> QED
  BY <1>1, <1>2, <1>3 DEF p, q, r, s

\* Rounding a mean keeps the order of the sums, wherever a tie falls.
LEMMA RoundedInOrder ==
    ASSUME NEW n \in Nat \ {0}, NEW a \in Nat, NEW b \in Nat, a <= b
    PROVE  Rounded(a, n) \in Nat /\ Rounded(b, n) \in Nat /\ Rounded(a, n) <= Rounded(b, n)
<1> DEFINE p == a \div n
           q == b \div n
           r == a % n
           s == b % n
<1>1. p \in Nat /\ r \in Nat /\ q \in Nat /\ s \in Nat
  BY Quotient
<1>2. p < q \/ (p = q /\ r <= s)
  BY QuotientsInOrder
<1>3. /\ Rounded(a, n) = IF 2 * r > n \/ (2 * r = n /\ p \in TieUp) THEN p + 1 ELSE p
      /\ Rounded(b, n) = IF 2 * s > n \/ (2 * s = n /\ q \in TieUp) THEN q + 1 ELSE q
  BY DEF Rounded
<1> HIDE DEF p, q, r, s
<1> QED
  BY <1>1, <1>2, <1>3

\* The mean of the same subjects, none of them graded worse.
LEMMA MeanRaised ==
    ASSUME NEW x, NEW y, Recorded(x), Recorded(y), Better(x, y)
    PROVE  \/ MeanScore(x) = None
           \/ MeanScore(x) \in Nat /\ MeanScore(y) \in Nat /\ MeanScore(x) <= MeanScore(y)
<1>1. Graded(x) = Graded(y)
  BY DEF Graded, Better
<1>2. CASE Graded(x) = {}
  BY <1>2 DEF MeanScore
<1>3. CASE Graded(x) # {}
  <2> DEFINE S == Graded(x)
             f == [s \in S |-> x.grades[s]]
             e == [s \in S |-> y.grades[s]]
  <2>1. /\ S \subseteq ClassSubject /\ f \in [S -> Nat] /\ e \in [S -> Nat]
        /\ \A s \in S : f[s] <= e[s]
    BY <1>1 DEF Graded, Recorded, Observation, Better
  <2>2. IsFiniteSet(S) /\ Cardinality(S) \in Nat \ {0}
    BY <1>3, <2>1, RulesAssumption, FS_Subset, FS_CardinalityType, FS_EmptySet
  <2>3. /\ MeanScore(x) = Rounded(SumFunction(f), Cardinality(S))
        /\ MeanScore(y) = Rounded(SumFunction(e), Cardinality(S))
    BY <1>1, <1>3 DEF MeanScore
  <2> HIDE DEF S, f, e
  <2>4. SumFunction(f) \in Nat /\ SumFunction(e) \in Nat
    BY <2>1, <2>2, SumIsNatural
  <2>5. SumFunction(f) <= SumFunction(e)
    <3>1. f \in [S -> Int] /\ e \in [S -> Int]
      BY <2>1
    <3> QED
      BY <2>1, <2>2, <3>1, SumOfLess
  <2> QED
    BY <2>2, <2>3, <2>4, <2>5, RoundedInOrder
<1> QED
  BY <1>2, <1>3

\* The best of some grades is one of them and not less than any.
LEMMA BestIsGreatest ==
    ASSUME NEW S, IsFiniteSet(S), S # {}, NEW f \in [S -> Nat]
    PROVE  /\ \E t \in S : BestOf({f[s] : s \in S}) = f[t]
           /\ \A s \in S : f[s] <= BestOf({f[t] : t \in S})
<1> DEFINE R == {f[s] : s \in S}
<1>1. R \subseteq Int /\ R # {}
  OBVIOUS
<1>2. IsFiniteSet(R)
  <2>1. f \in Surjection(S, R)
    BY DEF Surjection
  <2> QED
    BY <2>1, FS_Surjection
<1>3. \A y \in R : y \in Int
  BY <1>1
<1> HIDE DEF R
<1>4. PICK m \in R : \A y \in R : y <= m
  BY <1>1, <1>2, GreatestOf
<1>5. Max(R) \in R /\ \A y \in R : Max(R) >= y
  <2>1. \A y \in R : m >= y
    BY <1>3, <1>4
  <2> QED
    BY <2>1 DEF Max
<1>6. BestOf(R) = Max(R)
  BY <1>1 DEF BestOf
<1>7. BestOf(R) \in R /\ \A y \in R : y <= BestOf(R)
  BY <1>3, <1>5, <1>6
<1> QED
  BY <1>7 DEF R

\* The best of the same grades, none of them worse.
LEMMA BestRaised ==
    ASSUME NEW S, IsFiniteSet(S), NEW f \in [S -> Nat], NEW e \in [S -> Nat],
           \A s \in S : f[s] <= e[s]
    PROVE  \/ BestOf({f[s] : s \in S}) = None
           \/ /\ BestOf({f[s] : s \in S}) \in Nat /\ BestOf({e[s] : s \in S}) \in Nat
              /\ BestOf({f[s] : s \in S}) <= BestOf({e[s] : s \in S})
<1>1. CASE S = {}
  BY <1>1 DEF BestOf
<1>2. CASE S # {}
  <2>1. PICK t \in S : BestOf({f[s] : s \in S}) = f[t]
    BY <1>2, BestIsGreatest
  <2>2. PICK u \in S : BestOf({e[s] : s \in S}) = e[u]
    BY <1>2, BestIsGreatest
  <2>3. e[t] <= BestOf({e[s] : s \in S})
    BY <1>2, BestIsGreatest
  <2>4. e[t] <= e[u]
    BY <2>2, <2>3
  <2>5. f[t] \in Nat /\ e[t] \in Nat /\ e[u] \in Nat /\ f[t] <= e[t]
    OBVIOUS
  <2> QED
    BY <2>1, <2>2, <2>4, <2>5
<1> QED
  BY <1>1, <1>2

\* What a component observes gets no worse and does not go missing.
LEMMA ObservedRaised ==
    ASSUME NEW x, NEW y, Recorded(x), Recorded(y), Better(x, y),
           NEW c, c.type \in ComponentType, c.type = "FINAL_EXAM" => c.ref \in Assessment
    PROVE  \/ Observed(c, x) = None
           \/ /\ Observed(c, x) \in Nat /\ Observed(c, y) \in Nat
              /\ Observed(c, x) <= Observed(c, y)
<1>0. None = -1
  BY DEF None
<1>1. CASE c.type = "ATTENDANCE_PERCENTAGE"
  <2>1. Observed(c, x) = x.attendance /\ Observed(c, y) = y.attendance
    BY <1>1 DEF Observed
  <2> QED
    BY <1>0, <2>1 DEF Recorded, Observation, Better
<1>2. CASE c.type = "FINAL_SCORE"
  <2>1. Observed(c, x) = MeanScore(x) /\ Observed(c, y) = MeanScore(y)
    BY <1>2 DEF Observed
  <2> QED
    BY <2>1, MeanRaised
<1>3. CASE c.type = "REQUIRED_SUBJECT"
  <2> DEFINE S == {t \in Graded(x) : SubjectOf[t] = c.ref}
             f == [s \in S |-> x.grades[s]]
             e == [s \in S |-> y.grades[s]]
  <2>1. Graded(x) = Graded(y) /\ Graded(x) \subseteq ClassSubject
    BY DEF Graded, Better
  <2>2. /\ f \in [S -> Nat] /\ e \in [S -> Nat] /\ \A s \in S : f[s] <= e[s]
    BY <2>1 DEF Graded, Recorded, Observation, Better
  <2>3. IsFiniteSet(S)
    BY <2>1, RulesAssumption, FS_Subset
  <2>4. /\ Observed(c, x) = BestOf({x.grades[s] : s \in S})
        /\ Observed(c, y) = BestOf({y.grades[s] : s \in S})
    BY <1>3, <2>1 DEF Observed
  <2>5. /\ {x.grades[s] : s \in S} = {f[s] : s \in S}
        /\ {y.grades[s] : s \in S} = {e[s] : s \in S}
    OBVIOUS
  <2>6. /\ Observed(c, x) = BestOf({f[s] : s \in S})
        /\ Observed(c, y) = BestOf({e[s] : s \in S})
    BY <2>4, <2>5
  <2> HIDE DEF S, f, e
  <2>7. \/ BestOf({f[s] : s \in S}) = None
        \/ /\ BestOf({f[s] : s \in S}) \in Nat /\ BestOf({e[s] : s \in S}) \in Nat
           /\ BestOf({f[s] : s \in S}) <= BestOf({e[s] : s \in S})
    BY <2>2, <2>3, BestRaised
  <2> QED
    BY <2>6, <2>7
<1>4. CASE c.type = "FINAL_EXAM"
  <2>1. Observed(c, x) = x.exams[c.ref] /\ Observed(c, y) = y.exams[c.ref]
    BY <1>4 DEF Observed
  <2> QED
    BY <1>0, <1>4, <2>1 DEF Recorded, Observation, Better
<1> QED
  BY <1>1, <1>2, <1>3, <1>4 DEF ComponentType

\* A better result costs nobody a component, whatever its threshold.
LEMMA PassedRaised ==
    ASSUME NEW x, NEW y, Recorded(x), Recorded(y), Better(x, y),
           NEW c, c.type \in ComponentType, c.type = "FINAL_EXAM" => c.ref \in Assessment,
           c.threshold \in Nat \cup {None}, Passed(c, x)
    PROVE  Passed(c, y)
<1> DEFINE v == Observed(c, x)
           w == Observed(c, y)
           t == IF c.threshold = None THEN 0 ELSE c.threshold
<1>1. v # None /\ v >= t
  BY DEF Passed
<1>2. v \in Nat /\ w \in Nat /\ v <= w
  BY <1>1, ObservedRaised
<1>3. t \in Nat
  OBVIOUS
<1>4. None = -1
  BY DEF None
<1> HIDE DEF v, w, t
<1>5. w # None /\ w >= t
  BY <1>1, <1>2, <1>3, <1>4
<1> QED
  BY <1>5 DEF Passed, w, t

\* What is on record is in the type of the context.
LEMMA ContextRecorded ==
    ASSUME NEW x \in Context
    PROVE  Recorded(x)
BY EngineAssumption DEF Context, Recorded, Observation, None

\* A step makes one result better and keeps the type.
LEMMA StepIsBetter ==
    ASSUME context \in Context, EngineNext
    PROVE  context' \in Context /\ Better(context, context')
<1>0. /\ context = [attendance |-> context.attendance, grades |-> context.grades,
                    exams |-> context.exams]
      /\ context.attendance \in Percentage \cup {-1}
      /\ context.grades \in [ClassSubject -> Grade \cup {-1}]
      /\ context.exams \in [Assessment -> ExamScore \cup {-1}]
      /\ Percentage \cup Grade \cup ExamScore \subseteq Nat
      /\ None = -1
  BY EngineAssumption DEF Context, None
<1>a. ASSUME NEW p \in Percentage \cup {-1}, NEW g \in [ClassSubject -> Grade \cup {-1}],
             NEW x \in [Assessment -> ExamScore \cup {-1}],
             context' = [attendance |-> p, grades |-> g, exams |-> x]
      PROVE  context' \in Context
  BY <1>a DEF Context, None
<1>b. /\ context.attendance <= context.attendance
      /\ \A s \in ClassSubject : context.grades[s] <= context.grades[s]
      /\ \A a \in Assessment : context.exams[a] <= context.exams[a]
  BY <1>0
<1>1. ASSUME NEW s \in ClassSubject, RaiseGrade(s)
      PROVE  context' \in Context /\ Better(context, context')
  <2>1. PICK n \in Grade : /\ context.grades[s] # -1 /\ n > context.grades[s]
                           /\ context' = [context EXCEPT !.grades[s] = n]
    BY <1>1 DEF RaiseGrade, None
  <2>2. PICK g : g = [context.grades EXCEPT ![s] = n]
    OBVIOUS
  <2>3. context' = [attendance |-> context.attendance, grades |-> g, exams |-> context.exams]
    BY <1>0, <2>1, <2>2
  <2>4. /\ g \in [ClassSubject -> Grade \cup {-1}] /\ n \in Nat /\ g[s] = n
        /\ \A t \in ClassSubject \ {s} : g[t] = context.grades[t]
    BY <1>0, <2>1, <2>2
  <2>5. \A t \in ClassSubject : /\ context.grades[t] <= g[t]
                                /\ g[t] = -1 => context.grades[t] = -1
                                /\ context.grades[t] = -1 => g[t] = -1
    BY <1>0, <1>b, <2>1, <2>4
  <2> QED
    BY <1>0, <1>a, <1>b, <2>3, <2>4, <2>5 DEF Better
<1>2. ASSUME NEW a \in Assessment, RaiseExam(a)
      PROVE  context' \in Context /\ Better(context, context')
  <2>1. PICK n \in ExamScore : /\ n > context.exams[a]
                               /\ context' = [context EXCEPT !.exams[a] = n]
    BY <1>2 DEF RaiseExam
  <2>2. PICK x : x = [context.exams EXCEPT ![a] = n]
    OBVIOUS
  <2>3. context' = [attendance |-> context.attendance, grades |-> context.grades, exams |-> x]
    BY <1>0, <2>1, <2>2
  <2>4. /\ x \in [Assessment -> ExamScore \cup {-1}] /\ n \in Nat /\ x[a] = n
        /\ \A b \in Assessment \ {a} : x[b] = context.exams[b]
    BY <1>0, <2>1, <2>2
  <2>5. \A b \in Assessment : context.exams[b] <= x[b]
    BY <1>0, <1>b, <2>1, <2>4
  <2> QED
    BY <1>0, <1>a, <1>b, <2>3, <2>4, <2>5 DEF Better
<1>3. ASSUME RaiseAttendance
      PROVE  context' \in Context /\ Better(context, context')
  <2>1. PICK p \in Percentage : /\ p > context.attendance
                                /\ context' = [context EXCEPT !.attendance = p]
    BY <1>3 DEF RaiseAttendance
  <2>2. context' = [attendance |-> p, grades |-> context.grades, exams |-> context.exams]
    BY <1>0, <2>1
  <2>3. context.attendance <= p
    BY <1>0, <2>1
  <2> QED
    BY <1>0, <1>a, <1>b, <2>2, <2>3 DEF Better
<1> QED
  BY <1>1, <1>2, <1>3 DEF EngineNext

\* A better result never costs anybody a component, for every set of subjects and
\* assessments, all grades, percentages and scores, every well-formed rule and wherever
\* the float of a tied mean falls.
THEOREM RaisesKeepPassed ==
    EngineSpec => RaiseKeepsPassed
<1>1. EngineInit => context \in Context
  BY DEF EngineInit
<1>2. context \in Context /\ [EngineNext]_context => (context \in Context)'
  BY StepIsBetter
<1>3. context \in Context /\ [EngineNext]_context =>
        [\A c \in Components : Passed(c, context) => Passed(c, context)']_context
  <2> SUFFICES ASSUME context \in Context, EngineNext, NEW c \in Components,
                      Passed(c, context)
               PROVE  Passed(c, context)'
    OBVIOUS
  <2>1. PICK x, y : x = context /\ y = context'
    OBVIOUS
  <2>2. x \in Context /\ y \in Context /\ Better(x, y)
    BY <2>1, StepIsBetter
  <2>3. /\ c.type \in ComponentType /\ c.threshold \in Nat \cup {None}
        /\ c.type = "FINAL_EXAM" => c.ref \in Assessment
    <3>1. /\ c.type \in ComponentType /\ c.threshold \in 0 .. HundredPercent \cup {None}
          /\ c.type = "FINAL_EXAM" => c.ref \in Assessment
      BY EngineAssumption DEF WellFormed
    <3>2. 0 .. HundredPercent \subseteq Nat
      BY DEF HundredPercent
    <3> QED
      BY <3>1, <3>2
  <2>4. Passed(c, x)
    BY <2>1
  <2>5. Recorded(x) /\ Recorded(y)
    BY <2>2, ContextRecorded
  <2>6. Passed(c, y)
    BY <2>2, <2>3, <2>4, <2>5, PassedRaised
  <2> QED
    BY <2>1, <2>6
<1> QED
  BY <1>1, <1>2, <1>3, PTL DEF EngineSpec, RaiseKeepsPassed

\* Nobody is eligible under a rule that requires something nobody observed, whatever rule
\* and results.
THEOREM NothingPassesUnseen ==
    EngineSpec => []NothingObservedFails
<1>1. EngineInit => context \in Context
  BY DEF EngineInit
<1>2. context \in Context /\ [EngineNext]_context => (context \in Context)'
  BY StepIsBetter
<1>3. context \in Context => NothingObservedFails
  <2> SUFFICES ASSUME context \in Context, NEW c \in Components, Passed(c, context)
               PROVE  OnRecord(c)
    BY DEF NothingObservedFails, Eligible
  <2>1. Observed(c, context) # None
    BY DEF Passed
  <2>2. c.type \in ComponentType
    BY EngineAssumption DEF WellFormed
  <2>3. CASE c.type = "ATTENDANCE_PERCENTAGE"
    BY <2>1, <2>3 DEF Observed, OnRecord
  <2>4. CASE c.type = "FINAL_SCORE"
    BY <2>1, <2>4 DEF Observed, OnRecord, MeanScore, Graded
  <2>5. CASE c.type = "REQUIRED_SUBJECT"
    BY <2>1, <2>5 DEF Observed, OnRecord, BestOf, Graded
  <2>6. CASE c.type = "FINAL_EXAM"
    BY <2>1, <2>6 DEF Observed, OnRecord
  <2> QED
    BY <2>2, <2>3, <2>4, <2>5, <2>6 DEF ComponentType
<1> QED
  BY <1>1, <1>2, <1>3, PTL DEF EngineSpec
=============================================================================
