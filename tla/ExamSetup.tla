------------------------------ MODULE ExamSetup ------------------------------
(***************************************************************************)
(* One exam with its blueprint and a session of it, over the questions of  *)
(* QuestionVersions: ExamsService (apps/api/src/exams) and                 *)
(* ExamSessionsService (apps/api/src/exam-sessions).                       *)
(***************************************************************************)
EXTENDS QuestionVersions

CONSTANTS
    Rule,          \* blueprint rules
    Matches,       \* Matches[r]: the questions that the rule r draws from
    Need,          \* Need[r]: how many of their published versions it draws
    Setting,       \* what else an exam is configured with
    Candidate      \* enrollments that are assigned to the session

ASSUME ExamSetupAssumption ==
    /\ Matches \in [Rule -> SUBSET Item]
    /\ Need \in [Rule -> Nat]
    /\ Setting # {}

VARIABLES exam, session

ExamStatus    == {"DRAFT", "VALIDATED", "SCHEDULED", "CLOSED", "ARCHIVED"}
SessionStatus == {"DRAFT", "SCHEDULED", "OPEN", "CLOSED", "CANCELLED"}

setupTables == <<bankTables, exam, session>>

\* Where nobody saves a blueprint there is one with every rule.
ExamSetupInit ==
    /\ QuestionsInit
    /\ exam = [status |-> "DRAFT", setting |-> CHOOSE x \in Setting : TRUE,
                rules |-> IF "blueprint" \in calls THEN {} ELSE Rule]
    /\ session = [status |-> "DRAFT", seats |-> {}]

-----------------------------------------------------------------------------
(* ExamsService *)

Frozen(s) == s \in {"SCHEDULED", "CLOSED", "ARCHIVED"}

\* The transitions of ExamsService.status; the same status is written again.
ExamMoves(from, to) ==
    <<from, to>> \in {<<"DRAFT", "VALIDATED">>, <<"VALIDATED", "SCHEDULED">>,
                      <<"VALIDATED", "DRAFT">>, <<"SCHEDULED", "CLOSED">>,
                      <<"CLOSED", "ARCHIVED">>} \cup {<<s, s>> : s \in ExamStatus}

\* update
BeginSetting(h) == \E x \in Setting :
    /\ "setting" \in calls
    /\ ~Frozen(exam.status)
    /\ Receive(h, [step |-> "setting", setting |-> x])
    /\ UNCHANGED setupTables

SetSetting(h) ==
    /\ At(h, "setting")
    /\ exam' = [exam EXCEPT !.setting = handler[h].setting]
    /\ Commit(h)
    /\ UNCHANGED <<bankTables, session>>

\* blueprint: the rules are replaced as a whole, in a transaction.
BeginBlueprint(h) == \E R \in (SUBSET Rule) \ {{}} :
    /\ "blueprint" \in calls
    /\ ~Frozen(exam.status)
    /\ Receive(h, [step |-> "blueprint", rules |-> R])
    /\ UNCHANGED setupTables

SaveBlueprint(h) ==
    /\ At(h, "blueprint")
    /\ exam' = [exam EXCEPT !.rules = handler[h].rules]
    /\ Commit(h)
    /\ UNCHANGED <<bankTables, session>>

\* status: for VALIDATED the pools are counted first.
BeginExamStatus(h) == \E to \in ExamStatus :
    /\ "exam status" \in calls
    /\ to = "VALIDATED" => exam.rules # {}
    /\ ExamMoves(exam.status, to)
    /\ Receive(h, [step |-> IF to = "VALIDATED" THEN "pool" ELSE "exam status", to |-> to,
                   rules |-> IF to = "VALIDATED" THEN exam.rules ELSE {}])
    /\ UNCHANGED setupTables

\* countPool: the published versions of the questions that match.
Pool(r) == Cardinality(UNION {{<<i, n>> : n \in Published(i)} : i \in Matches[r]})

\* The pools, for one rule after the other
CountPool(h) == \E r \in Rule :
    LET q == handler[h]
    IN  /\ At(h, "pool") /\ r \in q.rules
        /\ IF Pool(r) < Need[r] THEN Finish(h)
           ELSE Reads(h, [q EXCEPT !.rules = @ \ {r},
                                   !.step = IF q.rules = {r} THEN "exam status" ELSE @])
        /\ UNCHANGED setupTables

SetExamStatus(h) ==
    /\ At(h, "exam status")
    /\ exam' = [exam EXCEPT !.status = handler[h].to]
    /\ Commit(h)
    /\ UNCHANGED <<bankTables, session>>

-----------------------------------------------------------------------------
(* ExamSessionsService *)

SessionMoves(from, to) ==
    <<from, to>> \in {<<"DRAFT", "SCHEDULED">>, <<"DRAFT", "CANCELLED">>,
                      <<"SCHEDULED", "OPEN">>, <<"SCHEDULED", "CANCELLED">>,
                      <<"OPEN", "CLOSED">>} \cup {<<s, s>> : s \in SessionStatus}

BeginSessionStatus(h) == \E to \in SessionStatus :
    /\ "session status" \in calls
    /\ SessionMoves(session.status, to)
    /\ Receive(h, [step |-> "session status", to |-> to])
    /\ UNCHANGED setupTables

SetSessionStatus(h) ==
    /\ At(h, "session status")
    /\ session' = [session EXCEPT !.status = handler[h].to]
    /\ Commit(h)
    /\ UNCHANGED <<bankTables, exam>>

\* Mutation: participants are assigned to an open session as well.
SeatsOpenLate(s) == s \in {"DRAFT", "SCHEDULED", "OPEN"}

SeatsOpen(s) == s \in {"DRAFT", "SCHEDULED"}

BeginSeat(h) == \E p \in Candidate :
    /\ "seat" \in calls
    /\ SeatsOpen(session.status)
    /\ Receive(h, [step |-> "seat", p |-> p])
    /\ UNCHANGED setupTables

\* addParticipant: a second row for the enrollment is refused.
AddParticipant(h) ==
    LET p == handler[h].p
    IN  /\ At(h, "seat")
        /\ IF p \in session.seats THEN Finish(h) /\ UNCHANGED session
           ELSE session' = [session EXCEPT !.seats = @ \cup {p}] /\ Commit(h)
        /\ UNCHANGED <<bankTables, exam>>

HandleExam(h) ==
    \/ BeginSetting(h) \/ SetSetting(h) \/ BeginBlueprint(h) \/ SaveBlueprint(h)
    \/ BeginExamStatus(h) \/ CountPool(h) \/ SetExamStatus(h)
    \/ BeginSessionStatus(h) \/ SetSessionStatus(h) \/ BeginSeat(h) \/ AddParticipant(h)

HandleSetup(h) ==
    \/ HandleQuestion(h) /\ UNCHANGED <<exam, session>>
    \/ HandleExam(h)

SetupRequest ==
    QuestionRequest
    \cup [step: {"setting"}, setting: Setting]
    \cup [step: {"blueprint"}, rules: SUBSET Rule]
    \cup [step: {"pool", "exam status"}, to: ExamStatus, rules: SUBSET Rule]
    \cup [step: {"session status"}, to: SessionStatus]
    \cup [step: {"seat"}, p: Candidate]

ExamSetupTypeOK ==
    /\ QuestionsTypeOK
    /\ exam \in [status: ExamStatus, setting: Setting, rules: SUBSET Rule]
    /\ session \in [status: SessionStatus, seats: SUBSET Candidate]

-----------------------------------------------------------------------------
(* Properties *)

\* A question that has a published version has one ever after, although the
\* version to retire is looked for before the transaction that retires it and
\* another publication may come in between.
NeverUnpublished ==
    [][\A i \in Item : Published(i) # {} => Published(i)' # {}]_version

\* Requests that no other one crosses keep the promise of exam preparation.
Preparation == INSTANCE ExamPreparation
KeepsPreparation ==
    Preparation!Init /\ [][Promised(Preparation!Next, Preparation!vars)]_(Preparation!vars)
=============================================================================
