------------------------- MODULE GraduationDecisions -------------------------
(***************************************************************************)
(* Formal decisions on evaluations: GraduationDecisionService over         *)
(* PrismaGraduationDecisionRepository (apps/api/src/graduation-decisions), *)
(* with the entries they append to the audit trail.                        *)
(*                                                                         *)
(* Each operation reads, judges what it read, writes by id and then, when  *)
(* the write is committed, appends its audit entry: three queries, three   *)
(* actions.  graduation_decisions declares the evaluation unique, so a     *)
(* decision is named by its evaluation.                                    *)
(***************************************************************************)
EXTENDS Integers, FiniteSets, Requests

CONSTANTS
    Evaluation,  \* rows of graduation_evaluations
    User,        \* those who approve, when the request names them
    Verdict,     \* GraduationDecisionOutcome
    Reason,      \* reasons given for a revocation, none of them blank
    Nobody, NoReason,
    MaxLost      \* bound: audit entries of a decision whose write fails

ASSUME DecisionAssumption ==
    /\ MaxLost \in Nat
    /\ User # {} /\ Verdict # {}
    /\ Nobody \notin User /\ NoReason \notin Reason

VARIABLES
    evaluation,  \* graduation_evaluations; this module only reads the outcome
    decision,    \* graduation_decisions
    trail,       \* the audit entries of each decision
    lost         \* history: the entries whose own write has failed

decisionTables == <<evaluation, decision, trail, lost>>

NoDecision == [status |-> "none"]

\* approved: approvedAt is set.
DecisionRow == [status: {"DRAFT", "APPROVED", "REVOKED"}, verdict: Verdict,
                approved: BOOLEAN, approvedBy: User \cup {Nobody},
                reason: Reason \cup {NoReason}]

Entry == [act: {"create"}, after: Verdict]
         \cup [act: {"approve"}, by: User \cup {Nobody}]
         \cup [act: {"correct"}, before: Verdict, after: Verdict]
         \cup [act: {"revoke"}, after: Reason]

Decided(ev) == decision[ev] # NoDecision

\* A call is received; the entry is the one its write will be audited with.
Decide(h, s, ev, entry) ==
    /\ entry.act \in calls
    /\ Receive(h, [step |-> s, ev |-> ev, entry |-> entry])

CommitToAudit(h) == Commits(h, [handler[h] EXCEPT !.step = "audit"])

\* Where nobody creates decisions there is one for each evaluation, a draft if it
\* is approved meanwhile.
DecisionsInit ==
    LET old == "create" \notin calls
        x   == CHOOSE v \in Verdict : TRUE
        u   == CHOOSE u \in User : TRUE
        row == [status |-> "DRAFT", verdict |-> x, approved |-> FALSE,
                approvedBy |-> Nobody, reason |-> NoReason]
        inForce == [row EXCEPT !.status = "APPROVED", !.approved = TRUE,
                               !.approvedBy = u]
        entries == {[act |-> "create", after |-> x]} \cup
                   {e \in {[act |-> "approve", by |-> u]} : "approve" \notin calls}
    IN  /\ evaluation = [ev \in Evaluation |->
                [outcome |-> IF old THEN "ELIGIBLE" ELSE "none"]]
        /\ decision = [ev \in Evaluation |->
                IF ~old THEN NoDecision
                ELSE IF "approve" \in calls THEN row ELSE inForce]
        /\ trail = [ev \in Evaluation |-> IF old THEN entries ELSE {}]
        /\ lost = [ev \in Evaluation |-> {}]

-----------------------------------------------------------------------------
(* create *)

\* Nothing produces PENDING, the other undecidable outcome.
Decidable(ev) == evaluation[ev].outcome \in {"ELIGIBLE", "NOT_ELIGIBLE"}

\* findEvaluationContext: refused unless the verdict still stands.
FindEvaluation(h) == \E ev \in Evaluation, v \in Verdict :
    /\ Decidable(ev)
    /\ Decide(h, "existing", ev, [act |-> "create", after |-> v])
    /\ UNCHANGED decisionTables

\* findByEvaluationId: refused when there is a decision.
FindExisting(h) ==
    /\ At(h, "existing")
    /\ IF Decided(handler[h].ev)
         THEN Finish(h) ELSE Goto(h, "insert")
    /\ UNCHANGED decisionTables

InsertDecision(h) ==
    LET ev == handler[h].ev
    IN  /\ At(h, "insert")
        /\ IF Decided(ev)
             THEN Finish(h) /\ UNCHANGED decision
             ELSE /\ decision' = [decision EXCEPT ![ev] =
                        [status |-> "DRAFT", verdict |-> handler[h].entry.after,
                         approved |-> FALSE, approvedBy |-> Nobody,
                         reason |-> NoReason]]
                  /\ CommitToAudit(h)
        /\ UNCHANGED <<evaluation, trail, lost>>

-----------------------------------------------------------------------------
(* approve, correct, revoke *)

\* Mutation: a draft can be revoked as well.
CanRevokeDraft(from, to) ==
    \/ from = "DRAFT" /\ to \in {"APPROVED", "REVOKED"}
    \/ from = "APPROVED" /\ to = "REVOKED"

CanTransition(from, to) ==
    \/ from = "DRAFT" /\ to = "APPROVED"
    \/ from = "APPROVED" /\ to = "REVOKED"

\* requireDecision and the check of the move; a refused one changes nothing.  The
\* request may name its approver and need not.
BeginApprove(h) == \E ev \in Evaluation, u \in User \cup {Nobody} :
    /\ Decided(ev) /\ CanTransition(decision[ev].status, "APPROVED")
    /\ Decide(h, "approve", ev, [act |-> "approve", by |-> u])
    /\ UNCHANGED decisionTables

\* Mutation: a revoked decision can still be corrected.
BeginCorrectLate(h) == \E ev \in Evaluation, v \in Verdict :
    /\ Decided(ev) /\ decision[ev].approved
    /\ Decide(h, "correct", ev, [act |-> "correct", after |-> v,
                                before |-> decision[ev].verdict])
    /\ UNCHANGED decisionTables

\* The entry keeps the verdict that was read as the one before.
BeginCorrect(h) == \E ev \in Evaluation, v \in Verdict :
    /\ Decided(ev) /\ decision[ev].status = "APPROVED"
    /\ Decide(h, "correct", ev, [act |-> "correct", after |-> v,
                                before |-> decision[ev].verdict])
    /\ UNCHANGED decisionTables

BeginRevoke(h) == \E ev \in Evaluation, t \in Reason :
    /\ Decided(ev) /\ CanTransition(decision[ev].status, "REVOKED")
    /\ Decide(h, "revoke", ev, [act |-> "revoke", after |-> t])
    /\ UNCHANGED decisionTables

\* The updates are by id: none of them repeats the check.
Approve(h) ==
    /\ At(h, "approve")
    /\ decision' = [decision EXCEPT ![handler[h].ev] = [@ EXCEPT
            !.status = "APPROVED", !.approved = TRUE,
            !.approvedBy = handler[h].entry.by]]
    /\ CommitToAudit(h)
    /\ UNCHANGED <<evaluation, trail, lost>>

\* Mutation: a correction is not audited.
CorrectUnaudited(h) ==
    /\ At(h, "correct")
    /\ decision' = [decision EXCEPT ![handler[h].ev] = [@ EXCEPT
            !.verdict = handler[h].entry.after]]
    /\ Commit(h)
    /\ UNCHANGED <<evaluation, trail, lost>>

Correct(h) ==
    /\ At(h, "correct")
    /\ decision' = [decision EXCEPT ![handler[h].ev] = [@ EXCEPT
            !.verdict = handler[h].entry.after]]
    /\ CommitToAudit(h)
    /\ UNCHANGED <<evaluation, trail, lost>>

Revoke(h) ==
    /\ At(h, "revoke")
    /\ decision' = [decision EXCEPT ![handler[h].ev] = [@ EXCEPT
            !.status = "REVOKED", !.reason = handler[h].entry.after]]
    /\ CommitToAudit(h)
    /\ UNCHANGED <<evaluation, trail, lost>>

\* audit.record: appended after the commit, in a write of its own.
Audit(h) ==
    /\ At(h, "audit")
    /\ trail' = [trail EXCEPT ![handler[h].ev] = @ \cup {handler[h].entry}]
    /\ Finish(h)
    /\ UNCHANGED <<evaluation, decision, lost>>

-----------------------------------------------------------------------------

\* A lost connection, a failed audit write or a restart between two queries.
LoseDecision(h) ==
    /\ Abandon(h)
    /\ IF At(h, "audit")
         THEN LET ev == handler[h].ev
              IN  /\ Cardinality(lost[ev]) < MaxLost
                  /\ lost' = [lost EXCEPT ![ev] = @ \cup {handler[h].entry}]
         ELSE UNCHANGED lost
    /\ UNCHANGED <<evaluation, decision, trail>>

HandleDecision(h) ==
    \/ FindEvaluation(h) \/ FindExisting(h) \/ InsertDecision(h)
    \/ BeginApprove(h) \/ BeginCorrect(h) \/ BeginRevoke(h)
    \/ Approve(h) \/ Correct(h) \/ Revoke(h) \/ Audit(h)

\* The graduation module writes an evaluation, and later supersedes it.
Evaluate(ev) == \E outcome \in {"ELIGIBLE", "NOT_ELIGIBLE"} :
    /\ evaluation[ev].outcome = "none"
    /\ evaluation' = [evaluation EXCEPT ![ev].outcome = outcome]
    /\ UNCHANGED <<decision, trail, lost, requests>>

Supersede(ev) ==
    /\ Decidable(ev)
    /\ evaluation' = [evaluation EXCEPT ![ev].outcome = "SUPERSEDED"]
    /\ UNCHANGED <<decision, trail, lost, requests>>

DecisionsOutside ==
    "create" \in calls /\ \E ev \in Evaluation : Evaluate(ev) \/ Supersede(ev)

DecisionRequest == [step: {"existing", "insert", "approve", "correct", "revoke", "audit"},
                    ev: Evaluation, entry: Entry]

DecisionsTypeOK ==
    /\ \A ev \in Evaluation : evaluation[ev].outcome \in
            {"none", "ELIGIBLE", "NOT_ELIGIBLE", "SUPERSEDED"}
    /\ decision \in [Evaluation -> DecisionRow \cup {NoDecision}]
    /\ trail \in [Evaluation -> SUBSET Entry]
    /\ lost \in [Evaluation -> SUBSET Entry]

-----------------------------------------------------------------------------
(* Properties *)

\* A decision in force has been approved and a revoked one was approved first and
\* has its reason, even when approvals, corrections and revocations of the same
\* decision overlap; a draft has neither approval, approver nor reason.  Each rests
\* on an evaluation that had a verdict.
RowComplete ==
    \A ev \in Evaluation : Decided(ev) =>
        /\ decision[ev].status = "DRAFT" =>
            /\ ~decision[ev].approved /\ decision[ev].approvedBy = Nobody
            /\ decision[ev].reason = NoReason
        /\ decision[ev].status # "DRAFT" => decision[ev].approved
        /\ decision[ev].status = "REVOKED" => decision[ev].reason # NoReason
        /\ evaluation[ev].outcome # "none"

Pending(ev) == {handler[h].entry : h \in {g \in Handler :
                    At(g, "audit") /\ handler[g].ev = ev}}

\* The trail, what is about to be appended to it and what could not be.
Account(ev) == trail[ev] \cup Pending(ev) \cup lost[ev]

\* The audit trail explains every row - the approval with the name it carries, if
\* any, why it was revoked and where its verdict comes from - and tells of no
\* approval, correction or revocation that did not happen, although entries are
\* appended after the commits and in any order.  The one gap there can be is an
\* entry whose own write has failed.
TrailExplains ==
    \A ev \in Evaluation :
        /\ Decided(ev) =>
            /\ decision[ev].approved =>
                [act |-> "approve", by |-> decision[ev].approvedBy] \in Account(ev)
            /\ decision[ev].reason # NoReason =>
                [act |-> "revoke", after |-> decision[ev].reason] \in Account(ev)
            /\ \E x \in Account(ev) :
                x.act \in {"create", "correct"} /\ x.after = decision[ev].verdict
        /\ \A x \in trail[ev] :
            /\ Decided(ev)
            /\ x.act \in {"approve", "correct"} => decision[ev].approved
            /\ x.act = "revoke" => decision[ev].reason # NoReason

\* Requests that no other one crosses take the steps of the straight-line
\* lifecycle, each of them atomic.
Lifecycle == INSTANCE DecisionLifecycle
KeepsLifecycle ==
    Lifecycle!Init /\ [][Promised(Lifecycle!Next, decision)]_decision
=============================================================================
