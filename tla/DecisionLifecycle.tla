-------------------------- MODULE DecisionLifecycle --------------------------
(***************************************************************************)
(* What the graduation decisions promise: one decision for an evaluation,  *)
(* on a straight line DRAFT, APPROVED, REVOKED, its verdict corrected only *)
(* while it is in force, every act one atomic step.                        *)
(***************************************************************************)
CONSTANTS Evaluation, User, Verdict, Reason, Nobody, NoReason

VARIABLE decision

NoDecision == [status |-> "none"]

Draft(v) == [status |-> "DRAFT", verdict |-> v, approved |-> FALSE,
             approvedBy |-> Nobody, reason |-> NoReason]

InForce(v, u) == [Draft(v) EXCEPT !.status = "APPROVED", !.approved = TRUE,
                                  !.approvedBy = u]

\* Some are there already, drafts or in force.
Init == \A ev \in Evaluation :
    decision[ev] = NoDecision \/ \E v \in Verdict, u \in User :
        decision[ev] \in {Draft(v), InForce(v, u)}

Create(ev) == \E v \in Verdict :
    /\ decision[ev] = NoDecision
    /\ decision' = [decision EXCEPT ![ev] = Draft(v)]

\* With or without the name of who approves.
Approve(ev) == \E u \in User \cup {Nobody} :
    /\ decision[ev].status = "DRAFT"
    /\ decision' = [decision EXCEPT ![ev] = [@ EXCEPT
            !.status = "APPROVED", !.approved = TRUE, !.approvedBy = u]]

Correct(ev) == \E v \in Verdict :
    /\ decision[ev].status = "APPROVED"
    /\ decision' = [decision EXCEPT ![ev] = [@ EXCEPT !.verdict = v]]

Revoke(ev) == \E t \in Reason :
    /\ decision[ev].status = "APPROVED"
    /\ decision' = [decision EXCEPT ![ev] = [@ EXCEPT
            !.status = "REVOKED", !.reason = t]]

Next == \E ev \in Evaluation :
    Create(ev) \/ Approve(ev) \/ Correct(ev) \/ Revoke(ev)
=============================================================================
